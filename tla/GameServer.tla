----------------------------- MODULE GameServer -----------------------------
(***************************************************************************)
(* The game server: spnet::server_interface (spiderNet.h:520-706) and      *)
(* CustomServer (GameServer.cpp), as two threads.                          *)
(*                                                                         *)
(*   asio thread   accepts and validates connections, closes sockets and   *)
(*                 pushes what clients send to m_qMessagesIn.              *)
(*   game thread   Run: ShyCheckAllPlayers, then Update, which hands every *)
(*                 queued message to OnMessage.                            *)
(*                                                                         *)
(* Sending to a closed connection calls OnClientDisconnect, which may call *)
(* ChooseNextPlayerForTurn, which sends again: the handlers of the game    *)
(* thread re-enter one another while a socket may close at any moment.  So *)
(* the game thread is a stack of activation records; a step runs from one  *)
(* read of a socket's state to the next.                                   *)
(*                                                                         *)
(* Clients are named by the ids nIDCounter gives them, 1 standing for      *)
(* 10000.  m_deqConnection is only pushed at its back, in the order of the *)
(* ids, so it is kept as what it holds for each id: the connection, a      *)
(* reset shared_ptr, or no entry.  The unordered_map PlayersList iterates  *)
(* in an order of its own.  What an action does to the map is GameWorld's  *)
(* business and is left out here.                                          *)
(***************************************************************************)
EXTENDS Integers, Sequences

CONSTANTS
    N,          \* clients
    MaxTurns,   \* actions of a turn (BaseTurnActions)
    Leavers,    \* clients whose connection may close
    EarlyKeys,  \* may a player press keys before its registration returned?
    Enemies,    \* may the world have enemies?
    MaxInbox,   \* bound: length of m_qMessagesIn
    MaxAI,      \* bound: messages of one AI turn
    MaxDepth    \* bound: activation records the stack has room for

Clients == 1 .. N
NULL == 0       \* a reset shared_ptr; also "no player" (CurrentPlayerID == 0)

ASSUME SizeAssumption ==
    N \in Nat \ {0} /\ MaxInbox \in Nat \ {0} /\ MaxAI \in Nat \ {0}
ASSUME DepthAssumption == MaxDepth \in Nat \ {0}
ASSUME TurnsAssumption == MaxTurns \in 1 .. 15   \* a 4-bit field
ASSUME EnvironmentAssumption ==
    Leavers \subseteq Clients /\ EarlyKeys \in BOOLEAN /\ Enemies \in BOOLEAN

VARIABLES
    order,            \* place of each id in PlayersList's iteration order
    sock,             \* m_socket and handshake of each connection
    nIDCounter,       \* next id to give
    registering,      \* clients that sent ClientRegisterOnServer
    m_deqConnection,  \* for each id "held", "null" (reset) or "absent"
    m_qMessagesIn,    \* incoming messages
    PlayersList,      \* registered players
    CurrentTurns,     \* CurrentTurns of each player
    CurrentPlayerID,
    GarbageIDs,       \* players to announce as gone
    enemies,          \* is an enemy alive?
    stack,            \* activation records, the running one first
    fault,            \* how the process died, "none" while it runs
    known,            \* players each client has been told of
    myTurn            \* clients told GamePlayerTurn and not yet GameEndPlayerTurn

net == <<order, sock, nIDCounter, registering, m_deqConnection, m_qMessagesIn>>
game == <<PlayersList, CurrentTurns, CurrentPlayerID, GarbageIDs, enemies>>
told == <<known, myTurn>>
vars == <<net, game, stack, fault, told>>

-----------------------------------------------------------------------------
(* Activation records: the label it is at, the client and the message it   *)
(* was given, its loop index and bound, and whether it reset an entry of   *)
(* the container it iterates over.                                         *)
NoMsg == [t |-> "none", p |-> NULL]
Msg(t, p) == [t |-> t, p |-> p]
Record(pc, c, m, n) ==
    [pc |-> pc, c |-> c, m |-> m, i |-> 1, n |-> n, dirty |-> FALSE]

RunRecord == Record("run", NULL, NoMsg, 0)
OnMessageRecord(c, m) == Record("on_message", c, m, Len(GarbageIDs))
MessageAllClientsRecord(m, ignore) ==
    Record("all", ignore, m, nIDCounter - 1)
MessageClientRecord(c, m) == Record("client", c, m, 0)
OnClientDisconnectRecord(c) == Record("disconnect", c, NoMsg, 0)
ChooseNextPlayerRecord(c) == Record("choose", c, NoMsg, 0)
MakeAITurnRecord(k) == Record("ai", NULL, NoMsg, k)

Top == Head(stack)
At(pc) == fault = "none" /\ Top.pc = pc
Become(r) == stack' = <<r>> \o Tail(stack)
Label(pc) == [Top EXCEPT !.pc = pc]
Return == stack' = Tail(stack) /\ UNCHANGED fault
Continue(r) == Become(r) /\ UNCHANGED fault
Crash(how) == fault' = how /\ UNCHANGED stack

\* The running record calls r and goes on as `then` when it returns.
Call(then, r) ==
    IF Len(stack) < MaxDepth
    THEN stack' = <<r, then>> \o Tail(stack) /\ UNCHANGED fault
    ELSE Crash("stack_overflow")

IsConnected(c) == sock[c] \in {"open", "valid"}
Quiet == fault = "none" /\ Len(stack) = 1

\* connection::Send to a connected client: what the client learns from m.
Deliver(to, m) ==
    /\ known' = [c \in Clients |->
                  IF c \notin to THEN known[c]
                  ELSE CASE m.t \in {"ClientAddPlayer", "ClientRegisterFromServer"}
                                -> known[c] \cup {m.p}
                         [] m.t = "GameRemovePlayer" -> known[c] \ {m.p}
                         [] OTHER -> known[c]]
    /\ myTurn' = CASE m.t = "GamePlayerTurn" -> myTurn \cup to
                   [] m.t = "GameEndPlayerTurn" -> myTurn \ to
                   [] OTHER -> myTurn

Init ==
    /\ sock = [c \in Clients |-> "none"]
    /\ registering = {}
    /\ nIDCounter = 1 /\ m_deqConnection = [c \in Clients |-> "absent"]
    /\ m_qMessagesIn = <<>>
    /\ order \in {f \in [Clients -> Clients] : \A c, d \in Clients : f[c] = f[d] => c = d}
    /\ PlayersList = {} /\ CurrentTurns = [c \in Clients |-> 0]
    /\ CurrentPlayerID = NULL /\ GarbageIDs = <<>>
    /\ enemies \in {FALSE, Enemies}
    /\ stack = <<RunRecord>> /\ fault = "none"
    /\ known = [c \in Clients |-> {}] /\ myTurn = {}

-----------------------------------------------------------------------------
(* The asio thread.                                                        *)

\* The accept handler pushes to m_deqConnection with no lock.  A range-for of
\* the game thread over it is at best unaffected (it keeps its end), at worst
\* undefined.
Iterating == \E k \in 1 .. Len(stack) : stack[k].pc \in {"all", "all_reset"}

Accept(c) ==
    /\ fault = "none" /\ c = nIDCounter
    /\ nIDCounter' = nIDCounter + 1
    /\ sock' = [sock EXCEPT ![c] = "open"]
    /\ m_deqConnection' = [m_deqConnection EXCEPT ![c] = "held"]
    /\ fault' \in {"none"} \cup (IF Iterating THEN {"data_race"} ELSE {})
    /\ UNCHANGED <<order, registering, m_qMessagesIn, game, stack, told>>

Validate(c) ==
    /\ fault = "none" /\ sock[c] = "open"
    /\ sock' = [sock EXCEPT ![c] = "valid"]
    /\ UNCHANGED <<order, nIDCounter, registering, m_deqConnection, m_qMessagesIn,
                   game, stack, fault, told>>

Close(c) ==
    /\ fault = "none" /\ IsConnected(c) /\ c \in Leavers
    /\ sock' = [sock EXCEPT ![c] = "closed"]
    /\ UNCHANGED <<order, nIDCounter, registering, m_deqConnection, m_qMessagesIn,
                   game, stack, fault, told>>

\* What a CustomClient may send: it registers once, after ClientAccepted; an
\* action carries the PlayerID it knows, 0 until its registration returned.
MayReceive(c) ==
    (IF c \in registering THEN {} ELSE {Msg("ClientRegisterOnServer", NULL)})
    \cup {Msg("ClientJustCheck", NULL)}
    \cup (IF c \in known[c] THEN {Msg("ServerGamePlayerActionApprove", c),
                                  Msg("MessageAll", NULL)} ELSE {})
    \cup (IF EarlyKeys THEN {Msg("ServerGamePlayerActionApprove", NULL),
                             Msg("MessageAll", NULL)} ELSE {})

Receive(c) ==
    /\ fault = "none" /\ sock[c] = "valid" /\ Len(m_qMessagesIn) < MaxInbox
    /\ \E m \in MayReceive(c) :
        /\ m_qMessagesIn' = Append(m_qMessagesIn, [remote |-> c, msg |-> m])
        /\ registering' = IF m.t = "ClientRegisterOnServer"
                          THEN registering \cup {c} ELSE registering
    /\ UNCHANGED <<order, sock, nIDCounter, m_deqConnection, game, stack, fault, told>>

-----------------------------------------------------------------------------
(* Run and Update(-1, true).                                               *)

Run ==
    /\ At("run")
    /\ \/ Call(Label("wait"),
               MessageAllClientsRecord(Msg("ServerShyConnectionCheck", NULL), NULL))
       \/ Continue(Label("wait"))
    /\ UNCHANGED <<net, game, told>>

Wait ==
    /\ At("wait") /\ m_qMessagesIn # <<>>
    /\ Continue(Label("update"))
    /\ UNCHANGED <<net, game, told>>

Update ==
    /\ At("update")
    /\ IF m_qMessagesIn = <<>>
       THEN Continue(Label("run")) /\ UNCHANGED m_qMessagesIn
       ELSE LET om == Head(m_qMessagesIn) IN
            /\ m_qMessagesIn' = Tail(m_qMessagesIn)
            /\ Call(Top, OnMessageRecord(om.remote, om.msg))
    /\ UNCHANGED <<order, sock, nIDCounter, registering, m_deqConnection, game, told>>

-----------------------------------------------------------------------------
(* MessageAllClients and MessageClient.                                    *)

Connections == {c \in Clients : m_deqConnection[c] = "held"}
Nulls == {c \in Clients : m_deqConnection[c] = "null"}

\* Entries of m_deqConnection an iteration has still to visit; Top.i is the
\* least id it may be at, Top.n the last id when the loop began.
ToVisit == {c \in Connections \cup Nulls : Top.i <= c /\ c <= Top.n}
Least(S) == CHOOSE c \in S : \A d \in S : c <= d

AllLostResetFirst(client) ==
    /\ Call([Top EXCEPT !.i = client + 1, !.dirty = TRUE], OnClientDisconnectRecord(client))
    /\ m_deqConnection' = [m_deqConnection EXCEPT ![client] = "null"]

AllLost(client) ==
    /\ Call([Top EXCEPT !.pc = "all_reset", !.i = client], OnClientDisconnectRecord(client))
    /\ UNCHANGED m_deqConnection

AllStep ==
    /\ At("all") /\ ToVisit # {}
    /\ LET client == Least(ToVisit) IN
       IF m_deqConnection[client] = "null"  \* OnClientDisconnect(nullptr)
       THEN Crash("null_deref") /\ UNCHANGED <<m_deqConnection, told>>
       ELSE IF IsConnected(client)
       THEN /\ Deliver({client} \ {Top.c}, Top.m)
            /\ Continue([Top EXCEPT !.i = client + 1])
            /\ UNCHANGED m_deqConnection
       ELSE AllLost(client) /\ UNCHANGED told
    /\ UNCHANGED <<order, sock, nIDCounter, registering, m_qMessagesIn, game>>

AllResetForgetsDirty ==
    /\ At("all_reset")
    /\ m_deqConnection' = [m_deqConnection EXCEPT ![Top.i] = "null"]
    /\ Continue([Top EXCEPT !.pc = "all", !.i = @ + 1])
    /\ UNCHANGED <<order, sock, nIDCounter, registering, m_qMessagesIn, game, told>>

\* client.reset() through the loop's reference into the deque.
AllReset ==
    /\ At("all_reset")
    /\ m_deqConnection' = [m_deqConnection EXCEPT ![Top.i] = "null"]
    /\ Continue([Top EXCEPT !.pc = "all", !.i = @ + 1, !.dirty = TRUE])
    /\ UNCHANGED <<order, sock, nIDCounter, registering, m_qMessagesIn, game, told>>

\* erase(remove(..., nullptr), end()): an outer iteration over the deque that
\* has yet to go on holds iterators to what was moved.

Erase(gone) ==
    /\ m_deqConnection' = [c \in Clients |-> IF c \in gone THEN "absent"
                                             ELSE m_deqConnection[c]]
    /\ IF (\E c \in gone : m_deqConnection[c] # "absent")
          /\ \E k \in 2 .. Len(stack) : stack[k].pc = "all_reset"
       THEN Crash("erased_under_loop")
       ELSE Return

AllEnd ==
    /\ At("all") /\ ToVisit = {}
    /\ IF Top.dirty THEN Erase(Nulls) ELSE Return /\ UNCHANGED m_deqConnection
    /\ UNCHANGED <<order, sock, nIDCounter, registering, m_qMessagesIn, game, told>>

MessageClient ==
    /\ At("client")
    /\ IF IsConnected(Top.c)
       THEN Deliver({Top.c}, Top.m) /\ Return
       ELSE Call(Label("client_erase"), OnClientDisconnectRecord(Top.c)) /\ UNCHANGED told
    /\ UNCHANGED <<net, game>>

\* client.reset() empties the parameter, not the deque's entry.
ClientErase ==
    /\ At("client_erase")
    /\ Erase(Nulls)
    /\ UNCHANGED <<order, sock, nIDCounter, registering, m_qMessagesIn, game, told>>

-----------------------------------------------------------------------------
(* OnClientDisconnect.                                                     *)

Forget(c) ==
    /\ PlayersList' = PlayersList \ {c}
    /\ GarbageIDs' = Append(GarbageIDs, c)
    /\ Return
    /\ UNCHANGED <<CurrentTurns, CurrentPlayerID, enemies>>

HoldsTurnNever(c) == FALSE
HoldsTurn(c) == c = CurrentPlayerID

OnClientDisconnect ==
    /\ At("disconnect")
    /\ IF Top.c \notin PlayersList
       THEN Return /\ UNCHANGED game
       ELSE IF HoldsTurn(Top.c)
       THEN Call(Label("forget"), ChooseNextPlayerRecord(Top.c)) /\ UNCHANGED game
       ELSE Forget(Top.c)
    /\ UNCHANGED <<net, told>>

DisconnectForget ==
    /\ At("forget")
    /\ Forget(Top.c)
    /\ UNCHANGED <<net, told>>

-----------------------------------------------------------------------------
(* ChooseNextPlayerForTurn and MakeAITurn.                                 *)

\* SetCurrentTurnActions(GetMaxTurnActions()).
FullTurnTooLong(p) == [CurrentTurns EXCEPT ![p] = MaxTurns + 1]
FullTurn(p) == [CurrentTurns EXCEPT ![p] = MaxTurns]

\* The players PlayersList iterates over after place k, and the first of some.
AfterSkipsOne(k) == {p \in PlayersList : order[p] > k + 1}
After(k) == {p \in PlayersList : order[p] > k}
First(S) == CHOOSE p \in S : \A q \in S : order[p] <= order[q]

\* A living enemy always finds a target among the players and acts.
AIActions == IF enemies THEN 1 .. MaxAI ELSE {0}

ChooseNextPlayerForTurn ==
    /\ At("choose")
    /\ IF PlayersList = {}
       THEN Return /\ UNCHANGED CurrentPlayerID
       ELSE IF Top.c = NULL
       THEN /\ CurrentPlayerID' = First(PlayersList)
            /\ Continue(Label("choose_send"))
       ELSE IF Top.c \notin PlayersList    \* ++ of end()
       THEN Crash("bad_iterator") /\ UNCHANGED CurrentPlayerID
       ELSE IF After(order[Top.c]) # {}
       THEN /\ CurrentPlayerID' = First(After(order[Top.c]))
            /\ Continue(Label("choose_send"))
       ELSE /\ \E k \in AIActions : Call(Label("choose_first"), MakeAITurnRecord(k))
            /\ UNCHANGED CurrentPlayerID
    /\ UNCHANGED <<net, PlayersList, CurrentTurns, GarbageIDs, enemies, told>>

ChooseFirst ==
    /\ At("choose_first")
    /\ IF PlayersList = {}                 \* *begin() of an empty map
       THEN Crash("bad_iterator") /\ UNCHANGED CurrentPlayerID
       ELSE CurrentPlayerID' = First(PlayersList) /\ Continue(Label("choose_send"))
    /\ UNCHANGED <<net, PlayersList, CurrentTurns, GarbageIDs, enemies, told>>

\* The search for the chosen player's connection, up to the first entry that
\* is it or that cannot be asked for its id.
ChooseSend ==
    /\ At("choose_send")
    /\ LET stops == Nulls \cup (Connections \cap {CurrentPlayerID})
       IN IF stops = {}                    \* "Can't start new turn"
          THEN Continue(Label("choose_set"))
          ELSE IF Least(stops) \in Nulls
          THEN Crash("null_deref")
          ELSE Call(Label("choose_set"),
                    MessageClientRecord(CurrentPlayerID, Msg("GamePlayerTurn", NULL)))
    /\ UNCHANGED <<net, game, told>>

ChooseSet ==
    /\ At("choose_set")
    /\ IF CurrentPlayerID \in PlayersList
       THEN /\ CurrentTurns' = FullTurn(CurrentPlayerID)
            /\ Return
       ELSE Crash("out_of_range") /\ UNCHANGED CurrentTurns
    /\ UNCHANGED <<net, PlayersList, CurrentPlayerID, GarbageIDs, enemies, told>>

MakeAITurn ==
    /\ At("ai")
    /\ IF Top.i <= Top.n
       THEN Call([Top EXCEPT !.i = @ + 1],
                 MessageAllClientsRecord(Msg("GameAITurnAction", NULL), NULL))
       ELSE Return
    /\ UNCHANGED <<net, game, told>>

-----------------------------------------------------------------------------
(* OnMessage.                                                              *)

\* The announcements of those who left, a range-for over GarbageIDs.  A
\* removal found on the way is pushed to the vector the loop runs over: it is
\* past the loop's end, and what is left to read may have been reallocated.
AnnounceLeaver ==
    /\ At("on_message") /\ Top.i <= Top.n
    /\ \E pid \in {GarbageIDs[Top.i]}
                  \cup (IF Len(GarbageIDs) > Top.n THEN {NULL} ELSE {}) :
         Call([Top EXCEPT !.i = @ + 1],
              MessageAllClientsRecord(Msg("GameRemovePlayer", pid), NULL))
    /\ UNCHANGED <<net, game, told>>

ClearGarbage ==
    /\ At("on_message") /\ Top.i > Top.n
    /\ GarbageIDs' = <<>>
    /\ Continue(Label(Top.m.t))
    /\ UNCHANGED <<net, PlayersList, CurrentTurns, CurrentPlayerID, enemies, told>>

Done == Label("done")

MessageDone ==
    /\ \/ At("done") \/ At("ClientJustCheck")
    /\ Return
    /\ UNCHANGED <<net, game, told>>

\* ClientRegisterOnServer
WithoutPlayer(c) == PlayersList
WithPlayer(c) == PlayersList \cup {c}

Register ==
    /\ At("ClientRegisterOnServer")
    /\ PlayersList' = WithPlayer(Top.c)
    /\ CurrentTurns' = FullTurn(Top.c)
    /\ Call(Label("send_world"),
            MessageClientRecord(Top.c, Msg("ClientRegisterFromServer", Top.c)))
    /\ UNCHANGED <<net, CurrentPlayerID, GarbageIDs, enemies, told>>

\* The map and the enemies.
SendWorld ==
    /\ At("send_world")
    /\ Call(Label("send_new"),
            MessageClientRecord(Top.c, Msg("ClientUpdateMap", NULL)))
    /\ UNCHANGED <<net, game, told>>

SendNewToNobody ==
    /\ At("send_new")
    /\ Continue([Label("send_others") EXCEPT !.i = 0])
    /\ UNCHANGED <<net, game, told>>

SendNew ==
    /\ At("send_new")
    /\ Call([Label("send_others") EXCEPT !.i = 0],
            MessageAllClientsRecord(Msg("ClientAddPlayer", Top.c), Top.c))
    /\ UNCHANGED <<net, game, told>>

\* A range-for over PlayersList; i is the place its iterator stands on.  An
\* iterator to an erased player cannot be advanced.
SendOthers ==
    /\ At("send_others")
    /\ IF Top.i # 0 /\ ~ \E p \in PlayersList : order[p] = Top.i
       THEN Crash("bad_iterator")
       ELSE LET next == First(After(Top.i))
                step == [Top EXCEPT !.i = order[next]]
            IN IF After(Top.i) = {} THEN Continue(Label("first_turn"))
               ELSE IF next = Top.c THEN Continue(step)
               ELSE Call(step, MessageClientRecord(Top.c, Msg("ClientAddPlayer", next)))
    /\ UNCHANGED <<net, game, told>>

AnybodysTurn == TRUE
NobodysTurn == CurrentPlayerID = NULL

FirstTurn ==
    /\ At("first_turn")
    /\ IF NobodysTurn
       THEN Call(Done, ChooseNextPlayerRecord(NULL))
       ELSE Return
    /\ UNCHANGED <<net, game, told>>

\* ServerGamePlayerActionApprove
MayActAnytime(c) == c \in PlayersList /\ CurrentTurns[c] > 0
MayAct(c) == c = CurrentPlayerID /\ c \in PlayersList /\ CurrentTurns[c] > 0

\* CheckPlayerAction looks the action's PlayerID up with at(), then answers.
Approve ==
    /\ At("ServerGamePlayerActionApprove")
    /\ MayAct(Top.c)
    /\ IF Top.m.p \notin PlayersList
       THEN Crash("out_of_range") /\ UNCHANGED <<CurrentTurns, enemies>>
       ELSE /\ CurrentTurns' = [CurrentTurns EXCEPT ![Top.c] = @ - 1]
            /\ enemies' \in {enemies, FALSE}   \* a move is also an attack
            /\ Call(Label("acted"),
                    MessageAllClientsRecord(Msg("GamePlayerActionValidated", NULL), NULL))
    /\ UNCHANGED <<net, PlayersList, CurrentPlayerID, GarbageIDs, told>>

Abort ==
    /\ At("ServerGamePlayerActionApprove")
    /\ MayAct(Top.c) => Top.m.p \in PlayersList   \* refused by CheckPlayerAction
    /\ Call(Done, MessageClientRecord(Top.c, Msg("GamePlayerActionAborted", NULL)))
    /\ UNCHANGED <<net, game, told>>

\* ClientPlayer, found before MessageAllClients, is read after it.
Acted ==
    /\ At("acted")
    /\ IF Top.c \notin PlayersList
       THEN Crash("bad_iterator")
       ELSE IF CurrentTurns[Top.c] = 0
       THEN Call(Label("end_turn"),
                 MessageClientRecord(Top.c, Msg("GameEndPlayerTurn", NULL)))
       ELSE Return
    /\ UNCHANGED <<net, game, told>>

EndTurn ==
    /\ At("end_turn")
    /\ Call(Label("next_turn"), ChooseNextPlayerRecord(Top.c))
    /\ UNCHANGED <<net, game, told>>

NextTurn ==
    /\ At("next_turn")
    /\ Call(Done, MessageAllClientsRecord(Msg("GameNextPlayerTurn", CurrentPlayerID), NULL))
    /\ UNCHANGED <<net, game, told>>

\* MessageAll reads the sender's name with PlayersList.at().
MessageAll ==
    /\ At("MessageAll")
    /\ IF Top.c \notin PlayersList
       THEN Crash("out_of_range")
       ELSE Call(Done, MessageAllClientsRecord(Msg("ServerMessage", Top.c), Top.c))
    /\ UNCHANGED <<net, game, told>>

-----------------------------------------------------------------------------
OnMessage ==
    \/ AnnounceLeaver \/ ClearGarbage \/ MessageDone
    \/ Register \/ SendWorld \/ SendNew \/ SendOthers \/ FirstTurn
    \/ Approve \/ Abort \/ Acted \/ EndTurn \/ NextTurn
    \/ MessageAll

Sending == AllStep \/ AllReset \/ AllEnd \/ MessageClient \/ ClientErase

Turns == ChooseNextPlayerForTurn \/ ChooseFirst \/ ChooseSend \/ ChooseSet \/ MakeAITurn

GameThread ==
    \/ Run \/ Wait \/ Update
    \/ OnMessage \/ Sending \/ Turns
    \/ OnClientDisconnect \/ DisconnectForget

AsioThread == \E c \in Clients : Accept(c) \/ Validate(c) \/ Close(c) \/ Receive(c)

\* A process that died stays dead; with every client gone the server waits.
Stopped ==
    /\ \/ fault # "none"
       \/ At("wait") /\ m_qMessagesIn = <<>> /\ \A c \in Clients : sock[c] = "closed"
    /\ UNCHANGED vars

Next == GameThread \/ AsioThread \/ Stopped

Spec == Init /\ [][Next]_vars

\* The game thread runs on; it owes nothing to the clients.
FairSpec == Spec /\ WF_vars(GameThread)

-----------------------------------------------------------------------------
Faults == {"none", "null_deref", "bad_iterator", "out_of_range",
           "erased_under_loop", "stack_overflow", "data_race"}
ClientMessages ==
    [t : {"ClientRegisterOnServer", "ClientJustCheck",
          "ServerGamePlayerActionApprove", "MessageAll"}, p : 0 .. N]
PlayerMessages == [t : {"ClientAddPlayer", "ClientRegisterFromServer"}, p : Clients]
OtherMessages ==
    [t : {"none", "ServerShyConnectionCheck", "ClientUpdateMap", "GameRemovePlayer",
          "GamePlayerActionValidated", "GamePlayerActionAborted", "GameAITurnAction",
          "GamePlayerTurn", "GameEndPlayerTurn", "GameNextPlayerTurn",
          "ServerMessage"}, p : 0 .. N]
Messages == ClientMessages \cup PlayerMessages \cup OtherMessages
Labels == {"run", "wait", "update", "on_message", "all", "all_reset", "client",
           "client_erase", "disconnect", "forget", "choose", "choose_first",
           "choose_send", "choose_set", "ai", "done", "send_world", "send_new",
           "send_others", "first_turn", "acted", "end_turn", "next_turn",
           "ClientRegisterOnServer", "ClientJustCheck",
           "ServerGamePlayerActionApprove", "MessageAll"}
Records == [pc : Labels, c : 0 .. N, m : Messages, i : Nat, n : Nat, dirty : BOOLEAN]

NetTypeOK ==
    /\ order \in [Clients -> Clients]
    /\ sock \in [Clients -> {"none", "open", "valid", "closed"}]
    /\ nIDCounter \in 1 .. N + 1
    /\ registering \subseteq Clients
    /\ m_deqConnection \in [Clients -> {"held", "null", "absent"}]
    /\ m_qMessagesIn \in Seq([remote : Clients, msg : ClientMessages])
GameTypeOK ==
    /\ PlayersList \subseteq Clients
    /\ CurrentTurns \in [Clients -> 0 .. MaxTurns]
    /\ CurrentPlayerID \in 0 .. N
    /\ GarbageIDs \in Seq(Clients)
    /\ enemies \in BOOLEAN
ToldTypeOK ==
    /\ known \in [Clients -> SUBSET Clients]
    /\ myTurn \subseteq Clients
ControlTypeOK ==
    /\ stack \in Seq(Records) /\ Len(stack) \in 1 .. MaxDepth
    /\ fault \in Faults

\* Every variable has its type: in particular a client is only ever told of
\* players that have an id, a player's actions fit their 4-bit field, and the
\* stack never runs empty.
TypeOK == NetTypeOK /\ GameTypeOK /\ ToldTypeOK /\ ControlTypeOK

\* Between two messages there is a turn exactly when there is a player, it
\* belongs to a registered player, and that player has actions left to spend:
\* otherwise nobody could ever act again (GameServer.cpp:467-473).
TurnHasHolder ==
    Quiet => /\ (CurrentPlayerID = NULL) <=> (PlayersList = {})
             /\ CurrentPlayerID # NULL =>
                  /\ CurrentPlayerID \in PlayersList
                  /\ CurrentTurns[CurrentPlayerID] > 0

\* Whenever ChooseNextPlayerForTurn looks for the connection of the player it
\* chose, there is one: "Can't start new turn. something wrong!"
\* (GameServer.cpp:107) is never reached.
TurnCanStart == At("choose_send") => CurrentPlayerID \in Connections

\* Between two messages every registered player has an entry in
\* m_deqConnection, so that a broadcast will find out when it leaves, and no
\* entry is null.
PlayersReachable == Quiet => PlayersList \subseteq Connections /\ Nulls = {}

\* Between two messages each connected player has been told of every player, in
\* whatever order they registered and whoever left in the middle of it.
RostersAgree ==
    Quiet => \A c \in PlayersList :
               IsConnected(c) => PlayersList \subseteq known[c]

\* Between two messages, of the connected clients the one that holds the turn,
\* and no other, was told "Your TURN!" and has not been told it ended.
OneTurnHolder ==
    Quiet => \A c \in Clients :
               IsConnected(c) => (c \in myTurn <=> c = CurrentPlayerID)

\* "it will be tidied up" (spiderNet.h:276): the entry of a dead client is erased
\* once the loops over m_deqConnection are done with it, never below a loop that
\* will go on.
NoErasedIteration == fault # "erased_under_loop"

\* A turn is taken from its holder only when its actions are spent or its
\* connection is closed.
TurnIsKept ==
    [][CurrentPlayerID' # CurrentPlayerID /\ CurrentPlayerID # NULL
         => \/ CurrentTurns[CurrentPlayerID] = 0
            \/ ~IsConnected(CurrentPlayerID)]_vars

\* Only the holder of the turn spends actions, one at a time.
OnlyHolderSpends ==
    [][\A c \in Clients :
         CurrentTurns'[c] < CurrentTurns[c]
           => c = CurrentPlayerID /\ CurrentTurns'[c] = CurrentTurns[c] - 1]_vars

\* As long as the players keep acting every registered player gets its turn:
\* the turn goes round PlayersList and skips nobody (GameServer.cpp:73-86).
TurnsGoRound ==
    []<><<\E c \in Clients : CurrentTurns'[c] < CurrentTurns[c]>>_vars
      => \A c \in Clients : c \in PlayersList ~> CurrentPlayerID = c

\* As long as nobody leaves and keys are pressed after registration only, no
\* handler dereferences, indexes or iterates wrongly and none recurses.
NoCrash == fault \in {"none", "data_race"}

\* "it will be tidied up" (spiderNet.h:276): removing a dead client that a
\* send came upon does not take the server down.
TidiedUp ==
    (\E k \in 1 .. Len(stack) : stack[k].pc \in {"disconnect", "forget"})
        => fault # "stack_overflow"
=============================================================================
