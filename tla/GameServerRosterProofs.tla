----------------------- MODULE GameServerRosterProofs -----------------------
(***************************************************************************)
(* The handlers of GameServer's game thread call one another: which may    *)
(* run above which, with which arguments, and what a call leaves behind    *)
(* for its caller.  From it, for any number of clients: a registered       *)
(* player can always be found in m_deqConnection, connected players know   *)
(* one another, and as long as nobody leaves no handler fails.             *)
(*                                                                         *)
(* The stack is counted from its bottom here, because a step changes only  *)
(* its top: frame[0] is Run or Update, frame[1] the handler it called,     *)
(* frame[depth] the running record.                                        *)
(***************************************************************************)
EXTENDS GameServerProofs

depth == Len(stack) - 1
frame == [j \in 0 .. Len(stack) - 1 |-> stack[Len(stack) - j]]

\* What a step does to the records: those below the running one stay.
Below == \A j \in 0 .. depth - 1 : frame'[j] = frame[j]
Stays(f) == depth' = depth /\ Below /\ frame'[depth] = f
Enters(f, r) ==
    depth' = depth + 1 /\ Below /\ frame'[depth] = f /\ frame'[depth + 1] = r
Leaves == depth > 0 /\ depth' = depth - 1 /\ Below

-----------------------------------------------------------------------------
(* Records from the bottom.                                                *)

LEMMA FramesOK ==
    ASSUME IInv
    PROVE  /\ depth \in Nat /\ Top = frame[depth] /\ 0 \in 0 .. depth /\ depth \in 0 .. depth
           /\ \A j \in 0 .. depth :
                /\ frame[j] \in Records /\ RecordOK(frame[j]) /\ frame[j].pc \in Labels
                /\ frame[j].pc \in RunLabels <=> j = 0
                /\ frame[j].pc \in MessageLabels => j = 1
<1>1. /\ stack \in Seq({r \in Records : RecordOK(r)}) /\ Len(stack) \in 1 .. MaxDepth
      /\ \A k \in 1 .. Len(stack) :
           /\ stack[k].pc \in RunLabels <=> k = Len(stack)
           /\ stack[k].pc \in MessageLabels => k = Len(stack) - 1
  BY DEF IInv, StackOK
<1>2. Len(stack) \in Nat \ {0}
  BY <1>1, DepthAssumption
<1>3. depth \in Nat /\ 0 .. depth = 0 .. Len(stack) - 1 /\ depth = Len(stack) - 1
  BY <1>2 DEF depth
<1>4. ASSUME NEW j \in 0 .. depth
      PROVE  /\ frame[j] = stack[Len(stack) - j] /\ Len(stack) - j \in 1 .. Len(stack)
             /\ Len(stack) - j = Len(stack) <=> j = 0
             /\ Len(stack) - j = Len(stack) - 1 <=> j = 1
  BY <1>2, <1>3 DEF frame
<1>5. ASSUME NEW j \in 0 .. depth
      PROVE  /\ frame[j] \in Records /\ RecordOK(frame[j]) /\ frame[j].pc \in Labels
             /\ frame[j].pc \in RunLabels <=> j = 0
             /\ frame[j].pc \in MessageLabels => j = 1
  <2>1. frame[j] \in {r \in Records : RecordOK(r)}
    BY <1>1, <1>4, ElementOfSeq
  <2>2. frame[j].pc \in Labels
    BY <2>1 DEF Records
  <2> QED BY <1>1, <1>4, <2>1, <2>2
<1>6. Top = frame[depth] /\ 0 \in 0 .. depth /\ depth \in 0 .. depth
  <2>1. 0 \in 0 .. depth /\ depth \in 0 .. depth
    BY <1>3
  <2>2. frame[depth] = stack[Len(stack) - depth] /\ Len(stack) - depth = 1
    BY <1>2, <1>3, <1>4, <2>1
  <2>3. Top = stack[1]
    BY <1>1, <1>2 DEF Top
  <2> QED BY <2>1, <2>2, <2>3
<1> QED BY <1>3, <1>5, <1>6

\* The stack whose records u take the place of the running one.
LEMMA OverIs ==
    ASSUME IInv, NEW R, Records \subseteq R, NEW u \in Seq(R), stack' = u \o Tail(stack)
    PROVE  /\ depth' = depth + Len(u) - 1 /\ Below
           /\ \A k \in 1 .. Len(u) : frame'[depth + Len(u) - k] = u[k]
<1>1. stack \in Seq(R) /\ Len(stack) \in Nat \ {0}
  <2>1. stack \in Seq(Records) /\ Len(stack) \in Nat \ {0}
    BY StackSeqOK, DepthAssumption
  <2> QED BY <2>1, SeqMonotonic
<1>2. /\ Len(stack') = Len(u) + Len(stack) - 1 /\ Len(u) \in Nat
      /\ \A k \in 1 .. Len(u) : stack'[k] = u[k]
      /\ \A k \in 2 .. Len(stack) : stack'[Len(u) + k - 1] = stack[k]
  BY <1>1, OverTail DEF Over
<1>3. depth' = depth + Len(u) - 1 /\ depth = Len(stack) - 1 /\ depth \in Nat
  BY <1>1, <1>2 DEF depth
<1>4. ASSUME NEW j \in 0 .. depth - 1 PROVE frame'[j] = frame[j]
  <2>1. /\ j \in 0 .. Len(stack') - 1 /\ j \in 0 .. Len(stack) - 1
        /\ Len(stack) - j \in 2 .. Len(stack)
        /\ Len(stack') - j = Len(u) + (Len(stack) - j) - 1
    BY <1>1, <1>2, <1>3
  <2>2. stack'[Len(u) + (Len(stack) - j) - 1] = stack[Len(stack) - j]
    BY <1>2, <2>1
  <2> QED BY <2>1, <2>2 DEF frame
<1>5. ASSUME NEW k \in 1 .. Len(u) PROVE frame'[depth + Len(u) - k] = u[k]
  <2>1. /\ depth + Len(u) - k \in 0 .. Len(stack') - 1
        /\ Len(stack') - (depth + Len(u) - k) = k
    BY <1>1, <1>2, <1>3
  <2> QED BY <1>2, <2>1 DEF frame
<1> QED BY <1>3, <1>4, <1>5 DEF Below

LEMMA ContinueIs ==
    ASSUME IInv, NEW f, Continue(f)
    PROVE  Stays(f) /\ fault' = fault
<1> DEFINE u == <<f>>
           R == Records \cup {f}
<1>1. u \in Seq(R) /\ Len(u) = 1 /\ u[1] = f /\ Records \subseteq R
  OBVIOUS
<1>2. stack' = u \o Tail(stack) /\ fault' = fault
  BY DEF Continue, Become
<1> HIDE DEF u, R
<1>3. /\ depth' = depth + Len(u) - 1 /\ Below
      /\ \A k \in 1 .. Len(u) : frame'[depth + Len(u) - k] = u[k]
  BY <1>1, <1>2, OverIs
<1>4. depth \in Nat
  BY FramesOK
<1>5. frame'[depth + 1 - 1] = f /\ depth + 1 - 1 = depth
  BY <1>1, <1>3, <1>4
<1> QED BY <1>1, <1>2, <1>3, <1>5 DEF Stays

LEMMA CallIs ==
    ASSUME IInv, NEW f, NEW r, Call(f, r), fault' = "none"
    PROVE  Enters(f, r) /\ fault' = fault
<1> DEFINE u == <<r, f>>
           R == Records \cup {f, r}
<1>1. u \in Seq(R) /\ Len(u) = 2 /\ u[1] = r /\ u[2] = f /\ Records \subseteq R
  OBVIOUS
<1>2. stack' = u \o Tail(stack) /\ fault' = fault
  BY DEF Call, Crash
<1> HIDE DEF u, R
<1>3. /\ depth' = depth + Len(u) - 1 /\ Below
      /\ \A k \in 1 .. Len(u) : frame'[depth + Len(u) - k] = u[k]
  BY <1>1, <1>2, OverIs
<1>4. depth \in Nat
  BY FramesOK
<1>5. /\ frame'[depth + 2 - 1] = r /\ depth + 2 - 1 = depth + 1
      /\ frame'[depth + 2 - 2] = f /\ depth + 2 - 2 = depth
  BY <1>1, <1>3, <1>4
<1> QED BY <1>1, <1>2, <1>3, <1>5 DEF Enters

LEMMA ReturnIs ==
    ASSUME IInv, Return, Top.pc \notin RunLabels
    PROVE  Leaves /\ fault' = fault
<1> DEFINE u == <<>>
<1>1. u \in Seq(Records) /\ Len(u) = 0
  OBVIOUS
<1>2. stack' = u \o Tail(stack) /\ fault' = fault
  <2>1. stack \in Seq(Records) /\ stack # <<>>
    BY StackSeqOK
  <2>2. Tail(stack) \in Seq(Records)
    BY <2>1
  <2> QED BY <2>2 DEF Return
<1> HIDE DEF u
<1>3. depth' = depth + Len(u) - 1 /\ Below
  BY <1>1, <1>2, OverIs
<1>4. depth \in Nat \ {0}
  BY FramesOK
<1> QED BY <1>1, <1>2, <1>3, <1>4 DEF Leaves

\* The running record goes on at pc, its loop at i.
Alters(f, pc, i, d) ==
    /\ f.pc = pc /\ f.i = i /\ f.dirty = d
    /\ f.c = Top.c /\ f.m = Top.m /\ f.n = Top.n
Fresh(r, pc, c, m, n) ==
    r.pc = pc /\ r.c = c /\ r.m = m /\ r.n = n /\ r.i = 1 /\ r.dirty = FALSE

Moves(pc, i, d) == depth' = depth /\ Below /\ Alters(frame'[depth], pc, i, d)
Pushes(pc, i, d, to, c, m, n) ==
    /\ depth' = depth + 1 /\ Below
    /\ Alters(frame'[depth], pc, i, d) /\ Fresh(frame'[depth + 1], to, c, m, n)

LEMMA AltersOK ==
    ASSUME IInv, NEW pc, NEW i, NEW d
    PROVE  /\ Alters([Top EXCEPT !.pc = pc, !.i = i, !.dirty = d], pc, i, d)
           /\ Alters([Top EXCEPT !.pc = pc, !.i = i], pc, i, Top.dirty)
           /\ Alters([Top EXCEPT !.i = i], Top.pc, i, Top.dirty)
           /\ Alters(Label(pc), pc, Top.i, Top.dirty)
           /\ Alters([Label(pc) EXCEPT !.i = i], pc, i, Top.dirty)
           /\ Alters(Top, Top.pc, Top.i, Top.dirty)
<1>1. Top \in Records
  BY RunningOK
<1> QED BY <1>1 DEF Alters, Records, Label

LEMMA FreshOK ==
    ASSUME NEW pc, NEW c, NEW m, NEW n
    PROVE  Fresh(Record(pc, c, m, n), pc, c, m, n)
BY DEF Fresh, Record

LEMMA MovesOK ==
    ASSUME IInv, NEW pc, NEW i, NEW d, NEW f, Continue(f), Alters(f, pc, i, d)
    PROVE  Moves(pc, i, d)
BY ContinueIs DEF Moves, Stays

LEMMA PushesOK ==
    ASSUME IInv, NEW pc, NEW i, NEW d, NEW f, Alters(f, pc, i, d),
           NEW to, NEW c, NEW m, NEW n, Call(f, Record(to, c, m, n)), fault' = "none"
    PROVE  Pushes(pc, i, d, to, c, m, n)
<1> DEFINE r == Record(to, c, m, n)
<1>1. Enters(f, r)
  BY CallIs
<1>2. Fresh(r, to, c, m, n)
  BY FreshOK
<1> HIDE DEF r
<1> QED BY <1>1, <1>2 DEF Pushes, Enters

\* The running record at another label.
LEMMA RelabelIs ==
    ASSUME IInv, NEW pc
    PROVE  /\ Continue(Label(pc)) => Moves(pc, Top.i, Top.dirty)
           /\ \A to, c, m, n : Call(Label(pc), Record(to, c, m, n)) /\ fault' = "none"
                => Pushes(pc, Top.i, Top.dirty, to, c, m, n)
           /\ fault' = "none" => ~ \E how : how # "none" /\ Crash(how)
<1>1. Alters(Label(pc), pc, Top.i, Top.dirty)
  BY AltersOK
<1>2. Continue(Label(pc)) => Moves(pc, Top.i, Top.dirty)
  BY <1>1, MovesOK
<1>3. ASSUME NEW to, NEW c, NEW m, NEW n, Call(Label(pc), Record(to, c, m, n)), fault' = "none"
      PROVE  Pushes(pc, Top.i, Top.dirty, to, c, m, n)
  BY <1>1, <1>3, PushesOK
<1> QED BY <1>2, <1>3 DEF Crash

-----------------------------------------------------------------------------
(* What each step of the game thread does to the records.                  *)

LEMMA RunLoopIs ==
    ASSUME IInv, fault' = "none"
    PROVE  /\ Run => /\ Top.pc = "run" /\ UNCHANGED <<net, game, told>>
                     /\ \/ Moves("wait", Top.i, Top.dirty)
                        \/ Pushes("wait", Top.i, Top.dirty, "all", NULL,
                                  Msg("ServerShyConnectionCheck", NULL), nIDCounter - 1)
           /\ Wait => /\ Top.pc = "wait" /\ UNCHANGED <<net, game, told>>
                      /\ Moves("update", Top.i, Top.dirty)
           /\ Update =>
                /\ Top.pc = "update" /\ UNCHANGED <<game, told>>
                /\ UNCHANGED <<order, sock, nIDCounter, registering, m_deqConnection>>
                /\ \/ Moves("run", Top.i, Top.dirty) /\ UNCHANGED m_qMessagesIn
                   \/ LET om == Head(m_qMessagesIn)
                      IN  /\ m_qMessagesIn # <<>> /\ m_qMessagesIn' = Tail(m_qMessagesIn)
                          /\ Pushes("update", Top.i, Top.dirty, "on_message", om.remote,
                                    om.msg, Len(GarbageIDs))
<1>1. ASSUME Run
      PROVE  /\ Top.pc = "run" /\ UNCHANGED <<net, game, told>>
             /\ \/ Moves("wait", Top.i, Top.dirty)
                \/ Pushes("wait", Top.i, Top.dirty, "all", NULL,
                          Msg("ServerShyConnectionCheck", NULL), nIDCounter - 1)
  BY <1>1, RelabelIs DEF Run, At, MessageAllClientsRecord
<1>2. ASSUME Wait
      PROVE  /\ Top.pc = "wait" /\ UNCHANGED <<net, game, told>>
             /\ Moves("update", Top.i, Top.dirty)
  BY <1>2, RelabelIs DEF Wait, At
<1>3. ASSUME Update
      PROVE  /\ Top.pc = "update" /\ UNCHANGED <<game, told>>
             /\ UNCHANGED <<order, sock, nIDCounter, registering, m_deqConnection>>
             /\ \/ Moves("run", Top.i, Top.dirty) /\ UNCHANGED m_qMessagesIn
                \/ LET om == Head(m_qMessagesIn)
                   IN  /\ m_qMessagesIn # <<>> /\ m_qMessagesIn' = Tail(m_qMessagesIn)
                       /\ Pushes("update", Top.i, Top.dirty, "on_message", om.remote,
                                 om.msg, Len(GarbageIDs))
  <2>1. Top.pc = "update"
    BY <1>3 DEF Update, At
  <2>2. Alters(Top, "update", Top.i, Top.dirty)
    BY <2>1, AltersOK
  <2>3. CASE m_qMessagesIn = <<>>
    BY <1>3, <2>1, <2>3, RelabelIs DEF Update
  <2>4. CASE m_qMessagesIn # <<>>
    <3> DEFINE om == Head(m_qMessagesIn)
    <3>1. Call(Top, Record("on_message", om.remote, om.msg, Len(GarbageIDs)))
      BY <1>3, <2>4 DEF Update, OnMessageRecord
    <3>2. Pushes("update", Top.i, Top.dirty, "on_message", om.remote, om.msg, Len(GarbageIDs))
      BY <2>2, <3>1, PushesOK
    <3> QED BY <1>3, <2>1, <2>4, <3>2 DEF Update
  <2> QED BY <1>3, <2>1, <2>3, <2>4 DEF Update
<1> QED BY <1>1, <1>2, <1>3

LEMMA AllStepIs ==
    ASSUME IInv, AllStep, fault' = "none"
    PROVE  /\ Top.pc = "all" /\ UNCHANGED <<net, game>>
           /\ Least(ToVisit) \in ToVisit /\ \A c \in ToVisit : Least(ToVisit) <= c
           /\ LET client == Least(ToVisit)
              IN  /\ m_deqConnection[client] # "null"
                  /\ \/ /\ IsConnected(client) /\ Deliver({client} \ {Top.c}, Top.m)
                        /\ Moves("all", client + 1, Top.dirty)
                     \/ /\ ~IsConnected(client) /\ UNCHANGED told
                        /\ Pushes("all_reset", client, Top.dirty, "disconnect", client, NoMsg, 0)
<1> DEFINE client == Least(ToVisit)
<1>1. Top.pc = "all" /\ UNCHANGED <<order, sock, nIDCounter, registering, m_qMessagesIn, game>>
  BY DEF AllStep, At
<1>2. ToVisit \subseteq Nat /\ ToVisit # {}
  BY SizeAssumption DEF AllStep, ToVisit, Connections, Nulls, Clients
<1>3. client \in ToVisit /\ \A c \in ToVisit : client <= c
  BY <1>2, LeastOK
<1>4. m_deqConnection[client] # "null"
  BY DEF AllStep, Crash
<1> HIDE DEF client
<1>5. CASE IsConnected(client)
  <2>1. /\ Deliver({client} \ {Top.c}, Top.m) /\ UNCHANGED m_deqConnection
        /\ Continue([Top EXCEPT !.i = client + 1])
    BY <1>4, <1>5 DEF AllStep, client
  <2>2. Alters([Top EXCEPT !.i = client + 1], "all", client + 1, Top.dirty)
    BY <1>1, AltersOK
  <2>3. Moves("all", client + 1, Top.dirty)
    BY <2>1, <2>2, MovesOK
  <2> QED BY <1>1, <1>3, <1>4, <1>5, <2>1, <2>3 DEF client, net
<1>6. CASE ~IsConnected(client)
  <2>1. /\ UNCHANGED <<told, m_deqConnection>>
        /\ Call([Top EXCEPT !.pc = "all_reset", !.i = client],
                Record("disconnect", client, NoMsg, 0))
    BY <1>4, <1>6 DEF AllStep, AllLost, OnClientDisconnectRecord, client
  <2>2. Alters([Top EXCEPT !.pc = "all_reset", !.i = client], "all_reset", client, Top.dirty)
    BY AltersOK
  <2>3. Pushes("all_reset", client, Top.dirty, "disconnect", client, NoMsg, 0)
    BY <2>1, <2>2, PushesOK
  <2> QED BY <1>1, <1>3, <1>4, <1>6, <2>1, <2>3 DEF client, net
<1> QED BY <1>5, <1>6

\* What erasing does to m_deqConnection.
Erases(gone) ==
    m_deqConnection' = [c \in Clients |-> IF c \in gone THEN "absent" ELSE m_deqConnection[c]]

NetButDeque == <<order, sock, nIDCounter, registering, m_qMessagesIn>>

LEMMA SendingIs ==
    ASSUME IInv, fault' = "none"
    PROVE  /\ AllReset =>
                /\ Top.pc = "all_reset" /\ UNCHANGED <<NetButDeque, game, told>>
                /\ m_deqConnection' = [m_deqConnection EXCEPT ![Top.i] = "null"]
                /\ Moves("all", Top.i + 1, TRUE)
           /\ AllEnd =>
                /\ Top.pc = "all" /\ UNCHANGED <<NetButDeque, game, told>> /\ ToVisit = {}
                /\ Leaves
                /\ IF Top.dirty THEN Erases(Nulls) ELSE UNCHANGED m_deqConnection
           /\ MessageClient =>
                /\ Top.pc = "client" /\ UNCHANGED <<net, game>>
                /\ \/ IsConnected(Top.c) /\ Deliver({Top.c}, Top.m) /\ Leaves
                   \/ /\ ~IsConnected(Top.c) /\ UNCHANGED told
                      /\ Pushes("client_erase", Top.i, Top.dirty, "disconnect", Top.c, NoMsg, 0)
           /\ ClientErase =>
                /\ Top.pc = "client_erase" /\ UNCHANGED <<NetButDeque, game, told>>
                /\ Leaves /\ Erases(Nulls)
<1>1. ASSUME AllReset
      PROVE  /\ Top.pc = "all_reset" /\ UNCHANGED <<NetButDeque, game, told>>
             /\ m_deqConnection' = [m_deqConnection EXCEPT ![Top.i] = "null"]
             /\ Moves("all", Top.i + 1, TRUE)
  <2>1. Continue([Top EXCEPT !.pc = "all", !.i = Top.i + 1, !.dirty = TRUE])
    BY <1>1 DEF AllReset
  <2>2. Alters([Top EXCEPT !.pc = "all", !.i = Top.i + 1, !.dirty = TRUE],
               "all", Top.i + 1, TRUE)
    BY AltersOK
  <2>3. Moves("all", Top.i + 1, TRUE)
    BY <2>1, <2>2, MovesOK
  <2> QED BY <1>1, <2>3 DEF AllReset, At, NetButDeque
<1>2. ASSUME AllEnd
      PROVE  /\ Top.pc = "all" /\ UNCHANGED <<NetButDeque, game, told>> /\ ToVisit = {}
             /\ Leaves
             /\ IF Top.dirty THEN Erases(Nulls) ELSE UNCHANGED m_deqConnection
  <2>1. Top.pc = "all" /\ Top.pc \notin RunLabels /\ Return
    BY <1>2 DEF AllEnd, At, RunLabels, Erase, Crash
  <2>2. Leaves
    BY <2>1, ReturnIs
  <2> QED BY <1>2, <2>1, <2>2 DEF AllEnd, Erase, Erases, NetButDeque
<1>3. ASSUME MessageClient
      PROVE  /\ Top.pc = "client" /\ UNCHANGED <<net, game>>
             /\ \/ IsConnected(Top.c) /\ Deliver({Top.c}, Top.m) /\ Leaves
                \/ /\ ~IsConnected(Top.c) /\ UNCHANGED told
                   /\ Pushes("client_erase", Top.i, Top.dirty, "disconnect", Top.c, NoMsg, 0)
  <2>1. Top.pc = "client" /\ Top.pc \notin RunLabels
    BY <1>3 DEF MessageClient, At, RunLabels
  <2> QED BY <1>3, <2>1, ReturnIs, RelabelIs DEF MessageClient, OnClientDisconnectRecord
<1>4. ASSUME ClientErase
      PROVE  /\ Top.pc = "client_erase" /\ UNCHANGED <<NetButDeque, game, told>>
             /\ Leaves /\ Erases(Nulls)
  <2>1. Top.pc = "client_erase" /\ Top.pc \notin RunLabels /\ Return
    BY <1>4 DEF ClientErase, At, RunLabels, Erase, Crash
  <2>2. Leaves
    BY <2>1, ReturnIs
  <2> QED BY <1>4, <2>1, <2>2 DEF ClientErase, Erase, Erases, NetButDeque
<1> QED BY <1>1, <1>2, <1>3, <1>4

\* The player c is taken off PlayersList and put on GarbageIDs.
Removes(c) ==
    /\ PlayersList' = PlayersList \ {c} /\ GarbageIDs' = Append(GarbageIDs, c)
    /\ UNCHANGED <<CurrentTurns, CurrentPlayerID, enemies>>

LEMMA DisconnectIs ==
    ASSUME IInv, fault' = "none"
    PROVE  /\ OnClientDisconnect =>
                /\ Top.pc = "disconnect" /\ UNCHANGED <<net, told>>
                /\ \/ Top.c \notin PlayersList /\ UNCHANGED game /\ Leaves
                   \/ /\ Top.c \in PlayersList /\ Top.c = CurrentPlayerID /\ UNCHANGED game
                      /\ Pushes("forget", Top.i, Top.dirty, "choose", Top.c, NoMsg, 0)
                   \/ /\ Top.c \in PlayersList /\ Top.c # CurrentPlayerID
                      /\ Removes(Top.c) /\ Leaves
           /\ DisconnectForget =>
                /\ Top.pc = "forget" /\ UNCHANGED <<net, told>> /\ Removes(Top.c) /\ Leaves
<1>1. ASSUME OnClientDisconnect
      PROVE  /\ Top.pc = "disconnect" /\ UNCHANGED <<net, told>>
             /\ \/ Top.c \notin PlayersList /\ UNCHANGED game /\ Leaves
                \/ /\ Top.c \in PlayersList /\ Top.c = CurrentPlayerID /\ UNCHANGED game
                   /\ Pushes("forget", Top.i, Top.dirty, "choose", Top.c, NoMsg, 0)
                \/ /\ Top.c \in PlayersList /\ Top.c # CurrentPlayerID
                   /\ Removes(Top.c) /\ Leaves
  <2>1. Top.pc = "disconnect" /\ Top.pc \notin RunLabels
    BY <1>1 DEF OnClientDisconnect, At, RunLabels
  <2>2. CASE Top.c \notin PlayersList
    BY <1>1, <2>1, <2>2, ReturnIs DEF OnClientDisconnect
  <2>3. CASE Top.c \in PlayersList /\ HoldsTurn(Top.c)
    BY <1>1, <2>1, <2>3, RelabelIs DEF OnClientDisconnect, HoldsTurn, ChooseNextPlayerRecord
  <2>4. CASE Top.c \in PlayersList /\ ~HoldsTurn(Top.c)
    BY <1>1, <2>1, <2>4, ReturnIs DEF OnClientDisconnect, HoldsTurn, Forget, Removes
  <2> QED BY <2>2, <2>3, <2>4
<1>2. ASSUME DisconnectForget
      PROVE  Top.pc = "forget" /\ UNCHANGED <<net, told>> /\ Removes(Top.c) /\ Leaves
  <2>1. Top.pc = "forget" /\ Top.pc \notin RunLabels
    BY <1>2 DEF DisconnectForget, At, RunLabels
  <2> QED BY <1>2, <2>1, ReturnIs DEF DisconnectForget, Forget, Removes
<1> QED BY <1>1, <1>2

TurnButHolder == <<PlayersList, CurrentTurns, GarbageIDs, enemies>>

LEMMA TurnsAre ==
    ASSUME IInv, fault' = "none"
    PROVE  /\ ChooseNextPlayerForTurn =>
                /\ Top.pc = "choose" /\ UNCHANGED <<net, TurnButHolder, told>>
                /\ \/ PlayersList = {} /\ UNCHANGED CurrentPlayerID /\ Leaves
                   \/ /\ PlayersList # {} /\ Top.c = NULL
                      /\ CurrentPlayerID' = First(PlayersList)
                      /\ Moves("choose_send", Top.i, Top.dirty)
                   \/ /\ Top.c # NULL /\ Top.c \in PlayersList /\ After(order[Top.c]) # {}
                      /\ CurrentPlayerID' = First(After(order[Top.c]))
                      /\ Moves("choose_send", Top.i, Top.dirty)
                   \/ /\ Top.c # NULL /\ Top.c \in PlayersList /\ After(order[Top.c]) = {}
                      /\ UNCHANGED CurrentPlayerID
                      /\ \E k \in AIActions :
                           Pushes("choose_first", Top.i, Top.dirty, "ai", NULL, NoMsg, k)
           /\ ChooseFirst =>
                /\ Top.pc = "choose_first" /\ UNCHANGED <<net, TurnButHolder, told>>
                /\ PlayersList # {} /\ CurrentPlayerID' = First(PlayersList)
                /\ Moves("choose_send", Top.i, Top.dirty)
           /\ ChooseSend =>
                /\ Top.pc = "choose_send" /\ UNCHANGED <<net, game, told>>
                /\ \/ /\ CurrentPlayerID \notin Connections /\ Nulls = {}
                      /\ Moves("choose_set", Top.i, Top.dirty)
                   \/ /\ CurrentPlayerID \in Connections
                      /\ Pushes("choose_set", Top.i, Top.dirty, "client", CurrentPlayerID,
                                Msg("GamePlayerTurn", NULL), 0)
           /\ ChooseSet =>
                /\ Top.pc = "choose_set" /\ UNCHANGED <<net, told>>
                /\ UNCHANGED <<PlayersList, CurrentPlayerID, GarbageIDs, enemies>>
                /\ CurrentPlayerID \in PlayersList
                /\ CurrentTurns' = FullTurn(CurrentPlayerID) /\ Leaves
           /\ MakeAITurn =>
                /\ Top.pc = "ai" /\ UNCHANGED <<net, game, told>>
                /\ \/ /\ Top.i <= Top.n
                      /\ Pushes("ai", Top.i + 1, Top.dirty, "all", NULL,
                                Msg("GameAITurnAction", NULL), nIDCounter - 1)
                   \/ ~(Top.i <= Top.n) /\ Leaves
<1>1. ASSUME ChooseNextPlayerForTurn
      PROVE  /\ Top.pc = "choose" /\ UNCHANGED <<net, TurnButHolder, told>>
             /\ \/ PlayersList = {} /\ UNCHANGED CurrentPlayerID /\ Leaves
                \/ /\ PlayersList # {} /\ Top.c = NULL
                   /\ CurrentPlayerID' = First(PlayersList)
                   /\ Moves("choose_send", Top.i, Top.dirty)
                \/ /\ Top.c # NULL /\ Top.c \in PlayersList /\ After(order[Top.c]) # {}
                   /\ CurrentPlayerID' = First(After(order[Top.c]))
                   /\ Moves("choose_send", Top.i, Top.dirty)
                \/ /\ Top.c # NULL /\ Top.c \in PlayersList /\ After(order[Top.c]) = {}
                   /\ UNCHANGED CurrentPlayerID
                   /\ \E k \in AIActions :
                        Pushes("choose_first", Top.i, Top.dirty, "ai", NULL, NoMsg, k)
  <2>1. Top.pc = "choose" /\ Top.pc \notin RunLabels /\ UNCHANGED <<net, TurnButHolder, told>>
    BY <1>1 DEF ChooseNextPlayerForTurn, At, RunLabels, TurnButHolder
  <2>2. CASE PlayersList = {}
    BY <1>1, <2>1, <2>2, ReturnIs DEF ChooseNextPlayerForTurn
  <2>3. CASE PlayersList # {} /\ Top.c = NULL
    BY <1>1, <2>1, <2>3, RelabelIs DEF ChooseNextPlayerForTurn
  <2>4. CASE PlayersList # {} /\ Top.c # NULL
    <3>1. Top.c \in PlayersList
      BY <1>1, <2>4 DEF ChooseNextPlayerForTurn, Crash
    <3>2. CASE After(order[Top.c]) # {}
      BY <1>1, <2>1, <2>4, <3>1, <3>2, RelabelIs DEF ChooseNextPlayerForTurn
    <3>3. CASE After(order[Top.c]) = {}
      <4>1. PICK k \in AIActions : Call(Label("choose_first"), Record("ai", NULL, NoMsg, k))
        BY <1>1, <2>4, <3>1, <3>3 DEF ChooseNextPlayerForTurn, MakeAITurnRecord
      <4>2. Pushes("choose_first", Top.i, Top.dirty, "ai", NULL, NoMsg, k)
        BY <4>1, RelabelIs
      <4>3. UNCHANGED CurrentPlayerID
        BY <1>1, <2>4, <3>1, <3>3 DEF ChooseNextPlayerForTurn
      <4> QED BY <2>1, <2>4, <3>1, <3>3, <4>2, <4>3
    <3> QED BY <3>2, <3>3
  <2> QED BY <2>2, <2>3, <2>4
<1>2. ASSUME ChooseFirst
      PROVE  /\ Top.pc = "choose_first" /\ UNCHANGED <<net, TurnButHolder, told>>
             /\ PlayersList # {} /\ CurrentPlayerID' = First(PlayersList)
             /\ Moves("choose_send", Top.i, Top.dirty)
  BY <1>2, RelabelIs DEF ChooseFirst, At, TurnButHolder, Crash
<1>3. ASSUME ChooseSend
      PROVE  /\ Top.pc = "choose_send" /\ UNCHANGED <<net, game, told>>
             /\ \/ /\ CurrentPlayerID \notin Connections /\ Nulls = {}
                   /\ Moves("choose_set", Top.i, Top.dirty)
                \/ /\ CurrentPlayerID \in Connections
                   /\ Pushes("choose_set", Top.i, Top.dirty, "client", CurrentPlayerID,
                             Msg("GamePlayerTurn", NULL), 0)
  <2> DEFINE stops == Nulls \cup (Connections \cap {CurrentPlayerID})
  <2>1. Top.pc = "choose_send" /\ UNCHANGED <<net, game, told>>
    BY <1>3 DEF ChooseSend, At
  <2>2. CASE stops = {}
    <3>1. Continue(Label("choose_set"))
      BY <1>3, <2>2 DEF ChooseSend
    <3> QED BY <2>1, <2>2, <3>1, RelabelIs
  <2>3. CASE stops # {}
    <3>1. stops \in SUBSET Nat
      BY SizeAssumption DEF Nulls, Connections, Clients
    <3>2. Least(stops) \in stops
      BY <2>3, <3>1, LeastOK
    <3>3. /\ Least(stops) \notin Nulls
          /\ Call(Label("choose_set"),
                  Record("client", CurrentPlayerID, Msg("GamePlayerTurn", NULL), 0))
      BY <1>3, <2>3 DEF ChooseSend, Crash, MessageClientRecord
    <3>4. CurrentPlayerID \in Connections
      BY <3>2, <3>3
    <3> QED BY <2>1, <3>3, <3>4, RelabelIs
  <2> QED BY <2>2, <2>3
<1>4. ASSUME ChooseSet
      PROVE  /\ Top.pc = "choose_set" /\ UNCHANGED <<net, told>>
             /\ UNCHANGED <<PlayersList, CurrentPlayerID, GarbageIDs, enemies>>
             /\ CurrentPlayerID \in PlayersList
             /\ CurrentTurns' = FullTurn(CurrentPlayerID) /\ Leaves
  <2>1. Top.pc = "choose_set" /\ Top.pc \notin RunLabels
    BY <1>4 DEF ChooseSet, At, RunLabels
  <2> QED BY <1>4, <2>1, ReturnIs DEF ChooseSet, Crash
<1>5. ASSUME MakeAITurn
      PROVE  /\ Top.pc = "ai" /\ UNCHANGED <<net, game, told>>
             /\ \/ /\ Top.i <= Top.n
                   /\ Pushes("ai", Top.i + 1, Top.dirty, "all", NULL,
                             Msg("GameAITurnAction", NULL), nIDCounter - 1)
                \/ ~(Top.i <= Top.n) /\ Leaves
  <2>1. Top.pc = "ai" /\ Top.pc \notin RunLabels
    BY <1>5 DEF MakeAITurn, At, RunLabels
  <2>2. Alters([Top EXCEPT !.i = Top.i + 1], "ai", Top.i + 1, Top.dirty)
    BY <2>1, AltersOK
  <2>3. CASE Top.i <= Top.n
    <3>1. Call([Top EXCEPT !.i = Top.i + 1],
               Record("all", NULL, Msg("GameAITurnAction", NULL), nIDCounter - 1))
      BY <1>5, <2>3 DEF MakeAITurn, MessageAllClientsRecord
    <3>2. Pushes("ai", Top.i + 1, Top.dirty, "all", NULL,
                 Msg("GameAITurnAction", NULL), nIDCounter - 1)
      BY <2>2, <3>1, PushesOK
    <3> QED BY <1>5, <2>1, <2>3, <3>2 DEF MakeAITurn
  <2>4. CASE ~(Top.i <= Top.n)
    BY <1>5, <2>1, <2>4, ReturnIs DEF MakeAITurn
  <2> QED BY <2>3, <2>4
<1> QED BY <1>1, <1>2, <1>3, <1>4, <1>5

LEMMA GarbageIs ==
    ASSUME IInv, fault' = "none"
    PROVE  /\ AnnounceLeaver =>
                /\ Top.pc = "on_message" /\ UNCHANGED <<net, game, told>> /\ Top.i <= Top.n
                /\ \E pid \in {GarbageIDs[Top.i], NULL} :
                     Pushes("on_message", Top.i + 1, Top.dirty, "all", NULL,
                            Msg("GameRemovePlayer", pid), nIDCounter - 1)
           /\ ClearGarbage =>
                /\ Top.pc = "on_message" /\ UNCHANGED <<net, told>> /\ GarbageIDs' = <<>>
                /\ UNCHANGED <<PlayersList, CurrentTurns, CurrentPlayerID, enemies>>
                /\ Moves(Top.m.t, Top.i, Top.dirty)
           /\ MessageDone =>
                /\ Top.pc \in {"done", "ClientJustCheck"}
                /\ UNCHANGED <<net, game, told>> /\ Leaves
<1>1. ASSUME AnnounceLeaver
      PROVE  /\ Top.pc = "on_message" /\ UNCHANGED <<net, game, told>> /\ Top.i <= Top.n
             /\ \E pid \in {GarbageIDs[Top.i], NULL} :
                  Pushes("on_message", Top.i + 1, Top.dirty, "all", NULL,
                         Msg("GameRemovePlayer", pid), nIDCounter - 1)
  <2>1. PICK pid \in {GarbageIDs[Top.i], NULL} :
               Call([Top EXCEPT !.i = Top.i + 1],
                    Record("all", NULL, Msg("GameRemovePlayer", pid), nIDCounter - 1))
    BY <1>1 DEF AnnounceLeaver, MessageAllClientsRecord
  <2>2. Top.pc = "on_message" /\ UNCHANGED <<net, game, told>> /\ Top.i <= Top.n
    BY <1>1 DEF AnnounceLeaver, At
  <2>3. Alters([Top EXCEPT !.i = Top.i + 1], "on_message", Top.i + 1, Top.dirty)
    BY <2>2, AltersOK
  <2>4. Pushes("on_message", Top.i + 1, Top.dirty, "all", NULL,
               Msg("GameRemovePlayer", pid), nIDCounter - 1)
    BY <2>1, <2>3, PushesOK
  <2> QED BY <2>2, <2>4
<1>2. ASSUME ClearGarbage
      PROVE  /\ Top.pc = "on_message" /\ UNCHANGED <<net, told>> /\ GarbageIDs' = <<>>
             /\ UNCHANGED <<PlayersList, CurrentTurns, CurrentPlayerID, enemies>>
             /\ Moves(Top.m.t, Top.i, Top.dirty)
  BY <1>2, RelabelIs DEF ClearGarbage, At
<1>3. ASSUME MessageDone
      PROVE  /\ Top.pc \in {"done", "ClientJustCheck"}
             /\ UNCHANGED <<net, game, told>> /\ Leaves
  <2>1. Top.pc \in {"done", "ClientJustCheck"} /\ Top.pc \notin RunLabels
    BY <1>3 DEF MessageDone, At, RunLabels
  <2> QED BY <1>3, <2>1, ReturnIs DEF MessageDone
<1> QED BY <1>1, <1>2, <1>3

LEMMA RegisterIs ==
    ASSUME IInv, fault' = "none"
    PROVE  /\ Register =>
                /\ Top.pc = "ClientRegisterOnServer"
                /\ UNCHANGED <<net, CurrentPlayerID, GarbageIDs, enemies, told>>
                /\ PlayersList' = PlayersList \cup {Top.c}
                /\ CurrentTurns' = FullTurn(Top.c)
                /\ Pushes("send_world", Top.i, Top.dirty, "client", Top.c,
                          Msg("ClientRegisterFromServer", Top.c), 0)
           /\ SendWorld =>
                /\ Top.pc = "send_world" /\ UNCHANGED <<net, game, told>>
                /\ Pushes("send_new", Top.i, Top.dirty, "client", Top.c,
                          Msg("ClientUpdateMap", NULL), 0)
           /\ SendNew =>
                /\ Top.pc = "send_new" /\ UNCHANGED <<net, game, told>>
                /\ Pushes("send_others", 0, Top.dirty, "all", Top.c,
                          Msg("ClientAddPlayer", Top.c), nIDCounter - 1)
           /\ SendOthers =>
                /\ Top.pc = "send_others" /\ UNCHANGED <<net, game, told>>
                /\ \/ /\ After(Top.i) = {}
                      /\ Moves("first_turn", Top.i, Top.dirty)
                   \/ /\ After(Top.i) # {} /\ First(After(Top.i)) = Top.c
                      /\ Moves("send_others", order[Top.c], Top.dirty)
                   \/ /\ After(Top.i) # {} /\ First(After(Top.i)) # Top.c
                      /\ Pushes("send_others", order[First(After(Top.i))], Top.dirty,
                                "client", Top.c,
                                Msg("ClientAddPlayer", First(After(Top.i))), 0)
           /\ FirstTurn =>
                /\ Top.pc = "first_turn" /\ UNCHANGED <<net, game, told>>
                /\ \/ CurrentPlayerID # NULL /\ Leaves
                   \/ /\ CurrentPlayerID = NULL
                      /\ Pushes("done", Top.i, Top.dirty, "choose", NULL, NoMsg, 0)
<1>1. ASSUME Register
      PROVE  /\ Top.pc = "ClientRegisterOnServer"
             /\ UNCHANGED <<net, CurrentPlayerID, GarbageIDs, enemies, told>>
             /\ PlayersList' = PlayersList \cup {Top.c}
             /\ CurrentTurns' = FullTurn(Top.c)
             /\ Pushes("send_world", Top.i, Top.dirty, "client", Top.c,
                       Msg("ClientRegisterFromServer", Top.c), 0)
  BY <1>1, RelabelIs DEF Register, At, WithPlayer, MessageClientRecord
<1>2. ASSUME SendWorld
      PROVE  /\ Top.pc = "send_world" /\ UNCHANGED <<net, game, told>>
             /\ Pushes("send_new", Top.i, Top.dirty, "client", Top.c,
                       Msg("ClientUpdateMap", NULL), 0)
  BY <1>2, RelabelIs DEF SendWorld, At, MessageClientRecord
<1>3. ASSUME SendNew
      PROVE  /\ Top.pc = "send_new" /\ UNCHANGED <<net, game, told>>
             /\ Pushes("send_others", 0, Top.dirty, "all", Top.c,
                       Msg("ClientAddPlayer", Top.c), nIDCounter - 1)
  <2>1. Call([Label("send_others") EXCEPT !.i = 0],
             Record("all", Top.c, Msg("ClientAddPlayer", Top.c), nIDCounter - 1))
    BY <1>3 DEF SendNew, MessageAllClientsRecord
  <2>2. Alters([Label("send_others") EXCEPT !.i = 0], "send_others", 0, Top.dirty)
    BY AltersOK
  <2>3. Pushes("send_others", 0, Top.dirty, "all", Top.c,
               Msg("ClientAddPlayer", Top.c), nIDCounter - 1)
    BY <2>1, <2>2, PushesOK
  <2> QED BY <1>3, <2>3 DEF SendNew, At
<1>4. ASSUME SendOthers
      PROVE  /\ Top.pc = "send_others" /\ UNCHANGED <<net, game, told>>
             /\ \/ /\ After(Top.i) = {}
                   /\ Moves("first_turn", Top.i, Top.dirty)
                \/ /\ After(Top.i) # {} /\ First(After(Top.i)) = Top.c
                   /\ Moves("send_others", order[Top.c], Top.dirty)
                \/ /\ After(Top.i) # {} /\ First(After(Top.i)) # Top.c
                   /\ Pushes("send_others", order[First(After(Top.i))], Top.dirty,
                             "client", Top.c,
                             Msg("ClientAddPlayer", First(After(Top.i))), 0)
  <2> DEFINE next == First(After(Top.i))
             step == [Top EXCEPT !.i = order[next]]
  <2>1. Top.pc = "send_others" /\ UNCHANGED <<net, game, told>>
    BY <1>4 DEF SendOthers, At
  <2>2. IF After(Top.i) = {} THEN Continue(Label("first_turn"))
        ELSE IF next = Top.c THEN Continue(step)
        ELSE Call(step, Record("client", Top.c, Msg("ClientAddPlayer", next), 0))
    BY <1>4 DEF SendOthers, Crash, MessageClientRecord
  <2>3. Alters(step, "send_others", order[next], Top.dirty)
    BY <2>1, AltersOK
  <2> HIDE DEF next, step
  <2>4. CASE After(Top.i) = {}
    BY <2>1, <2>2, <2>4, RelabelIs
  <2>5. CASE After(Top.i) # {} /\ next = Top.c
    <3>1. Moves("send_others", order[next], Top.dirty)
      BY <2>2, <2>3, <2>5, MovesOK
    <3> QED BY <2>1, <2>5, <3>1 DEF next
  <2>6. CASE After(Top.i) # {} /\ next # Top.c
    <3>1. Pushes("send_others", order[next], Top.dirty, "client", Top.c,
                 Msg("ClientAddPlayer", next), 0)
      BY <2>2, <2>3, <2>6, PushesOK
    <3> QED BY <2>1, <2>6, <3>1 DEF next
  <2> QED BY <2>4, <2>5, <2>6
<1>5. ASSUME FirstTurn
      PROVE  /\ Top.pc = "first_turn" /\ UNCHANGED <<net, game, told>>
             /\ \/ CurrentPlayerID # NULL /\ Leaves
                \/ /\ CurrentPlayerID = NULL
                   /\ Pushes("done", Top.i, Top.dirty, "choose", NULL, NoMsg, 0)
  <2>1. Top.pc = "first_turn" /\ Top.pc \notin RunLabels
    BY <1>5 DEF FirstTurn, At, RunLabels
  <2> QED BY <1>5, <2>1, ReturnIs, RelabelIs
          DEF FirstTurn, NobodysTurn, Done, ChooseNextPlayerRecord
<1> QED BY <1>1, <1>2, <1>3, <1>4, <1>5

LEMMA ActionIs ==
    ASSUME IInv, fault' = "none"
    PROVE  /\ Approve =>
                /\ Top.pc = "ServerGamePlayerActionApprove"
                /\ UNCHANGED <<net, PlayersList, CurrentPlayerID, GarbageIDs, told>>
                /\ MayAct(Top.c) /\ Top.m.p \in PlayersList /\ enemies' \in {enemies, FALSE}
                /\ CurrentTurns' = [CurrentTurns EXCEPT ![Top.c] = CurrentTurns[Top.c] - 1]
                /\ Pushes("acted", Top.i, Top.dirty, "all", NULL,
                          Msg("GamePlayerActionValidated", NULL), nIDCounter - 1)
           /\ Abort =>
                /\ Top.pc = "ServerGamePlayerActionApprove" /\ UNCHANGED <<net, game, told>>
                /\ Pushes("done", Top.i, Top.dirty, "client", Top.c,
                          Msg("GamePlayerActionAborted", NULL), 0)
           /\ Acted =>
                /\ Top.pc = "acted" /\ UNCHANGED <<net, game, told>> /\ Top.c \in PlayersList
                /\ \/ CurrentTurns[Top.c] # 0 /\ Leaves
                   \/ /\ CurrentTurns[Top.c] = 0
                      /\ Pushes("end_turn", Top.i, Top.dirty, "client", Top.c,
                                Msg("GameEndPlayerTurn", NULL), 0)
           /\ EndTurn =>
                /\ Top.pc = "end_turn" /\ UNCHANGED <<net, game, told>>
                /\ Pushes("next_turn", Top.i, Top.dirty, "choose", Top.c, NoMsg, 0)
           /\ NextTurn =>
                /\ Top.pc = "next_turn" /\ UNCHANGED <<net, game, told>>
                /\ Pushes("done", Top.i, Top.dirty, "all", NULL,
                          Msg("GameNextPlayerTurn", CurrentPlayerID), nIDCounter - 1)
           /\ MessageAll =>
                /\ Top.pc = "MessageAll" /\ UNCHANGED <<net, game, told>>
                /\ Top.c \in PlayersList
                /\ Pushes("done", Top.i, Top.dirty, "all", Top.c,
                          Msg("ServerMessage", Top.c), nIDCounter - 1)
<1>1. ASSUME Approve
      PROVE  /\ Top.pc = "ServerGamePlayerActionApprove"
             /\ UNCHANGED <<net, PlayersList, CurrentPlayerID, GarbageIDs, told>>
             /\ MayAct(Top.c) /\ Top.m.p \in PlayersList /\ enemies' \in {enemies, FALSE}
             /\ CurrentTurns' = [CurrentTurns EXCEPT ![Top.c] = CurrentTurns[Top.c] - 1]
             /\ Pushes("acted", Top.i, Top.dirty, "all", NULL,
                       Msg("GamePlayerActionValidated", NULL), nIDCounter - 1)
  BY <1>1, RelabelIs DEF Approve, At, Crash, MessageAllClientsRecord
<1>2. ASSUME Abort
      PROVE  /\ Top.pc = "ServerGamePlayerActionApprove" /\ UNCHANGED <<net, game, told>>
             /\ Pushes("done", Top.i, Top.dirty, "client", Top.c,
                       Msg("GamePlayerActionAborted", NULL), 0)
  BY <1>2, RelabelIs DEF Abort, At, Done, MessageClientRecord
<1>3. ASSUME Acted
      PROVE  /\ Top.pc = "acted" /\ UNCHANGED <<net, game, told>> /\ Top.c \in PlayersList
             /\ \/ CurrentTurns[Top.c] # 0 /\ Leaves
                \/ /\ CurrentTurns[Top.c] = 0
                   /\ Pushes("end_turn", Top.i, Top.dirty, "client", Top.c,
                             Msg("GameEndPlayerTurn", NULL), 0)
  <2>1. Top.pc = "acted" /\ Top.pc \notin RunLabels
    BY <1>3 DEF Acted, At, RunLabels
  <2> QED BY <1>3, <2>1, ReturnIs, RelabelIs DEF Acted, Crash, MessageClientRecord
<1>4. ASSUME EndTurn
      PROVE  /\ Top.pc = "end_turn" /\ UNCHANGED <<net, game, told>>
             /\ Pushes("next_turn", Top.i, Top.dirty, "choose", Top.c, NoMsg, 0)
  BY <1>4, RelabelIs DEF EndTurn, At, ChooseNextPlayerRecord
<1>5. ASSUME NextTurn
      PROVE  /\ Top.pc = "next_turn" /\ UNCHANGED <<net, game, told>>
             /\ Pushes("done", Top.i, Top.dirty, "all", NULL,
                       Msg("GameNextPlayerTurn", CurrentPlayerID), nIDCounter - 1)
  BY <1>5, RelabelIs DEF NextTurn, At, Done, MessageAllClientsRecord
<1>6. ASSUME MessageAll
      PROVE  /\ Top.pc = "MessageAll" /\ UNCHANGED <<net, game, told>>
             /\ Top.c \in PlayersList
             /\ Pushes("done", Top.i, Top.dirty, "all", Top.c,
                       Msg("ServerMessage", Top.c), nIDCounter - 1)
  BY <1>6, RelabelIs DEF MessageAll, At, Done, Crash, MessageAllClientsRecord
<1> QED BY <1>1, <1>2, <1>3, <1>4, <1>5, <1>6

-----------------------------------------------------------------------------
(* Who calls whom.                                                         *)

ToAll == {"all", "all_reset"}
ToOne == {"client", "client_erase"}
Losing == {"disconnect", "forget"}
Choosing == {"choose", "choose_first", "choose_send", "choose_set"}

\* r runs for f, with the client and the message f gave it.
CallsFor(f, r) ==
    \/ f.pc = "all_reset" /\ r.pc \in Losing /\ r.c = f.i
    \/ f.pc = "client_erase" /\ r.pc \in Losing /\ r.c = f.c
    \/ f.pc = "forget" /\ r.pc \in Choosing /\ r.c = f.c
    \/ f.pc = "choose_first" /\ r.pc = "ai"
    \/ f.pc = "choose_set" /\ r.pc \in ToOne /\ r.m.t = "GamePlayerTurn"
    \/ f.pc = "ai" /\ r.pc \in ToAll /\ r.m.t = "GameAITurnAction"

RunCallsFor(f, r) ==
    \/ f.pc = "wait" /\ r.pc \in ToAll /\ r.m.t = "ServerShyConnectionCheck"
    \/ f.pc = "update" /\ r.pc \in MessageLabels

MessageCallsFor(f, r) ==
    \/ f.pc = "on_message" /\ r.pc \in ToAll /\ r.m.t = "GameRemovePlayer"
    \/ f.pc = "send_world" /\ r.pc \in ToOne /\ r.c = f.c
         /\ r.m = Msg("ClientRegisterFromServer", f.c)
    \/ f.pc = "send_new" /\ r.pc \in ToOne /\ r.c = f.c /\ r.m.t = "ClientUpdateMap"
    \/ f.pc = "send_others" /\ f.i = 0 /\ r.pc \in ToAll /\ r.c = f.c
         /\ r.m = Msg("ClientAddPlayer", f.c)
    \/ f.pc = "send_others" /\ f.i # 0 /\ r.pc \in ToOne /\ r.c = f.c
         /\ r.m.t = "ClientAddPlayer" /\ order[r.m.p] = f.i
    \/ f.pc = "acted" /\ r.pc \in ToAll /\ r.m.t = "GamePlayerActionValidated"
    \/ f.pc = "end_turn" /\ r.pc \in ToOne /\ r.c = f.c /\ r.m.t = "GameEndPlayerTurn"
    \/ f.pc = "next_turn" /\ r.pc \in Choosing /\ r.c = f.c
    \/ f.pc = "done" /\ r.pc \in Choosing /\ r.c = NULL
    \/ f.pc = "done" /\ r.pc \in ToAll /\ r.m.t \in {"GameNextPlayerTurn", "ServerMessage"}
    \/ f.pc = "done" /\ r.pc \in ToOne /\ r.m.t = "GamePlayerActionAborted"

Calls(f, r) == RunCallsFor(f, r) \/ MessageCallsFor(f, r) \/ CallsFor(f, r)

CallsOK == \A j \in 1 .. depth : Calls(frame[j - 1], frame[j])

\* Labels of one handler.
Kin(p, q) ==
    \/ p \in ToAll /\ q \in ToAll
    \/ p \in ToOne /\ q \in ToOne
    \/ p \in Losing /\ q \in Losing
    \/ p \in Choosing /\ q \in Choosing
    \/ p \in MessageLabels /\ q \in MessageLabels
    \/ p \in RunLabels /\ q \in RunLabels
    \/ p = "ai" /\ q = "ai"

LEMMA KinCalls ==
    ASSUME NEW f, NEW r, NEW q, Calls(f, r), Kin(r.pc, q.pc), q.c = r.c, q.m = r.m
    PROVE  Calls(f, q)
<1>1. CASE RunCallsFor(f, r)
  BY <1>1 DEF RunCallsFor, Calls, Kin, ToAll, ToOne, Losing, Choosing, MessageLabels, RunLabels
<1>2. CASE MessageCallsFor(f, r)
  BY <1>2 DEF MessageCallsFor, Calls, Kin, ToAll, ToOne, Losing, Choosing, MessageLabels,
              RunLabels
<1>3. CASE CallsFor(f, r)
  BY <1>3 DEF CallsFor, Calls, Kin, ToAll, ToOne, Losing, Choosing, MessageLabels, RunLabels
<1> QED BY <1>1, <1>2, <1>3 DEF Calls

\* order is never assigned.
LEMMA OrderStays ==
    ASSUME [Next]_vars
    PROVE  order' = order
<1>1. CASE GameThread
  BY <1>1 DEF GameThread, OnMessage, Sending, Turns, Run, Wait, Update, AllStep, AllReset,
     AllEnd, MessageClient, ClientErase, OnClientDisconnect, DisconnectForget,
     ChooseNextPlayerForTurn, ChooseFirst, ChooseSend, ChooseSet, MakeAITurn,
     AnnounceLeaver, ClearGarbage, MessageDone, Register, SendWorld, SendNew, SendOthers,
     FirstTurn, Approve, Abort, Acted, EndTurn, NextTurn, MessageAll, net
<1>2. CASE AsioThread
  BY <1>2 DEF AsioThread, Accept, Validate, Close, Receive
<1>3. CASE Stopped \/ UNCHANGED vars
  BY <1>3 DEF Stopped, vars, net
<1> QED BY <1>1, <1>2, <1>3 DEF Next

LEMMA CallsMove ==
    ASSUME IInv, CallsOK, order' = order, NEW pc, NEW i, NEW d, Moves(pc, i, d), Kin(Top.pc, pc)
    PROVE  CallsOK'
<1>1. depth \in Nat /\ Top = frame[depth] /\ depth' = depth
  BY FramesOK DEF Moves
<1>2. ASSUME NEW j \in 1 .. depth
      PROVE  Calls(frame'[j - 1], frame'[j])
  <2>1. Calls(frame[j - 1], frame[j]) /\ frame'[j - 1] = frame[j - 1]
    BY <1>1 DEF CallsOK, Moves, Below
  <2>2. CASE j = depth
    <3>1. /\ Kin(frame[j].pc, frame'[j].pc)
          /\ frame'[j].c = frame[j].c /\ frame'[j].m = frame[j].m
      BY <1>1, <2>2 DEF Moves, Alters
    <3> QED BY <2>1, <3>1, KinCalls
  <2>3. CASE j # depth
    <3>1. frame'[j] = frame[j]
      BY <1>1, <2>3 DEF Moves, Below
    <3> QED BY <2>1, <3>1
  <2> QED BY <2>2, <2>3
<1> QED BY <1>1, <1>2 DEF CallsOK, Calls, RunCallsFor, MessageCallsFor, CallsFor

LEMMA CallsPush ==
    ASSUME IInv, CallsOK, order' = order, NEW pc, NEW i, NEW d, NEW to, NEW c, NEW m, NEW n,
           Pushes(pc, i, d, to, c, m, n), Kin(Top.pc, pc),
           Calls(frame'[depth], frame'[depth + 1])
    PROVE  CallsOK'
<1>1. depth \in Nat /\ Top = frame[depth] /\ depth' = depth + 1
  BY FramesOK DEF Pushes
<1>2. ASSUME NEW j \in 1 .. depth + 1
      PROVE  Calls(frame'[j - 1], frame'[j])
  <2>1. CASE j = depth + 1
    BY <1>1, <2>1
  <2>2. CASE j = depth
    <3>1. Calls(frame[j - 1], frame[j]) /\ frame'[j - 1] = frame[j - 1]
      BY <1>1, <2>2 DEF CallsOK, Pushes, Below
    <3>2. /\ Kin(frame[j].pc, frame'[j].pc)
          /\ frame'[j].c = frame[j].c /\ frame'[j].m = frame[j].m
      BY <1>1, <2>2 DEF Pushes, Alters
    <3> QED BY <3>1, <3>2, KinCalls
  <2>3. CASE j \notin {depth, depth + 1}
    <3>1. j \in 1 .. depth /\ j \in 0 .. depth - 1 /\ j - 1 \in 0 .. depth - 1
      BY <1>1, <2>3
    <3>2. Calls(frame[j - 1], frame[j])
      BY <3>1 DEF CallsOK
    <3>3. frame'[j] = frame[j] /\ frame'[j - 1] = frame[j - 1]
      BY <3>1 DEF Pushes, Below
    <3> QED BY <3>2, <3>3
  <2> QED BY <2>1, <2>2, <2>3
<1>3. SUFFICES ASSUME NEW j \in 1 .. depth + 1 PROVE Calls(frame[j - 1], frame[j])'
  BY <1>1 DEF CallsOK
<1>4. Calls(frame'[j - 1], frame'[j])
  BY <1>2
<1> QED BY <1>4 DEF Calls, RunCallsFor, MessageCallsFor, CallsFor

LEMMA CallsPop ==
    ASSUME IInv, CallsOK, order' = order, Leaves
    PROVE  CallsOK'
<1>1. depth \in Nat /\ depth' = depth - 1
  BY FramesOK DEF Leaves
<1>2. ASSUME NEW j \in 1 .. depth - 1
      PROVE  Calls(frame'[j - 1], frame'[j])
  <2>1. /\ Calls(frame[j - 1], frame[j])
        /\ frame'[j] = frame[j] /\ frame'[j - 1] = frame[j - 1]
    BY <1>1 DEF CallsOK, Leaves, Below
  <2> QED BY <2>1
<1> QED BY <1>1, <1>2 DEF CallsOK, Calls, RunCallsFor, MessageCallsFor, CallsFor

\* A call with what the caller gives.
LEMMA PushCalls ==
    ASSUME NEW pc, NEW i, NEW d, NEW to, NEW c, NEW m, NEW n, Pushes(pc, i, d, to, c, m, n)
    PROVE  LET f == frame'[depth]
               r == frame'[depth + 1]
           IN  /\ f.pc = pc /\ f.c = Top.c /\ f.i = i /\ r.pc = to /\ r.c = c /\ r.m = m
               /\ pc = "wait" /\ to = "all" /\ m.t = "ServerShyConnectionCheck" => Calls(f, r)
               /\ pc = "update" /\ to \in MessageLabels => Calls(f, r)
               /\ pc = "all_reset" /\ to = "disconnect" /\ c = i => Calls(f, r)
               /\ pc = "client_erase" /\ to = "disconnect" /\ c = Top.c => Calls(f, r)
               /\ pc = "forget" /\ to = "choose" /\ c = Top.c => Calls(f, r)
               /\ pc = "choose_first" /\ to = "ai" => Calls(f, r)
               /\ pc = "choose_set" /\ to = "client" /\ m.t = "GamePlayerTurn" => Calls(f, r)
               /\ pc = "ai" /\ to = "all" /\ m.t = "GameAITurnAction" => Calls(f, r)
<1>1. LET f == frame'[depth]
          r == frame'[depth + 1]
      IN  f.pc = pc /\ f.c = Top.c /\ f.i = i /\ r.pc = to /\ r.c = c /\ r.m = m
  BY DEF Pushes, Alters, Fresh
<1> QED BY <1>1 DEF Calls, RunCallsFor, CallsFor, ToAll, ToOne, Losing, Choosing

LEMMA PushCallsMessage ==
    ASSUME NEW pc, NEW i, NEW d, NEW to, NEW c, NEW m, NEW n, Pushes(pc, i, d, to, c, m, n)
    PROVE  LET f == frame'[depth]
               r == frame'[depth + 1]
           IN  /\ pc = "on_message" /\ to = "all" /\ m.t = "GameRemovePlayer" => Calls(f, r)
               /\ pc = "send_world" /\ to = "client" /\ c = Top.c
                    /\ m = Msg("ClientRegisterFromServer", c) => Calls(f, r)
               /\ pc = "send_new" /\ to = "client" /\ c = Top.c /\ m.t = "ClientUpdateMap"
                    => Calls(f, r)
               /\ pc = "send_others" /\ i = 0 /\ to = "all" /\ c = Top.c
                    /\ m = Msg("ClientAddPlayer", c) => Calls(f, r)
               /\ pc = "send_others" /\ i # 0 /\ to = "client" /\ c = Top.c
                    /\ m.t = "ClientAddPlayer" /\ order[m.p] = i => Calls(f, r)
               /\ pc = "acted" /\ to = "all" /\ m.t = "GamePlayerActionValidated" => Calls(f, r)
               /\ pc = "end_turn" /\ to = "client" /\ c = Top.c /\ m.t = "GameEndPlayerTurn"
                    => Calls(f, r)
               /\ pc = "next_turn" /\ to = "choose" /\ c = Top.c => Calls(f, r)
               /\ pc = "done" /\ to = "choose" /\ c = NULL => Calls(f, r)
               /\ pc = "done" /\ to = "all" /\ m.t \in {"GameNextPlayerTurn", "ServerMessage"}
                    => Calls(f, r)
               /\ pc = "done" /\ to = "client" /\ m.t = "GamePlayerActionAborted" => Calls(f, r)
<1>1. LET f == frame'[depth]
          r == frame'[depth + 1]
      IN  f.pc = pc /\ f.c = Top.c /\ f.i = i /\ r.pc = to /\ r.c = c /\ r.m = m
  BY DEF Pushes, Alters, Fresh
<1> QED BY <1>1 DEF Calls, MessageCallsFor, ToAll, ToOne, Choosing

\* Labels a record may go on at.
LEMMA KinOK ==
    /\ \A p, q \in {"run", "wait", "update"} : Kin(p, q)
    /\ \A p, q \in {"all", "all_reset"} : Kin(p, q)
    /\ \A p, q \in {"client", "client_erase"} : Kin(p, q)
    /\ \A p, q \in {"disconnect", "forget"} : Kin(p, q)
    /\ \A p, q \in {"choose", "choose_first", "choose_send", "choose_set"} : Kin(p, q)
    /\ \A p, q \in MessageLabels : Kin(p, q)
    /\ Kin("ai", "ai")
BY DEF Kin, ToAll, ToOne, Losing, Choosing, RunLabels

LEMMA CallsHandlers ==
    ASSUME IInv, CallsOK, order' = order, fault' = "none",
           \/ Run \/ Wait \/ Update \/ Sending \/ OnClientDisconnect \/ DisconnectForget \/ Turns
    PROVE  CallsOK'
<1>1. CASE Run \/ Wait
  <2>1. \/ Top.pc = "run" /\ Moves("wait", Top.i, Top.dirty)
        \/ Top.pc = "run" /\ Pushes("wait", Top.i, Top.dirty, "all", NULL,
                                   Msg("ServerShyConnectionCheck", NULL), nIDCounter - 1)
        \/ Top.pc = "wait" /\ Moves("update", Top.i, Top.dirty)
    BY <1>1, RunLoopIs
  <2>2. Msg("ServerShyConnectionCheck", NULL).t = "ServerShyConnectionCheck"
    BY DEF Msg
  <2> QED BY <2>1, <2>2, KinOK, CallsMove, CallsPush, PushCalls
<1>2. CASE Update
  <2>1. /\ Top.pc = "update"
        /\ \/ Moves("run", Top.i, Top.dirty)
           \/ LET om == Head(m_qMessagesIn)
              IN  Pushes("update", Top.i, Top.dirty, "on_message", om.remote, om.msg,
                         Len(GarbageIDs))
    BY <1>2, RunLoopIs
  <2>2. "on_message" \in MessageLabels
    BY DEF MessageLabels
  <2> QED BY <2>1, <2>2, KinOK, CallsMove, CallsPush, PushCalls
<1>3. CASE AllStep
  <2> DEFINE client == Least(ToVisit)
  <2>1. /\ Top.pc = "all"
        /\ \/ Moves("all", client + 1, Top.dirty)
           \/ Pushes("all_reset", client, Top.dirty, "disconnect", client, NoMsg, 0)
    BY <1>3, AllStepIs
  <2> HIDE DEF client
  <2>2. Kin(Top.pc, "all") /\ Kin(Top.pc, "all_reset")
    BY <2>1, KinOK
  <2>3. CASE Moves("all", client + 1, Top.dirty)
    BY <2>2, <2>3, CallsMove
  <2>4. CASE Pushes("all_reset", client, Top.dirty, "disconnect", client, NoMsg, 0)
    BY <2>2, <2>4, CallsPush, PushCalls
  <2> QED BY <2>1, <2>3, <2>4
<1>4. CASE AllReset \/ AllEnd \/ MessageClient \/ ClientErase
  <2>1. \/ Leaves
        \/ Top.pc = "all_reset" /\ Moves("all", Top.i + 1, TRUE)
        \/ Top.pc = "client"
             /\ Pushes("client_erase", Top.i, Top.dirty, "disconnect", Top.c, NoMsg, 0)
    BY <1>4, SendingIs
  <2>2. CASE Leaves
    BY <2>2, CallsPop
  <2>3. CASE Top.pc = "all_reset" /\ Moves("all", Top.i + 1, TRUE)
    <3>1. Kin(Top.pc, "all")
      BY <2>3, KinOK
    <3> QED BY <2>3, <3>1, CallsMove
  <2>4. CASE Top.pc = "client"
             /\ Pushes("client_erase", Top.i, Top.dirty, "disconnect", Top.c, NoMsg, 0)
    <3>1. Kin(Top.pc, "client_erase")
      BY <2>4, KinOK
    <3> QED BY <2>4, <3>1, CallsPush, PushCalls
  <2> QED BY <2>1, <2>2, <2>3, <2>4
<1>5. CASE OnClientDisconnect \/ DisconnectForget
  <2>1. \/ Leaves
        \/ Top.pc = "disconnect"
             /\ Pushes("forget", Top.i, Top.dirty, "choose", Top.c, NoMsg, 0)
    BY <1>5, DisconnectIs
  <2> QED BY <2>1, KinOK, CallsPush, CallsPop, PushCalls
<1>6. CASE Turns
  <2>1. \/ Leaves
        \/ Top.pc \in {"choose", "choose_first"} /\ Moves("choose_send", Top.i, Top.dirty)
        \/ Top.pc = "choose_send" /\ Moves("choose_set", Top.i, Top.dirty)
        \/ Top.pc = "choose"
             /\ \E k \in AIActions :
                  Pushes("choose_first", Top.i, Top.dirty, "ai", NULL, NoMsg, k)
        \/ Top.pc = "choose_send"
             /\ Pushes("choose_set", Top.i, Top.dirty, "client", CurrentPlayerID,
                       Msg("GamePlayerTurn", NULL), 0)
        \/ Top.pc = "ai"
             /\ Pushes("ai", Top.i + 1, Top.dirty, "all", NULL,
                       Msg("GameAITurnAction", NULL), nIDCounter - 1)
    BY <1>6, TurnsAre DEF Turns
  <2>2. /\ Msg("GamePlayerTurn", NULL).t = "GamePlayerTurn"
        /\ Msg("GameAITurnAction", NULL).t = "GameAITurnAction"
    BY DEF Msg
  <2> QED BY <2>1, <2>2, KinOK, CallsMove, CallsPush, CallsPop, PushCalls
<1> QED BY <1>1, <1>2, <1>3, <1>4, <1>5, <1>6 DEF Sending

\* The first player after place k.
LEMMA FirstAfterOK ==
    ASSUME IInv, NEW k, After(k) # {}
    PROVE  /\ First(After(k)) \in PlayersList /\ First(After(k)) \in Clients
           /\ order[First(After(k))] > k /\ order[First(After(k))] \in Clients
           /\ \A p \in After(k) : order[First(After(k))] <= order[p]
<1>1. After(k) \in SUBSET Clients /\ order \in [Clients -> Clients]
  BY DEF After, IInv, GameTypeOK, NetTypeOK
<1>2. First(After(k)) \in After(k)
  BY <1>1, FirstOK
<1>3. \A p \in After(k) : order[First(After(k))] <= order[p]
  <2> DEFINE T == {order[p] : p \in After(k)}
  <2>1. T \in SUBSET Nat /\ T # {}
    BY <1>1, SizeAssumption DEF Clients
  <2>2. \E x \in T : \A y \in T : x <= y
    BY <2>1, MinOK
  <2>3. \E p \in After(k) : \A q \in After(k) : order[p] <= order[q]
    BY <2>2
  <2> QED BY <2>3 DEF First
<1> QED BY <1>1, <1>2, <1>3 DEF After

LEMMA CallsMessages ==
    ASSUME IInv, CallsOK, order' = order, fault' = "none", OnMessage
    PROVE  CallsOK'
<1>1. CASE AnnounceLeaver \/ ClearGarbage \/ MessageDone
  <2>1. \/ Leaves
        \/ Top.pc = "on_message" /\ Moves(Top.m.t, Top.i, Top.dirty)
        \/ Top.pc = "on_message"
             /\ \E pid : Pushes("on_message", Top.i + 1, Top.dirty, "all", NULL,
                                Msg("GameRemovePlayer", pid), nIDCounter - 1)
    BY <1>1, GarbageIs
  <2>2. \A pid : Msg("GameRemovePlayer", pid).t = "GameRemovePlayer"
    BY DEF Msg
  <2>3. Top.pc = "on_message" => Top.pc \in MessageLabels /\ Top.m.t \in MessageLabels
    BY RunningOK DEF MessageLabels, ClientMessages
  <2> QED BY <2>1, <2>2, <2>3, KinOK, CallsMove, CallsPush, CallsPop, PushCallsMessage
<1>2. CASE Register \/ SendWorld \/ SendNew \/ FirstTurn
  <2>1. \/ Leaves
        \/ Top.pc = "ClientRegisterOnServer"
             /\ Pushes("send_world", Top.i, Top.dirty, "client", Top.c,
                       Msg("ClientRegisterFromServer", Top.c), 0)
        \/ Top.pc = "send_world"
             /\ Pushes("send_new", Top.i, Top.dirty, "client", Top.c,
                       Msg("ClientUpdateMap", NULL), 0)
        \/ Top.pc = "send_new"
             /\ Pushes("send_others", 0, Top.dirty, "all", Top.c,
                       Msg("ClientAddPlayer", Top.c), nIDCounter - 1)
        \/ Top.pc = "first_turn"
             /\ Pushes("done", Top.i, Top.dirty, "choose", NULL, NoMsg, 0)
    BY <1>2, RegisterIs
  <2>2. Msg("ClientUpdateMap", NULL).t = "ClientUpdateMap"
    BY DEF Msg
  <2>3. {"ClientRegisterOnServer", "send_world", "send_new", "send_others", "first_turn",
         "done"} \subseteq MessageLabels
    BY DEF MessageLabels
  <2> QED BY <2>1, <2>2, <2>3, KinOK, CallsPush, CallsPop, PushCallsMessage
<1>3. CASE SendOthers
  <2> DEFINE next == First(After(Top.i))
             m == Msg("ClientAddPlayer", next)
  <2>1. /\ Top.pc = "send_others"
        /\ \/ Moves("first_turn", Top.i, Top.dirty)
           \/ Moves("send_others", order[Top.c], Top.dirty)
           \/ /\ After(Top.i) # {}
              /\ Pushes("send_others", order[next], Top.dirty, "client", Top.c, m, 0)
    BY <1>3, RegisterIs
  <2>2. m.t = "ClientAddPlayer" /\ m.p = next
    BY DEF Msg
  <2>3. After(Top.i) # {} => order[next] # 0
    BY FirstAfterOK DEF Clients
  <2>4. {"send_others", "first_turn"} \subseteq MessageLabels
    BY DEF MessageLabels
  <2> HIDE DEF next, m
  <2> QED BY <2>1, <2>2, <2>3, <2>4, KinOK, CallsMove, CallsPush, PushCallsMessage
<1>4. CASE Approve \/ Abort \/ Acted
  <2>1. \/ Leaves
        \/ Top.pc = "ServerGamePlayerActionApprove"
             /\ Pushes("acted", Top.i, Top.dirty, "all", NULL,
                       Msg("GamePlayerActionValidated", NULL), nIDCounter - 1)
        \/ Top.pc = "ServerGamePlayerActionApprove"
             /\ Pushes("done", Top.i, Top.dirty, "client", Top.c,
                       Msg("GamePlayerActionAborted", NULL), 0)
        \/ Top.pc = "acted"
             /\ Pushes("end_turn", Top.i, Top.dirty, "client", Top.c,
                       Msg("GameEndPlayerTurn", NULL), 0)
    BY <1>4, ActionIs
  <2>2. /\ Msg("GamePlayerActionValidated", NULL).t = "GamePlayerActionValidated"
        /\ Msg("GamePlayerActionAborted", NULL).t = "GamePlayerActionAborted"
        /\ Msg("GameEndPlayerTurn", NULL).t = "GameEndPlayerTurn"
    BY DEF Msg
  <2>3. {"ServerGamePlayerActionApprove", "acted", "end_turn", "done"} \subseteq MessageLabels
    BY DEF MessageLabels
  <2> QED BY <2>1, <2>2, <2>3, KinOK, CallsPush, CallsPop, PushCallsMessage
<1>5. CASE EndTurn \/ NextTurn \/ MessageAll
  <2>1. \/ Top.pc = "end_turn"
             /\ Pushes("next_turn", Top.i, Top.dirty, "choose", Top.c, NoMsg, 0)
        \/ Top.pc = "next_turn"
             /\ Pushes("done", Top.i, Top.dirty, "all", NULL,
                       Msg("GameNextPlayerTurn", CurrentPlayerID), nIDCounter - 1)
        \/ Top.pc = "MessageAll"
             /\ Pushes("done", Top.i, Top.dirty, "all", Top.c,
                       Msg("ServerMessage", Top.c), nIDCounter - 1)
    BY <1>5, ActionIs
  <2>2. /\ Msg("GameNextPlayerTurn", CurrentPlayerID).t = "GameNextPlayerTurn"
        /\ Msg("ServerMessage", Top.c).t = "ServerMessage"
    BY DEF Msg
  <2>3. {"MessageAll", "end_turn", "next_turn", "done"} \subseteq MessageLabels
    BY DEF MessageLabels
  <2> QED BY <2>1, <2>2, <2>3, KinOK, CallsPush, PushCallsMessage
<1> QED BY <1>1, <1>2, <1>3, <1>4, <1>5 DEF OnMessage

\* The game thread leaves the network to the asio thread, but for the entries
\* of m_deqConnection and the messages it takes.
LEMMA GameKeeps ==
    ASSUME GameThread
    PROVE  UNCHANGED <<order, sock, nIDCounter, registering>>
BY DEF GameThread, OnMessage, Sending, Turns, Run, Wait, Update, AllStep, AllReset,
   AllEnd, MessageClient, ClientErase, OnClientDisconnect, DisconnectForget,
   ChooseNextPlayerForTurn, ChooseFirst, ChooseSend, ChooseSet, MakeAITurn,
   AnnounceLeaver, ClearGarbage, MessageDone, Register, SendWorld, SendNew, SendOthers,
   FirstTurn, Approve, Abort, Acted, EndTurn, NextTurn, MessageAll, net

LEMMA AsioIs ==
    ASSUME AsioThread, fault' = "none"
    PROVE  /\ UNCHANGED <<order, game, stack, told>> /\ frame' = frame /\ depth' = depth
           /\ Top' = Top
           /\ \E c \in Clients :
                \/ /\ c = nIDCounter /\ nIDCounter' = nIDCounter + 1
                   /\ sock' = [sock EXCEPT ![c] = "open"]
                   /\ m_deqConnection' = [m_deqConnection EXCEPT ![c] = "held"]
                   /\ UNCHANGED <<registering, m_qMessagesIn>>
                \/ /\ sock[c] = "open" /\ sock' = [sock EXCEPT ![c] = "valid"]
                   /\ UNCHANGED <<nIDCounter, registering, m_deqConnection, m_qMessagesIn>>
                \/ /\ IsConnected(c) /\ c \in Leavers /\ sock' = [sock EXCEPT ![c] = "closed"]
                   /\ UNCHANGED <<nIDCounter, registering, m_deqConnection, m_qMessagesIn>>
                \/ /\ sock[c] = "valid" /\ UNCHANGED <<sock, nIDCounter, m_deqConnection>>
                   /\ \E m \in MayReceive(c) :
                        m_qMessagesIn' = Append(m_qMessagesIn, [remote |-> c, msg |-> m])
<1>1. PICK c \in Clients : Accept(c) \/ Validate(c) \/ Close(c) \/ Receive(c)
  BY DEF AsioThread
<1>2. UNCHANGED <<order, game, stack, told>>
  BY <1>1 DEF Accept, Validate, Close, Receive
<1>3. frame' = frame /\ depth' = depth /\ Top' = Top
  BY <1>2 DEF frame, depth, Top
<1>4. \/ /\ c = nIDCounter /\ nIDCounter' = nIDCounter + 1
         /\ sock' = [sock EXCEPT ![c] = "open"]
         /\ m_deqConnection' = [m_deqConnection EXCEPT ![c] = "held"]
         /\ UNCHANGED <<registering, m_qMessagesIn>>
      \/ /\ sock[c] = "open" /\ sock' = [sock EXCEPT ![c] = "valid"]
         /\ UNCHANGED <<nIDCounter, registering, m_deqConnection, m_qMessagesIn>>
      \/ /\ IsConnected(c) /\ c \in Leavers /\ sock' = [sock EXCEPT ![c] = "closed"]
         /\ UNCHANGED <<nIDCounter, registering, m_deqConnection, m_qMessagesIn>>
      \/ /\ sock[c] = "valid" /\ UNCHANGED <<sock, nIDCounter, m_deqConnection>>
         /\ \E m \in MayReceive(c) :
              m_qMessagesIn' = Append(m_qMessagesIn, [remote |-> c, msg |-> m])
  BY <1>1 DEF Accept, Validate, Close, Receive
<1> QED BY <1>2, <1>3, <1>4

\* A process that has died does not come back.
LEMMA Alive ==
    ASSUME [Next]_vars, fault' = "none"
    PROVE  fault = "none" /\ (GameThread \/ AsioThread \/ UNCHANGED vars)
<1>1. CASE GameThread
  BY <1>1 DEF GameThread, OnMessage, Sending, Turns, Run, Wait, Update, AllStep, AllReset,
     AllEnd, MessageClient, ClientErase, OnClientDisconnect, DisconnectForget,
     ChooseNextPlayerForTurn, ChooseFirst, ChooseSend, ChooseSet, MakeAITurn,
     AnnounceLeaver, ClearGarbage, MessageDone, Register, SendWorld, SendNew, SendOthers,
     FirstTurn, Approve, Abort, Acted, EndTurn, NextTurn, MessageAll, At
<1>2. CASE AsioThread
  BY <1>2 DEF AsioThread, Accept, Validate, Close, Receive
<1>3. CASE Stopped \/ UNCHANGED vars
  BY <1>3 DEF Stopped, vars
<1> QED BY <1>1, <1>2, <1>3 DEF Next

-----------------------------------------------------------------------------
(* Connections: an id that was given has a socket, a connected client is   *)
(* held by m_deqConnection, and whoever is being removed is closed.        *)
NetOK ==
    \A c \in Clients :
      /\ c >= nIDCounter <=> sock[c] = "none"
      /\ c >= nIDCounter => m_deqConnection[c] = "absent"
      /\ IsConnected(c) => m_deqConnection[c] = "held"

Lost == {"all_reset", "client_erase", "disconnect", "forget"}
Victim(r) == IF r.pc = "all_reset" THEN r.i ELSE r.c

AddressOK(r, s) ==
    /\ r.pc \in ToOne \cup MessageLabels => s[r.c] # "none"
    /\ r.pc \in Lost => Victim(r) \in Clients /\ s[Victim(r)] = "closed"

AddressesOK ==
    /\ \A j \in 0 .. depth : AddressOK(frame[j], sock)
    /\ \A k \in 1 .. Len(m_qMessagesIn) : sock[m_qMessagesIn[k].remote] # "none"

\* Once OnClientDisconnect has returned its client is no player any more.
VictimOK ==
    frame[depth].pc \in {"all_reset", "client_erase"} => Victim(frame[depth]) \notin PlayersList

\* The loop that reset an entry removes it when it ends.
NullsOK == Nulls # {} => \E j \in 0 .. depth : frame[j].pc \in ToAll /\ frame[j].dirty

\* A player that was registered after its connection had been found dead and
\* erased: MessageClient will find out.
Unwelcome(c) ==
    depth >= 2 /\ frame[1].pc = "send_world" /\ frame[2].c = c /\ sock[c] = "closed"
ReachOK == \A c \in PlayersList : m_deqConnection[c] = "held" \/ Unwelcome(c)

LEMMA CallsStep ==
    ASSUME IInv, CallsOK, [Next]_vars, fault' = "none"
    PROVE  CallsOK'
<1>1. order' = order
  BY OrderStays
<1>2. CASE GameThread
  BY <1>1, <1>2, CallsHandlers, CallsMessages DEF GameThread
<1>3. CASE AsioThread
  BY <1>1, <1>3, AsioIs DEF CallsOK, Calls, RunCallsFor, MessageCallsFor, CallsFor
<1>4. CASE UNCHANGED vars
  <2>1. frame' = frame /\ depth' = depth
    BY <1>4 DEF vars, frame, depth
  <2> QED BY <1>1, <2>1 DEF CallsOK, Calls, RunCallsFor, MessageCallsFor, CallsFor
<1> QED BY <1>2, <1>3, <1>4, Alive

\* What the game thread does to m_deqConnection.
LEMMA DequeIs ==
    ASSUME IInv, GameThread, fault' = "none"
    PROVE  \/ UNCHANGED m_deqConnection
           \/ /\ Top.pc = "all_reset" /\ UNCHANGED PlayersList /\ Moves("all", Top.i + 1, TRUE)
              /\ m_deqConnection' = [m_deqConnection EXCEPT ![Top.i] = "null"]
           \/ /\ Top.pc \in {"all", "client_erase"} /\ UNCHANGED PlayersList
              /\ Erases(Nulls) /\ Leaves
<1>1. CASE Run \/ Wait \/ Update
  BY <1>1, RunLoopIs DEF net
<1>2. CASE AllStep
  BY <1>2, AllStepIs DEF net
<1>3. CASE AllReset \/ AllEnd \/ MessageClient \/ ClientErase
  BY <1>3, SendingIs DEF net, game
<1>4. CASE OnClientDisconnect \/ DisconnectForget
  BY <1>4, DisconnectIs DEF net
<1>5. CASE Turns
  BY <1>5, TurnsAre DEF net, Turns
<1>6. CASE AnnounceLeaver \/ ClearGarbage \/ MessageDone
  BY <1>6, GarbageIs DEF net
<1>7. CASE Register \/ SendWorld \/ SendNew \/ SendOthers \/ FirstTurn
  BY <1>7, RegisterIs DEF net
<1>8. CASE Approve \/ Abort \/ Acted \/ EndTurn \/ NextTurn \/ MessageAll
  BY <1>8, ActionIs DEF net
<1> QED BY <1>1, <1>2, <1>3, <1>4, <1>5, <1>6, <1>7, <1>8 DEF GameThread, OnMessage, Sending

\* A socket is opened once and closed once.
LEMMA SocketsStay ==
    ASSUME IInv, NetOK, [Next]_vars, fault' = "none", NEW c \in Clients
    PROVE  /\ sock[c] # "none" => sock'[c] # "none"
           /\ sock[c] = "closed" => sock'[c] = "closed"
           /\ IsConnected(c)' => IsConnected(c) \/ sock[c] = "none"
<1>1. sock \in [Clients -> {"none", "open", "valid", "closed"}] /\ nIDCounter \in Nat
  BY SizeAssumption DEF IInv, NetTypeOK
<1>2. CASE GameThread
  BY <1>2, GameKeeps DEF IsConnected
<1>3. CASE AsioThread
  BY <1>1, <1>3, AsioIs DEF IsConnected, NetOK
<1>4. CASE UNCHANGED vars
  BY <1>4 DEF vars, net, IsConnected
<1> QED BY <1>2, <1>3, <1>4, Alive

LEMMA NetStep ==
    ASSUME IInv, NetOK, AddressesOK, [Next]_vars, fault' = "none"
    PROVE  NetOK'
<1>1. /\ sock \in [Clients -> {"none", "open", "valid", "closed"}]
      /\ m_deqConnection \in [Clients -> {"held", "null", "absent"}]
      /\ nIDCounter \in Nat /\ Clients \subseteq Nat
  BY SizeAssumption DEF IInv, NetTypeOK, Clients
<1>2. CASE GameThread
  <2>1. UNCHANGED <<sock, nIDCounter>>
    BY <1>2, GameKeeps
  <2>2. CASE UNCHANGED m_deqConnection
    BY <2>1, <2>2 DEF NetOK, IsConnected
  <2>3. CASE /\ Top.pc = "all_reset"
             /\ m_deqConnection' = [m_deqConnection EXCEPT ![Top.i] = "null"]
    <3>1. Top.i \in Clients /\ sock[Top.i] = "closed"
      BY <2>3, FramesOK DEF AddressesOK, AddressOK, Lost, Victim
    <3> QED BY <1>1, <2>1, <2>3, <3>1 DEF NetOK, IsConnected
  <2>4. CASE Erases(Nulls)
    BY <1>1, <2>1, <2>4 DEF NetOK, IsConnected, Erases, Nulls
  <2> QED BY <1>2, <2>2, <2>3, <2>4, DequeIs
<1>3. CASE AsioThread
  <2>1. PICK c \in Clients :
                \/ /\ c = nIDCounter /\ nIDCounter' = nIDCounter + 1
                   /\ sock' = [sock EXCEPT ![c] = "open"]
                   /\ m_deqConnection' = [m_deqConnection EXCEPT ![c] = "held"]
                \/ /\ sock[c] = "open" /\ sock' = [sock EXCEPT ![c] = "valid"]
                   /\ UNCHANGED <<nIDCounter, m_deqConnection>>
                \/ /\ IsConnected(c) /\ sock' = [sock EXCEPT ![c] = "closed"]
                   /\ UNCHANGED <<nIDCounter, m_deqConnection>>
                \/ UNCHANGED <<sock, nIDCounter, m_deqConnection>>
    BY <1>3, AsioIs
  <2> QED BY <1>1, <2>1 DEF NetOK, IsConnected
<1>4. CASE UNCHANGED vars
  BY <1>4 DEF vars, net, NetOK, IsConnected
<1> QED BY <1>2, <1>3, <1>4, Alive

FramesAddressed == \A j \in 0 .. depth : AddressOK(frame[j], sock)

\* A record keeps its address when it moves within its handler.
LEMMA AddressMoves ==
    ASSUME IInv, FramesAddressed, sock' = sock
    PROVE  /\ \A pc, i, d : Moves(pc, i, d) /\ pc \notin Lost
                            /\ (pc \in ToOne \cup MessageLabels
                                  => Top.pc \in ToOne \cup MessageLabels)
                => FramesAddressed'
           /\ \A pc, i, d, to, c, m, n :
                Pushes(pc, i, d, to, c, m, n) /\ pc \notin Lost
                /\ (pc \in ToOne \cup MessageLabels => Top.pc \in ToOne \cup MessageLabels)
                /\ to \notin Lost /\ (to \in ToOne \cup MessageLabels => sock[c] # "none")
                => FramesAddressed'
           /\ Leaves => FramesAddressed'
<1>1. depth \in Nat /\ Top = frame[depth] /\ AddressOK(Top, sock)
  BY FramesOK DEF FramesAddressed
<1>2. Below => \A j \in 0 .. depth - 1 : AddressOK(frame'[j], sock')
  BY <1>1 DEF FramesAddressed, Below, AddressOK, Victim
<1>3. ASSUME NEW pc, NEW i, NEW d, Alters(frame'[depth], pc, i, d), pc \notin Lost,
             pc \in ToOne \cup MessageLabels => Top.pc \in ToOne \cup MessageLabels
      PROVE  AddressOK(frame'[depth], sock')
  BY <1>1, <1>3 DEF AddressOK, Alters
<1>4. ASSUME NEW to, NEW c, NEW m, NEW n, Fresh(frame'[depth + 1], to, c, m, n), to \notin Lost,
             to \in ToOne \cup MessageLabels => sock[c] # "none"
      PROVE  AddressOK(frame'[depth + 1], sock')
  BY <1>4 DEF AddressOK, Fresh
<1>5. ASSUME NEW pc, NEW i, NEW d, Moves(pc, i, d), pc \notin Lost,
             pc \in ToOne \cup MessageLabels => Top.pc \in ToOne \cup MessageLabels
      PROVE  FramesAddressed'
  BY <1>1, <1>2, <1>3, <1>5 DEF Moves, FramesAddressed
<1>6. ASSUME NEW pc, NEW i, NEW d, NEW to, NEW c, NEW m, NEW n,
             Pushes(pc, i, d, to, c, m, n), pc \notin Lost, to \notin Lost,
             pc \in ToOne \cup MessageLabels => Top.pc \in ToOne \cup MessageLabels,
             to \in ToOne \cup MessageLabels => sock[c] # "none"
      PROVE  FramesAddressed'
  BY <1>1, <1>2, <1>3, <1>4, <1>6 DEF Pushes, FramesAddressed
<1>7. Leaves => FramesAddressed'
  BY <1>1, <1>2 DEF Leaves, FramesAddressed
<1> QED BY <1>5, <1>6, <1>7

\* A send that found client's connection closed goes on to remove it.
LEMMA AddressLoses ==
    ASSUME IInv, FramesAddressed, sock' = sock, NEW pc \in Lost, NEW i, NEW d,
           NEW to \in {"disconnect", "choose"}, NEW c, NEW m, NEW n,
           Pushes(pc, i, d, to, c, m, n), c \in Clients, sock[c] = "closed",
           c = IF pc = "all_reset" THEN i ELSE Top.c
    PROVE  FramesAddressed'
<1>1. depth \in Nat
  BY FramesOK
<1>2. \A j \in 0 .. depth - 1 : AddressOK(frame'[j], sock')
  BY <1>1 DEF FramesAddressed, Pushes, Below, AddressOK, Victim
<1>3. AddressOK(frame'[depth], sock')
  BY DEF Pushes, Alters, AddressOK, Victim, ToOne, Lost, MessageLabels
<1>4. AddressOK(frame'[depth + 1], sock')
  BY DEF Pushes, Fresh, AddressOK, Victim, ToOne, MessageLabels
<1> QED BY <1>1, <1>2, <1>3, <1>4 DEF Pushes, FramesAddressed

LEMMA LabelsApart ==
    /\ Lost \cap MessageLabels = {} /\ ToOne \cap MessageLabels = {}
    /\ RunLabels \cap (Lost \cup ToOne \cup MessageLabels) = {}
    /\ {"all", "ai", "choose", "choose_first", "choose_send", "choose_set"}
         \cap (Lost \cup ToOne \cup MessageLabels) = {}
    /\ "client" \in ToOne /\ "client_erase" \in ToOne /\ "client" \notin Lost
    /\ {"all_reset", "client_erase", "disconnect", "forget"} = Lost
<1>1. {"client", "client_erase", "all_reset", "disconnect", "forget"} \cap MessageLabels = {}
  BY DEF MessageLabels
<1>2. RunLabels \cap (Lost \cup ToOne \cup MessageLabels) = {}
  BY DEF Lost, ToOne, MessageLabels, RunLabels
<1>3. {"all", "ai", "choose", "choose_first", "choose_send", "choose_set"}
        \cap (Lost \cup ToOne \cup MessageLabels) = {}
  BY DEF Lost, ToOne, MessageLabels
<1> QED BY <1>1, <1>2, <1>3 DEF Lost, ToOne

LEMMA AddressHandlers ==
    ASSUME IInv, NetOK, AddressesOK, fault' = "none",
           \/ Run \/ Wait \/ Update \/ Sending \/ OnClientDisconnect \/ DisconnectForget \/ Turns
    PROVE  FramesAddressed'
<1>1. FramesAddressed /\ sock' = sock /\ AddressOK(Top, sock)
  BY GameKeeps, FramesOK DEF AddressesOK, FramesAddressed, GameThread
<1>2. sock \in [Clients -> {"none", "open", "valid", "closed"}]
  BY DEF IInv, NetTypeOK
<1>3. CASE Run \/ Wait
  <2>1. \/ Moves("wait", Top.i, Top.dirty)
        \/ Pushes("wait", Top.i, Top.dirty, "all", NULL,
                  Msg("ServerShyConnectionCheck", NULL), nIDCounter - 1)
        \/ Moves("update", Top.i, Top.dirty)
    BY <1>3, RunLoopIs
  <2>2. {"wait", "update", "all"} \cap (Lost \cup ToOne \cup MessageLabels) = {}
    BY LabelsApart DEF RunLabels
  <2> QED BY <1>1, <2>1, <2>2, AddressMoves
<1>4. CASE Update
  <2> DEFINE om == Head(m_qMessagesIn)
  <2>1. \/ Moves("run", Top.i, Top.dirty)
        \/ /\ m_qMessagesIn # <<>>
           /\ Pushes("update", Top.i, Top.dirty, "on_message", om.remote, om.msg,
                     Len(GarbageIDs))
    BY <1>4, RunLoopIs
  <2>2. m_qMessagesIn # <<>> => sock[om.remote] # "none"
    BY DEF AddressesOK, IInv, NetTypeOK
  <2>3. {"run", "update"} \cap (Lost \cup ToOne \cup MessageLabels) = {}
        /\ "on_message" \notin Lost
    BY LabelsApart DEF RunLabels, MessageLabels
  <2> HIDE DEF om
  <2> QED BY <1>1, <2>1, <2>2, <2>3, AddressMoves
<1>5. CASE AllStep
  <2> DEFINE client == Least(ToVisit)
  <2>1. /\ client \in ToVisit
        /\ \/ Moves("all", client + 1, Top.dirty)
           \/ /\ ~IsConnected(client) /\ m_deqConnection[client] # "null"
              /\ Pushes("all_reset", client, Top.dirty, "disconnect", client, NoMsg, 0)
    BY <1>5, AllStepIs
  <2>2. client \in Clients /\ client \in Nat /\ m_deqConnection[client] # "absent"
    BY <2>1, SizeAssumption DEF ToVisit, Connections, Nulls, Clients
  <2>3. nIDCounter \in Nat
    BY SizeAssumption DEF IInv, NetTypeOK
  <2> HIDE DEF client
  <2>4. sock[client] # "none"
    BY <2>2, <2>3 DEF NetOK
  <2>5. CASE Moves("all", client + 1, Top.dirty)
    BY <1>1, <2>5, AddressMoves, LabelsApart
  <2>6. CASE ~IsConnected(client)
               /\ Pushes("all_reset", client, Top.dirty, "disconnect", client, NoMsg, 0)
    <3>1. sock[client] = "closed"
      BY <1>2, <2>2, <2>4, <2>6 DEF IsConnected
    <3> QED BY <1>1, <2>2, <2>6, <3>1, AddressLoses, LabelsApart
  <2> QED BY <2>1, <2>5, <2>6
<1>6. CASE AllReset \/ AllEnd \/ ClientErase
  <2>1. Moves("all", Top.i + 1, TRUE) \/ Leaves
    BY <1>6, SendingIs
  <2> QED BY <1>1, <2>1, AddressMoves, LabelsApart
<1>7. CASE MessageClient
  <2>1. /\ Top.pc = "client"
        /\ \/ Leaves
           \/ /\ ~IsConnected(Top.c)
              /\ Pushes("client_erase", Top.i, Top.dirty, "disconnect", Top.c, NoMsg, 0)
    BY <1>7, SendingIs
  <2>2. CASE Leaves
    BY <1>1, <2>2, AddressMoves
  <2>3. CASE ~IsConnected(Top.c)
               /\ Pushes("client_erase", Top.i, Top.dirty, "disconnect", Top.c, NoMsg, 0)
    <3>1. Top.c \in Clients /\ sock[Top.c] # "none"
      BY <1>1, <2>1, RunningOK, LabelsApart DEF AddressOK, ClientLabels
    <3>2. sock[Top.c] = "closed"
      BY <1>2, <2>3, <3>1 DEF IsConnected
    <3> QED BY <1>1, <2>3, <3>1, <3>2, AddressLoses, LabelsApart
  <2> QED BY <2>1, <2>2, <2>3
<1>8. CASE OnClientDisconnect \/ DisconnectForget
  <2>1. \/ Leaves
        \/ Top.pc = "disconnect"
             /\ Pushes("forget", Top.i, Top.dirty, "choose", Top.c, NoMsg, 0)
    BY <1>8, DisconnectIs
  <2>2. CASE Leaves
    BY <1>1, <2>2, AddressMoves
  <2>3. CASE Top.pc = "disconnect"
               /\ Pushes("forget", Top.i, Top.dirty, "choose", Top.c, NoMsg, 0)
    <3>1. Top.c \in Clients /\ sock[Top.c] = "closed"
      BY <1>1, <2>3, LabelsApart DEF AddressOK, Victim
    <3> QED BY <1>1, <2>3, <3>1, AddressLoses, LabelsApart
  <2> QED BY <2>1, <2>2, <2>3
<1>9. CASE Turns
  <2>1. \/ Leaves
        \/ Moves("choose_send", Top.i, Top.dirty)
        \/ Moves("choose_set", Top.i, Top.dirty)
        \/ \E k : Pushes("choose_first", Top.i, Top.dirty, "ai", NULL, NoMsg, k)
        \/ Pushes("ai", Top.i + 1, Top.dirty, "all", NULL,
                  Msg("GameAITurnAction", NULL), nIDCounter - 1)
        \/ /\ CurrentPlayerID \in Connections
           /\ Pushes("choose_set", Top.i, Top.dirty, "client", CurrentPlayerID,
                     Msg("GamePlayerTurn", NULL), 0)
    BY <1>9, TurnsAre DEF Turns
  <2>2. CASE \/ Leaves
             \/ Moves("choose_send", Top.i, Top.dirty)
             \/ Moves("choose_set", Top.i, Top.dirty)
             \/ \E k : Pushes("choose_first", Top.i, Top.dirty, "ai", NULL, NoMsg, k)
             \/ Pushes("ai", Top.i + 1, Top.dirty, "all", NULL,
                       Msg("GameAITurnAction", NULL), nIDCounter - 1)
    BY <1>1, <2>2, AddressMoves, LabelsApart
  <2>3. CASE /\ CurrentPlayerID \in Connections
             /\ Pushes("choose_set", Top.i, Top.dirty, "client", CurrentPlayerID,
                       Msg("GamePlayerTurn", NULL), 0)
    <3>1. sock[CurrentPlayerID] # "none"
      BY <2>3, SizeAssumption DEF Connections, NetOK, Clients, IInv, NetTypeOK
    <3> QED BY <1>1, <2>3, <3>1, AddressMoves, LabelsApart
  <2> QED BY <2>1, <2>2, <2>3
<1> QED BY <1>3, <1>4, <1>5, <1>6, <1>7, <1>8, <1>9 DEF Sending

LEMMA AddressMessages ==
    ASSUME IInv, AddressesOK, fault' = "none", OnMessage
    PROVE  FramesAddressed'
<1>1. FramesAddressed /\ sock' = sock /\ AddressOK(Top, sock)
  BY GameKeeps, FramesOK DEF AddressesOK, FramesAddressed, GameThread
<1>2. Top.pc \in MessageLabels => sock[Top.c] # "none"
  BY <1>1 DEF AddressOK
<1>3. CASE AnnounceLeaver \/ ClearGarbage \/ MessageDone
  <2>1. \/ Leaves
        \/ Top.pc = "on_message" /\ Moves(Top.m.t, Top.i, Top.dirty)
        \/ Top.pc = "on_message"
             /\ \E pid : Pushes("on_message", Top.i + 1, Top.dirty, "all", NULL,
                                Msg("GameRemovePlayer", pid), nIDCounter - 1)
    BY <1>3, GarbageIs
  <2>2. Top.pc = "on_message" => Top.pc \in MessageLabels /\ Top.m.t \in MessageLabels
    BY RunningOK DEF MessageLabels, ClientMessages
  <2> QED BY <1>1, <2>1, <2>2, AddressMoves, LabelsApart
<1>4. CASE Register \/ SendWorld \/ SendNew \/ FirstTurn
  <2>1. /\ Top.pc \in MessageLabels
        /\ \/ Leaves
           \/ \E pc \in MessageLabels : \E i, m, n :
                \/ Pushes(pc, i, Top.dirty, "client", Top.c, m, n)
                \/ Pushes(pc, i, Top.dirty, "all", Top.c, m, n)
                \/ Pushes(pc, i, Top.dirty, "choose", NULL, m, n)
    BY <1>4, RegisterIs DEF MessageLabels
  <2> QED BY <1>1, <1>2, <2>1, AddressMoves, LabelsApart
<1>5. CASE SendOthers
  <2>1. /\ Top.pc \in MessageLabels
        /\ \/ Moves("first_turn", Top.i, Top.dirty)
           \/ Moves("send_others", order[Top.c], Top.dirty)
           \/ \E i, m : Pushes("send_others", i, Top.dirty, "client", Top.c, m, 0)
    BY <1>5, RegisterIs DEF MessageLabels
  <2>2. {"first_turn", "send_others"} \subseteq MessageLabels
    BY DEF MessageLabels
  <2> QED BY <1>1, <1>2, <2>1, <2>2, AddressMoves, LabelsApart
<1>6. CASE Approve \/ Abort \/ Acted \/ EndTurn \/ NextTurn \/ MessageAll
  <2>1. /\ Top.pc \in MessageLabels
        /\ \/ Leaves
           \/ \E pc \in MessageLabels : \E i, c, m, n :
                \/ Pushes(pc, i, Top.dirty, "client", Top.c, m, n)
                \/ Pushes(pc, i, Top.dirty, "all", c, m, n)
                \/ Pushes(pc, i, Top.dirty, "choose", c, m, n)
    BY <1>6, ActionIs DEF MessageLabels
  <2> QED BY <1>1, <1>2, <2>1, AddressMoves, LabelsApart
<1> QED BY <1>3, <1>4, <1>5, <1>6 DEF OnMessage

LEMMA InboxIs ==
    ASSUME IInv, [Next]_vars, fault' = "none"
    PROVE  \/ UNCHANGED m_qMessagesIn
           \/ m_qMessagesIn # <<>> /\ m_qMessagesIn' = Tail(m_qMessagesIn)
           \/ \E c \in Clients : \E m \in MayReceive(c) :
                /\ sock[c] = "valid" /\ UNCHANGED sock
                /\ m_qMessagesIn' = Append(m_qMessagesIn, [remote |-> c, msg |-> m])
<1>1. CASE GameThread
  <2>1. CASE Run \/ Wait \/ Update
    BY <2>1, RunLoopIs DEF net
  <2>2. CASE AllStep
    BY <2>2, AllStepIs DEF net
  <2>3. CASE AllReset \/ AllEnd \/ MessageClient \/ ClientErase
    BY <2>3, SendingIs DEF net, NetButDeque
  <2>4. CASE OnClientDisconnect \/ DisconnectForget
    BY <2>4, DisconnectIs DEF net
  <2>5. CASE Turns
    BY <2>5, TurnsAre DEF net, Turns
  <2>6. CASE AnnounceLeaver \/ ClearGarbage \/ MessageDone
    BY <2>6, GarbageIs DEF net
  <2>7. CASE Register \/ SendWorld \/ SendNew \/ SendOthers \/ FirstTurn
    BY <2>7, RegisterIs DEF net
  <2>8. CASE Approve \/ Abort \/ Acted \/ EndTurn \/ NextTurn \/ MessageAll
    BY <2>8, ActionIs DEF net
  <2> QED BY <1>1, <2>1, <2>2, <2>3, <2>4, <2>5, <2>6, <2>7, <2>8
          DEF GameThread, OnMessage, Sending
<1>2. CASE AsioThread
  BY <1>2, AsioIs
<1>3. CASE UNCHANGED vars
  BY <1>3 DEF vars, net
<1> QED BY <1>1, <1>2, <1>3, Alive

LEMMA AddressesStep ==
    ASSUME IInv, NetOK, AddressesOK, [Next]_vars, fault' = "none"
    PROVE  AddressesOK'
<1>1. FramesAddressed
  BY DEF AddressesOK, FramesAddressed
<1>2. FramesAddressed'
  <2>1. CASE GameThread
    BY <2>1, AddressHandlers, AddressMessages DEF GameThread
  <2>2. CASE AsioThread \/ UNCHANGED vars
    <3>1. frame' = frame /\ depth' = depth
      BY <2>2, AsioIs DEF vars, frame, depth
    <3>2. ASSUME NEW j \in 0 .. depth PROVE AddressOK(frame[j], sock')
      <4>1. AddressOK(frame[j], sock) /\ RecordOK(frame[j])
        BY FramesOK DEF AddressesOK
      <4>2. /\ frame[j].pc \in ToOne \cup MessageLabels => frame[j].c \in Clients
            /\ frame[j].pc \in Lost => Victim(frame[j]) \in Clients
        BY <4>1 DEF AddressOK, RecordOK, ToOne, ClientLabels
      <4> QED BY <4>1, <4>2, SocketsStay DEF AddressOK
    <3> QED BY <3>1, <3>2 DEF FramesAddressed
  <2> QED BY <2>1, <2>2, Alive
<1>3. \A k \in 1 .. Len(m_qMessagesIn') : sock'[m_qMessagesIn'[k].remote] # "none"
  <2>1. m_qMessagesIn \in Seq([remote : Clients, msg : ClientMessages])
    BY DEF IInv, NetTypeOK
  <2>2. ASSUME NEW k \in 1 .. Len(m_qMessagesIn)
        PROVE  sock'[m_qMessagesIn[k].remote] # "none"
    <3>1. m_qMessagesIn[k] \in [remote : Clients, msg : ClientMessages]
      BY <2>1, ElementOfSeq
    <3>2. m_qMessagesIn[k].remote \in Clients /\ sock[m_qMessagesIn[k].remote] # "none"
      BY <3>1 DEF AddressesOK
    <3> QED BY <3>2, SocketsStay
  <2>3. CASE UNCHANGED m_qMessagesIn
    BY <2>2, <2>3
  <2>4. CASE m_qMessagesIn # <<>> /\ m_qMessagesIn' = Tail(m_qMessagesIn)
    <3>1. \A k \in 1 .. Len(m_qMessagesIn') :
            k + 1 \in 1 .. Len(m_qMessagesIn) /\ m_qMessagesIn'[k] = m_qMessagesIn[k + 1]
      BY <2>1, <2>4, HeadTailProperties, LenProperties
    <3> QED BY <2>2, <3>1
  <2>5. CASE \E c \in Clients : \E m \in MayReceive(c) :
               /\ sock[c] = "valid" /\ UNCHANGED sock
               /\ m_qMessagesIn' = Append(m_qMessagesIn, [remote |-> c, msg |-> m])
    <3>1. PICK c \in Clients : \E m :
                 /\ sock[c] = "valid" /\ UNCHANGED sock
                 /\ m_qMessagesIn' = Append(m_qMessagesIn, [remote |-> c, msg |-> m])
      BY <2>5
    <3>2. PICK m : /\ sock[c] = "valid" /\ UNCHANGED sock
                   /\ m_qMessagesIn' = Append(m_qMessagesIn, [remote |-> c, msg |-> m])
      BY <3>1
    <3>3. /\ Len(m_qMessagesIn') = Len(m_qMessagesIn) + 1
          /\ \A k \in 1 .. Len(m_qMessagesIn) : m_qMessagesIn'[k] = m_qMessagesIn[k]
          /\ m_qMessagesIn'[Len(m_qMessagesIn) + 1] = [remote |-> c, msg |-> m]
      BY <2>1, <3>2, AppendProperties
    <3>4. Len(m_qMessagesIn) \in Nat /\ sock'[c] # "none"
      BY <2>1, <3>2
    <3> QED BY <2>2, <3>3, <3>4
  <2> QED BY <2>3, <2>4, <2>5, InboxIs
<1> QED BY <1>2, <1>3 DEF AddressesOK, FramesAddressed

Called == {"all", "client", "disconnect", "choose", "ai", "on_message"}

\* A step of the game thread moves the running record, calls a handler or
\* returns; a loop never forgets that it has reset an entry.
LEMMA GameIs ==
    ASSUME IInv, GameThread, fault' = "none"
    PROVE  \/ \E pc, i, d : /\ Moves(pc, i, d) /\ pc \notin Lost
                            /\ Top.pc \in ToAll => pc \in ToAll
                            /\ Top.dirty => d
           \/ \E pc, i, to, c, m, n : /\ Pushes(pc, i, Top.dirty, to, c, m, n) /\ to \in Called
                                      /\ Top.pc \in ToAll => pc \in ToAll
           \/ /\ Leaves
              /\ Top.pc \in Losing => Top.c \notin PlayersList'
              /\ Top.pc \in ToAll /\ Top.dirty => Nulls' = {}
<1> USE DEF Called, ToAll, Losing
<1>1. CASE Run \/ Wait \/ Update
  BY <1>1, RunLoopIs DEF Lost
<1>2. CASE AllStep
  BY <1>2, AllStepIs DEF Lost
<1>3. CASE AllReset \/ MessageClient \/ ClientErase
  BY <1>3, SendingIs DEF Lost
<1>4. CASE AllEnd
  <2>1. Leaves /\ Top.pc = "all" /\ (Top.dirty => Erases(Nulls))
    BY <1>4, SendingIs
  <2>2. Erases(Nulls) => Nulls' = {}
    BY DEF Erases, Nulls
  <2> QED BY <2>1, <2>2
<1>5. CASE OnClientDisconnect \/ DisconnectForget
  BY <1>5, DisconnectIs DEF Removes, game
<1>6. CASE Turns
  BY <1>6, TurnsAre DEF Turns, Lost
<1>7. CASE AnnounceLeaver \/ ClearGarbage \/ MessageDone
  <2>1. \/ Leaves /\ Top.pc \notin Losing /\ Top.pc \notin ToAll
        \/ Top.pc = "on_message" /\ Moves(Top.m.t, Top.i, Top.dirty)
        \/ Top.pc = "on_message"
             /\ \E pid : Pushes("on_message", Top.i + 1, Top.dirty, "all", NULL,
                                Msg("GameRemovePlayer", pid), nIDCounter - 1)
    BY <1>7, GarbageIs
  <2>2. Top.pc = "on_message" => Top.m.t \in MessageLabels
    BY RunningOK DEF MessageLabels, ClientMessages
  <2> QED BY <2>1, <2>2, LabelsApart
<1>8. CASE Register \/ SendWorld \/ SendNew \/ SendOthers \/ FirstTurn
  BY <1>8, RegisterIs DEF Lost
<1>9. CASE Approve \/ Abort \/ Acted \/ EndTurn \/ NextTurn \/ MessageAll
  BY <1>9, ActionIs
<1> QED BY <1>1, <1>2, <1>3, <1>4, <1>5, <1>6, <1>7, <1>8, <1>9
        DEF GameThread, OnMessage, Sending

LEMMA VictimStep ==
    ASSUME IInv, CallsOK, VictimOK, [Next]_vars, fault' = "none"
    PROVE  VictimOK'
<1>1. depth \in Nat /\ Top = frame[depth]
  BY FramesOK
<1>2. CASE GameThread
  <2>1. CASE \E pc, i, d : Moves(pc, i, d) /\ pc \notin Lost
    BY <1>1, <2>1 DEF Moves, Alters, VictimOK, Lost
  <2>2. CASE \E pc, i, to, c, m, n : Pushes(pc, i, Top.dirty, to, c, m, n) /\ to \in Called
    BY <1>1, <2>2 DEF Pushes, Fresh, VictimOK, Called
  <2>3. CASE Leaves /\ (Top.pc \in Losing => Top.c \notin PlayersList')
    <3>1. /\ depth - 1 \in 0 .. depth - 1 /\ depth' = depth - 1
          /\ frame'[depth - 1] = frame[depth - 1] /\ Calls(frame[depth - 1], frame[depth])
      BY <1>1, <2>3 DEF Leaves, Below, CallsOK
    <3>2. frame[depth - 1].pc \in {"all_reset", "client_erase"}
            => Top.pc \in Losing /\ Top.c = Victim(frame[depth - 1])
      BY <1>1, <3>1 DEF Calls, CallsFor, RunCallsFor, MessageCallsFor, Victim
    <3> QED BY <2>3, <3>1, <3>2 DEF VictimOK, Victim
  <2> QED BY <1>2, <2>1, <2>2, <2>3, GameIs
<1>3. CASE AsioThread
  BY <1>3, AsioIs DEF VictimOK, Victim, game
<1>4. CASE UNCHANGED vars
  BY <1>4 DEF vars, game, VictimOK, Victim, frame, depth
<1> QED BY <1>2, <1>3, <1>4, Alive

LEMMA NullsStep ==
    ASSUME IInv, NetOK, AddressesOK, NullsOK, [Next]_vars, fault' = "none"
    PROVE  NullsOK'
<1>1. depth \in Nat /\ Top = frame[depth] /\ depth \in 0 .. depth
  BY FramesOK
<1>2. CASE GameThread
  <2>1. CASE Top.pc = "all_reset" /\ Moves("all", Top.i + 1, TRUE)
    BY <1>1, <2>1 DEF Moves, Alters, NullsOK, ToAll
  <2>2. CASE Nulls' \subseteq Nulls
    <3>1. SUFFICES ASSUME Nulls # {}, Nulls' # {}
                   PROVE  \E j \in 0 .. depth' : frame'[j].pc \in ToAll /\ frame'[j].dirty
      BY <2>2 DEF NullsOK
    <3>2. PICK j \in 0 .. depth : frame[j].pc \in ToAll /\ frame[j].dirty
      BY <3>1 DEF NullsOK
    <3>3. CASE \E pc, i, d : /\ Moves(pc, i, d)
                             /\ Top.pc \in ToAll => pc \in ToAll
                             /\ Top.dirty => d
      <4>1. PICK pc, i, d : /\ Moves(pc, i, d)
                            /\ Top.pc \in ToAll => pc \in ToAll
                            /\ Top.dirty => d
        BY <3>3
      <4>2. /\ depth' = depth /\ frame'[depth].pc = pc /\ frame'[depth].dirty = d
            /\ \A k \in 0 .. depth - 1 : frame'[k] = frame[k]
        BY <4>1 DEF Moves, Alters, Below
      <4> QED BY <1>1, <3>2, <4>1, <4>2
    <3>4. CASE \E pc, i, to, c, m, n : /\ Pushes(pc, i, Top.dirty, to, c, m, n)
                                       /\ Top.pc \in ToAll => pc \in ToAll
      <4>1. PICK pc, i, to, c, m, n : /\ Pushes(pc, i, Top.dirty, to, c, m, n)
                                      /\ Top.pc \in ToAll => pc \in ToAll
        BY <3>4
      <4>2. /\ depth' = depth + 1 /\ frame'[depth].pc = pc /\ frame'[depth].dirty = Top.dirty
            /\ \A k \in 0 .. depth - 1 : frame'[k] = frame[k]
        BY <4>1 DEF Pushes, Alters, Below
      <4> QED BY <1>1, <3>2, <4>1, <4>2
    <3>5. CASE Leaves /\ (Top.pc \in ToAll /\ Top.dirty => Nulls' = {})
      BY <1>1, <3>1, <3>2, <3>5 DEF Leaves, Below
    <3> QED BY <1>2, <3>3, <3>4, <3>5, GameIs
  <2>3. UNCHANGED m_deqConnection => Nulls' \subseteq Nulls
    BY DEF Nulls
  <2>4. Erases(Nulls) => Nulls' \subseteq Nulls
    BY DEF Erases, Nulls
  <2> QED BY <1>2, <2>1, <2>2, <2>3, <2>4, DequeIs
<1>3. CASE AsioThread
  <2>1. Nulls' \subseteq Nulls
    BY <1>3, AsioIs DEF Nulls, IInv, NetTypeOK
  <2> QED BY <1>3, <2>1, AsioIs DEF NullsOK
<1>4. CASE UNCHANGED vars
  BY <1>4 DEF vars, net, NullsOK, Nulls, frame, depth
<1> QED BY <1>2, <1>3, <1>4, Alive

\* The action that runs at a label.
LEMMA ActionAt ==
    ASSUME GameThread
    PROVE  /\ Top.pc = "run" => Run
           /\ Top.pc = "wait" => Wait
           /\ Top.pc = "update" => Update
           /\ Top.pc = "all" => AllStep \/ AllEnd
           /\ Top.pc = "all_reset" => AllReset
           /\ Top.pc = "client" => MessageClient
           /\ Top.pc = "client_erase" => ClientErase
           /\ Top.pc = "disconnect" => OnClientDisconnect
           /\ Top.pc = "forget" => DisconnectForget
           /\ Top.pc \in Choosing \cup {"ai"} => Turns
           /\ Top.pc \in MessageLabels => OnMessage
<1>1. /\ Run => Top.pc = "run"
      /\ Wait => Top.pc = "wait"
      /\ Update => Top.pc = "update"
      /\ OnClientDisconnect => Top.pc = "disconnect"
      /\ DisconnectForget => Top.pc = "forget"
  BY DEF Run, Wait, Update, OnClientDisconnect, DisconnectForget, At
<1>2. /\ AllStep => Top.pc = "all"
      /\ AllReset => Top.pc = "all_reset"
      /\ AllEnd => Top.pc = "all"
      /\ MessageClient => Top.pc = "client"
      /\ ClientErase => Top.pc = "client_erase"
  BY DEF AllStep, AllReset, AllEnd, MessageClient, ClientErase, At
<1>3. Turns => Top.pc \in Choosing \cup {"ai"}
  BY DEF Turns, ChooseNextPlayerForTurn, ChooseFirst, ChooseSend, ChooseSet, MakeAITurn, At,
         Choosing
<1>4. OnMessage => Top.pc \in MessageLabels
  BY DEF OnMessage, AnnounceLeaver, ClearGarbage, MessageDone, Register, SendWorld, SendNew,
         SendOthers, FirstTurn, Approve, Abort, Acted, EndTurn, NextTurn, MessageAll, At,
         MessageLabels
<1> QED BY <1>1, <1>2, <1>3, <1>4 DEF GameThread, Sending, Choosing, MessageLabels

LEMMA OnMessageAt ==
    ASSUME OnMessage
    PROVE  /\ Top.pc = "on_message" => AnnounceLeaver \/ ClearGarbage
           /\ Top.pc \in {"done", "ClientJustCheck"} => MessageDone
           /\ Top.pc = "ClientRegisterOnServer" => Register
           /\ Top.pc = "send_world" => SendWorld
           /\ Top.pc = "send_new" => SendNew
           /\ Top.pc = "send_others" => SendOthers
           /\ Top.pc = "first_turn" => FirstTurn
           /\ Top.pc = "ServerGamePlayerActionApprove" => Approve \/ Abort
           /\ Top.pc = "acted" => Acted
           /\ Top.pc = "end_turn" => EndTurn
           /\ Top.pc = "next_turn" => NextTurn
           /\ Top.pc = "MessageAll" => MessageAll
<1>1. /\ AnnounceLeaver => Top.pc = "on_message"
      /\ ClearGarbage => Top.pc = "on_message"
      /\ MessageDone => Top.pc \in {"done", "ClientJustCheck"}
      /\ Register => Top.pc = "ClientRegisterOnServer"
      /\ SendWorld => Top.pc = "send_world"
      /\ SendNew => Top.pc = "send_new"
      /\ SendOthers => Top.pc = "send_others"
      /\ FirstTurn => Top.pc = "first_turn"
  BY DEF AnnounceLeaver, ClearGarbage, MessageDone, Register, SendWorld, SendNew, SendOthers,
         FirstTurn, At
<1>2. /\ Approve => Top.pc = "ServerGamePlayerActionApprove"
      /\ Abort => Top.pc = "ServerGamePlayerActionApprove"
      /\ Acted => Top.pc = "acted"
      /\ EndTurn => Top.pc = "end_turn"
      /\ NextTurn => Top.pc = "next_turn"
      /\ MessageAll => Top.pc = "MessageAll"
  BY DEF Approve, Abort, Acted, EndTurn, NextTurn, MessageAll, At
<1> QED BY <1>1, <1>2 DEF OnMessage

LEMMA TurnsAt ==
    ASSUME Turns
    PROVE  /\ Top.pc = "choose" => ChooseNextPlayerForTurn
           /\ Top.pc = "choose_first" => ChooseFirst
           /\ Top.pc = "choose_send" => ChooseSend
           /\ Top.pc = "choose_set" => ChooseSet
           /\ Top.pc = "ai" => MakeAITurn
<1>1. /\ ChooseNextPlayerForTurn => Top.pc = "choose"
      /\ ChooseFirst => Top.pc = "choose_first"
      /\ ChooseSend => Top.pc = "choose_send"
      /\ ChooseSet => Top.pc = "choose_set"
      /\ MakeAITurn => Top.pc = "ai"
  BY DEF ChooseNextPlayerForTurn, ChooseFirst, ChooseSend, ChooseSet, MakeAITurn, At
<1> QED BY <1>1 DEF Turns

\* Players join by Register only.
LEMMA PlayersAre ==
    ASSUME IInv, GameThread, fault' = "none"
    PROVE  PlayersList' \subseteq PlayersList \/ Register
<1>1. CASE Run \/ Wait \/ Update
  BY <1>1, RunLoopIs DEF game
<1>2. CASE Sending
  BY <1>2, AllStepIs, SendingIs DEF game, Sending
<1>3. CASE OnClientDisconnect \/ DisconnectForget
  BY <1>3, DisconnectIs DEF game, Removes
<1>4. CASE Turns
  BY <1>4, TurnsAre DEF TurnButHolder, game, Turns
<1>5. CASE OnMessage
  BY <1>5, GarbageIs, RegisterIs, ActionIs DEF game, OnMessage
<1> QED BY <1>1, <1>2, <1>3, <1>4, <1>5 DEF GameThread

\* Nobody who is being told of its registration is dropped before it is known
\* that its connection is gone.
LEMMA UnwelcomeStays ==
    ASSUME IInv, CallsOK, NetOK, VictimOK, [Next]_vars, fault' = "none",
           NEW c \in Clients, Unwelcome(c), c \in PlayersList
    PROVE  Unwelcome(c)'
<1>1. depth \in Nat /\ Top = frame[depth] /\ depth >= 2
  BY FramesOK DEF Unwelcome
<1>2. sock'[c] = "closed" /\ sock[c] = "closed"
  BY SocketsStay DEF Unwelcome
<1>3. CASE GameThread
  <2>1. frame'[1] = frame[1] /\ depth' >= 2 /\ frame'[2].c = c
    <3>1. CASE \E pc, i, d : Moves(pc, i, d)
      BY <1>1, <3>1 DEF Moves, Alters, Below, Unwelcome
    <3>2. CASE \E pc, i, d, to, x, m, n : Pushes(pc, i, d, to, x, m, n)
      BY <1>1, <3>2 DEF Pushes, Alters, Below, Unwelcome
    <3>3. CASE Leaves
      <4>1. CASE depth = 2
        <5>1. Calls(frame[1], frame[2]) /\ frame[1].pc = "send_world"
          BY <1>1, <4>1 DEF CallsOK, Unwelcome
        <5>2. Top.pc \in ToOne /\ Top.c = c
          BY <1>1, <4>1, <5>1
             DEF Calls, CallsFor, RunCallsFor, MessageCallsFor, MessageLabels, Unwelcome
        <5>3. CASE Top.pc = "client"
          <6>1. ~IsConnected(Top.c)
            BY <1>2, <5>2 DEF IsConnected
          <6>2. depth' = depth + 1
            BY <1>3, <5>3, <6>1, ActionAt, SendingIs DEF Pushes
          <6> QED BY <1>1, <3>3, <6>2 DEF Leaves
        <5>4. CASE Top.pc = "client_erase"
          BY <1>1, <4>1, <5>2, <5>4 DEF VictimOK, Victim
        <5> QED BY <5>2, <5>3, <5>4 DEF ToOne
      <4>2. CASE depth # 2
        BY <1>1, <3>3, <4>2 DEF Leaves, Below, Unwelcome
      <4> QED BY <4>1, <4>2
    <3> QED BY <1>3, <3>1, <3>2, <3>3, GameIs
  <2> QED BY <1>2, <2>1 DEF Unwelcome
<1>4. CASE AsioThread
  BY <1>2, <1>4, AsioIs DEF Unwelcome
<1>5. CASE UNCHANGED vars
  BY <1>2, <1>5 DEF vars, Unwelcome, frame, depth
<1> QED BY <1>3, <1>4, <1>5, Alive

LEMMA ReachStep ==
    ASSUME IInv, CallsOK, NetOK, AddressesOK, VictimOK, ReachOK, [Next]_vars, fault' = "none"
    PROVE  ReachOK'
<1>1. /\ depth \in Nat /\ Top = frame[depth] /\ PlayersList \subseteq Clients
      /\ m_deqConnection \in [Clients -> {"held", "null", "absent"}]
      /\ sock \in [Clients -> {"none", "open", "valid", "closed"}]
  BY FramesOK DEF IInv, GameTypeOK, NetTypeOK
<1>2. ASSUME NEW c \in PlayersList
      PROVE  m_deqConnection'[c] = "held" \/ Unwelcome(c)'
  <2>1. CASE Unwelcome(c)
    BY <1>1, <2>1, UnwelcomeStays
  <2>2. CASE m_deqConnection[c] = "held"
    <3>1. CASE GameThread
      <4>1. Top.pc = "all_reset" => Top.i # c
        BY <1>1 DEF VictimOK, Victim
      <4> QED BY <1>1, <2>2, <3>1, <4>1, DequeIs DEF Erases, Nulls
    <3>2. CASE AsioThread
      BY <1>1, <2>2, <3>2, AsioIs
    <3>3. CASE UNCHANGED vars
      BY <2>2, <3>3 DEF vars, net
    <3> QED BY <3>1, <3>2, <3>3, Alive
  <2> QED BY <2>1, <2>2 DEF ReachOK
<1>3. ASSUME NEW c \in PlayersList', c \notin PlayersList
      PROVE  m_deqConnection'[c] = "held" \/ Unwelcome(c)'
  <2>1. Register
    BY <1>3, Alive, AsioIs, PlayersAre DEF vars, game
  <2>2. /\ c = Top.c /\ Top.pc = "ClientRegisterOnServer" /\ UNCHANGED net
        /\ \E i, m : Pushes("send_world", i, Top.dirty, "client", Top.c, m, 0)
    BY <1>3, <2>1, RegisterIs
  <2>3. Top.pc \in MessageLabels /\ c \in Clients
    BY <2>2, RunningOK DEF MessageLabels
  <2>4. depth = 1 /\ sock[c] # "none"
    BY <1>1, <2>2, <2>3, FramesOK DEF AddressesOK, AddressOK
  <2>5. CASE IsConnected(c)
    BY <2>2, <2>3, <2>5 DEF NetOK, net
  <2>6. CASE ~IsConnected(c)
    <3>1. sock'[c] = "closed"
      BY <1>1, <2>2, <2>3, <2>4, <2>6 DEF IsConnected, net
    <3>2. depth' >= 2 /\ frame'[1].pc = "send_world" /\ frame'[2].c = c
      BY <2>2, <2>4 DEF Pushes, Alters, Fresh
    <3> QED BY <3>1, <3>2 DEF Unwelcome
  <2> QED BY <2>5, <2>6
<1> QED BY <1>2, <1>3 DEF ReachOK

-----------------------------------------------------------------------------
Reachable == CallsOK /\ NetOK /\ AddressesOK /\ VictimOK /\ NullsOK /\ ReachOK
RInv == IInv /\ (fault = "none" => Reachable)

\* At the start the stack holds Run's record alone.
LEMMA FirstFrame ==
    ASSUME Init
    PROVE  depth = 0 /\ frame[0] = RunRecord
BY DEF Init, depth, frame

LEMMA ReachInit ==
    ASSUME Init
    PROVE  Reachable
<1>1. depth = 0 /\ frame[0] = RunRecord /\ frame[0].pc = "run"
  BY FirstFrame DEF RunRecord, Record
<1>2. CallsOK
  BY <1>1 DEF CallsOK
<1>3. NetOK
  BY SizeAssumption DEF Init, NetOK, Clients, IsConnected
<1>4. AddressesOK
  BY <1>1, LabelsApart DEF Init, AddressesOK, AddressOK, RunLabels
<1>5. VictimOK /\ NullsOK /\ ReachOK
  BY <1>1 DEF Init, VictimOK, NullsOK, ReachOK, Nulls
<1> QED BY <1>2, <1>3, <1>4, <1>5 DEF Reachable

LEMMA ReachNext ==
    ASSUME RInv, [Next]_vars
    PROVE  RInv'
<1>1. IInv'
  BY NextOK DEF RInv
<1>2. ASSUME fault' = "none" PROVE Reachable'
  <2>1. IInv /\ Reachable
    BY <1>2, Alive DEF RInv
  <2> QED BY <1>2, <2>1, CallsStep, NetStep, AddressesStep, VictimStep, NullsStep, ReachStep
          DEF Reachable
<1> QED BY <1>1, <1>2 DEF RInv

LEMMA RInvHolds == Spec => []RInv
<1>1. Init => RInv
  BY InitOK, ReachInit DEF RInv
<1>2. RInv /\ [Next]_vars => RInv'
  BY ReachNext
<1> QED BY <1>1, <1>2, PTL DEF Spec

\* A broadcast finds every registered player between two messages, for any
\* number of clients leaving at any point of any handler: server_interface
\* drops a connection from m_deqConnection only once CustomServer has dropped
\* its player, and leaves no reset entry behind (spiderNet.h:609-655).
THEOREM AllReachable == Spec => []PlayersReachable
<1>1. RInv => PlayersReachable
  <2>1. SUFFICES ASSUME RInv, fault = "none", Len(stack) = 1
                 PROVE  PlayersList \subseteq Connections /\ Nulls = {}
    BY DEF PlayersReachable, Quiet
  <2>2. IInv /\ Reachable /\ depth = 0
    BY <2>1 DEF RInv, depth
  <2>3. frame[0].pc \in RunLabels
    BY <2>2, FramesOK
  <2>4. Nulls = {}
    BY <2>2, <2>3 DEF Reachable, NullsOK, ToAll, RunLabels
  <2>5. PlayersList \subseteq Clients
    BY <2>2 DEF IInv, GameTypeOK
  <2> QED BY <2>2, <2>4, <2>5 DEF Reachable, ReachOK, Unwelcome, Connections
<1> QED BY <1>1, RInvHolds, PTL

-----------------------------------------------------------------------------
(* Rosters.  Who has to be told of whom is on the stack: in the record of  *)
(* the registration, frame[1], and in the broadcast or the message it is   *)
(* at, frame[2].                                                           *)

\* A removal that is to be announced, or is being announced, is no player's,
\* and none is left when a registration comes.
GarbageOK ==
    /\ \A k \in 1 .. Len(GarbageIDs) : GarbageIDs[k] \notin PlayersList
    /\ frame[depth].pc = "ClientRegisterOnServer" => GarbageIDs = <<>>
    /\ depth >= 2 /\ frame[1].pc = "on_message" => frame[2].m.p \notin PlayersList

\* What becomes of the two records under a step that runs above them.
LEMMA LevelsStay ==
    ASSUME IInv, GameThread, fault' = "none", depth >= 2
    PROVE  /\ depth' \in Nat /\ depth' >= 1 /\ frame'[1] = frame[1]
           /\ depth >= 3 => depth' >= 2 /\ frame'[2] = frame[2]
           /\ depth' >= 2 => frame'[2].m = frame[2].m /\ frame'[2].c = frame[2].c
<1>1. depth \in Nat /\ Top = frame[depth]
  BY FramesOK
<1>2. CASE \E pc, i, d : Moves(pc, i, d)
  BY <1>1, <1>2 DEF Moves, Alters, Below
<1>3. CASE \E pc, i, to, c, m, n : Pushes(pc, i, Top.dirty, to, c, m, n)
  BY <1>1, <1>3 DEF Pushes, Alters, Below
<1>4. CASE Leaves
  BY <1>1, <1>4 DEF Leaves, Below
<1> QED BY <1>2, <1>3, <1>4, GameIs

LEMMA GarbageNext ==
    ASSUME IInv, CallsOK, GarbageOK, GameThread, fault' = "none"
    PROVE  \A k \in 1 .. Len(GarbageIDs') : GarbageIDs'[k] \notin PlayersList'
<1>1. GarbageIDs \in Seq(Clients) /\ Top = frame[depth]
  BY FramesOK DEF IInv, GameTypeOK
<1>2. CASE Run \/ Wait \/ Update
  BY <1>2, RunLoopIs DEF game, GarbageOK
<1>3. CASE Sending
  BY <1>3, AllStepIs, SendingIs DEF game, Sending, GarbageOK
<1>4. CASE OnClientDisconnect \/ DisconnectForget
  <2>1. UNCHANGED <<GarbageIDs, PlayersList>> \/ Removes(Top.c)
    BY <1>4, DisconnectIs DEF game
  <2>2. CASE Removes(Top.c)
    <3>1. Top.c \in Clients
      BY <1>4, RunningOK, DisconnectIs DEF ClientLabels
    <3>2. /\ Len(GarbageIDs') = Len(GarbageIDs) + 1 /\ Len(GarbageIDs) \in Nat
          /\ \A k \in 1 .. Len(GarbageIDs) : GarbageIDs'[k] = GarbageIDs[k]
          /\ GarbageIDs'[Len(GarbageIDs) + 1] = Top.c
      BY <1>1, <2>2, <3>1, AppendProperties, LenProperties DEF Removes
    <3> QED BY <2>2, <3>2 DEF GarbageOK, Removes
  <2> QED BY <2>1, <2>2 DEF GarbageOK
<1>5. CASE Turns
  BY <1>5, TurnsAre DEF TurnButHolder, game, Turns, GarbageOK
<1>6. CASE AnnounceLeaver \/ ClearGarbage \/ MessageDone
  BY <1>6, GarbageIs DEF game, GarbageOK
<1>7. CASE Register
  BY <1>1, <1>7, RegisterIs DEF GarbageOK
<1>8. CASE SendWorld \/ SendNew \/ SendOthers \/ FirstTurn
  BY <1>8, RegisterIs DEF game, GarbageOK
<1>9. CASE Approve \/ Abort \/ Acted \/ EndTurn \/ NextTurn \/ MessageAll
  BY <1>9, ActionIs DEF game, GarbageOK
<1> QED BY <1>2, <1>3, <1>4, <1>5, <1>6, <1>7, <1>8, <1>9 DEF GameThread, OnMessage, Sending

\* ClearGarbage is the only way to a registration.
LEMMA RegisterComes ==
    ASSUME IInv, CallsOK, GameThread, fault' = "none",
           frame'[depth'].pc = "ClientRegisterOnServer"
    PROVE  ClearGarbage
<1>1. depth \in Nat /\ Top = frame[depth]
  BY FramesOK
<1>2. CASE Leaves
  <2>1. Calls(frame[depth - 1], frame[depth]) /\ frame'[depth'] = frame[depth - 1]
    BY <1>1, <1>2 DEF Leaves, Below, CallsOK
  <2> QED BY <2>1 DEF Calls, CallsFor, RunCallsFor, MessageCallsFor
<1>3. CASE \E pc, i, to, c, m, n : Pushes(pc, i, Top.dirty, to, c, m, n) /\ to \in Called
  BY <1>1, <1>3 DEF Pushes, Fresh, Called
<1>4. CASE \E pc, i, d : Moves(pc, i, d)
  <2>1. /\ \A pc, i, d : Moves(pc, i, d) => pc = "ClientRegisterOnServer"
        /\ ~Leaves /\ \A pc, i, d, to, c, m, n : ~Pushes(pc, i, d, to, c, m, n)
    BY <1>1, <1>4 DEF Moves, Alters, Leaves, Pushes
  <2>2. ~(Run \/ Wait \/ Update)
    BY <2>1, RunLoopIs
  <2>3. ~AllStep
    BY <2>1, AllStepIs
  <2>4. ~(AllReset \/ AllEnd \/ MessageClient \/ ClientErase)
    BY <2>1, SendingIs
  <2>5. ~(OnClientDisconnect \/ DisconnectForget)
    BY <2>1, DisconnectIs
  <2>6. ~Turns
    BY <2>1, TurnsAre DEF Turns
  <2>7. ~(AnnounceLeaver \/ MessageDone)
    BY <2>1, GarbageIs
  <2>8. ~(Register \/ SendWorld \/ SendNew \/ SendOthers \/ FirstTurn)
    BY <2>1, RegisterIs
  <2>9. ~(Approve \/ Abort \/ Acted \/ EndTurn \/ NextTurn \/ MessageAll)
    BY <2>1, ActionIs
  <2> QED BY <2>2, <2>3, <2>4, <2>5, <2>6, <2>7, <2>8, <2>9
          DEF GameThread, OnMessage, Sending
<1> QED BY <1>2, <1>3, <1>4, GameIs

\* What OnMessage calls while it announces is a broadcast of a removal.
LEMMA Announces ==
    ASSUME IInv, GarbageOK, GameThread, fault' = "none", depth = 1, depth' = 2,
           frame'[1].pc = "on_message"
    PROVE  frame'[2].m.p \notin PlayersList /\ UNCHANGED PlayersList
<1>1. Top = frame[1] /\ PlayersList \subseteq Clients /\ (Top.pc = "on_message" => Top.i > 0)
  BY FramesOK, RunningOK DEF IInv, GameTypeOK
<1>2. \A pc, i, to, c, m, n :
         Pushes(pc, i, Top.dirty, to, c, m, n) => pc = "on_message" /\ frame'[2].m = m
  BY DEF Pushes, Alters, Fresh
<1>3. ~Leaves /\ \A pc, i, d : ~Moves(pc, i, d)
  BY DEF Leaves, Moves
<1>4. AnnounceLeaver
  <2>1. ~(Run \/ Wait \/ Update)
    BY <1>2, <1>3, RunLoopIs
  <2>2. ~Sending
    BY <1>2, <1>3, AllStepIs, SendingIs DEF Sending
  <2>3. ~(OnClientDisconnect \/ DisconnectForget)
    BY <1>2, <1>3, DisconnectIs
  <2>4. ~Turns
    BY <1>2, <1>3, TurnsAre DEF Turns
  <2>5. ~(ClearGarbage \/ MessageDone)
    BY <1>2, <1>3, GarbageIs
  <2>6. ~(Register \/ SendWorld \/ SendNew \/ SendOthers \/ FirstTurn)
    BY <1>2, <1>3, RegisterIs
  <2>7. ~(Approve \/ Abort \/ Acted \/ EndTurn \/ NextTurn \/ MessageAll)
    BY <1>2, <1>3, ActionIs
  <2> QED BY <2>1, <2>2, <2>3, <2>4, <2>5, <2>6, <2>7 DEF GameThread, OnMessage
<1>5. PICK pid \in {GarbageIDs[Top.i], NULL} :
             Pushes("on_message", Top.i + 1, Top.dirty, "all", NULL,
                    Msg("GameRemovePlayer", pid), nIDCounter - 1)
  BY <1>4, GarbageIs
<1>6. frame'[2].m.p = pid
  BY <1>2, <1>5 DEF Msg
<1>7. pid \notin PlayersList
  <2>1. Top.pc = "on_message" /\ Top.i <= Top.n /\ Top.n <= Len(GarbageIDs) /\ Top.i > 0
    BY <1>1, <1>4, GarbageIs, RunningOK
  <2>2. Top.i \in Nat /\ Top.n \in Nat /\ Len(GarbageIDs) \in Nat
    BY RunningOK DEF Records
  <2>3. Top.i \in 1 .. Len(GarbageIDs)
    BY <2>1, <2>2
  <2> QED BY <1>1, <1>5, <2>3 DEF GarbageOK, NULL, Clients
<1> QED BY <1>4, <1>6, <1>7, GarbageIs DEF game

LEMMA GarbageStep ==
    ASSUME IInv, CallsOK, GarbageOK, [Next]_vars, fault' = "none"
    PROVE  GarbageOK'
<1>1. depth \in Nat /\ Top = frame[depth]
  BY FramesOK
<1>2. CASE GameThread
  <2>1. \A k \in 1 .. Len(GarbageIDs') : GarbageIDs'[k] \notin PlayersList'
    BY <1>2, GarbageNext
  <2>2. frame'[depth'].pc = "ClientRegisterOnServer" => GarbageIDs' = <<>>
    BY <1>2, RegisterComes, GarbageIs
  <2>3. ASSUME depth' >= 2, frame'[1].pc = "on_message"
        PROVE  frame'[2].m.p \notin PlayersList'
    <3>1. CASE depth >= 2
      <4>1. frame[1].pc = "on_message" /\ frame'[2].m = frame[2].m
        BY <1>2, <2>3, <3>1, LevelsStay
      <4>2. ~Register
        BY <1>1, <3>1, FramesOK, RegisterIs DEF MessageLabels
      <4> QED BY <1>2, <3>1, <4>1, <4>2, PlayersAre DEF GarbageOK
    <3>2. CASE depth < 2
      <4>1. depth = 1 /\ depth' = 2
        BY <1>1, <1>2, <2>3, <3>2, GameIs DEF Moves, Pushes, Leaves
      <4> QED BY <1>2, <2>3, <4>1, Announces
    <3> QED BY <1>1, <3>1, <3>2
  <2> QED BY <2>1, <2>2, <2>3 DEF GarbageOK
<1>3. CASE AsioThread
  BY <1>3, AsioIs DEF GarbageOK, game
<1>4. CASE UNCHANGED vars
  BY <1>4 DEF vars, game, GarbageOK, frame, depth
<1> QED BY <1>2, <1>3, <1>4, Alive

\* What a client has been told changes by what it is sent.
LEMMA KnownIs ==
    ASSUME IInv, GameThread, fault' = "none"
    PROVE  \/ UNCHANGED known
           \/ \E to : Top.pc \in {"all", "client"} /\ Deliver(to, Top.m)
<1>1. CASE Run \/ Wait \/ Update
  BY <1>1, RunLoopIs DEF told
<1>2. CASE AllStep
  <2>1. Top.pc = "all" /\ (UNCHANGED told \/ Deliver({Least(ToVisit)} \ {Top.c}, Top.m))
    BY <1>2, AllStepIs
  <2> QED BY <2>1 DEF told
<1>3. CASE AllReset \/ AllEnd \/ ClientErase
  BY <1>3, SendingIs DEF told
<1>4. CASE MessageClient
  <2>1. Top.pc = "client" /\ (UNCHANGED told \/ Deliver({Top.c}, Top.m))
    BY <1>4, SendingIs
  <2> QED BY <2>1 DEF told
<1>5. CASE OnClientDisconnect \/ DisconnectForget
  BY <1>5, DisconnectIs DEF told
<1>6. CASE Turns
  BY <1>6, TurnsAre DEF told, Turns
<1>7. CASE OnMessage
  BY <1>7, GarbageIs, RegisterIs, ActionIs DEF told, OnMessage
<1> QED BY <1>1, <1>2, <1>3, <1>4, <1>5, <1>6, <1>7 DEF GameThread, Sending

\* Nobody is told that a registered player is gone.
LEMMA KnownStays ==
    ASSUME IInv, CallsOK, GarbageOK, GameThread, fault' = "none",
           NEW c \in Clients, NEW d \in PlayersList, d \in known[c]
    PROVE  d \in known'[c]
<1>1. /\ depth \in Nat /\ Top = frame[depth] /\ Clients \subseteq Nat
      /\ Top.pc \in RunLabels <=> depth = 0
      /\ depth > 0 => (frame[depth - 1].pc \in MessageLabels => depth - 1 = 1)
  <2>1. depth \in Nat /\ Top = frame[depth] /\ depth \in 0 .. depth
        /\ (depth > 0 => depth - 1 \in 0 .. depth)
    BY FramesOK
  <2> QED BY <2>1, FramesOK, SizeAssumption DEF Clients
<1>2. CASE UNCHANGED known
  BY <1>2
<1>3. ASSUME NEW to, Top.pc \in {"all", "client"}, Deliver(to, Top.m)
      PROVE  d \in known'[c]
  <2>1. CASE Top.m.t = "GameRemovePlayer"
    <3>1. depth \in 1 .. depth
      BY <1>1, <1>3 DEF RunLabels
    <3>2. Calls(frame[depth - 1], frame[depth])
      BY <3>1 DEF CallsOK
    <3>3. frame[depth - 1].pc = "on_message"
      BY <1>1, <1>3, <2>1, <3>2
         DEF Calls, CallsFor, RunCallsFor, MessageCallsFor, MessageLabels, ToAll, ToOne,
             Losing, Choosing, Msg
    <3>4. depth = 2
      BY <1>1, <3>1, <3>3 DEF MessageLabels
    <3>5. d # Top.m.p
      BY <1>1, <3>3, <3>4 DEF GarbageOK
    <3> QED BY <1>3, <2>1, <3>5 DEF Deliver
  <2>2. CASE Top.m.t # "GameRemovePlayer"
    BY <1>3, <2>2 DEF Deliver
  <2> QED BY <2>1, <2>2
<1> QED BY <1>2, <1>3, KnownIs

\* c has still to be told of d: by a registration that has just come, by the
\* one of c, which goes through PlayersList, or by the one of d, whose
\* broadcast goes through m_deqConnection.
UntoldItself(c, d) ==
    /\ c = d /\ depth >= 2 /\ frame[1].pc = "send_world" /\ frame[1].c = c
    /\ frame[2].pc = "client"
UntoldYet(c, d) ==
    /\ c # d /\ depth >= 1 /\ frame[1].pc \in {"send_world", "send_new"}
    /\ frame[1].c \in {c, d}
UntoldOfOthers(c, d) ==
    /\ c # d /\ depth >= 1 /\ frame[1].pc = "send_others" /\ frame[1].c = c
    /\ \/ order[d] > frame[1].i
       \/ depth >= 2 /\ frame[2].pc = "client" /\ frame[2].m.p = d
UntoldOfNew(c, d) ==
    /\ c # d /\ depth >= 2 /\ frame[1].pc = "send_others" /\ frame[1].i = 0
    /\ frame[1].c = d /\ frame[2].i <= c /\ c <= frame[2].n

Untold(c, d) ==
    UntoldItself(c, d) \/ UntoldYet(c, d) \/ UntoldOfOthers(c, d) \/ UntoldOfNew(c, d)

RosterOK ==
    /\ \A c, d \in Clients : order[c] = order[d] => c = d
    /\ \A c, d \in PlayersList : IsConnected(c) /\ d \notin known[c] => Untold(c, d)

\* What is above the two records does not matter.
LEMMA UntoldAbove ==
    ASSUME IInv, GameThread, fault' = "none", depth >= 3, order' = order,
           NEW c, NEW d, Untold(c, d)
    PROVE  Untold(c, d)'
<1>1. depth \in Nat /\ depth >= 2 /\ depth >= 1
  BY FramesOK
<1>2. /\ depth' >= 2 /\ depth' >= 1 /\ depth' \in Nat
      /\ frame'[1] = frame[1] /\ frame'[2] = frame[2]
  BY <1>1, LevelsStay
<1> QED BY <1>1, <1>2 DEF Untold, UntoldItself, UntoldYet, UntoldOfOthers, UntoldOfNew

\* The message c is being sent arrives, or c is not connected.
LEMMA SentTo ==
    ASSUME IInv, GameThread, fault' = "none", Top.pc = "client",
           NEW c \in Clients, Top.c = c, IsConnected(c),
           Top.m.t \in {"ClientAddPlayer", "ClientRegisterFromServer"}
    PROVE  Top.m.p \in known'[c]
<1>1. Deliver({c}, Top.m)
  BY ActionAt, SendingIs
<1> QED BY <1>1 DEF Deliver

LEMMA UntoldItselfStep ==
    ASSUME IInv, CallsOK, GameThread, fault' = "none", depth = 2, NEW c \in Clients,
           IsConnected(c), UntoldItself(c, c)
    PROVE  c \in known'[c]
<1>1. Top = frame[2] /\ 2 \in 1 .. depth /\ frame[2 - 1] = frame[1]
  BY FramesOK
<1>2. Calls(frame[1], frame[2])
  BY <1>1 DEF CallsOK
<1>3. Top.pc = "client" /\ Top.c = c /\ Top.m = Msg("ClientRegisterFromServer", c)
  BY <1>1, <1>2
     DEF UntoldItself, Calls, CallsFor, RunCallsFor, MessageCallsFor, MessageLabels
<1>4. Top.m.t = "ClientRegisterFromServer" /\ Top.m.p = c
  BY <1>3 DEF Msg
<1> QED BY <1>3, <1>4, SentTo

\* The records of a registration go from one label to the next.
LEMMA UntoldYetStep ==
    ASSUME IInv, NetOK, GameThread, fault' = "none", depth >= 1, order' = order,
           NEW c \in Clients, NEW d \in Clients, IsConnected(c), UntoldYet(c, d)
    PROVE  Untold(c, d)'
<1>1. depth \in Nat /\ Top = frame[depth] /\ nIDCounter \in Nat /\ Clients \subseteq Nat
  <2>1. nIDCounter \in Nat /\ Clients \subseteq Nat
    BY SizeAssumption DEF IInv, NetTypeOK, Clients
  <2> QED BY <2>1, FramesOK
<1>2. CASE depth >= 2
  <2>1. depth' >= 1 /\ frame'[1] = frame[1]
    BY <1>2, LevelsStay
  <2> QED BY <2>1 DEF UntoldYet, Untold
<1>3. CASE depth = 1 /\ Top.pc = "send_world"
  <2>1. \E i, m, n : Pushes("send_new", i, Top.dirty, "client", Top.c, m, n)
    BY <1>3, ActionAt, OnMessageAt, RegisterIs DEF MessageLabels
  <2> QED BY <1>1, <1>3, <2>1 DEF Pushes, Alters, UntoldYet, Untold
<1>4. CASE depth = 1 /\ Top.pc = "send_new"
  <2>1. \E m : Pushes("send_others", 0, Top.dirty, "all", Top.c, m, nIDCounter - 1)
    BY <1>4, ActionAt, OnMessageAt, RegisterIs DEF MessageLabels
  <2>2. /\ depth' = 2 /\ frame'[1].pc = "send_others" /\ frame'[1].c = Top.c
        /\ frame'[1].i = 0 /\ frame'[2].i = 1 /\ frame'[2].n = nIDCounter - 1
    BY <1>4, <2>1 DEF Pushes, Alters, Fresh
  <2>3. CASE Top.c = c
    <3>1. order[d] > 0
      BY SizeAssumption DEF IInv, NetTypeOK, Clients
    <3> QED BY <1>4, <2>2, <2>3, <3>1 DEF Untold, UntoldYet, UntoldOfOthers
  <2>4. CASE Top.c = d
    <3>1. 1 <= c /\ c <= nIDCounter - 1
      BY <1>1, SizeAssumption DEF Clients, NetOK, IsConnected
    <3> QED BY <1>1, <1>4, <2>2, <2>4, <3>1 DEF Untold, UntoldYet, UntoldOfNew
  <2> QED BY <1>1, <1>4, <2>3, <2>4 DEF UntoldYet
<1> QED BY <1>1, <1>2, <1>3, <1>4 DEF UntoldYet

LEMMA UntoldOfOthersStep ==
    ASSUME IInv, CallsOK, RosterOK, GameThread, fault' = "none", order' = order,
           NEW c \in Clients, NEW d \in PlayersList, IsConnected(c), d \notin known'[c],
           UntoldOfOthers(c, d)
    PROVE  Untold(c, d)'
<1>1. depth \in Nat /\ Top = frame[depth] /\ d \in Clients
  BY FramesOK DEF IInv, GameTypeOK
<1>2. CASE depth >= 3
  BY <1>2, UntoldAbove DEF Untold
<1>3. CASE depth = 2
  <2>1. depth' >= 1 /\ frame'[1] = frame[1] /\ Calls(frame[1], frame[2])
    <3>1. 2 \in 1 .. depth /\ frame[2 - 1] = frame[1]
      BY <1>3
    <3> QED BY <1>3, <3>1, LevelsStay DEF CallsOK
  <2>2. CASE order[d] > frame[1].i
    BY <2>1, <2>2 DEF UntoldOfOthers, Untold
  <2>3. CASE frame[2].pc = "client" /\ frame[2].m.p = d
    <3>1. Top.c = c /\ Top.pc = "client" /\ Top.m.t = "ClientAddPlayer" /\ Top.m.p = d
      BY <1>1, <1>3, <2>1, <2>3
         DEF UntoldOfOthers, Calls, CallsFor, RunCallsFor, MessageCallsFor, MessageLabels, ToAll
    <3> QED BY <3>1, SentTo
  <2> QED BY <2>2, <2>3 DEF UntoldOfOthers
<1>4. CASE depth = 1
  <2> DEFINE next == First(After(Top.i))
  <2>1. Top.pc = "send_others" /\ Top.c = c /\ c # d /\ order[d] > Top.i
    BY <1>1, <1>4 DEF UntoldOfOthers
  <2>2. d \in After(Top.i)
    BY <2>1 DEF After
  <2>3. next \in Clients /\ order[next] <= order[d]
    BY <2>2, FirstAfterOK, RunningOK
  <2>4. \/ next = c /\ Moves("send_others", order[c], Top.dirty)
        \/ Pushes("send_others", order[next], Top.dirty, "client", Top.c,
                  Msg("ClientAddPlayer", next), 0)
    BY <2>1, <2>2, ActionAt, OnMessageAt, RegisterIs DEF MessageLabels
  <2>5. d # next => order[d] > order[next]
    BY <1>1, <2>3, SizeAssumption DEF RosterOK, IInv, NetTypeOK, Clients
  <2> HIDE DEF next
  <2>6. CASE next = c /\ Moves("send_others", order[c], Top.dirty)
    <3>1. /\ depth' = 1 /\ frame'[1].pc = "send_others" /\ frame'[1].c = c
          /\ frame'[1].i = order[c]
      BY <1>4, <2>1, <2>6 DEF Moves, Alters
    <3> QED BY <2>1, <2>5, <2>6, <3>1 DEF Untold, UntoldOfOthers
  <2>7. CASE Pushes("send_others", order[next], Top.dirty, "client", Top.c,
                    Msg("ClientAddPlayer", next), 0)
    <3>1. /\ depth' = 2 /\ frame'[1].pc = "send_others" /\ frame'[1].c = c
          /\ frame'[1].i = order[next] /\ frame'[2].pc = "client" /\ frame'[2].m.p = next
      BY <1>4, <2>1, <2>7 DEF Pushes, Alters, Fresh, Msg
    <3> QED BY <2>1, <2>5, <3>1 DEF Untold, UntoldOfOthers
  <2> QED BY <2>4, <2>6, <2>7
<1> QED BY <1>1, <1>2, <1>3, <1>4 DEF UntoldOfOthers

LEMMA UntoldOfNewStep ==
    ASSUME IInv, CallsOK, NetOK, AddressesOK, GameThread, fault' = "none", order' = order,
           NEW c \in Clients, NEW d \in Clients, IsConnected(c), d \notin known'[c],
           UntoldOfNew(c, d)
    PROVE  Untold(c, d)'
<1>1. depth \in Nat /\ Top = frame[depth] /\ depth >= 2
  BY FramesOK DEF UntoldOfNew
<1>2. CASE depth >= 3
  BY <1>2, UntoldAbove DEF Untold
<1>3. CASE depth = 2
  <2>1. /\ Top = frame[2] /\ Top.pc \in ToAll /\ Top.c = d /\ Top.m = Msg("ClientAddPlayer", d)
        /\ Top.i <= c /\ c <= Top.n /\ c # d
    <3>1. 2 \in 1 .. depth /\ frame[2 - 1] = frame[1]
      BY <1>3
    <3>2. Calls(frame[1], frame[2])
      BY <3>1 DEF CallsOK
    <3> QED BY <1>1, <1>3, <3>2
            DEF UntoldOfNew, Calls, CallsFor, RunCallsFor, MessageCallsFor, MessageLabels
  <2>2. frame'[1] = frame[1] /\ Top.i \in Nat /\ Top.n \in Nat /\ Clients \subseteq Nat
    BY <1>3, LevelsStay, RunningOK, SizeAssumption DEF Records, Clients
  <2>3. c \in ToVisit
    BY <2>1 DEF ToVisit, Connections, NetOK
  <2>4. CASE AllStep
    <3> DEFINE client == Least(ToVisit)
    <3>1. client \in ToVisit /\ client <= c
      BY <2>3, <2>4, AllStepIs
    <3>2. \/ IsConnected(client) /\ Deliver({client} \ {Top.c}, Top.m)
               /\ Moves("all", client + 1, Top.dirty)
          \/ ~IsConnected(client)
               /\ Pushes("all_reset", client, Top.dirty, "disconnect", client, NoMsg, 0)
      BY <2>4, AllStepIs
    <3>3. client \in Nat
      BY <2>2, <3>1 DEF ToVisit, Connections, Nulls
    <3> HIDE DEF client
    <3>4. client # c
      <4>1. SUFFICES ASSUME client = c PROVE FALSE
        OBVIOUS
      <4>2. Deliver({c} \ {Top.c}, Top.m)
        BY <3>2, <4>1
      <4>3. Top.m.t = "ClientAddPlayer" /\ Top.m.p = d
        BY <2>1 DEF Msg
      <4> QED BY <2>1, <4>2, <4>3 DEF Deliver
    <3>5. /\ depth' >= 2 /\ frame'[2].i \in {client, client + 1} /\ frame'[2].n = Top.n
      BY <1>3, <3>2 DEF Moves, Pushes, Alters
    <3>6. frame'[2].i <= c /\ c <= frame'[2].n
      BY <2>1, <2>2, <3>1, <3>3, <3>4, <3>5
    <3> QED BY <2>2, <3>5, <3>6 DEF UntoldOfNew, Untold
  <2>5. CASE AllReset
    <3>1. Top.pc = "all_reset" /\ Moves("all", Top.i + 1, TRUE)
      BY <2>5, SendingIs
    <3>2. sock[Top.i] = "closed"
      BY <1>1, <3>1, FramesOK, LabelsApart DEF AddressesOK, AddressOK, Victim
    <3>3. Top.i # c
      BY <3>2 DEF IsConnected
    <3>4. depth' = 2 /\ frame'[2].i = Top.i + 1 /\ frame'[2].n = Top.n
      BY <1>3, <3>1 DEF Moves, Alters
    <3> QED BY <2>1, <2>2, <3>3, <3>4 DEF UntoldOfNew, Untold
  <2>6. ~AllEnd
    BY <2>3 DEF AllEnd
  <2> QED BY <2>1, <2>4, <2>5, <2>6, ActionAt DEF ToAll
<1> QED BY <1>1, <1>2, <1>3

\* A new player is to be told of everybody, and everybody of it.
LEMMA UntoldAtFirst ==
    ASSUME IInv, Register, fault' = "none", NEW c \in PlayersList', NEW d \in PlayersList',
           c \notin PlayersList \/ d \notin PlayersList
    PROVE  Untold(c, d)'
<1>1. /\ PlayersList' = PlayersList \cup {Top.c} /\ Top.pc = "ClientRegisterOnServer"
      /\ \E i, m : Pushes("send_world", i, Top.dirty, "client", Top.c, m, 0)
  BY RegisterIs
<1>2. Top.c \in {c, d}
  BY <1>1
<1>3. depth = 1
  BY <1>1, FramesOK DEF MessageLabels
<1>4. /\ depth' = 2 /\ frame'[1].pc = "send_world" /\ frame'[1].c = Top.c
      /\ frame'[2].pc = "client"
  BY <1>1, <1>3 DEF Pushes, Alters, Fresh
<1>5. CASE c = d
  BY <1>2, <1>4, <1>5 DEF Untold, UntoldItself
<1>6. CASE c # d
  BY <1>2, <1>4, <1>6 DEF Untold, UntoldYet
<1> QED BY <1>5, <1>6

LEMMA UntoldStep ==
    ASSUME IInv, Reachable, GarbageOK, RosterOK, GameThread, fault' = "none",
           NEW c \in PlayersList, NEW d \in PlayersList, IsConnected(c), d \notin known'[c]
    PROVE  Untold(c, d)'
<1>1. /\ CallsOK /\ NetOK /\ AddressesOK /\ order' = order
      /\ c \in Clients /\ d \in Clients
  BY GameKeeps DEF Reachable, IInv, GameTypeOK
<1>2. d \notin known[c]
  BY <1>1, KnownStays
<1>3. Untold(c, d)
  BY <1>2 DEF RosterOK
<1>4. CASE UntoldItself(c, d)
  <2>1. CASE depth >= 3
    BY <1>1, <1>3, <2>1, UntoldAbove
  <2>2. CASE ~(depth >= 3)
    <3>1. depth = 2 /\ c = d
      BY <1>4, <2>2, FramesOK DEF UntoldItself
    <3> QED BY <1>1, <1>4, <3>1, UntoldItselfStep
  <2> QED BY <2>1, <2>2
<1>5. CASE UntoldYet(c, d)
  BY <1>1, <1>5, UntoldYetStep DEF UntoldYet
<1>6. CASE UntoldOfOthers(c, d)
  BY <1>1, <1>6, UntoldOfOthersStep
<1>7. CASE UntoldOfNew(c, d)
  BY <1>1, <1>7, UntoldOfNewStep
<1> QED BY <1>3, <1>4, <1>5, <1>6, <1>7 DEF Untold

LEMMA RosterStep ==
    ASSUME IInv, Reachable, GarbageOK, RosterOK, [Next]_vars, fault' = "none"
    PROVE  RosterOK'
<1>1. \A c, d \in Clients : order'[c] = order'[d] => c = d
  BY OrderStays DEF RosterOK
<1>2. ASSUME NEW c \in PlayersList', NEW d \in PlayersList', IsConnected(c)', d \notin known'[c]
      PROVE  Untold(c, d)'
  <2>1. CASE GameThread
    <3>1. CASE c \in PlayersList /\ d \in PlayersList
      <4>1. IsConnected(c)
        BY <1>2, <2>1, GameKeeps DEF IsConnected
      <4> QED BY <1>2, <2>1, <3>1, <4>1, UntoldStep
    <3>2. CASE ~(c \in PlayersList /\ d \in PlayersList)
      <4>1. Register
        BY <2>1, <3>2, PlayersAre
      <4> QED BY <3>2, <4>1, UntoldAtFirst
    <3> QED BY <3>1, <3>2
  <2>2. CASE AsioThread \/ UNCHANGED vars
    <3>1. /\ UNCHANGED <<order, PlayersList, known>> /\ frame' = frame /\ depth' = depth
      BY <2>2, AsioIs DEF vars, game, told, net, frame, depth
    <3>2. c \in PlayersList /\ d \in PlayersList /\ d \notin known[c] /\ c \in Clients
      BY <1>2, <3>1 DEF IInv, GameTypeOK
    <3>3. IsConnected(c)
      <4>1. m_deqConnection[c] = "held" \/ sock[c] = "closed"
        BY <3>2 DEF Reachable, ReachOK, Unwelcome
      <4>2. sock[c] # "none"
        BY <3>2, <4>1, SizeAssumption DEF Reachable, NetOK, IInv, NetTypeOK, Clients
      <4> QED BY <1>2, <3>2, <4>2, SocketsStay DEF Reachable
    <3>4. Untold(c, d)
      BY <3>2, <3>3 DEF RosterOK
    <3> QED BY <3>1, <3>4 DEF Untold, UntoldItself, UntoldYet, UntoldOfOthers, UntoldOfNew
  <2> QED BY <2>1, <2>2, Alive
<1> QED BY <1>1, <1>2 DEF RosterOK

RosterInv == RInv /\ (fault = "none" => GarbageOK /\ RosterOK)

LEMMA RosterInvStarts ==
    ASSUME Init
    PROVE  RosterInv
<1>1. RInv
  BY InitOK, ReachInit DEF RInv
<1>2. GarbageOK
  BY FirstFrame DEF Init, GarbageOK, RunRecord, Record
<1>3. RosterOK
  BY DEF Init, RosterOK
<1> QED BY <1>1, <1>2, <1>3 DEF RosterInv

LEMMA RosterInvNext ==
    ASSUME RosterInv, [Next]_vars
    PROVE  RosterInv'
<1>1. RInv'
  BY ReachNext DEF RosterInv
<1>2. ASSUME fault' = "none" PROVE GarbageOK' /\ RosterOK'
  <2>1. IInv /\ Reachable /\ GarbageOK /\ RosterOK
    BY <1>2, Alive DEF RosterInv, RInv
  <2> QED BY <1>2, <2>1, GarbageStep, RosterStep DEF Reachable
<1> QED BY <1>1, <1>2 DEF RosterInv

LEMMA RosterInvHolds == Spec => []RosterInv
<1>1. Init => RosterInv
  BY RosterInvStarts
<1>2. RosterInv /\ [Next]_vars => RosterInv'
  BY RosterInvNext
<1> QED BY <1>1, <1>2, PTL DEF Spec

\* Between two messages each connected player has been told of every player,
\* for any number of clients that register and leave at any point, and in any
\* order PlayersList iterates in: the registration's two loops, over the players
\* for the new one and over the connections for the others, miss nobody
\* (GameServer.cpp:419-456), and no removal announced names a player.
THEOREM AllAgree == Spec => []RostersAgree
<1>1. RosterInv => RostersAgree
  <2>1. SUFFICES ASSUME RosterInv, fault = "none", Len(stack) = 1,
                        NEW c \in PlayersList, IsConnected(c), NEW d \in PlayersList
                 PROVE  d \in known[c]
    BY DEF RostersAgree, Quiet
  <2>2. RosterOK /\ depth = 0
    BY <2>1 DEF RosterInv, depth
  <2>3. ~Untold(c, d)
    BY <2>2 DEF Untold, UntoldItself, UntoldYet, UntoldOfOthers, UntoldOfNew
  <2> QED BY <2>1, <2>2, <2>3 DEF RosterOK
<1> QED BY <1>1, RosterInvHolds, PTL

-----------------------------------------------------------------------------
(* As long as nobody leaves: no connection is closed, no entry is reset,   *)
(* nobody is dropped, and whoever a handler asks PlayersList for is there. *)

Request == {"ServerGamePlayerActionApprove", "MessageAll"}
RequestOK(c, m, players) ==
    /\ m.t \in Request => c \in players
    /\ m.t = "ServerGamePlayerActionApprove" => m.p \in players

RecordCalm(r, players, holder) ==
    /\ r.pc \in MessageLabels => RequestOK(r.c, r.m, players)
    /\ r.pc \in Request => r.m.t = r.pc
    /\ r.pc \in {"send_world", "send_new", "send_others", "acted", "end_turn", "next_turn"}
         => r.c \in players
    /\ r.pc = "send_others" /\ r.i # 0 => \E p \in players : order[p] = r.i
    /\ r.pc \in {"choose_first", "choose_send", "choose_set"} => players # {}
    /\ r.pc \in {"choose_send", "choose_set"} => holder \in players

Calm ==
    /\ \A c \in Clients : sock[c] # "closed" /\ known[c] \subseteq PlayersList
    /\ Nulls = {}
    /\ \A k \in 1 .. Len(m_qMessagesIn) :
         RequestOK(m_qMessagesIn[k].remote, m_qMessagesIn[k].msg, PlayersList)
    /\ \A j \in 0 .. depth : RecordCalm(frame[j], PlayersList, CurrentPlayerID)

\* How deep the handlers nest when none of them finds a connection closed:
\* Run, OnMessage, ChooseNextPlayerForTurn, MakeAITurn, MessageAllClients.
LEMMA CalmLevels ==
    ASSUME IInv, CallsOK, AddressesOK, Calm
    PROVE  /\ \A j \in 0 .. depth : frame[j].pc \notin Lost
           /\ \A j \in 1 .. depth : /\ frame[j].pc \in Choosing => j = 2
                                    /\ frame[j].pc = "ai" => j = 3
                                    /\ frame[j].pc \in ToAll \cup ToOne => j = depth
           /\ depth \in Nat /\ depth <= 4
           /\ Top.pc \notin ToAll \cup ToOne => depth <= 3
<1>1. /\ depth \in Nat /\ Top = frame[depth] /\ depth \in 0 .. depth
      /\ \A j \in 0 .. depth : /\ frame[j].pc \in RunLabels <=> j = 0
                               /\ frame[j].pc \in MessageLabels => j = 1
                               /\ frame[j].pc \in Labels
  BY FramesOK
<1>2. \A j \in 0 .. depth : frame[j].pc \notin Lost
  BY DEF Calm, AddressesOK, AddressOK
<1>3. ASSUME NEW j \in 1 .. depth, frame[j].pc \in Choosing PROVE j = 2
  <2>1. Calls(frame[j - 1], frame[j]) /\ j - 1 \in 0 .. depth
    BY <1>1 DEF CallsOK
  <2>2. frame[j - 1].pc \in MessageLabels
    BY <1>2, <1>3, <2>1
       DEF Calls, CallsFor, RunCallsFor, MessageCallsFor, Lost, MessageLabels, Choosing,
           ToAll, ToOne, Losing
  <2> QED BY <1>1, <2>1, <2>2
<1>4. ASSUME NEW j \in 1 .. depth, frame[j].pc = "ai" PROVE j = 3
  <2>1. Calls(frame[j - 1], frame[j]) /\ j - 1 \in 0 .. depth
    BY <1>1 DEF CallsOK
  <2>2. frame[j - 1].pc = "choose_first"
    BY <1>4, <2>1
       DEF Calls, CallsFor, RunCallsFor, MessageCallsFor, MessageLabels, Choosing, ToAll,
           ToOne, Losing
  <2>3. j - 1 \in 1 .. depth
    BY <1>1, <2>1, <2>2 DEF RunLabels
  <2> QED BY <1>3, <2>2, <2>3 DEF Choosing
<1>5. ASSUME NEW j \in 1 .. depth, frame[j].pc \in ToAll \cup ToOne PROVE j = depth /\ j <= 4
  <2>1. Calls(frame[j - 1], frame[j]) /\ j - 1 \in 0 .. depth
    BY <1>1 DEF CallsOK
  <2>2. frame[j - 1].pc \in MessageLabels \cup {"wait", "choose_set", "ai"}
    BY <1>5, <2>1
       DEF Calls, CallsFor, RunCallsFor, MessageCallsFor, MessageLabels, Choosing, ToAll,
           ToOne, Losing
  <2>3. j - 1 \in {0, 1, 2, 3}
    <3>1. frame[j - 1].pc = "wait" => j - 1 = 0
      BY <1>1, <2>1 DEF RunLabels
    <3>2. frame[j - 1].pc \in {"choose_set", "ai"} => j - 1 \in 1 .. depth
      BY <1>1, <2>1 DEF RunLabels
    <3> QED BY <1>1, <1>3, <1>4, <2>1, <2>2, <3>1, <3>2 DEF Choosing
  <2>4. ASSUME j # depth PROVE FALSE
    <3>1. j + 1 \in 1 .. depth
      BY <1>1, <2>4
    <3>2. Calls(frame[(j + 1) - 1], frame[j + 1]) /\ (j + 1) - 1 = j
      BY <3>1 DEF CallsOK
    <3>3. frame[j].pc \in Lost
      BY <1>5, <3>2
         DEF Calls, CallsFor, RunCallsFor, MessageCallsFor, MessageLabels, ToAll, ToOne, Lost
    <3> QED BY <1>2, <3>3
  <2> QED BY <2>3, <2>4
<1>6. Top.pc \notin ToAll \cup ToOne => depth <= 3
  <2>1. Top.pc \in RunLabels \cup MessageLabels \cup Choosing \cup {"ai"} \cup Lost
                   \cup ToAll \cup ToOne
    BY <1>1 DEF Labels, RunLabels, MessageLabels, Choosing, Lost, ToAll, ToOne
  <2> QED BY <1>1, <1>2, <1>3, <1>4, <2>1
<1> QED BY <1>1, <1>2, <1>3, <1>4, <1>5, <1>6

LEMMA CallFine ==
    ASSUME IInv, depth <= 3, MaxDepth >= 5, NEW f, NEW r, Call(f, r)
    PROVE  UNCHANGED fault
<1>1. Len(stack) \in Nat /\ Len(stack) < MaxDepth
  <2>1. Len(stack) \in Nat /\ MaxDepth \in Nat
    BY StackSeqOK, DepthAssumption
  <2> QED BY <2>1 DEF depth
<1> QED BY <1>1 DEF Call

\* What a called handler was given.
LEMMA CalmGiven ==
    ASSUME IInv, CallsOK, AddressesOK, RosterOK, Calm
    PROVE  /\ Top.pc = "choose" => Top.c = NULL \/ Top.c \in PlayersList
           /\ Top.pc \in ToAll \cup ToOne
              /\ Top.m.t \in {"ClientAddPlayer", "ClientRegisterFromServer"}
                => Top.m.p \in PlayersList
<1>1. /\ depth \in Nat /\ Top = frame[depth] /\ Top \in Records
      /\ depth - 1 \in 0 .. depth \/ depth = 0
      /\ Top.pc \in RunLabels <=> depth = 0
      /\ PlayersList \subseteq Clients
  BY FramesOK, RunningOK DEF IInv, GameTypeOK
<1> DEFINE f == frame[depth - 1]
<1>2. depth # 0 => Calls(f, Top) /\ RecordCalm(f, PlayersList, CurrentPlayerID) /\ f.pc \notin Lost
  BY <1>1, CalmLevels DEF CallsOK, Calm
<1> HIDE DEF f
<1>3. ASSUME Top.pc = "choose" PROVE Top.c = NULL \/ Top.c \in PlayersList
  BY <1>1, <1>2, <1>3
     DEF RunLabels, Calls, CallsFor, RunCallsFor, MessageCallsFor, MessageLabels, ToAll, ToOne,
         Losing, Lost, RecordCalm
<1>4. ASSUME Top.pc \in ToAll \cup ToOne,
             Top.m.t \in {"ClientAddPlayer", "ClientRegisterFromServer"}
      PROVE  Top.m.p \in PlayersList
  <2>1. Calls(f, Top) /\ RecordCalm(f, PlayersList, CurrentPlayerID)
    BY <1>1, <1>2, <1>4 DEF RunLabels, ToAll, ToOne
  <2>2. \/ f.pc = "send_world" /\ Top.m = Msg("ClientRegisterFromServer", f.c)
        \/ f.pc = "send_others" /\ Top.m = Msg("ClientAddPlayer", f.c)
        \/ f.pc = "send_others" /\ f.i # 0 /\ Top.m.t = "ClientAddPlayer"
             /\ order[Top.m.p] = f.i
    BY <1>4, <2>1
       DEF Calls, CallsFor, RunCallsFor, MessageCallsFor, MessageLabels, ToAll, ToOne,
           Losing, Choosing
  <2>3. \A t, x : Msg(t, x).p = x
    BY DEF Msg
  <2>4. CASE f.pc = "send_others" /\ f.i # 0 /\ Top.m.t = "ClientAddPlayer"
               /\ order[Top.m.p] = f.i
    <3>1. Top.m.p \in Clients
      BY <1>1, <2>4 DEF Records, Messages, ClientMessages, PlayerMessages, OtherMessages
    <3>2. PICK p \in PlayersList : order[p] = f.i
      BY <2>1, <2>4 DEF RecordCalm
    <3> QED BY <1>1, <2>4, <3>1, <3>2 DEF RosterOK
  <2> QED BY <2>1, <2>2, <2>3, <2>4 DEF RecordCalm
<1> QED BY <1>3, <1>4

\* No handler fails.
LEMMA CalmSends ==
    ASSUME IInv, CallsOK, NetOK, AddressesOK, Calm, MaxDepth >= 5,
           Sending \/ OnClientDisconnect \/ DisconnectForget
    PROVE  UNCHANGED fault
<1>1. /\ Top.pc \notin Lost /\ sock \in [Clients -> {"none", "open", "valid", "closed"}]
      /\ m_deqConnection \in [Clients -> {"held", "null", "absent"}]
      /\ AddressOK(Top, sock)
  BY CalmLevels, FramesOK DEF IInv, NetTypeOK, AddressesOK
<1>2. CASE AllStep
  <2> DEFINE client == Least(ToVisit)
  <2>1. ToVisit \subseteq Nat /\ ToVisit # {} /\ ToVisit \subseteq Connections
    BY <1>2, SizeAssumption DEF AllStep, ToVisit, Connections, Nulls, Clients, Calm
  <2>2. client \in Connections
    BY <2>1, LeastOK
  <2> HIDE DEF client
  <2>3. client \in Clients /\ m_deqConnection[client] = "held"
    BY <2>2 DEF Connections
  <2>4. IsConnected(client)
    <3>1. sock[client] # "none" /\ sock[client] # "closed"
      BY <2>3, SizeAssumption DEF NetOK, Calm, Clients, IInv, NetTypeOK
    <3> QED BY <1>1, <2>3, <3>1 DEF IsConnected
  <2> QED BY <1>2, <2>3, <2>4 DEF AllStep, Continue, client
<1>3. CASE AllEnd
  BY <1>3 DEF AllEnd, Erase, Calm, Return
<1>4. CASE MessageClient
  <2>1. Top.pc = "client" /\ Top.c \in Clients /\ sock[Top.c] # "none"
    BY <1>1, <1>4, RunningOK DEF MessageClient, At, AddressOK, ToOne, ClientLabels
  <2>2. IsConnected(Top.c)
    BY <1>1, <2>1 DEF Calm, IsConnected
  <2> QED BY <1>4, <2>2 DEF MessageClient, Return
<1>5. ~AllReset /\ ~ClientErase /\ ~OnClientDisconnect /\ ~DisconnectForget
  BY <1>1 DEF AllReset, ClientErase, OnClientDisconnect, DisconnectForget, At, Lost
<1> QED BY <1>2, <1>3, <1>4, <1>5 DEF Sending

LEMMA CalmTurns ==
    ASSUME IInv, CallsOK, NetOK, AddressesOK, RosterOK, Calm, MaxDepth >= 5,
           Run \/ Wait \/ Update \/ Turns
    PROVE  UNCHANGED fault
<1>1. Top.pc \in RunLabels \cup Choosing \cup {"ai"}
  <2>1. Run \/ Wait \/ Update => Top.pc \in RunLabels
    BY DEF Run, Wait, Update, At, RunLabels
  <2>2. Turns => Top.pc \in Choosing \cup {"ai"}
    BY DEF Turns, ChooseNextPlayerForTurn, ChooseFirst, ChooseSend, ChooseSet, MakeAITurn, At,
           Choosing
  <2> QED BY <2>1, <2>2
<1>2. depth <= 3 /\ RecordCalm(Top, PlayersList, CurrentPlayerID)
  <2>1. Top.pc \notin ToAll \cup ToOne
    BY <1>1 DEF RunLabels, Choosing, ToAll, ToOne
  <2> QED BY <2>1, CalmLevels, FramesOK DEF Calm
<1>3. \A f, r : Call(f, r) => UNCHANGED fault
  BY <1>2, CallFine
<1>4. CASE Run \/ Wait \/ Update
  BY <1>3, <1>4 DEF Run, Wait, Update, Continue
<1>5. CASE ChooseNextPlayerForTurn
  <2>1. Top.c = NULL \/ Top.c \in PlayersList
    BY <1>5, CalmGiven DEF ChooseNextPlayerForTurn, At
  <2> QED BY <1>3, <1>5, <2>1 DEF ChooseNextPlayerForTurn, Continue, Return
<1>6. CASE ChooseFirst
  BY <1>2, <1>6 DEF ChooseFirst, At, Continue, RecordCalm
<1>7. CASE ChooseSend
  <2> DEFINE stops == Connections \cap {CurrentPlayerID}
  <2>1. Nulls = {}
    BY DEF Calm
  <2> QED BY <1>3, <1>7, <2>1 DEF ChooseSend, Continue
<1>8. CASE ChooseSet
  BY <1>2, <1>8 DEF ChooseSet, At, Return, RecordCalm
<1>9. CASE MakeAITurn
  BY <1>3, <1>9 DEF MakeAITurn, Return
<1> QED BY <1>4, <1>5, <1>6, <1>7, <1>8, <1>9 DEF Turns

LEMMA CalmMessages ==
    ASSUME IInv, CallsOK, NetOK, AddressesOK, RosterOK, Calm, MaxDepth >= 5, OnMessage
    PROVE  UNCHANGED fault
<1>1. Top.pc \in MessageLabels
  BY DEF OnMessage, AnnounceLeaver, ClearGarbage, MessageDone, Register, SendWorld, SendNew,
         SendOthers, FirstTurn, Approve, Abort, Acted, EndTurn, NextTurn, MessageAll, At,
         MessageLabels
<1>2. depth <= 3 /\ RecordCalm(Top, PlayersList, CurrentPlayerID)
  <2>1. Top.pc \notin ToAll \cup ToOne
    BY <1>1 DEF MessageLabels, ToAll, ToOne
  <2> QED BY <2>1, CalmLevels, FramesOK DEF Calm
<1>3. \A f, r : Call(f, r) => UNCHANGED fault
  BY <1>2, CallFine
<1>4. CASE AnnounceLeaver \/ ClearGarbage \/ MessageDone
  BY <1>3, <1>4 DEF AnnounceLeaver, ClearGarbage, MessageDone, Continue, Return
<1>5. CASE Register \/ SendWorld \/ SendNew \/ FirstTurn
  BY <1>3, <1>5 DEF Register, SendWorld, SendNew, FirstTurn, Continue, Return
<1>6. CASE SendOthers
  <2>1. Top.i = 0 \/ \E p \in PlayersList : order[p] = Top.i
    BY <1>2, <1>6 DEF SendOthers, At, RecordCalm
  <2> QED BY <1>3, <1>6, <2>1 DEF SendOthers, Continue
<1>7. CASE Approve
  <2>1. Top.m.p \in PlayersList
    BY <1>1, <1>2, <1>7 DEF Approve, At, RecordCalm, RequestOK, Request
  <2> QED BY <1>3, <1>7, <2>1 DEF Approve
<1>8. CASE Acted
  <2>1. Top.c \in PlayersList
    BY <1>2, <1>8 DEF Acted, At, RecordCalm
  <2> QED BY <1>3, <1>8, <2>1 DEF Acted, Return
<1>9. CASE MessageAll
  <2>1. Top.c \in PlayersList
    BY <1>1, <1>2, <1>9 DEF MessageAll, At, RecordCalm, RequestOK, Request
  <2> QED BY <1>3, <1>9, <2>1 DEF MessageAll
<1>10. CASE Abort \/ EndTurn \/ NextTurn
  BY <1>3, <1>10 DEF Abort, EndTurn, NextTurn
<1> QED BY <1>4, <1>5, <1>6, <1>7, <1>8, <1>9, <1>10 DEF OnMessage

\* Nobody is dropped, and whoever gets the turn is a player.
LEMMA CalmPlayers ==
    ASSUME IInv, CallsOK, AddressesOK, Calm, GameThread, fault' = "none"
    PROVE  /\ PlayersList \subseteq PlayersList'
           /\ CurrentPlayerID' = CurrentPlayerID \/ CurrentPlayerID' \in PlayersList'
<1>1. CASE Run \/ Wait \/ Update
  BY <1>1, RunLoopIs DEF game
<1>2. CASE Sending
  BY <1>2, AllStepIs, SendingIs DEF game, Sending
<1>3. ~OnClientDisconnect /\ ~DisconnectForget
  BY CalmLevels, FramesOK DEF OnClientDisconnect, DisconnectForget, At, Lost
<1>4. CASE Turns
  <2>1. PlayersList \in SUBSET Clients /\ \A k : After(k) \subseteq PlayersList
    BY DEF IInv, GameTypeOK, After
  <2>2. PlayersList # {} => First(PlayersList) \in PlayersList
    BY <2>1, FirstOK DEF IInv, NetTypeOK
  <2>3. \A k : After(k) # {} => First(After(k)) \in PlayersList
    BY <2>1, FirstAfterOK
  <2> QED BY <1>4, <2>2, <2>3, TurnsAre DEF TurnButHolder, game, Turns
<1>5. CASE OnMessage
  BY <1>5, GarbageIs, RegisterIs, ActionIs DEF game, OnMessage
<1> QED BY <1>1, <1>2, <1>3, <1>4, <1>5 DEF GameThread

LEMMA CalmFrames ==
    ASSUME IInv, CallsOK, AddressesOK, Calm, GameThread, fault' = "none"
    PROVE  LET P == PlayersList'
               h == CurrentPlayerID'
               ok == \A j \in 0 .. depth' : RecordCalm(frame'[j], P, h)
           IN  /\ \A pc, i, d : Moves(pc, i, d) /\ RecordCalm(frame'[depth], P, h) => ok
               /\ \A pc, i, d, to, c, m, n :
                    /\ Pushes(pc, i, d, to, c, m, n) /\ RecordCalm(frame'[depth], P, h)
                    /\ to \in Called /\ (to = "on_message" => RequestOK(c, m, P))
                    => ok
               /\ Leaves => ok
<1> DEFINE P == PlayersList'
           h == CurrentPlayerID'
<1>1. depth \in Nat /\ Top = frame[depth]
  BY FramesOK
<1>2. \A r : RecordCalm(r, PlayersList, CurrentPlayerID) => RecordCalm(r, P, h)
  BY CalmPlayers DEF RecordCalm, RequestOK
<1>3. Below => \A j \in 0 .. depth - 1 : RecordCalm(frame'[j], P, h)
  BY <1>1, <1>2 DEF Below, Calm
<1>4. ASSUME NEW r, NEW to \in Called, NEW c, NEW m, NEW n, Fresh(r, to, c, m, n),
             to = "on_message" => RequestOK(c, m, P)
      PROVE  RecordCalm(r, P, h)
  BY <1>4 DEF Fresh, Called, RecordCalm, MessageLabels, Request
<1> HIDE DEF P, h
<1>5. ASSUME NEW pc, NEW i, NEW d, Moves(pc, i, d), RecordCalm(frame'[depth], P, h)
      PROVE  \A j \in 0 .. depth' : RecordCalm(frame'[j], P, h)
  BY <1>1, <1>3, <1>5 DEF Moves
<1>6. ASSUME NEW pc, NEW i, NEW d, NEW to \in Called, NEW c, NEW m, NEW n,
             Pushes(pc, i, d, to, c, m, n), RecordCalm(frame'[depth], P, h),
             to = "on_message" => RequestOK(c, m, P)
      PROVE  \A j \in 0 .. depth' : RecordCalm(frame'[j], P, h)
  <2>1. RecordCalm(frame'[depth + 1], P, h) /\ depth' = depth + 1 /\ Below
    BY <1>4, <1>6 DEF Pushes
  <2> QED BY <1>1, <1>3, <1>6, <2>1
<1>7. Leaves => \A j \in 0 .. depth' : RecordCalm(frame'[j], P, h)
  BY <1>1, <1>3 DEF Leaves
<1> QED BY <1>5, <1>6, <1>7 DEF P, h

CalmRecords == \A j \in 0 .. depth : RecordCalm(frame[j], PlayersList, CurrentPlayerID)

\* A record whose new label asks for nothing.
LEMMA CalmPlain ==
    ASSUME NEW f, NEW pc, NEW i, NEW d, Alters(f, pc, i, d), NEW P, NEW h,
           pc \in RunLabels \cup ToAll \cup ToOne \cup Losing \cup {"choose", "ai"}
    PROVE  RecordCalm(f, P, h)
BY DEF Alters, RecordCalm, RunLabels, ToAll, ToOne, Losing, MessageLabels, Request

LEMMA CalmRecordsHandlers ==
    ASSUME IInv, CallsOK, NetOK, AddressesOK, Calm, GameThread, fault' = "none",
           Run \/ Wait \/ Update \/ Sending \/ MakeAITurn
    PROVE  \A j \in 0 .. depth' : RecordCalm(frame'[j], PlayersList', CurrentPlayerID')
<1>1. CASE Run \/ Wait
  <2>1. \E pc \in {"wait", "update"} :
          \/ Moves(pc, Top.i, Top.dirty)
          \/ \E m, n : Pushes(pc, Top.i, Top.dirty, "all", NULL, m, n)
    BY <1>1, RunLoopIs
  <2> QED BY <2>1, CalmPlain, CalmFrames DEF Moves, Pushes, RunLabels, Called
<1>2. CASE Update
  <2> DEFINE om == Head(m_qMessagesIn)
  <2>1. \/ Moves("run", Top.i, Top.dirty)
        \/ /\ m_qMessagesIn # <<>> /\ UNCHANGED PlayersList
           /\ Pushes("update", Top.i, Top.dirty, "on_message", om.remote, om.msg,
                     Len(GarbageIDs))
    BY <1>2, RunLoopIs DEF game
  <2>2. m_qMessagesIn # <<>> => RequestOK(om.remote, om.msg, PlayersList)
    BY DEF Calm, IInv, NetTypeOK
  <2> HIDE DEF om
  <2>3. CASE Moves("run", Top.i, Top.dirty)
    BY <2>3, CalmPlain, CalmFrames DEF Moves, RunLabels
  <2>4. CASE /\ m_qMessagesIn # <<>> /\ UNCHANGED PlayersList
             /\ Pushes("update", Top.i, Top.dirty, "on_message", om.remote, om.msg,
                       Len(GarbageIDs))
    <3>1. RecordCalm(frame'[depth], PlayersList', CurrentPlayerID')
      BY <2>4, CalmPlain DEF Pushes, RunLabels
    <3>2. RequestOK(om.remote, om.msg, PlayersList') /\ "on_message" \in Called
      BY <2>2, <2>4 DEF Called
    <3> QED BY <2>4, <3>1, <3>2, CalmFrames
  <2> QED BY <2>1, <2>3, <2>4
<1>3. CASE Sending
  <2>1. \/ Leaves
        \/ \E i, d : Moves("all", i, d)
        \/ \E pc \in {"all_reset", "client_erase"} : \E i, d, c :
             Pushes(pc, i, d, "disconnect", c, NoMsg, 0)
    BY <1>3, AllStepIs, SendingIs DEF Sending
  <2> QED BY <2>1, CalmPlain, CalmFrames DEF Moves, Pushes, ToAll, ToOne, Called
<1>4. CASE MakeAITurn
  <2>1. \/ Leaves
        \/ \E i, d, m, n : Pushes("ai", i, d, "all", NULL, m, n)
    BY <1>4, TurnsAre
  <2> QED BY <2>1, CalmPlain, CalmFrames DEF Pushes, Called
<1> QED BY <1>1, <1>2, <1>3, <1>4

LEMMA CalmRecordsTurns ==
    ASSUME IInv, CallsOK, NetOK, AddressesOK, RosterOK, Calm, GameThread, fault' = "none",
           ChooseNextPlayerForTurn \/ ChooseFirst \/ ChooseSend \/ ChooseSet
    PROVE  \A j \in 0 .. depth' : RecordCalm(frame'[j], PlayersList', CurrentPlayerID')
<1>1. /\ RecordCalm(Top, PlayersList, CurrentPlayerID) /\ UNCHANGED PlayersList
      /\ CurrentPlayerID' = CurrentPlayerID \/ CurrentPlayerID' \in PlayersList'
  BY CalmPlayers, FramesOK, TurnsAre DEF Calm, TurnButHolder, game
<1>2. ASSUME NEW f, NEW pc \in {"choose_first", "choose_send", "choose_set"}, NEW i, NEW d,
             Alters(f, pc, i, d), PlayersList # {},
             pc # "choose_first" => CurrentPlayerID' \in PlayersList'
      PROVE  RecordCalm(f, PlayersList', CurrentPlayerID')
  BY <1>1, <1>2 DEF Alters, RecordCalm, MessageLabels, Request
<1>3. CASE ChooseNextPlayerForTurn
  <2>1. \/ Leaves
        \/ /\ PlayersList # {} /\ CurrentPlayerID' \in PlayersList
           /\ Moves("choose_send", Top.i, Top.dirty)
        \/ /\ PlayersList # {}
           /\ \E k : Pushes("choose_first", Top.i, Top.dirty, "ai", NULL, NoMsg, k)
    <3>1. PlayersList \in SUBSET Clients /\ order \in [Clients -> Clients]
      BY DEF IInv, GameTypeOK, NetTypeOK
    <3>2. PlayersList # {} => First(PlayersList) \in PlayersList
      BY <3>1, FirstOK
    <3>3. \A k : After(k) # {} => First(After(k)) \in PlayersList
      BY FirstAfterOK
    <3> QED BY <1>3, <3>2, <3>3, TurnsAre
  <2> QED BY <1>1, <1>2, <2>1, CalmFrames DEF Moves, Pushes, Called
<1>4. CASE ChooseFirst
  <2>1. /\ PlayersList # {} /\ CurrentPlayerID' = First(PlayersList)
        /\ Moves("choose_send", Top.i, Top.dirty)
    BY <1>4, TurnsAre
  <2>2. First(PlayersList) \in PlayersList
    BY <2>1, FirstOK DEF IInv, GameTypeOK, NetTypeOK
  <2> QED BY <1>1, <1>2, <2>1, <2>2, CalmFrames DEF Moves
<1>5. CASE ChooseSend
  <2>1. /\ Top.pc = "choose_send" /\ UNCHANGED CurrentPlayerID
        /\ \/ Moves("choose_set", Top.i, Top.dirty)
           \/ \E c, m : Pushes("choose_set", Top.i, Top.dirty, "client", c, m, 0)
    BY <1>5, TurnsAre DEF game
  <2>2. CurrentPlayerID' \in PlayersList' /\ PlayersList # {}
    BY <1>1, <2>1 DEF RecordCalm
  <2> QED BY <1>2, <2>1, <2>2, CalmFrames DEF Moves, Pushes, Called
<1>6. CASE ChooseSet
  BY <1>6, TurnsAre, CalmFrames
<1> QED BY <1>3, <1>4, <1>5, <1>6

\* The records of OnMessage.
LEMMA CalmMessage ==
    ASSUME NEW f, NEW pc \in MessageLabels, NEW i, NEW d, Alters(f, pc, i, d), NEW P, NEW h,
           RequestOK(Top.c, Top.m, P), pc \in Request => Top.m.t = pc,
           pc \in {"send_world", "send_new", "send_others", "acted", "end_turn", "next_turn"}
             => Top.c \in P,
           pc = "send_others" /\ i # 0 => \E p \in P : order[p] = i
    PROVE  RecordCalm(f, P, h)
BY DEF Alters, RecordCalm, MessageLabels

LEMMA CalmRecordsMessages ==
    ASSUME IInv, CallsOK, NetOK, AddressesOK, RosterOK, Calm, GameThread, fault' = "none",
           OnMessage
    PROVE  \A j \in 0 .. depth' : RecordCalm(frame'[j], PlayersList', CurrentPlayerID')
<1>1. /\ RecordCalm(Top, PlayersList, CurrentPlayerID) /\ Top.pc \in MessageLabels
      /\ PlayersList \subseteq PlayersList'
  <2>1. Top.pc \in MessageLabels
    BY DEF OnMessage, AnnounceLeaver, ClearGarbage, MessageDone, Register, SendWorld, SendNew,
       SendOthers, FirstTurn, Approve, Abort, Acted, EndTurn, NextTurn, MessageAll, At,
       MessageLabels
  <2> QED BY <2>1, CalmPlayers, FramesOK DEF Calm
<1>2. RequestOK(Top.c, Top.m, PlayersList')
  BY <1>1 DEF RecordCalm, RequestOK
<1>3. CASE AnnounceLeaver \/ ClearGarbage \/ MessageDone
  <2>1. \/ Leaves
        \/ Top.pc = "on_message" /\ Moves(Top.m.t, Top.i, Top.dirty)
        \/ \E i, m, n : Pushes("on_message", i, Top.dirty, "all", NULL, m, n)
    BY <1>3, GarbageIs
  <2>2. Top.pc = "on_message"
          => Top.m.t \in {"ClientRegisterOnServer", "ClientJustCheck",
                          "ServerGamePlayerActionApprove", "MessageAll"}
    BY RunningOK DEF ClientMessages
  <2>3. ASSUME NEW f, NEW pc, NEW i, NEW d, Alters(f, pc, i, d),
               pc = "on_message" \/ (Top.pc = "on_message" /\ pc = Top.m.t)
        PROVE  RecordCalm(f, PlayersList', CurrentPlayerID')
    <3>1. /\ pc \in MessageLabels /\ (pc \in Request => Top.m.t = pc)
          /\ pc \notin {"send_world", "send_new", "send_others", "acted", "end_turn",
                        "next_turn"}
      BY <2>2, <2>3 DEF MessageLabels, Request
    <3> QED BY <1>2, <2>3, <3>1, CalmMessage
  <2> QED BY <2>1, <2>3, CalmFrames DEF Moves, Pushes, Called
<1>4. CASE Register \/ SendWorld \/ SendNew \/ FirstTurn
  <2>1. \/ Leaves
        \/ \E pc \in {"send_world", "send_new", "send_others", "done"} : \E i, to, c, m, n :
             /\ to \in {"client", "all", "choose"}
             /\ pc = "send_others" => i = 0
             /\ pc # "done" => Top.c \in PlayersList'
             /\ Pushes(pc, i, Top.dirty, to, c, m, n)
    BY <1>1, <1>4, RegisterIs DEF RecordCalm, game
  <2>2. ASSUME NEW f, NEW pc \in {"send_world", "send_new", "send_others", "done"}, NEW i,
               NEW d, Alters(f, pc, i, d), pc # "done" => Top.c \in PlayersList',
               pc = "send_others" => i = 0
        PROVE  RecordCalm(f, PlayersList', CurrentPlayerID')
    <3>1. pc \in MessageLabels /\ pc \notin Request
      BY DEF MessageLabels, Request
    <3> QED BY <1>2, <2>2, <3>1, CalmMessage
  <2> QED BY <2>1, <2>2, CalmFrames DEF Pushes, Called
<1>5. CASE SendOthers
  <2> DEFINE next == First(After(Top.i))
  <2>1. /\ Top.pc = "send_others" /\ UNCHANGED PlayersList
        /\ \/ Moves("first_turn", Top.i, Top.dirty)
           \/ Moves("send_others", order[Top.c], Top.dirty)
           \/ /\ After(Top.i) # {}
              /\ Pushes("send_others", order[next], Top.dirty, "client", Top.c,
                        Msg("ClientAddPlayer", next), 0)
    BY <1>5, RegisterIs DEF game
  <2>2. After(Top.i) # {} => next \in PlayersList
    BY FirstAfterOK
  <2>3. Top.c \in PlayersList'
    BY <1>1, <2>1 DEF RecordCalm
  <2>4. ASSUME NEW f, NEW pc \in {"first_turn", "send_others"}, NEW i, NEW d,
               Alters(f, pc, i, d), pc = "send_others" => \E p \in PlayersList' : order[p] = i
        PROVE  RecordCalm(f, PlayersList', CurrentPlayerID')
    <3>1. pc \in MessageLabels /\ pc \notin Request
      BY DEF MessageLabels, Request
    <3> QED BY <1>2, <2>3, <2>4, <3>1, CalmMessage
  <2> HIDE DEF next
  <2> QED BY <2>1, <2>2, <2>3, <2>4, CalmFrames DEF Moves, Pushes, Called
<1>6. CASE Approve \/ Abort \/ Acted \/ EndTurn \/ NextTurn \/ MessageAll
  <2>1. \/ Leaves
        \/ \E pc \in {"acted", "end_turn", "next_turn", "done"} : \E i, to, c, m, n :
             /\ to \in {"client", "all", "choose"}
             /\ pc # "done" => Top.c \in PlayersList'
             /\ Pushes(pc, i, Top.dirty, to, c, m, n)
    <3>1. CASE Abort \/ NextTurn \/ MessageAll
      BY <3>1, ActionIs
    <3>2. CASE Approve
      <4>1. /\ Top.c \in PlayersList
            /\ Pushes("acted", Top.i, Top.dirty, "all", NULL,
                      Msg("GamePlayerActionValidated", NULL), nIDCounter - 1)
        BY <3>2, ActionIs DEF MayAct
      <4> QED BY <1>1, <4>1
    <3>3. CASE Acted
      BY <1>1, <3>3, ActionIs
    <3>4. CASE EndTurn
      <4>1. /\ Top.pc = "end_turn"
            /\ Pushes("next_turn", Top.i, Top.dirty, "choose", Top.c, NoMsg, 0)
        BY <3>4, ActionIs
      <4>2. Top.c \in PlayersList'
        BY <1>1, <4>1 DEF RecordCalm
      <4> QED BY <4>1, <4>2
    <3> QED BY <1>6, <3>1, <3>2, <3>3, <3>4
  <2>2. ASSUME NEW f, NEW pc \in {"acted", "end_turn", "next_turn", "done"}, NEW i, NEW d,
               Alters(f, pc, i, d), pc # "done" => Top.c \in PlayersList'
        PROVE  RecordCalm(f, PlayersList', CurrentPlayerID')
    <3>1. pc \in MessageLabels /\ pc \notin Request /\ pc # "send_others"
      BY DEF MessageLabels, Request
    <3> QED BY <1>2, <2>2, <3>1, CalmMessage
  <2> QED BY <2>1, <2>2, CalmFrames DEF Pushes, Called
<1> QED BY <1>3, <1>4, <1>5, <1>6 DEF OnMessage

\* A client is told of players only.
LEMMA CalmKnown ==
    ASSUME IInv, CallsOK, AddressesOK, RosterOK, Calm, GameThread, fault' = "none",
           NEW c \in Clients
    PROVE  known'[c] \subseteq PlayersList'
<1>1. known[c] \subseteq PlayersList /\ PlayersList \subseteq PlayersList'
  BY CalmPlayers DEF Calm
<1>2. ASSUME NEW to, Top.pc \in {"all", "client"}, Deliver(to, Top.m)
      PROVE  known'[c] \subseteq PlayersList'
  <2>1. Top.m.t \in {"ClientAddPlayer", "ClientRegisterFromServer"} => Top.m.p \in PlayersList
    BY <1>2, CalmGiven DEF ToAll, ToOne
  <2>2. \/ known'[c] = known[c]
        \/ known'[c] = known[c] \ {Top.m.p}
        \/ /\ Top.m.t \in {"ClientAddPlayer", "ClientRegisterFromServer"}
           /\ known'[c] = known[c] \cup {Top.m.p}
    BY <1>2 DEF Deliver
  <2> QED BY <1>1, <2>1, <2>2
<1> QED BY <1>1, <1>2, KnownIs

\* A client sends what it may, its own id or nothing.
LEMMA CalmInbox ==
    ASSUME IInv, Calm, EarlyKeys = FALSE, [Next]_vars, fault' = "none",
           PlayersList \subseteq PlayersList'
    PROVE  \A k \in 1 .. Len(m_qMessagesIn') :
             RequestOK(m_qMessagesIn'[k].remote, m_qMessagesIn'[k].msg, PlayersList')
<1>1. m_qMessagesIn \in Seq([remote : Clients, msg : ClientMessages])
  BY DEF IInv, NetTypeOK
<1>2. \A k \in 1 .. Len(m_qMessagesIn) :
        RequestOK(m_qMessagesIn[k].remote, m_qMessagesIn[k].msg, PlayersList')
  BY DEF Calm, RequestOK
<1>3. CASE UNCHANGED m_qMessagesIn
  BY <1>2, <1>3
<1>4. CASE m_qMessagesIn # <<>> /\ m_qMessagesIn' = Tail(m_qMessagesIn)
  <2>1. \A k \in 1 .. Len(m_qMessagesIn') :
          k + 1 \in 1 .. Len(m_qMessagesIn) /\ m_qMessagesIn'[k] = m_qMessagesIn[k + 1]
    BY <1>1, <1>4, HeadTailProperties, LenProperties
  <2> QED BY <1>2, <2>1
<1>5. CASE \E c \in Clients : \E m \in MayReceive(c) :
             m_qMessagesIn' = Append(m_qMessagesIn, [remote |-> c, msg |-> m])
  <2>1. PICK c \in Clients : \E m \in MayReceive(c) :
               m_qMessagesIn' = Append(m_qMessagesIn, [remote |-> c, msg |-> m])
    BY <1>5
  <2>2. PICK m \in MayReceive(c) :
               m_qMessagesIn' = Append(m_qMessagesIn, [remote |-> c, msg |-> m])
    BY <2>1
  <2>3. RequestOK(c, m, PlayersList')
    <3>1. \/ m.t \notin Request
          \/ /\ c \in known[c]
             /\ \/ m = Msg("ServerGamePlayerActionApprove", c)
                \/ m = Msg("MessageAll", NULL)
      BY <2>2 DEF MayReceive, Msg, Request
    <3>2. known[c] \subseteq PlayersList'
      BY DEF Calm
    <3> QED BY <3>1, <3>2 DEF RequestOK, Request, Msg
  <2>4. /\ Len(m_qMessagesIn') = Len(m_qMessagesIn) + 1
        /\ \A k \in 1 .. Len(m_qMessagesIn) : m_qMessagesIn'[k] = m_qMessagesIn[k]
        /\ m_qMessagesIn'[Len(m_qMessagesIn) + 1] = [remote |-> c, msg |-> m]
    BY <1>1, <2>2, AppendProperties
  <2>5. Len(m_qMessagesIn) \in Nat
    BY <1>1
  <2> QED BY <1>2, <2>3, <2>4, <2>5
<1> QED BY <1>3, <1>4, <1>5, InboxIs

LEMMA CalmStep ==
    ASSUME IInv, Reachable, RosterOK, Calm, Leavers = {}, EarlyKeys = FALSE,
           [Next]_vars, fault' = "none"
    PROVE  Calm'
<1>1. CallsOK /\ NetOK /\ AddressesOK
  BY DEF Reachable
<1>2. CASE GameThread
  <2>1. UNCHANGED <<order, sock>> /\ PlayersList \subseteq PlayersList'
    BY <1>1, <1>2, GameKeeps, CalmPlayers
  <2>2. \A c \in Clients : sock'[c] # "closed" /\ known'[c] \subseteq PlayersList'
    BY <1>1, <1>2, <2>1, CalmKnown DEF Calm
  <2>3. Nulls' = {}
    <3>1. Top.pc # "all_reset"
      BY <1>1, CalmLevels, FramesOK DEF Lost
    <3>2. UNCHANGED m_deqConnection \/ Erases(Nulls)
      BY <1>2, <3>1, DequeIs
    <3> QED BY <3>2 DEF Calm, Nulls, Erases
  <2>4. \A k \in 1 .. Len(m_qMessagesIn') :
          RequestOK(m_qMessagesIn'[k].remote, m_qMessagesIn'[k].msg, PlayersList')
    BY <2>1, CalmInbox
  <2>5. \A j \in 0 .. depth' : RecordCalm(frame'[j], PlayersList', CurrentPlayerID')
    <3>1. ~OnClientDisconnect /\ ~DisconnectForget
      BY <1>1, CalmLevels, FramesOK DEF OnClientDisconnect, DisconnectForget, At, Lost
    <3> QED BY <1>1, <1>2, <3>1, CalmRecordsHandlers, CalmRecordsTurns, CalmRecordsMessages
            DEF GameThread, Turns
  <2>6. \A j \in 0 .. depth' : RecordCalm(frame[j], PlayersList, CurrentPlayerID)'
    BY <2>1, <2>5 DEF RecordCalm
  <2> QED BY <2>2, <2>3, <2>4, <2>6 DEF Calm, RequestOK
<1>3. CASE AsioThread
  <2>1. /\ UNCHANGED <<order, game, told>> /\ frame' = frame /\ depth' = depth
        /\ PlayersList' = PlayersList /\ CurrentPlayerID' = CurrentPlayerID /\ known' = known
    BY <1>3, AsioIs DEF game, told
  <2>2. PICK c \in Clients :
            \/ /\ sock' = [sock EXCEPT ![c] = "open"]
               /\ m_deqConnection' = [m_deqConnection EXCEPT ![c] = "held"]
            \/ sock' = [sock EXCEPT ![c] = "valid"] /\ UNCHANGED m_deqConnection
            \/ UNCHANGED <<sock, m_deqConnection>>
    BY <1>3, AsioIs
  <2>3. \A d \in Clients : sock'[d] # "closed" /\ known'[d] \subseteq PlayersList'
    BY <2>1, <2>2 DEF Calm, IInv, NetTypeOK
  <2>4. Nulls' = {}
    BY <2>2 DEF Calm, Nulls, IInv, NetTypeOK
  <2>5. \A k \in 1 .. Len(m_qMessagesIn') :
          RequestOK(m_qMessagesIn'[k].remote, m_qMessagesIn'[k].msg, PlayersList')
    BY <2>1, CalmInbox
  <2>6. \A j \in 0 .. depth' : RecordCalm(frame[j], PlayersList, CurrentPlayerID)'
    BY <2>1 DEF Calm, RecordCalm
  <2> QED BY <2>3, <2>4, <2>5, <2>6 DEF Calm, RequestOK
<1>4. CASE UNCHANGED vars
  BY <1>4 DEF vars, net, game, told, Calm, RecordCalm, RequestOK, Nulls, frame, depth
<1> QED BY <1>2, <1>3, <1>4, Alive

CalmInv ==
    /\ RosterInv
    /\ fault \in {"none", "data_race"}
    /\ fault = "none" => Calm

\* With nobody leaving and no key pressed before the registration returned, no
\* handler of the game thread fails, for any number of clients, players, actions
\* and enemies: no at() misses its player (GameServer.cpp:109, :345, :393), no
\* iterator stands on an erased player, no null connection is asked for its id,
\* and a stack of five records, Run, OnMessage, ChooseNextPlayerForTurn,
\* MakeAITurn and MessageAllClients, is never outgrown.
THEOREM NothingFails ==
    ASSUME Leavers = {}, EarlyKeys = FALSE, MaxDepth >= 5
    PROVE  Spec => []NoCrash
<1>1. ASSUME Init PROVE CalmInv
  <2>1. RosterInv /\ fault = "none"
    BY <1>1, RosterInvStarts DEF Init
  <2>2. Calm
    <3>1. depth = 0 /\ frame[0] = Record("run", NULL, NoMsg, 0)
      BY <1>1, FirstFrame DEF RunRecord
    <3>2. RecordCalm(frame[0], PlayersList, CurrentPlayerID)
      BY <3>1 DEF Record, RecordCalm, MessageLabels, Request
    <3> QED BY <1>1, <3>1, <3>2 DEF Init, Calm, Nulls
  <2> QED BY <2>1, <2>2 DEF CalmInv
<1>2. ASSUME CalmInv, [Next]_vars PROVE CalmInv'
  <2>1. RosterInv'
    BY <1>2, RosterInvNext DEF CalmInv
  <2>2. ASSUME fault' = "none" PROVE Calm'
    BY <1>2, <2>2, Alive, CalmStep DEF CalmInv, RosterInv, RInv
  <2>3. fault' \in {"none", "data_race"}
    <3>1. CASE GameThread
      <4>1. fault = "none"
        BY <3>1 DEF GameThread, OnMessage, Sending, Turns, Run, Wait, Update, AllStep,
           AllReset, AllEnd, MessageClient, ClientErase, OnClientDisconnect,
           DisconnectForget, ChooseNextPlayerForTurn, ChooseFirst, ChooseSend, ChooseSet,
           MakeAITurn, AnnounceLeaver, ClearGarbage, MessageDone, Register, SendWorld,
           SendNew, SendOthers, FirstTurn, Approve, Abort, Acted, EndTurn, NextTurn,
           MessageAll, At
      <4>2. IInv /\ CallsOK /\ NetOK /\ AddressesOK /\ RosterOK /\ Calm
        BY <1>2, <4>1 DEF CalmInv, RosterInv, RInv, Reachable
      <4> QED BY <3>1, <4>1, <4>2, CalmSends, CalmTurns, CalmMessages DEF GameThread
    <3>2. CASE AsioThread
      BY <3>2 DEF AsioThread, Accept, Validate, Close, Receive
    <3>3. CASE Stopped \/ UNCHANGED vars
      BY <1>2, <3>3 DEF Stopped, vars, CalmInv
    <3> QED BY <1>2, <3>1, <3>2, <3>3 DEF Next
  <2> QED BY <2>1, <2>2, <2>3 DEF CalmInv
<1>3. CalmInv => NoCrash
  BY DEF CalmInv, NoCrash
<1> QED BY <1>1, <1>2, <1>3, PTL DEF Spec
=============================================================================
