------------------------ MODULE GameServerTurnProofs ------------------------
(***************************************************************************)
(* The turn of GameServer's players: who holds it, who was told of it and  *)
(* who takes it from whom.  A player that leaves with the turn drops it in *)
(* the middle of whatever handler found it dead, so the inductive          *)
(* invariant says where on the stack the turn is being passed on.          *)
(***************************************************************************)
EXTENDS GameServerRosterProofs

-----------------------------------------------------------------------------
(* A client registers once: its registration is in the queue or in hand    *)
(* before it is a player, and never again.                                 *)
Registers(m) == m.t = "ClientRegisterOnServer"
Queued(k) == Registers(m_qMessagesIn[k].msg)

InHand(c) ==
    /\ depth >= 1 /\ frame[1].pc \in {"on_message", "ClientRegisterOnServer"}
    /\ frame[1].c = c /\ Registers(frame[1].m)

OnceOK ==
    /\ PlayersList \subseteq registering
    /\ \A k \in 1 .. Len(m_qMessagesIn) :
         Queued(k) => m_qMessagesIn[k].remote \in registering \ PlayersList
    /\ \A k, l \in 1 .. Len(m_qMessagesIn) :
         Queued(k) /\ Queued(l) /\ m_qMessagesIn[k].remote = m_qMessagesIn[l].remote => k = l
    /\ \A c \in Clients : InHand(c) =>
         /\ c \in registering \ PlayersList
         /\ \A k \in 1 .. Len(m_qMessagesIn) : Queued(k) => m_qMessagesIn[k].remote # c
    /\ depth >= 1 /\ frame[1].pc = "ClientRegisterOnServer" => Registers(frame[1].m)

-----------------------------------------------------------------------------
(* Where the turn is.                                                      *)
Runs(L) == \E j \in 0 .. depth : frame[j].pc \in L
Forgetting(c) == \E j \in 0 .. depth : frame[j].pc = "forget" /\ frame[j].c = c

\* The first player of all is being introduced, and has no turn yet.
Introducing ==
    /\ depth >= 1
    /\ \/ frame[1].pc \in {"send_world", "send_new", "send_others", "first_turn"}
       \/ /\ frame[1].pc = "done" /\ depth >= 2
          /\ frame[2].pc = "choose" /\ frame[2].c = NULL

\* The handler of an action c took, up to the end of the turn.
Acting(c) == depth >= 1 /\ frame[1].pc \in {"acted", "end_turn"} /\ frame[1].c = c

\* The turn is on its way to its holder.
Giving == frame[depth].pc = "client" /\ frame[depth].m.t = "GamePlayerTurn"
Starting == frame[depth].pc \in {"choose", "choose_send"} \/ Giving \/ Runs({"choose_first"})

\* What may run while the turn waits for the AI's.
AIPart == {"ai", "all", "all_reset", "disconnect"}

\* The last player of the round is found dead by a broadcast of the AI turn
\* that its own removal has begun: it still holds the turn, which begins an AI
\* turn, and so on until the stack is full.
DoomedTop(c) ==
    \/ frame[depth].pc = "choose" /\ frame[depth].c = c
    \/ /\ depth >= 2 /\ frame[depth].pc = "ai" /\ frame[depth].i <= frame[depth].n
       /\ frame[depth - 1].pc = "choose_first" /\ frame[depth - 1].c = c
    \/ /\ depth >= 3 /\ frame[depth - 2].pc = "choose_first" /\ frame[depth - 2].c = c
       /\ frame[depth].i <= c /\ c <= frame[depth].n
       /\ \/ frame[depth].pc = "all"
          \/ frame[depth].pc = "all_reset" /\ frame[depth].i < c
    \/ /\ depth >= 4 /\ frame[depth - 3].pc = "choose_first" /\ frame[depth - 3].c = c
       /\ frame[depth].pc = "disconnect" /\ frame[depth - 1].pc = "all_reset"
       /\ \/ frame[depth - 1].i = c
          \/ frame[depth - 1].i < c /\ c <= frame[depth - 1].n

Doomed ==
    LET c == CurrentPlayerID
    IN  /\ c \in PlayersList /\ sock[c] = "closed" /\ m_deqConnection[c] = "held"
        /\ enemies /\ After(order[c]) = {}
        /\ DoomedTop(c)

-----------------------------------------------------------------------------
HolderOK ==
    /\ CurrentPlayerID # NULL => CurrentPlayerID \in PlayersList
    /\ CurrentPlayerID = NULL /\ PlayersList # {} => Introducing
    /\ \A j \in 0 .. depth :
         frame[j].pc \in {"choose_send", "choose_set"} => CurrentPlayerID # NULL
    /\ frame[depth].pc = "choose" /\ frame[depth].c = NULL => CurrentPlayerID = NULL
    /\ Giving => frame[depth].c = CurrentPlayerID

\* Who is being introduced has no turn, and is not in the way of one.
WelcomeOK ==
    depth >= 1 /\ frame[1].pc = "send_world" =>
        /\ frame[1].c # CurrentPlayerID
        /\ \A j \in 2 .. depth : frame[j].pc \in {"client", "client_erase", "disconnect"}

SpentOK ==
    CurrentPlayerID # NULL /\ CurrentTurns[CurrentPlayerID] = 0 =>
        Runs(Choosing) \/ Acting(CurrentPlayerID)

\* Whoever acts has the turn, until it is being removed.
ActingOK ==
    \A c \in PlayersList : Acting(c) =>
        \/ Forgetting(c)
        \/ /\ c = CurrentPlayerID /\ ~Runs(Choosing)
           /\ frame[1].pc = "end_turn" =>
                CurrentTurns[c] = 0 /\ (depth = 1 /\ IsConnected(c) => c \notin myTurn)

ToldOK ==
    /\ \A c \in myTurn : sock[c] # "none" /\ (IsConnected(c) => c = CurrentPlayerID)
    /\ CurrentPlayerID # NULL /\ IsConnected(CurrentPlayerID) /\ CurrentPlayerID \notin myTurn =>
        \/ Starting
        \/ depth = 1 /\ frame[1].pc = "end_turn" /\ frame[1].c = CurrentPlayerID

\* Whoever is being removed has passed the turn on, or is about to.
PassedOK ==
    Forgetting(CurrentPlayerID) =>
        Starting \/ (frame[depth].pc = "disconnect" /\ frame[depth].c = CurrentPlayerID)

\* The turn is taken from its holder, when it has no actions left or is gone.
Taken(c) ==
    c \in PlayersList =>
        /\ c = CurrentPlayerID /\ (sock[c] = "closed" \/ CurrentTurns[c] = 0)
        /\ IsConnected(c) => c \notin myTurn

TakenOK ==
    \A j \in 0 .. depth : frame[j].pc \in {"choose", "choose_first"} =>
        /\ Taken(frame[j].c)
        /\ frame[j].pc = "choose_first" =>
             frame[j].c \in PlayersList /\ After(order[frame[j].c]) = {}

AIPartOK ==
    /\ \A j \in 0 .. depth : frame[j].pc = "choose_first" =>
         \A k \in j + 1 .. depth : frame[k].pc \in AIPart
    /\ \A j \in 0 .. depth : frame[j].pc = "ai" =>
         enemies \/ (j = depth /\ frame[j].n < frame[j].i)

TurnOK ==
    /\ HolderOK /\ WelcomeOK /\ SpentOK /\ ActingOK /\ ToldOK /\ PassedOK /\ TakenOK
    /\ AIPartOK

-----------------------------------------------------------------------------
(* A client registers once.                                                *)

\* The game thread takes messages from the queue, in Update only.
LEMMA QueueIs ==
    ASSUME IInv, GameThread, fault' = "none"
    PROVE  \/ UNCHANGED <<m_qMessagesIn, registering>> /\ ~(Update /\ m_qMessagesIn # <<>>)
           \/ /\ m_qMessagesIn # <<>> /\ m_qMessagesIn' = Tail(m_qMessagesIn)
              /\ UNCHANGED registering /\ Update
              /\ LET om == Head(m_qMessagesIn)
                 IN  Pushes("update", Top.i, Top.dirty, "on_message", om.remote, om.msg,
                            Len(GarbageIDs))
<1>1. UNCHANGED registering
  BY GameKeeps
<1>2. CASE Update /\ m_qMessagesIn # <<>>
  <2>1. m_qMessagesIn' # m_qMessagesIn
    <3>1. /\ m_qMessagesIn' = Tail(m_qMessagesIn)
          /\ m_qMessagesIn \in Seq([remote : Clients, msg : ClientMessages])
      BY <1>2 DEF Update, IInv, NetTypeOK
    <3> QED BY <1>2, <3>1
  <2> QED BY <1>1, <1>2, <2>1, RunLoopIs
<1>3. CASE Update /\ m_qMessagesIn = <<>>
  BY <1>1, <1>3 DEF Update
<1>4. CASE ~Update
  BY <1>1, <1>4
     DEF GameThread, OnMessage, Sending, Turns, Run, Wait, AllStep, AllReset, AllEnd,
         MessageClient, ClientErase, OnClientDisconnect, DisconnectForget,
         ChooseNextPlayerForTurn, ChooseFirst, ChooseSend, ChooseSet, MakeAITurn,
         AnnounceLeaver, ClearGarbage, MessageDone, Register, SendWorld, SendNew,
         SendOthers, FirstTurn, Approve, Abort, Acted, EndTurn, NextTurn, MessageAll, net
<1> QED BY <1>2, <1>3, <1>4

\* A registration gets in hand from the queue.
LEMMA InHandIs ==
    ASSUME IInv, GameThread, fault' = "none", NEW c, InHand(c)',
           ~(Update /\ m_qMessagesIn # <<>>)
    PROVE  InHand(c) /\ ~Register
<1>1. depth \in Nat /\ Top = frame[depth]
  BY FramesOK
<1>2. CASE depth >= 2
  <2>1. frame'[1] = frame[1] /\ Top.pc \notin MessageLabels
    BY <1>1, <1>2, LevelsStay, FramesOK
  <2> QED BY <1>1, <1>2, <2>1, RegisterIs DEF InHand, MessageLabels
<1>3. CASE depth = 1
  <2>1. Top.pc \notin RunLabels /\ Top = frame[1]
    BY <1>1, <1>3, FramesOK
  <2>2. CASE AnnounceLeaver
    <3>1. Top.pc = "on_message" /\ frame'[1].c = Top.c /\ frame'[1].m = Top.m
      BY <1>3, <2>1, <2>2, GarbageIs DEF Pushes, Alters
    <3>2. ~Register
      BY <3>1 DEF Register, At
    <3> QED BY <1>3, <2>1, <3>1, <3>2 DEF InHand
  <2>3. CASE ClearGarbage
    <3>1. Top.pc = "on_message" /\ frame'[1].c = Top.c /\ frame'[1].m = Top.m
      BY <1>3, <2>1, <2>3, GarbageIs DEF Moves, Alters
    <3>2. ~Register
      BY <3>1 DEF Register, At
    <3> QED BY <1>3, <2>1, <3>1, <3>2 DEF InHand
  <2>4. CASE MessageDone \/ Acted \/ FirstTurn
    <3>1. \/ Leaves
          \/ \E pc \in {"end_turn", "done"} :
               \E i, d, to, x, m, n : Pushes(pc, i, d, to, x, m, n)
      BY <2>4, GarbageIs, ActionIs, RegisterIs
    <3> QED BY <1>3, <3>1 DEF Leaves, Pushes, Alters, InHand
  <2>5. CASE Register \/ SendWorld \/ SendNew
    <3>1. \E pc \in {"send_world", "send_new", "send_others"} :
            \E i, d, to, x, m, n : Pushes(pc, i, d, to, x, m, n)
      BY <2>5, RegisterIs
    <3> QED BY <1>3, <3>1 DEF Pushes, Alters, InHand
  <2>6. CASE SendOthers
    <3>1. \E pc \in {"first_turn", "send_others"} :
            \/ \E i, d : Moves(pc, i, d)
            \/ \E i, d, to, x, m, n : Pushes(pc, i, d, to, x, m, n)
      BY <2>6, RegisterIs
    <3> QED BY <1>3, <3>1 DEF Moves, Pushes, Alters, InHand
  <2>7. CASE Approve \/ Abort \/ EndTurn \/ NextTurn \/ MessageAll
    <3>1. \E pc \in {"acted", "next_turn", "done"} :
            \E i, d, to, x, m, n : Pushes(pc, i, d, to, x, m, n)
      BY <2>7, ActionIs
    <3> QED BY <1>3, <3>1 DEF Pushes, Alters, InHand
  <2>8. CASE ~OnMessage
    <3>1. Top.pc \notin MessageLabels
      BY <1>3, <2>8, ActionAt
    <3>2. frame'[1].pc \notin MessageLabels \/ depth' = 0
      <4>1. ~(Run \/ Wait \/ Update)
        BY <2>1, RunLoopIs DEF RunLabels
      <4>2. \/ Leaves
            \/ \E pc \in Labels \ MessageLabels :
                 \/ \E i, d : Moves(pc, i, d)
                 \/ \E i, d, to, x, m, n : Pushes(pc, i, d, to, x, m, n)
        <5>1. CASE Sending
          BY <5>1, AllStepIs, SendingIs DEF Sending, Labels, MessageLabels
        <5>2. CASE OnClientDisconnect \/ DisconnectForget
          BY <5>2, DisconnectIs DEF Labels, MessageLabels
        <5>3. CASE Turns
          BY <5>3, TurnsAre DEF Turns, Labels, MessageLabels
        <5> QED BY <1>3, <2>8, <4>1, <5>1, <5>2, <5>3 DEF GameThread
      <4> QED BY <1>3, <4>2 DEF Leaves, Moves, Pushes, Alters
    <3> QED BY <3>2 DEF InHand, MessageLabels
  <2> QED BY <1>3, <2>2, <2>3, <2>4, <2>5, <2>6, <2>7, <2>8 DEF OnMessage
<1>4. CASE depth = 0
  <2>1. Top.pc \in RunLabels
    BY <1>1, <1>4, FramesOK
  <2>2. Run \/ Wait \/ (Update /\ m_qMessagesIn = <<>>)
    BY <2>1, ActionAt DEF RunLabels
  <2>3. depth' = 0 \/ (depth' = 1 /\ frame'[1].pc = "all")
    <3>1. \/ \E pc : Moves(pc, Top.i, Top.dirty)
          \/ \E pc, m, n : Pushes(pc, Top.i, Top.dirty, "all", NULL, m, n)
      BY <2>2, RunLoopIs
    <3>2. CASE \E pc : Moves(pc, Top.i, Top.dirty)
      BY <1>4, <3>2 DEF Moves
    <3>3. CASE \E pc, m, n : Pushes(pc, Top.i, Top.dirty, "all", NULL, m, n)
      <4>1. depth' = 0 + 1 /\ frame'[0 + 1].pc = "all"
        BY <1>4, <3>3 DEF Pushes, Fresh
      <4> QED BY <4>1
    <3> QED BY <3>1, <3>2, <3>3
  <2> QED BY <2>3 DEF InHand
<1> QED BY <1>1, <1>2, <1>3, <1>4

\* A step of the asio thread leaves what is in hand; it may add a message of a
\* client, and a registration only of one that has not registered.
LEMMA OnceAsio ==
    ASSUME IInv, OnceOK, AsioThread, fault' = "none"
    PROVE  OnceOK'
<1>1. /\ UNCHANGED <<order, game, stack, told>> /\ frame' = frame /\ depth' = depth
      /\ PlayersList' = PlayersList /\ m_qMessagesIn \in Seq([remote : Clients, msg : ClientMessages])
  BY AsioIs DEF IInv, NetTypeOK, game
<1>2. \A c : InHand(c)' <=> InHand(c)
  BY <1>1 DEF InHand
<1>3. CASE UNCHANGED <<m_qMessagesIn, registering>>
  BY <1>1, <1>2, <1>3 DEF OnceOK, Queued
<1>4. ASSUME NEW c \in Clients, NEW m \in MayReceive(c),
             m_qMessagesIn' = Append(m_qMessagesIn, [remote |-> c, msg |-> m]),
             registering' = IF Registers(m) THEN registering \cup {c} ELSE registering
      PROVE  OnceOK'
  <2> DEFINE q == m_qMessagesIn
  <2>1. /\ Len(q) \in Nat /\ Len(q') = Len(q) + 1
        /\ \A k \in 1 .. Len(q) : q'[k] = q[k]
        /\ q'[Len(q) + 1].msg = m /\ q'[Len(q) + 1].remote = c
    BY <1>1, <1>4
  <2>2. \A k \in 1 .. Len(q') : k \in 1 .. Len(q) \/ k = Len(q) + 1
    BY <2>1
  <2>3. /\ \A k \in 1 .. Len(q) : Queued(k)' <=> Queued(k)
        /\ \A k \in 1 .. Len(q') : k = Len(q) + 1 => (Queued(k)' <=> Registers(m))
    BY <2>1 DEF Queued, Registers
  <2>4. registering \subseteq registering' /\ (Registers(m) => c \in registering')
    BY <1>4
  <2>5. Registers(m) => c \notin registering
    BY <1>4 DEF MayReceive, Registers, Msg
  <2>6. PlayersList' \subseteq registering'
    BY <1>1, <2>4 DEF OnceOK
  <2>7. ASSUME NEW k \in 1 .. Len(q'), Queued(k)'
        PROVE  q'[k].remote \in registering' \ PlayersList'
    BY <1>1, <2>1, <2>2, <2>3, <2>4, <2>5, <2>7 DEF OnceOK
  <2>8. ASSUME NEW k \in 1 .. Len(q'), NEW l \in 1 .. Len(q'), Queued(k)', Queued(l)',
               q'[k].remote = q'[l].remote
        PROVE  k = l
    BY <2>1, <2>2, <2>3, <2>5, <2>8 DEF OnceOK
  <2>9. ASSUME NEW d \in Clients, InHand(d)'
        PROVE  /\ d \in registering' \ PlayersList'
               /\ \A k \in 1 .. Len(q') : Queued(k)' => q'[k].remote # d
    BY <1>1, <1>2, <2>1, <2>2, <2>3, <2>4, <2>5, <2>9 DEF OnceOK
  <2>10. depth' >= 1 /\ frame'[1].pc = "ClientRegisterOnServer" => Registers(frame'[1].m)
    BY <1>1 DEF OnceOK
  <2> HIDE DEF q
  <2> QED BY <2>6, <2>7, <2>8, <2>9, <2>10 DEF OnceOK, q, Registers
<1>5. \/ UNCHANGED <<m_qMessagesIn, registering>>
      \/ \E c \in Clients : \E m \in MayReceive(c) :
           /\ m_qMessagesIn' = Append(m_qMessagesIn, [remote |-> c, msg |-> m])
           /\ registering' = IF Registers(m) THEN registering \cup {c} ELSE registering
  <2>1. PICK c \in Clients : Accept(c) \/ Validate(c) \/ Close(c) \/ Receive(c)
    BY DEF AsioThread
  <2>2. CASE Receive(c)
    BY <2>2 DEF Receive, Registers
  <2>3. CASE Accept(c) \/ Validate(c) \/ Close(c)
    BY <2>3 DEF Accept, Validate, Close
  <2> QED BY <2>1, <2>2, <2>3
<1> QED BY <1>3, <1>4, <1>5

LEMMA OnceGame ==
    ASSUME IInv, CallsOK, OnceOK, GameThread, fault' = "none"
    PROVE  OnceOK'
<1> DEFINE q == m_qMessagesIn
           Clear(c) == /\ c \in registering \ PlayersList
                       /\ \A k \in 1 .. Len(q) : Queued(k) => q[k].remote # c
<1>1. /\ depth \in Nat /\ Top = frame[depth] /\ UNCHANGED registering
      /\ q \in Seq([remote : Clients, msg : ClientMessages])
  BY FramesOK, GameKeeps DEF IInv, NetTypeOK
<1>2. Register => Top.c \in Clients /\ Clear(Top.c) /\ PlayersList' = PlayersList \cup {Top.c}
  <2>1. SUFFICES ASSUME Register PROVE Top.c \in Clients /\ Clear(Top.c)
                                       /\ PlayersList' = PlayersList \cup {Top.c}
    OBVIOUS
  <2>2. Top.pc = "ClientRegisterOnServer" /\ PlayersList' = PlayersList \cup {Top.c}
    BY <2>1, RegisterIs
  <2>3. depth = 1 /\ Top = frame[1] /\ Top.c \in Clients
    BY <1>1, <2>2, FramesOK DEF RecordOK, MessageLabels
  <2>4. InHand(Top.c)
    BY <2>2, <2>3 DEF OnceOK, InHand
  <2> QED BY <2>2, <2>3, <2>4 DEF OnceOK
<1>3. PlayersList' \subseteq PlayersList \/ Register
  BY PlayersAre
<1>4. \/ UNCHANGED <<q, registering>> /\ ~(Update /\ q # <<>>)
      \/ /\ Update /\ q # <<>> /\ q' = Tail(q) /\ UNCHANGED registering
         /\ LET om == Head(q)
            IN  Pushes("update", Top.i, Top.dirty, "on_message", om.remote, om.msg,
                       Len(GarbageIDs))
  BY QueueIs
<1>5. /\ Len(q') \in Nat /\ Len(q') <= Len(q)
      /\ \E n \in {0, 1} : \A k \in 1 .. Len(q') : k + n \in 1 .. Len(q) /\ q'[k] = q[k + n]
      /\ Update /\ q # <<>> =>
           \A k \in 1 .. Len(q') : k + 1 \in 1 .. Len(q) /\ q'[k] = q[k + 1]
  <2>1. CASE q' = q
    <3>1. Len(q') = Len(q) /\ Len(q) \in Nat /\ ~(Update /\ q # <<>>)
      BY <1>1, <1>4, <2>1
    <3>2. \A k \in 1 .. Len(q') : k + 0 \in 1 .. Len(q) /\ q'[k] = q[k + 0]
      BY <2>1, <3>1
    <3> QED BY <3>1, <3>2
  <2>2. CASE q # <<>> /\ q' = Tail(q)
    <3>1. Len(q) \in Nat \ {0} /\ Len(q') = Len(q) - 1
      BY <1>1, <2>2
    <3>2. \A k \in 1 .. Len(q') : k + 1 \in 1 .. Len(q) /\ q'[k] = q[k + 1]
      BY <1>1, <2>2, <3>1
    <3> QED BY <3>1, <3>2
  <2> QED BY <1>4, <2>1, <2>2
<1>6. PICK n \in {0, 1} :
        \A k \in 1 .. Len(q') : k + n \in 1 .. Len(q) /\ q'[k] = q[k + n]
  BY <1>5
<1>7. PlayersList' \subseteq registering'
  BY <1>1, <1>2, <1>3 DEF OnceOK
<1>8. ASSUME NEW c, c \in registering \ PlayersList, ~(Register /\ c = Top.c)
      PROVE  c \in registering' \ PlayersList'
  BY <1>1, <1>2, <1>3, <1>8
<1>9. ASSUME NEW k \in 1 .. Len(q'), Queued(k)'
      PROVE  Queued(k + n) /\ q'[k].remote = q[k + n].remote /\ k + n \in 1 .. Len(q)
  BY <1>6, <1>9 DEF Queued
<1>10. ASSUME NEW k \in 1 .. Len(q'), Queued(k)'
       PROVE  q'[k].remote \in registering' \ PlayersList'
  BY <1>2, <1>8, <1>9, <1>10 DEF OnceOK
<1>11. ASSUME NEW k \in 1 .. Len(q'), NEW l \in 1 .. Len(q'), Queued(k)', Queued(l)',
              q'[k].remote = q'[l].remote
       PROVE  k = l
  <2>1. k + n = l + n
    BY <1>9, <1>11 DEF OnceOK
  <2> QED BY <2>1
<1>12. ASSUME NEW c \in Clients, InHand(c)'
       PROVE  /\ c \in registering' \ PlayersList'
              /\ \A k \in 1 .. Len(q') : Queued(k)' => q'[k].remote # c
  <2>1. CASE Update /\ q # <<>>
    <3>1. Pushes("update", Top.i, Top.dirty, "on_message", Head(q).remote, Head(q).msg,
                 Len(GarbageIDs))
      BY <1>4, <2>1
    <3>2. Top.pc = "update" /\ depth = 0 /\ ~Register
      BY <1>1, <2>1, RunLoopIs, RegisterIs, FramesOK DEF RunLabels
    <3>3. frame'[0 + 1].c = Head(q).remote /\ frame'[0 + 1].m = Head(q).msg
      BY <3>1, <3>2 DEF Pushes, Fresh
    <3>4. q[1] = Head(q) /\ 1 \in 1 .. Len(q)
      BY <1>1, <2>1
    <3>5. Queued(1) /\ q[1].remote = c
      BY <1>12, <3>3, <3>4 DEF InHand, Queued
    <3>6. c \in registering' \ PlayersList'
      BY <1>8, <3>2, <3>4, <3>5 DEF OnceOK
    <3>7. ASSUME NEW k \in 1 .. Len(q'), Queued(k)', q'[k].remote = c
          PROVE  FALSE
      <4>1. k + 1 \in 1 .. Len(q) /\ q'[k] = q[k + 1]
        BY <1>5, <2>1
      <4>2. Queued(k + 1)
        BY <3>7, <4>1 DEF Queued
      <4>3. k + 1 = 1
        BY <3>4, <3>5, <3>7, <4>1, <4>2 DEF OnceOK
      <4> QED BY <4>3
    <3> QED BY <3>6, <3>7
  <2>2. CASE ~(Update /\ q # <<>>)
    <3>1. InHand(c) /\ ~Register
      BY <1>12, <2>2, InHandIs
    <3>2. Clear(c)
      BY <3>1 DEF OnceOK
    <3> QED BY <1>8, <1>9, <3>1, <3>2
  <2> QED BY <2>1, <2>2
<1>13. ASSUME depth' >= 1, frame'[1].pc = "ClientRegisterOnServer"
       PROVE  Registers(frame'[1].m)
  <2>1. CASE depth >= 2
    <3>1. frame'[1] = frame[1] /\ depth >= 1
      BY <1>1, <2>1, LevelsStay
    <3> QED BY <1>13, <3>1 DEF OnceOK
  <2>2. CASE depth < 2
    <3>1. depth' = 1
      <4>1. \/ depth' = depth \/ depth' = depth - 1
            \/ depth' = depth + 1 /\ frame'[depth + 1].pc \in Called
        BY GameIs DEF Moves, Pushes, Leaves, Fresh
      <4>2. depth' = 2 => depth = 1 /\ Top.pc \in MessageLabels
        <5>1. SUFFICES ASSUME depth' = 2 PROVE depth = 1 /\ Top.pc \in MessageLabels
          OBVIOUS
        <5>2. depth = 1 /\ Top = frame[1] /\ frame'[0] = frame[0]
          BY <1>1, <2>2, <4>1, <5>1, GameIs DEF Moves, Pushes, Leaves, Below
        <5>3. CallsOK'
          BY CallsStep DEF Next
        <5>4. Calls(frame'[0], frame'[1]) /\ Calls(frame[0], frame[1])
          <6>1. \A j \in 1 .. depth : Calls(frame[j - 1], frame[j])
            BY DEF CallsOK
          <6>2. (\A j \in 1 .. depth : Calls(frame[j - 1], frame[j]))'
            BY <5>3 DEF CallsOK
          <6>3. Calls(frame[1 - 1], frame[1])
            BY <5>2, <6>1
          <6>4. order' = order
            BY OrderStays DEF Next
          <6>5. Calls(frame[1 - 1], frame[1])'
            BY <5>1, <6>2
          <6> QED
            BY <6>3, <6>4, <6>5
               DEF Calls, RunCallsFor, MessageCallsFor, CallsFor
        <5>5. frame[0].pc \in RunLabels
          BY <5>2, FramesOK
        <5> QED
          BY <1>13, <5>2, <5>4, <5>5
             DEF Calls, RunCallsFor, MessageCallsFor, CallsFor, RunLabels, MessageLabels,
                 ToAll, ToOne, Losing, Choosing
      <4>3. depth' # 2
        <5>1. SUFFICES ASSUME depth' = 2 PROVE FALSE
          OBVIOUS
        <5>2. OnMessage
          BY <4>2, <5>1, ActionAt
        <5>3. \E pc \in MessageLabels \ {"ClientRegisterOnServer"} :
                \E i, d, to, x, m, k : Pushes(pc, i, d, to, x, m, k)
          <6>1. \/ AnnounceLeaver \/ Register \/ SendWorld \/ SendNew \/ SendOthers \/ FirstTurn
                \/ Approve \/ Abort \/ Acted \/ EndTurn \/ NextTurn \/ MessageAll
            BY <4>2, <5>1, <5>2, GarbageIs DEF OnMessage, Moves, Leaves
          <6>2. CASE AnnounceLeaver
            BY <6>2, GarbageIs DEF MessageLabels
          <6>3. CASE Register \/ SendWorld \/ SendNew
            BY <6>3, RegisterIs DEF MessageLabels
          <6>4. CASE SendOthers \/ FirstTurn
            BY <4>2, <5>1, <6>4, RegisterIs DEF MessageLabels, Moves, Leaves
          <6>5. CASE Approve \/ Abort \/ EndTurn \/ NextTurn \/ MessageAll
            BY <6>5, ActionIs DEF MessageLabels
          <6>6. CASE Acted
            BY <4>2, <5>1, <6>6, ActionIs DEF MessageLabels, Leaves
          <6> QED BY <6>1, <6>2, <6>3, <6>4, <6>5, <6>6
        <5> QED BY <1>13, <4>2, <5>1, <5>3 DEF Pushes, Alters
      <4> QED BY <1>1, <1>13, <2>2, <4>1, <4>3
    <3>2. ClearGarbage
      BY <1>13, <3>1, RegisterComes
    <3>3. Moves(Top.m.t, Top.i, Top.dirty) /\ Top.pc = "on_message"
      BY <3>2, GarbageIs
    <3>4. frame'[1].pc = Top.m.t /\ frame'[1].m = Top.m
      BY <3>1, <3>3 DEF Moves, Alters
    <3> QED BY <1>13, <3>4 DEF Registers
  <2> QED BY <1>1, <2>1, <2>2
<1> HIDE DEF q
<1> QED BY <1>7, <1>10, <1>11, <1>12, <1>13 DEF OnceOK, q

LEMMA OnceStep ==
    ASSUME IInv, CallsOK, OnceOK, [Next]_vars, fault' = "none"
    PROVE  OnceOK'
<1>1. CASE UNCHANGED vars
  BY <1>1 DEF vars, net, game, OnceOK, Queued, InHand, frame, depth
<1> QED BY <1>1, OnceAsio, OnceGame, Alive

-----------------------------------------------------------------------------
(* Where the records of a step come from, and what it changes.             *)

\* The label the running record goes on at.
From(pc) ==
    /\ pc \notin {"choose", "client", "disconnect"}
    /\ pc = "choose_first" => Top.pc = "choose"
    /\ pc = "choose_send" => Top.pc \in {"choose", "choose_first"}
    /\ pc = "choose_set" => Top.pc = "choose_send"
    /\ pc = "forget" => Top.pc = "disconnect"
    /\ pc = "ai" => Top.pc = "ai"
    /\ pc = "send_world" => Top.pc = "ClientRegisterOnServer"
    /\ pc = "acted" => Top.pc = "ServerGamePlayerActionApprove"
    /\ pc = "end_turn" => Top.pc = "acted"

\* The label of the handler it calls.
Into(to) ==
    /\ to \in Called
    /\ to = "choose" => Top.pc \in {"disconnect", "first_turn", "end_turn"}
    /\ to = "ai" => Top.pc = "choose"

LEMMA LabelsOf ==
    ASSUME IInv, GameThread, fault' = "none"
    PROVE  \/ \E pc, i, d : Moves(pc, i, d) /\ From(pc)
           \/ \E pc, i, d, to, c, m, n : Pushes(pc, i, d, to, c, m, n) /\ From(pc) /\ Into(to)
           \/ Leaves
<1>1. CASE Run \/ Wait \/ Update
  BY <1>1, RunLoopIs DEF From, Into, Called
<1>2. CASE AllStep \/ AllReset \/ AllEnd
  <2>1. CASE AllStep
    <3>1. \/ \E i, d : Moves("all", i, d)
          \/ \E i, d, c, m, n : Pushes("all_reset", i, d, "disconnect", c, m, n)
      BY <2>1, AllStepIs
    <3>2. Top.pc = "all"
      BY <2>1, AllStepIs
    <3>3. From("all") /\ From("all_reset") /\ Into("disconnect")
      BY <3>2 DEF From, Into, Called
    <3> QED BY <3>1, <3>3, Zenon
  <2>2. CASE AllReset \/ AllEnd
    <3>1. Moves("all", Top.i + 1, TRUE) \/ Leaves
      BY <2>2, SendingIs
    <3>2. From("all")
      BY DEF From
    <3> QED BY <3>1, <3>2, Zenon
  <2> QED BY <1>2, <2>1, <2>2
<1>3. CASE MessageClient \/ ClientErase
  BY <1>3, SendingIs DEF From, Into, Called
<1>4. CASE OnClientDisconnect \/ DisconnectForget
  BY <1>4, DisconnectIs DEF From, Into, Called
<1>5. CASE ChooseNextPlayerForTurn \/ ChooseFirst
  BY <1>5, TurnsAre DEF From, Into, Called
<1>6. CASE ChooseSend \/ ChooseSet \/ MakeAITurn
  BY <1>6, TurnsAre DEF From, Into, Called
<1>7. CASE ClearGarbage
  <2>1. Top.pc = "on_message" /\ Moves(Top.m.t, Top.i, Top.dirty)
    BY <1>7, GarbageIs
  <2>2. Top.m.t \in {"ClientRegisterOnServer", "ClientJustCheck",
                     "ServerGamePlayerActionApprove", "MessageAll"}
    <3>1. RecordOK(Top)
      BY FramesOK
    <3> QED BY <2>1, <3>1 DEF RecordOK, ClientMessages
  <2> QED BY <2>1, <2>2 DEF From
<1>8. CASE AnnounceLeaver \/ MessageDone
  BY <1>8, GarbageIs DEF From, Into, Called
<1>9. CASE Register \/ SendWorld \/ SendNew
  BY <1>9, RegisterIs DEF From, Into, Called
<1>10. CASE SendOthers \/ FirstTurn
  BY <1>10, RegisterIs DEF From, Into, Called
<1>11. CASE Approve \/ Abort \/ Acted
  <2>1. CASE Approve
    <3>1. \E i, d, to, c, m, n : Pushes("acted", i, d, to, c, m, n) /\ to = "all"
      BY <2>1, ActionIs
    <3>2. Top.pc = "ServerGamePlayerActionApprove"
      BY <2>1, ActionIs
    <3> QED BY <3>1, <3>2 DEF From, Into, Called
  <2>2. CASE Abort
    BY <2>2, ActionIs DEF From, Into, Called
  <2>3. CASE Acted
    BY <2>3, ActionIs DEF From, Into, Called
  <2> QED BY <1>11, <2>1, <2>2, <2>3
<1>12. CASE EndTurn \/ NextTurn \/ MessageAll
  BY <1>12, ActionIs DEF From, Into, Called
<1> QED
  BY <1>1, <1>2, <1>3, <1>4, <1>5, <1>6, <1>7, <1>8, <1>9, <1>10, <1>11, <1>12
     DEF GameThread, Sending, Turns, OnMessage

LEMMA OriginOf ==
    ASSUME IInv, GameThread, fault' = "none"
    PROVE  /\ depth' \in Nat /\ depth - 1 <= depth' /\ depth' <= depth + 1
           /\ \A j \in 0 .. depth - 1 : j \in 0 .. depth' /\ frame'[j] = frame[j]
           /\ \A j \in 0 .. depth' :
                \/ j \in 0 .. depth - 1 /\ frame'[j] = frame[j]
                \/ /\ j = depth /\ From(frame'[j].pc)
                   /\ frame'[j].c = Top.c /\ frame'[j].m = Top.m /\ frame'[j].n = Top.n
                \/ j = depth + 1 /\ Into(frame'[j].pc)
<1>1. depth \in Nat
  BY FramesOK
<1>2. CASE \E pc, i, d : Moves(pc, i, d) /\ From(pc)
  BY <1>1, <1>2 DEF Moves, Alters, Below
<1>3. CASE \E pc, i, d, to, c, m, n : Pushes(pc, i, d, to, c, m, n) /\ From(pc) /\ Into(to)
  BY <1>1, <1>3 DEF Pushes, Alters, Fresh, Below
<1>4. CASE Leaves
  BY <1>1, <1>4 DEF Leaves, Below
<1> QED BY <1>2, <1>3, <1>4, LabelsOf

\* What waits for a call to return.
Callers == {"wait", "update", "on_message", "done", "send_world", "send_new", "send_others",
            "acted", "end_turn", "next_turn", "all_reset", "client_erase", "forget",
            "choose_first", "choose_set", "ai"}

LEMMA CallersOK ==
    ASSUME IInv, CallsOK, NEW j \in 0 .. depth - 1
    PROVE  /\ j + 1 \in 1 .. depth /\ Calls(frame[j], frame[j + 1])
           /\ frame[j].pc \in Callers
<1>1. depth \in Nat
  BY FramesOK
<1>2. j + 1 \in 1 .. depth /\ (j + 1) - 1 = j
  BY <1>1
<1>3. Calls(frame[(j + 1) - 1], frame[j + 1])
  BY <1>2 DEF CallsOK
<1>4. Calls(frame[j], frame[j + 1])
  BY <1>2, <1>3
<1>5. frame[j].pc \in Callers
  BY <1>4 DEF Calls, RunCallsFor, MessageCallsFor, CallsFor, Callers
<1> QED BY <1>2, <1>4, <1>5

\* Who changes what.
LEMMA PlayersVary ==
    ASSUME IInv, GameThread, fault' = "none"
    PROVE  \/ UNCHANGED PlayersList
           \/ Register /\ PlayersList' = PlayersList \cup {Top.c}
           \/ /\ OnClientDisconnect /\ Top.c # CurrentPlayerID
              /\ PlayersList' = PlayersList \ {Top.c} /\ Leaves
           \/ DisconnectForget /\ PlayersList' = PlayersList \ {Top.c} /\ Leaves
<1>1. CASE Register
  BY <1>1, RegisterIs
<1>2. CASE OnClientDisconnect \/ DisconnectForget
  BY <1>2, DisconnectIs DEF Removes, game
<1>3. CASE ~(Register \/ OnClientDisconnect \/ DisconnectForget)
  BY <1>3
     DEF GameThread, OnMessage, Sending, Turns, Run, Wait, Update, AllStep, AllReset, AllEnd,
         MessageClient, ClientErase,
         ChooseNextPlayerForTurn, ChooseFirst, ChooseSend, ChooseSet, MakeAITurn,
         AnnounceLeaver, ClearGarbage, MessageDone, SendWorld, SendNew,
         SendOthers, FirstTurn, Approve, Abort, Acted, EndTurn, NextTurn, MessageAll, game
<1> QED BY <1>1, <1>2, <1>3

LEMMA OthersStay ==
    ASSUME GameThread
    PROVE  /\ UNCHANGED <<order, sock>>
           /\ UNCHANGED CurrentTurns \/ Register \/ Approve \/ ChooseSet
           /\ UNCHANGED CurrentPlayerID \/ ChooseNextPlayerForTurn \/ ChooseFirst
           /\ UNCHANGED enemies \/ Approve
<1>1. UNCHANGED <<order, sock>>
  BY GameKeeps
<1>2. CASE Register \/ Approve
  BY <1>1, <1>2 DEF Register, Approve
<1>3. CASE ChooseSet \/ ChooseNextPlayerForTurn \/ ChooseFirst
  BY <1>1, <1>3 DEF ChooseSet, ChooseNextPlayerForTurn, ChooseFirst
<1>4. CASE ~(Register \/ Approve \/ ChooseSet \/ ChooseNextPlayerForTurn \/ ChooseFirst)
  BY <1>1, <1>4
     DEF GameThread, OnMessage, Sending, Turns, Run, Wait, Update, AllStep, AllReset, AllEnd,
         MessageClient, ClientErase, OnClientDisconnect, DisconnectForget, Forget,
         ChooseSend, MakeAITurn, AnnounceLeaver, ClearGarbage, MessageDone, SendWorld, SendNew,
         SendOthers, FirstTurn, Abort, Acted, EndTurn, NextTurn, MessageAll, game
<1> QED BY <1>2, <1>3, <1>4

\* Turns are announced to one client at a time.
LEMMA MyTurnIs ==
    ASSUME IInv, CallsOK, GameThread, fault' = "none"
    PROVE  \/ UNCHANGED myTurn
           \/ /\ MessageClient /\ Top.pc = "client" /\ IsConnected(Top.c) /\ Leaves
              /\ \/ Top.m.t = "GamePlayerTurn" /\ myTurn' = myTurn \cup {Top.c}
                 \/ Top.m.t = "GameEndPlayerTurn" /\ myTurn' = myTurn \ {Top.c}
<1>1. CASE AllStep
  <2>1. Top.pc = "all" /\ depth \in 1 .. depth /\ Top = frame[depth]
    BY <1>1, AllStepIs, FramesOK DEF RunLabels
  <2>2. Calls(frame[depth - 1], Top)
    BY <2>1 DEF CallsOK
  <2>3. Top.m.t \notin {"GamePlayerTurn", "GameEndPlayerTurn"}
    BY <2>1, <2>2
       DEF Calls, RunCallsFor, MessageCallsFor, CallsFor, ToAll, ToOne, Losing, Choosing,
           MessageLabels, Msg
  <2> QED BY <1>1, <2>3, AllStepIs DEF Deliver, told
<1>2. CASE MessageClient
  BY <1>2, SendingIs DEF Deliver, told
<1>3. CASE ~(AllStep \/ MessageClient)
  BY <1>3
     DEF GameThread, OnMessage, Sending, Turns, Run, Wait, Update, AllReset, AllEnd,
         ClientErase, OnClientDisconnect, DisconnectForget, Register, Approve,
         ChooseNextPlayerForTurn, ChooseFirst, ChooseSend, ChooseSet, MakeAITurn,
         AnnounceLeaver, ClearGarbage, MessageDone, SendWorld, SendNew,
         SendOthers, FirstTurn, Abort, Acted, EndTurn, NextTurn, MessageAll, told
<1> QED BY <1>1, <1>2, <1>3

\* The holder of the turn is found.
LEMMA HolderHeld ==
    ASSUME IInv, Reachable, HolderOK, WelcomeOK, CurrentPlayerID # NULL
    PROVE  /\ CurrentPlayerID \in PlayersList /\ CurrentPlayerID \in Clients
           /\ m_deqConnection[CurrentPlayerID] = "held" /\ sock[CurrentPlayerID] # "none"
<1> DEFINE c == CurrentPlayerID
<1>1. c \in PlayersList /\ c \in Clients
  BY DEF HolderOK, IInv, GameTypeOK
<1>2. ~Unwelcome(c)
  <2>1. SUFFICES ASSUME Unwelcome(c) PROVE FALSE
    OBVIOUS
  <2>2. depth >= 2 /\ frame[1].pc = "send_world" /\ frame[2].c = c /\ depth \in Nat
    BY <2>1, FramesOK DEF Unwelcome
  <2>3. Calls(frame[1], frame[1 + 1])
    BY <2>2, CallersOK DEF Reachable
  <2>4. frame[2].c = frame[1].c
    BY <2>2, <2>3 DEF Calls, RunCallsFor, MessageCallsFor, CallsFor
  <2> QED BY <2>2, <2>4 DEF WelcomeOK
<1>3. m_deqConnection[c] = "held"
  BY <1>1, <1>2 DEF Reachable, ReachOK
<1>4. sock[c] # "none"
  BY <1>1, <1>3 DEF Reachable, NetOK
<1> QED BY <1>1, <1>3, <1>4

-----------------------------------------------------------------------------
(* The endless recursion.                                                  *)

\* The records at the top go round.
LEMMA DoomTurns ==
    ASSUME IInv, Reachable, GameThread, fault' = "none", NEW c \in Clients,
           c = CurrentPlayerID, c \in PlayersList, sock[c] = "closed",
           m_deqConnection[c] = "held", enemies, After(order[c]) = {}, DoomedTop(c)
    PROVE  /\ depth' \in Nat /\ UNCHANGED <<CurrentPlayerID, enemies>>
           /\ c \in PlayersList' /\ PlayersList' \subseteq PlayersList
           /\ m_deqConnection'[c] = "held" /\ DoomedTop(c)'
<1>1. /\ depth \in Nat /\ Top = frame[depth] /\ c \in Nat /\ NULL \notin Clients
      /\ Top.pc \in RunLabels <=> depth = 0
      /\ Top.pc \in MessageLabels => depth = 1
      /\ Top.i \in Nat /\ Top.n \in Nat /\ nIDCounter \in Nat
      /\ \A j \in 0 .. depth : frame[j].i \in Nat /\ frame[j].n \in Nat
      /\ m_deqConnection \in [Clients -> {"held", "null", "absent"}]
  <2>1. c \in Nat /\ NULL \notin Clients
    BY SizeAssumption DEF Clients, NULL
  <2>2. nIDCounter \in Nat /\ m_deqConnection \in [Clients -> {"held", "null", "absent"}]
    BY DEF IInv, NetTypeOK
  <2>3. /\ depth \in Nat /\ Top = frame[depth] /\ depth \in 0 .. depth
        /\ Top.pc \in RunLabels <=> depth = 0
        /\ Top.pc \in MessageLabels => depth = 1
    BY FramesOK
  <2>4. \A j \in 0 .. depth : frame[j].i \in Nat /\ frame[j].n \in Nat
    BY FramesOK DEF Records
  <2> QED BY <2>1, <2>2, <2>3, <2>4
<1>2. CASE frame[depth].pc = "choose" /\ frame[depth].c = c
  <2>1. ChooseNextPlayerForTurn
    BY <1>1, <1>2, ActionAt, TurnsAt DEF Choosing
  <2>2. PICK k \in AIActions :
          Pushes("choose_first", Top.i, Top.dirty, "ai", NULL, NoMsg, k)
    BY <1>1, <1>2, <2>1, TurnsAre
  <2>3. k >= 1 /\ k \in Nat
    BY <2>2, SizeAssumption DEF AIActions
  <2>4. /\ depth' = depth + 1 /\ depth >= 1
        /\ frame'[depth + 1].pc = "ai" /\ frame'[depth + 1].i = 1 /\ frame'[depth + 1].n = k
        /\ frame'[depth].pc = "choose_first" /\ frame'[depth].c = c
    BY <1>1, <1>2, <2>2 DEF Pushes, Alters, Fresh, RunLabels
  <2>5. DoomedTop(c)'
    <3>1. depth' >= 2 /\ depth' - 1 = depth /\ depth' = depth + 1
      BY <1>1, <2>4
    <3> QED BY <2>3, <2>4, <3>1 DEF DoomedTop
  <2>6. UNCHANGED <<net, TurnButHolder>> /\ UNCHANGED CurrentPlayerID
    <3>1. Top.c # NULL /\ Top.c \in PlayersList /\ After(order[Top.c]) = {} /\ PlayersList # {}
      BY <1>1, <1>2
    <3> QED BY <2>1, <3>1, TurnsAre
  <2> QED BY <1>1, <2>4, <2>5, <2>6 DEF net, TurnButHolder
<1>3. CASE /\ depth >= 2 /\ frame[depth].pc = "ai" /\ frame[depth].i <= frame[depth].n
           /\ frame[depth - 1].pc = "choose_first" /\ frame[depth - 1].c = c
  <2>1. MakeAITurn
    BY <1>1, <1>3, ActionAt, TurnsAt
  <2>2. Pushes("ai", Top.i + 1, Top.dirty, "all", NULL, Msg("GameAITurnAction", NULL),
               nIDCounter - 1)
    BY <1>1, <1>3, <2>1, TurnsAre
  <2>3. /\ depth' = depth + 1 /\ frame'[depth - 1] = frame[depth - 1]
        /\ frame'[depth + 1].pc = "all" /\ frame'[depth + 1].i = 1
        /\ frame'[depth + 1].n = nIDCounter - 1
    BY <1>1, <1>3, <2>2 DEF Pushes, Fresh, Below
  <2>4. 1 <= c /\ c <= nIDCounter - 1
    BY <1>1 DEF Reachable, NetOK, Clients
  <2>5. DoomedTop(c)'
    <3>1. depth' >= 3 /\ depth' - 2 = depth - 1 /\ depth' = depth + 1
      BY <1>1, <1>3, <2>3
    <3> QED BY <1>3, <2>3, <2>4, <3>1 DEF DoomedTop
  <2> QED BY <1>1, <2>1, <2>3, <2>5, TurnsAre DEF net, game
<1>4. CASE /\ depth >= 3 /\ frame[depth - 2].pc = "choose_first" /\ frame[depth - 2].c = c
           /\ frame[depth].i <= c /\ c <= frame[depth].n /\ frame[depth].pc = "all"
  <2>1. c \in ToVisit
    BY <1>1, <1>4 DEF ToVisit, Connections
  <2>2. AllStep
    BY <1>1, <1>4, <2>1, ActionAt, SendingIs
  <2> DEFINE client == Least(ToVisit)
  <2>3. /\ UNCHANGED <<net, game>> /\ client \in ToVisit /\ client <= c
        /\ \/ IsConnected(client) /\ Moves("all", client + 1, Top.dirty)
           \/ Pushes("all_reset", client, Top.dirty, "disconnect", client, NoMsg, 0)
    BY <2>1, <2>2, AllStepIs
  <2>4. client \in Nat
    BY <2>3, SizeAssumption DEF ToVisit, Connections, Nulls, Clients
  <2> HIDE DEF client
  <2>5. CASE IsConnected(client) /\ Moves("all", client + 1, Top.dirty)
    <3>1. client # c
      BY <2>5 DEF IsConnected
    <3>2. /\ depth' = depth /\ frame'[depth - 2] = frame[depth - 2] /\ depth - 2 \in Nat
          /\ frame'[depth].pc = "all" /\ frame'[depth].i = client + 1
          /\ frame'[depth].n = frame[depth].n
      BY <1>1, <1>4, <2>5 DEF Moves, Alters, Below
    <3>3. DoomedTop(c)'
      BY <1>1, <1>4, <2>3, <2>4, <3>1, <3>2 DEF DoomedTop
    <3> QED BY <1>1, <2>3, <3>2, <3>3 DEF net, game
  <2>6. CASE Pushes("all_reset", client, Top.dirty, "disconnect", client, NoMsg, 0)
    <3>1. /\ depth' = depth + 1 /\ frame'[depth - 2] = frame[depth - 2] /\ depth - 2 \in Nat
          /\ frame'[depth].pc = "all_reset" /\ frame'[depth].i = client
          /\ frame'[depth].n = frame[depth].n
          /\ frame'[depth + 1].pc = "disconnect"
      BY <1>1, <1>4, <2>6 DEF Pushes, Alters, Fresh, Below
    <3>2. depth' >= 4 /\ depth' - 3 = depth - 2 /\ depth' - 1 = depth /\ depth' = depth + 1
      BY <1>1, <1>4, <3>1
    <3>3. DoomedTop(c)'
      BY <1>1, <1>4, <2>3, <2>4, <3>1, <3>2 DEF DoomedTop
    <3> QED BY <1>1, <2>3, <3>2, <3>3 DEF net, game
  <2> QED BY <2>3, <2>5, <2>6
<1>5. CASE /\ depth >= 3 /\ frame[depth - 2].pc = "choose_first" /\ frame[depth - 2].c = c
           /\ c <= frame[depth].n /\ frame[depth].pc = "all_reset" /\ frame[depth].i < c
  <2>1. AllReset
    BY <1>1, <1>5, ActionAt
  <2>2. /\ UNCHANGED <<NetButDeque, game>> /\ Moves("all", Top.i + 1, TRUE)
        /\ m_deqConnection' = [m_deqConnection EXCEPT ![Top.i] = "null"]
    BY <2>1, SendingIs
  <2>3. m_deqConnection'[c] = "held"
    BY <1>1, <1>5, <2>2
  <2>4. /\ depth' = depth /\ frame'[depth - 2] = frame[depth - 2]
        /\ frame'[depth].pc = "all" /\ frame'[depth].i = frame[depth].i + 1
        /\ frame'[depth].n = frame[depth].n
    BY <1>1, <1>5, <2>2 DEF Moves, Alters, Below
  <2>5. DoomedTop(c)'
    <3>1. frame[depth].i \in Nat
      BY <1>1
    <3> QED BY <1>1, <1>5, <2>4, <3>1 DEF DoomedTop
  <2> QED BY <1>1, <2>2, <2>3, <2>4, <2>5 DEF NetButDeque, game
<1>6. CASE /\ depth >= 4 /\ frame[depth - 3].pc = "choose_first" /\ frame[depth - 3].c = c
           /\ frame[depth].pc = "disconnect" /\ frame[depth - 1].pc = "all_reset"
           /\ \/ frame[depth - 1].i = c
              \/ frame[depth - 1].i < c /\ c <= frame[depth - 1].n
  <2>1. OnClientDisconnect /\ Top.pc = "disconnect"
    BY <1>1, <1>6, ActionAt
  <2>2. Top.c = frame[depth - 1].i
    <3>1. Calls(frame[depth - 1], frame[(depth - 1) + 1]) /\ (depth - 1) + 1 = depth
      BY <1>1, <1>6, CallersOK DEF Reachable
    <3> QED
      BY <1>1, <1>6, <3>1 DEF Calls, RunCallsFor, MessageCallsFor, CallsFor, ToAll, ToOne,
                              Choosing, MessageLabels
  <2>3. CASE frame[depth - 1].i = c
    <3>1. UNCHANGED <<net, game>> /\ Pushes("forget", Top.i, Top.dirty, "choose", c, NoMsg, 0)
      BY <2>1, <2>2, <2>3, DisconnectIs
    <3>2. depth' = depth + 1 /\ frame'[depth + 1].pc = "choose" /\ frame'[depth + 1].c = c
      BY <3>1 DEF Pushes, Fresh
    <3>3. DoomedTop(c)'
      BY <3>2 DEF DoomedTop
    <3> QED BY <1>1, <3>1, <3>2, <3>3 DEF net, game
  <2>4. CASE frame[depth - 1].i < c /\ c <= frame[depth - 1].n
    <3>1. Top.c # c
      BY <1>1, <2>2, <2>4
    <3>2. /\ Leaves /\ UNCHANGED <<net, CurrentPlayerID, enemies>>
          /\ c \in PlayersList' /\ PlayersList' \subseteq PlayersList
      BY <2>1, <3>1, DisconnectIs DEF Removes, game
    <3>3. /\ depth' = depth - 1 /\ frame'[depth - 1] = frame[depth - 1]
          /\ frame'[depth - 3] = frame[depth - 3]
      BY <1>1, <1>6, <3>2 DEF Leaves, Below
    <3>4. depth' >= 3 /\ depth' - 2 = depth - 3 /\ depth' = depth - 1
      BY <1>1, <1>6, <3>3
    <3>5. DoomedTop(c)'
      BY <1>1, <1>6, <2>4, <3>3, <3>4 DEF DoomedTop
    <3> QED BY <1>1, <3>2, <3>4, <3>5 DEF net
  <2> QED BY <1>6, <2>3, <2>4
<1> QED BY <1>2, <1>3, <1>4, <1>5, <1>6 DEF DoomedTop

LEMMA DoomStays ==
    ASSUME IInv, Reachable, Doomed, [Next]_vars, fault' = "none"
    PROVE  Doomed' /\ UNCHANGED CurrentPlayerID
<1> DEFINE c == CurrentPlayerID
<1>1. /\ c \in PlayersList /\ sock[c] = "closed" /\ m_deqConnection[c] = "held"
      /\ enemies /\ After(order[c]) = {} /\ DoomedTop(c) /\ c \in Clients
  BY DEF Doomed, IInv, GameTypeOK
<1>2. order' = order /\ sock'[c] = "closed"
  BY <1>1, OrderStays, SocketsStay DEF Reachable
<1>3. CASE GameThread
  <2>1. /\ UNCHANGED <<CurrentPlayerID, enemies>> /\ c \in PlayersList'
        /\ PlayersList' \subseteq PlayersList /\ m_deqConnection'[c] = "held"
    BY <1>1, <1>3, DoomTurns
  <2>2. ASSUME NEW d, d = CurrentPlayerID PROVE DoomedTop(d)'
    BY <1>1, <1>3, <2>2, DoomTurns
  <2>3. DoomedTop(CurrentPlayerID)'
    BY <2>1, <2>2 DEF DoomedTop
  <2>4. After(order[c])' = {}
    BY <1>1, <1>2, <2>1 DEF After
  <2> QED BY <1>1, <1>2, <2>1, <2>3, <2>4 DEF Doomed
<1>4. CASE AsioThread
  <2>1. UNCHANGED <<order, game, stack>> /\ frame' = frame /\ depth' = depth
    BY <1>4, AsioIs
  <2>2. m_deqConnection'[c] = "held"
    BY <1>1, <1>4, AsioIs DEF IInv, NetTypeOK
  <2> QED BY <1>1, <1>2, <2>1, <2>2 DEF Doomed, DoomedTop, After, game
<1>5. CASE UNCHANGED vars
  BY <1>1, <1>5 DEF vars, net, game, Doomed, DoomedTop, After, frame, depth
<1> QED BY <1>3, <1>4, <1>5, Alive

-----------------------------------------------------------------------------
(* What the steps that pass the turn on do.                                *)

LEMMA TopIs ==
    ASSUME IInv
    PROVE  /\ depth \in Nat /\ Top = frame[depth] /\ depth \in 0 .. depth /\ 0 \in 0 .. depth
           /\ Top.pc \in RunLabels <=> depth = 0
           /\ Top.pc \in MessageLabels => depth = 1
           /\ Top.pc \in MessageLabels \cup ClientLabels => Top.c \in Clients
           /\ frame[0].pc \in RunLabels
           /\ PlayersList \subseteq Clients /\ NULL \notin Clients
           /\ CurrentTurns \in [Clients -> 0 .. MaxTurns] /\ MaxTurns \in 1 .. 15
BY FramesOK, RunningOK, TurnsAssumption DEF Clients, NULL, IInv, GameTypeOK

\* The search for the next player.
LEMMA ChooseIs ==
    ASSUME IInv, GameThread, fault' = "none"
    PROVE  /\ Top.pc \notin {"choose", "choose_first"} => UNCHANGED CurrentPlayerID
           /\ Top.pc \in {"choose", "choose_first"} =>
                /\ UNCHANGED <<net, TurnButHolder, told>>
                /\ \/ /\ CurrentPlayerID' \in PlayersList /\ Moves("choose_send", Top.i, Top.dirty)
                      /\ Top.pc = "choose" => Top.c = NULL \/ Top.c \in PlayersList
                   \/ /\ Top.pc = "choose" /\ PlayersList = {} /\ UNCHANGED CurrentPlayerID
                      /\ Leaves
                   \/ /\ Top.pc = "choose" /\ Top.c \in PlayersList /\ After(order[Top.c]) = {}
                      /\ UNCHANGED CurrentPlayerID
                      /\ \E k \in AIActions :
                           Pushes("choose_first", Top.i, Top.dirty, "ai", NULL, NoMsg, k)
<1>1. order \in [Clients -> Clients] /\ PlayersList \subseteq Clients
  BY DEF IInv, NetTypeOK, GameTypeOK
<1>2. CASE Top.pc = "choose"
  <2>1. ChooseNextPlayerForTurn
    BY <1>2, ActionAt, TurnsAt DEF Choosing
  <2>2. PlayersList # {} => First(PlayersList) \in PlayersList
    BY <1>1, FirstOK
  <2>3. After(order[Top.c]) # {} => First(After(order[Top.c])) \in PlayersList
    BY FirstAfterOK
  <2> QED BY <1>2, <2>1, <2>2, <2>3, TurnsAre
<1>3. CASE Top.pc = "choose_first"
  <2>1. ChooseFirst
    BY <1>3, ActionAt, TurnsAt DEF Choosing
  <2>2. PlayersList # {} => First(PlayersList) \in PlayersList
    BY <1>1, FirstOK
  <2> QED BY <1>3, <2>1, <2>2, TurnsAre
<1>4. CASE Top.pc \notin {"choose", "choose_first"}
  <2>1. ~ChooseNextPlayerForTurn /\ ~ChooseFirst
    BY <1>4 DEF ChooseNextPlayerForTurn, ChooseFirst, At
  <2> QED BY <1>4, <2>1, OthersStay
<1> QED BY <1>2, <1>3, <1>4

\* Who starts it.
LEMMA ChooseStarts ==
    ASSUME IInv, Reachable, GameThread, fault' = "none",
           NEW j, j = depth + 1, j \in 0 .. depth', frame'[j].pc = "choose"
    PROVE  /\ UNCHANGED <<net, game, told>> /\ depth' = depth + 1
           /\ \/ /\ Top.pc = "disconnect" /\ Top.c \in PlayersList /\ Top.c = CurrentPlayerID
                 /\ sock[Top.c] = "closed" /\ frame'[j].c = Top.c
                 /\ frame'[depth].pc = "forget" /\ frame'[depth].c = Top.c
              \/ /\ Top.pc = "first_turn" /\ CurrentPlayerID = NULL /\ frame'[j].c = NULL
                 /\ depth = 1
              \/ /\ Top.pc = "end_turn" /\ Top.c \in Clients /\ frame'[j].c = Top.c
                 /\ depth = 1
<1>1. Top.pc \in {"disconnect", "first_turn", "end_turn"} /\ depth' = depth + 1 /\ depth \in Nat
  BY TopIs, OriginOf DEF Into
<1>2. CASE Top.pc = "disconnect"
  <2>1. OnClientDisconnect
    BY <1>2, ActionAt
  <2>2. /\ Top.c \in PlayersList /\ Top.c = CurrentPlayerID /\ UNCHANGED <<net, game, told>>
        /\ Pushes("forget", Top.i, Top.dirty, "choose", Top.c, NoMsg, 0)
    BY <1>1, <2>1, DisconnectIs DEF Leaves
  <2>3. sock[Top.c] = "closed"
    BY <1>2, TopIs DEF Reachable, AddressesOK, AddressOK, Lost, Victim
  <2> QED BY <1>1, <1>2, <2>2, <2>3 DEF Pushes, Alters, Fresh
<1>3. CASE Top.pc = "first_turn"
  <2>1. FirstTurn /\ depth = 1
    BY <1>3, ActionAt, OnMessageAt, TopIs DEF MessageLabels
  <2>2. /\ CurrentPlayerID = NULL /\ UNCHANGED <<net, game, told>>
        /\ Pushes("done", Top.i, Top.dirty, "choose", NULL, NoMsg, 0)
    BY <1>1, <2>1, RegisterIs DEF Leaves
  <2> QED BY <1>1, <1>3, <2>1, <2>2 DEF Pushes, Fresh
<1>4. CASE Top.pc = "end_turn"
  <2>1. EndTurn /\ depth = 1 /\ Top.c \in Clients
    BY <1>4, ActionAt, OnMessageAt, TopIs DEF MessageLabels
  <2>2. /\ UNCHANGED <<net, game, told>>
        /\ Pushes("next_turn", Top.i, Top.dirty, "choose", Top.c, NoMsg, 0)
    BY <2>1, ActionIs
  <2> QED BY <1>1, <1>4, <2>1, <2>2 DEF Pushes, Fresh
<1> QED BY <1>1, <1>2, <1>3, <1>4

\* While the AI's turn runs for the search, so does what it calls.
LEMMA AboveAI ==
    ASSUME IInv, AIPartOK, NEW j \in 0 .. depth, frame[j].pc = "choose_first"
    PROVE  j = depth \/ (j \in 0 .. depth - 1 /\ Top.pc \in AIPart)
<1>1. depth \in Nat /\ Top = frame[depth]
  BY TopIs
<1>2. CASE j < depth
  <2>1. depth \in j + 1 .. depth /\ j \in 0 .. depth - 1
    BY <1>1, <1>2
  <2> QED BY <1>1, <2>1 DEF AIPartOK
<1> QED BY <1>1, <1>2

\* The player that is taken off PlayersList does not hold the turn.
LEMMA ForgetsOther ==
    ASSUME IInv, AIPartOK, PassedOK, Top.pc = "forget"
    PROVE  Top.c # CurrentPlayerID
<1>1. SUFFICES ASSUME Top.c = CurrentPlayerID PROVE FALSE
  OBVIOUS
<1>2. Forgetting(CurrentPlayerID) /\ Top = frame[depth]
  BY <1>1, TopIs DEF Forgetting
<1>3. Runs({"choose_first"})
  BY <1>2 DEF PassedOK, Starting, Giving
<1>4. PICK j \in 0 .. depth : frame[j].pc = "choose_first"
  BY <1>3 DEF Runs
<1> QED BY <1>2, <1>4, AboveAI DEF AIPart

\* The turn is announced by the search, to its new holder.
LEMMA TurnGiven ==
    ASSUME IInv, Reachable, GameThread, fault' = "none", Giving'
    PROVE  /\ Top.pc = "choose_send" /\ depth' = depth + 1
           /\ frame'[depth'].c = CurrentPlayerID /\ UNCHANGED <<net, game, told>>
<1> DEFINE d == depth'
<1>1. depth \in Nat /\ Top = frame[depth] /\ d \in Nat /\ d \in 0 .. d /\ d <= depth + 1
  BY TopIs, OriginOf
<1>2. frame'[d].pc = "client" /\ frame'[d].m.t = "GamePlayerTurn"
  BY DEF Giving
<1>3. d = depth + 1
  <2>1. ASSUME d \in 0 .. depth - 1, frame'[d] = frame[d] PROVE FALSE
    BY <1>2, <2>1, CallersOK DEF Reachable, Callers
  <2> QED BY <1>1, <1>2, <2>1, OriginOf DEF From
<1>4. Calls(frame'[d - 1], frame'[d])
  <2>1. CallsOK'
    BY CallsStep DEF Reachable, Next
  <2>2. order' = order /\ d \in 1 .. d
    BY <1>1, <1>3, OthersStay
  <2>3. (\A j \in 1 .. depth : Calls(frame[j - 1], frame[j]))'
    BY <2>1 DEF CallsOK
  <2>4. \A j \in 1 .. depth' : Calls(frame'[j - 1], frame'[j])
    BY <2>2, <2>3 DEF Calls, RunCallsFor, MessageCallsFor, CallsFor
  <2> QED BY <2>2, <2>4
<1>5. frame'[depth].pc = "choose_set"
  <2>1. d - 1 = depth
    BY <1>1, <1>3
  <2> QED
    BY <1>2, <1>4, <2>1
       DEF Calls, RunCallsFor, MessageCallsFor, CallsFor, ToAll, ToOne, Losing, Choosing,
           MessageLabels, Msg
<1>6. Top.pc = "choose_send"
  <2>1. depth \in 0 .. d /\ depth \notin 0 .. depth - 1
    BY <1>1, <1>3
  <2> QED BY <1>1, <1>5, <2>1, OriginOf DEF From
<1>7. ChooseSend
  BY <1>6, ActionAt, TurnsAt DEF Choosing
<1>8. /\ UNCHANGED <<net, game, told>>
      /\ Pushes("choose_set", Top.i, Top.dirty, "client", CurrentPlayerID,
                Msg("GamePlayerTurn", NULL), 0)
  BY <1>1, <1>3, <1>7, TurnsAre DEF Moves
<1> QED BY <1>3, <1>6, <1>8 DEF Pushes, Fresh

-----------------------------------------------------------------------------
(* One part of TurnOK after the other, over the steps of the game thread.  *)

LEMMA HolderStays ==
    ASSUME IInv, TurnOK, GameThread, fault' = "none"
    PROVE  CurrentPlayerID' # NULL => CurrentPlayerID' \in PlayersList'
<1>1. CASE Top.pc \in {"choose", "choose_first"}
  BY <1>1, ChooseIs DEF TurnOK, HolderOK, TurnButHolder
<1>2. CASE Top.pc \notin {"choose", "choose_first"}
  <2>1. UNCHANGED CurrentPlayerID
    BY <1>2, ChooseIs
  <2>2. DisconnectForget => Top.c # CurrentPlayerID
    BY ForgetsOther DEF TurnOK, DisconnectForget, At
  <2> QED BY <2>1, <2>2, PlayersVary DEF TurnOK, HolderOK
<1> QED BY <1>1, <1>2

\* Until somebody has the turn, the first player is being introduced.
LEMMA IntroducingStays ==
    ASSUME IInv, TurnOK, GameThread, fault' = "none",
           CurrentPlayerID' = NULL, PlayersList' # {}
    PROVE  Introducing'
<1>1. CurrentPlayerID' = CurrentPlayerID
  BY ChooseIs, TopIs
<1>2. CASE Register
  <2>1. Top.pc = "ClientRegisterOnServer"
        /\ Pushes("send_world", Top.i, Top.dirty, "client", Top.c,
                  Msg("ClientRegisterFromServer", Top.c), 0)
    BY <1>2, RegisterIs
  <2>2. depth = 1 /\ depth' = 2 /\ frame'[1].pc = "send_world"
    BY <2>1, TopIs DEF MessageLabels, Pushes, Alters
  <2> QED BY <2>2 DEF Introducing
<1>3. CASE ~Register
  <2>1. PlayersList # {} /\ CurrentPlayerID = NULL /\ Introducing
    BY <1>1, <1>3, PlayersAre DEF TurnOK, HolderOK
  <2>2. depth \in Nat /\ Top = frame[depth] /\ depth >= 1
    BY <2>1, TopIs DEF Introducing
  <2>3. CASE depth >= 3
    <3>1. depth' >= 2 /\ depth' >= 1 /\ frame'[1] = frame[1] /\ frame'[2] = frame[2]
      BY <2>2, <2>3, LevelsStay
    <3> QED BY <1>1, <2>1, <2>3, <3>1 DEF Introducing
  <2>4. CASE depth = 2
    <3>1. ~(frame[2].pc = "choose" /\ frame[2].c = NULL)
      BY <1>1, <2>1, <2>2, <2>4, ChooseIs, TopIs DEF Moves
    <3> QED BY <2>1, <2>4, <3>1, LevelsStay DEF Introducing
  <2>5. CASE depth = 1
    <3>1. Top.pc \in {"send_world", "send_new", "send_others", "first_turn"}
      BY <2>1, <2>2, <2>5 DEF Introducing
    <3>2. OnMessage
      BY <3>1, ActionAt DEF MessageLabels
    <3>3. CASE Top.pc \in {"send_world", "send_new"}
      <4>1. \E pc \in {"send_new", "send_others"} :
              \E i, d, to, x, m, n : Pushes(pc, i, d, to, x, m, n)
        BY <3>2, <3>3, OnMessageAt, RegisterIs
      <4> QED BY <2>5, <4>1 DEF Pushes, Alters, Introducing
    <3>4. CASE Top.pc = "send_others"
      <4>1. \E pc \in {"first_turn", "send_others"} :
              \/ \E i, d : Moves(pc, i, d)
              \/ \E i, d, to, x, m, n : Pushes(pc, i, d, to, x, m, n)
        BY <3>2, <3>4, OnMessageAt, RegisterIs
      <4> QED BY <2>5, <4>1 DEF Moves, Pushes, Alters, Introducing
    <3>5. CASE Top.pc = "first_turn"
      <4>1. Pushes("done", Top.i, Top.dirty, "choose", NULL, NoMsg, 0)
        BY <2>1, <3>2, <3>5, OnMessageAt, RegisterIs
      <4>2. /\ depth' = 1 + 1 /\ frame'[1].pc = "done"
            /\ frame'[1 + 1].pc = "choose" /\ frame'[1 + 1].c = NULL
        BY <2>5, <4>1 DEF Pushes, Alters, Fresh
      <4>3. depth' >= 1 /\ depth' >= 2 /\ 1 + 1 = 2
        BY <4>2
      <4> QED BY <4>2, <4>3 DEF Introducing
    <3> QED BY <3>1, <3>3, <3>4, <3>5
  <2> QED BY <2>2, <2>3, <2>4, <2>5
<1> QED BY <1>2, <1>3

LEMMA HolderStep ==
    ASSUME IInv, Reachable, TurnOK, GameThread, fault' = "none"
    PROVE  HolderOK'
<1>1. ASSUME NEW j \in 0 .. depth', frame'[j].pc \in {"choose_send", "choose_set"}
      PROVE  CurrentPlayerID' # NULL
  <2>1. CASE Top.pc \in {"choose", "choose_first"}
    <3>1. CASE CurrentPlayerID' \in PlayersList
      BY <3>1, TopIs
    <3>2. CASE CurrentPlayerID' \notin PlayersList
      <4>1. /\ UNCHANGED CurrentPlayerID
            /\ \/ Leaves
               \/ \E k : Pushes("choose_first", Top.i, Top.dirty, "ai", NULL, NoMsg, k)
        BY <2>1, <3>2, ChooseIs
      <4>2. j \in 0 .. depth - 1 /\ frame'[j] = frame[j]
        <5>1. depth \in Nat
          BY TopIs
        <5>2. CASE Leaves
          BY <5>1, <5>2 DEF Leaves, Below
        <5>3. CASE \E k : Pushes("choose_first", Top.i, Top.dirty, "ai", NULL, NoMsg, k)
          <6>1. /\ depth' = depth + 1 /\ Below
                /\ frame'[depth].pc = "choose_first" /\ frame'[depth + 1].pc = "ai"
            BY <5>3 DEF Pushes, Alters, Fresh
          <6> QED BY <1>1, <5>1, <6>1 DEF Below
        <5> QED BY <4>1, <5>2, <5>3
      <4>3. j \in 0 .. depth
        BY <4>2, TopIs
      <4> QED BY <1>1, <4>1, <4>2, <4>3 DEF TurnOK, HolderOK
    <3> QED BY <3>1, <3>2
  <2>2. CASE Top.pc \notin {"choose", "choose_first"}
    <3>1. UNCHANGED CurrentPlayerID
      BY <2>2, ChooseIs
    <3>2. \E k \in 0 .. depth : frame[k].pc \in {"choose_send", "choose_set"}
      <4>1. CASE j \in 0 .. depth - 1 /\ frame'[j] = frame[j]
        BY <1>1, <4>1, TopIs
      <4>2. CASE j = depth /\ From(frame'[j].pc)
        BY <1>1, <2>2, <4>2, TopIs DEF From
      <4>3. CASE Into(frame'[j].pc)
        BY <1>1, <4>3 DEF Into, Called
      <4> QED BY <4>1, <4>2, <4>3, OriginOf
    <3> QED BY <3>1, <3>2 DEF TurnOK, HolderOK
  <2> QED BY <2>1, <2>2
<1>2. ASSUME frame'[depth'].pc = "choose", frame'[depth'].c = NULL
      PROVE  CurrentPlayerID' = NULL
  <2> DEFINE d == depth'
  <2>1. d \in 0 .. d /\ depth \in Nat
    BY OriginOf, TopIs
  <2>2. d = depth + 1
    <3>1. ASSUME d \in 0 .. depth - 1, frame'[d] = frame[d] PROVE FALSE
      BY <1>2, <3>1, CallersOK DEF Reachable, Callers
    <3> QED BY <1>2, <2>1, <3>1, OriginOf DEF From
  <2> QED BY <1>2, <2>1, <2>2, ChooseStarts, TopIs DEF game
<1>3. ASSUME Giving'
      PROVE  frame'[depth'].c = CurrentPlayerID'
  BY <1>3, TurnGiven DEF game
<1> QED BY <1>1, <1>2, <1>3, HolderStays, IntroducingStays DEF HolderOK

\* A new player does not hold the turn, and its first message is not what
\* passes it on.
LEMMA WelcomeStep ==
    ASSUME IInv, Reachable, OnceOK, TurnOK, GameThread, fault' = "none"
    PROVE  WelcomeOK'
<1>1. SUFFICES ASSUME depth' >= 1, frame'[1].pc = "send_world"
               PROVE  /\ frame'[1].c # CurrentPlayerID'
                      /\ \A j \in 2 .. depth' :
                           frame'[j].pc \in {"client", "client_erase", "disconnect"}
  BY DEF WelcomeOK
<1>2. 1 \in 0 .. depth' /\ depth \in Nat /\ Top = frame[depth]
  BY <1>1, OriginOf, TopIs
<1>3. CASE 1 = depth /\ Top.pc = "ClientRegisterOnServer"
  <2>1. Register
    BY <1>3, ActionAt, OnMessageAt DEF MessageLabels
  <2>2. /\ UNCHANGED CurrentPlayerID
        /\ Pushes("send_world", Top.i, Top.dirty, "client", Top.c,
                  Msg("ClientRegisterFromServer", Top.c), 0)
    BY <2>1, RegisterIs
  <2>3. /\ depth' = 1 + 1 /\ frame'[1].c = Top.c /\ frame'[1 + 1].pc = "client"
    BY <1>3, <2>2 DEF Pushes, Alters, Fresh
  <2>4. InHand(Top.c) /\ Top.c \in Clients
    BY <1>2, <1>3, TopIs DEF InHand, OnceOK, MessageLabels
  <2>5. Top.c # CurrentPlayerID
    BY <2>4, TopIs DEF OnceOK, TurnOK, HolderOK
  <2>6. \A j \in 2 .. depth' : j = 1 + 1
    BY <2>3
  <2> QED BY <2>2, <2>3, <2>5, <2>6
<1>4. CASE 1 < depth /\ frame'[1] = frame[1]
  <2>1. /\ frame[1].c # CurrentPlayerID
        /\ \A j \in 2 .. depth : frame[j].pc \in {"client", "client_erase", "disconnect"}
    BY <1>1, <1>2, <1>4 DEF TurnOK, WelcomeOK
  <2>2. Top.pc \in {"client", "client_erase", "disconnect"} /\ depth \in 2 .. depth
    BY <1>2, <1>4, <2>1
  <2>3. UNCHANGED CurrentPlayerID
    BY <2>2, ChooseIs
  <2>4. Top.pc = "disconnect" => Top.c # CurrentPlayerID
    <3>1. SUFFICES ASSUME Top.pc = "disconnect" PROVE Top.c # CurrentPlayerID
      OBVIOUS
    <3>2. depth - 1 \in 0 .. depth - 1 /\ depth - 2 \in 0 .. depth - 1
          /\ (depth - 1) + 1 = depth /\ (depth - 2) + 1 = depth - 1
      BY <1>2, <1>4
    <3>3. Calls(frame[depth - 1], frame[depth]) /\ Calls(frame[depth - 2], frame[depth - 1])
      BY <3>2, CallersOK DEF Reachable
    <3>4. frame[depth - 1].pc \in Lost /\ frame[depth - 1].pc # "send_world"
      BY <1>2, <3>1, <3>3
         DEF Calls, RunCallsFor, MessageCallsFor, CallsFor, ToAll, ToOne, Losing, Choosing,
             MessageLabels, Lost
    <3>5. depth - 1 \in 2 .. depth
      BY <1>1, <1>2, <1>4, <3>4
    <3>6. frame[depth - 1].pc = "client_erase"
      <4>1. frame[depth - 1].pc \in {"client", "client_erase", "disconnect"}
        BY <2>1, <3>5
      <4>2. frame[depth - 1].pc \in {"client_erase", "all_reset"}
        BY <1>2, <3>1, <3>3
           DEF Calls, RunCallsFor, MessageCallsFor, CallsFor, ToAll, ToOne, Losing, Choosing,
               MessageLabels
      <4> QED BY <4>1, <4>2
    <3>7. Top.c = frame[depth - 1].c
      BY <1>2, <3>1, <3>3, <3>6
         DEF Calls, RunCallsFor, MessageCallsFor, CallsFor, ToAll, ToOne, Losing, Choosing,
             MessageLabels
    <3>8. depth - 2 = 1
      <4>1. frame[depth - 2].pc \notin {"client", "client_erase", "disconnect"}
        BY <3>3, <3>6
           DEF Calls, RunCallsFor, MessageCallsFor, CallsFor, ToAll, ToOne, Losing, Choosing,
               MessageLabels
      <4>2. depth - 2 \notin 2 .. depth
        BY <2>1, <4>1
      <4> QED BY <1>2, <3>5, <4>2
    <3>9. frame[depth - 1].c = frame[1].c
      BY <1>1, <1>4, <3>3, <3>6, <3>8
         DEF Calls, RunCallsFor, MessageCallsFor, CallsFor, ToAll, ToOne, Losing, Choosing,
             MessageLabels
    <3> QED BY <2>1, <3>7, <3>9
  <2>5. \/ Leaves
        \/ \E i, d, c, m, n : Pushes("client_erase", i, d, "disconnect", c, m, n)
    <3>1. CASE Top.pc = "client"
      BY <3>1, ActionAt, SendingIs
    <3>2. CASE Top.pc = "client_erase"
      BY <3>2, ActionAt, SendingIs
    <3>3. CASE Top.pc = "disconnect"
      BY <2>4, <3>3, ActionAt, DisconnectIs
    <3> QED BY <2>2, <3>1, <3>2, <3>3
  <2>6. ASSUME NEW j \in 2 .. depth'
        PROVE  frame'[j].pc \in {"client", "client_erase", "disconnect"}
    <3>1. CASE Leaves
      <4>1. j \in 0 .. depth - 1 /\ j \in 2 .. depth
        BY <1>2, <3>1 DEF Leaves
      <4> QED BY <2>1, <3>1, <4>1 DEF Leaves, Below
    <3>2. CASE \E i, d, c, m, n : Pushes("client_erase", i, d, "disconnect", c, m, n)
      <4>1. /\ depth' = depth + 1 /\ Below
            /\ frame'[depth].pc = "client_erase" /\ frame'[depth + 1].pc = "disconnect"
        BY <3>2 DEF Pushes, Alters, Fresh
      <4>2. j = depth + 1 \/ j = depth \/ (j \in 0 .. depth - 1 /\ j \in 2 .. depth)
        BY <1>2, <4>1
      <4> QED BY <2>1, <4>1, <4>2 DEF Below
    <3> QED BY <2>5, <3>1, <3>2
  <2> QED BY <1>4, <2>1, <2>3, <2>6
<1>5. \/ 1 < depth /\ frame'[1] = frame[1]
      \/ 1 = depth /\ Top.pc = "ClientRegisterOnServer"
  <2>1. CASE 1 \in 0 .. depth - 1 /\ frame'[1] = frame[1]
    BY <1>2, <2>1
  <2>2. CASE 1 = depth /\ From(frame'[1].pc)
    BY <1>1, <2>2 DEF From
  <2>3. CASE Into(frame'[1].pc)
    BY <1>1, <2>3 DEF Into, Called
  <2> QED BY <1>2, <2>1, <2>2, <2>3, OriginOf
<1> QED BY <1>3, <1>4, <1>5

\* Who is dropped while the search waits for the AI's turn does not hold the
\* turn, unless the search never ends.
LEMMA DroppedOther ==
    ASSUME IInv, Reachable, TurnOK, ~Doomed, Top.pc = "disconnect",
           NEW j \in 0 .. depth - 1, frame[j].pc = "choose_first"
    PROVE  ~(Top.c = CurrentPlayerID /\ Top.c \in PlayersList)
<1> DEFINE c == CurrentPlayerID
<1>1. SUFFICES ASSUME Top.c = c, c \in PlayersList PROVE Doomed
  OBVIOUS
<1>2. /\ depth \in Nat /\ Top = frame[depth] /\ c # NULL /\ frame[0].pc \in RunLabels
      /\ j # 0 /\ j \in Nat /\ j \in 0 .. depth
  BY <1>1, TopIs DEF RunLabels
<1>3. \A k \in j + 1 .. depth : frame[k].pc \in AIPart
  BY <1>2 DEF TurnOK, AIPartOK
<1>4. frame[j + 1].pc = "ai" /\ j + 1 \in 0 .. depth - 1
  <2>1. Calls(frame[j], frame[j + 1]) /\ j + 1 \in 1 .. depth
    BY CallersOK DEF Reachable
  <2>2. frame[j + 1].pc = "ai"
    BY <2>1 DEF Calls, RunCallsFor, MessageCallsFor, CallsFor
  <2> QED BY <1>2, <2>1, <2>2
<1>5. frame[j + 2].pc = "all_reset" /\ j + 2 \in 0 .. depth - 1
  <2>1. Calls(frame[j + 1], frame[(j + 1) + 1]) /\ (j + 1) + 1 \in 1 .. depth
        /\ (j + 1) + 1 = j + 2
    BY <1>2, <1>4, CallersOK DEF Reachable
  <2>2. Calls(frame[j + 1], frame[j + 2]) /\ j + 2 \in 1 .. depth
    BY <2>1
  <2>3. frame[j + 2].pc \in {"all", "all_reset"}
    BY <1>4, <2>2 DEF Calls, RunCallsFor, MessageCallsFor, CallsFor, ToAll
  <2>4. j + 2 \in 0 .. depth - 1
    BY <1>2, <2>2, <2>3
  <2>5. frame[j + 2].pc \in Callers
    BY <2>4, CallersOK DEF Reachable
  <2> QED BY <2>3, <2>4, <2>5 DEF Callers
<1>6. j + 3 = depth /\ frame[j + 2].i = c
  <2>1. Calls(frame[j + 2], frame[(j + 2) + 1]) /\ (j + 2) + 1 \in 1 .. depth
        /\ (j + 2) + 1 = j + 3
    BY <1>2, <1>5, CallersOK DEF Reachable
  <2>2. Calls(frame[j + 2], frame[j + 3]) /\ j + 3 \in 1 .. depth /\ j + 3 \in j + 1 .. depth
    BY <1>2, <2>1
  <2>3. frame[j + 3].pc \in Losing /\ frame[j + 3].c = frame[j + 2].i
    BY <1>5, <2>2 DEF Calls, RunCallsFor, MessageCallsFor, CallsFor
  <2>4. frame[j + 3].pc = "disconnect"
    BY <1>3, <2>2, <2>3 DEF AIPart, Losing
  <2>5. j + 3 \notin 0 .. depth - 1
    BY <2>4, CallersOK DEF Reachable, Callers
  <2> QED BY <1>1, <1>2, <2>2, <2>3, <2>5
<1>7. frame[j].c = c /\ After(order[c]) = {}
  BY <1>2 DEF TurnOK, TakenOK, Taken
<1>8. enemies
  BY <1>2, <1>4 DEF TurnOK, AIPartOK
<1>9. m_deqConnection[c] = "held"
  BY <1>2, HolderHeld DEF TurnOK
<1>10. sock[c] = "closed"
  BY <1>1, <1>2 DEF Reachable, AddressesOK, AddressOK, Lost, Victim
<1>11. DoomedTop(c)
  <2>1. depth - 3 = j /\ depth - 1 = j + 2 /\ depth >= 4
    BY <1>2, <1>6
  <2> QED BY <1>1, <1>2, <1>5, <1>6, <1>7, <2>1 DEF DoomedTop
<1> QED BY <1>1, <1>7, <1>8, <1>9, <1>10, <1>11 DEF Doomed

\* What the AI's turn does.
LEMMA AIPartIs ==
    ASSUME IInv, GameThread, fault' = "none", Top.pc \in AIPart,
           ~(Top.pc = "disconnect" /\ Top.c = CurrentPlayerID /\ Top.c \in PlayersList)
    PROVE  \/ \E pc \in AIPart : \E i, d : Moves(pc, i, d)
           \/ \E pc, to \in AIPart : \E i, d, c, m, n : Pushes(pc, i, d, to, c, m, n)
           \/ Leaves
<1>1. CASE Top.pc = "all"
  <2>1. CASE AllStep
    BY <2>1, AllStepIs DEF AIPart
  <2>2. CASE AllEnd
    BY <2>2, SendingIs
  <2> QED BY <1>1, <2>1, <2>2, ActionAt
<1>2. CASE Top.pc = "all_reset"
  BY <1>2, ActionAt, SendingIs DEF AIPart
<1>3. CASE Top.pc = "disconnect"
  BY <1>3, ActionAt, DisconnectIs
<1>4. CASE Top.pc = "ai"
  <2>1. MakeAITurn
    BY <1>4, ActionAt, TurnsAt
  <2> QED BY <2>1, TurnsAre DEF AIPart
<1> QED BY <1>1, <1>2, <1>3, <1>4 DEF AIPart

LEMMA AIPartStep ==
    ASSUME IInv, Reachable, TurnOK, ~Doomed, GameThread, fault' = "none"
    PROVE  AIPartOK'
<1>1. depth \in Nat /\ Top = frame[depth]
  BY TopIs
<1>2. ASSUME NEW j \in 0 .. depth', frame'[j].pc = "choose_first",
             NEW k \in j + 1 .. depth'
      PROVE  frame'[k].pc \in AIPart
  <2>1. CASE j \in 0 .. depth - 1 /\ frame'[j] = frame[j]
    <3>1. Top.pc \in AIPart /\ j \in 0 .. depth
      BY <1>1, <1>2, <2>1, AboveAI DEF TurnOK
    <3>2. Top.pc = "disconnect" => ~(Top.c = CurrentPlayerID /\ Top.c \in PlayersList)
      BY <1>2, <2>1, DroppedOther
    <3>3. \/ \E pc \in AIPart : \E i, d : Moves(pc, i, d)
          \/ \E pc, to \in AIPart : \E i, d, c, m, n : Pushes(pc, i, d, to, c, m, n)
          \/ Leaves
      BY <3>1, <3>2, AIPartIs
    <3>4. k \in 0 .. depth - 1 => k \in j + 1 .. depth
      BY <1>1, <2>1
    <3>5. k \in 0 .. depth - 1 => frame[k].pc \in AIPart
      BY <1>2, <2>1, <3>1, <3>4 DEF TurnOK, AIPartOK
    <3>6. CASE \E pc \in AIPart : \E i, d : Moves(pc, i, d)
      <4>1. depth' = depth /\ Below /\ frame'[depth].pc \in AIPart
        BY <3>6 DEF Moves, Alters
      <4>2. k = depth \/ k \in 0 .. depth - 1
        BY <1>1, <2>1, <4>1
      <4> QED BY <3>5, <4>1, <4>2 DEF Below
    <3>7. CASE \E pc, to \in AIPart : \E i, d, c, m, n : Pushes(pc, i, d, to, c, m, n)
      <4>1. depth' = depth + 1 /\ Below
            /\ frame'[depth].pc \in AIPart /\ frame'[depth + 1].pc \in AIPart
        BY <3>7 DEF Pushes, Alters, Fresh
      <4>2. k = depth + 1 \/ k = depth \/ k \in 0 .. depth - 1
        BY <1>1, <2>1, <4>1
      <4> QED BY <3>5, <4>1, <4>2 DEF Below
    <3>8. CASE Leaves
      <4>1. k \in 0 .. depth - 1 /\ Below
        BY <1>1, <2>1, <3>8 DEF Leaves
      <4> QED BY <3>5, <4>1 DEF Below
    <3> QED BY <3>3, <3>6, <3>7, <3>8
  <2>2. CASE j = depth /\ From(frame'[j].pc)
    <3>1. Top.pc = "choose"
      BY <1>2, <2>2 DEF From
    <3>2. depth' = depth + 1 /\ frame'[depth + 1].pc = "ai"
      <4>1. frame'[depth].pc = "choose_first" /\ depth' >= depth
        BY <1>1, <1>2, <2>2
      <4>2. ~Leaves /\ ~Moves("choose_send", Top.i, Top.dirty)
        BY <1>1, <4>1 DEF Leaves, Moves, Alters
      <4> QED BY <3>1, <4>2, ChooseIs DEF Pushes, Fresh
    <3> QED BY <1>1, <2>2, <3>2 DEF AIPart
  <2>3. CASE Into(frame'[j].pc)
    BY <1>2, <2>3 DEF Into, Called
  <2> QED BY <2>1, <2>2, <2>3, OriginOf
<1>3. ASSUME NEW j \in 0 .. depth', frame'[j].pc = "ai"
      PROVE  enemies' \/ (j = depth' /\ frame'[j].n < frame'[j].i)
  <2>1. CASE j \in 0 .. depth - 1 /\ frame'[j] = frame[j]
    <3>1. j \in 0 .. depth /\ j # depth
      BY <1>1, <2>1
    <3>2. enemies
      BY <1>3, <2>1, <3>1 DEF TurnOK, AIPartOK
    <3>3. ~Approve
      <4>1. SUFFICES ASSUME Approve PROVE FALSE
        OBVIOUS
      <4>2. Top.pc = "ServerGamePlayerActionApprove"
        BY <4>1, ActionIs
      <4>3. depth = 1
        BY <4>2, TopIs DEF MessageLabels
      <4> QED BY <1>1, <1>3, <2>1, <4>3, TopIs DEF RunLabels
    <3> QED BY <3>2, <3>3, OthersStay
  <2>2. CASE j = depth /\ From(frame'[j].pc)
    <3>1. Top.pc = "ai" /\ depth' >= depth
      BY <1>1, <1>3, <2>2 DEF From
    <3>2. MakeAITurn
      BY <3>1, ActionAt, TurnsAt
    <3>3. Top.i <= Top.n /\ UNCHANGED <<net, game>>
      BY <1>1, <3>1, <3>2, TurnsAre DEF Leaves
    <3>4. Top.i \in Nat /\ Top.n \in Nat
      BY RunningOK DEF Records
    <3>5. enemies
      BY <1>1, <3>1, <3>3, <3>4, TopIs DEF TurnOK, AIPartOK
    <3> QED BY <3>3, <3>5 DEF game
  <2>3. CASE j = depth + 1 /\ Into(frame'[j].pc)
    <3>1. Top.pc = "choose" /\ depth' >= depth + 1
      BY <1>1, <1>3, <2>3, OriginOf DEF Into
    <3>2. UNCHANGED TurnButHolder
          /\ \E k \in AIActions :
               Pushes("choose_first", Top.i, Top.dirty, "ai", NULL, NoMsg, k)
      BY <1>1, <3>1, ChooseIs DEF Moves, Leaves
    <3>3. PICK k \in AIActions :
               Pushes("choose_first", Top.i, Top.dirty, "ai", NULL, NoMsg, k)
      BY <3>2
    <3>4. /\ depth' = depth + 1 /\ frame'[j].i = 1 /\ frame'[j].n = k
      BY <2>3, <3>3 DEF Pushes, Fresh
    <3>5. enemies \/ k = 0
      BY DEF AIActions
    <3> QED BY <2>3, <3>2, <3>4, <3>5 DEF TurnButHolder
  <2> QED BY <2>1, <2>2, <2>3, OriginOf
<1> QED BY <1>2, <1>3 DEF AIPartOK

LEMMA TakenStep ==
    ASSUME IInv, Reachable, TurnOK, ~Doomed, GameThread, fault' = "none"
    PROVE  TakenOK'
<1>1. depth \in Nat /\ Top = frame[depth] /\ UNCHANGED <<order, sock>>
  BY TopIs, OthersStay
<1>2. ASSUME NEW j \in 0 .. depth', frame'[j].pc \in {"choose", "choose_first"},
             NEW c, c = frame'[j].c
      PROVE  /\ Taken(c)'
             /\ frame'[j].pc = "choose_first" => c \in PlayersList' /\ (After(order[c]) = {})'
  <2>1. CASE j \in 0 .. depth - 1 /\ frame'[j] = frame[j]
    <3>1. frame[j].pc = "choose_first" /\ j \in 0 .. depth /\ j # depth
      BY <1>1, <1>2, <2>1, CallersOK DEF Reachable, Callers
    <3>2. Top.pc \in AIPart
      BY <3>1, AboveAI DEF TurnOK
    <3>3. UNCHANGED <<CurrentPlayerID, CurrentTurns, myTurn>>
      <4>1. ~(Register \/ Approve \/ ChooseSet \/ MessageClient)
        BY <3>2 DEF Register, Approve, ChooseSet, MessageClient, At, AIPart
      <4> QED BY <3>2, <4>1, ChooseIs, OthersStay, MyTurnIs DEF AIPart, Reachable
    <3>4. Taken(c) /\ c \in PlayersList /\ After(order[c]) = {}
      BY <1>2, <2>1, <3>1 DEF TurnOK, TakenOK
    <3>5. PlayersList' \subseteq PlayersList
      BY <3>2, PlayersAre DEF Register, At, AIPart
    <3>6. c \in PlayersList'
      BY <3>2, <3>4, PlayersVary DEF Taken, DisconnectForget, At, AIPart
    <3>7. (After(order[c]) = {})'
      BY <1>1, <3>4, <3>5 DEF After
    <3> QED BY <1>1, <3>3, <3>4, <3>6, <3>7 DEF Taken, IsConnected
  <2>2. CASE j = depth /\ From(frame'[j].pc) /\ frame'[j].c = Top.c
    <3>1. Top.pc = "choose" /\ frame'[depth].pc = "choose_first"
      BY <1>2, <2>2 DEF From
    <3>2. ~Leaves /\ ~Moves("choose_send", Top.i, Top.dirty)
      BY <1>1, <1>2, <2>2, <3>1 DEF Leaves, Moves, Alters
    <3>3. /\ UNCHANGED <<net, TurnButHolder, told, CurrentPlayerID>>
          /\ c \in PlayersList /\ After(order[c]) = {}
      BY <1>2, <2>2, <3>1, <3>2, ChooseIs
    <3>4. Taken(c)
      BY <1>1, <1>2, <2>2, <3>1, TopIs DEF TurnOK, TakenOK
    <3> QED BY <3>3, <3>4 DEF Taken, After, IsConnected, net, TurnButHolder, told
  <2>3. CASE j = depth + 1 /\ Into(frame'[j].pc)
    <3>1. frame'[j].pc = "choose"
      BY <1>2, <2>3 DEF Into, Called
    <3>2. /\ UNCHANGED <<net, game, told>>
          /\ \/ c = CurrentPlayerID /\ sock[c] = "closed"
             \/ c = NULL
             \/ Top.pc = "end_turn" /\ Top.c = c /\ depth = 1
      BY <1>2, <2>3, <3>1, ChooseStarts
    <3>3. Taken(c)
      <4>1. CASE c = CurrentPlayerID /\ sock[c] = "closed"
        BY <4>1 DEF Taken, IsConnected
      <4>2. CASE c = NULL
        BY <4>2, TopIs DEF Taken
      <4>3. CASE Top.pc = "end_turn" /\ Top.c = c /\ depth = 1
        <5>1. Acting(c) /\ frame[1].pc = "end_turn"
          BY <1>1, <4>3 DEF Acting
        <5>2. ~Forgetting(c)
          <6>1. \A k \in 0 .. depth : k = 0 \/ k = 1
            BY <4>3
          <6> QED BY <5>1, <6>1, TopIs DEF Forgetting, RunLabels
        <5> QED BY <4>3, <5>1, <5>2 DEF TurnOK, ActingOK, Taken
      <4> QED BY <3>2, <4>1, <4>2, <4>3
    <3> QED BY <3>1, <3>2, <3>3 DEF Taken, IsConnected, net, game, told
  <2> QED BY <2>1, <2>2, <2>3, OriginOf
<1>3. ASSUME NEW j \in 0 .. depth', frame'[j].pc \in {"choose", "choose_first"}
      PROVE  /\ Taken(frame[j].c)'
             /\ frame'[j].pc = "choose_first" =>
                  frame'[j].c \in PlayersList' /\ (After(order[frame[j].c]) = {})'
  BY <1>2, <1>3 DEF Taken, After, IsConnected
<1> QED BY <1>3 DEF TakenOK

LEMMA PassedStep ==
    ASSUME IInv, Reachable, TurnOK, ~Doomed, GameThread, fault' = "none"
    PROVE  PassedOK'
<1>1. /\ depth \in Nat /\ Top = frame[depth] /\ depth' \in Nat /\ depth' \in 0 .. depth'
      /\ UNCHANGED <<order, sock>>
  BY TopIs, OriginOf, OthersStay
<1>2. SUFFICES ASSUME NEW j \in 0 .. depth', frame'[j].pc = "forget",
                      frame'[j].c = CurrentPlayerID'
               PROVE  \/ Starting'
                      \/ /\ frame'[depth'].pc = "disconnect"
                         /\ frame'[depth'].c = CurrentPlayerID'
  BY DEF PassedOK, Forgetting
<1>3. CASE Top.pc \in {"choose", "choose_first"}
  <2>1. CASE Moves("choose_send", Top.i, Top.dirty)
    BY <2>1 DEF Moves, Alters, Starting
  <2>2. CASE Top.pc = "choose" /\ PlayersList = {} /\ UNCHANGED CurrentPlayerID /\ Leaves
    <3>1. j \in 0 .. depth - 1 /\ frame'[j] = frame[j] /\ j \in 0 .. depth
      BY <1>1, <2>2 DEF Leaves, Below
    <3>2. frame[j].c \in Clients
      BY <1>2, <3>1, FramesOK DEF RecordOK, ClientLabels
    <3>3. CurrentPlayerID # NULL
      BY <1>2, <2>2, <3>1, <3>2, TopIs
    <3> QED BY <2>2, <3>3 DEF TurnOK, HolderOK
  <2>3. CASE \E k : Pushes("choose_first", Top.i, Top.dirty, "ai", NULL, NoMsg, k)
    <3>1. depth \in 0 .. depth' /\ frame'[depth].pc = "choose_first"
      BY <1>1, <2>3 DEF Pushes, Alters
    <3> QED BY <3>1 DEF Starting, Runs
  <2> QED BY <1>3, <2>1, <2>2, <2>3, ChooseIs
<1>4. CASE Top.pc \notin {"choose", "choose_first"}
  <2>1. CurrentPlayerID' = CurrentPlayerID
    BY <1>4, ChooseIs
  <2>2. ASSUME Top.pc = "disconnect", Top.c = CurrentPlayerID, Top.c \in PlayersList
        PROVE  Starting'
    <3>1. Pushes("forget", Top.i, Top.dirty, "choose", Top.c, NoMsg, 0)
      BY <2>2, ActionAt, DisconnectIs
    <3>2. frame'[depth'].pc = "choose"
      BY <3>1 DEF Pushes, Fresh
    <3> QED BY <3>2 DEF Starting
  <2>3. CASE j \in 0 .. depth - 1 /\ frame'[j] = frame[j]
    <3>1. /\ j \in 0 .. depth /\ frame[j].pc = "forget" /\ frame[j].c = CurrentPlayerID
          /\ Forgetting(CurrentPlayerID)
      BY <1>1, <1>2, <2>1, <2>3 DEF Forgetting
    <3>2. /\ CurrentPlayerID \in Clients /\ CurrentPlayerID # NULL
          /\ CurrentPlayerID \in PlayersList /\ m_deqConnection[CurrentPlayerID] = "held"
          /\ sock[CurrentPlayerID] = "closed"
      <4>1. CurrentPlayerID \in Clients
        BY <3>1, FramesOK DEF RecordOK, ClientLabels
      <4>2. CurrentPlayerID # NULL
        BY <4>1, TopIs
      <4>3. sock[CurrentPlayerID] = "closed"
        BY <3>1 DEF Reachable, AddressesOK, AddressOK, Lost, Victim
      <4> QED BY <4>1, <4>2, <4>3, HolderHeld DEF TurnOK
    <3>3. CASE Top.pc = "disconnect" /\ Top.c = CurrentPlayerID
      BY <2>2, <3>2, <3>3
    <3>4. CASE Top.pc = "choose_send"
      <4>1. ChooseSend
        BY <3>4, ActionAt, TurnsAt DEF Choosing
      <4>2. Pushes("choose_set", Top.i, Top.dirty, "client", CurrentPlayerID,
                   Msg("GamePlayerTurn", NULL), 0)
        BY <3>2, <4>1, TurnsAre DEF Connections
      <4>3. frame'[depth'].pc = "client" /\ frame'[depth'].m.t = "GamePlayerTurn"
        BY <4>2 DEF Pushes, Fresh, Msg
      <4> QED BY <4>3 DEF Starting, Giving
    <3>5. CASE Giving
      <4>1. Top.pc = "client" /\ Top.c = CurrentPlayerID
        BY <1>1, <3>5 DEF Giving, TurnOK, HolderOK
      <4>2. Pushes("client_erase", Top.i, Top.dirty, "disconnect", Top.c, NoMsg, 0)
        BY <3>2, <4>1, ActionAt, SendingIs DEF IsConnected
      <4>3. frame'[depth'].pc = "disconnect" /\ frame'[depth'].c = CurrentPlayerID
        BY <4>1, <4>2 DEF Pushes, Fresh
      <4> QED BY <2>1, <4>3
    <3>6. CASE Runs({"choose_first"})
      <4>1. PICK k \in 0 .. depth : frame[k].pc = "choose_first"
        BY <3>6 DEF Runs
      <4>2. k \in 0 .. depth - 1
        BY <1>1, <1>4, <4>1
      <4>3. k \in 0 .. depth' /\ frame'[k] = frame[k]
        BY <4>2, OriginOf
      <4> QED BY <4>1, <4>3 DEF Starting, Runs
    <3> QED BY <1>1, <1>4, <3>1, <3>3, <3>4, <3>5, <3>6 DEF TurnOK, PassedOK, Starting
  <2>4. CASE j = depth /\ From(frame'[j].pc) /\ frame'[j].c = Top.c
    <3>1. Top.pc = "disconnect" /\ Top.c = CurrentPlayerID /\ ~Leaves
      BY <1>1, <1>2, <2>1, <2>4 DEF From, Leaves
    <3>2. Top.c \in PlayersList
      BY <3>1, ActionAt, DisconnectIs
    <3> QED BY <2>2, <3>1, <3>2
  <2>5. CASE Into(frame'[j].pc)
    BY <1>2, <2>5 DEF Into, Called
  <2> QED BY <2>3, <2>4, <2>5, OriginOf
<1> QED BY <1>3, <1>4

LEMMA SpentStep ==
    ASSUME IInv, Reachable, TurnOK, GameThread, fault' = "none"
    PROVE  SpentOK'
<1>1. /\ depth \in Nat /\ Top = frame[depth] /\ depth' \in Nat /\ depth' \in 0 .. depth'
  BY TopIs, OriginOf
<1>2. SUFFICES ASSUME CurrentPlayerID' # NULL, CurrentTurns'[CurrentPlayerID'] = 0
               PROVE  Runs(Choosing)' \/ Acting(CurrentPlayerID)'
  BY DEF SpentOK
<1>3. ASSUME NEW j \in 0 .. depth', frame'[j].pc \in Choosing
      PROVE  Runs(Choosing)'
  BY <1>3 DEF Runs
<1>4. CASE Top.pc \in {"choose", "choose_first"}
  <2>1. CASE Moves("choose_send", Top.i, Top.dirty)
    <3>1. depth \in 0 .. depth' /\ frame'[depth].pc \in Choosing
      BY <1>1, <2>1 DEF Moves, Alters, Choosing
    <3> QED BY <1>3, <3>1
  <2>2. CASE PlayersList = {} /\ UNCHANGED CurrentPlayerID
    BY <1>2, <2>2 DEF TurnOK, HolderOK
  <2>3. CASE \E k : Pushes("choose_first", Top.i, Top.dirty, "ai", NULL, NoMsg, k)
    <3>1. depth \in 0 .. depth' /\ frame'[depth].pc \in Choosing
      BY <1>1, <2>3 DEF Pushes, Alters, Choosing
    <3> QED BY <1>3, <3>1
  <2> QED BY <1>4, <2>1, <2>2, <2>3, ChooseIs
<1>5. CASE Top.pc \notin {"choose", "choose_first"}
  <2> DEFINE c == CurrentPlayerID
  <2>1. c' = c /\ c \in Clients /\ CurrentTurns \in [Clients -> 0 .. MaxTurns]
        /\ MaxTurns \in 1 .. 15
    <3>1. c' = c /\ c # NULL
      BY <1>2, <1>5, ChooseIs
    <3> QED BY <3>1, TopIs DEF TurnOK, HolderOK
  <2>2. ~ChooseSet
    <3>1. ChooseSet => CurrentTurns'[c] = MaxTurns
      BY <2>1, TurnsAre DEF FullTurn
    <3> QED BY <1>2, <2>1, <3>1
  <2>3. CASE Approve
    <3>1. /\ Top.pc = "ServerGamePlayerActionApprove" /\ Top.c = c
          /\ Pushes("acted", Top.i, Top.dirty, "all", NULL,
                    Msg("GamePlayerActionValidated", NULL), nIDCounter - 1)
      BY <2>3, ActionIs DEF MayAct
    <3>2. depth = 1
      BY <3>1, TopIs DEF MessageLabels
    <3>3. depth' >= 1 /\ frame'[1].pc = "acted" /\ frame'[1].c = c
      BY <3>1, <3>2 DEF Pushes, Alters
    <3> QED BY <2>1, <3>3 DEF Acting
  <2>4. CASE ~Approve
    <3>1. CurrentTurns[c] = 0
      <4>1. CASE Register
        BY <1>2, <2>1, <4>1, RegisterIs DEF FullTurn
      <4>2. CASE ~Register
        BY <1>2, <2>1, <2>2, <2>4, <4>2, OthersStay
      <4> QED BY <4>1, <4>2
    <3>2. CASE Runs(Choosing)
      <4>1. PICK j \in 0 .. depth : frame[j].pc \in Choosing
        BY <3>2 DEF Runs
      <4>2. CASE j \in 0 .. depth - 1
        <5>1. j \in 0 .. depth' /\ frame'[j] = frame[j]
          BY <4>2, OriginOf
        <5> QED BY <1>3, <4>1, <5>1
      <4>3. CASE j = depth
        <5>1. Top.pc = "choose_send"
          BY <1>1, <1>5, <2>2, <4>1, <4>3, ActionAt, TurnsAt DEF Choosing
        <5>2. ChooseSend
          BY <5>1, ActionAt, TurnsAt DEF Choosing
        <5>3. depth \in 0 .. depth' /\ frame'[depth].pc = "choose_set"
          <6>1. \/ Moves("choose_set", Top.i, Top.dirty)
                \/ Pushes("choose_set", Top.i, Top.dirty, "client", CurrentPlayerID,
                          Msg("GamePlayerTurn", NULL), 0)
            BY <5>2, TurnsAre
          <6> QED BY <1>1, <6>1 DEF Moves, Pushes, Alters
        <5> QED BY <1>3, <5>3 DEF Choosing
      <4> QED BY <1>1, <4>2, <4>3
    <3>3. CASE Acting(c)
      <4>1. CASE depth >= 2
        <5>1. depth' >= 1 /\ frame'[1] = frame[1]
          BY <4>1, LevelsStay
        <5> QED BY <2>1, <3>3, <5>1 DEF Acting
      <4>2. CASE depth = 1 /\ Top.pc = "acted" /\ Top.c = c
        <5>1. Pushes("end_turn", Top.i, Top.dirty, "client", Top.c,
                     Msg("GameEndPlayerTurn", NULL), 0)
          BY <3>1, <4>2, ActionAt, OnMessageAt, ActionIs DEF MessageLabels
        <5>2. depth' >= 1 /\ frame'[1].pc = "end_turn" /\ frame'[1].c = c
          BY <4>2, <5>1 DEF Pushes, Alters
        <5> QED BY <2>1, <5>2 DEF Acting
      <4>3. CASE depth = 1 /\ Top.pc = "end_turn"
        <5>1. Pushes("next_turn", Top.i, Top.dirty, "choose", Top.c, NoMsg, 0)
          BY <4>3, ActionAt, OnMessageAt, ActionIs DEF MessageLabels
        <5>2. frame'[depth'].pc = "choose"
          BY <5>1 DEF Pushes, Fresh
        <5> QED BY <1>1, <1>3, <5>2 DEF Choosing
      <4> QED BY <1>1, <3>3, <4>1, <4>2, <4>3 DEF Acting
    <3> QED BY <1>2, <2>1, <3>1, <3>2, <3>3 DEF TurnOK, SpentOK
  <2> QED BY <2>3, <2>4
<1> QED BY <1>4, <1>5

LEMMA ActingStep ==
    ASSUME IInv, Reachable, TurnOK, GameThread, fault' = "none"
    PROVE  ActingOK'
<1>1. /\ depth \in Nat /\ Top = frame[depth] /\ depth' \in Nat /\ depth' \in 0 .. depth'
      /\ UNCHANGED <<order, sock>>
  BY TopIs, OriginOf, OthersStay
<1>2. SUFFICES ASSUME NEW c \in PlayersList', depth' >= 1,
                      frame'[1].pc \in {"acted", "end_turn"}, frame'[1].c = c
               PROVE  \/ Forgetting(c)'
                      \/ /\ c = CurrentPlayerID' /\ ~Runs(Choosing)'
                         /\ frame'[1].pc = "end_turn" =>
                              /\ CurrentTurns'[c] = 0
                              /\ depth' = 1 /\ IsConnected(c) => c \notin myTurn'
  BY <1>1 DEF ActingOK, Acting, IsConnected
<1>3. 1 \in 0 .. depth'
  BY <1>1, <1>2
<1>4. CASE depth = 0
  <2>1. Into(frame'[1].pc)
    BY <1>3, <1>4, OriginOf
  <2> QED BY <1>2, <2>1 DEF Into, Called
<1>5. CASE depth = 1
  <2>1. Top = frame[1] /\ frame'[0] = frame[0]
    BY <1>1, <1>5, OriginOf
  <2>2. frame'[0].pc \notin Choosing /\ frame[0].pc # "forget"
    BY <2>1, TopIs DEF RunLabels, Choosing
  <2>3. From(frame'[1].pc)
    BY <1>3, <1>5, OriginOf
  <2>4. CASE Top.pc = "ServerGamePlayerActionApprove"
    <3>1. Approve
      <4>1. CASE Abort
        <5>1. frame'[1].pc = "done"
          BY <1>5, <4>1, ActionIs DEF Pushes, Alters
        <5> QED BY <1>2, <5>1
      <4> QED BY <2>4, <4>1, ActionAt, OnMessageAt DEF MessageLabels
    <3>2. /\ Top.c = CurrentPlayerID /\ UNCHANGED CurrentPlayerID
          /\ Pushes("acted", Top.i, Top.dirty, "all", NULL,
                    Msg("GamePlayerActionValidated", NULL), nIDCounter - 1)
      BY <3>1, ActionIs DEF MayAct
    <3>3. /\ depth' = 1 + 1 /\ frame'[1].pc = "acted" /\ frame'[1].c = Top.c
          /\ frame'[1 + 1].pc = "all"
      BY <1>5, <3>2 DEF Pushes, Alters, Fresh
    <3>4. ~Runs(Choosing)'
      <4>1. \A j \in 0 .. depth' : j = 0 \/ j = 1 \/ j = 1 + 1
        BY <3>3
      <4> QED BY <2>2, <3>3, <4>1 DEF Runs, Choosing
    <3> QED BY <1>2, <3>2, <3>3, <3>4
  <2>5. CASE Top.pc = "acted"
    <3>1. Acted
      BY <2>5, ActionAt, OnMessageAt DEF MessageLabels
    <3>2. /\ UNCHANGED <<net, game, told>> /\ CurrentTurns[Top.c] = 0
          /\ Pushes("end_turn", Top.i, Top.dirty, "client", Top.c,
                    Msg("GameEndPlayerTurn", NULL), 0)
      BY <1>2, <1>5, <3>1, ActionIs DEF Leaves
    <3>3. /\ depth' = 1 + 1 /\ frame'[1].pc = "end_turn" /\ frame'[1].c = Top.c
          /\ frame'[1 + 1].pc = "client"
      BY <1>5, <3>2 DEF Pushes, Alters, Fresh
    <3>4. ~Runs(Choosing)'
      <4>1. \A j \in 0 .. depth' : j = 0 \/ j = 1 \/ j = 1 + 1
        BY <3>3
      <4> QED BY <2>2, <3>3, <4>1 DEF Runs, Choosing
    <3>5. ~Forgetting(c)
      <4>1. \A j \in 0 .. depth : j = 0 \/ j = 1
        BY <1>5
      <4> QED BY <2>1, <2>2, <2>5, <4>1 DEF Forgetting
    <3>6. c \in PlayersList /\ Acting(c) /\ Top.c = c
      BY <1>2, <1>5, <2>1, <2>5, <3>2, <3>3 DEF Acting, game
    <3>7. c = CurrentPlayerID
      BY <3>5, <3>6 DEF TurnOK, ActingOK
    <3> QED BY <3>2, <3>3, <3>4, <3>6, <3>7 DEF game
  <2> QED BY <1>2, <2>3, <2>4, <2>5 DEF From
<1>6. CASE depth >= 2
  <2>1. frame'[1] = frame[1] /\ Acting(c)
    <3>1. frame'[1] = frame[1]
      BY <1>6, LevelsStay
    <3>2. depth >= 1
      BY <1>1, <1>6
    <3> QED BY <1>2, <3>1, <3>2 DEF Acting
  <2>2. ~(Register \/ Approve)
    <3>1. Top.pc \notin MessageLabels
      BY <1>1, <1>6, TopIs
    <3> QED BY <3>1 DEF Register, Approve, At, MessageLabels
  <2>3. c \in PlayersList
    BY <2>2, PlayersAre
  <2>4. CASE Forgetting(c)
    <3>1. PICK j \in 0 .. depth : frame[j].pc = "forget" /\ frame[j].c = c
      BY <2>4 DEF Forgetting
    <3>2. CASE j \in 0 .. depth - 1
      <4>1. j \in 0 .. depth' /\ frame'[j] = frame[j]
        BY <3>2, OriginOf
      <4> QED BY <3>1, <4>1 DEF Forgetting
    <3>3. CASE j = depth
      <4>1. PlayersList' = PlayersList \ {c}
        BY <1>1, <3>1, <3>3, ActionAt, DisconnectIs DEF Removes
      <4> QED BY <4>1
    <3> QED BY <1>1, <3>2, <3>3
  <2>5. CASE ~Forgetting(c)
    <3>1. /\ c = CurrentPlayerID /\ ~Runs(Choosing)
          /\ frame[1].pc = "end_turn" => CurrentTurns[c] = 0
      BY <2>1, <2>3, <2>5 DEF TurnOK, ActingOK
    <3>2. Top.pc \notin Choosing
      BY <1>1, <3>1, TopIs DEF Runs
    <3>3. UNCHANGED <<CurrentPlayerID, CurrentTurns>>
      BY <2>2, <3>2, ChooseIs, OthersStay DEF ChooseSet, At, Choosing
    <3>4. Runs(Choosing)' => Forgetting(c)'
      <4>1. SUFFICES ASSUME NEW j \in 0 .. depth', frame'[j].pc \in Choosing
                     PROVE  Forgetting(c)'
        BY DEF Runs
      <4>2. CASE j \in 0 .. depth - 1 /\ frame'[j] = frame[j]
        <5>1. j \in 0 .. depth
          BY <1>1, <4>2
        <5> QED BY <3>1, <4>1, <4>2, <5>1 DEF Runs
      <4>3. CASE j = depth /\ From(frame'[j].pc)
        BY <3>2, <4>1, <4>3 DEF From, Choosing
      <4>4. CASE j = depth + 1 /\ Into(frame'[j].pc)
        <5>1. frame'[j].pc = "choose"
          BY <4>1, <4>4 DEF Into, Called, Choosing
        <5>2. Top.c = c /\ frame'[depth].pc = "forget" /\ frame'[depth].c = Top.c
          BY <1>6, <3>1, <4>4, <5>1, ChooseStarts
        <5>3. depth \in 0 .. depth'
          BY <1>1, <4>4
        <5> QED BY <5>2, <5>3 DEF Forgetting
      <4> QED BY <4>2, <4>3, <4>4, OriginOf
    <3>5. ASSUME frame'[1].pc = "end_turn", depth' = 1, IsConnected(c)
          PROVE  c \notin myTurn'
      <4>1. depth = 2 /\ depth - 1 = 1 /\ 1 \in 0 .. depth - 1
        BY <1>1, <1>6, <3>5, OriginOf
      <4>2. Calls(frame[1], frame[1 + 1]) /\ 1 + 1 = depth
        BY <4>1, CallersOK DEF Reachable
      <4>3. Top.pc \in ToOne /\ Top.c = c /\ Top.m.t = "GameEndPlayerTurn"
        BY <1>1, <1>2, <2>1, <3>5, <4>2
           DEF Calls, RunCallsFor, MessageCallsFor, CallsFor
      <4>4. CASE Top.pc = "client"
        <5>1. Deliver({Top.c}, Top.m)
          BY <3>5, <4>3, <4>4, ActionAt, SendingIs
        <5> QED BY <4>3, <5>1 DEF Deliver
      <4>5. CASE Top.pc = "client_erase"
        <5>1. sock[c] = "closed"
          BY <1>1, <4>3, <4>5, TopIs DEF Reachable, AddressesOK, AddressOK, Lost, Victim
        <5> QED BY <3>5, <5>1 DEF IsConnected
      <4> QED BY <4>3, <4>4, <4>5 DEF ToOne
    <3> QED BY <2>1, <3>1, <3>3, <3>4, <3>5
  <2> QED BY <2>4, <2>5
<1> QED BY <1>1, <1>4, <1>5, <1>6

\* Only the holder of the turn is told of it.
LEMMA ToldOnlyHolder ==
    ASSUME IInv, Reachable, TurnOK, GameThread, fault' = "none", NEW c \in myTurn'
    PROVE  sock'[c] # "none" /\ (IsConnected(c)' => c = CurrentPlayerID')
<1>1. depth \in Nat /\ Top = frame[depth] /\ depth \in 0 .. depth /\ sock' = sock
  BY TopIs, OthersStay
<1>2. CASE c \in myTurn
  <2>1. sock[c] # "none" /\ (IsConnected(c) => c = CurrentPlayerID) /\ c \in Clients
    BY <1>2 DEF TurnOK, ToldOK, IInv, ToldTypeOK
  <2>2. ASSUME IsConnected(c), CurrentPlayerID' # CurrentPlayerID PROVE FALSE
    <3>1. /\ Top.pc \in {"choose", "choose_first"}
          /\ Top.pc = "choose" => Top.c = NULL \/ Top.c \in PlayersList
      BY <2>2, ChooseIs
    <3>2. Taken(Top.c) /\ (Top.pc = "choose_first" => Top.c \in PlayersList)
      BY <1>1, <3>1 DEF TurnOK, TakenOK
    <3>3. Top.c \notin PlayersList
      BY <1>2, <2>1, <2>2, <3>2 DEF Taken
    <3>4. Top.pc = "choose" /\ Top.c = NULL
      BY <3>1, <3>2, <3>3
    <3>5. CurrentPlayerID = NULL
      BY <1>1, <3>4 DEF TurnOK, HolderOK
    <3> QED BY <2>1, <2>2, <3>5, TopIs
  <2> QED BY <1>1, <2>1, <2>2 DEF IsConnected
<1>3. CASE c \notin myTurn
  <2>1. /\ MessageClient /\ Top.pc = "client" /\ IsConnected(c) /\ c = Top.c
        /\ Top.m.t = "GamePlayerTurn"
    BY <1>3, MyTurnIs DEF Reachable
  <2>2. c = CurrentPlayerID
    BY <1>1, <2>1 DEF TurnOK, HolderOK, Giving
  <2>3. CurrentPlayerID' = CurrentPlayerID
    BY <2>1, ChooseIs
  <2> QED BY <1>1, <2>1, <2>2, <2>3 DEF IsConnected
<1> QED BY <1>2, <1>3

LEMMA ToldStep ==
    ASSUME IInv, Reachable, TurnOK, GameThread, fault' = "none"
    PROVE  ToldOK'
<1>1. /\ depth \in Nat /\ Top = frame[depth] /\ depth' \in Nat /\ depth' \in 0 .. depth'
      /\ UNCHANGED <<order, sock>>
  BY TopIs, OriginOf, OthersStay
<1>2. ASSUME CurrentPlayerID' # NULL, IsConnected(CurrentPlayerID)',
             CurrentPlayerID' \notin myTurn'
      PROVE  \/ Starting'
             \/ depth' = 1 /\ frame'[1].pc = "end_turn" /\ frame'[1].c = CurrentPlayerID'
  <2>1. CASE Top.pc \in {"choose", "choose_first"}
    <3>1. CASE Moves("choose_send", Top.i, Top.dirty)
      BY <3>1 DEF Moves, Alters, Starting
    <3>2. CASE PlayersList = {} /\ UNCHANGED CurrentPlayerID
      BY <1>2, <3>2 DEF TurnOK, HolderOK
    <3>3. CASE \E k : Pushes("choose_first", Top.i, Top.dirty, "ai", NULL, NoMsg, k)
      <4>1. depth \in 0 .. depth' /\ frame'[depth].pc = "choose_first"
        BY <1>1, <3>3 DEF Pushes, Alters
      <4> QED BY <4>1 DEF Starting, Runs
    <3> QED BY <2>1, <3>1, <3>2, <3>3, ChooseIs
  <2>2. CASE Top.pc \notin {"choose", "choose_first"}
    <3> DEFINE c == CurrentPlayerID
    <3>1. c' = c /\ c # NULL /\ IsConnected(c) /\ c \notin myTurn'
      BY <1>1, <1>2, <2>2, ChooseIs DEF IsConnected
    <3>2. c \in Clients /\ m_deqConnection[c] = "held"
      BY <3>1, HolderHeld DEF TurnOK
    <3>3. CASE c \in myTurn
      <4>1. Top.pc = "client" /\ Top.m.t = "GameEndPlayerTurn" /\ Top.c = c /\ Leaves
        BY <3>1, <3>3, MyTurnIs DEF Reachable
      <4>2. depth # 0 /\ depth - 1 \in 0 .. depth - 1 /\ (depth - 1) + 1 = depth
        BY <1>1, <4>1, TopIs DEF RunLabels
      <4>3. Calls(frame[depth - 1], Top)
        BY <1>1, <4>2, CallersOK DEF Reachable
      <4>4. frame[depth - 1].pc = "end_turn" /\ frame[depth - 1].c = c
        BY <4>1, <4>3
           DEF Calls, RunCallsFor, MessageCallsFor, CallsFor, ToAll, ToOne, Losing, Choosing,
               MessageLabels, Msg
      <4>5. depth - 1 = 1
        <5>1. depth - 1 \in 0 .. depth
          BY <1>1, <4>2
        <5> QED BY <4>4, <5>1, FramesOK DEF MessageLabels
      <4>6. depth' = depth - 1 /\ frame'[depth - 1] = frame[depth - 1]
        BY <4>1, <4>2 DEF Leaves, Below
      <4> QED BY <3>1, <4>4, <4>5, <4>6
    <3>4. CASE c \notin myTurn
      <4>1. CASE Top.pc = "choose_send"
        <5>1. ChooseSend
          BY <4>1, ActionAt, TurnsAt DEF Choosing
        <5>2. Pushes("choose_set", Top.i, Top.dirty, "client", CurrentPlayerID,
                     Msg("GamePlayerTurn", NULL), 0)
          BY <3>2, <5>1, TurnsAre DEF Connections
        <5>3. frame'[depth'].pc = "client" /\ frame'[depth'].m.t = "GamePlayerTurn"
          BY <5>2 DEF Pushes, Fresh, Msg
        <5> QED BY <5>3 DEF Starting, Giving
      <4>2. CASE Giving
        <5>1. Top.pc = "client" /\ Top.m.t = "GamePlayerTurn" /\ Top.c = c
          BY <1>1, <4>2 DEF Giving, TurnOK, HolderOK
        <5>2. Deliver({Top.c}, Top.m)
          BY <3>1, <5>1, ActionAt, SendingIs
        <5> QED BY <3>1, <5>1, <5>2 DEF Deliver
      <4>3. CASE Runs({"choose_first"})
        <5>1. PICK k \in 0 .. depth : frame[k].pc = "choose_first"
          BY <4>3 DEF Runs
        <5>2. k \in 0 .. depth - 1
          BY <1>1, <2>2, <5>1
        <5>3. k \in 0 .. depth' /\ frame'[k] = frame[k]
          BY <5>2, OriginOf
        <5> QED BY <5>1, <5>3 DEF Starting, Runs
      <4>4. CASE depth = 1 /\ frame[1].pc = "end_turn"
        <5>1. Pushes("next_turn", Top.i, Top.dirty, "choose", Top.c, NoMsg, 0)
          BY <1>1, <4>4, ActionAt, OnMessageAt, ActionIs DEF MessageLabels
        <5>2. frame'[depth'].pc = "choose"
          BY <5>1 DEF Pushes, Fresh
        <5> QED BY <5>2 DEF Starting
      <4> QED BY <1>1, <2>2, <3>1, <3>4, <4>1, <4>2, <4>3, <4>4 DEF TurnOK, ToldOK, Starting
    <3> QED BY <3>3, <3>4
  <2> QED BY <2>1, <2>2
<1> QED BY <1>2, ToldOnlyHolder DEF ToldOK

LEMMA TurnGame ==
    ASSUME IInv, Reachable, OnceOK, TurnOK, ~Doomed, GameThread, fault' = "none"
    PROVE  TurnOK'
BY HolderStep, WelcomeStep, SpentStep, ActingStep, ToldStep, PassedStep, TakenStep, AIPartStep
   DEF TurnOK

-----------------------------------------------------------------------------
(* The steps of the asio thread: a connection may close, which excuses     *)
(* whoever had it.                                                         *)

\* A player's connection was once open, and does not open again.
LEMMA PlayerSockets ==
    ASSUME IInv, Reachable, NEW c \in PlayersList
    PROVE  c \in Clients /\ sock[c] # "none"
<1>1. c \in Clients
  BY DEF IInv, GameTypeOK
<1>2. m_deqConnection[c] = "held" \/ sock[c] = "closed"
  BY DEF Reachable, ReachOK, Unwelcome
<1> QED BY <1>1, <1>2 DEF Reachable, NetOK

LEMMA TurnAsio ==
    ASSUME IInv, Reachable, TurnOK, AsioThread, fault' = "none"
    PROVE  TurnOK'
<1>1. /\ UNCHANGED <<order, game, told>> /\ frame' = frame /\ depth' = depth
      /\ PlayersList' = PlayersList /\ CurrentTurns' = CurrentTurns
      /\ CurrentPlayerID' = CurrentPlayerID /\ enemies' = enemies /\ myTurn' = myTurn
  BY AsioIs DEF game, told
<1>2. ASSUME NEW c \in Clients
      PROVE  /\ sock[c] # "none" => sock'[c] # "none"
             /\ sock[c] = "closed" => sock'[c] = "closed"
             /\ sock[c] # "none" /\ IsConnected(c)' => IsConnected(c)
  BY SocketsStay DEF Next, Reachable
<1>3. \A c \in PlayersList : IsConnected(c)' => IsConnected(c)
  BY <1>2, PlayerSockets
<1>4. HolderOK' /\ WelcomeOK' /\ SpentOK'
  BY <1>1 DEF TurnOK, HolderOK, WelcomeOK, SpentOK, Introducing, Giving, Runs, Acting
<1>5. ActingOK'
  BY <1>1, <1>3 DEF TurnOK, ActingOK, Acting, Forgetting, Runs
<1>6. ToldOK'
  <2>1. ASSUME NEW c \in myTurn PROVE sock'[c] # "none" /\ (IsConnected(c)' => c = CurrentPlayerID)
    <3>1. c \in Clients
      BY DEF IInv, ToldTypeOK
    <3> QED BY <1>2, <3>1 DEF TurnOK, ToldOK
  <2>2. CurrentPlayerID # NULL /\ IsConnected(CurrentPlayerID)' => IsConnected(CurrentPlayerID)
    <3>1. CurrentPlayerID # NULL => CurrentPlayerID \in PlayersList
      BY DEF TurnOK, HolderOK
    <3>2. \A c \in PlayersList : sock'[c] \in {"open", "valid"} => sock[c] \in {"open", "valid"}
      BY <1>3 DEF IsConnected
    <3> QED BY <1>1, <3>1, <3>2 DEF IsConnected
  <2>3. Starting' <=> Starting
    BY <1>1 DEF Starting, Giving, Runs
  <2>4. IsConnected(CurrentPlayerID)' <=> sock'[CurrentPlayerID] \in {"open", "valid"}
    BY <1>1 DEF IsConnected
  <2> QED BY <1>1, <2>1, <2>2, <2>3, <2>4 DEF TurnOK, ToldOK, IsConnected
<1>7. PassedOK'
  BY <1>1 DEF TurnOK, PassedOK, Forgetting, Starting, Giving, Runs
<1>8. TakenOK'
  <2>1. ASSUME NEW c, Taken(c) PROVE Taken(c)'
    <3>1. c \in PlayersList => c \in Clients
      BY DEF IInv, GameTypeOK
    <3> QED BY <1>1, <1>2, <1>3, <2>1, <3>1 DEF Taken
  <2>2. \A j \in 0 .. depth : Taken(frame[j].c) => Taken(frame[j].c)'
    <3> SUFFICES ASSUME NEW j \in 0 .. depth, Taken(frame[j].c) PROVE Taken(frame[j].c)'
      OBVIOUS
    <3>1. \A c : Taken(c) => Taken(c)'
      BY <2>1
    <3> QED BY <1>1, <3>1 DEF Taken, IsConnected
  <2> QED BY <1>1, <2>2 DEF TurnOK, TakenOK, After
<1>9. AIPartOK'
  BY <1>1 DEF TurnOK, AIPartOK
<1> QED BY <1>4, <1>5, <1>6, <1>7, <1>8, <1>9 DEF TurnOK

LEMMA TurnStep ==
    ASSUME IInv, Reachable, OnceOK, TurnOK, ~Doomed, [Next]_vars, fault' = "none"
    PROVE  TurnOK'
<1>1. CASE UNCHANGED vars
  <2>1. /\ frame' = frame /\ depth' = depth /\ UNCHANGED <<order, sock, PlayersList,
           CurrentTurns, CurrentPlayerID, enemies, myTurn>>
    BY <1>1 DEF vars, net, game, told, frame, depth
  <2>2. HolderOK' /\ WelcomeOK' /\ SpentOK' /\ ActingOK'
    BY <2>1 DEF TurnOK, HolderOK, WelcomeOK, SpentOK, ActingOK, Introducing, Giving, Runs,
                Acting, Forgetting, IsConnected
  <2>3. ToldOK' /\ PassedOK' /\ TakenOK' /\ AIPartOK'
    BY <2>1 DEF TurnOK, ToldOK, PassedOK, TakenOK, AIPartOK, Taken, Starting, Giving, Runs,
                Forgetting, IsConnected, After
  <2> QED BY <2>2, <2>3 DEF TurnOK
<1> QED BY <1>1, TurnAsio, TurnGame, Alive

-----------------------------------------------------------------------------
(* The invariant.                                                          *)
TurnInv ==
    /\ RosterInv
    /\ fault = "none" => OnceOK
    /\ fault = "none" /\ ~Doomed => TurnOK

LEMMA TurnInvStarts ==
    ASSUME Init
    PROVE  TurnInv
<1>1. RosterInv
  BY RosterInvStarts
<1>2. depth = 0 /\ frame[0].pc = "run"
  BY FirstFrame DEF RunRecord, Record
<1>3. /\ PlayersList = {} /\ CurrentPlayerID = NULL /\ myTurn = {} /\ m_qMessagesIn = <<>>
      /\ registering = {}
  BY DEF Init
<1>4. OnceOK
  BY <1>2, <1>3 DEF OnceOK, InHand, Queued
<1>5. \A j \in 0 .. depth : j = 0
  BY <1>2
<1>6. HolderOK /\ WelcomeOK /\ SpentOK /\ ActingOK
  BY <1>2, <1>3, <1>5 DEF HolderOK, WelcomeOK, SpentOK, ActingOK, Giving
<1>7. ToldOK /\ PassedOK /\ TakenOK /\ AIPartOK
  BY <1>2, <1>3, <1>5 DEF ToldOK, PassedOK, TakenOK, AIPartOK, Forgetting
<1> QED BY <1>1, <1>4, <1>6, <1>7 DEF TurnInv, TurnOK

LEMMA TurnInvNext ==
    ASSUME TurnInv, [Next]_vars
    PROVE  TurnInv'
<1>1. RosterInv'
  BY RosterInvNext DEF TurnInv
<1>2. ASSUME fault' = "none" PROVE OnceOK' /\ (~Doomed' => TurnOK')
  <2>1. IInv /\ Reachable /\ CallsOK /\ OnceOK /\ (~Doomed => TurnOK)
    BY <1>2, Alive DEF TurnInv, RosterInv, RInv, Reachable
  <2>2. Doomed => Doomed'
    BY <1>2, <2>1, DoomStays
  <2> QED BY <1>2, <2>1, <2>2, OnceStep, TurnStep
<1> QED BY <1>1, <1>2 DEF TurnInv

LEMMA TurnInvHolds == Spec => []TurnInv
<1>1. Init => TurnInv
  BY TurnInvStarts
<1>2. TurnInv /\ [Next]_vars => TurnInv'
  BY TurnInvNext
<1> QED BY <1>1, <1>2, PTL DEF Spec

\* Nothing is doomed while Run or Update runs, and what is not is as TurnOK says.
LEMMA QuietTurn ==
    ASSUME TurnInv, fault = "none", Len(stack) = 1
    PROVE  /\ IInv /\ Reachable /\ TurnOK /\ depth = 0 /\ frame[0].pc \in RunLabels
           /\ ~Introducing /\ ~Starting /\ ~Runs(Choosing)
<1>1. IInv /\ Reachable /\ depth = 0
  BY DEF TurnInv, RosterInv, RInv, depth
<1>2. frame[0].pc \in RunLabels /\ \A j \in 0 .. depth : j = 0
  BY <1>1, FramesOK
<1>3. ~Doomed
  BY <1>1, <1>2 DEF Doomed, DoomedTop, RunLabels
<1>4. ~Introducing /\ ~Starting /\ ~Runs(Choosing)
  BY <1>1, <1>2 DEF Introducing, Starting, Giving, Runs, Choosing, RunLabels
<1> QED BY <1>1, <1>2, <1>3, <1>4 DEF TurnInv

\* Between two messages there is a turn exactly when there is a player, and its
\* holder can still act, for any number of clients that register and leave at
\* any point: the turn that OnClientDisconnect, the registration or the end of a
\* turn passes on (GameServer.cpp:51-112) is never left with nobody.
THEOREM TurnIsHeld == Spec => []TurnHasHolder
<1>1. TurnInv => TurnHasHolder
  <2>1. SUFFICES ASSUME TurnInv, fault = "none", Len(stack) = 1
                 PROVE  /\ (CurrentPlayerID = NULL) <=> (PlayersList = {})
                        /\ CurrentPlayerID # NULL =>
                             /\ CurrentPlayerID \in PlayersList
                             /\ CurrentTurns[CurrentPlayerID] > 0
    BY DEF TurnHasHolder, Quiet
  <2>2. /\ IInv /\ TurnOK /\ depth = 0 /\ ~Introducing /\ ~Runs(Choosing)
    BY <2>1, QuietTurn
  <2>3. CurrentPlayerID # NULL => CurrentPlayerID \in PlayersList
    BY <2>2 DEF TurnOK, HolderOK
  <2>4. CurrentPlayerID = NULL => PlayersList = {}
    BY <2>2 DEF TurnOK, HolderOK
  <2>5. CurrentPlayerID # NULL => CurrentTurns[CurrentPlayerID] # 0
    BY <2>2 DEF TurnOK, SpentOK, Acting
  <2>6. CurrentPlayerID # NULL => CurrentTurns[CurrentPlayerID] \in 0 .. MaxTurns
    BY <2>2, <2>3, TopIs
  <2>7. CurrentPlayerID # NULL => CurrentTurns[CurrentPlayerID] > 0
    BY <2>5, <2>6, TurnsAssumption
  <2> QED BY <2>3, <2>4, <2>7
<1> QED BY <1>1, TurnInvHolds, PTL

\* Whoever ChooseNextPlayerForTurn chooses has a connection to be told by:
\* "Can't start new turn. something wrong!" (GameServer.cpp:107) is never
\* reached, however deep the call that found the last holder dead.
THEOREM TurnStarts == Spec => []TurnCanStart
<1>1. TurnInv => TurnCanStart
  <2>1. SUFFICES ASSUME TurnInv, fault = "none", Top.pc = "choose_send"
                 PROVE  CurrentPlayerID \in Connections
    BY DEF TurnCanStart, At
  <2>2. IInv /\ Reachable
    BY <2>1 DEF TurnInv, RosterInv, RInv
  <2>3. depth \in Nat /\ frame[depth].pc = "choose_send" /\ depth \in 0 .. depth
    BY <2>1, <2>2, TopIs
  <2>4. ~Doomed
    BY <2>3 DEF Doomed, DoomedTop
  <2>5. HolderOK /\ WelcomeOK
    BY <2>1, <2>4 DEF TurnInv, TurnOK
  <2>6. CurrentPlayerID # NULL
    BY <2>3, <2>5 DEF HolderOK
  <2> QED BY <2>2, <2>5, <2>6, HolderHeld DEF Connections
<1> QED BY <1>1, TurnInvHolds, PTL

\* Between two messages, of the connected clients the holder of the turn and no
\* other was told "Your TURN!", whoever left while it was being told, acting or
\* waiting for the AI's turn (GameServer.cpp:94-112, :467-514).
THEOREM OneTold == Spec => []OneTurnHolder
<1>1. TurnInv => OneTurnHolder
  <2>1. SUFFICES ASSUME TurnInv, fault = "none", Len(stack) = 1,
                        NEW c \in Clients, IsConnected(c)
                 PROVE  c \in myTurn <=> c = CurrentPlayerID
    BY DEF OneTurnHolder, Quiet
  <2>2. IInv /\ TurnOK /\ depth = 0 /\ ~Starting
    BY <2>1, QuietTurn
  <2>3. c \in myTurn => c = CurrentPlayerID
    BY <2>1, <2>2 DEF TurnOK, ToldOK
  <2>4. c = CurrentPlayerID => c \in myTurn
    BY <2>1, <2>2, TopIs DEF TurnOK, ToldOK
  <2> QED BY <2>3, <2>4
<1> QED BY <1>1, TurnInvHolds, PTL

\* The turn moves in a step that does not fail.
LEMMA TurnMoves ==
    ASSUME [Next]_vars, CurrentPlayerID' # CurrentPlayerID
    PROVE  fault' = "none" /\ GameThread
<1>1. CASE GameThread
  <2>1. ChooseNextPlayerForTurn \/ ChooseFirst
    BY <1>1, OthersStay
  <2> QED BY <1>1, <2>1 DEF ChooseNextPlayerForTurn, ChooseFirst, At, Continue
<1>2. CASE AsioThread
  BY <1>2 DEF AsioThread, Accept, Validate, Close, Receive, game
<1>3. CASE Stopped \/ UNCHANGED vars
  BY <1>3 DEF Stopped, vars, game
<1> QED BY <1>1, <1>2, <1>3 DEF Next

\* ChooseNextPlayerForTurn takes the turn from a player only once its actions are
\* spent or its connection is closed, for any number of clients and however its
\* callers nest (GameServer.cpp:51-93, :368-373, :505).
THEOREM TurnKept == Spec => TurnIsKept
<1>1. ASSUME TurnInv, [Next]_vars, CurrentPlayerID' # CurrentPlayerID, CurrentPlayerID # NULL
      PROVE  CurrentTurns[CurrentPlayerID] = 0 \/ ~IsConnected(CurrentPlayerID)
  <2>1. fault' = "none" /\ GameThread
    BY <1>1, TurnMoves
  <2>2. fault = "none" /\ IInv /\ Reachable
    BY <1>1, <2>1, Alive DEF TurnInv, RosterInv, RInv
  <2>3. ~Doomed /\ TurnOK
    BY <1>1, <2>1, <2>2, DoomStays DEF TurnInv
  <2>4. /\ Top.pc \in {"choose", "choose_first"}
        /\ Top.pc = "choose" => Top.c = NULL \/ Top.c \in PlayersList
    BY <1>1, <2>1, <2>2, ChooseIs
  <2>5. Taken(Top.c) /\ (Top.pc = "choose_first" => Top.c \in PlayersList)
    BY <2>2, <2>3, <2>4, TopIs DEF TurnOK, TakenOK
  <2>6. ~(Top.pc = "choose" /\ Top.c = NULL)
    BY <1>1, <2>2, <2>3, TopIs DEF TurnOK, HolderOK
  <2> QED BY <2>4, <2>5, <2>6 DEF Taken, IsConnected
<1>2. TurnInv /\ [Next]_vars =>
        [CurrentPlayerID' # CurrentPlayerID /\ CurrentPlayerID # NULL
           => CurrentTurns[CurrentPlayerID] = 0 \/ ~IsConnected(CurrentPlayerID)]_vars
  BY <1>1
<1> QED BY <1>2, TurnInvHolds, PTL DEF Spec, TurnIsKept

\* There is no way back: once a broadcast of the AI's turn finds dead the last
\* player of the round, whose own removal began that turn, the removal, the
\* search, the AI's turn and the broadcast call one another until the stack is
\* full; the holder never changes again (GameServer.cpp:51-93, :361-380).
THEOREM NoWayBack ==
    Spec => [][Doomed /\ fault' = "none" => Doomed' /\ UNCHANGED CurrentPlayerID]_vars
<1>1. ASSUME TurnInv, [Next]_vars, Doomed, fault' = "none"
      PROVE  Doomed' /\ UNCHANGED CurrentPlayerID
  <2>1. IInv /\ Reachable
    BY <1>1, Alive DEF TurnInv, RosterInv, RInv
  <2> QED BY <1>1, <2>1, DoomStays
<1>2. TurnInv /\ [Next]_vars =>
        [Doomed /\ fault' = "none" => Doomed' /\ UNCHANGED CurrentPlayerID]_vars
  BY <1>1
<1> QED BY <1>2, TurnInvHolds, PTL DEF Spec
=============================================================================
