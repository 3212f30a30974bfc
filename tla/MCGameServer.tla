---------------------------- MODULE MCGameServer ----------------------------
(***************************************************************************)
(* GameServer for TLC with four clients: of its behaviours, those where    *)
(* all clients register, the last one accepted first, before the server    *)
(* looks for dead ones and before anybody plays or leaves, and where the   *)
(* iteration order of PlayersList is that of the ids.  Every behaviour     *)
(* here is one of GameServer.                                              *)
(***************************************************************************)
EXTENDS GameServer

Gathered == \A c \in Clients : c \in known[c]

\* The messages a step of the asio thread may add to m_qMessagesIn.
Receives(t, remotes) ==
    Len(m_qMessagesIn') > Len(m_qMessagesIn)
      => LET om == m_qMessagesIn'[Len(m_qMessagesIn')]
         IN  om.msg.t = t /\ om.remote \in remotes

\* While they gather, the last one accepted registers first.
Gathering ==
    /\ nIDCounter' > nIDCounter => PlayersList = {}
    /\ Receives("ClientRegisterOnServer", {c \in Clients : PlayersList = c + 1 .. N})
    /\ \A c \in Clients : sock'[c] # "closed"
    /\ At("run") => Len(stack') = 1

\* Afterwards they only ping or leave.
Leaving == Receives("ClientJustCheck", Clients)

GatheredSpec ==
    /\ Init /\ \A c \in Clients : order[c] = c
    /\ [][Next /\ IF Gathered THEN Leaving ELSE Gathering]_vars
=============================================================================
