---------------------------- MODULE Connection ----------------------------
(***************************************************************************)
(* spnet::connection (spiderNet.h:114-516): the two ends of one TCP        *)
(* connection, from the accept and the handshake to the last message.      *)
(*                                                                         *)
(* Each end has one thread that runs its io_context: a step of it is one   *)
(* handler.  A second thread, the game loop of the server or the key loop  *)
(* of the client, calls Send.  The bytes are words: sizeof(message_header) *)
(* is that of a handshake, eight, and a body is one word whatever its      *)
(* length.  TCP itself is external: it keeps the order, and loses words    *)
(* only when an end has closed.                                            *)
(***************************************************************************)
EXTENDS Integers, Sequences

CONSTANTS Ids,       \* message ids
          Bodied,    \* those sent with a body
          Payloads,  \* contents of a body
          NoBody,    \* an empty body vector
          ServerAccept, ClientAccepted,  \* ids the server itself sends
          Chatter,   \* may the client send before it reads ClientAccepted?
          MayLeave,  \* may the client's process end?
          MaxFromServer, MaxFromClient   \* bound: messages an end sends

ASSUME IdAssumption ==
    /\ Bodied \subseteq Ids /\ {ServerAccept, ClientAccepted} \subseteq Ids \ Bodied
    /\ ServerAccept # ClientAccepted
    /\ NoBody \notin Payloads
ASSUME BoundAssumption ==
    /\ MaxFromServer \in Nat /\ MaxFromClient \in Nat
    /\ MayLeave \in BOOLEAN /\ Chatter \in BOOLEAN

Ends == {"server", "client"}
Peer(e) == IF e = "server" THEN "client" ELSE "server"

MaxSent(e) == IF e = "server" THEN MaxFromServer ELSE MaxFromClient

Message(id) == [id |-> id, body |-> NoBody]
Messages == [id : Bodied, body : Payloads] \cup [id : Ids \ Bodied, body : {NoBody}]

VARIABLES
    sock,              \* m_socket
    posted,            \* lambdas of Send the io_context has still to run
    m_qMessagesOut,
    writes,            \* pending async_write operations, and whether they fail
    wire,              \* words an end has written and its peer has not read
    reading,           \* what the pending async_read is for
    m_msgTemporaryIn,
    handshake,         \* server: "pending", "good" or "bad"
    listed,            \* is the server's connection in m_deqConnection?
    inbox,             \* owned_messages the server has still to handle
    sent, received     \* the calls of Send, the pushes to m_qMessagesIn

vars == <<sock, posted, m_qMessagesOut, writes, wire, reading, m_msgTemporaryIn,
          handshake, listed, inbox, sent, received>>

\* A client's socket is open as soon as ConnectToServer was called.
IsConnected(e) == sock[e] \in {"connecting", "open"}

\* shared_ptrs to the server's connection: its entry, and one per message.
Freed == sock["server"] \notin {"none", "backlog"} /\ ~listed /\ inbox = 0
Pending(e) == posted[e] # <<>> \/ writes[e] # <<>> \/ reading[e] # "none"

Challenge == [k |-> "challenge"]
scramble(w) == [k |-> "scrambled", of |-> w]
Header(m) == [k |-> "header", id |-> m.id]
Body(m) == [k |-> "body", body |-> m.body]

Init ==
    /\ sock = [server |-> "none", client |-> "connecting"]
    /\ posted = [e \in Ends |-> <<>>] /\ m_qMessagesOut = [e \in Ends |-> <<>>]
    /\ writes = [e \in Ends |-> <<>>] /\ wire = [e \in Ends |-> <<>>]
    /\ reading = [server |-> "none", client |-> "connect"]
    /\ m_msgTemporaryIn = [e \in Ends |-> Message(ServerAccept)]  \* T id{}: the first
    /\ handshake = "pending" /\ listed = FALSE /\ inbox = 0
    /\ sent = [e \in Ends |-> <<>>] /\ received = [e \in Ends |-> <<>>]

Close(e) == sock' = [sock EXCEPT ![e] = "closed"]
Await(e, what) == reading' = [reading EXCEPT ![e] = what]

\* Send posts; whether the socket is open is its callers' question.
Post(e, m) ==
    /\ posted' = [posted EXCEPT ![e] = Append(@, m)]
    /\ sent' = [sent EXCEPT ![e] = Append(@, m)]

\* async_write after `done` was taken off: on a socket that is not connected
\* it fails, and it may when the peer is gone.
Write(e, done, op, word) ==
    \E fails \in (IF sock[e] # "open" THEN {TRUE}
                  ELSE IF sock[Peer(e)] = "closed" THEN BOOLEAN ELSE {FALSE}) :
      /\ writes' = [writes EXCEPT ![e] = Append(done, [op |-> op, fails |-> fails])]
      /\ wire' = IF fails THEN wire ELSE [wire EXCEPT ![e] = Append(@, word)]

-----------------------------------------------------------------------------
(* Connecting.                                                             *)

\* The kernel connects the sockets; the handlers run later.
Establish ==
    /\ sock["client"] = "connecting"
    /\ sock' = [server |-> "backlog", client |-> "open"]
    /\ UNCHANGED <<posted, m_qMessagesOut, writes, wire, reading, m_msgTemporaryIn,
                   handshake, listed, inbox, sent, received>>

\* The accept handler: OnClientConnect sends ServerAccept, then ConnectToClient.
Accept ==
    /\ sock["server"] = "backlog"
    /\ sock' = [sock EXCEPT !["server"] = "open"]
    /\ listed' = TRUE
    /\ Post("server", Message(ServerAccept))
    /\ writes' = [writes EXCEPT !["server"] = <<[op |-> "validation", fails |-> FALSE]>>]
    /\ wire' = [wire EXCEPT !["server"] = <<Challenge>>]
    /\ Await("server", "validation")
    /\ UNCHANGED <<m_qMessagesOut, m_msgTemporaryIn, handshake, inbox, received>>

\* The handler of async_connect; with an error it does nothing.
ConnectDone ==
    /\ reading["client"] = "connect" /\ sock["client"] # "connecting"
    /\ Await("client", IF sock["client"] = "open" THEN "validation" ELSE "none")
    /\ UNCHANGED <<sock, posted, m_qMessagesOut, writes, wire, m_msgTemporaryIn,
                   handshake, listed, inbox, sent, received>>

-----------------------------------------------------------------------------
(* Sending.                                                                *)

\* MessageClient and MessageAllClients on the server, the key loop and its
\* ClientJustCheck (GameClient.cpp:361-365) on the client.
Send(e) ==
    /\ IsConnected(e) /\ Len(sent[e]) < MaxSent(e)
    /\ e = "server" => listed
    /\ e = "client" => Chatter \/ Message(ClientAccepted) \in
                                    {received["client"][j] : j \in 1 .. Len(received["client"])}
    /\ \E m \in Messages :
         m.id \notin {ServerAccept, ClientAccepted} /\ Post(e, m)
    /\ UNCHANGED <<sock, m_qMessagesOut, writes, wire, reading, m_msgTemporaryIn,
                   handshake, listed, inbox, received>>

WriteHeader(e, done, m) == Write(e, done, "header", Header(m))
WriteBody(e, done, m) == Write(e, done, "body", Body(m))

RunPostedAtFront(e) ==
    /\ posted[e] # <<>>
    /\ LET m == Head(posted[e])
           bWritingMessage == m_qMessagesOut[e] # <<>>
       IN /\ m_qMessagesOut' = [m_qMessagesOut EXCEPT ![e] = <<m>> \o @]
          /\ IF bWritingMessage THEN UNCHANGED <<writes, wire>>
                                ELSE WriteHeader(e, writes[e], m)
    /\ posted' = [posted EXCEPT ![e] = Tail(@)]
    /\ UNCHANGED <<sock, reading, m_msgTemporaryIn, handshake, listed, inbox,
                   sent, received>>

RunPostedAlwaysWrites(e) ==
    /\ posted[e] # <<>>
    /\ LET m == Head(posted[e]) IN
         /\ m_qMessagesOut' = [m_qMessagesOut EXCEPT ![e] = Append(@, m)]
         /\ WriteHeader(e, writes[e], Head(m_qMessagesOut'[e]))
    /\ posted' = [posted EXCEPT ![e] = Tail(@)]
    /\ UNCHANGED <<sock, reading, m_msgTemporaryIn, handshake, listed, inbox,
                   sent, received>>

RunPosted(e) ==
    /\ posted[e] # <<>>
    /\ LET m == Head(posted[e])
           bWritingMessage == m_qMessagesOut[e] # <<>>
       IN /\ m_qMessagesOut' = [m_qMessagesOut EXCEPT ![e] = Append(@, m)]
          /\ IF bWritingMessage THEN UNCHANGED <<writes, wire>>
                                ELSE WriteHeader(e, writes[e], m)
    /\ posted' = [posted EXCEPT ![e] = Tail(@)]
    /\ UNCHANGED <<sock, reading, m_msgTemporaryIn, handshake, listed, inbox,
                   sent, received>>

\* The message at the front is written: on to the next one, if any.
PopFrontStops(e, done) ==
    /\ m_qMessagesOut' = [m_qMessagesOut EXCEPT ![e] = Tail(@)]
    /\ writes' = [writes EXCEPT ![e] = done] /\ UNCHANGED wire

PopFront(e, done) ==
    LET rest == Tail(m_qMessagesOut[e]) IN
    /\ m_qMessagesOut' = [m_qMessagesOut EXCEPT ![e] = rest]
    /\ IF rest = <<>> THEN writes' = [writes EXCEPT ![e] = done] /\ UNCHANGED wire
                      ELSE WriteHeader(e, done, Head(rest))

HasBodyAlways(m) == TRUE
HasBodyNever(m) == FALSE
HasBody(m) == m.body # NoBody

\* A client reads on once its answer is sent; the server reads already.
ReadsAfterValidationAll(e) == TRUE
ReadsAfterValidation(e) == e = "client"

\* The handlers of the writes.  An operation still pending when its socket was
\* closed may come back aborted.
WriteDone(e) ==
    /\ writes[e] # <<>>
    /\ LET op == Head(writes[e]).op
           done == Tail(writes[e])
       IN \/ /\ ~Head(writes[e]).fails
             /\ CASE op = "validation" ->
                       /\ writes' = [writes EXCEPT ![e] = done]
                       /\ IF ReadsAfterValidation(e) THEN Await(e, "header")
                          ELSE UNCHANGED reading
                       /\ UNCHANGED <<m_qMessagesOut, wire>>
                  [] op = "header" /\ HasBody(Head(m_qMessagesOut[e])) ->
                       /\ WriteBody(e, done, Head(m_qMessagesOut[e]))
                       /\ UNCHANGED <<m_qMessagesOut, reading>>
                  [] OTHER -> PopFront(e, done) /\ UNCHANGED reading
             /\ UNCHANGED sock
          \/ /\ Head(writes[e]).fails \/ sock[e] = "closed"
             /\ Close(e)
             /\ writes' = [writes EXCEPT ![e] = done]
             /\ UNCHANGED <<m_qMessagesOut, wire, reading>>
    /\ UNCHANGED <<posted, m_msgTemporaryIn, handshake, listed, inbox, sent, received>>

-----------------------------------------------------------------------------
(* Reading.                                                                *)

\* The pending read of e completes with the next word.
Reads(e, what) == reading[e] = what /\ sock[e] = "open" /\ wire[Peer(e)] # <<>>
Word(e) == Head(wire[Peer(e)])
Taken(e) == [wire EXCEPT ![Peer(e)] = Tail(@)]

AcceptsAnswer(w) == w = scramble(Challenge)

\* m_nHandshakeIn == m_nHandshakeCheck?  OnClientValidated sends ClientAccepted.
ReadValidationServer ==
    /\ Reads("server", "validation")
    /\ wire' = Taken("server")
    /\ IF AcceptsAnswer(Word("server"))
       THEN /\ handshake' = "good"
            /\ Post("server", Message(ClientAccepted))
            /\ Await("server", "header") /\ UNCHANGED sock
       ELSE /\ handshake' = "bad"
            /\ Close("server") /\ Await("server", "none")
            /\ UNCHANGED <<posted, sent>>
    /\ UNCHANGED <<m_qMessagesOut, writes, m_msgTemporaryIn, listed, inbox, received>>

ReadValidationClient ==
    /\ Reads("client", "validation")
    /\ \E fails \in (IF sock["server"] = "closed" THEN BOOLEAN ELSE {FALSE}) :
         /\ writes' = [writes EXCEPT !["client"] =
                         Append(@, [op |-> "validation", fails |-> fails])]
         /\ wire' = IF fails THEN Taken("client")
                    ELSE [Taken("client") EXCEPT !["client"] =
                            Append(@, scramble(Word("client")))]
    /\ Await("client", "none")
    /\ UNCHANGED <<sock, posted, m_qMessagesOut, m_msgTemporaryIn, handshake, listed,
                   inbox, sent, received>>

\* AddToIncomingMessageQueue, which reads on.
Push(e, m) ==
    /\ received' = [received EXCEPT ![e] = Append(@, m)]
    /\ inbox' = IF e = "server" THEN inbox + 1 ELSE inbox
    /\ Await(e, "header")

\* m_msgTemporaryIn keeps the body of an earlier message when none follows.
ReadHeader(e) ==
    /\ Reads(e, "header") /\ Word(e).k = "header"
    /\ wire' = Taken(e)
    /\ LET tmp == [m_msgTemporaryIn[e] EXCEPT !.id = Word(e).id] IN
         /\ m_msgTemporaryIn' = [m_msgTemporaryIn EXCEPT ![e] = tmp]
         /\ IF tmp.id \in Bodied
            THEN Await(e, "body") /\ UNCHANGED <<received, inbox>>
            ELSE Push(e, tmp)
    /\ UNCHANGED <<sock, posted, m_qMessagesOut, writes, handshake, listed, sent>>

ReadBody(e) ==
    /\ Reads(e, "body") /\ Word(e).k = "body"
    /\ wire' = Taken(e)
    /\ LET tmp == [m_msgTemporaryIn[e] EXCEPT !.body = Word(e).body] IN
         /\ m_msgTemporaryIn' = [m_msgTemporaryIn EXCEPT ![e] = tmp]
         /\ Push(e, tmp)
    /\ UNCHANGED <<sock, posted, m_qMessagesOut, writes, handshake, listed, sent>>

\* The end of the stream, a reset, or this end's own close.
ReadFail(e) ==
    /\ reading[e] \in {"validation", "header", "body"}
    /\ sock[e] = "closed" \/ sock[Peer(e)] = "closed"
    /\ Close(e)
    /\ Await(e, "none")
    /\ UNCHANGED <<posted, m_qMessagesOut, writes, wire, m_msgTemporaryIn, handshake,
                   listed, inbox, sent, received>>

-----------------------------------------------------------------------------
(* The owners.                                                             *)

\* The client's process ends (after Disconnect or not): its io_context stops
\* with whatever it had to run, and the socket closes.
Leave ==
    /\ MayLeave /\ (sock["client"] # "closed" \/ Pending("client"))
    /\ Close("client")
    /\ posted' = [posted EXCEPT !["client"] = <<>>]
    /\ writes' = [writes EXCEPT !["client"] = <<>>]
    /\ Await("client", "none")
    /\ UNCHANGED <<m_qMessagesOut, wire, m_msgTemporaryIn, handshake, listed, inbox,
                   sent, received>>

\* The game thread is done with a message, and the shared_ptr that came with it.
Handle ==
    /\ inbox > 0
    /\ inbox' = inbox - 1
    /\ UNCHANGED <<sock, posted, m_qMessagesOut, writes, wire, reading, m_msgTemporaryIn,
                   handshake, listed, sent, received>>

\* MessageAllClients finds the socket closed: client.reset() and erase.
Forget ==
    /\ listed /\ ~IsConnected("server")
    /\ listed' = FALSE
    /\ UNCHANGED <<sock, posted, m_qMessagesOut, writes, wire, reading, m_msgTemporaryIn,
                   handshake, inbox, sent, received>>

-----------------------------------------------------------------------------
\* A handler of a connection that was freed is undefined: none is modelled.
Asio(e) ==
    /\ e = "server" => ~Freed
    /\ \/ RunPosted(e) \/ WriteDone(e)
       \/ e = "server" /\ ReadValidationServer
       \/ e = "client" /\ (ConnectDone \/ ReadValidationClient)
       \/ ReadHeader(e) \/ ReadBody(e) \/ ReadFail(e)

GameLoop == Handle \/ Forget

Next ==
    \/ Establish \/ Accept
    \/ \E e \in Ends : Send(e) \/ Asio(e)
    \/ GameLoop
    \/ Leave

Spec == Init /\ [][Next]_vars

\* Both io_contexts run, the kernel connects, and the server loops.
FairSpec == /\ Spec /\ WF_vars(Establish) /\ WF_vars(Accept)
            /\ \A e \in Ends : WF_vars(Asio(e))
            /\ WF_vars(GameLoop)

-----------------------------------------------------------------------------
Words == [k : {"challenge"}] \cup [k : {"header"}, id : Ids]
         \cup [k : {"body"}, body : Payloads]
         \cup [k : {"scrambled"}, of : [k : {"challenge"}]]

\* Every variable has its type: in particular a body is only ever written for
\* a message that has one, and the client scrambles only the challenge.
TypeOK ==
    /\ sock \in [Ends -> {"none", "backlog", "connecting", "open", "closed"}]
    /\ posted \in [Ends -> Seq(Messages)] /\ m_qMessagesOut \in [Ends -> Seq(Messages)]
    /\ writes \in [Ends -> Seq([op : {"validation", "header", "body"}, fails : BOOLEAN])]
    /\ wire \in [Ends -> Seq(Words)]
    /\ reading \in [Ends -> {"none", "connect", "validation", "header", "body"}]
    /\ m_msgTemporaryIn \in [Ends -> [id : Ids, body : Payloads \cup {NoBody}]]
    /\ handshake \in {"pending", "good", "bad"}
    /\ listed \in BOOLEAN /\ inbox \in Nat
    /\ sent \in [Ends -> Seq(Messages)]
    /\ received \in [Ends -> Seq([id : Ids, body : Payloads \cup {NoBody}])]

\* The pending writes of the chain that empties m_qMessagesOut.
Chain(e) == {j \in 1 .. Len(writes[e]) : writes[e][j].op # "validation"}

\* On an open socket whatever waits in m_qMessagesOut is being written, by one
\* async_write at a time: the chain of handlers that empties the queue is
\* neither broken nor doubled (spiderNet.h:220-229).
OneWriter ==
    \A e \in Ends :
      /\ \A i, j \in Chain(e) : i = j
      /\ IsConnected(e) /\ m_qMessagesOut[e] # <<>> => Chain(e) # {}

\* The words of a peer fall on the read that expects them: once validated an
\* end never takes a body for a header, and the client takes the challenge and
\* nothing else for one, although the server's first messages are written while
\* the handshake is.
InStep ==
    \A e \in Ends : \A what \in {"validation", "header", "body"} :
      Reads(e, what) /\ ~(e = "server" /\ what = "validation")
        => Word(e).k = (IF what = "validation" THEN "challenge" ELSE what)

\* Nobody's messages reach OnMessage before its handshake was checked, nor does
\* a client's end believe in a connection the server has not validated: it is
\* told ClientAccepted only if its answer was right.
ValidatedFirst ==
    /\ received["server"] # <<>> => handshake = "good"
    /\ \A j \in 1 .. Len(received["client"]) :
         received["client"][j].id = ClientAccepted => handshake = "good"

\* What was received, with the body a bodyless message should have.
Faithful(m) == IF m.id \in Bodied THEN m ELSE Message(m.id)
Got(e) == [j \in DOMAIN received[e] |-> Faithful(received[e][j])]

\* Each direction is a channel: what is delivered was sent, in order, once.
ToServer == INSTANCE Channel WITH sent <- sent["client"], received <- Got("server")
ToClient == INSTANCE Channel WITH sent <- sent["server"], received <- Got("client")
ServerReceivesWhatWasSent == ToServer!ChannelSpec
ClientReceivesWhatWasSent == ToClient!ChannelSpec

\* What the server sends arrives, unless an end closes.
AllArrives ==
    \A n \in 1 .. MaxFromServer :
      Len(sent["server"]) >= n
        ~> \/ Len(received["client"]) >= n
           \/ \E e \in Ends : sock[e] = "closed"

\* "Client gave incorrect data, so disconnect" (spiderNet.h:428): only a client
\* that gives incorrect data is refused.  The client of this model always
\* answers with the scrambled challenge, after "clients should sit and wait for
\* a response" (spiderNet.h:393).
HonestClientValidated == handshake # "bad"
=============================================================================
