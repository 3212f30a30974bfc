-------------------------- MODULE ConnectionProofs --------------------------
(***************************************************************************)
(* Connection, for every set of ids and payloads and every bound: its      *)
(* types, the single chain of writes of each end, and that nothing is      *)
(* handled, and nothing believed, before the handshake was checked.        *)
(***************************************************************************)
EXTENDS Connection, TLAPS

-----------------------------------------------------------------------------
(* The inductive invariant.                                                *)

Ops == [op : {"validation", "header", "body"}, fails : BOOLEAN]
Read == [id : Ids, body : Payloads \cup {NoBody}]

\* Chain, of any sequence of writes.
ChainOf(w) == {j \in 1 .. Len(w) : w[j].op # "validation"}
Single(w) == \A i, j \in ChainOf(w) : i = j

\* Until the accept handler has run nothing of the server's end exists.
Unaccepted ==
    /\ sock["client"] = "connecting" => sock["server"] = "none"
    /\ sock["server"] \in {"none", "backlog"} =>
         /\ posted["server"] = <<>> /\ m_qMessagesOut["server"] = <<>>
         /\ writes["server"] = <<>> /\ wire["server"] = <<>>
         /\ reading["server"] = "none" /\ received["server"] = <<>>
         /\ handshake = "pending"

\* What is written is at the front of m_qMessagesOut.
WriterOK ==
    \A e \in Ends :
      /\ Single(writes[e])
      /\ IsConnected(e) /\ m_qMessagesOut[e] # <<>> => ChainOf(writes[e]) # {}
      /\ ChainOf(writes[e]) # {} => m_qMessagesOut[e] # <<>>

\* The challenge is the first word the client reads.
FirstWord ==
    reading["client"] \in {"connect", "validation"} =>
      \/ sock["server"] \in {"none", "backlog"}
      \/ wire["server"] # <<>> /\ Head(wire["server"]) = Challenge

ReadsValidated ==
    /\ reading["server"] \in {"header", "body"} => handshake = "good"
    /\ reading["server"] = "validation" => handshake = "pending"
    /\ received["server"] # <<>> => handshake = "good"

\* ClientAccepted is nowhere on its way before the handshake was checked.
Untold(S) == {m \in S : m.id # ClientAccepted}
UntoldWords == {w \in Words : w.k = "header" => w.id # ClientAccepted}
NotTold ==
    handshake # "good" =>
      /\ posted["server"] \in Seq(Untold(Messages))
      /\ m_qMessagesOut["server"] \in Seq(Untold(Messages))
      /\ wire["server"] \in Seq(UntoldWords)
      /\ m_msgTemporaryIn["client"].id # ClientAccepted
      /\ received["client"] \in Seq(Untold(Read))

IInv == TypeOK /\ Unaccepted /\ WriterOK /\ FirstWord /\ ReadsValidated /\ NotTold

-----------------------------------------------------------------------------
(* Sequences.                                                              *)

LEMMA AppendSeq ==
  ASSUME NEW S, NEW s \in Seq(S), NEW x \in S
  PROVE  /\ Append(s, x) \in Seq(S) /\ Append(s, x) # <<>>
         /\ s # <<>> => Head(Append(s, x)) = Head(s)
         /\ s = <<>> => Head(Append(s, x)) = x
  OBVIOUS

LEMMA TailSeq ==
  ASSUME NEW S, NEW s \in Seq(S), s # <<>>
  PROVE  Tail(s) \in Seq(S) /\ Head(s) \in S
  OBVIOUS

\* A write that is not of the chain does not count, one that is counts as one.
LEMMA ChainAppend ==
  ASSUME NEW w \in Seq(Ops), NEW x \in Ops
  PROVE  /\ x.op = "validation" => ChainOf(Append(w, x)) = ChainOf(w)
         /\ (x.op # "validation" /\ ChainOf(w) = {})
              => ChainOf(Append(w, x)) = {Len(w) + 1}
<1>1. /\ Append(w, x) \in Seq(Ops)
      /\ Len(Append(w, x)) = Len(w) + 1
      /\ \A j \in 1 .. Len(w) : Append(w, x)[j] = w[j]
      /\ Append(w, x)[Len(w) + 1] = x
      /\ Len(w) \in Nat
  OBVIOUS
<1>2. \A j \in 1 .. Len(w) + 1 : j \in 1 .. Len(w) \/ j = Len(w) + 1
  BY <1>1
<1>3. ChainOf(Append(w, x)) = ChainOf(w) \cup
        (IF x.op # "validation" THEN {Len(w) + 1} ELSE {})
  BY <1>1, <1>2 DEF ChainOf
<1> QED
  BY <1>3

LEMMA ChainTail ==
  ASSUME NEW w \in Seq(Ops), w # <<>>, Single(w)
  PROVE  /\ Single(Tail(w))
         /\ Head(w).op # "validation" => ChainOf(Tail(w)) = {}
         /\ Head(w).op = "validation" => (ChainOf(Tail(w)) = {} <=> ChainOf(w) = {})
<1>1. /\ Tail(w) \in Seq(Ops) /\ Len(w) \in Nat /\ Len(w) > 0
      /\ Len(Tail(w)) = Len(w) - 1
      /\ \A j \in 1 .. Len(w) - 1 : Tail(w)[j] = w[j + 1]
      /\ Head(w) = w[1]
  OBVIOUS
<1>2. \A j \in ChainOf(Tail(w)) : j \in Nat \ {0} /\ j + 1 \in ChainOf(w)
  BY <1>1 DEF ChainOf
<1>3. \A j \in ChainOf(w) : j # 1 => j - 1 \in ChainOf(Tail(w))
  BY <1>1 DEF ChainOf
<1>4. Single(Tail(w))
  <2> SUFFICES ASSUME NEW i \in ChainOf(Tail(w)), NEW j \in ChainOf(Tail(w))
               PROVE  i = j
    BY DEF Single
  <2>1. i + 1 = j + 1
    BY <1>2 DEF Single
  <2> QED
    BY <2>1, <1>2
<1>5. ASSUME Head(w).op # "validation"
      PROVE  ChainOf(Tail(w)) = {}
  <2>1. 1 \in ChainOf(w)
    BY <1>1, <1>5 DEF ChainOf
  <2>2. \A j \in ChainOf(Tail(w)) : j + 1 = 1
    BY <2>1, <1>2 DEF Single
  <2> QED
    BY <2>2, <1>2
<1>6. ASSUME Head(w).op = "validation"
      PROVE  ChainOf(Tail(w)) = {} <=> ChainOf(w) = {}
  <2>1. 1 \notin ChainOf(w)
    BY <1>1, <1>6 DEF ChainOf
  <2> QED
    BY <2>1, <1>2, <1>3
<1> QED
  BY <1>4, <1>5, <1>6

LEMMA ChainEmpty == ChainOf(<<>>) = {} /\ Single(<<>>)
  BY DEF ChainOf, Single

-----------------------------------------------------------------------------
(* Words and messages.                                                     *)

LEMMA MessageTypes ==
  /\ Message(ServerAccept) \in Untold(Messages)
  /\ Message(ClientAccepted) \in Messages
  /\ \A m \in Messages : m.id \in Ids /\ m.body \in Payloads \cup {NoBody}
  /\ \A m \in Messages : m.body # NoBody => m.body \in Payloads
  BY IdAssumption DEF Messages, Message, Untold

LEMMA WordTypes ==
  /\ Challenge \in UntoldWords
  /\ scramble(Challenge) \in Words
  /\ \A m \in Messages : Header(m) \in Words
  /\ \A m \in Untold(Messages) : Header(m) \in UntoldWords
  /\ \A m \in Messages : m.body # NoBody => Body(m) \in UntoldWords
  /\ UntoldWords \subseteq Words
  /\ \A w \in Words : w.k = "header" => w.id \in Ids
  /\ \A w \in Words : w.k = "body" => w.body \in Payloads
<1>1. /\ Challenge \in Words /\ Challenge.k = "challenge"
      /\ scramble(Challenge) \in Words
  BY DEF Words, Challenge, scramble
<1>2. ASSUME NEW m \in Messages
      PROVE  Header(m) \in Words /\ Header(m).k = "header" /\ Header(m).id = m.id
  BY MessageTypes DEF Words, Header
<1>3. ASSUME NEW m \in Messages, m.body # NoBody
      PROVE  Body(m) \in Words /\ Body(m).k = "body"
  BY <1>3, MessageTypes DEF Words, Body
<1>4. ASSUME NEW w \in Words, w.k = "header"
      PROVE  w.id \in Ids
  BY <1>4 DEF Words
<1>5. ASSUME NEW w \in Words, w.k = "body"
      PROVE  w.body \in Payloads
  BY <1>5 DEF Words
<1> QED
  BY <1>1, <1>2, <1>3, <1>4, <1>5 DEF UntoldWords, Untold

-----------------------------------------------------------------------------
(* Writing.                                                                *)

LEMMA EndsOK == "server" \in Ends /\ "client" \in Ends
  BY DEF Ends

LEMMA WriteTypes ==
  ASSUME TypeOK, NEW e \in Ends, NEW done \in Seq(Ops),
         NEW op \in {"validation", "header", "body"}, NEW word \in Words,
         Write(e, done, op, word)
  PROVE  /\ writes' \in [Ends -> Seq(Ops)] /\ wire' \in [Ends -> Seq(Words)]
         /\ \A d \in Ends : d # e => writes'[d] = writes[d] /\ wire'[d] = wire[d]
         /\ \E x \in Ops : x.op = op /\ writes'[e] = Append(done, x)
         /\ wire'[e] \in {wire[e], Append(wire[e], word)}
<1>1. PICK fails \in BOOLEAN :
        /\ writes' = [writes EXCEPT ![e] = Append(done, [op |-> op, fails |-> fails])]
        /\ wire' = IF fails THEN wire ELSE [wire EXCEPT ![e] = Append(@, word)]
  BY DEF Write
<1>2. [op |-> op, fails |-> fails] \in Ops
  BY DEF Ops
<1>3. writes \in [Ends -> Seq(Ops)] /\ wire \in [Ends -> Seq(Words)]
  BY DEF TypeOK, Ops
<1>4. Append(done, [op |-> op, fails |-> fails]) \in Seq(Ops)
  BY <1>2, AppendSeq
<1>5. Append(wire[e], word) \in Seq(Words)
  BY <1>3, AppendSeq
<1> QED
  BY <1>1, <1>2, <1>3, <1>4, <1>5

\* The first write of a chain: nothing was being written.
LEMMA ChainStarts ==
  ASSUME NEW done \in Seq(Ops), ChainOf(done) = {}, NEW x \in Ops, x.op # "validation"
  PROVE  Single(Append(done, x)) /\ ChainOf(Append(done, x)) # {}
<1>1. ChainOf(Append(done, x)) = {Len(done) + 1}
  BY ChainAppend
<1> QED
  BY <1>1 DEF Single

LEMMA Untouched ==
  ASSUME NEW d \in Ends, WriterOK, writes'[d] = writes[d],
         m_qMessagesOut'[d] = m_qMessagesOut[d],
         sock'[d] = sock[d] \/ sock'[d] \notin {"connecting", "open"} \/ IsConnected(d)
  PROVE  /\ Single(writes'[d])
         /\ sock'[d] \in {"connecting", "open"} /\ m_qMessagesOut'[d] # <<>>
              => ChainOf(writes'[d]) # {}
         /\ ChainOf(writes'[d]) # {} => m_qMessagesOut'[d] # <<>>
  BY DEF WriterOK, IsConnected

\* PopFront, whose new front is written next: of both conjuncts.
LEMMA PopFrontOK ==
  ASSUME TypeOK, NEW e \in Ends, NEW done \in Seq(Ops), ChainOf(done) = {}, Single(done),
         m_qMessagesOut[e] # <<>>, PopFront(e, done)
  PROVE  /\ m_qMessagesOut' \in [Ends -> Seq(Messages)]
         /\ writes' \in [Ends -> Seq(Ops)] /\ wire' \in [Ends -> Seq(Words)]
         /\ \A d \in Ends : d # e => /\ writes'[d] = writes[d] /\ wire'[d] = wire[d]
                                    /\ m_qMessagesOut'[d] = m_qMessagesOut[d]
         /\ m_qMessagesOut'[e] = Tail(m_qMessagesOut[e])
         /\ Single(writes'[e])
         /\ ChainOf(writes'[e]) # {} <=> m_qMessagesOut'[e] # <<>>
         /\ \/ wire'[e] = wire[e]
            \/ /\ Tail(m_qMessagesOut[e]) # <<>>
               /\ wire'[e] = Append(wire[e], Header(Head(Tail(m_qMessagesOut[e]))))
<1> DEFINE rest == Tail(m_qMessagesOut[e])
<1>1. m_qMessagesOut[e] \in Seq(Messages) /\ m_qMessagesOut \in [Ends -> Seq(Messages)]
      /\ writes \in [Ends -> Seq(Ops)] /\ wire \in [Ends -> Seq(Words)]
  BY DEF TypeOK, Ops
<1>2. rest \in Seq(Messages)
  BY <1>1, TailSeq
<1>3. m_qMessagesOut' = [m_qMessagesOut EXCEPT ![e] = rest]
  BY DEF PopFront
<1>4. m_qMessagesOut' \in [Ends -> Seq(Messages)] /\ m_qMessagesOut'[e] = rest
      /\ \A d \in Ends : d # e => m_qMessagesOut'[d] = m_qMessagesOut[d]
  BY <1>1, <1>2, <1>3
<1>5. CASE rest = <<>>
  <2>1. writes' = [writes EXCEPT ![e] = done] /\ wire' = wire
    BY <1>5 DEF PopFront
  <2> QED
    BY <2>1, <1>1, <1>4, <1>5
<1>6. CASE rest # <<>>
  <2>1. Write(e, done, "header", Header(Head(rest)))
    BY <1>6 DEF PopFront, WriteHeader
  <2>2. Head(rest) \in Messages
    BY <1>2, <1>6, TailSeq
  <2>3. Header(Head(rest)) \in Words
    BY <2>2, WordTypes
  <2>4. /\ writes' \in [Ends -> Seq(Ops)] /\ wire' \in [Ends -> Seq(Words)]
        /\ \A d \in Ends : d # e => writes'[d] = writes[d] /\ wire'[d] = wire[d]
        /\ \E x \in Ops : x.op = "header" /\ writes'[e] = Append(done, x)
        /\ wire'[e] \in {wire[e], Append(wire[e], Header(Head(rest)))}
    BY <2>1, <2>3, WriteTypes
  <2>5. Single(writes'[e]) /\ ChainOf(writes'[e]) # {}
    BY <2>4, ChainStarts
  <2> QED
    BY <2>4, <2>5, <1>4, <1>6
<1> QED
  BY <1>5, <1>6

-----------------------------------------------------------------------------
(* The actions.                                                            *)

LEMMA InitIInv == Init => IInv
<1> SUFFICES ASSUME Init PROVE IInv
  OBVIOUS
<1>1. TypeOK
  <2>1. Message(ServerAccept) \in [id : Ids, body : Payloads \cup {NoBody}]
    BY IdAssumption DEF Message
  <2>2. /\ sock \in [Ends -> {"none", "backlog", "connecting", "open", "closed"}]
        /\ reading \in [Ends -> {"none", "connect", "validation", "header", "body"}]
    BY DEF Init, Ends
  <2>3. \A S : [e \in Ends |-> <<>>] \in [Ends -> Seq(S)]
    OBVIOUS
  <2>4. /\ m_msgTemporaryIn \in [Ends -> [id : Ids, body : Payloads \cup {NoBody}]]
        /\ handshake = "pending" /\ listed = FALSE /\ inbox = 0
    BY <2>1 DEF Init
  <2>5. posted \in [Ends -> Seq(Messages)] /\ m_qMessagesOut \in [Ends -> Seq(Messages)]
        /\ writes \in [Ends -> Seq(Ops)] /\ wire \in [Ends -> Seq(Words)]
        /\ sent \in [Ends -> Seq(Messages)] /\ received \in [Ends -> Seq(Read)]
    BY <2>3 DEF Init
  <2> QED
    BY <2>2, <2>4, <2>5 DEF TypeOK, Ops, Read
<1>2. Unaccepted /\ FirstWord /\ ReadsValidated
  <2>1. /\ sock["server"] = "none" /\ reading["server"] = "none"
        /\ posted["server"] = <<>> /\ m_qMessagesOut["server"] = <<>>
        /\ writes["server"] = <<>> /\ wire["server"] = <<>>
        /\ received["server"] = <<>> /\ handshake = "pending"
    BY EndsOK DEF Init
  <2> QED
    BY <2>1 DEF Unaccepted, FirstWord, ReadsValidated
<1>3. WriterOK
  BY ChainEmpty DEF Init, WriterOK
<1>4. NotTold
  BY IdAssumption DEF Init, NotTold, Message, Ends
<1> QED
  BY <1>1, <1>2, <1>3, <1>4 DEF IInv

LEMMA EstablishIInv == ASSUME IInv, Establish PROVE IInv'
<1> USE DEF IInv
<1>1. TypeOK'
  BY DEF Establish, TypeOK, Ends
<1>2. Unaccepted' /\ FirstWord' /\ ReadsValidated'
  BY DEF Establish, Unaccepted, FirstWord, ReadsValidated
<1>3. WriterOK'
  BY DEF Establish, WriterOK, IsConnected, Ends
<1>4. NotTold'
  BY DEF Establish, NotTold
<1> QED
  BY <1>1, <1>2, <1>3, <1>4

LEMMA AcceptIInv == ASSUME IInv, Accept PROVE IInv'
<1> USE DEF IInv
<1> DEFINE x == [op |-> "validation", fails |-> FALSE]
<1>1. /\ posted["server"] = <<>> /\ m_qMessagesOut["server"] = <<>>
      /\ wire["server"] = <<>> /\ sock["client"] # "connecting"
  BY DEF Accept, Unaccepted
<1>2. x \in Ops /\ <<x>> \in Seq(Ops) /\ ChainOf(<<x>>) = {} /\ Single(<<x>>)
  BY DEF Ops, ChainOf, Single
<1>3. Message(ServerAccept) \in Messages /\ Challenge \in Words
  BY MessageTypes, WordTypes DEF Untold
<1>4. posted' = [posted EXCEPT !["server"] = Append(@, Message(ServerAccept))]
      /\ sent' = [sent EXCEPT !["server"] = Append(@, Message(ServerAccept))]
  BY DEF Accept, Post
<1>5. TypeOK'
  <2>1. posted' \in [Ends -> Seq(Messages)] /\ sent' \in [Ends -> Seq(Messages)]
    BY <1>3, <1>4, EndsOK, AppendSeq DEF TypeOK
  <2>2. writes' \in [Ends -> Seq(Ops)]
    BY <1>2, EndsOK DEF Accept, TypeOK, Ops
  <2>3. <<Challenge>> \in Seq(Words)
    BY <1>3
  <2>4. wire' \in [Ends -> Seq(Words)]
    BY <2>3, EndsOK DEF Accept, TypeOK
  <2> QED
    BY <2>1, <2>2, <2>4, EndsOK DEF Accept, Await, TypeOK, Ops
<1>6. Unaccepted' /\ FirstWord' /\ ReadsValidated'
  <2>1. wire'["server"] = <<Challenge>> /\ Head(<<Challenge>>) = Challenge
    BY EndsOK DEF Accept, TypeOK
  <2>2. sock'["server"] = "open" /\ sock'["client"] = sock["client"]
        /\ reading'["server"] = "validation" /\ reading'["client"] = reading["client"]
    BY EndsOK DEF Accept, Await, TypeOK
  <2>3. received["server"] = received'["server"] /\ handshake' = handshake
    BY DEF Accept
  <2>4. handshake = "pending" /\ received["server"] = <<>>
    BY DEF Accept, ReadsValidated, Unaccepted
  <2> QED
    BY <1>1, <2>1, <2>2, <2>3, <2>4 DEF Unaccepted, FirstWord, ReadsValidated
<1>7. WriterOK'
  BY <1>1, <1>2, EndsOK DEF Accept, WriterOK, IsConnected, TypeOK
<1>8. NotTold'
  <2>1. Append(posted["server"], Message(ServerAccept)) \in Seq(Untold(Messages))
    BY <1>1, MessageTypes
  <2>2. <<Challenge>> \in Seq(UntoldWords)
    BY WordTypes
  <2> QED
    BY <1>4, <2>1, <2>2, EndsOK DEF Accept, NotTold, TypeOK
<1> QED
  BY <1>5, <1>6, <1>7, <1>8

LEMMA ConnectDoneIInv == ASSUME IInv, ConnectDone PROVE IInv'
<1> USE DEF IInv
<1>1. TypeOK'
  BY EndsOK DEF ConnectDone, Await, TypeOK
<1>2. Unaccepted' /\ FirstWord' /\ ReadsValidated'
  BY EndsOK DEF ConnectDone, Await, TypeOK, Unaccepted, FirstWord, ReadsValidated
<1>3. WriterOK'
  BY DEF ConnectDone, WriterOK, IsConnected
<1>4. NotTold'
  BY DEF ConnectDone, NotTold
<1> QED
  BY <1>1, <1>2, <1>3, <1>4

LEMMA SendIInv == ASSUME IInv, NEW e \in Ends, Send(e) PROVE IInv'
<1> USE DEF IInv
<1>1. PICK m \in Messages : m.id # ClientAccepted /\ Post(e, m)
  BY DEF Send
<1>2. /\ posted' = [posted EXCEPT ![e] = Append(@, m)]
      /\ sent' = [sent EXCEPT ![e] = Append(@, m)]
  BY <1>1 DEF Post
<1>3. TypeOK'
  <2>1. posted' \in [Ends -> Seq(Messages)] /\ sent' \in [Ends -> Seq(Messages)]
    BY <1>2, AppendSeq DEF TypeOK
  <2> QED
    BY <2>1 DEF Send, TypeOK
<1>4. Unaccepted'
  BY <1>2, EndsOK DEF Send, Unaccepted, IsConnected, TypeOK
<1>5. FirstWord' /\ ReadsValidated' /\ WriterOK'
  BY DEF Send, FirstWord, ReadsValidated, WriterOK, IsConnected
<1>6. NotTold'
  <2>1. ASSUME handshake # "good"
        PROVE  posted'["server"] \in Seq(Untold(Messages))
    <3>1. m \in Untold(Messages) /\ posted["server"] \in Seq(Untold(Messages))
      BY <1>1, <2>1 DEF Untold, NotTold
    <3>2. Append(posted["server"], m) \in Seq(Untold(Messages))
      BY <3>1, AppendSeq
    <3> QED
      BY <3>1, <3>2, <1>2, EndsOK DEF TypeOK
  <2> QED
    BY <2>1 DEF Send, NotTold
<1> QED
  BY <1>3, <1>4, <1>5, <1>6

LEMMA RunPostedIInv == ASSUME IInv, NEW e \in Ends, RunPosted(e) PROVE IInv'
<1> USE DEF IInv
<1> DEFINE m == Head(posted[e])
           full == m_qMessagesOut[e] # <<>>
<1>1. /\ posted[e] # <<>> /\ posted' = [posted EXCEPT ![e] = Tail(@)]
      /\ m_qMessagesOut' = [m_qMessagesOut EXCEPT ![e] = Append(@, m)]
      /\ IF full THEN UNCHANGED <<writes, wire>>
                 ELSE Write(e, writes[e], "header", Header(m))
  BY DEF RunPosted, WriteHeader
<1>2. /\ posted \in [Ends -> Seq(Messages)] /\ m_qMessagesOut \in [Ends -> Seq(Messages)]
      /\ writes \in [Ends -> Seq(Ops)] /\ wire \in [Ends -> Seq(Words)]
  BY DEF TypeOK, Ops
<1>3. m \in Messages /\ Header(m) \in Words /\ Tail(posted[e]) \in Seq(Messages)
      /\ Append(m_qMessagesOut[e], m) \in Seq(Messages)
      /\ Append(m_qMessagesOut[e], m) # <<>>
  <2>1. m \in Messages /\ Tail(posted[e]) \in Seq(Messages)
    BY <1>1, <1>2, TailSeq
  <2> QED
    BY <2>1, <1>2, WordTypes, AppendSeq
<1>4. /\ writes' \in [Ends -> Seq(Ops)] /\ wire' \in [Ends -> Seq(Words)]
      /\ \A d \in Ends : d # e => writes'[d] = writes[d] /\ wire'[d] = wire[d]
      /\ wire'[e] \in {wire[e], Append(wire[e], Header(m))}
      /\ full => writes'[e] = writes[e]
      /\ ~full => \E x \in Ops : x.op = "header" /\ writes'[e] = Append(writes[e], x)
  <2>1. CASE full
    BY <2>1, <1>1, <1>2
  <2>2. CASE ~full
    <3>1. Write(e, writes[e], "header", Header(m)) /\ writes[e] \in Seq(Ops)
      BY <2>2, <1>1, <1>2
    <3> QED
      BY <3>1, <1>3, <2>2, WriteTypes
  <2> QED
    BY <2>1, <2>2
<1>5. TypeOK'
  <2>1. /\ posted' \in [Ends -> Seq(Messages)]
        /\ m_qMessagesOut' \in [Ends -> Seq(Messages)]
    BY <1>1, <1>2, <1>3
  <2>2. UNCHANGED <<sock, reading, m_msgTemporaryIn, handshake, listed, inbox,
                    sent, received>>
    BY DEF RunPosted
  <2> QED
    BY <2>1, <2>2, <1>4 DEF TypeOK, Ops
<1>6. sock["server"] \in {"none", "backlog"} => e = "client"
  BY <1>1 DEF Unaccepted, Ends
<1>7. wire["server"] # <<>> =>
        wire'["server"] # <<>> /\ Head(wire'["server"]) = Head(wire["server"])
  <2>1. CASE e = "server"
    <3>1. wire["server"] \in Seq(Words)
      BY <1>2, EndsOK
    <3>2. /\ Append(wire["server"], Header(m)) # <<>>
          /\ wire["server"] # <<>>
               => Head(Append(wire["server"], Header(m))) = Head(wire["server"])
      BY <3>1, <1>3, AppendSeq
    <3> QED
      BY <3>2, <2>1, <1>4
  <2>2. CASE e # "server"
    BY <2>2, <1>4, EndsOK
  <2> QED
    BY <2>1, <2>2
<1>8. Unaccepted' /\ FirstWord' /\ ReadsValidated'
  <2>1. Unaccepted'
    BY <1>1, <1>2, <1>4, <1>6, EndsOK DEF RunPosted, Unaccepted
  <2>2. FirstWord'
    <3>1. reading' = reading /\ sock' = sock
      BY DEF RunPosted
    <3> QED
      BY <3>1, <1>7 DEF FirstWord
  <2> QED
    BY <2>1, <2>2 DEF RunPosted, ReadsValidated
<1>9. WriterOK'
  <2>1. Single(writes'[e]) /\ (IsConnected(e) => ChainOf(writes'[e]) # {})
    <3>1. CASE full
      BY <3>1, <1>4 DEF WriterOK
    <3>2. CASE ~full
      BY <3>2, <1>2, <1>4, ChainStarts DEF WriterOK
    <3> QED
      BY <3>1, <3>2
  <2>2. m_qMessagesOut'[e] # <<>>
    BY <1>1, <1>2, <1>3
  <2>3. \A d \in Ends : d # e => writes'[d] = writes[d]
                                 /\ m_qMessagesOut'[d] = m_qMessagesOut[d]
    BY <1>1, <1>2, <1>4
  <2> QED
    BY <2>1, <2>2, <2>3 DEF RunPosted, WriterOK, IsConnected
<1>10. NotTold'
  <2> SUFFICES ASSUME handshake # "good", e = "server"
               PROVE  /\ posted'["server"] \in Seq(Untold(Messages))
                      /\ m_qMessagesOut'["server"] \in Seq(Untold(Messages))
                      /\ wire'["server"] \in Seq(UntoldWords)
    BY <1>1, <1>2, <1>4, EndsOK DEF RunPosted, NotTold
  <2>1. /\ posted["server"] \in Seq(Untold(Messages))
        /\ m_qMessagesOut["server"] \in Seq(Untold(Messages))
        /\ wire["server"] \in Seq(UntoldWords)
    BY DEF NotTold
  <2>2. m \in Untold(Messages) /\ Tail(posted["server"]) \in Seq(Untold(Messages))
    BY <2>1, <1>1, TailSeq
  <2>3. Header(m) \in UntoldWords
    BY <2>2, WordTypes
  <2>4. /\ Append(m_qMessagesOut["server"], m) \in Seq(Untold(Messages))
        /\ Append(wire["server"], Header(m)) \in Seq(UntoldWords)
    BY <2>1, <2>2, <2>3, AppendSeq
  <2> QED
    BY <2>1, <2>2, <2>4, <1>1, <1>2, <1>4, EndsOK
<1> QED
  BY <1>5, <1>8, <1>9, <1>10

\* What the handler of a write does to the chain of e and to the queue behind it.
WriteStep(e) ==
    /\ m_qMessagesOut' \in [Ends -> Seq(Messages)]
    /\ writes' \in [Ends -> Seq(Ops)] /\ wire' \in [Ends -> Seq(Words)]
    /\ reading' \in [Ends -> {"none", "connect", "validation", "header", "body"}]
    /\ \A d \in Ends : d # e => /\ writes'[d] = writes[d] /\ wire'[d] = wire[d]
                               /\ m_qMessagesOut'[d] = m_qMessagesOut[d]
                               /\ reading'[d] = reading[d]
    /\ reading'[e] = reading[e] \/ (e = "client" /\ reading'[e] = "header")
    /\ sock' = sock \/ sock' = [sock EXCEPT ![e] = "closed"]
    /\ Single(writes'[e])
    /\ sock' = sock /\ IsConnected(e) /\ m_qMessagesOut'[e] # <<>>
         => ChainOf(writes'[e]) # {}
    /\ ChainOf(writes'[e]) # {} => m_qMessagesOut'[e] # <<>>
    /\ \/ m_qMessagesOut'[e] = m_qMessagesOut[e]
       \/ m_qMessagesOut[e] # <<>> /\ m_qMessagesOut'[e] = Tail(m_qMessagesOut[e])
    /\ \/ wire'[e] = wire[e]
       \/ /\ m_qMessagesOut[e] # <<>> /\ Head(m_qMessagesOut[e]).body # NoBody
          /\ wire'[e] = Append(wire[e], Body(Head(m_qMessagesOut[e])))
       \/ /\ m_qMessagesOut[e] # <<>> /\ Tail(m_qMessagesOut[e]) # <<>>
          /\ wire'[e] = Append(wire[e], Header(Head(Tail(m_qMessagesOut[e]))))

LEMMA WriteDoneStep == ASSUME IInv, NEW e \in Ends, WriteDone(e) PROVE WriteStep(e)
<1> USE DEF IInv
<1> DEFINE op == Head(writes[e]).op
           done == Tail(writes[e])
           front == Head(m_qMessagesOut[e])
<1>1. /\ m_qMessagesOut \in [Ends -> Seq(Messages)]
      /\ writes \in [Ends -> Seq(Ops)] /\ wire \in [Ends -> Seq(Words)]
      /\ reading \in [Ends -> {"none", "connect", "validation", "header", "body"}]
      /\ sock \in [Ends -> {"none", "backlog", "connecting", "open", "closed"}]
  BY DEF TypeOK, Ops
<1>2. writes[e] # <<>> /\ writes[e] \in Seq(Ops) /\ done \in Seq(Ops)
      /\ op \in {"validation", "header", "body"}
  <2>1. writes[e] # <<>> /\ writes[e] \in Seq(Ops)
    BY <1>1 DEF WriteDone
  <2>2. Head(writes[e]) \in Ops /\ done \in Seq(Ops)
    BY <2>1, TailSeq
  <2> QED
    BY <2>1, <2>2 DEF Ops
<1>3. Single(writes[e]) /\ Single(done)
      /\ (op # "validation" => ChainOf(done) = {})
      /\ (op = "validation" => (ChainOf(done) = {} <=> ChainOf(writes[e]) = {}))
  <2>1. Single(writes[e])
    BY DEF WriterOK
  <2> QED
    BY <2>1, <1>2, ChainTail
<1>4. op # "validation" => m_qMessagesOut[e] # <<>>
  <2>1. ASSUME op # "validation" PROVE 1 \in ChainOf(writes[e])
    BY <2>1, <1>2 DEF ChainOf
  <2> QED
    BY <2>1 DEF WriterOK
<1>5. /\ IsConnected(e) /\ m_qMessagesOut[e] # <<>> /\ op = "validation"
           => ChainOf(done) # {}
      /\ ChainOf(done) # {} => m_qMessagesOut[e] # <<>>
  BY <1>3 DEF WriterOK
<1>6. ASSUME writes' = [writes EXCEPT ![e] = done],
             UNCHANGED <<m_qMessagesOut, wire>>,
             \/ /\ op = "validation" /\ sock' = sock
                /\ IF ReadsAfterValidation(e) THEN Await(e, "header")
                                              ELSE UNCHANGED reading
             \/ Close(e) /\ UNCHANGED reading
      PROVE  WriteStep(e)
  <2>1. reading' \in [Ends -> {"none", "connect", "validation", "header", "body"}]
        /\ (\A d \in Ends : d # e => reading'[d] = reading[d])
        /\ (reading'[e] = reading[e] \/ (e = "client" /\ reading'[e] = "header"))
    <3>1. \/ e = "client" /\ reading' = [reading EXCEPT ![e] = "header"]
          \/ reading' = reading
      BY <1>6 DEF ReadsAfterValidation, Await
    <3> QED
      BY <3>1, <1>1
  <2>2. writes' \in [Ends -> Seq(Ops)] /\ writes'[e] = done
        /\ \A d \in Ends : d # e => writes'[d] = writes[d]
    BY <1>1, <1>2, <1>6
  <2>3. sock' = sock \/ sock' = [sock EXCEPT ![e] = "closed"]
    BY <1>6 DEF Close
  <2>4. sock' = sock /\ IsConnected(e) => op = "validation"
    BY <1>1, <1>6 DEF Close, IsConnected
  <2> QED
    BY <1>1, <1>3, <1>5, <1>6, <2>1, <2>2, <2>3, <2>4 DEF WriteStep
<1>7. ASSUME op # "validation", HasBody(front), WriteBody(e, done, front),
             UNCHANGED <<sock, m_qMessagesOut, reading>>
      PROVE  WriteStep(e)
  <2>1. front \in Messages /\ front.body # NoBody
    BY <1>1, <1>4, <1>7, TailSeq DEF HasBody
  <2>2. Body(front) \in Words
    BY <2>1, WordTypes
  <2>3. Write(e, done, "body", Body(front))
    BY <1>7 DEF WriteBody
  <2>4. /\ writes' \in [Ends -> Seq(Ops)] /\ wire' \in [Ends -> Seq(Words)]
        /\ \A d \in Ends : d # e => writes'[d] = writes[d] /\ wire'[d] = wire[d]
        /\ \E x \in Ops : x.op = "body" /\ writes'[e] = Append(done, x)
        /\ wire'[e] \in {wire[e], Append(wire[e], Body(front))}
    BY <2>2, <2>3, <1>2, WriteTypes
  <2>5. Single(writes'[e]) /\ ChainOf(writes'[e]) # {}
    BY <2>4, <1>2, <1>3, <1>7, ChainStarts
  <2>6. sock' = sock /\ reading' = reading /\ m_qMessagesOut' = m_qMessagesOut
    BY <1>7
  <2>7. \/ wire'[e] = wire[e]
        \/ wire'[e] = Append(wire[e], Body(Head(m_qMessagesOut[e])))
    BY <2>4
  <2> QED
    BY <1>1, <1>4, <1>7, <2>1, <2>4, <2>5, <2>6, <2>7 DEF WriteStep
<1>8. ASSUME op # "validation", PopFront(e, done), UNCHANGED <<sock, reading>>
      PROVE  WriteStep(e)
  <2>1. ChainOf(done) = {} /\ m_qMessagesOut[e] # <<>>
    BY <1>3, <1>4, <1>8
  <2>2. /\ m_qMessagesOut' \in [Ends -> Seq(Messages)]
        /\ writes' \in [Ends -> Seq(Ops)] /\ wire' \in [Ends -> Seq(Words)]
        /\ \A d \in Ends : d # e => /\ writes'[d] = writes[d] /\ wire'[d] = wire[d]
                                   /\ m_qMessagesOut'[d] = m_qMessagesOut[d]
        /\ m_qMessagesOut'[e] = Tail(m_qMessagesOut[e])
        /\ Single(writes'[e])
        /\ ChainOf(writes'[e]) # {} <=> m_qMessagesOut'[e] # <<>>
        /\ \/ wire'[e] = wire[e]
           \/ /\ Tail(m_qMessagesOut[e]) # <<>>
              /\ wire'[e] = Append(wire[e], Header(Head(Tail(m_qMessagesOut[e]))))
    BY <2>1, <1>2, <1>3, <1>8, PopFrontOK
  <2>3. sock' = sock /\ reading' = reading
    BY <1>8
  <2> QED
    BY <1>1, <2>1, <2>2, <2>3 DEF WriteStep
<1>9. \/ /\ op = "validation"
         /\ writes' = [writes EXCEPT ![e] = done]
         /\ IF ReadsAfterValidation(e) THEN Await(e, "header") ELSE UNCHANGED reading
         /\ UNCHANGED <<sock, m_qMessagesOut, wire>>
      \/ /\ op # "validation" /\ HasBody(front) /\ WriteBody(e, done, front)
         /\ UNCHANGED <<sock, m_qMessagesOut, reading>>
      \/ op # "validation" /\ PopFront(e, done) /\ UNCHANGED <<sock, reading>>
      \/ /\ Close(e) /\ writes' = [writes EXCEPT ![e] = done]
         /\ UNCHANGED <<m_qMessagesOut, wire, reading>>
  BY DEF WriteDone
<1> QED
  BY <1>6, <1>7, <1>8, <1>9

LEMMA WriteDoneIInv == ASSUME IInv, NEW e \in Ends, WriteDone(e) PROVE IInv'
<1> USE DEF IInv
<1> DEFINE front == Head(m_qMessagesOut[e])
           next == Head(Tail(m_qMessagesOut[e]))
<1>1. WriteStep(e)
  BY WriteDoneStep
<1>2. UNCHANGED <<posted, m_msgTemporaryIn, handshake, listed, inbox, sent, received>>
      /\ writes[e] # <<>>
  BY DEF WriteDone
<1>3. sock' \in [Ends -> {"none", "backlog", "connecting", "open", "closed"}]
      /\ (\A d \in Ends : d # e => sock'[d] = sock[d])
      /\ (sock' = sock \/ sock'[e] = "closed")
  BY <1>1 DEF WriteStep, TypeOK
<1>4. TypeOK'
  BY <1>1, <1>2, <1>3 DEF WriteStep, TypeOK, Ops
<1>5. sock["server"] \in {"none", "backlog"} => e = "client"
  BY <1>2 DEF Unaccepted, Ends
<1>6. Unaccepted'
  BY <1>1, <1>2, <1>3, <1>5, EndsOK DEF WriteStep, Unaccepted
<1>11. \A d \in Ends : \/ wire'[d] = wire[d]
                      \/ \E w \in Words : wire'[d] = Append(wire[d], w)
  <2>1. m_qMessagesOut[e] \in Seq(Messages)
    BY DEF TypeOK
  <2>2. m_qMessagesOut[e] # <<>> =>
          /\ front \in Messages
          /\ Tail(m_qMessagesOut[e]) # <<>> => next \in Messages
    BY <2>1, TailSeq
  <2>3. /\ m_qMessagesOut[e] # <<>> /\ front.body # NoBody => Body(front) \in Words
        /\ m_qMessagesOut[e] # <<>> /\ Tail(m_qMessagesOut[e]) # <<>>
             => Header(next) \in Words
    BY <2>2, WordTypes
  <2>4. \/ wire'[e] = wire[e]
        \/ \E w \in Words : wire'[e] = Append(wire[e], w)
    BY <2>3, <1>1 DEF WriteStep
  <2> QED
    BY <2>4, <1>1 DEF WriteStep
<1>7. FirstWord'
  <2>1. ASSUME wire["server"] # <<>>
        PROVE  wire'["server"] # <<>> /\ Head(wire'["server"]) = Head(wire["server"])
    <3>1. CASE wire'["server"] = wire["server"]
      BY <3>1, <2>1
    <3>2. CASE \E w \in Words : wire'["server"] = Append(wire["server"], w)
      <4>1. wire["server"] \in Seq(Words)
        BY EndsOK DEF TypeOK
      <4> QED
        BY <4>1, <3>2, <2>1, AppendSeq
    <3> QED
      BY <3>1, <3>2, <1>11, EndsOK
  <2>2. reading'["client"] \in {"connect", "validation"}
           => reading'["client"] = reading["client"]
    BY <1>1, EndsOK DEF WriteStep
  <2>3. sock["server"] \in {"none", "backlog"} => sock'["server"] = sock["server"]
    BY <1>3, <1>5, EndsOK
  <2> QED
    BY <2>1, <2>2, <2>3 DEF FirstWord
<1>8. ReadsValidated'
  BY <1>1, <1>2, EndsOK DEF WriteStep, ReadsValidated
<1>9. WriterOK'
  BY <1>1, <1>3 DEF WriteStep, WriterOK, IsConnected
<1>10. NotTold'
  <2> SUFFICES ASSUME handshake # "good", e = "server"
               PROVE  /\ m_qMessagesOut'["server"] \in Seq(Untold(Messages))
                      /\ wire'["server"] \in Seq(UntoldWords)
    BY <1>1, <1>2, EndsOK DEF WriteStep, NotTold
  <2>1. /\ m_qMessagesOut["server"] \in Seq(Untold(Messages))
        /\ wire["server"] \in Seq(UntoldWords)
    BY DEF NotTold
  <2>2. m_qMessagesOut[e] # <<>> =>
          /\ Tail(m_qMessagesOut[e]) \in Seq(Untold(Messages))
          /\ front \in Untold(Messages)
          /\ Tail(m_qMessagesOut[e]) # <<>> => next \in Untold(Messages)
    BY <2>1, TailSeq
  <2>3. m_qMessagesOut[e] # <<>> /\ front.body # NoBody => Body(front) \in UntoldWords
    BY <2>2, WordTypes DEF Untold
  <2>4. m_qMessagesOut[e] # <<>> /\ Tail(m_qMessagesOut[e]) # <<>>
          => Header(next) \in UntoldWords
    BY <2>2, WordTypes
  <2>5. wire'["server"] \in Seq(UntoldWords)
    <3>1. \/ wire'[e] = wire[e]
          \/ \E w \in UntoldWords : wire'[e] = Append(wire[e], w)
      BY <2>3, <2>4, <1>1 DEF WriteStep
    <3> QED
      BY <3>1, <2>1, AppendSeq
  <2> QED
    BY <2>1, <2>2, <2>5, <1>1 DEF WriteStep
<1> QED
  BY <1>4, <1>6, <1>7, <1>8, <1>9, <1>10

LEMMA ReadValidationServerIInv == ASSUME IInv, ReadValidationServer PROVE IInv'
<1> USE DEF IInv
<1>1. /\ wire["client"] # <<>> /\ reading["server"] = "validation" /\ sock["server"] = "open"
      /\ wire' = [wire EXCEPT !["client"] = Tail(@)]
  BY DEF ReadValidationServer, Reads, Taken, Word, Peer
<1>2. wire' \in [Ends -> Seq(Words)] /\ wire'["server"] = wire["server"]
  <2>1. wire["client"] \in Seq(Words)
    BY EndsOK DEF TypeOK
  <2>2. Tail(wire["client"]) \in Seq(Words)
    BY <2>1, <1>1, TailSeq
  <2> QED
    BY <1>1, <2>2, EndsOK DEF TypeOK
<1>3. handshake = "pending"
  BY <1>1 DEF ReadsValidated
<1>4. CASE AcceptsAnswer(Word("server"))
  <2>1. /\ handshake' = "good" /\ sock' = sock
        /\ posted' = [posted EXCEPT !["server"] = Append(@, Message(ClientAccepted))]
        /\ sent' = [sent EXCEPT !["server"] = Append(@, Message(ClientAccepted))]
        /\ reading' = [reading EXCEPT !["server"] = "header"]
    BY <1>4 DEF ReadValidationServer, Post, Await
  <2>2. posted' \in [Ends -> Seq(Messages)] /\ sent' \in [Ends -> Seq(Messages)]
    BY <2>1, MessageTypes, EndsOK, AppendSeq DEF TypeOK
  <2>3. TypeOK'
    BY <1>2, <2>1, <2>2, EndsOK DEF ReadValidationServer, TypeOK
  <2>4. Unaccepted'
    BY <1>1, <2>1 DEF Unaccepted
  <2>5. FirstWord' /\ ReadsValidated'
    BY <1>2, <2>1, EndsOK DEF TypeOK, FirstWord, ReadsValidated
  <2>6. WriterOK' /\ NotTold'
    BY <2>1 DEF ReadValidationServer, WriterOK, IsConnected, NotTold
  <2> QED
    BY <2>3, <2>4, <2>5, <2>6
<1>5. CASE ~AcceptsAnswer(Word("server"))
  <2>1. /\ handshake' = "bad" /\ sock' = [sock EXCEPT !["server"] = "closed"]
        /\ reading' = [reading EXCEPT !["server"] = "none"]
        /\ posted' = posted /\ sent' = sent
    BY <1>5 DEF ReadValidationServer, Close, Await
  <2>2. TypeOK'
    BY <1>2, <2>1, EndsOK DEF ReadValidationServer, TypeOK
  <2>3. Unaccepted'
    BY <1>1, <2>1, EndsOK DEF TypeOK, Unaccepted
  <2>4. received' = received /\ received["server"] = <<>>
    BY <1>3 DEF ReadValidationServer, ReadsValidated
  <2>5. FirstWord' /\ ReadsValidated'
    BY <1>1, <1>2, <2>1, <2>4, EndsOK DEF TypeOK, FirstWord, ReadsValidated
  <2>6. WriterOK'
    BY <2>1, EndsOK DEF ReadValidationServer, TypeOK, WriterOK, IsConnected
  <2>7. NotTold'
    BY <1>2, <1>3, <2>1 DEF ReadValidationServer, NotTold
  <2> QED
    BY <2>2, <2>3, <2>5, <2>6, <2>7
<1> QED
  BY <1>4, <1>5

LEMMA ReadValidationClientIInv == ASSUME IInv, ReadValidationClient PROVE IInv'
<1> USE DEF IInv
<1>1. /\ wire["server"] # <<>> /\ reading["client"] = "validation"
      /\ reading' = [reading EXCEPT !["client"] = "none"]
      /\ Word("client") = Head(wire["server"])
      /\ Taken("client") = [wire EXCEPT !["server"] = Tail(@)]
  BY DEF ReadValidationClient, Reads, Taken, Word, Peer, Await
<1>2. PICK fails \in BOOLEAN :
        /\ writes' = [writes EXCEPT !["client"] =
                        Append(@, [op |-> "validation", fails |-> fails])]
        /\ wire' = IF fails THEN Taken("client")
                   ELSE [Taken("client") EXCEPT !["client"] =
                           Append(@, scramble(Word("client")))]
  BY DEF ReadValidationClient
<1> DEFINE x == [op |-> "validation", fails |-> fails]
<1>3. /\ writes \in [Ends -> Seq(Ops)] /\ wire \in [Ends -> Seq(Words)]
      /\ writes["client"] \in Seq(Ops)
      /\ wire["server"] \in Seq(Words) /\ wire["client"] \in Seq(Words)
  BY EndsOK DEF TypeOK, Ops
<1>4. Word("client") = Challenge
  <2>1. sock["server"] \notin {"none", "backlog"}
    BY <1>1 DEF Unaccepted
  <2> QED
    BY <1>1, <2>1 DEF FirstWord
<1>5. /\ Tail(wire["server"]) \in Seq(Words)
      /\ Append(wire["client"], scramble(Word("client"))) \in Seq(Words)
  BY <1>1, <1>3, <1>4, WordTypes, TailSeq, AppendSeq
<1>6. wire' \in [Ends -> Seq(Words)] /\ wire'["server"] = Tail(wire["server"])
  <2>1. CASE fails
    BY <2>1, <1>1, <1>2, <1>3, <1>5, EndsOK
  <2>2. CASE ~fails
    BY <2>2, <1>1, <1>2, <1>3, <1>5, EndsOK
  <2> QED
    BY <2>1, <2>2
<1>7. x \in Ops /\ Append(writes["client"], x) \in Seq(Ops)
      /\ ChainOf(Append(writes["client"], x)) = ChainOf(writes["client"])
  <2>1. x \in Ops /\ x.op = "validation"
    BY DEF Ops
  <2> QED
    BY <2>1, <1>3, ChainAppend, AppendSeq
<1>8. /\ writes' \in [Ends -> Seq(Ops)]
      /\ writes'["server"] = writes["server"]
      /\ writes'["client"] = Append(writes["client"], x)
  BY <1>2, <1>3, <1>7, EndsOK
<1>9. UNCHANGED <<sock, posted, m_qMessagesOut, m_msgTemporaryIn, handshake, listed,
                  inbox, sent, received>>
  BY DEF ReadValidationClient
<1>10. /\ reading' \in [Ends -> {"none", "connect", "validation", "header", "body"}]
       /\ reading'["server"] = reading["server"] /\ reading'["client"] = "none"
  BY <1>1, EndsOK DEF TypeOK
<1>11. TypeOK'
  BY <1>6, <1>8, <1>9, <1>10 DEF TypeOK, Ops
<1>12. Unaccepted' /\ FirstWord' /\ ReadsValidated'
  BY <1>1, <1>8, <1>9, <1>10 DEF Unaccepted, FirstWord, ReadsValidated
<1>13. WriterOK'
  <2>1. Single(Append(writes["client"], x))
    BY <1>7, EndsOK DEF WriterOK, Single
  <2>2. \A d \in Ends : Single(writes'[d]) /\ ChainOf(writes'[d]) = ChainOf(writes[d])
    BY <1>7, <1>8, <2>1 DEF WriterOK, Ends
  <2> QED
    BY <1>9, <2>2 DEF WriterOK, IsConnected
<1>14. NotTold'
  BY <1>1, <1>6, <1>9, TailSeq DEF NotTold
<1> QED
  BY <1>11, <1>12, <1>13, <1>14

\* The next word of a message: it goes into m_msgTemporaryIn, which may be pushed.
ReadStep(e, tmp) ==
    /\ wire[Peer(e)] # <<>> /\ wire' = Taken(e)
    /\ reading[e] \in {"header", "body"}
    /\ m_msgTemporaryIn' = [m_msgTemporaryIn EXCEPT ![e] = tmp]
    /\ \/ tmp.id = m_msgTemporaryIn[e].id
       \/ Word(e).k = "header" /\ tmp.id = Word(e).id
    /\ \E what \in {"header", "body"} : reading' = [reading EXCEPT ![e] = what]
    /\ received' \in {received, [received EXCEPT ![e] = Append(@, tmp)]}
    /\ inbox' \in Nat
    /\ UNCHANGED <<sock, posted, m_qMessagesOut, writes, handshake, listed, sent>>

LEMMA ReadStepIInv ==
  ASSUME IInv, NEW e \in Ends, NEW tmp \in Read, ReadStep(e, tmp)
  PROVE  IInv'
<1> USE DEF IInv
<1>1. /\ wire[Peer(e)] # <<>> /\ wire' = [wire EXCEPT ![Peer(e)] = Tail(@)]
      /\ reading[e] \in {"header", "body"}
      /\ UNCHANGED <<sock, posted, m_qMessagesOut, writes, handshake, listed, sent>>
  BY DEF ReadStep, Taken
<1>2. wire' \in [Ends -> Seq(Words)] /\ Peer(e) \in Ends
      /\ (\A d \in Ends : d # Peer(e) => wire'[d] = wire[d])
      /\ wire'[Peer(e)] = Tail(wire[Peer(e)])
  <2>1. Peer(e) \in Ends
    BY DEF Peer, Ends
  <2>2. wire[Peer(e)] \in Seq(Words)
    BY <2>1 DEF TypeOK
  <2>3. Tail(wire[Peer(e)]) \in Seq(Words)
    BY <2>2, <1>1, TailSeq
  <2> QED
    BY <1>1, <2>1, <2>3 DEF TypeOK
<1>3. /\ m_msgTemporaryIn' \in [Ends -> Read]
      /\ m_msgTemporaryIn'[e] = tmp
      /\ \A d \in Ends : d # e => m_msgTemporaryIn'[d] = m_msgTemporaryIn[d]
  BY DEF ReadStep, TypeOK, Read
<1>4. PICK what \in {"header", "body"} : reading' = [reading EXCEPT ![e] = what]
  BY DEF ReadStep
<1>5. /\ reading' \in [Ends -> {"none", "connect", "validation", "header", "body"}]
      /\ reading'[e] \in {"header", "body"}
      /\ \A d \in Ends : d # e => reading'[d] = reading[d]
  BY <1>4 DEF TypeOK
<1>6. /\ received' \in [Ends -> Seq(Read)]
      /\ received'[e] \in {received[e], Append(received[e], tmp)}
      /\ \A d \in Ends : d # e => received'[d] = received[d]
  <2>1. received \in [Ends -> Seq(Read)]
    BY DEF TypeOK, Read
  <2>2. Append(received[e], tmp) \in Seq(Read)
    BY <2>1, AppendSeq
  <2> QED
    BY <2>1, <2>2 DEF ReadStep
<1>7. inbox' \in Nat
  BY DEF ReadStep
<1>8. TypeOK'
  BY <1>1, <1>2, <1>3, <1>5, <1>6, <1>7 DEF TypeOK, Read
<1>9. e = "server" => handshake = "good"
  BY <1>1 DEF ReadsValidated
<1>10. e = "client" => sock["server"] \notin {"none", "backlog"}
  BY <1>1 DEF Unaccepted, Peer
<1>11. e = "server" => sock["server"] \notin {"none", "backlog"}
  BY <1>1 DEF Unaccepted
<1>12. Unaccepted'
  BY <1>1, <1>10, <1>11 DEF Unaccepted, Ends
<1>13. FirstWord'
  <2>1. CASE e = "client"
    BY <2>1, <1>5 DEF FirstWord
  <2>2. CASE e = "server"
    <3>1. wire'["server"] = wire["server"] /\ reading'["client"] = reading["client"]
      BY <2>2, <1>2, <1>5, EndsOK DEF Peer
    <3> QED
      BY <3>1, <1>1 DEF FirstWord
  <2> QED
    BY <2>1, <2>2 DEF Ends
<1>14. ReadsValidated'
  <2>1. CASE e = "server"
    BY <2>1, <1>1, <1>5, <1>9 DEF ReadsValidated
  <2>2. CASE e = "client"
    <3>1. received'["server"] = received["server"] /\ reading'["server"] = reading["server"]
      BY <2>2, <1>5, <1>6, EndsOK
    <3> QED
      BY <3>1, <1>1 DEF ReadsValidated
  <2> QED
    BY <2>1, <2>2 DEF Ends
<1>15. WriterOK'
  BY <1>1 DEF WriterOK, IsConnected
<1>16. NotTold'
  <2> SUFFICES ASSUME handshake # "good", e = "client"
               PROVE  /\ wire'["server"] \in Seq(UntoldWords)
                      /\ m_msgTemporaryIn'["client"].id # ClientAccepted
                      /\ received'["client"] \in Seq(Untold(Read))
    BY <1>1, <1>9 DEF NotTold, Ends
  <2>1. /\ wire["server"] \in Seq(UntoldWords)
        /\ m_msgTemporaryIn["client"].id # ClientAccepted
        /\ received["client"] \in Seq(Untold(Read))
    BY DEF NotTold
  <2>2. Peer(e) = "server"
    BY DEF Peer
  <2>3. Word(e) \in UntoldWords /\ wire'["server"] \in Seq(UntoldWords)
    BY <2>1, <2>2, <1>1, <1>2, TailSeq DEF Word
  <2>4. tmp.id # ClientAccepted
    BY <2>1, <2>3 DEF ReadStep, UntoldWords
  <2>5. Append(received["client"], tmp) \in Seq(Untold(Read))
    BY <2>1, <2>4, AppendSeq DEF Untold
  <2> QED
    BY <2>1, <2>3, <2>4, <2>5, <1>3, <1>6
<1> QED
  BY <1>8, <1>12, <1>13, <1>14, <1>15, <1>16

LEMMA ReadHeaderIInv == ASSUME IInv, NEW e \in Ends, ReadHeader(e) PROVE IInv'
<1> DEFINE tmp == [m_msgTemporaryIn[e] EXCEPT !.id = Word(e).id]
<1>1. /\ wire[Peer(e)] # <<>> /\ wire' = Taken(e) /\ reading[e] = "header"
      /\ Word(e).k = "header"
      /\ m_msgTemporaryIn' = [m_msgTemporaryIn EXCEPT ![e] = tmp]
      /\ IF tmp.id \in Bodied THEN Await(e, "body") /\ UNCHANGED <<received, inbox>>
                              ELSE Push(e, tmp)
      /\ UNCHANGED <<sock, posted, m_qMessagesOut, writes, handshake, listed, sent>>
  BY DEF ReadHeader, Reads
<1>2. Word(e).id \in Ids
  <2>1. wire[Peer(e)] \in Seq(Words)
    BY DEF IInv, TypeOK, Peer, Ends
  <2>2. Word(e) \in Words
    BY <2>1, <1>1, TailSeq DEF Word
  <2> QED
    BY <2>2, <1>1, WordTypes
<1>3. tmp \in Read /\ tmp.id = Word(e).id
  BY <1>2 DEF IInv, TypeOK, Read
<1>4. inbox \in Nat
  BY DEF IInv, TypeOK
<1>5. /\ \E what \in {"header", "body"} : reading' = [reading EXCEPT ![e] = what]
      /\ received' \in {received, [received EXCEPT ![e] = Append(@, tmp)]}
      /\ inbox' \in Nat
  <2>1. CASE tmp.id \in Bodied
    BY <2>1, <1>1, <1>4 DEF Await
  <2>2. CASE tmp.id \notin Bodied
    BY <2>2, <1>1, <1>4 DEF Push, Await
  <2> QED
    BY <2>1, <2>2
<1>6. ReadStep(e, tmp)
  BY <1>1, <1>3, <1>5 DEF ReadStep
<1> QED
  BY <1>3, <1>6, ReadStepIInv

LEMMA ReadBodyIInv == ASSUME IInv, NEW e \in Ends, ReadBody(e) PROVE IInv'
<1> DEFINE tmp == [m_msgTemporaryIn[e] EXCEPT !.body = Word(e).body]
<1>1. /\ wire[Peer(e)] # <<>> /\ wire' = Taken(e) /\ reading[e] = "body"
      /\ Word(e).k = "body"
      /\ m_msgTemporaryIn' = [m_msgTemporaryIn EXCEPT ![e] = tmp] /\ Push(e, tmp)
      /\ UNCHANGED <<sock, posted, m_qMessagesOut, writes, handshake, listed, sent>>
  BY DEF ReadBody, Reads
<1>2. Word(e).body \in Payloads
  <2>1. wire[Peer(e)] \in Seq(Words)
    BY DEF IInv, TypeOK, Peer, Ends
  <2>2. Word(e) \in Words
    BY <2>1, <1>1, TailSeq DEF Word
  <2> QED
    BY <2>2, <1>1, WordTypes
<1>3. tmp \in Read /\ tmp.id = m_msgTemporaryIn[e].id
  BY <1>2 DEF IInv, TypeOK, Read
<1>4. inbox \in Nat
  BY DEF IInv, TypeOK
<1>5. /\ reading' = [reading EXCEPT ![e] = "header"]
      /\ received' = [received EXCEPT ![e] = Append(@, tmp)]
      /\ inbox' \in Nat
  BY <1>1, <1>4 DEF Push, Await
<1>6. ReadStep(e, tmp)
  BY <1>1, <1>3, <1>5 DEF ReadStep
<1> QED
  BY <1>3, <1>6, ReadStepIInv

LEMMA ReadFailIInv == ASSUME IInv, NEW e \in Ends, ReadFail(e) PROVE IInv'
<1> USE DEF IInv
<1>1. /\ reading[e] \in {"validation", "header", "body"}
      /\ sock' = [sock EXCEPT ![e] = "closed"] /\ reading' = [reading EXCEPT ![e] = "none"]
      /\ UNCHANGED <<posted, m_qMessagesOut, writes, wire, m_msgTemporaryIn, handshake,
                     listed, inbox, sent, received>>
  BY DEF ReadFail, Close, Await
<1>2. /\ \A d \in Ends : d # e => sock'[d] = sock[d] /\ reading'[d] = reading[d]
      /\ sock'[e] = "closed" /\ reading'[e] = "none"
  BY <1>1 DEF TypeOK
<1>3. TypeOK'
  BY <1>1 DEF TypeOK
<1>4. sock["server"] \in {"none", "backlog"} => e = "client"
  BY <1>1 DEF Unaccepted, Ends
<1>5. Unaccepted' /\ FirstWord' /\ ReadsValidated'
  <2>1. Unaccepted'
    BY <1>1, <1>2, <1>4, EndsOK DEF Unaccepted
  <2>2. FirstWord'
    BY <1>1, <1>2, <1>4, EndsOK DEF FirstWord
  <2> QED
    BY <2>1, <2>2, <1>1, <1>2, EndsOK DEF ReadsValidated
<1>6. WriterOK'
  BY <1>1, <1>2 DEF WriterOK, IsConnected
<1>7. NotTold'
  BY <1>1 DEF NotTold
<1> QED
  BY <1>3, <1>5, <1>6, <1>7

LEMMA LeaveIInv == ASSUME IInv, Leave PROVE IInv'
<1> USE DEF IInv
<1>1. /\ sock' = [sock EXCEPT !["client"] = "closed"]
      /\ posted' = [posted EXCEPT !["client"] = <<>>]
      /\ writes' = [writes EXCEPT !["client"] = <<>>]
      /\ reading' = [reading EXCEPT !["client"] = "none"]
      /\ UNCHANGED <<m_qMessagesOut, wire, m_msgTemporaryIn, handshake, listed, inbox,
                     sent, received>>
  BY DEF Leave, Close, Await
<1>2. /\ sock'["server"] = sock["server"] /\ reading'["server"] = reading["server"]
      /\ posted'["server"] = posted["server"] /\ writes'["server"] = writes["server"]
      /\ sock'["client"] = "closed" /\ reading'["client"] = "none"
      /\ writes'["client"] = <<>>
  BY <1>1, EndsOK DEF TypeOK
<1>3. TypeOK'
  <2>1. \A S : <<>> \in Seq(S)
    OBVIOUS
  <2>2. posted' \in [Ends -> Seq(Messages)]
    BY <2>1, <1>1 DEF TypeOK
  <2>3. writes' \in [Ends -> Seq(Ops)]
    BY <2>1, <1>1 DEF TypeOK, Ops
  <2> QED
    BY <2>2, <2>3, <1>1 DEF TypeOK, Ops
<1>4. Unaccepted' /\ FirstWord' /\ ReadsValidated'
  BY <1>1, <1>2 DEF Unaccepted, FirstWord, ReadsValidated
<1>5. WriterOK'
  BY <1>1, <1>2, ChainEmpty DEF WriterOK, IsConnected, Ends
<1>6. NotTold'
  BY <1>1, <1>2 DEF NotTold
<1> QED
  BY <1>3, <1>4, <1>5, <1>6

\* The game thread touches neither end's chain.
LEMMA GameLoopIInv == ASSUME IInv, GameLoop PROVE IInv'
<1> USE DEF IInv
<1>1. UNCHANGED <<sock, posted, m_qMessagesOut, writes, wire, reading, m_msgTemporaryIn,
                  handshake, sent, received>>
      /\ listed' \in BOOLEAN /\ inbox' \in Nat
  <2>1. listed \in BOOLEAN /\ inbox \in Nat
    BY DEF TypeOK
  <2>2. CASE Handle
    BY <2>1, <2>2 DEF Handle
  <2>3. CASE Forget
    BY <2>1, <2>3 DEF Forget
  <2> QED
    BY <2>2, <2>3 DEF GameLoop
<1>2. TypeOK'
  BY <1>1 DEF TypeOK
<1>3. Unaccepted' /\ FirstWord' /\ ReadsValidated' /\ WriterOK' /\ NotTold'
  BY <1>1 DEF Unaccepted, FirstWord, ReadsValidated, WriterOK, IsConnected, NotTold
<1> QED
  BY <1>2, <1>3

LEMMA StutterIInv == ASSUME IInv, UNCHANGED vars PROVE IInv'
  BY DEF vars, IInv, TypeOK, Unaccepted, FirstWord, ReadsValidated, WriterOK,
         IsConnected, NotTold

LEMMA NextIInv == IInv /\ [Next]_vars => IInv'
<1> SUFFICES ASSUME IInv, [Next]_vars PROVE IInv'
  OBVIOUS
<1>1. CASE Establish
  BY <1>1, EstablishIInv
<1>2. CASE Accept
  BY <1>2, AcceptIInv
<1>3. ASSUME NEW e \in Ends, Send(e) PROVE IInv'
  BY <1>3, SendIInv
<1>4. ASSUME NEW e \in Ends, Asio(e) PROVE IInv'
  BY <1>4, RunPostedIInv, WriteDoneIInv, ReadValidationServerIInv, ConnectDoneIInv,
     ReadValidationClientIInv, ReadHeaderIInv, ReadBodyIInv, ReadFailIInv DEF Asio
<1>5. CASE GameLoop
  BY <1>5, GameLoopIInv
<1>6. CASE Leave
  BY <1>6, LeaveIInv
<1>7. CASE UNCHANGED vars
  BY <1>7, StutterIInv
<1> QED
  BY <1>1, <1>2, <1>3, <1>4, <1>5, <1>6, <1>7 DEF Next

LEMMA Invariance == Spec => []IInv
<1>1. Init => IInv
  BY InitIInv
<1>2. IInv /\ [Next]_vars => IInv'
  BY NextIInv
<1> QED
  BY <1>1, <1>2, PTL DEF Spec

-----------------------------------------------------------------------------
(* The theorems.                                                           *)

\* Every variable keeps its type: the client, in particular, scrambles the
\* challenge and nothing else, and no body is written for a message without one.
THEOREM TypeCorrect == Spec => []TypeOK
<1>1. IInv => TypeOK
  BY DEF IInv
<1> QED
  BY <1>1, Invariance, PTL

\* On an open socket the queue is being written, by one async_write at a time
\* (spiderNet.h:220-229), however many messages the other thread posts.
THEOREM SingleWriter == Spec => []OneWriter
<1>1. IInv => OneWriter
  BY DEF IInv, WriterOK, OneWriter, Single, ChainOf, Chain
<1> QED
  BY <1>1, Invariance, PTL

\* OnMessage and OnClientValidated come after the handshake was checked
\* (spiderNet.h:410-430), and the client hears of it only then.
THEOREM CheckedFirst == Spec => []ValidatedFirst
<1>1. IInv => ValidatedFirst
  <2> SUFFICES ASSUME IInv PROVE ValidatedFirst
    OBVIOUS
  <2>1. received["server"] # <<>> => handshake = "good"
    BY DEF IInv, ReadsValidated
  <2>2. ASSUME NEW j \in 1 .. Len(received["client"]), handshake # "good"
        PROVE  received["client"][j].id # ClientAccepted
    <3>1. received["client"] \in Seq(Untold(Read))
      BY <2>2 DEF IInv, NotTold
    <3>2. received["client"][j] \in Untold(Read)
      BY <3>1
    <3> QED
      BY <3>2 DEF Untold
  <2> QED
    BY <2>1, <2>2 DEF ValidatedFirst
<1> QED
  BY <1>1, Invariance, PTL
=============================================================================
