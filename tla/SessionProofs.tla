--------------------------- MODULE SessionProofs ----------------------------
(***************************************************************************)
(* Session delivers in order, for any number of messages: every step of    *)
(* Session is a step of FifoChannel or leaves it alone.  The invariant     *)
(* says that what the peer received, what is in the connection, what is    *)
(* queued and what is posted are one line of consecutive numbers, as long  *)
(* as the connection is up.                                                *)
(***************************************************************************)
EXTENDS Session, TLAPS

Numbered(q, n) == \A i \in 1..Len(q) : q[i] = n + i

\* The messages handed to the connection, and those of them still queued.
Out == Len(received) + Len(stream)
Done == IF completion = "ok" THEN 1 ELSE 0

(* What came out of the connection, and what is still in it, is in order.  *)
InOrder ==
    /\ Numbered(received, 0)
    /\ Numbered(stream, Len(received))
    /\ Out <= sent

(* What is queued and posted continues the line.                           *)
Line ==
    ~Broken =>
        /\ completion # "error"
        /\ \A i \in (Done + 1)..Len(send_queue) : send_queue[i] = Out - Done + i
        /\ Numbered(posted, Out - Done + Len(send_queue))
        /\ sent = Out - Done + Len(send_queue) + Len(posted)

SessionInv == TypeOK /\ OneWriteAtATime /\ FailureReportedOnce /\ InOrder /\ Line

-----------------------------------------------------------------------------
(* What Append and Tail do to a sequence, element by element.              *)
LEMMA AppendFacts ==
    ASSUME NEW S, NEW q \in Seq(S), NEW m \in S
    PROVE  /\ Append(q, m) \in Seq(S)
           /\ Len(q) \in Nat
           /\ Len(Append(q, m)) = Len(q) + 1
           /\ \A i \in 1..Len(q) : Append(q, m)[i] = q[i]
           /\ Append(q, m)[Len(q) + 1] = m
  OBVIOUS

LEMMA TailFacts ==
    ASSUME NEW S, NEW q \in Seq(S), q # <<>>
    PROVE  /\ Tail(q) \in Seq(S)
           /\ Len(q) \in Nat /\ Len(q) >= 1
           /\ Len(Tail(q)) = Len(q) - 1
           /\ \A i \in 1..(Len(q) - 1) : Tail(q)[i] = q[i + 1]
           /\ Head(q) = q[1] /\ Head(q) \in S
  OBVIOUS

(* A numbered sequence stays numbered when the next number is appended and *)
(* when its first element is taken away.                                   *)
LEMMA NumberedAppend ==
    ASSUME NEW S, NEW q \in Seq(S), NEW n \in Int, NEW m \in S,
           Numbered(q, n), m = n + Len(q) + 1
    PROVE  Numbered(Append(q, m), n)
<1> SUFFICES ASSUME NEW i \in 1..Len(Append(q, m))
             PROVE  Append(q, m)[i] = n + i
  BY DEF Numbered
<1>1. i \in 1..Len(q) \/ i = Len(q) + 1
  BY AppendFacts
<1>2. CASE i \in 1..Len(q)
  BY <1>2, AppendFacts DEF Numbered
<1>3. CASE i = Len(q) + 1
  BY <1>3, AppendFacts
<1> QED BY <1>1, <1>2, <1>3

LEMMA NumberedTail ==
    ASSUME NEW S, NEW q \in Seq(S), NEW n \in Int, q # <<>>, Numbered(q, n)
    PROVE  Numbered(Tail(q), n + 1) /\ Head(q) = n + 1
<1>1. Head(q) = n + 1
  BY TailFacts DEF Numbered
<1>2. ASSUME NEW i \in 1..Len(Tail(q))
      PROVE  Tail(q)[i] = n + 1 + i
  <2>1. i \in 1..(Len(q) - 1) /\ i + 1 \in 1..Len(q)
    BY TailFacts
  <2>2. Tail(q)[i] = q[i + 1]
    BY <2>1, TailFacts
  <2> QED BY <2>1, <2>2 DEF Numbered
<1> QED BY <1>1, <1>2 DEF Numbered

(* The lengths of the sequences are numbers.                               *)
LEMMA Lengths ==
    ASSUME TypeOK
    PROVE  /\ Len(posted) \in Nat /\ Len(send_queue) \in Nat
           /\ Len(stream) \in Nat /\ Len(received) \in Nat
           /\ sent \in Nat /\ MaxSends \in Nat /\ Done \in 0..1 /\ Out \in Nat
  BY MaxSendsAssumption DEF TypeOK, Done, Out

LEMMA SessionInit == Init => SessionInv
<1> SUFFICES ASSUME Init PROVE SessionInv
  OBVIOUS
<1>1. TypeOK
  BY MaxSendsAssumption DEF Init, TypeOK, NoMessage
<1>2. OneWriteAtATime /\ FailureReportedOnce
  BY DEF Init, OneWriteAtATime, FailureReportedOnce, NoMessage
<1>3. InOrder /\ Line
  BY DEF Init, InOrder, Line, Numbered, Out, Done, Broken
<1> QED BY <1>1, <1>2, <1>3 DEF SessionInv

-----------------------------------------------------------------------------
(* One lemma for every action.                                             *)

LEMMA SendInv == SessionInv /\ Send => SessionInv'
<1> SUFFICES ASSUME SessionInv, Send PROVE SessionInv'
  OBVIOUS
<1>1. /\ sent < MaxSends /\ sent' = sent + 1 /\ posted' = Append(posted, sent + 1)
      /\ UNCHANGED <<send_queue, writing, completion, stream, received, open, peer,
                     reading, online, fatals>>
  BY DEF Send, socket, status
<1>2. TypeOK /\ sent \in Nat /\ sent + 1 \in Message /\ posted \in Seq(Message)
  BY <1>1, Lengths DEF SessionInv, TypeOK, Message
<1>3. TypeOK'
  BY <1>1, <1>2 DEF TypeOK, Message
<1>4. OneWriteAtATime' /\ FailureReportedOnce'
  BY <1>1 DEF SessionInv, OneWriteAtATime, FailureReportedOnce
<1>5. InOrder'
  BY <1>1, <1>2, Lengths DEF SessionInv, InOrder, Numbered, Out
<1>6. Line'
  <2> SUFFICES ASSUME ~Broken PROVE Line'
    BY <1>1 DEF Line, Broken
  <2> DEFINE n == Out - Done + Len(send_queue)
  <2>1. n \in Int /\ Numbered(posted, n) /\ sent = n + Len(posted)
    BY <1>2, Lengths DEF SessionInv, Line
  <2>2. Numbered(posted', n)
    BY <1>1, <1>2, <2>1, NumberedAppend
  <2>3. Out' = Out /\ Done' = Done /\ n' = n
    BY <1>1 DEF Out, Done
  <2>4. sent' = n + Len(posted')
    BY <1>1, <1>2, <2>1, AppendFacts
  <2> QED BY <1>1, <2>2, <2>3, <2>4 DEF SessionInv, Line
<1> QED BY <1>3, <1>4, <1>5, <1>6 DEF SessionInv

LEMMA SyncSendInv == SessionInv /\ SyncSend => SessionInv'
<1> SUFFICES ASSUME SessionInv, SyncSend PROVE SessionInv'
  OBVIOUS
<1>1. /\ sent < MaxSends /\ Len(received) = sent /\ sent' = sent + 1
      /\ stream' = IF Broken THEN stream ELSE Append(stream, sent + 1)
      /\ UNCHANGED <<posted, send_queue, writing, completion, received, open, peer,
                     reading, online, fatals>>
  BY DEF SyncSend, SyncSendAllowed, writer, status
<1>2. TypeOK /\ sent \in Nat /\ sent + 1 \in Message /\ stream \in Seq(Message)
  BY <1>1, Lengths DEF SessionInv, TypeOK, Message
<1>3. Len(stream) = 0
  BY <1>1, <1>2, Lengths DEF SessionInv, InOrder, Out
<1>4. Len(stream') <= 1 /\ stream' \in Seq(Message)
  BY <1>1, <1>2, <1>3, AppendFacts
<1>5. TypeOK'
  BY <1>1, <1>2, <1>4, MaxSendsAssumption DEF TypeOK, Message
<1>6. OneWriteAtATime' /\ FailureReportedOnce'
  BY <1>1 DEF SessionInv, OneWriteAtATime, FailureReportedOnce
<1>7. CASE Broken
  BY <1>1, <1>2, <1>5, <1>6, <1>7, Lengths
  DEF SessionInv, InOrder, Numbered, Out, Line, Broken
<1>8. CASE ~Broken
  <2>1. Numbered(stream', Len(received'))
    <3>1. Numbered(stream, Len(received)) /\ Len(received) \in Int
      BY <1>2, Lengths DEF SessionInv, InOrder
    <3>2. sent + 1 = Len(received) + Len(stream) + 1
      BY <1>1, <1>2, <1>3
    <3>3. Numbered(Append(stream, sent + 1), Len(received))
      BY <1>2, <3>1, <3>2, NumberedAppend
    <3> QED BY <1>1, <1>8, <3>3
  <2>2. Len(stream') = 1 /\ Out' = sent + 1 /\ Out = sent
    BY <1>1, <1>2, <1>3, <1>8, AppendFacts DEF Out
  <2>3. InOrder'
    BY <1>1, <2>1, <2>2 DEF SessionInv, InOrder, Numbered
  <2>4. Len(send_queue) = Done /\ Len(posted) = 0
    <3>1. completion = "ok" => Len(send_queue) >= 1
      BY <1>2, TailFacts DEF SessionInv, OneWriteAtATime, TypeOK
    <3>2. sent = Out - Done + Len(send_queue) + Len(posted)
      BY <1>8 DEF SessionInv, Line
    <3>3. /\ Len(send_queue) \in Nat /\ Len(posted) \in Nat /\ Done \in 0..1
          /\ Out \in Nat /\ sent \in Nat
      BY <1>2, Lengths
    <3>4. Len(send_queue) >= Done
      BY <3>1, <3>3 DEF Done
    <3> QED BY <2>2, <3>2, <3>3, <3>4
  <2>5. Done' = Done /\ Done \in 0..1
    BY <1>1 DEF Done
  <2>6. Line'
    BY <1>1, <1>2, <1>8, <2>2, <2>4, <2>5 DEF SessionInv, Line, Numbered
  <2> QED BY <1>5, <1>6, <2>3, <2>6 DEF SessionInv
<1> QED BY <1>7, <1>8

LEMMA DoWriteTCPInv == SessionInv /\ DoWriteTCP => SessionInv'
<1> SUFFICES ASSUME SessionInv, DoWriteTCP PROVE SessionInv'
  OBVIOUS
<1> DEFINE m == Head(posted)
<1>1. /\ posted # <<>> /\ posted' = Tail(posted) /\ send_queue' = Append(send_queue, m)
      /\ IF send_queue = <<>> THEN writing' = m /\ completion' = "none"
                              ELSE UNCHANGED <<writing, completion>>
      /\ UNCHANGED <<sent, stream, received, open, peer, reading, online, fatals>>
  BY DEF DoWriteTCP, MayStart, socket, status
<1>2. TypeOK /\ posted \in Seq(Message) /\ send_queue \in Seq(Message) /\ m \in Message
  BY <1>1, TailFacts DEF SessionInv, TypeOK
<1> HIDE DEF m
<1>3. TypeOK'
  BY <1>1, <1>2, TailFacts DEF TypeOK
<1>4. OneWriteAtATime'
  <2>1. send_queue' # <<>>
    BY <1>1, <1>2, Lengths, AppendFacts
  <2>2. CASE send_queue = <<>>
    BY <1>1, <1>2, <2>1, <2>2 DEF OneWriteAtATime, Message, NoMessage
  <2>3. CASE send_queue # <<>>
    <3>1. Head(send_queue') = Head(send_queue)
      <4>1. Head(send_queue') = send_queue'[1] /\ Head(send_queue) = send_queue[1]
        BY <1>1, <1>2, <2>1, <2>3
      <4>2. send_queue'[1] = send_queue[1]
        BY <1>1, <1>2, <2>3, AppendFacts, TailFacts
      <4> QED BY <4>1, <4>2
    <3> QED BY <1>1, <2>1, <2>3, <3>1 DEF SessionInv, OneWriteAtATime
  <2> QED BY <2>2, <2>3
<1>5. FailureReportedOnce'
  BY <1>1 DEF SessionInv, FailureReportedOnce
<1>6. InOrder'
  BY <1>1 DEF SessionInv, InOrder, Numbered, Out
<1>7. Line'
  <2> SUFFICES ASSUME ~Broken PROVE Line'
    BY <1>1 DEF Line, Broken
  <2> DEFINE n == Out - Done + Len(send_queue)
  <2>1. /\ n \in Int /\ Numbered(posted, n) /\ sent = n + Len(posted)
        /\ completion # "error"
        /\ \A i \in (Done + 1)..Len(send_queue) : send_queue[i] = Out - Done + i
    BY <1>2, Lengths DEF SessionInv, Line
  <2>2. Numbered(posted', n + 1) /\ m = n + 1
    BY <1>1, <1>2, <2>1, NumberedTail DEF m
  <2>3. Done' = Done /\ Out' = Out /\ completion' # "error"
    <3>1. send_queue = <<>> => completion = "none"
      BY <1>2 DEF SessionInv, OneWriteAtATime, TypeOK
    <3> QED BY <1>1, <2>1, <3>1 DEF Done, Out
  <2>4. Len(send_queue') = Len(send_queue) + 1 /\ Len(posted') = Len(posted) - 1
    BY <1>1, <1>2, AppendFacts, TailFacts
  <2>l. Len(send_queue) \in Nat /\ Len(posted) \in Nat /\ Done \in 0..1 /\ Out \in Nat
    BY <1>2, Lengths
  <2>5. ASSUME NEW i \in (Done + 1)..Len(send_queue')
        PROVE  send_queue'[i] = Out - Done + i
    <3>1. i \in (Done + 1)..Len(send_queue) \/ i = Len(send_queue) + 1
      BY <1>2, <2>4, Lengths
    <3>2. CASE i \in (Done + 1)..Len(send_queue)
      <4>1. i \in 1..Len(send_queue)
        BY <1>2, <3>2, Lengths
      <4> QED BY <1>1, <1>2, <2>1, <3>2, <4>1, AppendFacts
    <3>3. CASE i = Len(send_queue) + 1
      <4>1. send_queue'[i] = m
        BY <1>1, <1>2, <3>3, AppendFacts
      <4> QED BY <2>2, <2>l, <3>3, <4>1
    <3> QED BY <3>1, <3>2, <3>3
  <2>6. Numbered(posted', Out' - Done' + Len(send_queue'))
    <3>1. Out' - Done' + Len(send_queue') = n + 1
      BY <2>3, <2>4, <2>l
    <3> QED BY <2>2, <3>1
  <2>7. sent' = Out' - Done' + Len(send_queue') + Len(posted')
    BY <1>1, <2>1, <2>3, <2>4, <2>l
  <2>8. \A i \in (Done' + 1)..Len(send_queue') : send_queue'[i] = Out' - Done' + i
    BY <2>3, <2>5
  <2> QED BY <2>3, <2>6, <2>7, <2>8 DEF Line
<1> QED BY <1>3, <1>4, <1>5, <1>6, <1>7 DEF SessionInv

LEMMA WriteTCPInv == SessionInv /\ WriteTCP => SessionInv'
<1> SUFFICES ASSUME SessionInv, WriteTCP PROVE SessionInv'
  OBVIOUS
<1>0. TypeOK /\ send_queue \in Seq(Message) /\ send_queue # <<>>
  BY DEF SessionInv, TypeOK, OneWriteAtATime, WriteTCP
<1>1. CASE completion = "ok"
  <2>1. /\ completion' = "none" /\ send_queue' = Tail(send_queue)
        /\ writing' = IF Tail(send_queue) = <<>> THEN NoMessage ELSE Head(Tail(send_queue))
        /\ UNCHANGED <<sent, posted, stream, received, open, peer, reading, online, fatals>>
    BY <1>1 DEF WriteTCP, NextToWrite, socket, status
  <2>2. TypeOK'
    <3>1. Tail(send_queue) \in Seq(Message)
      BY <1>0, TailFacts
    <3>2. writing' \in Message \cup {NoMessage}
      BY <2>1, <3>1, TailFacts
    <3> QED BY <1>0, <2>1, <3>1, <3>2 DEF TypeOK
  <2>3. OneWriteAtATime' /\ FailureReportedOnce'
    BY <2>1 DEF SessionInv, OneWriteAtATime, FailureReportedOnce
  <2>4. InOrder'
    BY <2>1 DEF SessionInv, InOrder, Numbered, Out
  <2>5. Line'
    <3> SUFFICES ASSUME ~Broken PROVE Line'
      BY <2>1 DEF Line, Broken
    <3>1. Done = 1 /\ Done' = 0 /\ Out' = Out
      BY <1>1, <2>1 DEF Done, Out
    <3>2. Len(send_queue') = Len(send_queue) - 1
      BY <1>0, <2>1, TailFacts
    <3>3. ASSUME NEW i \in 1..Len(send_queue')
          PROVE  send_queue'[i] = Out + i
      <4>1. i \in 1..(Len(send_queue) - 1) /\ i + 1 \in 2..Len(send_queue)
        BY <1>0, <3>2, Lengths
      <4>2. send_queue'[i] = send_queue[i + 1]
        BY <1>0, <2>1, <4>1, TailFacts
      <4>3. send_queue[i + 1] = Out - 1 + (i + 1)
        BY <3>1, <4>1 DEF SessionInv, Line
      <4> QED BY <1>0, <4>1, <4>2, <4>3, Lengths
    <3>4. Out' - Done' + Len(send_queue') = Out - Done + Len(send_queue)
      BY <1>0, <3>1, <3>2, Lengths
    <3>5. Numbered(posted', Out' - Done' + Len(send_queue'))
      BY <2>1, <3>4 DEF SessionInv, Line
    <3>6. sent' = Out' - Done' + Len(send_queue') + Len(posted')
      BY <2>1, <3>4 DEF SessionInv, Line
    <3>7. \A i \in (Done' + 1)..Len(send_queue') : send_queue'[i] = Out' - Done' + i
      BY <1>0, <3>1, <3>3, Lengths
    <3> QED BY <2>1, <3>5, <3>6, <3>7 DEF Line
  <2> QED BY <2>2, <2>3, <2>4, <2>5 DEF SessionInv
<1>2. CASE completion = "error"
  <2>1. /\ completion' = "none" /\ writing' = NoMessage /\ Broken
        /\ IF online THEN online' = FALSE /\ fatals' = fatals + 1
                     ELSE UNCHANGED <<online, fatals>>
        /\ UNCHANGED <<sent, posted, send_queue, stream, received, open, peer, reading>>
    BY <1>2 DEF WriteTCP, FatalError, socket, SessionInv, Line
  <2>2. TypeOK'
    <3>1. fatals' \in Nat /\ online' \in BOOLEAN
      <4>1. fatals \in Nat /\ online \in BOOLEAN /\ fatals + 1 \in Nat
        BY <1>0 DEF TypeOK
      <4>2. CASE online
        BY <2>1, <4>1, <4>2, Zenon
      <4>3. CASE ~online
        BY <2>1, <4>1, <4>3, Zenon
      <4> QED BY <4>2, <4>3
    <3>2. writing' \in Message \cup {NoMessage} /\ completion' \in {"none", "ok", "error"}
      BY <2>1
    <3> QED BY <1>0, <2>1, <3>1, <3>2 DEF TypeOK
  <2>3. OneWriteAtATime' /\ FailureReportedOnce'
    BY <1>0, <2>1 DEF SessionInv, TypeOK, OneWriteAtATime, FailureReportedOnce
  <2>4. InOrder' /\ Line'
    BY <2>1 DEF SessionInv, InOrder, Numbered, Out, Line, Broken
  <2> QED BY <2>2, <2>3, <2>4 DEF SessionInv
<1> QED BY <1>0, <1>1, <1>2 DEF WriteTCP, TypeOK

LEMMA WriteSucceedsInv == SessionInv /\ WriteSucceeds => SessionInv'
<1> SUFFICES ASSUME SessionInv, WriteSucceeds PROVE SessionInv'
  OBVIOUS
<1>1. /\ writing # NoMessage /\ completion = "none" /\ open /\ completion' = "ok"
      /\ stream' = IF peer THEN Append(stream, writing) ELSE stream
      /\ UNCHANGED <<sent, posted, send_queue, writing, received, open, peer,
                     reading, online, fatals>>
  BY DEF WriteSucceeds, status
<1>2. /\ TypeOK /\ stream \in Seq(Message) /\ writing \in Message
      /\ send_queue # <<>> /\ writing = Head(send_queue) /\ send_queue \in Seq(Message)
  BY <1>1 DEF SessionInv, TypeOK, OneWriteAtATime
<1>3. OneWriteAtATime' /\ FailureReportedOnce'
  BY <1>1 DEF SessionInv, OneWriteAtATime, FailureReportedOnce
<1>4. CASE ~peer
  <2>1. TypeOK'
    BY <1>1, <1>2, <1>4 DEF TypeOK
  <2>2. InOrder' /\ Line'
    BY <1>1, <1>4 DEF SessionInv, InOrder, Numbered, Out, Line, Broken
  <2> QED BY <1>3, <2>1, <2>2 DEF SessionInv
<1>5. CASE peer
  <2>1. /\ Done = 0 /\ Done' = 1 /\ Len(send_queue) \in Nat /\ Len(send_queue) >= 1
        /\ Len(posted) \in Nat /\ Len(received) \in Nat /\ Len(stream) \in Nat
        /\ Out = Len(received) + Len(stream) /\ sent \in 0..MaxSends
        /\ Len(stream') = Len(stream) + 1 /\ Out' = Out + 1 /\ MaxSends \in Nat
    BY <1>1, <1>2, <1>5, Lengths, TailFacts, AppendFacts DEF Done, Out, TypeOK
  <2>2. ~Broken
    BY <1>1, <1>5 DEF Broken
  <2>3. /\ \A i \in 1..Len(send_queue) : send_queue[i] = Out + i
        /\ Numbered(posted, Out + Len(send_queue))
        /\ sent = Out + Len(send_queue) + Len(posted)
    <3>1. /\ \A i \in (Done + 1)..Len(send_queue) : send_queue[i] = Out - Done + i
          /\ Numbered(posted, Out - Done + Len(send_queue))
          /\ sent = Out - Done + Len(send_queue) + Len(posted)
      BY <2>2 DEF SessionInv, Line
    <3>2. Out - Done + Len(send_queue) = Out + Len(send_queue)
      BY <2>1
    <3>3. \A i \in 1..Len(send_queue) : send_queue[i] = Out + i
      BY <2>1, <3>1
    <3> QED BY <3>1, <3>2, <3>3
  <2>4. writing = Len(received) + Len(stream) + 1
    <3>1. writing = send_queue[1]
      BY <1>2, TailFacts
    <3> QED BY <2>1, <2>3, <3>1
  <2>5. InOrder'
    <3>1. Numbered(stream', Len(received))
      <4>1. Numbered(stream, Len(received)) /\ Len(received) \in Int
        BY <2>1 DEF SessionInv, InOrder
      <4> QED BY <1>1, <1>2, <1>5, <2>4, <4>1, NumberedAppend
    <3>2. Out' <= sent'
      BY <1>1, <2>1, <2>3
    <3> QED BY <1>1, <3>1, <3>2 DEF SessionInv, InOrder, Numbered
  <2>6. TypeOK'
    <3>1. stream' \in Seq(Message) /\ Len(stream') <= MaxSends
      BY <1>1, <1>2, <1>5, <2>1, <2>3, AppendFacts
    <3> QED BY <1>1, <1>2, <3>1 DEF TypeOK
  <2>7. Line'
    <3>1. Out' - Done' + Len(send_queue') = Out + Len(send_queue)
      BY <1>1, <2>1
    <3>2. \A i \in (Done' + 1)..Len(send_queue') : send_queue'[i] = Out' - Done' + i
      <4>1. /\ Done' + 1 = 2 /\ Len(send_queue') = Len(send_queue)
            /\ Out' - Done' = Out /\ send_queue' = send_queue
        BY <1>1, <2>1
      <4>2. \A i \in 2..Len(send_queue) : send_queue[i] = Out + i
        BY <2>1, <2>3
      <4> QED BY <4>1, <4>2
    <3>3. Numbered(posted', Out' - Done' + Len(send_queue'))
      BY <1>1, <2>3, <3>1
    <3>4. sent' = Out' - Done' + Len(send_queue') + Len(posted')
      BY <1>1, <2>3, <3>1
    <3> QED BY <1>1, <3>2, <3>3, <3>4 DEF Line
  <2> QED BY <1>3, <2>5, <2>6, <2>7 DEF SessionInv
<1> QED BY <1>4, <1>5

LEMMA PeerReadsInv == SessionInv /\ PeerReads => SessionInv'
<1> SUFFICES ASSUME SessionInv, PeerReads PROVE SessionInv'
  OBVIOUS
<1>1. /\ peer /\ stream # <<>> /\ received' = Append(received, Head(stream))
      /\ stream' = Tail(stream)
      /\ UNCHANGED <<sent, posted, send_queue, writing, completion, open, peer,
                     reading, online, fatals>>
  BY DEF PeerReads, writer, status
<1>2. TypeOK /\ stream \in Seq(Message) /\ received \in Seq(Message)
  BY DEF SessionInv, TypeOK
<1>3. /\ Numbered(Tail(stream), Len(received) + 1) /\ Head(stream) = Len(received) + 1
      /\ Head(stream) \in Message
  BY <1>1, <1>2, Lengths, NumberedTail, TailFacts DEF SessionInv, InOrder
<1>4. /\ Len(received') = Len(received) + 1 /\ Len(stream') = Len(stream) - 1
      /\ received' \in Seq(Message) /\ stream' \in Seq(Message)
      /\ Len(stream) \in Nat /\ Len(received) \in Nat
  BY <1>1, <1>2, <1>3, AppendFacts, TailFacts
<1>5. Out' = Out /\ Done' = Done
  BY <1>1, <1>4 DEF Out, Done
<1>6. TypeOK'
  BY <1>1, <1>2, <1>4, MaxSendsAssumption DEF TypeOK
<1>7. OneWriteAtATime' /\ FailureReportedOnce'
  BY <1>1 DEF SessionInv, OneWriteAtATime, FailureReportedOnce
<1>8. InOrder'
  <2>1. Numbered(received', 0)
    <3>1. Numbered(received, 0) /\ Head(stream) = 0 + Len(received) + 1 /\ 0 \in Int
      BY <1>3, <1>4 DEF SessionInv, InOrder
    <3> QED BY <1>1, <1>2, <1>3, <3>1, NumberedAppend
  <2>2. Numbered(stream', Len(received'))
    BY <1>1, <1>3, <1>4
  <2> QED BY <1>1, <1>5, <2>1, <2>2 DEF SessionInv, InOrder
<1>9. Line'
  BY <1>1, <1>5 DEF SessionInv, Line, Broken, Numbered
<1> QED BY <1>6, <1>7, <1>8, <1>9 DEF SessionInv

(* The rest breaks the connection, or is about a broken one.               *)
LEMMA BreakInv ==
    SessionInv /\ (ReceiveTCPError \/ Close \/ WriteFails \/ PeerCloses \/ Reset)
      => SessionInv'
<1> SUFFICES ASSUME SessionInv,
                    ReceiveTCPError \/ Close \/ WriteFails \/ PeerCloses \/ Reset
             PROVE  SessionInv'
  OBVIOUS
<1>1. /\ Broken' /\ UNCHANGED <<sent, posted, send_queue, writing, received>>
      /\ stream' = stream \/ stream' = <<>>
  <2>1. CASE ReceiveTCPError
    BY <2>1, Zenon DEF ReceiveTCPError, Broken, writer, socket
  <2>2. CASE Close
    BY <2>2, Zenon DEF Close, Broken, writer, status
  <2>3. CASE WriteFails
    BY <2>3, Zenon DEF WriteFails, Broken, socket
  <2>4. CASE PeerCloses
    BY <2>4, Zenon DEF PeerCloses, Broken, writer
  <2>5. CASE Reset
    BY <2>5, Zenon DEF Reset, Broken, writer
  <2> QED BY <2>1, <2>2, <2>3, <2>4, <2>5
<1>2. TypeOK /\ Len(stream) \in Nat /\ Len(received) \in Nat /\ sent \in 0..MaxSends
  BY Lengths DEF SessionInv, TypeOK
<1>3. open' \in BOOLEAN /\ peer' \in BOOLEAN
  BY <1>2 DEF TypeOK, ReceiveTCPError, Close, WriteFails, PeerCloses, Reset, socket
<1>4. /\ completion' \in {"none", "ok", "error"}
      /\ completion' # "none" => writing # NoMessage
  BY <1>2 DEF SessionInv, OneWriteAtATime, TypeOK, ReceiveTCPError, Close, WriteFails,
              PeerCloses, Reset, writer
<1>5. reading' \in BOOLEAN /\ online' \in BOOLEAN /\ fatals' \in Nat /\ FailureReportedOnce'
  <2>1. CASE UNCHANGED status
    BY <1>2, <2>1 DEF SessionInv, TypeOK, FailureReportedOnce, status
  <2>2. CASE ReceiveTCPError
    <3>1. /\ reading' = FALSE /\ fatals \in Nat /\ fatals <= 1 /\ online \in BOOLEAN
          /\ online <=> fatals = 0
          /\ IF online THEN online' = FALSE /\ fatals' = fatals + 1
                       ELSE UNCHANGED <<online, fatals>>
      BY <1>2, <2>2
      DEF SessionInv, TypeOK, FailureReportedOnce, ReceiveTCPError, FatalError, ReadsOn
    <3>2. CASE online
      <4>1. online' = FALSE /\ fatals' = fatals + 1
        BY <3>1, <3>2, Zenon
      <4>2. fatals = 0
        BY <3>1, <3>2, Zenon
      <4>3. fatals' = 1 /\ fatals' \in Nat /\ fatals' <= 1 /\ fatals' # 0
        BY <4>1, <4>2
      <4> QED BY <3>1, <4>1, <4>3, Zenon DEF FailureReportedOnce
    <3>3. CASE ~online
      <4>1. online' = online /\ fatals' = fatals
        BY <3>1, <3>3, Zenon
      <4> QED BY <3>1, <4>1 DEF FailureReportedOnce
    <3> QED BY <3>2, <3>3
  <2> QED BY <2>1, <2>2 DEF Close, WriteFails, PeerCloses, Reset
<1>6. TypeOK'
  <2>1. stream' \in Seq(Message) /\ Len(stream') <= MaxSends
    <3>1. stream \in Seq(Message) /\ Len(stream) <= MaxSends
      BY <1>2 DEF TypeOK
    <3>2. <<>> \in Seq(Message) /\ Len(<<>>) <= MaxSends
      BY MaxSendsAssumption
    <3> QED BY <1>1, <3>1, <3>2
  <2> QED BY <1>1, <1>2, <1>3, <1>4, <1>5, <2>1 DEF TypeOK
<1>7. OneWriteAtATime'
  BY <1>1, <1>4 DEF SessionInv, OneWriteAtATime
<1>8. InOrder'
  <2>1. CASE stream' = stream
    BY <1>1, <2>1 DEF SessionInv, InOrder, Numbered, Out
  <2>2. CASE stream' = <<>>
    BY <1>1, <1>2, <2>2 DEF SessionInv, InOrder, Numbered, Out
  <2> QED BY <1>1, <2>1, <2>2
<1> QED BY <1>1, <1>5, <1>6, <1>7, <1>8 DEF SessionInv, Line

LEMMA SessionNext == SessionInv /\ [Next]_vars => SessionInv'
<1> SUFFICES ASSUME SessionInv, [Next]_vars PROVE SessionInv'
  OBVIOUS
<1>1. CASE Next
  BY <1>1, SendInv, SyncSendInv, DoWriteTCPInv, WriteTCPInv, WriteSucceedsInv,
     PeerReadsInv, BreakInv DEF Next
<1>2. CASE UNCHANGED vars
  BY <1>2
  DEF vars, writer, socket, status, SessionInv, TypeOK, OneWriteAtATime,
      FailureReportedOnce, InOrder, Line, Numbered, Out, Done, Broken
<1> QED BY <1>1, <1>2

(* The invariant of which the theorems below are parts: types, one write   *)
(* at a time and one report of a failure, and what is written comes from   *)
(* the head of the queue (Session.cpp).                                    *)
THEOREM SessionInvariant == Spec => []SessionInv
  BY SessionInit, SessionNext, PTL DEF Spec

-----------------------------------------------------------------------------
(* The state of a session is well typed.                                   *)
THEOREM SessionTypeCorrect == Spec => []TypeOK
  BY SessionInvariant, PTL DEF SessionInv

(* async_write is never called while a write is in progress.               *)
THEOREM WritesOneAtATime == Spec => []OneWriteAtATime
  BY SessionInvariant, PTL DEF SessionInv

(* FatalError calls on_receive_ once, whichever side fails first.          *)
THEOREM ReportsFailureOnce == Spec => []FailureReportedOnce
  BY SessionInvariant, PTL DEF SessionInv

(* Session refines the safety part of the channel: what the peer receives  *)
(* is, in order and without gaps, what Send was called with.               *)
THEOREM SessionIsFifo == Spec => Fifo!SafeSpec
<1>1. Init => Fifo!Init
  BY DEF Init, Fifo!Init, Broken
<1>2. SessionInv /\ [Next]_vars => [Fifo!Next]_(Fifo!vars)
  <2> SUFFICES ASSUME SessionInv, [Next]_vars PROVE [Fifo!Next]_(Fifo!vars)
    OBVIOUS
  <2>1. CASE Send \/ SyncSend
    BY <2>1 DEF Send, SyncSend, socket, Fifo!Next, Fifo!Send, Broken
  <2>2. CASE PeerReads
    <3>1. TypeOK /\ stream # <<>> /\ received' = Append(received, Head(stream))
      BY <2>2 DEF SessionInv, PeerReads
    <3>2. Head(stream) = Len(received) + 1 /\ Len(received) < sent
      <4>1. stream \in Seq(Message) /\ Numbered(stream, Len(received)) /\ Out <= sent
        BY DEF SessionInv, TypeOK, InOrder
      <4>2. Head(stream) = Len(received) + 1
        BY <3>1, <4>1, Lengths, NumberedTail
      <4>3. Len(stream) >= 1 /\ Len(received) \in Nat /\ sent \in Nat /\ Len(stream) \in Nat
        BY <3>1, <4>1, Lengths, TailFacts
      <4> QED BY <4>1, <4>2, <4>3 DEF Out
    <3> QED BY <2>2, <3>1, <3>2 DEF PeerReads, Fifo!Next, Fifo!Deliver, Broken
  <2>3. CASE Close \/ PeerCloses
    BY <2>3 DEF Close, PeerCloses, Fifo!Next, Fifo!Break, Broken
  <2>4. CASE DoWriteTCP \/ WriteTCP \/ ReceiveTCPError \/ WriteSucceeds \/ WriteFails \/ Reset
    <3>1. UNCHANGED <<sent, received, open, peer>>
      BY <2>4, Zenon
      DEF DoWriteTCP, WriteTCP, ReceiveTCPError, WriteSucceeds, WriteFails, Reset, socket
    <3> QED BY <3>1 DEF Fifo!vars, Broken
  <2>5. CASE UNCHANGED vars
    BY <2>5 DEF vars, socket, Fifo!vars, Broken
  <2> QED BY <2>1, <2>2, <2>3, <2>4, <2>5 DEF Next
<1> QED BY <1>1, <1>2, SessionInvariant, PTL DEF Spec, Fifo!SafeSpec

(* The queues and handlers of a session are sound, for any number of       *)
(* messages.                                                               *)
THEOREM SessionIsSound == Spec => []SessionSound
  BY SessionTypeCorrect, ReportsFailureOnce, WritesOneAtATime, PTL DEF SessionSound
=============================================================================
