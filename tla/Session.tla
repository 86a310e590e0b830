------------------------------ MODULE Session -------------------------------
(***************************************************************************)
(* The TCP side of common/network/Session.cpp, for one session and its     *)
(* peer: Send posts to the io_service, DoWriteTCP queues, one async_write  *)
(* at a time drains the queue, and FatalError reports the first failure of *)
(* a read or a write.                                                      *)
(*                                                                         *)
(* Handlers run one at a time.  Messages are numbered in the order of the  *)
(* calls of Send.  The socket and the peer are the environment.            *)
(***************************************************************************)
EXTENDS Integers, Sequences

CONSTANT MaxSends   \* bound on the calls of Send and SyncSend

ASSUME MaxSendsAssumption == MaxSends \in Nat

VARIABLES
    sent,         \* calls of Send and SyncSend so far
    posted,       \* DoWriteTCP handlers posted and not yet run
    send_queue,   \* Session::send_queue_
    writing,      \* the message async_write is busy with, or NoMessage
    completion,   \* outcome of that write, its handler not yet run
    stream,       \* messages in the connection the peer has not read
    received,     \* messages the peer has read
    open,         \* our end of the socket
    peer,         \* the peer's end, and the network up to it
    reading,      \* a read is pending, its handler will be called
    online,       \* Session::online_
    fatals        \* commands FatalError raised

socket == <<stream, received, open, peer>>
writer == <<posted, send_queue, writing, completion>>
status == <<reading, online, fatals>>
vars == <<sent, writer, socket, status>>

NoMessage == 0
Message == 1..MaxSends

TypeOK ==
    /\ sent \in 0..MaxSends
    /\ posted \in Seq(Message) /\ send_queue \in Seq(Message)
    /\ stream \in Seq(Message) /\ received \in Seq(Message)
    /\ writing \in Message \cup {NoMessage}
    /\ completion \in {"none", "ok", "error"}
    /\ open \in BOOLEAN /\ peer \in BOOLEAN
    /\ reading \in BOOLEAN /\ online \in BOOLEAN
    /\ fatals \in Nat
    /\ Len(stream) <= MaxSends

Init ==
    /\ sent = 0
    /\ posted = <<>> /\ send_queue = <<>>
    /\ writing = NoMessage /\ completion = "none"
    /\ stream = <<>> /\ received = <<>>
    /\ open = TRUE /\ peer = TRUE
    /\ reading = TRUE /\ online = TRUE /\ fatals = 0

Broken == ~open \/ ~peer

\* Handlers hold the shared_ptr; once none is left the session is destroyed,
\* and a weak_ptr can no longer be locked to send.
Released == ~reading /\ posted = <<>> /\ writing = NoMessage

-----------------------------------------------------------------------------
(* Sending.                                                                *)

Send ==
    /\ sent < MaxSends
    /\ ~Released
    /\ sent' = sent + 1
    /\ posted' = Append(posted, sent + 1)
    /\ UNCHANGED <<send_queue, writing, completion, socket, status>>

\* Mutant of SyncSendAllowed: SyncSend while earlier messages are queued.
SyncSendAlways == TRUE

\* The one caller, the crowded branch of ServerReceiveClientInfo, answers a
\* message the peer sent when it had received all that was sent before.
SyncSendAllowed == Len(received) = sent

\* SyncSend writes past the queue; an exception is caught and forgotten.
SyncSend ==
    /\ sent < MaxSends
    /\ ~Released
    /\ SyncSendAllowed
    /\ sent' = sent + 1
    /\ stream' = IF Broken THEN stream ELSE Append(stream, sent + 1)
    /\ UNCHANGED <<writer, received, open, peer, status>>

\* Mutant of MayStart: DoWriteTCP does not look whether a write is going on.
StartAlways == TRUE

\* !write_in_progress
MayStart == send_queue = <<>>

DoWriteTCP ==
    /\ posted # <<>>
    /\ posted' = Tail(posted)
    /\ send_queue' = Append(send_queue, Head(posted))
    /\ IF MayStart
       THEN writing' = Head(posted) /\ completion' = "none"
       ELSE UNCHANGED <<writing, completion>>
    /\ UNCHANGED <<sent, socket, status>>

FatalError ==
    IF online THEN online' = FALSE /\ fatals' = fatals + 1
              ELSE UNCHANGED <<online, fatals>>

\* send_queue_.pop()
NextToWrite == Tail(send_queue)

\* WriteTCP: on with the next message, or the end of all writing.
WriteTCP ==
    /\ completion # "none"
    /\ completion' = "none"
    /\ \/ /\ completion = "ok"
          /\ send_queue' = NextToWrite
          /\ writing' = IF NextToWrite = <<>> THEN NoMessage ELSE Head(NextToWrite)
          /\ UNCHANGED status
       \/ /\ completion = "error"
          /\ writing' = NoMessage
          /\ FatalError
          /\ UNCHANGED <<send_queue, reading>>
    /\ UNCHANGED <<sent, posted, socket>>

\* Mutant of ReadsOn: async_read_until is called in both branches.
ReadsOnAlways(error) == TRUE

\* ReceiveTCP starts the next read, if there was no error.
ReadsOn(error) == ~error

\* ReceiveTCP with an error.
ReceiveTCPError ==
    /\ reading /\ Broken
    /\ reading' = ReadsOn(TRUE)
    /\ FatalError
    /\ UNCHANGED <<sent, writer, socket>>

Close ==
    /\ open /\ open' = FALSE
    /\ UNCHANGED <<sent, writer, stream, received, peer, status>>

-----------------------------------------------------------------------------
(* The connection and the peer.                                            *)

\* The system takes the message; a peer that has closed never sees it.
WriteSucceeds ==
    /\ writing # NoMessage /\ completion = "none" /\ open
    /\ completion' = "ok"
    /\ stream' = IF peer THEN Append(stream, writing) ELSE stream
    /\ UNCHANGED <<sent, posted, send_queue, writing, received, open, peer, status>>

WriteFails ==
    /\ writing # NoMessage /\ completion = "none" /\ Broken
    /\ completion' = "error"
    /\ UNCHANGED <<sent, posted, send_queue, writing, socket, status>>

PeerReads ==
    /\ peer /\ stream # <<>>
    /\ received' = Append(received, Head(stream))
    /\ stream' = Tail(stream)
    /\ UNCHANGED <<sent, writer, open, peer, status>>

PeerCloses ==
    /\ peer /\ peer' = FALSE
    /\ stream' = <<>>
    /\ UNCHANGED <<sent, writer, received, open, status>>

\* Closing with input unread resets the connection, and what the peer has
\* not read yet may be gone.
Reset ==
    /\ ~open /\ stream # <<>> /\ stream' = <<>>
    /\ UNCHANGED <<sent, writer, received, open, peer, status>>

Next ==
    \/ Send \/ SyncSend \/ DoWriteTCP \/ WriteTCP \/ ReceiveTCPError \/ Close
    \/ WriteSucceeds \/ WriteFails \/ PeerReads \/ PeerCloses \/ Reset

Spec == Init /\ [][Next]_vars

\* io_service::run() runs every handler, TCP makes progress, the peer reads.
FairSpec ==
    /\ Spec
    /\ WF_vars(DoWriteTCP) /\ WF_vars(WriteTCP) /\ WF_vars(ReceiveTCPError)
    /\ WF_vars(WriteSucceeds \/ WriteFails)
    /\ WF_vars(PeerReads)

-----------------------------------------------------------------------------
(* The session implements the channel the handlers rely on, the delivery   *)
(* of everything sent on a connection that stays up included.              *)
Fifo == INSTANCE FifoChannel WITH broken <- Broken
FifoSpec == Fifo!Spec

(* The read side and the write side fail independently, each on its own    *)
(* handler, and a failure is reported once: the callback logs a user out   *)
(* and starts a removal thread for every report.                           *)
FailureReportedOnce == fatals <= 1 /\ (online <=> fatals = 0)

(* A message is handed to async_write only when the one before is done:    *)
(* two writes at a time would interleave their bytes.                      *)
OneWriteAtATime ==
    /\ writing # NoMessage => send_queue # <<>> /\ writing = Head(send_queue)
    /\ completion # "none" => writing # NoMessage

(* Whichever end breaks the connection, the failure is reported and every  *)
(* handler that keeps the session alive comes to an end: RefreshSession    *)
(* can drop it, although its queue may hold messages for ever.             *)
BrokenIsReleased == Broken ~> (fatals = 1 /\ []Released)

(* The two queues and the two handlers of a session, in any order.         *)
SessionSound == TypeOK /\ FailureReportedOnce /\ OneWriteAtATime
=============================================================================
