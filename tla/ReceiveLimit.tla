---------------------------- MODULE ReceiveLimit ----------------------------
(***************************************************************************)
(* How the server measures what a client sends and what it does about it:  *)
(* read_byte_sum_ and read_start_time_ of Session, and the two limits the  *)
(* callback of Server::Start applies to every message.                     *)
(*                                                                         *)
(* Only time(nullptr) - read_start_time_ is ever used, so the model keeps  *)
(* that difference, elapsed.  The average is compared with a limit by      *)
(* multiplication instead of division.                                     *)
(***************************************************************************)
EXTENDS Integers

CONSTANTS
    RefreshSeconds,  \* BYTE_AVERAGE_REFRESH_SECONDS
    Limit1,          \* Config::receive_limit_1, messages above it are ignored
    Limit2,          \* Config::receive_limit_2, sessions above it are closed
    Sizes,           \* sizes of messages, which have a header at least
    PoliteRate,      \* bytes a polite client sends in a second, at most
    FloodRate,       \* bytes a flooding client sends in a second, at least
    MaxBurst,        \* bound on the bytes sent in a second
    MaxElapsed       \* bound on the seconds without a halving

Half == RefreshSeconds \div 2

ASSUME LimitAssumption ==
    /\ RefreshSeconds \in Nat /\ RefreshSeconds >= 2
    /\ Limit1 \in Nat /\ Limit2 \in Nat /\ Limit1 <= Limit2
    /\ Sizes \subseteq Nat \ {0}
    /\ PoliteRate \in Nat /\ FloodRate \in Nat
    /\ MaxBurst \in Nat /\ MaxElapsed \in Nat

VARIABLES
    elapsed,     \* time(nullptr) - read_start_time_
    sum,         \* read_byte_sum_
    spent,       \* bytes the client sent in the current second
    manner,      \* how the client behaves
    verdict,     \* what became of the last message
    open         \* the limits have not closed the socket

vars == <<elapsed, sum, spent, manner, verdict, open>>

Manner == {"polite", "greedy", "reformed", "flooding"}

TypeOK ==
    /\ elapsed \in Nat /\ sum \in Nat /\ spent \in Nat
    /\ manner \in Manner
    /\ verdict \in {"none", "handled", "greeted", "ignored", "closed"}
    /\ open \in BOOLEAN

\* Session::Session starts the clock a whole refresh period in the past.
Init ==
    /\ elapsed = RefreshSeconds
    /\ sum = 0 /\ spent = 0
    /\ manner = "polite"
    /\ verdict = "none"
    /\ open = TRUE

\* Mutants of Updated: the period is halved and the sum is not; the sum starts
\* over.
PeriodHalved(s, e) == IF e >= RefreshSeconds THEN <<s, e \div 2>> ELSE <<s, e>>
SumForgotten(s, e) == <<0, e>>

\* UpdateReadByteAverage: once the period is over, half of it is forgotten.
Updated(s, e) == IF e >= RefreshSeconds THEN <<s \div 2, e \div 2>> ELSE <<s, e>>

\* The callback of Server::Start: what it closes or ignores is not handled.
Verdict(s, e) == IF s > Limit2 * e THEN "closed"
                 ELSE IF s > Limit1 * e THEN "ignored" ELSE "handled"

\* Mutant of Greets: the callback does not return after it closed the session.
GreetsAnyway(login, v) == login

\* ServerReceiveClientInfo and ServerReceivePublicKey call ResetReadByteAverage,
\* however often a client sends them.
Greets(login, v) == login /\ v = "handled"

\* What the client may have sent in a second.
Allowance == IF manner \in {"polite", "reformed"} THEN PoliteRate ELSE MaxBurst

\* ReceiveTCP counts the message, then hands it over: what is ignored stays
\* counted.  Messages in the buffer when the socket is closed are handed over
\* as well, in the same second.
Receive(size, login) ==
    LET counted == Updated(sum + size, elapsed)
        v       == Verdict(counted[1], counted[2])
        greets  == Greets(login, v)
    IN  /\ spent + size <= Allowance
        /\ spent' = spent + size
        /\ elapsed' = counted[2]
        /\ sum' = IF greets THEN 0 ELSE counted[1]
        /\ verdict' = IF greets THEN "greeted" ELSE v
        /\ open' = (open /\ v # "closed")
        /\ UNCHANGED manner

\* A second passes.
Tick ==
    /\ open
    /\ manner = "flooding" => spent >= FloodRate
    /\ elapsed < MaxElapsed
    /\ elapsed' = elapsed + 1
    /\ spent' = 0
    /\ UNCHANGED <<sum, manner, verdict, open>>

\* The user of the client changes behaviour.
ChangeManner ==
    /\ open
    /\ \/ manner = "polite" /\ manner' = "greedy"
       \/ manner = "greedy" /\ spent = 0 /\ manner' = "reformed"
       \/ manner = "polite" /\ manner' = "flooding"
    /\ UNCHANGED <<elapsed, sum, spent, verdict, open>>

Next ==
    \/ \E size \in Sizes, login \in BOOLEAN : Receive(size, login)
    \/ Tick
    \/ ChangeManner

Spec == Init /\ [][Next]_vars

\* Time passes, and a flooding client does send.
Floods ==
    open /\ manner = "flooding" /\ spent < FloodRate /\ \E size \in Sizes : Receive(size, FALSE)
FairSpec == Spec /\ WF_vars(Tick) /\ WF_vars(Floods)

-----------------------------------------------------------------------------
(* GetReadByteAverage never divides by zero, nor by so little that a few   *)
(* bytes make a session look like a flood: at least half a refresh period  *)
(* lies behind every average.                                              *)
PeriodLongEnough == elapsed >= Half /\ elapsed > 0

(* A client that never sent more than PoliteRate bytes in a second loses   *)
(* no message to the limits, wherever the halvings fall, if PoliteRate     *)
(* leaves a little room below receive_limit_1.                             *)
PoliteRoom == PoliteRate * (Half + 2) <= Limit1 * Half
PoliteNeverLimited ==
    PoliteRoom => (manner = "polite" => verdict \in {"none", "handled", "greeted"})

(* Once the callback has closed a session, no message that was already in  *)
(* its buffer is handled or even merely ignored: the average cannot fall   *)
(* back below receive_limit_2, although a halving rounds it.               *)
ClosedStaysClosed == ~open => verdict = "closed"

(* receive_limit_1 ignores a client only while it is too fast.  Once it is *)
(* polite again, and unless it is a second's worth from receive_limit_2,   *)
(* the average comes down and stays down, and the session is not closed.   *)
ReformedIsForgiven ==
    (manner = "reformed" /\ open /\ sum + Limit2 <= Limit2 * elapsed)
        ~> [](open /\ sum <= Limit1 * elapsed)

(* A client that floods the server for long enough is disconnected, or it  *)
(* goes on sending the login messages that reset its average: one that     *)
(* stops sending them is disconnected, whenever it sent them before.       *)
FloodIsClosed == manner = "flooding" ~> (~open \/ verdict = "greeted")

(* The meter and its limits, whatever arrives when.                        *)
LimitsSound == TypeOK /\ PeriodLongEnough /\ ClosedStaysClosed

(* What becomes of a client that was too fast: forgiven or disconnected.   *)
FloodEnds == ReformedIsForgiven /\ FloodIsClosed
=============================================================================
