---------------------------- MODULE ScriptTimers ----------------------------
(***************************************************************************)
(* The threads and the two locks of one plugin's ScriptEnvironment.        *)
(*                                                                         *)
(* A script runs in three ways.  "main" is the client's main thread in     *)
(* With, which loads the plugin.  "handler" is the thread TimedWith starts *)
(* for the main thread, for a message or a key.  "callback" is the thread  *)
(* TimedWith starts for the timer thread, for a timer that is due.  All of *)
(* them run under the isolate's Locker, and the four functions that set    *)
(* and clear timers lock mutex_ as well, which the timer thread holds      *)
(* while it runs callbacks.                                                *)
(*                                                                         *)
(* Time is a flag for each timer.  V8 is external: a Locker is a lock, and *)
(* TerminateExecution stops the script that holds the isolate as soon as   *)
(* it is in JavaScript, but not while it waits in a native function.       *)
(***************************************************************************)
EXTENDS Integers, FiniteSets

CONSTANTS
    Calls,      \* the runners whose scripts set and clear timers
    Arguments,  \* what they pass to clear a timer: an id they have, undefined
    Delays,     \* whether a delay is positive: what they pass to set one
    Closing,    \* whether the plugin may be closed
    MaxId,      \* bound on event_id_
    MaxBlocks   \* bound on the scripts the main thread starts

Helpers == {"handler", "callback"}
Runners == {"main"} \cup Helpers
Ids == 0..(MaxId - 1)

ASSUME ScriptTimersAssumption ==
    /\ Calls \subseteq Runners
    /\ Arguments \subseteq {"own", "undefined"}
    /\ Delays \subseteq BOOLEAN
    /\ Closing \in BOOLEAN
    /\ MaxId \in Nat \ {0} /\ MaxBlocks \in Nat

VARIABLES
    timer_events_,  \* std::map of the timers by id
    event_id_,      \* the next id
    mutex_,         \* who holds it
    isolate_,       \* who holds the isolate's Locker
    timer,          \* the timer thread: where it is, and its iterator
    thread,         \* where each runner is
    watch,          \* TimedWith's wait for each helper
    killed,         \* the runner TerminateExecution has struck
    closing,        \* how far ~ScriptEnvironment has come
    blocks,         \* scripts the main thread has started
    ran,            \* timers whose callback has been started
    cleared         \* timers a script has cleared by their id

locks == <<mutex_, isolate_>>
history == <<ran, cleared>>
vars == <<timer_events_, event_id_, locks, timer, thread, watch, killed, closing,
          blocks, history>>

Event == [interval : BOOLEAN, positive : BOOLEAN, elapsed : BOOLEAN]
Timers == UNION {[S -> Event] : S \in SUBSET Ids}
InScript == {"running", "setting", "stored", "clearing"}

(* boost::timer has reached the delay, which a delay of 0 or less has at once. *)
Due(id) == timer_events_[id].elapsed \/ ~timer_events_[id].positive

(* The timers the sweep disposes of and erases: event.delay <= 0. *)
Spent == {id \in DOMAIN timer_events_ : ~timer_events_[id].positive}

Without(id) == [i \in DOMAIN timer_events_ \ {id} |-> timer_events_[i]]

Init ==
    /\ timer_events_ = [id \in {} |-> 0] /\ event_id_ = 0
    /\ mutex_ = "free" /\ isolate_ = "free"
    /\ timer = [at |-> "sleep", it |-> 0]
    /\ thread = [r \in Runners |-> "idle"]
    /\ watch = [h \in Helpers |-> "off"]
    /\ killed = "none" /\ closing = "no" /\ blocks = 0
    /\ ran = {} /\ cleared = {}

-----------------------------------------------------------------------------
(* The timer thread: UpdateTimerEvents and a millisecond of sleep, for ever. *)

Tick ==
    /\ timer.at = "sleep" /\ mutex_ = "free"
    /\ DOMAIN timer_events_ # {}
    /\ mutex_' = "timer"
    /\ timer' = [at |-> "scan", it |-> 0]
    /\ UNCHANGED <<timer_events_, event_id_, isolate_, thread, watch, killed, closing,
                   blocks, history>>

Scanning(id) ==
    /\ timer.at = "scan" /\ timer.it = id
    /\ watch["callback"] = "off"

Skip(id) ==
    /\ Scanning(id)
    /\ id \in DOMAIN timer_events_ => ~Due(id)
    /\ timer' = [timer EXCEPT !.it = id + 1]
    /\ UNCHANGED <<timer_events_, event_id_, locks, thread, watch, killed, closing,
                   blocks, history>>

(* TimedWith on the timer thread starts the callback's thread. *)
Launch(id) ==
    /\ Scanning(id)
    /\ id \in DOMAIN timer_events_ /\ Due(id)
    /\ thread' = [thread EXCEPT !["callback"] = "waiting"]
    /\ watch' = [watch EXCEPT !["callback"] = "limited"]
    /\ ran' = ran \cup {id}
    /\ UNCHANGED <<timer_events_, event_id_, locks, timer, killed, closing, blocks,
                   cleared>>

\* Mutant of AfterRun: the delay of a timeout that has run is not reset.
Unspent(event) == [event EXCEPT !.elapsed = FALSE]

(* The callback is over: an interval starts again, a timeout is spent. *)
AfterRun(event) ==
    IF event.interval THEN [event EXCEPT !.elapsed = FALSE]
                      ELSE [event EXCEPT !.positive = FALSE]

CallbackJoined ==
    /\ watch["callback"] # "off" /\ thread["callback"] = "idle"
    /\ timer.at = "scan"
    /\ watch' = [watch EXCEPT !["callback"] = "off"]
    /\ timer_events_' = [id \in DOMAIN timer_events_ |->
          IF id = timer.it THEN AfterRun(timer_events_[id]) ELSE timer_events_[id]]
    /\ timer' = [timer EXCEPT !.it = @ + 1]
    /\ UNCHANGED <<event_id_, locks, thread, killed, closing, blocks, history>>

Scanned ==
    /\ timer.at = "scan" /\ timer.it = MaxId
    /\ timer' = [at |-> "sweep", it |-> 0]
    /\ UNCHANGED <<timer_events_, event_id_, locks, thread, watch, killed, closing,
                   blocks, history>>

(* Disposing of the function and its arguments takes the isolate. *)
Sweep ==
    /\ timer.at = "sweep" /\ isolate_ = "free"
    /\ \E id \in Spent :
          /\ \A other \in Spent : id <= other
          /\ timer_events_' = Without(id)
    /\ UNCHANGED <<event_id_, locks, timer, thread, watch, killed, closing, blocks,
                   history>>

\* Mutant of Swept: the round ends without unlocking the mutex.
SweptLocked ==
    /\ timer.at = "sweep" /\ Spent = {}
    /\ timer' = [at |-> "sleep", it |-> 0]
    /\ UNCHANGED <<timer_events_, event_id_, locks, thread, watch, killed, closing,
                   blocks, history>>

Swept ==
    /\ timer.at = "sweep" /\ Spent = {}
    /\ timer' = [at |-> "sleep", it |-> 0]
    /\ mutex_' = "free"
    /\ UNCHANGED <<timer_events_, event_id_, isolate_, thread, watch, killed, closing,
                   blocks, history>>

Elapse(id) ==
    /\ id \in DOMAIN timer_events_ /\ ~timer_events_[id].elapsed
    /\ timer_events_[id].positive
    /\ timer_events_' = [timer_events_ EXCEPT ![id].elapsed = TRUE]
    /\ UNCHANGED <<event_id_, locks, timer, thread, watch, killed, closing, blocks,
                   history>>

-----------------------------------------------------------------------------
(* Scripts. *)

(* The Locker.  A thread that enters finds no earlier termination. *)
Enter(r) ==
    /\ thread[r] = "waiting" /\ isolate_ = "free"
    /\ isolate_' = r
    /\ thread' = [thread EXCEPT ![r] = "running"]
    /\ UNCHANGED <<timer_events_, event_id_, mutex_, timer, watch, killed, closing,
                   blocks, history>>

(* A script calls one of the four functions. *)
Call(r) ==
    /\ r \in Calls /\ thread[r] = "running" /\ killed # r
    /\ \/ /\ event_id_ < MaxId /\ Delays # {}
          /\ thread' = [thread EXCEPT ![r] = "setting"]
       \/ /\ Arguments # {}
          /\ thread' = [thread EXCEPT ![r] = "clearing"]
    /\ UNCHANGED <<timer_events_, event_id_, locks, timer, watch, killed, closing,
                   blocks, history>>

(* setTimeout and setInterval store the event under the mutex ... *)
SetTimer(r) ==
    /\ thread[r] = "setting" /\ mutex_ = "free"
    /\ \E interval \in BOOLEAN, positive \in Delays :
          timer_events_' = [id \in DOMAIN timer_events_ \cup {event_id_} |->
             IF id = event_id_
             THEN [interval |-> interval, positive |-> positive, elapsed |-> FALSE]
             ELSE timer_events_[id]]
    /\ thread' = [thread EXCEPT ![r] = "stored"]
    /\ UNCHANGED <<event_id_, locks, timer, watch, killed, closing, blocks, history>>

(* ... and count the id after it, under the Locker alone. *)
ReturnId(r) ==
    /\ thread[r] = "stored"
    /\ event_id_' = event_id_ + 1
    /\ thread' = [thread EXCEPT ![r] = "running"]
    /\ UNCHANGED <<timer_events_, locks, timer, watch, killed, closing, blocks, history>>

\* Mutant of ClearTimer: a timer is erased without the mutex.
ClearUnlocked(r) ==
    /\ thread[r] = "clearing"
    /\ \E id \in 0..(event_id_ - 1) :
          timer_events_' = Without(id) /\ cleared' = cleared \cup {id}
    /\ thread' = [thread EXCEPT ![r] = "running"]
    /\ UNCHANGED <<event_id_, locks, timer, watch, killed, closing, blocks, ran>>

(* clearTimeout and clearInterval; the id undefined becomes is 0. *)
ClearTimer(r) ==
    /\ thread[r] = "clearing" /\ mutex_ = "free"
    /\ \/ /\ "own" \in Arguments
          /\ \E id \in 0..(event_id_ - 1) :
                timer_events_' = Without(id) /\ cleared' = cleared \cup {id}
       \/ /\ "undefined" \in Arguments
          /\ timer_events_' = Without(0) /\ UNCHANGED cleared
    /\ thread' = [thread EXCEPT ![r] = "running"]
    /\ UNCHANGED <<event_id_, locks, timer, watch, killed, closing, blocks, ran>>

Leave(r) ==
    /\ thread[r] = "running"
    /\ isolate_' = "free"
    /\ thread' = [thread EXCEPT ![r] = "idle"]
    /\ killed' = IF killed = r THEN "none" ELSE killed
    /\ UNCHANGED <<timer_events_, event_id_, mutex_, timer, watch, closing, blocks,
                   history>>

(* timed_join has returned FALSE: Terminate strikes whoever holds the isolate. *)
(* The limit is long enough for a helper to enter an isolate that is free.     *)
Expire(h) ==
    /\ watch[h] = "limited" /\ thread[h] # "idle"
    /\ isolate_ \in Runners
    /\ watch' = [watch EXCEPT ![h] = "expired"]
    /\ killed' = isolate_
    /\ UNCHANGED <<timer_events_, event_id_, locks, timer, thread, closing, blocks,
                   history>>

-----------------------------------------------------------------------------
(* The main thread. *)

MainIdle == thread["main"] = "idle" /\ watch["handler"] = "off" /\ closing = "no"

With ==
    /\ MainIdle /\ blocks < MaxBlocks
    /\ thread' = [thread EXCEPT !["main"] = "waiting"]
    /\ blocks' = blocks + 1
    /\ UNCHANGED <<timer_events_, event_id_, locks, timer, watch, killed, closing, history>>

TimedWith ==
    /\ MainIdle /\ blocks < MaxBlocks
    /\ thread' = [thread EXCEPT !["handler"] = "waiting"]
    /\ watch' = [watch EXCEPT !["handler"] = "limited"]
    /\ blocks' = blocks + 1
    /\ UNCHANGED <<timer_events_, event_id_, locks, timer, killed, closing, history>>

HandlerJoined ==
    /\ watch["handler"] # "off" /\ thread["handler"] = "idle"
    /\ watch' = [watch EXCEPT !["handler"] = "off"]
    /\ UNCHANGED <<timer_events_, event_id_, locks, timer, thread, killed, closing,
                   blocks, history>>

(* ~ScriptEnvironment: interrupt and join the timer thread, then dispose. *)
Close ==
    /\ Closing /\ MainIdle
    /\ closing' = "interrupted"
    /\ UNCHANGED <<timer_events_, event_id_, locks, timer, thread, watch, killed,
                   blocks, history>>

(* The sleep and the waits of TimedWith can be interrupted; the scoped lock  *)
(* is undone, and boost::thread detaches the callback that is still running. *)
Interrupted ==
    /\ closing = "interrupted"
    /\ timer.at = "sleep" \/ watch["callback"] # "off"
    /\ timer' = [at |-> "ended", it |-> 0]
    /\ watch' = [watch EXCEPT !["callback"] = "off"]
    /\ mutex_' = IF mutex_ = "timer" THEN "free" ELSE mutex_
    /\ UNCHANGED <<timer_events_, event_id_, isolate_, thread, killed, closing, blocks,
                   history>>

Dispose ==
    /\ closing = "interrupted" /\ timer.at = "ended" /\ isolate_ = "free"
    /\ closing' = "disposed"
    /\ UNCHANGED <<timer_events_, event_id_, locks, timer, thread, watch, killed,
                   blocks, history>>

TimerStep ==
    \/ Tick \/ CallbackJoined \/ Scanned \/ Sweep \/ Swept \/ Interrupted
    \/ \E id \in Ids : Skip(id) \/ Launch(id)

MainStep == With \/ TimedWith \/ HandlerJoined \/ Close \/ Dispose

Next ==
    \/ TimerStep
    \/ MainStep
    \/ \E id \in Ids : Elapse(id)
    \/ \E r \in Runners :
          Enter(r) \/ Call(r) \/ SetTimer(r) \/ ReturnId(r) \/ ClearTimer(r) \/ Leave(r)
    \/ \E h \in Helpers : Expire(h)

Spec == Init /\ [][Next]_vars

(* Threads run, a lock that stays free is taken, time passes, and a script  *)
(* ends.  The main thread need not start anything, and a script need not    *)
(* call.                                                                    *)
Fairness ==
    /\ WF_vars(TimerStep) /\ WF_vars(HandlerJoined) /\ WF_vars(Dispose)
    /\ \A id \in Ids : WF_vars(Elapse(id))
    /\ \A r \in Runners :
          /\ WF_vars(Enter(r))
          /\ WF_vars(SetTimer(r) \/ ReturnId(r) \/ ClearTimer(r))
          /\ WF_vars(Leave(r))
    /\ \A h \in Helpers : WF_vars(Expire(h))

FairSpec == Spec /\ Fairness

-----------------------------------------------------------------------------
(* Every variable keeps its type (ScriptEnvironment.hpp:85-99). *)
TypeOK ==
    /\ timer_events_ \in Timers
    /\ event_id_ \in 0..MaxId
    /\ mutex_ \in {"free", "timer"}
    /\ isolate_ \in Runners \cup {"free"}
    /\ timer \in [at : {"sleep", "scan", "sweep", "ended"}, it : 0..MaxId]
    /\ thread \in [Runners -> {"idle", "waiting"} \cup InScript]
    /\ watch \in [Helpers -> {"off", "limited", "expired"}]
    /\ killed \in Runners \cup {"none"}
    /\ closing \in {"no", "interrupted", "disposed"}
    /\ blocks \in 0..MaxBlocks
    /\ ran \subseteq Ids /\ cleared \subseteq Ids

(* UpdateTimerEvents runs callbacks while it iterates over the map and uses *)
(* the event of its iterator after them: whatever the other threads run,    *)
(* that event is in the map until the callback has been joined.             *)
IteratorValid == watch["callback"] # "off" => timer.it \in DOMAIN timer_events_

(* Every timer gets an id no timer had before, although event_id_ is read   *)
(* under mutex_ and counted after it: a clear with an old id is harmless.   *)
FreshIds ==
    [][(\E r \in Runners : thread[r] = "setting" /\ thread'[r] = "stored")
         => event_id_ \notin DOMAIN timer_events_ \cup ran \cup cleared]_vars

(* setTimeout's function is started once at most, also when it was late,    *)
(* stopped by force, or swept only after a wait for the isolate.            *)
TimeoutsRunOnce ==
    [][\A id \in ran : Launch(id) => timer_events_[id].interval]_vars

(* Once clearTimeout or clearInterval has returned, the callback of the     *)
(* timer is not started any more, and is not running either.                *)
ClearedStaysQuiet ==
    [][/\ \A id \in cleared' : watch["callback"] # "off" => timer.it # id
       /\ \A id \in cleared : ~Launch(id)]_vars

(* A timer leaves the map when it was a timeout that has run, or when a     *)
(* script cleared it, with two exceptions: an interval of 0 or less ends    *)
(* after a run, and a clear of undefined takes the first timer, whoever set *)
(* it.                                                                      *)
LeavesForAReason ==
    [][\A id \in DOMAIN timer_events_ \ DOMAIN timer_events_' :
          \/ id \in cleared'
          \/ id \in ran /\ ~timer_events_[id].positive
          \/ id = 0 /\ \E r \in Runners : ClearTimer(r)]_vars

(* The deadly embrace of the two locks: the timer thread holds mutex_ and   *)
(* waits for the isolate, itself or through its callback; the script that   *)
(* holds the isolate waits for mutex_.                                      *)
Embrace ==
    /\ mutex_ = "timer" /\ isolate_ \in Runners
    /\ thread[isolate_] \in {"setting", "clearing"}
    /\ \/ thread["callback"] = "waiting"
       \/ isolate_ = "callback"
       \/ timer.at = "sweep" /\ Spent # {}

(* The time limit does not undo the embrace, which TerminateExecution was   *)
(* meant for: only closing the plugin can.                                  *)
EmbraceIsForEver == [][Embrace => Embrace' \/ closing' # "no"]_vars

(* The embrace is the only way to lose a timer: one that is due has its     *)
(* callback started, unless it is cleared or the plugin is closed.          *)
DueRuns ==
    \A id \in Ids :
       (id \in DOMAIN timer_events_ /\ Due(id))
         ~> \/ watch["callback"] # "off" /\ timer.it = id
            \/ id \notin DOMAIN timer_events_
            \/ Embrace \/ closing # "no"

-----------------------------------------------------------------------------
(* What a comment of the code says of it, and the code does not do: *)
(* setTimeout executes the function after the time (ScriptEnvironment.cpp:123). *)
TimeoutRuns ==
    \A id \in Ids : id \in DOMAIN timer_events_ ~> id \in ran \cup cleared

(* The map and the iterator of the timer thread hold together.             *)
TimersSound == TypeOK /\ IteratorValid

(* What the functions of the timers promise to scripts.                    *)
TimersKeepWord ==
    FreshIds /\ TimeoutsRunOnce /\ ClearedStaysQuiet /\ LeavesForAReason /\ EmbraceIsForEver
=============================================================================
