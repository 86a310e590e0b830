----------------------------- MODULE ScriptsProofs -----------------------------
(***************************************************************************)
(* What holds of what runs beside the network and the screen of the        *)
(* client, part by part as MCScripts runs it.  For every number of timers  *)
(* and of scripts and whatever scripts do: the iterator of the timer       *)
(* thread stays valid, ids are fresh, and a timeout runs once.  For any    *)
(* models in any folders: what is lost on its way to its home is lost to a *)
(* call that failed or to a stop in the middle of one.  For a pool of any  *)
(* size that one thread uses, and whatever is asked of it: its blocks and  *)
(* its lists agree, and nothing is given away twice.  For any texts and    *)
(* any keys: what is saved of an account is what the next run of the       *)
(* client reads.                                                           *)
(***************************************************************************)
EXTENDS ScriptTimers, Install, Heap, UserFiles, SequenceTheorems,
        FiniteSetTheorems, WellFoundedInduction, TLAPS

(* A script runs, or waits in a native function, with the isolate held. *)
LockerHeld == \A r \in Runners : thread[r] \in InScript => isolate_ = r

(* The timer thread holds mutex_ exactly while it goes over the timers. *)
MutexHeld == mutex_ = "timer" <=> timer.at \in {"scan", "sweep"}

(* It waits for a callback only for the timer its iterator is at. *)
WaitsAtTimer ==
    watch["callback"] # "off" =>
       timer.at = "scan" /\ timer.it \in ran \cap DOMAIN timer_events_

(* A helper nobody waits for has nothing to do, unless the timer thread was  *)
(* interrupted while it waited.                                              *)
UnwatchedIsIdle ==
    /\ watch["handler"] = "off" => thread["handler"] = "idle"
    /\ watch["callback"] = "off" => thread["callback"] = "idle" \/ timer.at = "ended"

(* What has been counted, or has been stored and will be counted next. *)
Used == DOMAIN timer_events_ \cup ran

IdsCounted ==
    /\ \A id \in Used : id <= event_id_
    /\ event_id_ \in Used => \E r \in Runners : thread[r] = "stored"
    /\ \A id \in cleared : id < event_id_ /\ id \notin DOMAIN timer_events_
    /\ \A r \in Runners : thread[r] \in {"setting", "stored"} => event_id_ < MaxId

(* A timeout that has been started is running, behind the iterator, or about *)
(* to be swept.                                                              *)
StartedIsBehind ==
    \A id \in ran \cap DOMAIN timer_events_ :
       \/ timer_events_[id].interval
       \/ timer.at = "ended"
       \/ timer.at = "scan" /\ timer.it = id /\ watch["callback"] # "off"
       \/ timer.at = "scan" /\ id < timer.it /\ ~timer_events_[id].positive
       \/ timer.at = "sweep" /\ ~timer_events_[id].positive

(* A delay of 0 or less is behind the iterator, and so swept, only after a   *)
(* run.                                                                      *)
SpentHaveRun ==
    \A id \in Spent :
       \/ id \in ran
       \/ timer.at \in {"sleep", "ended"}
       \/ timer.at = "scan" /\ timer.it <= id

Inductive ==
    /\ TypeOK /\ LockerHeld /\ MutexHeld
    /\ WaitsAtTimer /\ UnwatchedIsIdle
    /\ IdsCounted /\ StartedIsBehind /\ SpentHaveRun
-----------------------------------------------------------------------------
(* A map of timers: ids to events. *)
LEMMA TimersShape ==
    ASSUME NEW f
    PROVE  f \in Timers <=> /\ DOMAIN f \subseteq Ids
                           /\ f = [id \in DOMAIN f |-> f[id]]
                           /\ \A id \in DOMAIN f : f[id] \in Event
<1>1. ASSUME f \in Timers
      PROVE  /\ DOMAIN f \subseteq Ids
             /\ f = [id \in DOMAIN f |-> f[id]]
             /\ \A id \in DOMAIN f : f[id] \in Event
  <2>1. PICK S \in SUBSET Ids : f \in [S -> Event]
    BY <1>1 DEF Timers
  <2> QED  BY <2>1
<1>2. ASSUME DOMAIN f \subseteq Ids, f = [id \in DOMAIN f |-> f[id]],
             \A id \in DOMAIN f : f[id] \in Event
      PROVE  f \in Timers
  <2>1. f \in [DOMAIN f -> Event]
    BY <1>2
  <2> QED  BY <1>2, <2>1 DEF Timers
<1> QED  BY <1>1, <1>2

(* The actions that give the timers a new value give them a map again. *)
LEMMA TimersTyped ==
    ASSUME TypeOK, IdsCounted, Next
    PROVE  timer_events_' \in Timers
<1> USE DEF Event
<1>0. /\ DOMAIN timer_events_ \subseteq Ids
      /\ timer_events_ = [id \in DOMAIN timer_events_ |-> timer_events_[id]]
      /\ \A id \in DOMAIN timer_events_ : timer_events_[id] \in Event
  BY TimersShape DEF TypeOK
<1>1. ASSUME NEW id, timer_events_' = Without(id)  PROVE timer_events_' \in Timers
  BY <1>0, <1>1, TimersShape DEF Without
<1>2. CASE CallbackJoined
  <2>1. \A id \in DOMAIN timer_events_ : AfterRun(timer_events_[id]) \in Event
    BY <1>0 DEF AfterRun
  <2> QED  BY <1>0, <1>2, <2>1, TimersShape DEF CallbackJoined
<1>3. CASE \E id \in Ids : Elapse(id)
  <2>1. PICK id \in Ids : Elapse(id)
    BY <1>3
  <2>2. timer_events_' = [timer_events_ EXCEPT ![id].elapsed = TRUE]
    BY <2>1 DEF Elapse
  <2>3. [timer_events_[id] EXCEPT !.elapsed = TRUE] \in Event
    BY <1>0, <2>1 DEF Elapse
  <2>4. id \in DOMAIN timer_events_
    BY <2>1 DEF Elapse
  <2>5. /\ DOMAIN timer_events_' = DOMAIN timer_events_
        /\ timer_events_' = [i \in DOMAIN timer_events_' |-> timer_events_'[i]]
        /\ \A i \in DOMAIN timer_events_' : timer_events_'[i] \in Event
    BY <1>0, <2>2, <2>3, <2>4
  <2> QED  BY <1>0, <2>5, TimersShape
<1>4. CASE \E r \in Runners : SetTimer(r)
  <2>1. PICK r \in Runners : SetTimer(r)
    BY <1>4
  <2>2. event_id_ \in Ids
    BY <2>1, ScriptTimersAssumption DEF SetTimer, IdsCounted, TypeOK, Ids
  <2>3. PICK interval \in BOOLEAN, positive \in Delays :
          timer_events_' = [id \in DOMAIN timer_events_ \cup {event_id_} |->
             IF id = event_id_
             THEN [interval |-> interval, positive |-> positive, elapsed |-> FALSE]
             ELSE timer_events_[id]]
    BY <2>1 DEF SetTimer
  <2>4. [interval |-> interval, positive |-> positive, elapsed |-> FALSE] \in Event
    BY ScriptTimersAssumption
  <2>5. /\ DOMAIN timer_events_' = DOMAIN timer_events_ \cup {event_id_}
        /\ timer_events_' = [i \in DOMAIN timer_events_' |-> timer_events_'[i]]
        /\ \A i \in DOMAIN timer_events_' : timer_events_'[i] \in Event
    BY <1>0, <2>3, <2>4
  <2> QED  BY <1>0, <2>2, <2>5, TimersShape
<1>5. CASE Sweep  BY <1>1, <1>5 DEF Sweep
<1>6. CASE \E r \in Runners : ClearTimer(r)  BY <1>1, <1>6 DEF ClearTimer
<1>7. CASE UNCHANGED timer_events_  BY <1>7 DEF TypeOK
<1> QED
  BY <1>2, <1>3, <1>4, <1>5, <1>6, <1>7
     DEF Next, TimerStep, MainStep, Tick, Skip, Launch, Scanned, Swept, Interrupted,
         Enter, Call, ReturnId, Leave, Expire, With, TimedWith, HandlerJoined, Close,
         Dispose

(* The isolate is entered when it is free and left by its holder. *)
LEMMA LockerKept ==
    ASSUME Inductive, Next
    PROVE  LockerHeld'
<1> USE DEF Inductive, TypeOK, LockerHeld, InScript, Helpers, Runners
<1>1. CASE \E r \in Runners : Enter(r)  BY <1>1 DEF Enter
<1>2. CASE \E r \in Runners : Leave(r)  BY <1>2 DEF Leave
<1>3. CASE UNCHANGED <<isolate_, thread>>  BY <1>3
<1>4. CASE (\E id \in Ids : Launch(id)) \/ With \/ TimedWith
  BY <1>4 DEF Launch, With, TimedWith, locks
<1>5. CASE \E r \in Runners : Call(r) \/ SetTimer(r) \/ ReturnId(r) \/ ClearTimer(r)
  BY <1>5 DEF Call, SetTimer, ReturnId, ClearTimer, locks
<1> QED
  BY <1>1, <1>2, <1>3, <1>4, <1>5
     DEF Next, TimerStep, MainStep, Tick, Skip, CallbackJoined, Scanned, Sweep, Swept,
         Interrupted, Elapse, Expire, HandlerJoined, Close, Dispose, locks

(* Only the timer thread takes mutex_ for longer than a step: at the start of *)
(* a round, and until its end or its interruption.                            *)
LEMMA MutexKept ==
    ASSUME Inductive, Next
    PROVE  MutexHeld'
<1> USE DEF Inductive, TypeOK, MutexHeld
<1>1. CASE TimerStep
  BY <1>1 DEF TimerStep, Tick, Skip, Launch, CallbackJoined, Scanned, Sweep, Swept,
              Interrupted, Scanning, locks
<1>2. CASE UNCHANGED <<mutex_, timer>>  BY <1>2
<1> QED
  BY <1>1, <1>2
     DEF Next, MainStep, With, TimedWith, HandlerJoined, Close, Dispose, Elapse, Enter,
         Call, SetTimer, ReturnId, ClearTimer, Leave, Expire, locks

(* While it waits for a callback no other thread has the mutex, which setting *)
(* and clearing a timer take.                                                 *)
LEMMA WaitsKept ==
    ASSUME Inductive, Next
    PROVE  WaitsAtTimer'
<1> USE DEF Inductive, MutexHeld, WaitsAtTimer
<1>1. watch \in [Helpers -> {"off", "limited", "expired"}] /\ "callback" \in Helpers
  BY DEF TypeOK, Helpers
<1>2. DOMAIN timer_events_ \subseteq Ids
  BY TimersShape DEF TypeOK
<1>3. CASE \E id \in Ids : Launch(id)
  <2>1. PICK id \in Ids : Launch(id)
    BY <1>3
  <2>2. /\ timer.at = "scan" /\ timer.it = id /\ id \in DOMAIN timer_events_
        /\ ran' = ran \cup {id} /\ UNCHANGED <<timer, timer_events_>>
    BY <2>1 DEF Launch, Scanning
  <2> QED  BY <2>2
<1>4. CASE CallbackJoined \/ Interrupted
  BY <1>1, <1>4 DEF CallbackJoined, Interrupted
<1>5. CASE Tick \/ Sweep \/ Swept
  BY <1>5 DEF Tick, Sweep, Swept
<1>6. CASE Scanned
  <2>1. timer.it \notin DOMAIN timer_events_
    BY <1>2, <1>6, ScriptTimersAssumption DEF Scanned, Ids
  <2> QED  BY <1>6, <2>1 DEF Scanned
<1>7. CASE \E id \in Ids : Skip(id)
  BY <1>7 DEF Skip, Scanning
<1>8. CASE \E r \in Runners : SetTimer(r) \/ ClearTimer(r)
  BY <1>8 DEF SetTimer, ClearTimer, history
<1>9. CASE \E id \in Ids : Elapse(id)
  BY <1>9 DEF Elapse, history
<1>10. CASE TimedWith \/ HandlerJoined \/ \E h \in Helpers : Expire(h)
  <2>1. UNCHANGED <<timer, timer_events_, ran>>
    BY <1>10 DEF TimedWith, HandlerJoined, Expire, history
  <2>2. watch'["callback"] # "off" => watch["callback"] # "off"
    BY <1>1, <1>10 DEF TimedWith, HandlerJoined, Expire, Helpers
  <2> QED  BY <2>1, <2>2
<1>11. CASE UNCHANGED <<timer, timer_events_, ran, watch>>  BY <1>11
<1> QED
  BY <1>3, <1>4, <1>5, <1>6, <1>7, <1>8, <1>9, <1>10, <1>11
     DEF Next, TimerStep, MainStep, With, Close, Dispose, Enter, Call, ReturnId, Leave,
         history

(* A helper is started and waited for in one step, and joined when it is idle. *)
LEMMA UnwatchedKept ==
    ASSUME Inductive, Next
    PROVE  UnwatchedIsIdle'
<1> USE DEF Inductive, UnwatchedIsIdle
<1>1. /\ watch \in [Helpers -> {"off", "limited", "expired"}]
      /\ {"handler", "callback"} \subseteq Helpers
      /\ thread \in [Runners -> {"idle", "waiting"} \cup InScript]
      /\ {"handler", "callback"} \subseteq Runners
  BY DEF TypeOK, Helpers, Runners
<1>2. CASE TimerStep
  BY <1>1, <1>2 DEF TimerStep, Tick, Skip, Launch, CallbackJoined, Scanned, Sweep, Swept,
                    Interrupted, Scanning
<1>3. CASE MainStep
  BY <1>1, <1>3 DEF MainStep, With, TimedWith, HandlerJoined, Close, Dispose
<1>4. CASE \E r \in Runners :
              Enter(r) \/ Call(r) \/ SetTimer(r) \/ ReturnId(r) \/ ClearTimer(r) \/ Leave(r)
  <2>1. PICK r \in Runners : thread[r] # "idle" /\ UNCHANGED <<watch, timer>>
                              /\ \A other \in Runners \ {r} : thread'[other] = thread[other]
    BY <1>1, <1>4 DEF Enter, Call, SetTimer, ReturnId, ClearTimer, Leave
  <2> QED  BY <1>1, <2>1
<1>5. CASE \E h \in Helpers : Expire(h)
  BY <1>1, <1>5 DEF Expire
<1>6. CASE \E id \in Ids : Elapse(id)
  BY <1>6 DEF Elapse
<1> QED  BY <1>2, <1>3, <1>4, <1>5, <1>6 DEF Next

(* An id is stored and counted by one script, which holds the isolate; no    *)
(* other script stores in between.                                           *)
LEMMA CountedKept ==
    ASSUME Inductive, Next
    PROVE  IdsCounted'
<1> USE DEF Inductive, IdsCounted, Used
<1>1. /\ event_id_ \in Nat /\ MaxId \in Nat /\ cleared \subseteq Ids /\ ran \subseteq Ids
      /\ thread \in [Runners -> {"idle", "waiting"} \cup InScript]
  BY ScriptTimersAssumption DEF TypeOK
<1>2. DOMAIN timer_events_ \subseteq Ids
  BY TimersShape DEF TypeOK
<1>3. ASSUME UNCHANGED <<event_id_, cleared>>, Used' \subseteq Used,
             \A r \in Runners : thread'[r] = "stored" <=> thread[r] = "stored",
             \A r \in Runners : thread'[r] = "setting" => event_id_ < MaxId,
             DOMAIN timer_events_' \subseteq DOMAIN timer_events_
      PROVE  IdsCounted'
  BY <1>3
<1>4. CASE \E id \in Ids : Launch(id)
  <2>1. /\ Used' \subseteq Used
        /\ UNCHANGED <<event_id_, cleared, timer_events_>>
        /\ thread["callback"] = "idle"
        /\ thread' = [thread EXCEPT !["callback"] = "waiting"]
    BY <1>4 DEF Launch, Scanning, UnwatchedIsIdle, Runners, Helpers
  <2>2. /\ \A r \in Runners : thread'[r] = "stored" <=> thread[r] = "stored"
        /\ \A r \in Runners : thread'[r] = "setting" => event_id_ < MaxId
    BY <1>1, <2>1
  <2> QED  BY <1>3, <2>1, <2>2
<1>5. CASE \/ Tick \/ CallbackJoined \/ Scanned \/ Sweep \/ Swept \/ Interrupted
           \/ \E id \in Ids : Skip(id) \/ Elapse(id)
  <2>1. UNCHANGED <<event_id_, cleared, ran, thread>>
    BY <1>5 DEF Tick, CallbackJoined, Scanned, Sweep, Swept, Interrupted, Skip, Elapse,
                history
  <2>2. DOMAIN timer_events_' \subseteq DOMAIN timer_events_
    BY <1>5 DEF Tick, CallbackJoined, Scanned, Sweep, Swept, Interrupted, Skip, Elapse,
                Without, Spent
  <2> QED  BY <1>1, <1>3, <2>1, <2>2
<1>6. CASE MainStep \/ (\E h \in Helpers : Expire(h))
           \/ \E r \in Runners : Enter(r) \/ Call(r) \/ Leave(r)
  <2>1. UNCHANGED <<event_id_, cleared, ran, timer_events_>>
    BY <1>6 DEF MainStep, With, TimedWith, HandlerJoined, Close, Dispose, Expire, Enter,
                Call, Leave, history
  <2>2. \A r \in Runners : thread'[r] = "setting" => event_id_ < MaxId
    BY <1>1, <1>6 DEF MainStep, With, TimedWith, HandlerJoined, Close, Dispose, Expire,
                Enter, Call, Leave
  <2>3. \A r \in Runners : thread'[r] = "stored" <=> thread[r] = "stored"
    BY <1>1, <1>6 DEF MainStep, With, TimedWith, HandlerJoined, Close, Dispose, Expire,
                Enter, Call, Leave, MainIdle, UnwatchedIsIdle, Runners, Helpers
  <2> QED  BY <1>3, <2>1, <2>2, <2>3
<1>7. CASE \E r \in Runners : SetTimer(r)
  <2>1. PICK r \in Runners : SetTimer(r)
    BY <1>7
  <2>2. /\ DOMAIN timer_events_' = DOMAIN timer_events_ \cup {event_id_}
        /\ UNCHANGED <<event_id_, cleared, ran>>
        /\ event_id_ < MaxId /\ thread[r] = "setting"
        /\ thread' = [thread EXCEPT ![r] = "stored"]
    BY <2>1 DEF SetTimer, history
  <2> QED  BY <1>1, <2>2
<1>8. CASE \E r \in Runners : ReturnId(r)
  <2>1. PICK r \in Runners : ReturnId(r)
    BY <1>8
  <2>2. /\ event_id_' = event_id_ + 1 /\ UNCHANGED <<cleared, ran, timer_events_>>
        /\ thread[r] = "stored" /\ thread' = [thread EXCEPT ![r] = "running"]
    BY <2>1 DEF ReturnId, history
  <2>3. \A other \in Runners \ {r} : thread'[other] \notin InScript
    BY <1>1, <2>2 DEF LockerHeld, InScript
  <2>4. \A other \in Runners : thread'[other] \notin {"setting", "stored"}
    BY <1>1, <2>2, <2>3 DEF InScript
  <2>5. /\ \A id \in Used' : id \in Nat /\ id <= event_id_
        /\ \A id \in cleared' : id \in Nat /\ id < event_id_ /\ id \notin DOMAIN timer_events_'
    <3>1. \A id \in Ids : id \in Nat
      BY <1>1 DEF Ids
    <3>2. Used' = Used /\ cleared' = cleared
      BY <2>2
    <3>3. \A id \in Used : id \in Nat /\ id <= event_id_
      BY <1>1, <1>2, <3>1
    <3>4. \A id \in cleared : id \in Nat /\ id < event_id_ /\ id \notin DOMAIN timer_events_
      BY <1>1, <3>1
    <3> QED  BY <2>2, <3>2, <3>3, <3>4
  <2>6. event_id_' \notin Used'
    BY <1>1, <2>2, <2>5
  <2> QED  BY <1>1, <2>2, <2>4, <2>5, <2>6
<1>9. CASE \E r \in Runners : ClearTimer(r)
  <2>1. PICK r \in Runners : ClearTimer(r)
    BY <1>9
  <2>2. /\ UNCHANGED <<event_id_, ran>>
        /\ DOMAIN timer_events_' \subseteq DOMAIN timer_events_
        /\ thread[r] = "clearing" /\ thread' = [thread EXCEPT ![r] = "running"]
    BY <2>1 DEF ClearTimer, Without
  <2>3. \A id \in cleared' : id < event_id_ /\ id \notin DOMAIN timer_events_'
    <3>1. CASE cleared' = cleared
      BY <2>2, <3>1
    <3>2. ASSUME NEW id \in 0..(event_id_ - 1),
                 timer_events_' = Without(id), cleared' = cleared \cup {id}
          PROVE  \A i \in cleared' : i < event_id_ /\ i \notin DOMAIN timer_events_'
      <4>1. id < event_id_ /\ id \notin DOMAIN timer_events_'
        BY <1>1, <3>2 DEF Without
      <4> QED  BY <2>2, <3>2, <4>1
    <3> QED  BY <2>1, <2>2, <3>1, <3>2 DEF ClearTimer
  <2>4. \A other \in Runners :
           /\ thread'[other] = "stored" <=> thread[other] = "stored"
           /\ thread'[other] = "setting" <=> thread[other] = "setting"
    BY <1>1, <2>2
  <2> QED  BY <1>1, <2>2, <2>3, <2>4
<1> QED  BY <1>4, <1>5, <1>6, <1>7, <1>8, <1>9 DEF Next, TimerStep

(* A timeout loses its delay as the iterator leaves it, and is erased in the *)
(* same round, before mutex_ is released.                                    *)
LEMMA StartedKept ==
    ASSUME Inductive, Next
    PROVE  StartedIsBehind'
<1> USE DEF Inductive, StartedIsBehind
<1>1. /\ timer \in [at : {"sleep", "scan", "sweep", "ended"}, it : 0..MaxId]
      /\ watch \in [Helpers -> {"off", "limited", "expired"}] /\ "callback" \in Helpers
      /\ MaxId \in Nat /\ timer.it \in Nat
  BY ScriptTimersAssumption DEF TypeOK, Helpers
<1>2. /\ DOMAIN timer_events_ \subseteq Ids
      /\ \A id \in DOMAIN timer_events_ : timer_events_[id] \in Event
  BY TimersShape DEF TypeOK
<1>3. \A id \in Ids : id \in Nat /\ id < MaxId
  BY <1>1 DEF Ids
<1>4. CASE UNCHANGED <<timer_events_, ran, timer>> /\ watch'["callback"] # "off"
  BY <1>4
<1>5. CASE UNCHANGED <<timer_events_, ran, timer>> /\ watch'["callback"] = watch["callback"]
  BY <1>5
<1>6. CASE \E id \in Ids : Skip(id)
  <2>1. PICK id \in Ids : Skip(id)
    BY <1>6
  <2>2. /\ timer.at = "scan" /\ timer'.at = "scan" /\ timer.it = id /\ timer'.it = id + 1
        /\ watch["callback"] = "off" /\ UNCHANGED <<timer_events_, ran, watch>>
    BY <1>1, <2>1 DEF Skip, Scanning, history
  <2> QED  BY <1>2, <1>3, <2>2
<1>7. CASE \E id \in Ids : Launch(id)
  <2>1. PICK id \in Ids : Launch(id)
    BY <1>7
  <2>2. /\ timer.at = "scan" /\ timer.it = id /\ ran' = ran \cup {id}
        /\ watch'["callback"] = "limited" /\ UNCHANGED <<timer_events_, timer>>
    BY <1>1, <2>1 DEF Launch, Scanning
  <2> QED  BY <2>2
<1>8. CASE CallbackJoined
  <2>1. /\ timer.at = "scan" /\ timer'.at = "scan" /\ timer'.it = timer.it + 1
        /\ UNCHANGED ran /\ watch["callback"] # "off"
    BY <1>1, <1>8 DEF CallbackJoined, history
  <2>2. /\ DOMAIN timer_events_' = DOMAIN timer_events_
        /\ \A id \in DOMAIN timer_events_ : id # timer.it => timer_events_'[id] = timer_events_[id]
        /\ timer.it \in DOMAIN timer_events_ =>
              timer_events_'[timer.it].interval \/ ~timer_events_'[timer.it].positive
    BY <1>2, <1>8 DEF CallbackJoined, AfterRun, Event
  <2>3. ASSUME NEW id \in ran \cap DOMAIN timer_events_
        PROVE  \/ timer_events_'[id].interval
               \/ id < timer'.it /\ ~timer_events_'[id].positive
    <3>1. CASE id = timer.it
      BY <1>1, <2>1, <2>2, <3>1
    <3>2. CASE id # timer.it
      BY <1>1, <1>2, <1>3, <2>1, <2>2, <3>2
    <3> QED  BY <3>1, <3>2
  <2> QED  BY <2>1, <2>2, <2>3
<1>9. CASE Tick
  <2>1. /\ timer.at = "sleep" /\ UNCHANGED <<timer_events_, ran>>
    BY <1>9 DEF Tick, history
  <2> QED  BY <2>1
<1>10. CASE Scanned
  <2>1. /\ timer.at = "scan" /\ timer'.at = "sweep" /\ timer.it = MaxId
        /\ UNCHANGED <<timer_events_, ran>>
    BY <1>10 DEF Scanned, history
  <2>2. \A id \in DOMAIN timer_events_ : id # timer.it
    BY <1>2, <1>3, <2>1
  <2> QED  BY <2>1, <2>2
<1>11. CASE Swept
  <2>1. /\ timer.at = "sweep" /\ Spent = {} /\ UNCHANGED <<timer_events_, ran>>
    BY <1>11 DEF Swept, history
  <2>2. \A id \in DOMAIN timer_events_ : timer_events_[id].positive
    BY <2>1 DEF Spent
  <2> QED  BY <2>1, <2>2
<1>12. CASE Interrupted
  BY <1>12 DEF Interrupted
<1>13. CASE Sweep \/ \E r \in Runners : ClearTimer(r)
  <2>1. /\ UNCHANGED <<ran, timer, watch>>
        /\ DOMAIN timer_events_' \subseteq DOMAIN timer_events_
        /\ \A id \in DOMAIN timer_events_' : timer_events_'[id] = timer_events_[id]
    BY <1>13 DEF Sweep, ClearTimer, Without, history
  <2> QED  BY <2>1
<1>14. CASE \E id \in Ids : Elapse(id)
  <2>1. PICK id \in Ids : Elapse(id)
    BY <1>14
  <2>2. /\ UNCHANGED <<ran, timer, watch>>
        /\ DOMAIN timer_events_' = DOMAIN timer_events_
    BY <2>1 DEF Elapse, history
  <2>3. \A i \in DOMAIN timer_events_ :
           /\ timer_events_'[i].interval = timer_events_[i].interval
           /\ timer_events_'[i].positive = timer_events_[i].positive
    BY <1>2, <2>1 DEF Elapse, Event
  <2> QED  BY <2>2, <2>3
<1>15. CASE \E r \in Runners : SetTimer(r)
  <2>1. PICK r \in Runners : SetTimer(r)
    BY <1>15
  <2>2. event_id_ \notin ran
    <3>1. thread[r] = "setting"
      BY <2>1 DEF SetTimer
    <3>2. \A other \in Runners : thread[other] # "stored"
      BY <3>1 DEF LockerHeld, InScript
    <3> QED  BY <3>2 DEF IdsCounted, Used
  <2>3. /\ UNCHANGED <<ran, timer, watch>>
        /\ DOMAIN timer_events_' = DOMAIN timer_events_ \cup {event_id_}
        /\ \A id \in DOMAIN timer_events_ : id # event_id_ => timer_events_'[id] = timer_events_[id]
    BY <2>1 DEF SetTimer, history
  <2> QED  BY <2>2, <2>3
<1>16. CASE TimedWith \/ HandlerJoined \/ \E h \in Helpers : Expire(h)
  <2>1. UNCHANGED <<timer_events_, ran, timer>>
    BY <1>16 DEF TimedWith, HandlerJoined, Expire, history
  <2>2. watch'["callback"] = watch["callback"] \/ watch'["callback"] # "off"
    BY <1>1, <1>16 DEF TimedWith, HandlerJoined, Expire
  <2> QED  BY <1>4, <1>5, <2>1, <2>2
<1>17. CASE UNCHANGED <<timer_events_, ran, timer, watch>>  BY <1>17
<1> QED
  BY <1>6, <1>7, <1>8, <1>9, <1>10, <1>11, <1>12, <1>13, <1>14, <1>15, <1>16, <1>17
     DEF Next, TimerStep, MainStep, With, Close, Dispose, Enter, Call, ReturnId, Leave,
         history

(* The scan does not pass a timer without a delay, and none is stored while  *)
(* mutex_ is held.                                                           *)
LEMMA SpentKept ==
    ASSUME Inductive, Next
    PROVE  SpentHaveRun'
<1> USE DEF Inductive, SpentHaveRun, Spent
<1>1. /\ timer \in [at : {"sleep", "scan", "sweep", "ended"}, it : 0..MaxId]
      /\ MaxId \in Nat /\ timer.it \in Nat
  BY ScriptTimersAssumption DEF TypeOK
<1>2. /\ DOMAIN timer_events_ \subseteq Ids
      /\ \A id \in DOMAIN timer_events_ : timer_events_[id] \in Event
  BY TimersShape DEF TypeOK
<1>3. \A id \in Ids : id \in Nat /\ id < MaxId
  BY <1>1 DEF Ids
<1>4. CASE \E id \in Ids : Skip(id)
  <2>1. PICK id \in Ids : Skip(id)
    BY <1>4
  <2>2. /\ timer.at = "scan" /\ timer'.at = "scan" /\ timer.it = id /\ timer'.it = id + 1
        /\ UNCHANGED <<timer_events_, ran>>
    BY <1>1, <2>1 DEF Skip, Scanning, history
  <2>3. id \notin Spent
    BY <2>1 DEF Skip, Due
  <2> QED  BY <1>2, <1>3, <2>2, <2>3
<1>5. CASE \E id \in Ids : Launch(id)
  BY <1>5 DEF Launch
<1>6. CASE CallbackJoined
  <2>1. /\ timer.at = "scan" /\ timer'.at = "scan" /\ timer'.it = timer.it + 1
        /\ UNCHANGED ran
    BY <1>1, <1>6 DEF CallbackJoined, history
  <2>2. timer.it \in ran
    BY <1>6 DEF CallbackJoined, WaitsAtTimer
  <2>3. \A id \in DOMAIN timer_events_ : id # timer.it => timer_events_'[id] = timer_events_[id]
    BY <1>6 DEF CallbackJoined
  <2>4. DOMAIN timer_events_' = DOMAIN timer_events_
    BY <1>6 DEF CallbackJoined
  <2> QED  BY <1>1, <1>2, <1>3, <2>1, <2>2, <2>3, <2>4
<1>7. CASE Tick
  <2>1. UNCHANGED <<timer_events_, ran>> /\ timer'.at = "scan" /\ timer'.it = 0
    BY <1>7 DEF Tick, history
  <2> QED  BY <1>2, <1>3, <2>1
<1>8. CASE Scanned
  <2>1. UNCHANGED <<timer_events_, ran>> /\ timer.at = "scan" /\ timer.it = MaxId
    BY <1>8 DEF Scanned, history
  <2> QED  BY <1>1, <1>2, <1>3, <2>1
<1>9. CASE Swept \/ Interrupted
  BY <1>9 DEF Swept, Interrupted
<1>10. CASE Sweep \/ \E r \in Runners : ClearTimer(r)
  <2>1. /\ UNCHANGED <<ran, timer>>
        /\ DOMAIN timer_events_' \subseteq DOMAIN timer_events_
        /\ \A id \in DOMAIN timer_events_' : timer_events_'[id] = timer_events_[id]
    BY <1>10 DEF Sweep, ClearTimer, Without, history
  <2> QED  BY <2>1
<1>11. CASE \E id \in Ids : Elapse(id)
  <2>1. PICK id \in Ids : Elapse(id)
    BY <1>11
  <2>2. UNCHANGED <<ran, timer>> /\ DOMAIN timer_events_' = DOMAIN timer_events_
    BY <2>1 DEF Elapse, history
  <2>3. \A i \in DOMAIN timer_events_ : timer_events_'[i].positive = timer_events_[i].positive
    BY <1>2, <2>1 DEF Elapse, Event
  <2> QED  BY <2>2, <2>3
<1>12. CASE \E r \in Runners : SetTimer(r)
  BY <1>1, <1>12 DEF SetTimer, MutexHeld
<1>13. CASE UNCHANGED <<timer_events_, ran, timer>>  BY <1>13
<1> QED
  BY <1>4, <1>5, <1>6, <1>7, <1>8, <1>9, <1>10, <1>11, <1>12, <1>13
     DEF Next, TimerStep, MainStep, With, TimedWith, HandlerJoined, Close, Dispose, Enter,
         Call, ReturnId, Leave, Expire, history

(* Every variable keeps its type. *)
LEMMA TypeKept ==
    ASSUME Inductive, Next
    PROVE  TypeOK'
<1> USE DEF Inductive, TypeOK
<1>1. timer_events_' \in Timers
  BY TimersTyped
<1>2. MaxId \in Nat /\ MaxBlocks \in Nat
  BY ScriptTimersAssumption
<1>3. event_id_' \in 0..MaxId /\ blocks' \in 0..MaxBlocks
  <2>1. CASE \E r \in Runners : ReturnId(r)
    BY <1>2, <2>1 DEF ReturnId, IdsCounted
  <2>2. CASE With \/ TimedWith
    BY <1>2, <2>2 DEF With, TimedWith
  <2>3. CASE UNCHANGED <<event_id_, blocks>>
    BY <2>3
  <2> QED
    BY <2>1, <2>2, <2>3
       DEF Next, TimerStep, MainStep, Tick, Skip, Launch, CallbackJoined, Scanned, Sweep,
           Swept, Interrupted, HandlerJoined, Close, Dispose, Elapse, Enter, Call, SetTimer,
           ClearTimer, Leave, Expire
<1>4. timer' \in [at : {"sleep", "scan", "sweep", "ended"}, it : 0..MaxId]
  <2>1. CASE \E id \in Ids : Skip(id)
    BY <1>2, <2>1 DEF Skip, Ids
  <2>2. CASE CallbackJoined
    <3>1. timer.it \in Ids
      BY <2>2, TimersShape DEF CallbackJoined, WaitsAtTimer
    <3> QED  BY <1>2, <2>2, <3>1 DEF CallbackJoined, Ids
  <2>3. CASE Tick \/ Scanned \/ Swept \/ Interrupted
    BY <1>2, <2>3 DEF Tick, Scanned, Swept, Interrupted
  <2>4. CASE UNCHANGED timer
    BY <2>4
  <2> QED
    BY <2>1, <2>2, <2>3, <2>4
       DEF Next, TimerStep, MainStep, Launch, Sweep, With, TimedWith, HandlerJoined, Close,
           Dispose, Elapse, Enter, Call, SetTimer, ReturnId, ClearTimer, Leave, Expire
<1>5. thread' \in [Runners -> {"idle", "waiting"} \cup InScript]
  BY DEF Next, TimerStep, MainStep, Tick, Skip, Launch, CallbackJoined, Scanned, Sweep, Swept,
         Interrupted, With, TimedWith, HandlerJoined, Close, Dispose, Elapse, Enter, Call,
         SetTimer, ReturnId, ClearTimer, Leave, Expire, InScript
<1>6. watch' \in [Helpers -> {"off", "limited", "expired"}]
  BY DEF Next, TimerStep, MainStep, Tick, Skip, Launch, CallbackJoined, Scanned, Sweep, Swept,
         Interrupted, With, TimedWith, HandlerJoined, Close, Dispose, Elapse, Enter, Call,
         SetTimer, ReturnId, ClearTimer, Leave, Expire
<1>7. /\ mutex_' \in {"free", "timer"} /\ isolate_' \in Runners \cup {"free"}
      /\ killed' \in Runners \cup {"none"} /\ closing' \in {"no", "interrupted", "disposed"}
  BY DEF Next, TimerStep, MainStep, Tick, Skip, Launch, CallbackJoined, Scanned, Sweep, Swept,
         Interrupted, With, TimedWith, HandlerJoined, Close, Dispose, Elapse, Enter, Call,
         SetTimer, ReturnId, ClearTimer, Leave, Expire, locks
<1>8. ran' \subseteq Ids /\ cleared' \subseteq Ids
  <2>1. CASE \E r \in Runners : ClearTimer(r)
    <3>1. \A id \in 0..(event_id_ - 1) : id \in Ids
      BY <1>2 DEF Ids
    <3> QED  BY <2>1, <3>1 DEF ClearTimer
  <2>2. CASE \E id \in Ids : Launch(id)
    BY <2>2 DEF Launch
  <2>3. CASE UNCHANGED history
    BY <2>3 DEF history
  <2> QED
    BY <2>1, <2>2, <2>3
       DEF Next, TimerStep, MainStep, Tick, Skip, CallbackJoined, Scanned, Sweep, Swept,
           Interrupted, With, TimedWith, HandlerJoined, Close, Dispose, Elapse, Enter, Call,
           SetTimer, ReturnId, Leave, Expire
<1> QED  BY <1>1, <1>3, <1>4, <1>5, <1>6, <1>7, <1>8

-----------------------------------------------------------------------------
LEMMA Initially == Init => Inductive
<1> SUFFICES ASSUME Init PROVE Inductive
  OBVIOUS
<1> USE DEF Init
<1>1. DOMAIN timer_events_ = {} /\ timer_events_ = [id \in DOMAIN timer_events_ |-> timer_events_[id]]
  OBVIOUS
<1>2. timer_events_ \in Timers
  BY <1>1, TimersShape
<1>3. TypeOK
  BY <1>2, ScriptTimersAssumption DEF TypeOK, Runners, Helpers
<1>4. LockerHeld /\ MutexHeld /\ WaitsAtTimer /\ UnwatchedIsIdle
  BY DEF LockerHeld, MutexHeld, WaitsAtTimer, UnwatchedIsIdle, InScript, Runners, Helpers
<1>5. IdsCounted /\ StartedIsBehind /\ SpentHaveRun
  BY <1>1 DEF IdsCounted, StartedIsBehind, SpentHaveRun, Spent, Used, Runners, Helpers
<1> QED  BY <1>3, <1>4, <1>5 DEF Inductive

LEMMA Preserved == Inductive /\ [Next]_vars => Inductive'
<1> SUFFICES ASSUME Inductive, [Next]_vars PROVE Inductive'
  OBVIOUS
<1>1. CASE Next
  BY <1>1, TypeKept, LockerKept, MutexKept, WaitsKept, UnwatchedKept, CountedKept,
     StartedKept, SpentKept
     DEF Inductive
<1>2. CASE UNCHANGED vars
  BY <1>2 DEF vars, locks, history, Inductive, TypeOK, LockerHeld, MutexHeld, WaitsAtTimer,
              UnwatchedIsIdle, IdsCounted, Used, StartedIsBehind, SpentHaveRun, Spent
<1> QED  BY <1>1, <1>2

LEMMA Invariance == Spec => []Inductive
BY Initially, Preserved, PTL DEF Spec

(* Every variable keeps its type (ScriptEnvironment.hpp:85-99). *)
THEOREM TypeCorrect == Spec => []TypeOK
<1>1. Inductive => TypeOK
  BY DEF Inductive
<1> QED  BY <1>1, Invariance, PTL

(* The event of UpdateTimerEvents' iterator is in the map while its callback *)
(* runs (ScriptEnvironment.cpp:274-288), because every other thread needs    *)
(* mutex_ to change the map.                                                 *)
THEOREM IteratorStaysValid == Spec => []IteratorValid
<1>1. Inductive => IteratorValid
  BY DEF Inductive, WaitsAtTimer, IteratorValid
<1> QED  BY <1>1, Invariance, PTL

(* event_id_ is no timer's id yet when a script stores one under it, although *)
(* it is counted outside mutex_ (204-208): the isolate is held all the while. *)
THEOREM IdsAreFresh == Spec => FreshIds
<1>1. ASSUME Inductive, NEW r \in Runners, thread[r] = "setting"
      PROVE  event_id_ \notin DOMAIN timer_events_ \cup ran \cup cleared
  <2>1. \A other \in Runners : thread[other] # "stored"
    BY <1>1 DEF Inductive, LockerHeld, InScript
  <2>2. event_id_ \notin DOMAIN timer_events_ \cup ran
    BY <1>1, <2>1 DEF Inductive, IdsCounted, Used
  <2>3. event_id_ \notin cleared
    BY <1>1 DEF Inductive, IdsCounted, TypeOK
  <2> QED  BY <2>2, <2>3
<1>2. Inductive => [(\E r \in Runners : thread[r] = "setting" /\ thread'[r] = "stored")
                      => event_id_ \notin DOMAIN timer_events_ \cup ran \cup cleared]_vars
  BY <1>1
<1> QED  BY <1>2, Invariance, PTL DEF FreshIds

(* A timeout is started once at most (282-308): it loses its delay before the *)
(* iterator goes on, and is erased before mutex_ is released.                 *)
THEOREM TimeoutsRunOnlyOnce == Spec => TimeoutsRunOnce
<1>1. ASSUME Inductive, NEW id \in ran, Launch(id)
      PROVE  timer_events_[id].interval
  <2>1. /\ timer.at = "scan" /\ timer.it = id /\ watch["callback"] = "off"
        /\ id \in DOMAIN timer_events_
    BY <1>1 DEF Launch, Scanning
  <2>2. id \in Ids /\ ~(id < id)
    BY <1>1, ScriptTimersAssumption DEF Inductive, TypeOK, Ids
  <2> QED  BY <1>1, <2>1, <2>2 DEF Inductive, StartedIsBehind
<1>2. Inductive => [\A id \in ran : Launch(id) => timer_events_[id].interval]_vars
  BY <1>1
<1> QED  BY <1>2, Invariance, PTL DEF TimeoutsRunOnce

(* No callback of a timer is started or running once a clear of it has        *)
(* returned (240-262): the clear waits for mutex_, the timer is erased, and   *)
(* its id does not come back.                                                 *)
THEOREM ClearedIsQuiet == Spec => ClearedStaysQuiet
<1>1. ASSUME Inductive, Next, NEW id \in cleared', watch["callback"] # "off"
      PROVE  timer.it # id
  <2>1. CASE id \in cleared
    BY <1>1, <2>1 DEF Inductive, IdsCounted, WaitsAtTimer
  <2>2. CASE cleared' # cleared
    <3>1. PICK r \in Runners : ClearTimer(r)
      BY <1>1, <2>2
         DEF Next, TimerStep, MainStep, Tick, Skip, Launch, CallbackJoined, Scanned, Sweep,
             Swept, Interrupted, With, TimedWith, HandlerJoined, Close, Dispose, Elapse,
             Enter, Call, SetTimer, ReturnId, Leave, Expire, history
    <3>2. timer.at # "scan"
      BY <1>1, <3>1 DEF ClearTimer, Inductive, MutexHeld
    <3> QED  BY <1>1, <3>2 DEF Inductive, WaitsAtTimer
  <2> QED  BY <1>1, <2>1, <2>2
<1>2. ASSUME Inductive, NEW id \in cleared
      PROVE  ~Launch(id)
  BY <1>2 DEF Inductive, IdsCounted, Launch
<1>3. Inductive /\ [Next]_vars =>
        [/\ \A id \in cleared' : watch["callback"] # "off" => timer.it # id
         /\ \A id \in cleared : ~Launch(id)]_vars
  BY <1>1, <1>2
<1> QED  BY <1>3, Invariance, PTL DEF Spec, ClearedStaysQuiet

(* What the sweep erases has run (291-309), and what a script erases has been *)
(* named by it or is the first timer.                                         *)
THEOREM LeavesOnlyForAReason == Spec => LeavesForAReason
<1>1. ASSUME Inductive, Next,
             NEW id \in DOMAIN timer_events_, id \notin DOMAIN timer_events_'
      PROVE  \/ id \in cleared'
             \/ id \in ran /\ ~timer_events_[id].positive
             \/ id = 0 /\ \E r \in Runners : ClearTimer(r)
  <2>1. CASE Sweep
    BY <1>1, <2>1 DEF Sweep, Spent, Without, Inductive, SpentHaveRun
  <2>2. CASE \E r \in Runners : ClearTimer(r)
    BY <1>1, <2>2 DEF ClearTimer, Without
  <2>3. CASE DOMAIN timer_events_ \subseteq DOMAIN timer_events_'
    BY <1>1, <2>3
  <2> QED
    BY <1>1, <2>1, <2>2, <2>3
       DEF Next, TimerStep, MainStep, Tick, Skip, Launch, CallbackJoined, Scanned, Swept,
           Interrupted, With, TimedWith, HandlerJoined, Close, Dispose, Elapse, Enter, Call,
           SetTimer, ReturnId, Leave, Expire
<1>2. Inductive /\ [Next]_vars =>
        [\A id \in DOMAIN timer_events_ \ DOMAIN timer_events_' :
            \/ id \in cleared'
            \/ id \in ran /\ ~timer_events_[id].positive
            \/ id = 0 /\ \E r \in Runners : ClearTimer(r)]_vars
  BY <1>1
<1> QED  BY <1>2, Invariance, PTL DEF Spec, LeavesForAReason

(* Neither thread of the embrace gets on, nor does the time limit part them  *)
(* (395-400): what the timer thread does needs the callback to end or the    *)
(* isolate, and what the script does needs mutex_.                           *)
THEOREM EmbraceStays == Spec => EmbraceIsForEver
<1>1. ASSUME Inductive, Embrace, Next
      PROVE  Embrace' \/ closing' # "no"
  <2> USE <1>1 DEF Inductive, Embrace
  <2>1. /\ timer.at \in {"scan", "sweep"} /\ mutex_ = "timer" /\ isolate_ \in Runners
        /\ thread[isolate_] \in {"setting", "clearing"}
        /\ thread \in [Runners -> {"idle", "waiting"} \cup InScript]
        /\ watch \in [Helpers -> {"off", "limited", "expired"}]
    BY DEF MutexHeld, TypeOK
  <2>2. timer.at = "scan" => watch["callback"] # "off" /\ thread["callback"] # "idle"
    BY <2>1 DEF UnwatchedIsIdle
  <2>3. timer.at = "sweep" => Spent # {}
    BY <2>1 DEF UnwatchedIsIdle, WaitsAtTimer
  <2>4. timer.at = "scan" => timer.it # MaxId
    <3>1. timer.at = "scan" => timer.it \in Ids
      BY <2>2, TimersShape DEF WaitsAtTimer, TypeOK
    <3> QED  BY <3>1, ScriptTimersAssumption DEF Ids
  <2>5. CASE TimerStep
    <3>1. ~Tick /\ ~Sweep /\ ~Swept
      BY <2>1, <2>3 DEF Tick, Sweep, Swept, Runners, Helpers
    <3>2. ~CallbackJoined /\ ~Scanned
      BY <2>2, <2>4 DEF CallbackJoined, Scanned
    <3>3. \A id \in Ids : ~Skip(id) /\ ~Launch(id)
      BY <2>2 DEF Skip, Launch, Scanning
    <3>4. Interrupted => closing' # "no"
      BY DEF Interrupted
    <3> QED  BY <2>5, <3>1, <3>2, <3>3, <3>4 DEF TimerStep
  <2>6. CASE \E r \in Runners :
                Enter(r) \/ Call(r) \/ SetTimer(r) \/ ReturnId(r) \/ ClearTimer(r) \/ Leave(r)
    <3>1. PICK r \in Runners :
             Enter(r) \/ Call(r) \/ SetTimer(r) \/ ReturnId(r) \/ ClearTimer(r) \/ Leave(r)
      BY <2>6
    <3>2. isolate_ # "free" /\ mutex_ # "free"
      BY <2>1 DEF Runners, Helpers
    <3>3. thread[r] \in {"running", "stored"}
      BY <3>1, <3>2 DEF Enter, Call, SetTimer, ReturnId, ClearTimer, Leave
    <3>4. isolate_ = r
      BY <3>3 DEF LockerHeld, InScript
    <3> QED  BY <2>1, <3>3, <3>4
  <2>7. CASE MainStep
    <3>1. CASE Close \/ Dispose
      BY <3>1 DEF Close, Dispose
    <3>2. CASE With \/ TimedWith
      <4>1. PICK r \in {"main", "handler"} :
               /\ thread[r] = "idle" /\ thread' = [thread EXCEPT ![r] = "waiting"]
               /\ UNCHANGED <<mutex_, isolate_, timer, timer_events_>>
        BY <3>2 DEF With, TimedWith, MainIdle, UnwatchedIsIdle, locks
      <4> QED  BY <2>1, <4>1 DEF Runners, Helpers, Spent
    <3>3. CASE HandlerJoined
      BY <3>3 DEF HandlerJoined, Spent, locks
    <3> QED  BY <2>7, <3>1, <3>2, <3>3 DEF MainStep
  <2>8. CASE \E id \in Ids : Elapse(id)
    <3>1. PICK id \in Ids : Elapse(id)
      BY <2>8
    <3>2. UNCHANGED <<mutex_, isolate_, timer, thread>> /\ DOMAIN timer_events_' = DOMAIN timer_events_
      BY <3>1 DEF Elapse, locks
    <3>3. \A i \in DOMAIN timer_events_ : timer_events_'[i].positive = timer_events_[i].positive
      <4>1. \A i \in DOMAIN timer_events_ : timer_events_[i] \in Event
        BY TimersShape DEF TypeOK
      <4> QED  BY <3>1, <4>1 DEF Elapse, Event
    <3>4. Spent' = Spent
      BY <3>2, <3>3 DEF Spent
    <3> QED  BY <3>2, <3>4
  <2>9. CASE \E h \in Helpers : Expire(h)
    BY <2>9 DEF Expire, Spent, locks
  <2> QED  BY <2>5, <2>6, <2>7, <2>8, <2>9 DEF Next
<1>2. Inductive /\ [Next]_vars => [Embrace => Embrace' \/ closing' # "no"]_vars
  BY <1>1
<1> QED  BY <1>2, Invariance, PTL DEF Spec, EmbraceIsForEver

(* The timers are sound for any number of timers and scripts.              *)
THEOREM TimersAreSound == Spec => []TimersSound
  BY TypeCorrect, IteratorStaysValid, PTL DEF TimersSound

(* The functions of the timers keep what they promise.                     *)
THEOREM TimersKeepTheirWord == Spec => TimersKeepWord
  BY IdsAreFresh, TimeoutsRunOnlyOnce, ClearedIsQuiet, LeavesOnlyForAReason, EmbraceStays,
     PTL DEF TimersKeepWord

-----------------------------------------------------------------------------
(* The installation of models.                                             *)

Extras == UNION {Carried[m] : m \in Models}
Disks == SUBSET ((Folders \cup Homes) \X (Models \cup Extras))

(* A model that has not come home has all that belongs to it where it was  *)
(* dropped, unless a call failed for it.  What is at home may be cut off:  *)
(* it stays so, and no later run is the wiser.                             *)
Whole(m) == {m} \cup Carried[m] \subseteq In(FolderOf[m])
AtHome(m) == info[HomeOf[m]] # NoHeight /\ {m} \cup Carried[m] \subseteq In(HomeOf[m])
Done(m) == AtHome(m) \/ m \in failed
AllSafe == \A m \in Readable : Done(m) \/ Whole(m)

(* Models are where they were dropped, or come home.                       *)
Heights == Nat \cup {NoHeight, CutHeight}
DroppedOnce == \A m \in Models, d \in Folders : m \in In(d) => FolderOf[m] = d

(* What JsonGen has still to do in its folder, so that nothing in it is    *)
(* lost when the folder goes.                                              *)
Reading == {"models", "info", "extras"}
Current == IF step \in {"info", "extras"} THEN {model} ELSE {}
Settled(rest) == \A m \in Readable \ rest : FolderOf[m] = folder => Done(m)

\* What belongs to the model is at home, or its copy is still to come.
Coming ==
    \/ model \in failed
    \/ /\ info[HomeOf[model]] # NoHeight
       /\ Carried[model] \cap In(folder) \subseteq extras \cup In(HomeOf[model])

InstallInv ==
    /\ disk \in Disks /\ AllSafe /\ DroppedOnce
    /\ info \in [Homes -> Heights] /\ tallest \in Nat /\ todo \subseteq Folders
    /\ step \in {"off", "folders", "deleting"} \cup Reading
    /\ step \in Reading => /\ folder \in Folders /\ work \cup Current \subseteq ModelsIn(folder)
                           /\ Settled(work \cup Current)
    /\ step \in {"info", "extras"} => model \in Readable
    /\ step = "extras" => Coming
    /\ step = "deleting" => folder \in Folders /\ Settled({})

LEMMA InstallFacts ==
    /\ FolderOf \in [Models -> Folders] /\ Homes \cap Folders = {} /\ Readable \subseteq Models
    /\ \A m \in Models : Carried[m] \cap Models = {} /\ Carried[m] \subseteq Extras
    /\ \A m \in Models : HomeOf[m] \in Homes /\ HeightOf[m] \in Nat
    /\ DefaultHeight \in Nat /\ NoHeight \notin Nat /\ CutHeight # NoHeight /\ 0 \in Nat
<1>1. \A m \in Models : Carried[m] \cap Models = {} /\ Carried[m] \subseteq Extras
  BY InstallAssumption DEF Extras
<1>2. \A m \in Models : HomeOf[m] \in Homes
  BY DEF Homes
<1>3. DefaultHeight \in Nat /\ NoHeight \notin Nat /\ CutHeight # NoHeight /\ 0 \in Nat
  BY DEF DefaultHeight, NoHeight, CutHeight
<1> QED
  BY <1>1, <1>2, <1>3, InstallAssumption

(* What is in a folder of a disk.                                          *)
Holds(d, place) == {f[2] : f \in {x \in d : x[1] = place}}

LEMMA HoldsIs ==
    ASSUME NEW d \in Disks, NEW place, NEW f
    PROVE  f \in Holds(d, place) <=> <<place, f>> \in d
<1>1. ASSUME f \in Holds(d, place) PROVE <<place, f>> \in d
  <2>1. PICK x \in d : x[1] = place /\ x[2] = f
    BY <1>1 DEF Holds
  <2>2. x \in (Folders \cup Homes) \X (Models \cup Extras)
    BY DEF Disks
  <2>3. x = <<place, f>>
    BY <2>1, <2>2
  <2> QED
    BY <2>1, <2>3
<1>2. ASSUME <<place, f>> \in d PROVE f \in Holds(d, place)
  BY <1>2 DEF Holds
<1> QED
  BY <1>1, <1>2

LEMMA InIs ==
    /\ \A place : In(place) = Holds(disk, place)
    /\ \A place : In(place)' = Holds(disk', place)
  BY DEF In, Holds

(* Files that come home, and heights that are written, lose nothing.       *)
LEMMA Grows ==
    ASSUME disk \in Disks, disk' \in Disks, disk \subseteq disk', failed \subseteq failed',
           \A place, f : <<place, f>> \in disk' \ disk => place \in Homes,
           \A h \in Homes : info[h] # NoHeight => info'[h] # NoHeight
    PROVE  /\ \A m \in Models : Done(m) => Done(m)'
           /\ \A m \in Models : Whole(m) => Whole(m)'
           /\ \A d \in Folders : In(d)' = In(d)
<1>1. ASSUME NEW place PROVE In(place) \subseteq In(place)'
  <2>1. \A f : f \in Holds(disk, place) => f \in Holds(disk', place)
    BY HoldsIs
  <2> QED
    BY <2>1, InIs
<1>2. ASSUME NEW d \in Folders PROVE In(d)' = In(d)
  <2>1. \A f : f \in Holds(disk', d) => f \in Holds(disk, d)
    BY HoldsIs, InstallFacts
  <2> QED
    BY <1>1, <2>1, InIs
<1>3. ASSUME NEW m \in Models, Done(m) PROVE Done(m)'
  <2>1. CASE m \in failed
    BY <2>1 DEF Done
  <2>2. CASE AtHome(m)
    <3>1. HomeOf[m] \in Homes
      BY InstallFacts
    <3>2. info'[HomeOf[m]] # NoHeight /\ {m} \cup Carried[m] \subseteq In(HomeOf[m])'
      BY <1>1, <2>2, <3>1 DEF AtHome
    <3> QED
      BY <3>2 DEF Done, AtHome
  <2> QED
    BY <1>3, <2>1, <2>2 DEF Done
<1>4. ASSUME NEW m \in Models, Whole(m) PROVE Whole(m)'
  <2>1. {m} \cup Carried[m] \subseteq In(FolderOf[m])'
    BY <1>1, <1>4 DEF Whole
  <2> QED
    BY <2>1 DEF Whole
<1> QED
  BY <1>2, <1>3, <1>4

(* What holds of the disk whatever JsonGen is doing.                       *)
LEMMA GrowsSafely ==
    ASSUME InstallInv, disk' \in Disks, disk \subseteq disk', failed \subseteq failed',
           \A place, f : <<place, f>> \in disk' \ disk => place \in Homes,
           \A h \in Homes : info[h] # NoHeight => info'[h] # NoHeight
    PROVE  /\ AllSafe' /\ DroppedOnce'
           /\ \A m \in Models : Done(m) => Done(m)'
           /\ \A d \in Folders : In(d)' = In(d)
<1>1. /\ \A m \in Models : Done(m) => Done(m)'
      /\ \A m \in Models : Whole(m) => Whole(m)'
      /\ \A d \in Folders : In(d)' = In(d)
  BY Grows DEF InstallInv
<1>2. AllSafe'
  BY <1>1, InstallFacts DEF InstallInv, AllSafe
<1>3. DroppedOnce'
  BY <1>1 DEF InstallInv, DroppedOnce
<1> QED
  BY <1>1, <1>2, <1>3

(* A step that leaves the disk and the info.jsons alone.                   *)
LEMMA StaysSafe ==
    ASSUME InstallInv, UNCHANGED <<disk, info, failed>>
    PROVE  /\ disk' \in Disks /\ AllSafe' /\ DroppedOnce'
           /\ info' \in [Homes -> Heights]
           /\ \A m : Done(m)' = Done(m)
           /\ \A d : In(d)' = In(d) /\ ModelsIn(d)' = ModelsIn(d)
  BY DEF InstallInv, AllSafe, DroppedOnce, Done, AtHome, Whole, In, ModelsIn

LEMMA StartKeeps == InstallInv /\ Start => InstallInv'
  BY StaysSafe DEF InstallInv, Start, Reading, persisted

LEMMA OpenFolderKeeps == ASSUME InstallInv, NEW d \in Folders, OpenFolder(d) PROVE InstallInv'
<1>1. /\ disk' \in Disks /\ AllSafe' /\ DroppedOnce' /\ info' \in [Homes -> Heights]
      /\ \A m : Done(m)' = Done(m)
      /\ \A e : In(e)' = In(e) /\ ModelsIn(e)' = ModelsIn(e)
  BY StaysSafe DEF OpenFolder, persisted
<1>2. /\ step = "folders" /\ todo' = todo \ {d} /\ UNCHANGED <<disk, info, failed, model, tallest>>
      /\ todo' \subseteq Folders /\ tallest' \in Nat
  BY DEF OpenFolder, InstallInv, persisted
<1>3. CASE ModelsIn(d) = {}
  <2>1. step' = "folders"
    BY <1>2, <1>3 DEF OpenFolder
  <2> QED
    BY <1>1, <1>2, <2>1 DEF InstallInv, Reading
<1>4. CASE ModelsIn(d) # {}
  <2>1. step' = "models" /\ folder' = d /\ work' = ModelsIn(d) /\ Current' = {}
    BY <1>4 DEF OpenFolder, Current
  <2>2. ASSUME NEW m \in Readable \ work', FolderOf[m] = d PROVE Done(m)
    <3>1. m \in Models /\ m \notin In(d)
      BY <2>1, <2>2, InstallFacts DEF ModelsIn
    <3> QED
      BY <2>2, <3>1 DEF InstallInv, AllSafe, Whole
  <2>3. Settled(work \cup Current)'
    BY <1>1, <2>1, <2>2 DEF Settled
  <2> QED
    BY <1>1, <1>2, <2>1, <2>3 DEF InstallInv, Reading
<1> QED
  BY <1>3, <1>4

LEMMA ReadModelKeeps == ASSUME InstallInv, NEW m \in Models, ReadModel(m) PROVE InstallInv'
<1>1. /\ disk' \in Disks /\ AllSafe' /\ DroppedOnce' /\ info' \in [Homes -> Heights]
      /\ \A n : Done(n)' = Done(n)
      /\ \A e : In(e)' = In(e) /\ ModelsIn(e)' = ModelsIn(e)
  BY StaysSafe DEF ReadModel, persisted
<1>2. /\ step = "models" /\ m \in work /\ work' = work \ {m}
      /\ UNCHANGED <<disk, info, failed, todo, folder>>
      /\ todo' \subseteq Folders /\ folder' \in Folders /\ Current = {}
      /\ work \subseteq ModelsIn(folder) /\ Settled(work)
  <2>1. step = "models" /\ Current = {} /\ step \in Reading
    BY DEF ReadModel, Current, Reading
  <2>2. work \cup Current = work
    BY <2>1
  <2> QED
    BY <2>1, <2>2 DEF ReadModel, InstallInv, persisted
<1>3. CASE m \in Readable
  <2>1. step' = "info" /\ model' = m /\ tallest' = HeightAfter(m) /\ Current' = {m}
    BY <1>3 DEF ReadModel, Current
  <2>2. tallest' \in Nat
    BY <2>1, InstallFacts DEF HeightAfter, InstallInv
  <2>3. work' \cup Current' = work
    BY <1>2, <2>1
  <2>4. Settled(work \cup Current)'
    BY <1>1, <1>2, <2>3 DEF Settled
  <2>5. (work \cup Current)' \subseteq ModelsIn(folder)'
    BY <1>1, <1>2, <2>3
  <2> QED
    BY <1>1, <1>2, <1>3, <2>1, <2>2, <2>4, <2>5 DEF InstallInv, Reading
<1>4. CASE m \notin Readable
  <2>1. UNCHANGED <<step, model, tallest>> /\ Current' = {}
    BY <1>2, <1>4 DEF ReadModel, Current
  <2>2. tallest' \in Nat
    BY <2>1 DEF InstallInv
  <2>3. work' \cup Current' = work \ {m} /\ Readable \ (work \ {m}) = Readable \ work
    BY <1>2, <1>4, <2>1
  <2>4. Settled(work \cup Current)'
    BY <1>1, <1>2, <2>3 DEF Settled
  <2>5. (work \cup Current)' \subseteq ModelsIn(folder)'
    BY <1>1, <1>2, <2>3
  <2> QED
    BY <1>1, <1>2, <2>1, <2>2, <2>4, <2>5 DEF InstallInv, Reading
<1> QED
  BY <1>3, <1>4

(* The write leaves an info.json, or the model is one a call failed for.   *)
LEMMA WriteInfoKeeps == InstallInv /\ WriteInfo => InstallInv'
<1> SUFFICES ASSUME InstallInv, WriteInfo PROVE InstallInv'
  OBVIOUS
<1>1. /\ step = "info" /\ step' = "extras" /\ extras' = Carried[model] \cap In(folder)
      /\ UNCHANGED <<disk, todo, folder, work, model, tallest>>
      /\ \/ info' = [info EXCEPT ![HomeOf[model]] = Height] /\ failed' = failed
         \/ failed' = failed \cup {model} /\ info' = info
  BY DEF WriteInfo, run
<1>2. Height \in Nat /\ model \in Models /\ HomeOf[model] \in Homes
  BY <1>1, InstallFacts DEF InstallInv, Height
<1>3. /\ info' \in [Homes -> Heights] /\ failed \subseteq failed'
      /\ info'[HomeOf[model]] # NoHeight \/ model \in failed'
      /\ \A h \in Homes : info[h] # NoHeight => info'[h] # NoHeight
  <2>1. info \in [Homes -> Heights] /\ Height # NoHeight /\ Height \in Heights
    BY <1>2, InstallFacts DEF InstallInv, Heights
  <2> QED
    BY <1>1, <1>2, <2>1
<1>4. /\ AllSafe' /\ DroppedOnce' /\ \A m \in Models : Done(m) => Done(m)'
      /\ \A d \in Folders : In(d)' = In(d)
  <2>1. disk' \in Disks
    BY <1>1 DEF InstallInv
  <2> QED
    BY <1>1, <1>3, <2>1, GrowsSafely
<1>5. /\ folder \in Folders /\ work \cup Current \subseteq ModelsIn(folder)
      /\ Settled(work \cup Current) /\ Current' = Current
  BY <1>1 DEF InstallInv, Reading, Current
<1>6. Settled(work \cup Current)'
  BY <1>1, <1>4, <1>5, InstallFacts DEF Settled
<1>7. (work \cup Current)' \subseteq ModelsIn(folder)'
  BY <1>1, <1>4, <1>5 DEF ModelsIn
<1>8. Coming'
  BY <1>1, <1>3, <1>4, <1>5 DEF Coming
<1> QED
  BY <1>1, <1>3, <1>4, <1>5, <1>6, <1>7, <1>8 DEF InstallInv, Reading

(* A copy to the home of the model brings the file, or fails.              *)
LEMMA CopyKeeps ==
    ASSUME InstallInv, step = "extras", NEW f \in Models \cup Extras, CopyFile(f)
    PROVE  /\ disk' \in Disks /\ AllSafe' /\ DroppedOnce' /\ HomeOf[model] \in Homes
           /\ failed \subseteq failed' /\ info' = info
           /\ \A m \in Models : Done(m) => Done(m)'
           /\ \A d \in Folders : In(d)' = In(d)
           /\ f \in Holds(disk', HomeOf[model]) \/ model \in failed'
           /\ In(HomeOf[model]) \subseteq Holds(disk', HomeOf[model])
<1> DEFINE home == HomeOf[model]
<1>1. home \in Homes /\ disk \in Disks
  BY InstallFacts DEF InstallInv
<1>2. /\ disk \subseteq disk' /\ disk' \subseteq disk \cup {<<home, f>>}
      /\ <<home, f>> \in disk' \/ model \in failed'
      /\ failed \subseteq failed' /\ info' = info
  BY DEF CopyFile
<1>3. disk' \in Disks
  BY <1>1, <1>2 DEF Disks
<1>4. \A place, g : <<place, g>> \in disk' \ disk => place \in Homes
  BY <1>1, <1>2
<1>5. f \in Holds(disk', home) \/ model \in failed'
  BY <1>1, <1>2, <1>3, HoldsIs
<1>6. In(home) \subseteq Holds(disk', home)
  <2>1. \A g : g \in Holds(disk, home) => g \in Holds(disk', home)
    BY <1>1, <1>2, <1>3, HoldsIs
  <2> QED
    BY <2>1, InIs
<1> QED
  BY <1>1, <1>2, <1>3, <1>4, <1>5, <1>6, GrowsSafely

LEMMA CopyExtraKeeps == ASSUME InstallInv, NEW f \in Extras, CopyExtra(f) PROVE InstallInv'
<1>1. /\ step = "extras" /\ CopyFile(f) /\ extras' = extras \ {f}
      /\ UNCHANGED <<step, todo, folder, work, model, tallest>>
  BY DEF CopyExtra, run
<1>2. /\ disk' \in Disks /\ AllSafe' /\ DroppedOnce'
      /\ failed \subseteq failed' /\ info' = info
      /\ \A m \in Models : Done(m) => Done(m)'
      /\ \A d \in Folders : In(d)' = In(d)
      /\ f \in Holds(disk', HomeOf[model]) \/ model \in failed'
      /\ In(HomeOf[model]) \subseteq Holds(disk', HomeOf[model])
  BY <1>1, CopyKeeps
<1>3. /\ folder \in Folders /\ work \cup Current \subseteq ModelsIn(folder)
      /\ Settled(work \cup Current) /\ Current' = Current /\ Coming
  BY <1>1 DEF InstallInv, Reading, Current
<1>4. Settled(work \cup Current)'
  BY <1>1, <1>2, <1>3, InstallFacts DEF Settled
<1>5. (work \cup Current)' \subseteq ModelsIn(folder)'
  BY <1>1, <1>2, <1>3 DEF ModelsIn
<1>6. Coming'
  <2>1. /\ In(HomeOf[model]) \subseteq In(HomeOf[model])'
        /\ f \in In(HomeOf[model])' \/ model \in failed'
    <3>1. In(HomeOf[model])' = Holds(disk', HomeOf[model])
      BY <1>1, InIs DEF In, Holds
    <3> QED
      BY <1>2, <3>1
  <2>2. CASE model \in failed'
    BY <1>1, <2>2 DEF Coming
  <2>3. CASE model \notin failed'
    <3>1. info[HomeOf[model]] # NoHeight /\ Carried[model] \cap In(folder) \subseteq extras \cup In(HomeOf[model])
      BY <1>2, <1>3, <2>3 DEF Coming
    <3>2. Carried[model] \cap In(folder)' \subseteq extras' \cup In(HomeOf[model])'
      BY <1>1, <1>2, <1>3, <2>1, <2>3, <3>1
    <3>3. info'[HomeOf[model]] # NoHeight
      BY <1>2, <3>1
    <3> QED
      BY <1>1, <3>2, <3>3 DEF Coming
  <2> QED
    BY <2>2, <2>3
<1>7. info' \in [Homes -> Heights]
  BY <1>2 DEF InstallInv
<1> QED
  BY <1>1, <1>2, <1>3, <1>4, <1>5, <1>6, <1>7 DEF InstallInv, Reading

(* With all that is left copied, the model itself brings it home.          *)
LEMMA CopyModelKeeps == InstallInv /\ CopyModel => InstallInv'
<1> SUFFICES ASSUME InstallInv, CopyModel PROVE InstallInv'
  OBVIOUS
<1>1. /\ step = "extras" /\ extras = {} /\ step' = "models" /\ CopyFile(model)
      /\ UNCHANGED <<todo, folder, work, tallest>>
  BY DEF CopyModel
<1>2. model \in Readable /\ model \in Models /\ Coming /\ Current = {model}
  BY <1>1, InstallFacts DEF InstallInv, Current
<1>3. /\ disk' \in Disks /\ AllSafe' /\ DroppedOnce'
      /\ failed \subseteq failed' /\ info' = info
      /\ \A m \in Models : Done(m) => Done(m)'
      /\ \A d \in Folders : In(d)' = In(d)
      /\ model \in Holds(disk', HomeOf[model]) \/ model \in failed'
      /\ In(HomeOf[model]) \subseteq Holds(disk', HomeOf[model])
  BY <1>1, <1>2, CopyKeeps
<1>4. /\ folder \in Folders /\ work \cup {model} \subseteq ModelsIn(folder)
      /\ Settled(work \cup {model}) /\ Current' = {}
  BY <1>1, <1>2 DEF InstallInv, Reading, Current
<1>5. model \in In(folder) /\ FolderOf[model] = folder
  BY <1>2, <1>4 DEF ModelsIn, InstallInv, DroppedOnce
<1>6. ASSUME NEW m \in Readable, m = model PROVE Done(m)'
  <2>1. m \in Models /\ (Done(m) \/ Whole(m))
    BY <1>6, InstallFacts DEF InstallInv, AllSafe
  <2>2. CASE Done(m)
    BY <1>3, <2>1, <2>2
  <2>3. CASE m \in failed'
    BY <2>3 DEF Done
  <2>4. CASE Whole(m) /\ m \notin failed'
    <3>1. info[HomeOf[m]] # NoHeight /\ Carried[m] \subseteq In(HomeOf[m])
      BY <1>1, <1>2, <1>3, <1>5, <1>6, <2>4 DEF Whole, Coming
    <3>2. {m} \cup Carried[m] \subseteq Holds(disk', HomeOf[m]) /\ info'[HomeOf[m]] # NoHeight
      BY <1>2, <1>3, <1>6, <2>4, <3>1
    <3> QED
      BY <3>2, InIs DEF Done, AtHome
  <2> QED
    BY <2>1, <2>2, <2>3, <2>4
<1>7. Settled(work \cup Current)'
  BY <1>1, <1>3, <1>4, <1>6, InstallFacts DEF Settled
<1>8. (work \cup Current)' \subseteq ModelsIn(folder)'
  BY <1>1, <1>3, <1>4 DEF ModelsIn
<1>9. info' \in [Homes -> Heights]
  BY <1>3 DEF InstallInv
<1> QED
  BY <1>1, <1>3, <1>4, <1>7, <1>8, <1>9 DEF InstallInv, Reading

LEMMA FolderDoneKeeps == InstallInv /\ FolderDone => InstallInv'
<1> SUFFICES ASSUME InstallInv, FolderDone PROVE InstallInv'
  OBVIOUS
<1>1. /\ step = "models" /\ work = {} /\ step' \in {"folders", "deleting"}
      /\ UNCHANGED <<disk, info, failed, todo, folder, work, model, tallest>>
  BY DEF FolderDone, ModelsDone, run, persisted
<1>2. /\ disk' \in Disks /\ AllSafe' /\ DroppedOnce' /\ info' \in [Homes -> Heights]
      /\ \A m : Done(m)' = Done(m)
  BY <1>1, StaysSafe
<1>3. folder \in Folders /\ Settled({})
  <2>1. work \cup Current = {} /\ step \in Reading
    BY <1>1 DEF Current, Reading
  <2> QED
    BY <2>1 DEF InstallInv
<1>4. Settled({})'
  BY <1>1, <1>2, <1>3 DEF Settled
<1> QED
  BY <1>1, <1>2, <1>3, <1>4 DEF InstallInv, Reading

(* A file that goes belongs to nothing that has not come home.             *)
LEMMA DeleteFileKeeps == ASSUME InstallInv, NEW f, DeleteFile(f) PROVE InstallInv'
<1>1. /\ step = "deleting" /\ disk' = disk \ {<<folder, f>>}
      /\ UNCHANGED <<info, failed, step, todo, folder, work, model, tallest>>
  BY DEF DeleteFile, run
<1>2. folder \in Folders /\ Settled({}) /\ disk \in Disks /\ disk' \in Disks
  BY <1>1 DEF InstallInv, Disks
<1>3. ASSUME NEW place, NEW g
      PROVE  /\ g \in In(place)' => g \in In(place)
             /\ g \in In(place) /\ place # folder => g \in In(place)'
  BY <1>1, <1>2, HoldsIs, InIs
<1>4. ASSUME NEW m \in Models, Done(m) PROVE Done(m)'
  <2>1. HomeOf[m] # folder
    BY <1>2, InstallFacts
  <2>2. CASE m \in failed
    BY <1>1, <2>2 DEF Done
  <2>3. CASE AtHome(m)
    BY <1>1, <1>3, <2>1, <2>3 DEF Done, AtHome
  <2> QED
    BY <1>4, <2>2, <2>3 DEF Done
<1>5. AllSafe'
  <2> SUFFICES ASSUME NEW m \in Readable PROVE Done(m)' \/ Whole(m)'
    BY DEF AllSafe
  <2>1. m \in Models
    BY InstallFacts
  <2>2. CASE Done(m)
    BY <1>4, <2>1, <2>2
  <2>3. CASE ~Done(m)
    <3>1. Whole(m) /\ FolderOf[m] # folder
      BY <1>2, <2>3 DEF InstallInv, AllSafe, Settled
    <3> QED
      BY <1>3, <3>1 DEF Whole
  <2> QED
    BY <2>2, <2>3
<1>6. DroppedOnce'
  BY <1>3 DEF InstallInv, DroppedOnce
<1>7. Settled({})'
  BY <1>1, <1>2, <1>4, InstallFacts DEF Settled
<1> QED
  BY <1>1, <1>2, <1>5, <1>6, <1>7 DEF InstallInv, Reading

LEMMA EndingsKeep ==
    ASSUME InstallInv, DeleteEnds \/ Ends \/ (Stops /\ UNCHANGED persisted)
    PROVE  InstallInv'
<1>1. /\ UNCHANGED <<disk, info, failed>> /\ step' \in {"off", "folders"}
      /\ todo' \in {todo, {}} /\ tallest' \in {tallest, 0}
  BY DEF DeleteEnds, Ends, Stops, Forgotten, run, persisted
<1>2. todo' \subseteq Folders /\ tallest' \in Nat
  BY <1>1 DEF InstallInv
<1> QED
  BY <1>1, <1>2, StaysSafe DEF InstallInv, Reading

(* A stop that cuts a file off takes nothing away.                         *)
LEMMA CutsKeep ==
    ASSUME InstallInv, Stops, CutsCopy \/ CutsInfo
    PROVE  InstallInv'
<1> DEFINE home == HomeOf[model]
<1>1. step' = "off" /\ todo' = {} /\ tallest' = 0
  BY DEF Stops, Forgotten
<1>2. home \in Homes /\ model \in Models
  BY InstallFacts DEF CutsCopy, CutsInfo, InstallInv
<1>3. ASSUME CutsCopy
      PROVE  /\ disk \subseteq disk' /\ disk' \in Disks /\ info' = info /\ failed' = failed
             /\ \A place, g : <<place, g>> \in disk' \ disk => place \in Homes
  <2>1. /\ info' = info /\ failed' = failed /\ disk \in Disks
        /\ \E f : Copies(f) /\ disk' = disk \cup {<<home, f>>}
    BY <1>3 DEF CutsCopy, InstallInv
  <2>2. PICK f : Copies(f) /\ disk' = disk \cup {<<home, f>>}
    BY <2>1
  <2>3. <<folder, f>> \in (Folders \cup Homes) \X (Models \cup Extras)
    BY <2>1, <2>2 DEF Copies, Disks
  <2>4. disk' \in Disks
    BY <1>2, <2>1, <2>2, <2>3 DEF Disks
  <2> QED
    BY <1>2, <2>1, <2>2, <2>4
<1>4. ASSUME CutsInfo
      PROVE  /\ disk' = disk /\ failed' = failed /\ info' \in [Homes -> Heights]
             /\ \A h \in Homes : info[h] # NoHeight => info'[h] # NoHeight
  <2>1. /\ disk' = disk /\ failed' = failed /\ info \in [Homes -> Heights]
        /\ info' = [info EXCEPT ![home] = CutHeight]
    BY <1>4 DEF CutsInfo, InstallInv
  <2> QED
    BY <1>2, <2>1, InstallFacts DEF Heights
<1>5. /\ disk' \in Disks /\ disk \subseteq disk' /\ failed \subseteq failed'
      /\ info' \in [Homes -> Heights]
      /\ \A place, f : <<place, f>> \in disk' \ disk => place \in Homes
      /\ \A h \in Homes : info[h] # NoHeight => info'[h] # NoHeight
  BY <1>3, <1>4 DEF InstallInv
<1>6. AllSafe' /\ DroppedOnce'
  BY <1>5, GrowsSafely
<1> QED
  BY <1>1, <1>5, <1>6 DEF InstallInv, Reading

LEMMA InstallStarts == InstallInit => InstallInv
<1> SUFFICES ASSUME InstallInit PROVE InstallInv
  OBVIOUS
<1>1. /\ disk = UNION {{FolderOf[m]} \X ({m} \cup Carried[m]) : m \in Models}
      /\ info = [h \in Homes |-> NoHeight] /\ step = "off" /\ todo = {} /\ tallest = 0
  BY DEF InstallInit
<1>2. ASSUME NEW m \in Models
      PROVE  {FolderOf[m]} \X ({m} \cup Carried[m]) \subseteq (Folders \cup Homes) \X (Models \cup Extras)
  BY InstallFacts
<1>3. disk \in Disks
  BY <1>1, <1>2 DEF Disks
<1>4. ASSUME NEW m \in Models PROVE Whole(m)
  <2>1. \A f \in {m} \cup Carried[m] : <<FolderOf[m], f>> \in disk
    BY <1>1
  <2> QED
    BY <1>3, <2>1, HoldsIs, InIs DEF Whole
<1>5. DroppedOnce
  <2> SUFFICES ASSUME NEW m \in Models, NEW d \in Folders, m \in In(d) PROVE FolderOf[m] = d
    BY DEF DroppedOnce
  <2>1. <<d, m>> \in disk
    BY <1>3, HoldsIs, InIs
  <2>2. PICK n \in Models : <<d, m>> \in {FolderOf[n]} \X ({n} \cup Carried[n])
    BY <1>1, <2>1
  <2>3. d = FolderOf[n] /\ m \in {n} \cup Carried[n]
    BY <2>2
  <2> QED
    BY <2>3, InstallFacts
<1> QED
  BY <1>1, <1>3, <1>4, <1>5, InstallFacts DEF InstallInv, AllSafe, Reading, Heights

(* A model that can be read leaves the folder it was dropped into only     *)
(* when its home has it with all that belongs to it (JsonGen::JsonGen,     *)
(* DeleteDirectory of client/GenerateJSON.cpp), wherever the client is     *)
(* stopped between two calls.  What is lost has been lost to a call that   *)
(* failed or to a stop in the middle of one.                               *)
THEOREM NoModelIsLost ==
    InstallSpec => [](\A m \in Readable : m \in In(FolderOf[m]) \/ Installed(m) \/ Spoilt(m))
<1>1. InstallInit => InstallInv
  BY InstallStarts
<1>2. InstallInv /\ [InstallNext]_installVars => InstallInv'
  <2> SUFFICES ASSUME InstallInv, [InstallNext]_installVars PROVE InstallInv'
    OBVIOUS
  <2>1. ASSUME NEW f \in UNION {Carried[m] : m \in Models}, CopyExtra(f) PROVE InstallInv'
    BY <2>1, CopyExtraKeeps DEF Extras
  <2>2. CASE UNCHANGED installVars
    BY <2>2 DEF installVars, persisted, run, InstallInv, AllSafe, DroppedOnce, Settled, Current, Coming,
                ModelsIn, Done, AtHome, Whole, In
  <2> QED
    BY <2>1, <2>2, StartKeeps, OpenFolderKeeps, ReadModelKeeps, WriteInfoKeeps, CopyModelKeeps,
       FolderDoneKeeps, DeleteFileKeeps, EndingsKeep, CutsKeep DEF InstallNext, Installing, Stops
<1>3. InstallInv => \A m \in Readable : m \in In(FolderOf[m]) \/ Installed(m) \/ Spoilt(m)
  <2> SUFFICES ASSUME InstallInv, NEW m \in Readable, m \notin In(FolderOf[m]), ~Spoilt(m)
               PROVE  Installed(m)
    OBVIOUS
  <2>1. AtHome(m) /\ disk \in Disks
    BY DEF InstallInv, AllSafe, Whole, Done, Spoilt
  <2>2. \A f \in {m} \cup Carried[m] : <<HomeOf[m], f>> \in disk
    BY <2>1, HoldsIs, InIs DEF AtHome
  <2>3. Belongs(m) \subseteq disk
    BY <2>2 DEF Belongs
  <2> QED
    BY <2>1, <2>3 DEF AtHome, Installed, Spoilt
<1> QED
  BY <1>1, <1>2, <1>3, PTL DEF InstallSpec

-----------------------------------------------------------------------------
(* The pool.  First the powers of two: what their definition says, and     *)
(* what the classes of sizes need of them.                                 *)
LEMMA LeastOf ==
    ASSUME NEW T \in SUBSET Nat, T # {}
    PROVE  \E n \in T : \A m \in T : n <= m
<1> DEFINE R == OpToRel(<, Nat)
<1>1. IsWellFoundedOn(R, Nat)
  BY NatLessThanWellFounded
<1>2. \A x, y \in Nat : <<x, y>> \in R <=> x < y
  BY DEF OpToRel
<1> HIDE DEF R
<1>3. PICK n \in T : \A m \in T : ~(<<m, n>> \in R)
  BY <1>1, WFMin
<1>4. ASSUME NEW m \in T PROVE n <= m
  <2>1. m \in Nat /\ n \in Nat /\ ~(m < n)
    BY <1>2, <1>3
  <2> QED
    BY <2>1
<1> QED
  BY <1>4

LEMMA SetInduction ==
    ASSUME NEW S, 0 \in S, \A n \in Nat : n \in S => n + 1 \in S
    PROVE  Nat \subseteq S
<1> SUFFICES ASSUME Nat \ S # {} PROVE FALSE
  OBVIOUS
<1>1. PICK n \in Nat \ S : \A m \in Nat \ S : n <= m
  BY LeastOf
<1>2. n # 0 /\ n - 1 \in Nat
  BY <1>1
<1>3. n - 1 \in S
  BY <1>1, <1>2
<1> QED
  BY <1>1, <1>2, <1>3

Doubles(f, m) == f \in [0..m -> Nat] /\ \A i \in 0..m : f[i] = IF i = 0 THEN 1 ELSE 2 * f[i - 1]

LEMMA DoublesExist == \A m \in Nat : \E f : Doubles(f, m)
<1> DEFINE S == {m \in Nat : \E f : Doubles(f, m)}
<1>1. 0 \in S
  <2> DEFINE g == [i \in 0..0 |-> 1]
  <2>1. Doubles(g, 0)
    BY DEF Doubles
  <2> QED
    BY <2>1
<1>2. ASSUME NEW m \in Nat, m \in S PROVE m + 1 \in S
  <2>1. PICK f : Doubles(f, m)
    BY <1>2
  <2> DEFINE g == [i \in 0..(m + 1) |-> IF i = m + 1 THEN 2 * f[m] ELSE f[i]]
  <2>2. f[m] \in Nat
    BY <2>1 DEF Doubles
  <2>3. g \in [0..(m + 1) -> Nat]
    <3>1. \A i \in 0..(m + 1) : i # m + 1 => i \in 0..m
      OBVIOUS
    <3> QED
      BY <2>1, <2>2, <3>1 DEF Doubles
  <2>4. ASSUME NEW i \in 0..(m + 1) PROVE g[i] = IF i = 0 THEN 1 ELSE 2 * g[i - 1]
    <3>1. CASE i = m + 1
      <4>1. g[i - 1] = f[m] /\ i # 0
        BY <3>1
      <4> QED
        BY <3>1, <4>1
    <3>2. CASE i # m + 1
      <4>1. i \in 0..m /\ (i # 0 => i - 1 \in 0..(m + 1) /\ i - 1 # m + 1)
        BY <3>2
      <4>2. g[i] = f[i] /\ (i # 0 => g[i - 1] = f[i - 1])
        BY <3>2, <4>1
      <4> QED
        BY <2>1, <4>1, <4>2 DEF Doubles
    <3> QED
      BY <3>1, <3>2
  <2> HIDE DEF g
  <2>5. Doubles(g, m + 1)
    BY <2>3, <2>4 DEF Doubles
  <2> QED
    BY <2>5
<1> HIDE DEF S
<1>3. Nat \subseteq S
  BY <1>1, <1>2, SetInduction
<1> QED
  BY <1>3 DEF S

LEMMA DoublesAgree ==
    ASSUME NEW m \in Nat, NEW n \in Nat, NEW f, NEW g, Doubles(f, m), Doubles(g, n)
    PROVE  \A i \in Nat : i <= m /\ i <= n => f[i] = g[i]
<1> DEFINE S == {i \in Nat : i <= m /\ i <= n => f[i] = g[i]}
<1>1. 0 \in S
  BY DEF Doubles
<1>2. ASSUME NEW i \in Nat, i \in S PROVE i + 1 \in S
  <2> SUFFICES ASSUME i + 1 <= m, i + 1 <= n PROVE f[i + 1] = g[i + 1]
    OBVIOUS
  <2>1. f[i] = g[i]
    BY <1>2
  <2>2. i + 1 \in 0..m /\ i + 1 \in 0..n /\ i + 1 # 0 /\ (i + 1) - 1 = i
    OBVIOUS
  <2> QED
    BY <2>1, <2>2 DEF Doubles
<1> HIDE DEF S
<1>3. Nat \subseteq S
  BY <1>1, <1>2, SetInduction
<1> QED
  BY <1>3 DEF S

LEMMA Pow2Unfolds == Pow2 = [k \in Nat |-> IF k = 0 THEN 1 ELSE 2 * Pow2[k - 1]]
<1> DEFINE Def(g) == g = [k \in Nat |-> IF k = 0 THEN 1 ELSE 2 * g[k - 1]]
           upTo(n) == CHOOSE f : Doubles(f, n)
           h == [n \in Nat |-> upTo(n)[n]]
<1>1. ASSUME NEW n \in Nat PROVE Doubles(upTo(n), n)
  BY DoublesExist
<1> HIDE DEF upTo
<1>2. ASSUME NEW n \in Nat PROVE h[n] = IF n = 0 THEN 1 ELSE 2 * h[n - 1]
  <2>1. upTo(n)[n] = IF n = 0 THEN 1 ELSE 2 * upTo(n)[n - 1]
    BY <1>1 DEF Doubles
  <2>2. ASSUME n # 0 PROVE upTo(n)[n - 1] = upTo(n - 1)[n - 1]
    <3>1. n - 1 \in Nat /\ n - 1 <= n
      BY <2>2
    <3>2. Doubles(upTo(n), n) /\ Doubles(upTo(n - 1), n - 1)
      BY <1>1, <3>1
    <3> QED
      BY <3>1, <3>2, DoublesAgree
  <2>3. h[n] = upTo(n)[n] /\ (n # 0 => h[n - 1] = upTo(n - 1)[n - 1])
    OBVIOUS
  <2> HIDE DEF h
  <2> QED
    BY <2>1, <2>2, <2>3
<1>3. Def(h)
  <2>1. h = [n \in Nat |-> h[n]]
    OBVIOUS
  <2> HIDE DEF h
  <2> QED
    BY <1>2, <2>1
<1> HIDE DEF h
<1>4. Pow2 = CHOOSE g : Def(g)
  BY DEF Pow2
<1> HIDE DEF Def
<1>5. Def(Pow2)
  BY <1>3, <1>4
<1> QED
  BY <1>5 DEF Def

LEMMA Pow2Doubles ==
    /\ Pow2[0] = 1
    /\ \A k \in Nat : Pow2[k] \in Nat /\ Pow2[k] >= 1 /\ Pow2[k + 1] = 2 * Pow2[k]
<1>1. Pow2[0] = 1 /\ \A k \in Nat : Pow2[k + 1] = 2 * Pow2[k]
  <2>1. \A k \in Nat : k + 1 \in Nat /\ k + 1 # 0 /\ (k + 1) - 1 = k
    OBVIOUS
  <2> QED
    BY <2>1, Pow2Unfolds
<1> DEFINE S == {k \in Nat : Pow2[k] \in Nat /\ Pow2[k] >= 1}
<1>2. 0 \in S /\ \A k \in Nat : k \in S => k + 1 \in S
  BY <1>1
<1> HIDE DEF S
<1>3. Nat \subseteq S
  BY <1>2, SetInduction
<1> QED
  BY <1>1, <1>3 DEF S

LEMMA Pow2Grows ==
    ASSUME NEW j \in Nat, NEW k \in Nat, j <= k
    PROVE  Pow2[j] <= Pow2[k]
<1> DEFINE S == {d \in Nat : Pow2[j] <= Pow2[j + d]}
<1>1. 0 \in S /\ \A d \in Nat : d \in S => d + 1 \in S
  <2>1. ASSUME NEW d \in Nat, d \in S PROVE d + 1 \in S
    <3>1. Pow2[(j + d) + 1] = 2 * Pow2[j + d] /\ Pow2[j + d] \in Nat /\ Pow2[j] \in Nat
      BY Pow2Doubles
    <3>2. (j + d) + 1 = j + (d + 1)
      OBVIOUS
    <3> QED
      BY <2>1, <3>1, <3>2
  <2>2. 0 \in S
    BY Pow2Doubles
  <2> QED
    BY <2>1, <2>2
<1> HIDE DEF S
<1>2. k - j \in Nat /\ j + (k - j) = k
  OBVIOUS
<1>3. k - j \in S
  BY <1>1, <1>2, SetInduction
<1> QED
  BY <1>2, <1>3 DEF S

LEMMA Pow2Adds ==
    ASSUME NEW j \in Nat, NEW k \in Nat
    PROVE  Pow2[j + k] = Pow2[j] * Pow2[k]
<1> DEFINE S == {d \in Nat : Pow2[j + d] = Pow2[j] * Pow2[d]}
<1>1. 0 \in S
  BY Pow2Doubles
<1>2. ASSUME NEW d \in Nat, d \in S PROVE d + 1 \in S
  <2>1. Pow2[(j + d) + 1] = 2 * Pow2[j + d] /\ Pow2[d + 1] = 2 * Pow2[d]
        /\ Pow2[j] \in Nat /\ Pow2[d] \in Nat
    BY Pow2Doubles
  <2>2. (j + d) + 1 = j + (d + 1)
    OBVIOUS
  <2>3. \A x, y \in Nat : 2 * (x * y) = x * (2 * y)
    OBVIOUS
  <2> QED
    BY <1>2, <2>1, <2>2, <2>3
<1> HIDE DEF S
<1>3. k \in S
  BY <1>1, <1>2, SetInduction
<1> QED
  BY <1>3 DEF S

(* Division by a number that is not known. *)
LEMMA Divides ==
    ASSUME NEW n \in Nat, NEW q \in Nat, q >= 1
    PROVE  /\ n \div q \in Nat /\ n % q \in 0..(q - 1)
           /\ n = q * (n \div q) + (n % q)
OBVIOUS

LEMMA Multiples ==
    ASSUME NEW q \in Nat, NEW i \in Nat, NEW j \in Nat, i < j
    PROVE  q * i + q <= q * j
<1>1. PICK d \in Nat : j = i + 1 + d
  <2>1. j - i - 1 \in Nat /\ j = i + 1 + (j - i - 1)
    OBVIOUS
  <2> QED
    BY <2>1
<1>2. q * (i + 1 + d) = q * i + q + q * d /\ q * d >= 0 /\ q * i \in Nat
  OBVIOUS
<1> QED
  BY <1>1, <1>2
(* A number with a remainder of 0 is the nearest one that align_up finds. *)
LEMMA AlignUpAligns ==
    ASSUME NEW n \in Nat, NEW a \in Nat, a >= 1
    PROVE  /\ AlignUp(n, a) \in Nat /\ n <= AlignUp(n, a) /\ AlignUp(n, a) < n + a
           /\ AlignUp(n, a) % a = 0
<1> DEFINE m == n + a - 1
           d == m \div a
<1>1. m \in Nat
  OBVIOUS
<1>2. d \in Nat /\ m % a \in 0..(a - 1) /\ m = a * d + (m % a)
  BY <1>1, Divides
<1>3. AlignUp(n, a) = d * a /\ d * a = a * d
  BY <1>2 DEF AlignUp
<1> HIDE DEF d
<1>4. d * a \in Nat /\ n <= d * a /\ d * a < n + a
  BY <1>2, <1>3
<1>5. (d * a) % a = 0
  <2> DEFINE e == (d * a) \div a
             r == (d * a) % a
  <2>1. e \in Nat /\ r \in 0..(a - 1) /\ d * a = a * e + r
    BY <1>4, Divides
  <2> HIDE DEF e, r
  <2>2. ~(e < d)
    <3> SUFFICES ASSUME e < d PROVE FALSE
      OBVIOUS
    <3>1. a * e + a <= a * d
      BY <1>2, <2>1, Multiples
    <3> QED
      BY <1>2, <1>3, <2>1, <3>1
  <2>3. ~(d < e)
    <3> SUFFICES ASSUME d < e PROVE FALSE
      OBVIOUS
    <3>1. a * d + a <= a * e
      BY <1>2, <2>1, Multiples
    <3> QED
      BY <1>2, <1>3, <2>1, <3>1
  <2>4. e = d
    BY <1>2, <2>1, <2>2, <2>3
  <2>5. r = 0
    BY <1>2, <1>3, <2>1, <2>4
  <2> QED
    BY <2>5 DEF r
<1> QED
  BY <1>3, <1>4, <1>5

LEMMA MaxOfTwo ==
    ASSUME NEW x \in Int, NEW y \in Int
    PROVE  Max({x, y}) = IF x >= y THEN x ELSE y
<1> DEFINE m == IF x >= y THEN x ELSE y
<1>1. m \in {x, y} /\ \A z \in {x, y} : m >= z
  OBVIOUS
<1>2. \A z \in {x, y} : (\A w \in {x, y} : z >= w) => z = m
  OBVIOUS
<1> HIDE DEF m
<1>3. Max({x, y}) = m
  BY <1>1, <1>2 DEF Max
<1> QED
  BY <1>3 DEF m

(* The least of a set of numbers is one of it. *)
LEMMA MinOf ==
    ASSUME NEW T \in SUBSET Nat, T # {}
    PROVE  Min(T) \in T /\ \A m \in T : Min(T) <= m
BY LeastOf DEF Min

LEMMA AlignUpByOne == \A n \in Nat : AlignUp(n, 1) = n
BY DEF AlignUp

(* What adjust_request_size makes of a size. *)
LEMMA Adjusts ==
    ASSUME NEW n \in Nat, NEW a \in Nat, a >= 1, AdjustRequest(n, a) # 0
    PROVE  /\ n # 0 /\ AdjustRequest(n, a) \in Nat /\ AdjustRequest(n, a) >= SizeMin
           /\ AdjustRequest(n, a) >= n
<1>1. n # 0 /\ AdjustRequest(n, a) = Max({AlignUp(n, a), SizeMin})
  BY DEF AdjustRequest
<1>2. AlignUp(n, a) \in Nat /\ n <= AlignUp(n, a)
  BY AlignUpAligns
<1>3. SizeMin \in Nat
  BY DEF SizeMin
<1> HIDE DEF SizeMin
<1>4. Max({AlignUp(n, a), SizeMin}) = IF AlignUp(n, a) >= SizeMin THEN AlignUp(n, a) ELSE SizeMin
  BY <1>2, <1>3, MaxOfTwo
<1> QED
  BY <1>1, <1>2, <1>3, <1>4

-----------------------------------------------------------------------------
(* The classes of sizes. *)
Classes == (0..FlCount - 1) \X (0..SlCount - 1)
Beyond(c, goal) == c[1] > goal[1] \/ (c[1] = goal[1] /\ c[2] >= goal[2])

LEMMA SizesAre ==
    /\ SlLog2 \in Nat /\ FlCount \in Nat /\ FlCount >= 2
    /\ SlCount \in Nat /\ SlCount >= 1 /\ SizeMax \in Nat /\ SlCount < SizeMax
<1>1. SlLog2 \in Nat /\ FlCount \in Nat /\ FlCount >= 2
  BY HeapAssumption
<1>2. SlCount \in Nat /\ SlCount >= 1 /\ SizeMax \in Nat
  BY <1>1, Pow2Doubles DEF SlCount, SizeMax
<1>3. Pow2[SlLog2 + 1] <= SizeMax
  BY <1>1, Pow2Grows DEF SizeMax
<1>4. Pow2[SlLog2 + 1] = 2 * SlCount
  BY <1>1, Pow2Doubles DEF SlCount
<1> QED
  BY <1>1, <1>2, <1>3, <1>4

LEMMA FlsBrackets ==
    ASSUME NEW n \in Nat, n >= 1, n < SizeMax
    PROVE  /\ Fls(n) \in 0..(FlCount + SlLog2 - 2)
           /\ Pow2[Fls(n)] <= n /\ n < Pow2[Fls(n) + 1]
<1>1. SlLog2 \in Nat /\ FlCount \in Nat /\ FlCount >= 2
  BY HeapAssumption
<1> DEFINE T == {k \in Nat : n < Pow2[k + 1]}
<1>2. FlCount + SlLog2 - 2 \in T
  <2>1. (FlCount + SlLog2 - 2) + 1 = FlCount + SlLog2 - 1 /\ FlCount + SlLog2 - 2 \in Nat
    BY <1>1
  <2> QED
    BY <2>1 DEF SizeMax
<1>3. T \in SUBSET Nat /\ T # {}
  BY <1>2
<1>4. PICK k \in T : \A m \in T : k <= m
  <2> HIDE DEF T
  <2> QED
    BY <1>3, LeastOf
<1>5. k \in 0..(FlCount + SlLog2 - 2) /\ n < Pow2[k + 1]
  BY <1>2, <1>4
<1>6. Pow2[k] <= n
  <2>1. CASE k = 0
    BY <2>1, Pow2Doubles
  <2>2. CASE k # 0
    <3>1. k - 1 \in Nat /\ (k - 1) + 1 = k /\ k - 1 \notin T
      BY <1>4, <1>5, <2>2
    <3>2. ~(n < Pow2[k]) /\ Pow2[k] \in Nat
      BY <1>5, <3>1, Pow2Doubles
    <3> QED
      BY <3>2
  <2> QED
    BY <2>1, <2>2
<1>7. \E i \in 0..(FlCount + SlLog2) : Pow2[i] <= n /\ n < Pow2[i + 1]
  BY <1>1, <1>5, <1>6
<1>8. /\ Fls(n) \in 0..(FlCount + SlLog2) /\ Pow2[Fls(n)] <= n /\ n < Pow2[Fls(n) + 1]
  BY <1>7 DEF Fls
<1>9. Fls(n) <= FlCount + SlLog2 - 2
  <2> SUFFICES ASSUME Fls(n) >= FlCount + SlLog2 - 1 PROVE FALSE
    BY <1>1, <1>8
  <2>1. SizeMax <= Pow2[Fls(n)]
    BY <1>1, <1>8, Pow2Grows DEF SizeMax
  <2>2. SizeMax \in Nat /\ Pow2[Fls(n)] \in Nat
    BY <1>8, SizesAre, Pow2Doubles
  <2> QED
    BY <1>8, <2>1, <2>2
<1> QED
  BY <1>1, <1>8, <1>9

(* The class of a size that is not small: its power of two, and how many   *)
(* parts of it the size has.                                               *)
LEMMA LargeClass ==
    ASSUME NEW n \in Nat, SlCount <= n, n < SizeMax
    PROVE  LET q == Pow2[Fls(n) - SlLog2] IN
           /\ Fls(n) \in SlLog2..(FlCount + SlLog2 - 2) /\ q \in Nat /\ q >= 1
           /\ Pow2[Fls(n)] = q * SlCount
           /\ n \div q \in SlCount..(2 * SlCount - 1)
           /\ MappingInsert(n) = <<Fls(n) - SlLog2 + 1, (n \div q) - SlCount>>
<1> DEFINE f == Fls(n)
           q == Pow2[f - SlLog2]
           d == n \div q
<1>1. SlLog2 \in Nat /\ FlCount \in Nat /\ SlCount \in Nat /\ SlCount >= 1 /\ SizeMax \in Nat
  BY SizesAre
<1>2. f \in 0..(FlCount + SlLog2 - 2) /\ Pow2[f] <= n /\ n < Pow2[f + 1]
  BY <1>1, FlsBrackets
<1> HIDE DEF f
<1>3. f >= SlLog2
  <2> SUFFICES ASSUME f + 1 <= SlLog2 PROVE FALSE
    BY <1>1, <1>2
  <2>1. Pow2[f + 1] <= SlCount
    BY <1>1, <1>2, Pow2Grows DEF SlCount
  <2>2. Pow2[f + 1] \in Nat
    BY <1>2, Pow2Doubles
  <2> QED
    BY <1>1, <1>2, <2>1, <2>2
<1>4. f - SlLog2 \in Nat /\ (f - SlLog2) + SlLog2 = f
  BY <1>1, <1>2, <1>3
<1>5. q \in Nat /\ q >= 1
  BY <1>4, Pow2Doubles
<1>6. Pow2[f] = q * SlCount /\ Pow2[f + 1] = 2 * (q * SlCount)
  <2>1. Pow2[(f - SlLog2) + SlLog2] = q * SlCount
    BY <1>1, <1>4, Pow2Adds DEF SlCount
  <2>2. Pow2[f + 1] = 2 * Pow2[f]
    BY <1>2, Pow2Doubles
  <2> QED
    BY <1>4, <2>1, <2>2
<1> HIDE DEF q
<1>7. d \in Nat /\ (n % q) \in 0..(q - 1) /\ n = q * d + (n % q)
  BY <1>5, Divides
<1> HIDE DEF d
<1>8. ~(d < SlCount)
  <2> SUFFICES ASSUME d < SlCount PROVE FALSE
    OBVIOUS
  <2>1. q * d + q <= q * SlCount
    BY <1>1, <1>5, <1>7, Multiples
  <2>2. q * d \in Nat /\ q * SlCount \in Nat
    BY <1>1, <1>5, <1>7
  <2> QED
    BY <1>2, <1>5, <1>6, <1>7, <2>1, <2>2
<1>9. ~(2 * SlCount - 1 < d)
  <2> SUFFICES ASSUME 2 * SlCount - 1 < d PROVE FALSE
    OBVIOUS
  <2>1. q * (2 * SlCount - 1) + q <= q * d
    BY <1>1, <1>5, <1>7, Multiples
  <2> DEFINE x == q * SlCount
             y == q * d
  <2>2. q * (2 * SlCount - 1) + q = 2 * x
    BY <1>1, <1>5
  <2>3. x \in Nat /\ y \in Nat /\ n = y + (n % q) /\ n < 2 * x /\ 2 * x <= y
    BY <1>1, <1>2, <1>5, <1>6, <1>7, <2>1, <2>2
  <2> HIDE DEF x, y
  <2> QED
    BY <1>5, <1>7, <2>3
<1>10. d \in SlCount..(2 * SlCount - 1)
  BY <1>1, <1>7, <1>8, <1>9
<1>11. MappingInsert(n) = <<f - SlLog2 + 1, d - SlCount>>
  <2>1. ~(n < SlCount)
    BY <1>1
  <2> QED
    BY <2>1 DEF MappingInsert, d, q, f
<1>12. f \in SlLog2..(FlCount + SlLog2 - 2)
  BY <1>1, <1>2, <1>3
<1> QED
  BY <1>5, <1>6, <1>10, <1>11, <1>12 DEF f, q, d

LEMMA ClassOfSize ==
    ASSUME NEW n \in Nat, n < SizeMax
    PROVE  /\ MappingInsert(n) \in Classes
           /\ n < SlCount => MappingInsert(n) = <<0, n>>
           /\ n >= SlCount => MappingInsert(n)[1] >= 1
<1>1. SlLog2 \in Nat /\ FlCount \in Nat /\ FlCount >= 2 /\ SlCount \in Nat /\ SlCount >= 1
      /\ SizeMax \in Nat
  BY SizesAre
<1>2. CASE n < SlCount
  BY <1>1, <1>2 DEF MappingInsert, Classes
<1>3. CASE SlCount <= n
  <2> DEFINE q == Pow2[Fls(n) - SlLog2]
             d == n \div q
             f == Fls(n)
  <2>1. f \in SlLog2..(FlCount + SlLog2 - 2) /\ d \in SlCount..(2 * SlCount - 1)
        /\ MappingInsert(n) = <<f - SlLog2 + 1, d - SlCount>>
    BY <1>3, LargeClass
  <2> HIDE DEF q, d, f
  <2>2. f - SlLog2 + 1 \in 1..(FlCount - 1) /\ d - SlCount \in 0..(SlCount - 1)
    BY <1>1, <2>1
  <2> QED
    BY <1>1, <1>3, <2>1, <2>2 DEF Classes
<1> QED
  BY <1>1, <1>2, <1>3
(* mapping_search rounds up: a block of any class from there on is large   *)
(* enough.                                                                 *)
LEMMA SearchIsEnough ==
    ASSUME NEW n \in Nat, n >= 1, n <= SizeMax - Pow2[FlCount - 2]
    PROVE  /\ MappingSearch(n) \in Classes
           /\ \A s \in Nat : s < SizeMax /\ Beyond(MappingInsert(s), MappingSearch(n)) => s >= n
<1>1. SlLog2 \in Nat /\ FlCount \in Nat /\ FlCount >= 2 /\ SlCount \in Nat /\ SlCount >= 1
      /\ SizeMax \in Nat /\ SlCount < SizeMax
  BY SizesAre
<1>2. Pow2[FlCount - 2] \in Nat /\ Pow2[FlCount - 2] >= 1
  BY <1>1, Pow2Doubles
<1>3. n < SizeMax
  BY <1>1, <1>2
<1>4. CASE n < SlCount
  <2>1. MappingSearch(n) = <<0, n>>
    BY <1>4, ClassOfSize, <1>3 DEF MappingSearch
  <2>2. ASSUME NEW s \in Nat, s < SizeMax, Beyond(MappingInsert(s), <<0, n>>), s < n PROVE FALSE
    <3>1. MappingInsert(s) = <<0, s>>
      BY <1>1, <1>4, <2>2, ClassOfSize
    <3> QED
      BY <2>2, <3>1 DEF Beyond
  <2> QED
    BY <1>1, <1>4, <2>1, <2>2 DEF Classes
<1>5. CASE SlCount <= n
  <2> DEFINE f == Fls(n)
             q == Pow2[f - SlLog2]
             m == n + q - 1
             g == Fls(m)
             r == Pow2[g - SlLog2]
  <2>1. f \in SlLog2..(FlCount + SlLog2 - 2) /\ q \in Nat /\ q >= 1 /\ Pow2[f] = q * SlCount
        /\ Pow2[f] <= n /\ n < Pow2[f + 1]
    BY <1>1, <1>3, <1>5, LargeClass, FlsBrackets
  <2>2. q <= Pow2[FlCount - 2]
    <3> HIDE DEF f
    <3>1. f - SlLog2 \in Nat /\ FlCount - 2 \in Nat /\ f - SlLog2 <= FlCount - 2
      BY <1>1, <2>1
    <3> QED
      BY <3>1, Pow2Grows
  <2>3. MappingSearch(n) = MappingInsert(m)
    BY <1>1, <1>5 DEF MappingSearch
  <2> HIDE DEF f, q
  <2>4. m \in Nat /\ n <= m /\ m < SizeMax /\ m >= 1
    BY <1>1, <1>2, <2>1, <2>2
  <2> HIDE DEF m
  <2>5. g \in SlLog2..(FlCount + SlLog2 - 2) /\ r \in Nat /\ r >= 1 /\ Pow2[g] = r * SlCount
        /\ Pow2[g] <= m /\ m < Pow2[g + 1]
        /\ MappingInsert(m) = <<g - SlLog2 + 1, (m \div r) - SlCount>>
        /\ (m \div r) \in SlCount..(2 * SlCount - 1)
    BY <1>1, <1>5, <2>4, LargeClass, FlsBrackets
  <2>6. MappingSearch(n) \in Classes
    BY <2>3, <2>4, ClassOfSize
  <2> HIDE DEF g, r
  <2>7. ASSUME NEW s \in Nat, s < SizeMax, Beyond(MappingInsert(s), MappingSearch(n)), s < n
        PROVE  FALSE
    <3> DEFINE k == Fls(s)
    <3>1. SlCount <= s
      <4> SUFFICES ASSUME s < SlCount PROVE FALSE
        BY <1>1
      <4>1. MappingInsert(s) = <<0, s>>
        BY <2>7, ClassOfSize
      <4> QED
        BY <1>1, <2>3, <2>5, <2>7, <4>1 DEF Beyond
    <3>2. k \in SlLog2..(FlCount + SlLog2 - 2) /\ Pow2[k] <= s /\ s < Pow2[k + 1]
          /\ MappingInsert(s) = <<k - SlLog2 + 1, (s \div Pow2[k - SlLog2]) - SlCount>>
      BY <1>1, <2>7, <3>1, LargeClass, FlsBrackets
    <3> HIDE DEF k
    <3>3. k >= g
      BY <1>1, <2>3, <2>5, <2>7, <3>2 DEF Beyond
    <3>4. CASE k > g
      <4>1. Pow2[g + 1] <= Pow2[k]
        BY <1>1, <2>5, <3>2, <3>4, Pow2Grows
      <4>2. Pow2[g + 1] \in Nat /\ Pow2[k] \in Nat
        BY <1>1, <2>5, <3>2, Pow2Doubles
      <4> QED
        BY <2>4, <2>5, <2>7, <3>2, <4>1, <4>2
    <3>5. CASE k = g
      <4>1. s \div r \in Nat /\ (s % r) \in 0..(r - 1) /\ s = r * (s \div r) + (s % r)
        BY <2>5, Divides
      <4>2. m \div r \in Nat /\ (m % r) \in 0..(r - 1) /\ m = r * (m \div r) + (m % r)
        BY <2>4, <2>5, Divides
      <4>3. s \div r >= m \div r
        BY <1>1, <2>3, <2>5, <2>7, <3>2, <3>5, <4>1, <4>2 DEF Beyond, r
      <4>4. CASE g <= f
        <5>1. r <= q
          <6>1. g - SlLog2 \in Nat /\ f - SlLog2 \in Nat /\ g - SlLog2 <= f - SlLog2
            BY <1>1, <2>1, <2>5, <4>4
          <6> QED
            BY <6>1, Pow2Grows DEF q, r
        <5>2. r * (m \div r) <= r * (s \div r)
          <6>1. CASE s \div r = m \div r
            BY <2>5, <4>1, <4>2, <6>1
          <6>2. CASE m \div r < s \div r
            <7>1. r * (m \div r) + r <= r * (s \div r)
              BY <2>5, <4>1, <4>2, <6>2, Multiples
            <7>2. r * (m \div r) \in Nat /\ r * (s \div r) \in Nat
              BY <2>5, <4>1, <4>2
            <7> QED
              BY <2>5, <7>1, <7>2
          <6> QED
            BY <4>1, <4>2, <4>3, <6>1, <6>2
        <5> DEFINE x == r * (m \div r)
                   y == r * (s \div r)
                   u == m % r
                   v == s % r
        <5>3. x \in Nat /\ y \in Nat /\ u \in 0..(r - 1) /\ v \in 0..(r - 1) /\ m = x + u
              /\ s = y + v /\ x <= y
          BY <2>5, <4>1, <4>2, <5>2
        <5> HIDE DEF x, y, u, v
        <5>4. m - u >= n
          BY <2>1, <2>5, <5>1, <5>3 DEF m
        <5> QED
          BY <2>5, <2>7, <5>3, <5>4
      <4>5. CASE g > f
        <5>1. Pow2[f + 1] <= Pow2[k]
          BY <1>1, <2>1, <3>2, <3>5, <4>5, Pow2Grows
        <5>2. Pow2[f + 1] \in Nat /\ Pow2[k] \in Nat
          BY <1>1, <2>1, <3>2, Pow2Doubles
        <5> QED
          BY <2>1, <2>7, <3>2, <5>1, <5>2
      <4> QED
        BY <2>1, <2>5, <4>4, <4>5
    <3> QED
      BY <1>1, <2>5, <3>2, <3>3, <3>4, <3>5
  <2> QED
    BY <2>6, <2>7
<1> QED
  BY <1>1, <1>4, <1>5
-----------------------------------------------------------------------------
(* The free lists and their bitmaps.  L is what the lists should hold.     *)
IsPool(p) ==
    /\ DOMAIN p = {"hdr", "list", "fl", "sl"}
    /\ p = [f \in DOMAIN p |-> p[f]]
Once(s) == \A i, j \in DOMAIN s : s[i] = s[j] => i = j
ClassIn(p, b) == MappingInsert(SizeOf(p, b))

ListsHold(p, L) ==
    /\ p.list \in [Classes -> Seq(Nat)] /\ L \subseteq Nat
    /\ p.sl \in [0..FlCount - 1 -> SUBSET (0..SlCount - 1)] /\ p.fl \subseteq 0..FlCount - 1
    /\ \A c \in Classes :
         /\ Once(p.list[c])
         /\ \A b \in Nat : b \in Range(p.list[c]) <=> b \in L /\ ClassIn(p, b) = c
         /\ (c[2] \in p.sl[c[1]]) = (p.list[c] # <<>>)
    /\ \A fl \in 0..FlCount - 1 : (fl \in p.fl) = (p.sl[fl] # {})

LEMMA RangeOfNats ==
    ASSUME NEW s \in Seq(Nat)
    PROVE  Range(s) \subseteq Nat /\ \A b : b \in Range(s) <=> \E i \in 1..Len(s) : s[i] = b
<1>1. \A b : b \in Range(s) <=> \E i \in 1..Len(s) : s[i] = b
  BY DEF Range
<1>2. Range(s) \subseteq Nat
  BY DEF Range
<1> QED
  BY <1>1, <1>2

LEMMA EmptyRange ==
    ASSUME NEW s \in Seq(Nat)
    PROVE  s # <<>> <=> Range(s) # {}
<1>1. Len(s) \in Nat /\ (s # <<>> <=> Len(s) # 0)
  BY EmptySeq
<1>2. Len(s) # 0 <=> 1 \in 1..Len(s)
  BY <1>1
<1>3. Range(s) # {} => 1 \in 1..Len(s)
  <2> SUFFICES ASSUME NEW b \in Range(s) PROVE 1 \in 1..Len(s)
    OBVIOUS
  <2>1. PICK i \in 1..Len(s) : s[i] = b
    BY RangeOfNats
  <2> QED
    BY <1>1, <2>1
<1>4. 1 \in 1..Len(s) => s[1] \in Range(s)
  BY DEF Range
<1> QED
  BY <1>1, <1>2, <1>3, <1>4

LEMMA RemovesOne ==
    ASSUME NEW s \in Seq(Nat), Once(s), NEW b \in Range(s)
    PROVE  /\ RemoveFirst(s, b) \in Seq(Nat) /\ Once(RemoveFirst(s, b))
           /\ Range(RemoveFirst(s, b)) = Range(s) \ {b}
<1> DEFINE I == {i \in 1..Len(s) : s[i] = b}
           k == Min(I)
           r == SubSeq(s, 1, k - 1) \o SubSeq(s, k + 1, Len(s))
<1>0. DOMAIN s = 1..Len(s) /\ Len(s) \in Nat /\ \A i \in 1..Len(s) : s[i] \in Nat
  OBVIOUS
<1>1. I \in SUBSET Nat /\ I # {}
  BY <1>0 DEF Range
<1>2. k \in I
  <2> HIDE DEF I
  <2> QED
    BY <1>1, MinOf
<1>3. RemoveFirst(s, b) = r
  <2>1. SelectInSeq(s, LAMBDA v : v = b) = k
    BY <1>1 DEF SelectInSeq
  <2> HIDE DEF k
  <2>2. \E i \in 1..Len(s) : s[i] = b
    BY <1>1
  <2> QED
    BY <2>1, <2>2 DEF RemoveFirst, RemoveAt
<1> HIDE DEF k
<1>4. k \in 1..Len(s) /\ s[k] = b
  BY <1>2
<1>5. /\ r \in Seq(Nat) /\ Len(r) = Len(s) - 1
      /\ \A i \in 1..(Len(s) - 1) : r[i] = IF i < k THEN s[i] ELSE s[i + 1]
  <2> DEFINE u == SubSeq(s, 1, k - 1)
             v == SubSeq(s, k + 1, Len(s))
  <2>1. u \in Seq(Nat) /\ Len(u) = k - 1 /\ \A i \in 1..(k - 1) : u[i] = s[i]
    <3>1. \A i \in 1..(k - 1) : s[i] \in Nat
      BY <1>0, <1>4
    <3>2. k - 1 \in Int /\ 1 \in Int /\ Len(u) = IF 1 <= k - 1 THEN (k - 1) - 1 + 1 ELSE 0
      BY <1>0, <1>4, <3>1, SubSeqProperties
    <3>3. u \in Seq(Nat) /\ \A i \in 1..((k - 1) - 1 + 1) : u[i] = s[1 + i - 1]
      BY <1>0, <1>4, <3>1, SubSeqProperties
    <3> HIDE DEF u
    <3>4. Len(u) = k - 1
      BY <1>0, <1>4, <3>2
    <3>5. ASSUME NEW i \in 1..(k - 1) PROVE u[i] = s[i]
      <4>1. i \in 1..((k - 1) - 1 + 1) /\ 1 + i - 1 = i
        BY <1>0, <1>4
      <4> QED
        BY <3>3, <4>1
    <3> QED
      BY <3>3, <3>4, <3>5
  <2>2. v \in Seq(Nat) /\ Len(v) = Len(s) - k /\ \A i \in 1..(Len(s) - k) : v[i] = s[k + i]
    <3>1. \A i \in (k + 1)..Len(s) : s[i] \in Nat
      BY <1>0, <1>4
    <3>2. Len(v) = IF k + 1 <= Len(s) THEN Len(s) - (k + 1) + 1 ELSE 0
      BY <1>0, <1>4, <3>1, SubSeqProperties
    <3>3. v \in Seq(Nat) /\ \A i \in 1..(Len(s) - (k + 1) + 1) : v[i] = s[(k + 1) + i - 1]
      BY <1>0, <1>4, <3>1, SubSeqProperties
    <3> HIDE DEF v
    <3>4. Len(v) = Len(s) - k
      <4>1. CASE k + 1 <= Len(s)
        BY <1>0, <1>4, <3>2, <4>1
      <4>2. CASE k = Len(s)
        <5>1. ~(k + 1 <= Len(s))
          BY <1>0, <4>2
        <5> QED
          BY <1>0, <3>2, <4>2, <5>1
      <4> QED
        <5>1. Len(s) \in Nat /\ k \in 1..Len(s)
          BY <1>0, <1>4
        <5> QED
          BY <4>1, <4>2, <5>1
    <3>5. ASSUME NEW i \in 1..(Len(s) - k) PROVE v[i] = s[k + i]
      <4>1. i \in 1..(Len(s) - (k + 1) + 1) /\ (k + 1) + i - 1 = k + i
        BY <1>0, <1>4
      <4> QED
        BY <3>3, <4>1
    <3> QED
      BY <3>3, <3>4, <3>5
  <2>3. r = u \o v
    OBVIOUS
  <2> HIDE DEF u, v, r
  <2>4. /\ r \in Seq(Nat) /\ Len(r) = Len(u) + Len(v)
        /\ \A i \in 1..(Len(u) + Len(v)) : r[i] = IF i <= Len(u) THEN u[i] ELSE v[i - Len(u)]
    BY <2>1, <2>2, <2>3, ConcatProperties
  <2>5. Len(u) + Len(v) = Len(s) - 1
    BY <1>0, <1>4, <2>1, <2>2
  <2>6. ASSUME NEW i \in 1..(Len(s) - 1) PROVE r[i] = IF i < k THEN s[i] ELSE s[i + 1]
    <3>1. CASE i < k
      <4>1. i \in 1..(k - 1) /\ i <= Len(u)
        BY <1>0, <1>4, <2>1, <3>1
      <4> QED
        BY <2>1, <2>4, <2>5, <3>1, <4>1
    <3>2. CASE ~(i < k)
      <4>1. i - Len(u) \in 1..(Len(s) - k) /\ k + (i - Len(u)) = i + 1 /\ ~(i <= Len(u))
        BY <1>0, <1>4, <2>1, <3>2
      <4> QED
        BY <2>2, <2>4, <2>5, <3>2, <4>1
    <3> QED
      BY <3>1, <3>2
  <2> QED
    BY <2>4, <2>5, <2>6
<1> HIDE DEF r, I
<1> DEFINE at(i) == IF i < k THEN i ELSE i + 1
<1>6. /\ DOMAIN r = 1..(Len(s) - 1) /\ \A i \in DOMAIN r : at(i) \in DOMAIN s /\ r[i] = s[at(i)] /\ at(i) # k
      /\ \A i, j \in DOMAIN r : at(i) = at(j) => i = j
      /\ \A i \in DOMAIN s \ {k} : \E j \in DOMAIN r : at(j) = i
  <2>1. DOMAIN r = 1..(Len(s) - 1)
    BY <1>5
  <2>2. \A i \in DOMAIN r : at(i) \in DOMAIN s /\ r[i] = s[at(i)] /\ at(i) # k
    <3> SUFFICES ASSUME NEW i \in 1..(Len(s) - 1)
                 PROVE  at(i) \in 1..Len(s) /\ r[i] = s[at(i)] /\ at(i) # k
      BY <1>0, <2>1
    <3> QED
      BY <1>0, <1>4, <1>5
  <2>3. \A i, j \in DOMAIN r : at(i) = at(j) => i = j
    BY <1>0, <1>4, <2>1
  <2>4. ASSUME NEW i \in DOMAIN s \ {k} PROVE \E j \in DOMAIN r : at(j) = i
    <3>1. CASE i < k
      BY <1>0, <1>4, <2>1, <3>1
    <3>2. CASE i > k
      <4>1. i - 1 \in DOMAIN r /\ at(i - 1) = i
        BY <1>0, <1>4, <2>1, <3>2
      <4> QED
        BY <4>1
    <3> QED
      BY <1>0, <1>4, <3>1, <3>2
  <2> QED
    BY <2>1, <2>2, <2>3, <2>4
<1> HIDE DEF at
<1>7. Once(r)
  BY <1>6 DEF Once
<1>8. ASSUME NEW x PROVE x \in Range(r) <=> x \in Range(s) \ {b}
  <2>1. ASSUME x \in Range(r) PROVE x \in Range(s) \ {b}
    <3>1. PICK i \in DOMAIN r : r[i] = x
      BY <2>1 DEF Range
    <3>2. at(i) \in DOMAIN s /\ x = s[at(i)] /\ at(i) # k
      BY <1>6, <3>1
    <3>3. x # b
      BY <1>0, <1>4, <3>2 DEF Once
    <3> QED
      BY <3>2, <3>3 DEF Range
  <2>2. ASSUME x \in Range(s) \ {b} PROVE x \in Range(r)
    <3>1. PICK i \in DOMAIN s : s[i] = x
      BY <2>2 DEF Range
    <3>2. PICK j \in DOMAIN r : at(j) = i
      BY <1>4, <1>6, <2>2, <3>1
    <3> QED
      BY <1>6, <3>1, <3>2 DEF Range
  <2> QED
    BY <2>1, <2>2
<1> QED
  BY <1>3, <1>5, <1>7, <1>8

LEMMA ConsAdds ==
    ASSUME NEW s \in Seq(Nat), Once(s), NEW b \in Nat, b \notin Range(s)
    PROVE  /\ <<b>> \o s \in Seq(Nat) /\ Once(<<b>> \o s)
           /\ Range(<<b>> \o s) = Range(s) \cup {b} /\ <<b>> \o s # <<>>
<1> DEFINE r == <<b>> \o s
<1>1. /\ r \in Seq(Nat) /\ Len(r) = Len(s) + 1 /\ DOMAIN r = 1..(Len(s) + 1)
      /\ r[1] = b /\ \A i \in 2..(Len(s) + 1) : r[i] = s[i - 1]
  OBVIOUS
<1>2. DOMAIN s = 1..Len(s) /\ Len(s) \in Nat
  OBVIOUS
<1> HIDE DEF r
<1>3. \A i \in 1..Len(s) : s[i] # b
  BY <1>2 DEF Range
<1>4. Once(r)
  <2> SUFFICES ASSUME NEW i \in 1..(Len(s) + 1), NEW j \in 1..(Len(s) + 1), r[i] = r[j]
               PROVE  i = j
    BY <1>1 DEF Once
  <2>1. CASE i = 1
    BY <1>1, <1>2, <1>3, <2>1
  <2>2. CASE j = 1
    BY <1>1, <1>2, <1>3, <2>2
  <2>3. CASE i # 1 /\ j # 1
    <3>1. i - 1 \in DOMAIN s /\ j - 1 \in DOMAIN s /\ s[i - 1] = s[j - 1]
      BY <1>1, <1>2, <2>3
    <3> QED
      BY <3>1 DEF Once
  <2> QED
    BY <2>1, <2>2, <2>3
<1>5. ASSUME NEW x PROVE x \in Range(r) <=> x \in Range(s) \cup {b}
  <2>1. ASSUME x \in Range(r) PROVE x \in Range(s) \cup {b}
    <3>1. PICK i \in 1..(Len(s) + 1) : r[i] = x
      BY <1>1, <2>1 DEF Range
    <3>2. i # 1 => i - 1 \in DOMAIN s /\ s[i - 1] = x
      BY <1>1, <1>2, <3>1
    <3> QED
      BY <1>1, <3>1, <3>2 DEF Range
  <2>2. ASSUME x \in Range(s) PROVE x \in Range(r)
    <3>1. PICK i \in 1..Len(s) : s[i] = x
      BY <1>2, <2>2 DEF Range
    <3>2. i + 1 \in DOMAIN r /\ r[i + 1] = x
      <4>1. i + 1 \in 2..(Len(s) + 1) /\ i + 1 \in 1..(Len(s) + 1) /\ (i + 1) - 1 = i
        BY <1>2
      <4> QED
        BY <1>1, <3>1, <4>1
    <3> QED
      BY <3>2 DEF Range
  <2>3. b \in Range(r)
    <3>1. 1 \in DOMAIN r /\ r[1] = b
      BY <1>1, <1>2
    <3> QED
      BY <3>1 DEF Range
  <2> QED
    BY <2>1, <2>2, <2>3
<1>6. r # <<>>
  BY <1>1
<1> QED
  BY <1>1, <1>4, <1>5, <1>6 DEF r

(* What the lists hold depends on the sizes of the blocks in them only. *)
LEMMA ListsKept ==
    ASSUME NEW p, NEW q, NEW L, ListsHold(p, L),
           q.list = p.list, q.fl = p.fl, q.sl = p.sl, \A b \in L : SizeOf(q, b) = SizeOf(p, b)
    PROVE  ListsHold(q, L)
<1>1. ASSUME NEW c \in Classes, NEW b \in Nat
      PROVE  b \in Range(q.list[c]) <=> b \in L /\ ClassIn(q, b) = c
  BY DEF ListsHold, ClassIn
<1>2. ASSUME NEW c \in Classes
      PROVE  Once(q.list[c]) /\ (c[2] \in q.sl[c[1]]) = (q.list[c] # <<>>)
  BY DEF ListsHold
<1> QED
  BY <1>1, <1>2 DEF ListsHold

LEMMA ListsInsert ==
    ASSUME NEW p, IsPool(p), NEW L, ListsHold(p, L), NEW b \in Nat, b \notin L,
           ClassIn(p, b) \in Classes
    PROVE  /\ IsPool(BlockInsert(p, b)) /\ BlockInsert(p, b).hdr = p.hdr
           /\ ListsHold(BlockInsert(p, b), L \cup {b})
<1> DEFINE c == ClassIn(p, b)
           q == BlockInsert(p, b)
<1>1. q = InsertFree(p, b, c)
  BY DEF BlockInsert, ClassIn
<1>2. c \in Classes /\ c[1] \in 0..FlCount - 1 /\ c[2] \in 0..SlCount - 1
  BY DEF Classes
<1>3. /\ IsPool(q) /\ q.hdr = p.hdr
      /\ q.list = [p.list EXCEPT ![c] = <<b>> \o p.list[c]]
      /\ q.fl = p.fl \cup {c[1]}
      /\ q.sl = [p.sl EXCEPT ![c[1]] = p.sl[c[1]] \cup {c[2]}]
  <2> HIDE DEF c, q
  <2> QED
    BY <1>1 DEF InsertFree, IsPool
<1> HIDE DEF q
<1>4. \A x : ClassIn(q, x) = ClassIn(p, x)
  BY <1>3 DEF ClassIn, SizeOf
<1>5. ClassIn(p, b) = c
  OBVIOUS
<1> HIDE DEF c
<1>6. /\ p.list \in [Classes -> Seq(Nat)] /\ p.sl \in [0..FlCount - 1 -> SUBSET (0..SlCount - 1)]
      /\ p.fl \subseteq 0..FlCount - 1 /\ L \subseteq Nat
      /\ \A fl \in 0..FlCount - 1 : (fl \in p.fl) = (p.sl[fl] # {})
  BY DEF ListsHold
<1>7. p.list[c] \in Seq(Nat) /\ Once(p.list[c]) /\ b \notin Range(p.list[c])
  BY <1>2, <1>6 DEF ListsHold
<1>8. /\ <<b>> \o p.list[c] \in Seq(Nat) /\ Once(<<b>> \o p.list[c])
      /\ Range(<<b>> \o p.list[c]) = Range(p.list[c]) \cup {b} /\ <<b>> \o p.list[c] # <<>>
  BY <1>7, ConsAdds
<1> DEFINE s == <<b>> \o p.list[c]
<1> HIDE DEF s
<1>9. /\ q.list \in [Classes -> Seq(Nat)]
      /\ q.list[c] = s /\ \A d \in Classes \ {c} : q.list[d] = p.list[d]
  BY <1>2, <1>3, <1>6, <1>8 DEF s
<1> DEFINE t == p.sl[c[1]] \cup {c[2]}
<1>9a. t # {} /\ \A sl : sl \in t <=> sl \in p.sl[c[1]] \/ sl = c[2]
  OBVIOUS
<1>9c. t \subseteq 0..SlCount - 1
  BY <1>2, <1>6
<1>9b. q.sl = [p.sl EXCEPT ![c[1]] = t]
  BY <1>3
<1> HIDE DEF t
<1>10. /\ q.sl \in [0..FlCount - 1 -> SUBSET (0..SlCount - 1)]
       /\ q.sl[c[1]] = t
       /\ \A fl \in (0..FlCount - 1) \ {c[1]} : q.sl[fl] = p.sl[fl]
  BY <1>2, <1>6, <1>9b, <1>9c
<1>11. ASSUME NEW d \in Classes, NEW x \in Nat
       PROVE  x \in Range(q.list[d]) <=> x \in L \cup {b} /\ ClassIn(q, x) = d
  <2>1. x \in Range(p.list[d]) <=> x \in L /\ ClassIn(p, x) = d
    BY DEF ListsHold
  <2>2. CASE d = c
    <3>1. x \in Range(q.list[d]) <=> x \in Range(p.list[d]) \/ x = b
      BY <1>8, <1>9, <2>2 DEF s
    <3> QED
      BY <1>4, <1>5, <2>1, <2>2, <3>1
  <2>3. CASE d # c
    <3>1. q.list[d] = p.list[d]
      BY <1>9, <2>3
    <3> QED
      BY <1>4, <1>5, <2>1, <2>3, <3>1
  <2> QED
    BY <2>2, <2>3
<1>12. ASSUME NEW d \in Classes
       PROVE  Once(q.list[d]) /\ (d[2] \in q.sl[d[1]]) = (q.list[d] # <<>>)
  <2>1. Once(p.list[d]) /\ (d[2] \in p.sl[d[1]]) = (p.list[d] # <<>>)
    BY DEF ListsHold
  <2>2. CASE d = c
    BY <1>8, <1>9, <1>9a, <1>10, <2>2 DEF s
  <2>3. CASE d # c
    <3>1. q.list[d] = p.list[d]
      BY <1>9, <2>3
    <3>2. d[1] \in 0..FlCount - 1 /\ d[2] \in 0..SlCount - 1 /\ (d[1] = c[1] => d[2] # c[2])
      BY <1>2, <2>3 DEF Classes
    <3>3. d[2] \in q.sl[d[1]] <=> d[2] \in p.sl[d[1]]
      BY <1>9a, <1>10, <3>2
    <3> QED
      BY <2>1, <3>1, <3>3
  <2> QED
    BY <2>2, <2>3
<1>13. ASSUME NEW fl \in 0..FlCount - 1 PROVE (fl \in q.fl) = (q.sl[fl] # {})
  <2>1. fl \in q.fl <=> fl \in p.fl \/ fl = c[1]
    BY <1>3
  <2>2. CASE fl = c[1]
    BY <1>9a, <1>10, <2>1, <2>2
  <2>3. CASE fl # c[1]
    BY <1>6, <1>10, <2>1, <2>3
  <2> QED
    BY <2>2, <2>3
<1>14. q.fl \subseteq 0..FlCount - 1 /\ L \cup {b} \subseteq Nat
  BY <1>2, <1>3, <1>6
<1>15. ListsHold(q, L \cup {b})
  BY <1>9, <1>10, <1>11, <1>12, <1>13, <1>14 DEF ListsHold
<1> QED
  BY <1>3, <1>15 DEF q

LEMMA ListsRemove ==
    ASSUME NEW p, IsPool(p), NEW L, ListsHold(p, L), NEW b \in L,
           ClassIn(p, b) \in Classes
    PROVE  /\ IsPool(BlockRemove(p, b)) /\ BlockRemove(p, b).hdr = p.hdr
           /\ ListsHold(BlockRemove(p, b), L \ {b})
<1> DEFINE c == ClassIn(p, b)
           q == BlockRemove(p, b)
           s == RemoveFirst(p.list[c], b)
           sls == IF s = <<>> THEN p.sl[c[1]] \ {c[2]} ELSE p.sl[c[1]]
<1>1. q = RemoveFree(p, b, c)
  BY DEF BlockRemove, ClassIn
<1>2. c \in Classes /\ c[1] \in 0..FlCount - 1 /\ c[2] \in 0..SlCount - 1
  BY DEF Classes
<1>3. /\ IsPool(q) /\ q.hdr = p.hdr
      /\ q.list = [p.list EXCEPT ![c] = s]
      /\ q.fl = IF sls = {} THEN p.fl \ {c[1]} ELSE p.fl
      /\ q.sl = [p.sl EXCEPT ![c[1]] = sls]
  <2> HIDE DEF c, q
  <2> QED
    BY <1>1 DEF RemoveFree, IsPool
<1> HIDE DEF q
<1>4. \A x : ClassIn(q, x) = ClassIn(p, x)
  BY <1>3 DEF ClassIn, SizeOf
<1>5. ClassIn(p, b) = c
  OBVIOUS
<1> HIDE DEF c
<1>6. /\ p.list \in [Classes -> Seq(Nat)] /\ p.sl \in [0..FlCount - 1 -> SUBSET (0..SlCount - 1)]
      /\ p.fl \subseteq 0..FlCount - 1 /\ L \subseteq Nat
      /\ \A fl \in 0..FlCount - 1 : (fl \in p.fl) = (p.sl[fl] # {})
  BY DEF ListsHold
<1>7. p.list[c] \in Seq(Nat) /\ Once(p.list[c]) /\ b \in Range(p.list[c])
  BY <1>2, <1>5, <1>6 DEF ListsHold
<1>8. s \in Seq(Nat) /\ Once(s) /\ Range(s) = Range(p.list[c]) \ {b}
  BY <1>7, RemovesOne
<1> HIDE DEF s
<1>9. /\ q.list \in [Classes -> Seq(Nat)]
      /\ q.list[c] = s /\ \A d \in Classes \ {c} : q.list[d] = p.list[d]
  BY <1>2, <1>3, <1>6, <1>8
<1>10. sls \subseteq 0..SlCount - 1
  BY <1>2, <1>6
<1>11. \A sl : sl # c[2] => (sl \in sls <=> sl \in p.sl[c[1]])
  OBVIOUS
<1>12. c[2] \in sls <=> s # <<>>
  <2>1. p.list[c] # <<>>
    BY <1>7, EmptyRange
  <2>2. c[2] \in p.sl[c[1]]
    BY <1>2, <2>1 DEF ListsHold
  <2> QED
    BY <2>2
<1>13. sls # {} => p.sl[c[1]] # {}
  OBVIOUS
<1> HIDE DEF sls
<1>14. /\ q.sl \in [0..FlCount - 1 -> SUBSET (0..SlCount - 1)]
       /\ q.sl[c[1]] = sls
       /\ \A fl \in (0..FlCount - 1) \ {c[1]} : q.sl[fl] = p.sl[fl]
  BY <1>2, <1>3, <1>6, <1>10
<1>15. ASSUME NEW d \in Classes, NEW x \in Nat
       PROVE  x \in Range(q.list[d]) <=> x \in L \ {b} /\ ClassIn(q, x) = d
  <2>1. x \in Range(p.list[d]) <=> x \in L /\ ClassIn(p, x) = d
    BY DEF ListsHold
  <2>2. CASE d = c
    <3>1. x \in Range(q.list[d]) <=> x \in Range(p.list[d]) /\ x # b
      BY <1>8, <1>9, <2>2
    <3> QED
      BY <1>4, <1>5, <2>1, <2>2, <3>1
  <2>3. CASE d # c
    <3>1. q.list[d] = p.list[d]
      BY <1>9, <2>3
    <3> QED
      BY <1>4, <1>5, <2>1, <2>3, <3>1
  <2> QED
    BY <2>2, <2>3
<1>16. ASSUME NEW d \in Classes
       PROVE  Once(q.list[d]) /\ (d[2] \in q.sl[d[1]]) = (q.list[d] # <<>>)
  <2>1. Once(p.list[d]) /\ (d[2] \in p.sl[d[1]]) = (p.list[d] # <<>>)
    BY DEF ListsHold
  <2>2. CASE d = c
    BY <1>8, <1>9, <1>12, <1>14, <2>2
  <2>3. CASE d # c
    <3>1. q.list[d] = p.list[d]
      BY <1>9, <2>3
    <3>2. d[1] \in 0..FlCount - 1 /\ d[2] \in 0..SlCount - 1 /\ (d[1] = c[1] => d[2] # c[2])
      BY <1>2, <2>3 DEF Classes
    <3>3. d[2] \in q.sl[d[1]] <=> d[2] \in p.sl[d[1]]
      BY <1>11, <1>14, <3>2
    <3> QED
      BY <2>1, <3>1, <3>3
  <2> QED
    BY <2>2, <2>3
<1>17. ASSUME NEW fl \in 0..FlCount - 1 PROVE (fl \in q.fl) = (q.sl[fl] # {})
  <2>1. (fl \in p.fl) = (p.sl[fl] # {})
    BY <1>6
  <2>2. CASE fl = c[1]
    BY <1>3, <1>13, <1>14, <2>1, <2>2
  <2>3. CASE fl # c[1]
    BY <1>3, <1>14, <2>1, <2>3
  <2> QED
    BY <2>2, <2>3
<1>18. q.fl \subseteq 0..FlCount - 1 /\ L \ {b} \subseteq Nat
  BY <1>3, <1>6
<1>19. ListsHold(q, L \ {b})
  BY <1>9, <1>14, <1>15, <1>16, <1>17, <1>18 DEF ListsHold
<1> QED
  BY <1>3, <1>19 DEF q
-----------------------------------------------------------------------------
(* The headers.  What setting one field of one of them changes.            *)
Heads == [size : Nat, free : BOOLEAN, prevFree : BOOLEAN, prev : Int]

LEMMA HeadFields ==
    ASSUME NEW r \in Heads
    PROVE  r.size \in Nat /\ r.free \in BOOLEAN /\ r.prevFree \in BOOLEAN /\ r.prev \in Int
BY DEF Heads

LEMMA SetPrev ==
    ASSUME NEW D, NEW h \in [D -> Heads], NEW n \in D, NEW v \in Int
    PROVE  LET g == [h EXCEPT ![n].prev = v] IN
           /\ g \in [D -> Heads] /\ g[n].prev = v
           /\ \A x \in D : g[x].size = h[x].size /\ g[x].free = h[x].free
                           /\ g[x].prevFree = h[x].prevFree /\ (x # n => g[x].prev = h[x].prev)
<1> DEFINE g == [h EXCEPT ![n].prev = v]
           r == [h[n] EXCEPT !.prev = v]
<1>1. r \in Heads /\ r.size = h[n].size /\ r.free = h[n].free /\ r.prevFree = h[n].prevFree
      /\ r.prev = v
  BY DEF Heads
<1>2. g = [h EXCEPT ![n] = r]
  OBVIOUS
<1> HIDE DEF g, r
<1>3. g \in [D -> Heads] /\ g[n] = r /\ \A x \in D \ {n} : g[x] = h[x]
  BY <1>1, <1>2
<1> QED
  BY <1>1, <1>3 DEF g

LEMMA SetFree ==
    ASSUME NEW D, NEW h \in [D -> Heads], NEW n \in D, NEW v \in BOOLEAN
    PROVE  LET g == [h EXCEPT ![n].free = v] IN
           /\ g \in [D -> Heads] /\ g[n].free = v
           /\ \A x \in D : g[x].size = h[x].size /\ g[x].prev = h[x].prev
                           /\ g[x].prevFree = h[x].prevFree /\ (x # n => g[x].free = h[x].free)
<1> DEFINE g == [h EXCEPT ![n].free = v]
           r == [h[n] EXCEPT !.free = v]
<1>1. r \in Heads /\ r.size = h[n].size /\ r.free = v /\ r.prevFree = h[n].prevFree
      /\ r.prev = h[n].prev
  BY DEF Heads
<1>2. g = [h EXCEPT ![n] = r]
  OBVIOUS
<1> HIDE DEF g, r
<1>3. g \in [D -> Heads] /\ g[n] = r /\ \A x \in D \ {n} : g[x] = h[x]
  BY <1>1, <1>2
<1> QED
  BY <1>1, <1>3 DEF g

LEMMA SetPrevFree ==
    ASSUME NEW D, NEW h \in [D -> Heads], NEW n \in D, NEW v \in BOOLEAN
    PROVE  LET g == [h EXCEPT ![n].prevFree = v] IN
           /\ g \in [D -> Heads] /\ g[n].prevFree = v
           /\ \A x \in D : g[x].size = h[x].size /\ g[x].prev = h[x].prev
                           /\ g[x].free = h[x].free /\ (x # n => g[x].prevFree = h[x].prevFree)
<1> DEFINE g == [h EXCEPT ![n].prevFree = v]
           r == [h[n] EXCEPT !.prevFree = v]
<1>1. r \in Heads /\ r.size = h[n].size /\ r.free = h[n].free /\ r.prevFree = v
      /\ r.prev = h[n].prev
  BY DEF Heads
<1>2. g = [h EXCEPT ![n] = r]
  OBVIOUS
<1> HIDE DEF g, r
<1>3. g \in [D -> Heads] /\ g[n] = r /\ \A x \in D \ {n} : g[x] = h[x]
  BY <1>1, <1>2
<1> QED
  BY <1>1, <1>3 DEF g

LEMMA SetSize ==
    ASSUME NEW D, NEW h \in [D -> Heads], NEW n \in D, NEW v \in Nat
    PROVE  LET g == [h EXCEPT ![n].size = v] IN
           /\ g \in [D -> Heads] /\ g[n].size = v
           /\ \A x \in D : g[x].free = h[x].free /\ g[x].prev = h[x].prev
                           /\ g[x].prevFree = h[x].prevFree /\ (x # n => g[x].size = h[x].size)
<1> DEFINE g == [h EXCEPT ![n].size = v]
           r == [h[n] EXCEPT !.size = v]
<1>1. r \in Heads /\ r.size = v /\ r.free = h[n].free /\ r.prevFree = h[n].prevFree
      /\ r.prev = h[n].prev
  BY DEF Heads
<1>2. g = [h EXCEPT ![n] = r]
  OBVIOUS
<1> HIDE DEF g, r
<1>3. g \in [D -> Heads] /\ g[n] = r /\ \A x \in D \ {n} : g[x] = h[x]
  BY <1>1, <1>2
<1> QED
  BY <1>1, <1>3 DEF g

-----------------------------------------------------------------------------
(* The blocks cover the pool: each ends where another one begins, each but *)
(* the first begins where another one ends, and none begins inside another.*)
Inner(p) == DOMAIN p.hdr \ {Sentinel}

Laid(p) ==
    /\ IsPool(p) /\ p.hdr \in [DOMAIN p.hdr -> Heads]
    /\ DOMAIN p.hdr \subseteq Base..Sentinel /\ Base \in DOMAIN p.hdr /\ Sentinel \in DOMAIN p.hdr
    /\ SizeOf(p, Sentinel) = 0
    /\ \A b \in Inner(p) : SizeOf(p, b) >= SizeMin /\ NextOf(p, b) \in DOMAIN p.hdr
    /\ \A b \in Inner(p), c \in DOMAIN p.hdr : c > b => c >= NextOf(p, b)
    /\ \A c \in DOMAIN p.hdr \ {Base} : \E b \in Inner(p) : NextOf(p, b) = c

LEMMA Bounds == Base \in Nat /\ Total \in Nat /\ Total < SizeMax /\ SizeMax \in Nat
                /\ Sentinel = Base + 1 + Total /\ Sentinel \in Nat
BY HeapAssumption, SizesAre DEF Sentinel, Overhead

LEMMA BlockFacts ==
    ASSUME NEW p, Laid(p), NEW b \in Inner(p)
    PROVE  /\ b \in Nat /\ b \in DOMAIN p.hdr /\ SizeOf(p, b) \in Nat /\ SizeOf(p, b) >= 3
           /\ NextOf(p, b) = b + 1 + SizeOf(p, b) /\ NextOf(p, b) \in Nat
           /\ NextOf(p, b) \in DOMAIN p.hdr /\ NextOf(p, b) > b /\ NextOf(p, b) # Base
           /\ NextOf(p, b) <= Sentinel /\ b < Sentinel /\ Base <= b
           /\ SizeOf(p, b) < SizeMax /\ ClassIn(p, b) \in Classes
<1>1. b \in DOMAIN p.hdr /\ b \in Base..Sentinel /\ b # Sentinel
  BY DEF Laid, Inner
<1>2. SizeOf(p, b) \in Nat
  <2>1. p.hdr[b] \in Heads
    BY <1>1 DEF Laid
  <2> QED
    BY <2>1, HeadFields DEF SizeOf
<1>3. SizeOf(p, b) >= 3 /\ NextOf(p, b) \in DOMAIN p.hdr
  BY DEF Laid, SizeMin
<1>4. NextOf(p, b) \in Base..Sentinel /\ NextOf(p, b) = b + 1 + SizeOf(p, b)
  BY <1>3 DEF Laid, NextOf, Overhead
<1>5. SizeOf(p, b) < SizeMax
  BY <1>1, <1>2, <1>4, Bounds
<1>6. ClassIn(p, b) \in Classes
  BY <1>2, <1>5, ClassOfSize DEF ClassIn
<1> QED
  BY <1>1, <1>2, <1>3, <1>4, <1>5, <1>6, Bounds

LEMMA NextDiffers ==
    ASSUME NEW p, Laid(p), NEW b \in Inner(p), NEW c \in Inner(p), NextOf(p, b) = NextOf(p, c)
    PROVE  b = c
<1>1. b \in Nat /\ c \in Nat /\ b \in DOMAIN p.hdr /\ c \in DOMAIN p.hdr
      /\ NextOf(p, b) \in Nat /\ NextOf(p, b) > b /\ NextOf(p, c) > c
  BY BlockFacts
<1>2. ~(c > b) /\ ~(b > c)
  BY <1>1 DEF Laid
<1> QED
  BY <1>1, <1>2

(* The chain is about where blocks are and how large they are.             *)
LEMMA LaidKept ==
    ASSUME NEW p, Laid(p), NEW q, IsPool(q), q.hdr \in [DOMAIN p.hdr -> Heads],
           \A b \in DOMAIN p.hdr : SizeOf(q, b) = SizeOf(p, b)
    PROVE  /\ Laid(q) /\ DOMAIN q.hdr = DOMAIN p.hdr /\ Inner(q) = Inner(p)
           /\ \A b \in Inner(p) : NextOf(q, b) = NextOf(p, b)
<1>1. DOMAIN q.hdr = DOMAIN p.hdr /\ Inner(q) = Inner(p)
  BY DEF Inner
<1>2. \A b \in Inner(p) : NextOf(q, b) = NextOf(p, b)
  BY DEF NextOf, Inner
<1>3. Sentinel \in DOMAIN p.hdr /\ Inner(p) \subseteq DOMAIN p.hdr
  BY DEF Laid, Inner
<1> QED
  BY <1>1, <1>2, <1>3 DEF Laid

(* What the operations on headers do, block by block. *)
LEMMA LinkNextDoes ==
    ASSUME NEW p, Laid(p), NEW b \in Inner(p)
    PROVE  LET q == LinkNext(p, b) IN
           /\ IsPool(q) /\ q.list = p.list /\ q.fl = p.fl /\ q.sl = p.sl
           /\ q.hdr \in [DOMAIN p.hdr -> Heads] /\ q.hdr[NextOf(p, b)].prev = b
           /\ \A x \in DOMAIN p.hdr :
                /\ SizeOf(q, x) = SizeOf(p, x) /\ q.hdr[x].free = p.hdr[x].free
                /\ q.hdr[x].prevFree = p.hdr[x].prevFree
                /\ x # NextOf(p, b) => q.hdr[x].prev = p.hdr[x].prev
<1> DEFINE n == NextOf(p, b)
           q == LinkNext(p, b)
           g == [p.hdr EXCEPT ![n].prev = b]
<1>1. n \in DOMAIN p.hdr /\ b \in Int /\ p.hdr \in [DOMAIN p.hdr -> Heads] /\ IsPool(p)
  BY BlockFacts DEF Laid
<1>2. q = [p EXCEPT !.hdr = g]
  BY DEF LinkNext
<1> HIDE DEF n, q
<1>3. /\ g \in [DOMAIN p.hdr -> Heads] /\ g[n].prev = b
      /\ \A x \in DOMAIN p.hdr : g[x].size = p.hdr[x].size /\ g[x].free = p.hdr[x].free
                           /\ g[x].prevFree = p.hdr[x].prevFree /\ (x # n => g[x].prev = p.hdr[x].prev)
  BY <1>1, SetPrev
<1> HIDE DEF g
<1>4. IsPool(q) /\ q.list = p.list /\ q.fl = p.fl /\ q.sl = p.sl /\ q.hdr = g
  BY <1>1, <1>2 DEF IsPool
<1> QED
  BY <1>3, <1>4 DEF n, q, SizeOf

LEMMA MarkFreeDoes ==
    ASSUME NEW p, Laid(p), NEW b \in Inner(p)
    PROVE  LET q == MarkFree(p, b) IN
           /\ IsPool(q) /\ q.list = p.list /\ q.fl = p.fl /\ q.sl = p.sl
           /\ q.hdr \in [DOMAIN p.hdr -> Heads]
           /\ q.hdr[NextOf(p, b)].prev = b /\ q.hdr[NextOf(p, b)].prevFree /\ q.hdr[b].free
           /\ \A x \in DOMAIN p.hdr :
                /\ SizeOf(q, x) = SizeOf(p, x)
                /\ x # b => q.hdr[x].free = p.hdr[x].free
                /\ x # NextOf(p, b) =>
                     q.hdr[x].prevFree = p.hdr[x].prevFree /\ q.hdr[x].prev = p.hdr[x].prev
<1> DEFINE n == NextOf(p, b)
           q == MarkFree(p, b)
           m == LinkNext(p, b)
           yes == TRUE
           g == [m.hdr EXCEPT ![n].prevFree = yes]
           h == [g EXCEPT ![b].free = yes]
           D == DOMAIN p.hdr
<1>1. n \in D /\ b \in D /\ n # b
  BY BlockFacts
<1>2. q = [m EXCEPT !.hdr = h]
  BY DEF MarkFree
<1>3. /\ IsPool(m) /\ m.list = p.list /\ m.fl = p.fl /\ m.sl = p.sl
      /\ m.hdr \in [D -> Heads] /\ m.hdr[n].prev = b
      /\ \A x \in D : m.hdr[x].size = p.hdr[x].size /\ m.hdr[x].free = p.hdr[x].free
            /\ m.hdr[x].prevFree = p.hdr[x].prevFree /\ (x # n => m.hdr[x].prev = p.hdr[x].prev)
  BY LinkNextDoes DEF SizeOf
<1>3a. yes \in BOOLEAN
  OBVIOUS
<1>3b. yes = TRUE
  OBVIOUS
<1> HIDE DEF n, q, m, D, yes
<1>4. /\ g \in [D -> Heads] /\ g[n].prevFree = yes
      /\ \A x \in D : g[x].size = m.hdr[x].size /\ g[x].prev = m.hdr[x].prev
            /\ g[x].free = m.hdr[x].free /\ (x # n => g[x].prevFree = m.hdr[x].prevFree)
  BY <1>1, <1>3, <1>3a, SetPrevFree
<1> HIDE DEF g
<1>5. /\ h \in [D -> Heads] /\ h[b].free = yes
      /\ \A x \in D : h[x].size = g[x].size /\ h[x].prev = g[x].prev
            /\ h[x].prevFree = g[x].prevFree /\ (x # b => h[x].free = g[x].free)
  BY <1>1, <1>3a, <1>4, SetFree
<1> HIDE DEF h
<1>6. IsPool(q) /\ q.list = p.list /\ q.fl = p.fl /\ q.sl = p.sl /\ q.hdr = h
  BY <1>2, <1>3 DEF IsPool
<1>7. h[n].prev = b /\ h[n].prevFree /\ h[b].free
  BY <1>1, <1>3, <1>3b, <1>4, <1>5
<1>8. \A x \in D : /\ SizeOf(q, x) = SizeOf(p, x)
                   /\ x # b => q.hdr[x].free = p.hdr[x].free
                   /\ x # n => q.hdr[x].prevFree = p.hdr[x].prevFree /\ q.hdr[x].prev = p.hdr[x].prev
  BY <1>3, <1>4, <1>5, <1>6 DEF SizeOf
<1> QED
  BY <1>5, <1>6, <1>7, <1>8 DEF n, q, D

LEMMA MarkUsedDoes ==
    ASSUME NEW p, Laid(p), NEW b \in Inner(p)
    PROVE  LET q == MarkUsed(p, b) IN
           /\ IsPool(q) /\ q.list = p.list /\ q.fl = p.fl /\ q.sl = p.sl
           /\ q.hdr \in [DOMAIN p.hdr -> Heads]
           /\ ~q.hdr[NextOf(p, b)].prevFree /\ ~q.hdr[b].free
           /\ \A x \in DOMAIN p.hdr :
                /\ SizeOf(q, x) = SizeOf(p, x)
                /\ x # b => q.hdr[x].free = p.hdr[x].free
                /\ x # NextOf(p, b) =>
                     q.hdr[x].prevFree = p.hdr[x].prevFree /\ q.hdr[x].prev = p.hdr[x].prev
<1> DEFINE n == NextOf(p, b)
           q == MarkUsed(p, b)
           no == FALSE
           f == [p.hdr EXCEPT ![n].prevFree = no]
           g == [f EXCEPT ![n].prev = Data]
           h == [g EXCEPT ![b].free = no]
           D == DOMAIN p.hdr
<1>1. n \in D /\ b \in D /\ n # b /\ p.hdr \in [D -> Heads] /\ IsPool(p) /\ Data \in Int
  BY BlockFacts DEF Laid, Data
<1>2. q = [p EXCEPT !.hdr = h]
  BY DEF MarkUsed
<1>3a. no \in BOOLEAN /\ ~no
  OBVIOUS
<1> HIDE DEF n, q, D, no
<1>3. /\ f \in [D -> Heads] /\ f[n].prevFree = no
      /\ \A x \in D : f[x].size = p.hdr[x].size /\ f[x].prev = p.hdr[x].prev
            /\ f[x].free = p.hdr[x].free /\ (x # n => f[x].prevFree = p.hdr[x].prevFree)
  BY <1>1, <1>3a, SetPrevFree
<1> HIDE DEF f
<1>4. /\ g \in [D -> Heads]
      /\ \A x \in D : g[x].size = f[x].size /\ g[x].free = f[x].free
            /\ g[x].prevFree = f[x].prevFree /\ (x # n => g[x].prev = f[x].prev)
  BY <1>1, <1>3, SetPrev
<1> HIDE DEF g
<1>5. /\ h \in [D -> Heads] /\ h[b].free = no
      /\ \A x \in D : h[x].size = g[x].size /\ h[x].prev = g[x].prev
            /\ h[x].prevFree = g[x].prevFree /\ (x # b => h[x].free = g[x].free)
  BY <1>1, <1>3a, <1>4, SetFree
<1> HIDE DEF h
<1>6. IsPool(q) /\ q.list = p.list /\ q.fl = p.fl /\ q.sl = p.sl /\ q.hdr = h
  BY <1>1, <1>2 DEF IsPool
<1>7. ~h[n].prevFree /\ ~h[b].free
  BY <1>1, <1>3, <1>3a, <1>4, <1>5
<1>8. \A x \in D : /\ SizeOf(q, x) = SizeOf(p, x)
                   /\ x # b => q.hdr[x].free = p.hdr[x].free
                   /\ x # n => q.hdr[x].prevFree = p.hdr[x].prevFree /\ q.hdr[x].prev = p.hdr[x].prev
  BY <1>3, <1>4, <1>5, <1>6 DEF SizeOf
<1> QED
  BY <1>5, <1>6, <1>7, <1>8 DEF n, q, D

(* Absorbing the next block: one block less, the chain goes on.            *)
AbsorbIs(p, q, b, n) ==
    LET e == NextOf(p, n) IN
    /\ Laid(q) /\ q.list = p.list /\ q.fl = p.fl /\ q.sl = p.sl
    /\ DOMAIN q.hdr = DOMAIN p.hdr \ {n} /\ Inner(q) = Inner(p) \ {n}
    /\ SizeOf(q, b) = SizeOf(p, b) + SizeOf(p, n) + 1 /\ NextOf(q, b) = e /\ q.hdr[e].prev = b
    /\ \A x \in DOMAIN q.hdr :
         /\ q.hdr[x].free = p.hdr[x].free /\ q.hdr[x].prevFree = p.hdr[x].prevFree
         /\ x # b => SizeOf(q, x) = SizeOf(p, x) /\ NextOf(q, x) = NextOf(p, x)
         /\ x # e => q.hdr[x].prev = p.hdr[x].prev

LEMMA AbsorbDoes ==
    ASSUME NEW p, Laid(p), NEW b \in Inner(p), NextOf(p, b) \in Inner(p)
    PROVE  AbsorbIs(p, Absorb(p, b, NextOf(p, b)), b, NextOf(p, b))
<1> DEFINE n == NextOf(p, b)
           e == NextOf(p, n)
           D == DOMAIN p.hdr
           E == D \ {n}
           s == SizeOf(p, b) + SizeOf(p, n) + 1
           h == Restrict(p.hdr, E)
           g == [h EXCEPT ![b].size = s]
           m == [p EXCEPT !.hdr = g]
           q == Absorb(p, b, n)
<1>1. /\ b \in Nat /\ b \in D /\ SizeOf(p, b) \in Nat /\ SizeOf(p, b) >= 3
      /\ n = b + 1 + SizeOf(p, b) /\ n \in Nat /\ n \in D /\ n > b /\ n # Base /\ b # Sentinel
  BY BlockFacts DEF Inner
<1>2. /\ n \in Inner(p) /\ SizeOf(p, n) \in Nat /\ SizeOf(p, n) >= 3
      /\ e = n + 1 + SizeOf(p, n) /\ e \in Nat /\ e \in D /\ e > n /\ n # Sentinel /\ e # Base
  <2>1. n \in Inner(p)
    OBVIOUS
  <2> HIDE DEF n
  <2> QED
    BY <2>1, BlockFacts DEF Inner
<1>3. q = LinkNext(m, b)
  <2>1. s = SizeOf(p, b) + SizeOf(p, n) + Overhead
    BY DEF Overhead
  <2> HIDE DEF s, n
  <2> QED
    BY <2>1 DEF Absorb
<1>4. h \in [E -> Heads] /\ \A x \in E : h[x] = p.hdr[x]
  BY DEF Laid, Restrict
<1>5. s \in Nat /\ b \in E
  BY <1>1, <1>2
<1> HIDE DEF s, h
<1>6. /\ g \in [E -> Heads] /\ g[b].size = s
      /\ \A x \in E : g[x].free = h[x].free /\ g[x].prev = h[x].prev
            /\ g[x].prevFree = h[x].prevFree /\ (x # b => g[x].size = h[x].size)
  BY <1>4, <1>5, SetSize
<1> HIDE DEF g, q
<1>7. IsPool(m) /\ m.hdr = g /\ m.list = p.list /\ m.fl = p.fl /\ m.sl = p.sl
  BY DEF Laid, IsPool
<1> HIDE DEF m, n, e
<1>8. /\ DOMAIN m.hdr = E /\ Inner(m) = Inner(p) \ {n} /\ SizeOf(m, b) = s /\ NextOf(m, b) = e
      /\ \A x \in E \ {b} : SizeOf(m, x) = SizeOf(p, x) /\ NextOf(m, x) = NextOf(p, x)
  <2>1. DOMAIN m.hdr = E /\ Inner(m) = Inner(p) \ {n}
    BY <1>6, <1>7 DEF Inner
  <2>2. SizeOf(m, b) = s /\ NextOf(m, b) = e
    BY <1>1, <1>2, <1>6, <1>7 DEF SizeOf, NextOf, Overhead, s
  <2>3. \A x \in E \ {b} : SizeOf(m, x) = SizeOf(p, x) /\ NextOf(m, x) = NextOf(p, x)
    BY <1>4, <1>6, <1>7 DEF SizeOf, NextOf
  <2> QED
    BY <2>1, <2>2, <2>3
<1>9. Laid(m)
  <2>1. E \subseteq Base..Sentinel /\ Base \in E /\ Sentinel \in E /\ SizeOf(m, Sentinel) = 0
        /\ Inner(p) \ {n} \subseteq E
    BY <1>1, <1>2, <1>8 DEF Laid, Inner
  <2>2. ASSUME NEW x \in Inner(p) \ {n}, x # b
        PROVE  SizeOf(m, x) >= SizeMin /\ NextOf(m, x) \in E /\ NextOf(m, x) = NextOf(p, x)
    <3>1. NextOf(p, x) # n
      BY <2>2, NextDiffers DEF n
    <3> QED
      BY <1>8, <2>1, <2>2, <3>1 DEF Laid
  <2>3. SizeOf(m, b) >= SizeMin /\ e \in E
    BY <1>1, <1>2, <1>8 DEF SizeMin, s
  <2>4. ASSUME NEW x \in Inner(p) \ {n}, NEW c \in E, c > x
        PROVE  c >= NextOf(m, x)
    <3>1. CASE x # b
      BY <2>2, <2>4, <3>1 DEF Laid
    <3>2. CASE x = b
      <4>1. c >= n /\ c # n /\ c \in Nat
        <5>1. c \in D /\ c \in Base..Sentinel
          BY DEF Laid
        <5>2. c \in Nat
          BY <5>1, Bounds
        <5>3. c >= n
          BY <2>4, <3>2, <5>1 DEF Laid, n
        <5> QED
          BY <5>2, <5>3
      <4>2. c > n
        BY <1>1, <4>1
      <4>3. c >= e
        BY <1>2, <4>2 DEF Laid, e
      <4> QED
        BY <1>8, <3>2, <4>3
    <3> QED
      BY <3>1, <3>2
  <2>5. ASSUME NEW c \in E \ {Base} PROVE \E x \in Inner(p) \ {n} : NextOf(m, x) = c
    <3>1. PICK x \in Inner(p) : NextOf(p, x) = c
      BY DEF Laid
    <3>2. CASE x = n
      <4>1. NextOf(m, b) = c /\ b \in Inner(p) \ {n}
        BY <1>1, <1>8, <3>1, <3>2 DEF e
      <4> QED
        BY <4>1
    <3>3. CASE x # n
      <4>1. x # b
        BY <3>1 DEF n
      <4> QED
        BY <2>2, <3>1, <3>3, <4>1
    <3> QED
      BY <3>2, <3>3
  <2>6. \A x \in Inner(p) \ {n} : SizeOf(m, x) >= SizeMin /\ NextOf(m, x) \in E
    BY <1>8, <2>2, <2>3
  <2>7. IsPool(m) /\ m.hdr \in [E -> Heads] /\ DOMAIN m.hdr = E /\ Inner(m) = Inner(p) \ {n}
    BY <1>6, <1>7, <1>8
  <2> HIDE DEF E
  <2> QED
    BY <2>1, <2>4, <2>5, <2>6, <2>7 DEF Laid
<1>10. b \in Inner(m)
  BY <1>1, <1>8
<1>11. /\ IsPool(q) /\ q.list = m.list /\ q.fl = m.fl /\ q.sl = m.sl
       /\ q.hdr \in [E -> Heads] /\ q.hdr[e].prev = b
       /\ \A x \in E :
            /\ SizeOf(q, x) = SizeOf(m, x) /\ q.hdr[x].free = m.hdr[x].free
            /\ q.hdr[x].prevFree = m.hdr[x].prevFree
            /\ x # e => q.hdr[x].prev = m.hdr[x].prev
  <2> DEFINE l == LinkNext(m, b)
  <2>1. /\ IsPool(l) /\ l.list = m.list /\ l.fl = m.fl /\ l.sl = m.sl
        /\ l.hdr \in [DOMAIN m.hdr -> Heads] /\ l.hdr[NextOf(m, b)].prev = b
        /\ \A x \in DOMAIN m.hdr :
             /\ SizeOf(l, x) = SizeOf(m, x) /\ l.hdr[x].free = m.hdr[x].free
             /\ l.hdr[x].prevFree = m.hdr[x].prevFree
             /\ x # NextOf(m, b) => l.hdr[x].prev = m.hdr[x].prev
    BY <1>9, <1>10, LinkNextDoes
  <2>2. DOMAIN m.hdr = E /\ NextOf(m, b) = e /\ q = l
    BY <1>3, <1>8
  <2> HIDE DEF l, E
  <2> QED
    BY <2>1, <2>2
<1> HIDE DEF E
<1>12. Laid(q) /\ DOMAIN q.hdr = E /\ Inner(q) = Inner(m)
  BY <1>8, <1>9, <1>11, LaidKept
<1>13. \A x \in E : SizeOf(q, x) = SizeOf(m, x) /\ NextOf(q, x) = NextOf(m, x)
  BY <1>11 DEF NextOf
<1>14. \A x \in E : /\ q.hdr[x].free = p.hdr[x].free /\ q.hdr[x].prevFree = p.hdr[x].prevFree
                    /\ x # e => q.hdr[x].prev = p.hdr[x].prev
  BY <1>4, <1>6, <1>7, <1>11
<1>15. SizeOf(q, b) = s /\ NextOf(q, b) = e
  BY <1>5, <1>8, <1>13
<1> QED
  BY <1>7, <1>8, <1>11, <1>12, <1>13, <1>14, <1>15 DEF AbsorbIs, n, e, q, E, D, s

(* Splitting a block: one block more, the chain goes on. *)
SplitIs(p, q, b, n, v) ==
    LET r == RestOf(b, n)
        e == NextOf(p, b) IN
    /\ Laid(q) /\ q.list = p.list /\ q.fl = p.fl /\ q.sl = p.sl
    /\ r \notin DOMAIN p.hdr /\ DOMAIN q.hdr = DOMAIN p.hdr \cup {r} /\ Inner(q) = Inner(p) \cup {r}
    /\ SizeOf(q, b) = n /\ NextOf(q, b) = r
    /\ SizeOf(q, r) = SizeOf(p, b) - n - 1 /\ NextOf(q, r) = e
    /\ q.hdr[r].free /\ q.hdr[r].prevFree = v /\ q.hdr[e].prevFree /\ q.hdr[e].prev = r
    /\ \A x \in DOMAIN p.hdr :
         /\ q.hdr[x].free = p.hdr[x].free
         /\ x # b => SizeOf(q, x) = SizeOf(p, x) /\ NextOf(q, x) = NextOf(p, x)
         /\ x # e => q.hdr[x].prevFree = p.hdr[x].prevFree /\ q.hdr[x].prev = p.hdr[x].prev

LEMMA SplitDoes ==
    ASSUME NEW p, Laid(p), NEW b \in Inner(p), NEW n \in Nat, n >= 3, CanSplit(p, b, n),
           NEW v \in BOOLEAN
    PROVE  SplitIs(p, Split(p, b, n, v), b, n, v)
<1> DEFINE r == RestOf(b, n)
           e == NextOf(p, b)
           D == DOMAIN p.hdr
           E == D \cup {r}
           s == SizeOf(p, b) - n - 1
           cut == [p.hdr EXCEPT ![b].size = n]
           yes == TRUE
           rest == [size |-> s, free |-> yes, prevFree |-> v, prev |-> Data]
           g == PutAt(cut, r, rest)
           m == [p EXCEPT !.hdr = g]
           q == Split(p, b, n, v)
<1>1. /\ b \in Nat /\ b \in D /\ SizeOf(p, b) \in Nat /\ e = b + 1 + SizeOf(p, b)
      /\ e \in Nat /\ e \in D /\ e > b /\ e # Base /\ e <= Sentinel /\ Base <= b
      /\ b # Sentinel /\ Base \in Nat /\ Sentinel \in Nat /\ p.hdr \in [D -> Heads]
  BY BlockFacts, Bounds DEF Inner, Laid
<1>2. /\ r = b + 1 + n /\ s \in Nat /\ s >= 3 /\ r \in Nat /\ r > b /\ e = r + 1 + s /\ e > r
      /\ r \in Base..Sentinel /\ r # Base /\ r # Sentinel
  BY <1>1 DEF CanSplit, Header, RestOf, Overhead
<1>3. r \notin D
  BY <1>1, <1>2 DEF Laid
<1>4. q = MarkFree(m, r)
  <2>1. s = SizeOf(p, b) - n - Overhead
    BY DEF Overhead
  <2> HIDE DEF s
  <2> QED
    BY <2>1 DEF Split
<1>5. rest \in Heads /\ rest.size = s /\ rest.free /\ rest.prevFree = v
  <2>1. yes \in BOOLEAN /\ yes
    OBVIOUS
  <2> HIDE DEF yes, s
  <2>2. rest \in Heads /\ rest.size = s /\ rest.free = yes /\ rest.prevFree = v
    BY <1>2, <2>1 DEF Heads, Data
  <2> QED
    BY <2>1, <2>2
<1> HIDE DEF q, m, g, s, r, e, rest
<1>6. /\ cut \in [D -> Heads] /\ cut[b].size = n
      /\ \A x \in D : cut[x].free = p.hdr[x].free /\ cut[x].prev = p.hdr[x].prev
            /\ cut[x].prevFree = p.hdr[x].prevFree /\ (x # b => cut[x].size = p.hdr[x].size)
  BY <1>1, SetSize
<1> HIDE DEF cut
<1>7. g \in [E -> Heads] /\ g[r] = rest /\ \A x \in D : g[x] = cut[x]
  <2>1. g = [y \in E |-> IF y = r THEN rest ELSE cut[y]]
    BY <1>6 DEF g, PutAt
  <2> QED
    BY <1>3, <1>5, <1>6, <2>1
<1>8. IsPool(m) /\ m.hdr = g /\ m.list = p.list /\ m.fl = p.fl /\ m.sl = p.sl
  BY DEF Laid, IsPool, m
<1> HIDE DEF E
<1>9. /\ DOMAIN m.hdr = E /\ Inner(m) = Inner(p) \cup {r}
      /\ SizeOf(m, b) = n /\ NextOf(m, b) = r /\ SizeOf(m, r) = s /\ NextOf(m, r) = e
      /\ \A x \in D \ {b} : SizeOf(m, x) = SizeOf(p, x) /\ NextOf(m, x) = NextOf(p, x)
  <2>1. DOMAIN m.hdr = E /\ Inner(m) = Inner(p) \cup {r}
    BY <1>2, <1>7, <1>8 DEF Inner, E
  <2>2. SizeOf(m, b) = n /\ SizeOf(m, r) = s
    BY <1>1, <1>5, <1>6, <1>7, <1>8 DEF SizeOf
  <2>3. NextOf(m, b) = r /\ NextOf(m, r) = e
    BY <1>1, <1>2, <2>2 DEF NextOf, Overhead
  <2>4. \A x \in D \ {b} : SizeOf(m, x) = SizeOf(p, x) /\ NextOf(m, x) = NextOf(p, x)
    BY <1>6, <1>7, <1>8 DEF SizeOf, NextOf
  <2> QED
    BY <2>1, <2>2, <2>3, <2>4
<1>10. Laid(m)
  <2>1. E \subseteq Base..Sentinel /\ Base \in E /\ Sentinel \in E /\ SizeOf(m, Sentinel) = 0
    <3>1. D \subseteq Base..Sentinel /\ Base \in D /\ Sentinel \in D /\ SizeOf(p, Sentinel) = 0
      BY DEF Laid
    <3> QED
      BY <1>1, <1>2, <1>9, <3>1 DEF E
  <2>2. ASSUME NEW x \in Inner(p), x # b
        PROVE  SizeOf(m, x) >= SizeMin /\ NextOf(m, x) \in E /\ NextOf(m, x) = NextOf(p, x)
    BY <1>9, <2>2 DEF Laid, Inner, E
  <2>3. \A x \in Inner(p) \cup {r} : SizeOf(m, x) >= SizeMin /\ NextOf(m, x) \in E
    BY <1>1, <1>2, <1>9, <2>2 DEF SizeMin, E
  <2>4. ASSUME NEW x \in Inner(p) \cup {r}, NEW c \in E, c > x
        PROVE  c >= NextOf(m, x)
    <3>0. \A y \in Inner(p), z \in D : z > y => z >= NextOf(p, y)
      BY DEF Laid
    <3>1. CASE x = r
      <4>1. c \in D /\ c > b
        <5>1. c \in D
          BY <1>2, <2>4, <3>1 DEF E
        <5>2. c \in Nat
          BY <5>1, Bounds DEF Laid
        <5> QED
          BY <1>1, <1>2, <2>4, <3>1, <5>1, <5>2
      <4>2. c >= e
        BY <3>0, <4>1 DEF e
      <4> QED
        BY <1>9, <3>1, <4>2
    <3>2. CASE x = b
      <4>1. CASE c = r
        BY <1>2, <1>9, <3>2, <4>1
      <4>2. CASE c \in D
        <5>1. c >= e
          BY <2>4, <3>0, <3>2, <4>2 DEF e
        <5>2. c \in Nat
          BY <4>2, Bounds DEF Laid
        <5> QED
          BY <1>1, <1>2, <1>9, <3>2, <5>1, <5>2
      <4> QED
        BY <4>1, <4>2 DEF E
    <3>3. CASE x \in Inner(p) /\ x # b
      <4>0. NextOf(m, x) = NextOf(p, x) /\ x \in Nat /\ NextOf(p, x) \in Nat /\ x \in D
        BY <2>2, <3>3, BlockFacts
      <4>1. CASE c = r
        <5>1. ~(x > b)
          <6>1. SUFFICES ASSUME x > b PROVE FALSE
            OBVIOUS
          <6>2. x >= e
            BY <3>0, <4>0, <6>1 DEF e
          <6> QED
            BY <1>1, <1>2, <2>4, <4>0, <4>1, <6>2
        <5>2. b > x
          BY <1>1, <3>3, <4>0, <5>1
        <5>3. b >= NextOf(p, x)
          BY <1>1, <3>0, <3>3, <5>2
        <5> QED
          BY <1>1, <1>2, <4>0, <4>1, <5>3
      <4>2. CASE c \in D
        BY <2>4, <3>0, <3>3, <4>0, <4>2
      <4> QED
        BY <4>1, <4>2 DEF E
    <3> QED
      BY <3>1, <3>2, <3>3
  <2>5. ASSUME NEW c \in E \ {Base} PROVE \E x \in Inner(p) \cup {r} : NextOf(m, x) = c
    <3>1. CASE c = r
      BY <1>9, <3>1
    <3>2. CASE c # r
      <4>1. PICK x \in Inner(p) : NextOf(p, x) = c
        BY <3>2 DEF Laid, E
      <4>2. CASE x = b
        BY <1>9, <4>1, <4>2 DEF e
      <4>3. CASE x # b
        BY <2>2, <4>1, <4>3
      <4> QED
        BY <4>2, <4>3
    <3> QED
      BY <3>1, <3>2
  <2>6. IsPool(m) /\ m.hdr \in [E -> Heads] /\ DOMAIN m.hdr = E /\ Inner(m) = Inner(p) \cup {r}
    BY <1>7, <1>8, <1>9
  <2> QED
    BY <2>1, <2>3, <2>4, <2>5, <2>6 DEF Laid
<1>11. r \in Inner(m)
  BY <1>9
<1> DEFINE k == MarkFree(m, r)
<1>12. /\ IsPool(k) /\ k.list = m.list /\ k.fl = m.fl /\ k.sl = m.sl
       /\ k.hdr \in [DOMAIN m.hdr -> Heads]
       /\ k.hdr[NextOf(m, r)].prev = r /\ k.hdr[NextOf(m, r)].prevFree /\ k.hdr[r].free
       /\ \A x \in DOMAIN m.hdr :
            /\ SizeOf(k, x) = SizeOf(m, x)
            /\ x # r => k.hdr[x].free = m.hdr[x].free
            /\ x # NextOf(m, r) =>
                 k.hdr[x].prevFree = m.hdr[x].prevFree /\ k.hdr[x].prev = m.hdr[x].prev
  BY <1>10, <1>11, MarkFreeDoes
<1>13. q = k /\ DOMAIN m.hdr = E /\ NextOf(m, r) = e
  BY <1>4, <1>9
<1> HIDE DEF k
<1>14. Laid(q) /\ DOMAIN q.hdr = E /\ Inner(q) = Inner(m)
  BY <1>10, <1>12, <1>13, LaidKept
<1>15. \A x \in E : SizeOf(q, x) = SizeOf(m, x) /\ NextOf(q, x) = NextOf(m, x)
  BY <1>12, <1>13 DEF NextOf
<1>16. \A x \in D : x \in E /\ m.hdr[x].free = p.hdr[x].free /\ m.hdr[x].prevFree = p.hdr[x].prevFree
                    /\ m.hdr[x].prev = p.hdr[x].prev
  BY <1>6, <1>7, <1>8 DEF E
<1>17. \A x \in D : /\ q.hdr[x].free = p.hdr[x].free
                    /\ x # e => q.hdr[x].prevFree = p.hdr[x].prevFree /\ q.hdr[x].prev = p.hdr[x].prev
  BY <1>3, <1>12, <1>13, <1>16
<1>18. \A x \in D \ {b} : SizeOf(q, x) = SizeOf(p, x) /\ NextOf(q, x) = NextOf(p, x)
  BY <1>9, <1>15, <1>16
<1>19. r \in E /\ b \in E /\ r # e /\ m.hdr[r].prevFree = v
  BY <1>1, <1>2, <1>5, <1>7, <1>8 DEF E
<1>20. q.hdr[r].free /\ q.hdr[r].prevFree = v /\ q.hdr[e].prevFree /\ q.hdr[e].prev = r
  BY <1>12, <1>13, <1>19
<1>21. SizeOf(q, b) = n /\ NextOf(q, b) = r /\ SizeOf(q, r) = s /\ NextOf(q, r) = e
  BY <1>9, <1>15, <1>19
<1>22. q.list = p.list /\ q.fl = p.fl /\ q.sl = p.sl
  BY <1>8, <1>12, <1>13
<1> QED
  BY <1>3, <1>9, <1>14, <1>17, <1>18, <1>20, <1>21, <1>22 DEF SplitIs, r, e, q, E, D, s

-----------------------------------------------------------------------------
(* Pools between two steps of an operation.  A block is tagged when the    *)
(* next one knows whether it is free, alone when it has no free neighbour  *)
(* behind it.  Part(p, m): m is in no list, and whatever it borders on.    *)
FreeOf(p) == {b \in Inner(p) : p.hdr[b].free}
InUse(p) == {b \in Inner(p) : ~p.hdr[b].free}
Tagged(p, b) ==
    /\ p.hdr[NextOf(p, b)].prevFree = p.hdr[b].free
    /\ p.hdr[b].free => p.hdr[NextOf(p, b)].prev = b
Bordered(p, b) == p.hdr[NextOf(p, b)].free
Edges(p) == ~p.hdr[Base].prevFree /\ ~p.hdr[Sentinel].free

Intact(p) ==
    /\ Laid(p) /\ Edges(p) /\ ListsHold(p, FreeOf(p))
    /\ \A x \in Inner(p) : Tagged(p, x) /\ (p.hdr[x].free => ~Bordered(p, x))
Part(p, m) ==
    /\ Laid(p) /\ Edges(p) /\ ListsHold(p, FreeOf(p) \ {m}) /\ m \in Inner(p)
    /\ \A x \in Inner(p) \ {m} :
         Tagged(p, x) /\ (p.hdr[x].free /\ NextOf(p, x) # m => ~Bordered(p, x))
Out(p, m) == Part(p, m) /\ p.hdr[m].free /\ Tagged(p, m)

(* What is in use stays in use, b aside with the size it has.              *)
SameUse(p, q, b) ==
    InUse(q) = InUse(p) /\ \A x \in InUse(p) \ {b} : SizeOf(q, x) = SizeOf(p, x)

LEMMA UseKept ==
    ASSUME NEW p, NEW q, q.hdr = p.hdr
    PROVE  /\ Inner(q) = Inner(p) /\ FreeOf(q) = FreeOf(p) /\ \A b : SameUse(p, q, b)
           /\ \A b : SizeOf(q, b) = SizeOf(p, b) /\ NextOf(q, b) = NextOf(p, b)
           /\ \A b : (Tagged(q, b) <=> Tagged(p, b)) /\ (Bordered(q, b) <=> Bordered(p, b))
           /\ Edges(q) <=> Edges(p)
           /\ IsPool(q) /\ Laid(p) => Laid(q)
<1>1. Inner(q) = Inner(p) /\ FreeOf(q) = FreeOf(p) /\ InUse(q) = InUse(p)
  BY DEF Inner, FreeOf, InUse
<1>2. \A b : SizeOf(q, b) = SizeOf(p, b) /\ NextOf(q, b) = NextOf(p, b)
  BY DEF SizeOf, NextOf
<1>3. \A b : (Tagged(q, b) <=> Tagged(p, b)) /\ (Bordered(q, b) <=> Bordered(p, b))
  BY <1>2 DEF Tagged, Bordered
<1>4. Edges(q) <=> Edges(p)
  BY DEF Edges
<1>5. \A b : SameUse(p, q, b)
  BY <1>1, <1>2 DEF SameUse
<1>6. IsPool(q) /\ Laid(p) => Laid(q)
  BY <1>1, <1>2 DEF Laid
<1> QED
  BY <1>1, <1>2, <1>3, <1>4, <1>5, <1>6

LEMMA UseChain ==
    ASSUME NEW p, NEW q, NEW r, NEW b, SameUse(p, q, b), SameUse(q, r, b)
    PROVE  SameUse(p, r, b)
BY DEF SameUse

(* Every block but the first has one before it. *)
LEMMA BeforeIt ==
    ASSUME NEW p, Laid(p), NEW b \in Inner(p), b # Base
    PROVE  \E x \in Inner(p) : NextOf(p, x) = b /\ x # b /\ b > x
<1>1. PICK x \in Inner(p) : NextOf(p, x) = b
  BY DEF Laid, Inner
<1> QED
  BY <1>1, BlockFacts

(* block_remove takes a free block out of the lists. *)
LEMMA RemoveDoes ==
    ASSUME NEW p, Intact(p), NEW b \in FreeOf(p)
    PROVE  LET q == BlockRemove(p, b) IN
           /\ q.hdr = p.hdr /\ SameUse(p, q, b) /\ Out(q, b)
           /\ ~Bordered(q, b) /\ ~q.hdr[b].prevFree
<1> DEFINE q == BlockRemove(p, b)
<1>1. Laid(p) /\ IsPool(p) /\ ListsHold(p, FreeOf(p)) /\ b \in Inner(p) /\ Edges(p) /\ p.hdr[b].free
  BY DEF Intact, Laid, FreeOf
<1>2. IsPool(q) /\ q.hdr = p.hdr /\ ListsHold(q, FreeOf(p) \ {b})
  BY <1>1, ListsRemove, BlockFacts
<1> HIDE DEF q
<1>3. /\ Inner(q) = Inner(p) /\ FreeOf(q) = FreeOf(p) /\ SameUse(p, q, b) /\ Edges(q) /\ Laid(q)
      /\ \A x : SizeOf(q, x) = SizeOf(p, x) /\ NextOf(q, x) = NextOf(p, x)
                /\ (Tagged(q, x) <=> Tagged(p, x)) /\ (Bordered(q, x) <=> Bordered(p, x))
  BY <1>1, <1>2, UseKept
<1>4. \A x \in Inner(q) : Tagged(q, x) /\ (q.hdr[x].free => ~Bordered(q, x))
  BY <1>2, <1>3 DEF Intact
<1>5. Out(q, b) /\ ~Bordered(q, b)
  BY <1>1, <1>2, <1>3, <1>4 DEF Out, Part
<1>6. ~q.hdr[b].prevFree
  <2>1. CASE b = Base
    BY <1>1, <1>2, <2>1 DEF Edges
  <2>2. CASE b # Base
    <3>1. PICK x \in Inner(q) : NextOf(q, x) = b
      BY <1>1, <1>3, <2>2, BeforeIt
    <3>2. ~q.hdr[x].free
      BY <1>1, <1>2, <1>4, <3>1 DEF Bordered
    <3> QED
      BY <1>4, <3>1, <3>2 DEF Tagged
  <2> QED
    BY <2>1, <2>2
<1> QED
  BY <1>2, <1>3, <1>5, <1>6 DEF q

(* block_insert puts it back. *)
LEMMA InsertDoes ==
    ASSUME NEW p, NEW b, Out(p, b), ~Bordered(p, b), ~p.hdr[b].prevFree
    PROVE  LET q == BlockInsert(p, b) IN
           q.hdr = p.hdr /\ SameUse(p, q, b) /\ Intact(q)
<1> DEFINE q == BlockInsert(p, b)
<1>1. Laid(p) /\ IsPool(p) /\ ListsHold(p, FreeOf(p) \ {b}) /\ b \in Inner(p) /\ Edges(p)
      /\ p.hdr[b].free
  BY DEF Out, Part, Laid
<1>2. b \in Nat /\ ClassIn(p, b) \in Classes /\ b \notin FreeOf(p) \ {b}
  BY <1>1, BlockFacts
<1>3. IsPool(q) /\ q.hdr = p.hdr /\ ListsHold(q, (FreeOf(p) \ {b}) \cup {b})
  BY <1>1, <1>2, ListsInsert
<1> HIDE DEF q
<1>4. (FreeOf(p) \ {b}) \cup {b} = FreeOf(p)
  BY <1>1 DEF FreeOf
<1>5. /\ Inner(q) = Inner(p) /\ FreeOf(q) = FreeOf(p) /\ SameUse(p, q, b) /\ Edges(q) /\ Laid(q)
      /\ \A x : SizeOf(q, x) = SizeOf(p, x) /\ NextOf(q, x) = NextOf(p, x)
                /\ (Tagged(q, x) <=> Tagged(p, x)) /\ (Bordered(q, x) <=> Bordered(p, x))
  BY <1>1, <1>3, UseKept
<1>6. \A x \in Inner(p) : Tagged(p, x)
  BY DEF Out, Part
<1>7. ASSUME NEW x \in Inner(p), p.hdr[x].free PROVE ~Bordered(p, x)
  <2>1. NextOf(p, x) # b
    BY <1>6, <1>7 DEF Tagged
  <2> QED
    BY <1>7, <2>1 DEF Out, Part
<1>8. Intact(q)
  BY <1>3, <1>4, <1>5, <1>6, <1>7 DEF Intact
<1> QED
  BY <1>3, <1>5, <1>8 DEF q

(* What is in use is in no list: a pool with no block missing. *)
LEMMA IntactIsPart ==
    ASSUME NEW p, Intact(p), NEW b \in InUse(p)
    PROVE  Part(p, b)
<1>1. FreeOf(p) \ {b} = FreeOf(p)
  BY DEF FreeOf, InUse
<1> QED
  BY <1>1 DEF Intact, Part, InUse

(* block_mark_as_used and block_mark_as_free. *)
LEMMA UsedIsIntact ==
    ASSUME NEW p, NEW b, Part(p, b)
    PROVE  LET q == MarkUsed(p, b) IN
           /\ Intact(q) /\ InUse(q) = InUse(p) \cup {b} /\ DOMAIN q.hdr = DOMAIN p.hdr
           /\ \A x \in Inner(p) : SizeOf(q, x) = SizeOf(p, x)
<1> DEFINE q == MarkUsed(p, b)
           n == NextOf(p, b)
<1>1. Laid(p) /\ Edges(p) /\ ListsHold(p, FreeOf(p) \ {b}) /\ b \in Inner(p)
      /\ Inner(p) \subseteq DOMAIN p.hdr /\ Base \in DOMAIN p.hdr /\ Sentinel \in DOMAIN p.hdr
  BY DEF Part, Inner, Laid
<1>2. /\ IsPool(q) /\ q.list = p.list /\ q.fl = p.fl /\ q.sl = p.sl
      /\ q.hdr \in [DOMAIN p.hdr -> Heads] /\ ~q.hdr[n].prevFree /\ ~q.hdr[b].free
      /\ \A x \in DOMAIN p.hdr :
           /\ SizeOf(q, x) = SizeOf(p, x)
           /\ x # b => q.hdr[x].free = p.hdr[x].free
           /\ x # n => q.hdr[x].prevFree = p.hdr[x].prevFree /\ q.hdr[x].prev = p.hdr[x].prev
  BY <1>1, MarkUsedDoes
<1> HIDE DEF q
<1>3. /\ Laid(q) /\ DOMAIN q.hdr = DOMAIN p.hdr /\ Inner(q) = Inner(p)
      /\ \A x \in Inner(p) : NextOf(q, x) = NextOf(p, x)
  BY <1>1, <1>2, LaidKept
<1>4. n # Base /\ n \in DOMAIN p.hdr /\ b # Sentinel /\ n # b
  BY <1>1, BlockFacts DEF Inner
<1>5. FreeOf(q) = FreeOf(p) \ {b} /\ InUse(q) = InUse(p) \cup {b}
  BY <1>1, <1>2, <1>3 DEF FreeOf, InUse
<1>6. ListsHold(q, FreeOf(q))
  <2>1. \A x \in FreeOf(p) \ {b} : SizeOf(q, x) = SizeOf(p, x)
    BY <1>1, <1>2 DEF FreeOf
  <2> QED
    BY <1>1, <1>2, <1>5, <2>1, ListsKept
<1>7. Edges(q)
  BY <1>1, <1>2, <1>4 DEF Edges
<1>8. ASSUME NEW x \in Inner(p)
      PROVE  Tagged(q, x) /\ (q.hdr[x].free => ~Bordered(q, x))
  <2>1. CASE x = b
    <3>1. q.hdr[n] \in Heads /\ q.hdr[b] \in Heads
      BY <1>1, <1>2, <1>4
    <3> QED
      BY <1>1, <1>2, <1>3, <2>1, <3>1, HeadFields DEF Tagged
  <2>2. CASE x # b
    <3>1. NextOf(p, x) # n /\ NextOf(p, x) \in DOMAIN p.hdr /\ x \in DOMAIN p.hdr
      BY <1>1, <2>2, NextDiffers, BlockFacts
    <3>2. Tagged(p, x) /\ (p.hdr[x].free /\ NextOf(p, x) # b => ~Bordered(p, x))
      BY <2>2 DEF Part
    <3>3. Tagged(q, x)
      BY <1>2, <1>3, <2>2, <3>1, <3>2 DEF Tagged
    <3>4. CASE NextOf(p, x) = b
      BY <1>2, <1>3, <3>3, <3>4 DEF Bordered
    <3>5. CASE NextOf(p, x) # b
      BY <1>2, <1>3, <2>2, <3>1, <3>2, <3>3, <3>5 DEF Bordered
    <3> QED
      BY <3>3, <3>4, <3>5
  <2> QED
    BY <2>1, <2>2
<1> QED
  BY <1>2, <1>3, <1>5, <1>6, <1>7, <1>8, <1>1 DEF Intact, q

LEMMA FreeIsOut ==
    ASSUME NEW p, Intact(p), NEW b \in InUse(p)
    PROVE  LET q == MarkFree(p, b) IN
           /\ Out(q, b) /\ InUse(q) = InUse(p) \ {b}
           /\ \A x \in Inner(p) : SizeOf(q, x) = SizeOf(p, x)
<1> DEFINE q == MarkFree(p, b)
           n == NextOf(p, b)
<1>1. Laid(p) /\ Edges(p) /\ ListsHold(p, FreeOf(p)) /\ b \in Inner(p) /\ ~p.hdr[b].free
      /\ Inner(p) \subseteq DOMAIN p.hdr /\ Base \in DOMAIN p.hdr /\ Sentinel \in DOMAIN p.hdr
  BY DEF Intact, Inner, Laid, InUse
<1>2. /\ IsPool(q) /\ q.list = p.list /\ q.fl = p.fl /\ q.sl = p.sl
      /\ q.hdr \in [DOMAIN p.hdr -> Heads]
      /\ q.hdr[n].prev = b /\ q.hdr[n].prevFree /\ q.hdr[b].free
      /\ \A x \in DOMAIN p.hdr :
           /\ SizeOf(q, x) = SizeOf(p, x)
           /\ x # b => q.hdr[x].free = p.hdr[x].free
           /\ x # n => q.hdr[x].prevFree = p.hdr[x].prevFree /\ q.hdr[x].prev = p.hdr[x].prev
  BY <1>1, MarkFreeDoes
<1> HIDE DEF q
<1>3. /\ Laid(q) /\ DOMAIN q.hdr = DOMAIN p.hdr /\ Inner(q) = Inner(p)
      /\ \A x \in Inner(p) : NextOf(q, x) = NextOf(p, x)
  BY <1>1, <1>2, LaidKept
<1>4. n # Base /\ n \in DOMAIN p.hdr /\ b # Sentinel /\ n # b
  BY <1>1, BlockFacts DEF Inner
<1>5. FreeOf(q) \ {b} = FreeOf(p) /\ InUse(q) = InUse(p) \ {b}
  BY <1>1, <1>2, <1>3 DEF FreeOf, InUse
<1>6. ListsHold(q, FreeOf(q) \ {b})
  <2>1. \A x \in FreeOf(p) : SizeOf(q, x) = SizeOf(p, x)
    BY <1>1, <1>2 DEF FreeOf
  <2>2. ListsHold(q, FreeOf(p))
    BY <1>1, <1>2, <2>1, ListsKept
  <2> QED
    BY <1>5, <2>2
<1>7. Edges(q)
  BY <1>1, <1>2, <1>4 DEF Edges
<1>8. q.hdr[n] \in Heads /\ q.hdr[b] \in Heads
  BY <1>1, <1>2, <1>4
<1>9. Tagged(q, b)
  BY <1>1, <1>2, <1>3, <1>8, HeadFields DEF Tagged
<1>10. ASSUME NEW x \in Inner(p) \ {b}
       PROVE  Tagged(q, x) /\ (q.hdr[x].free /\ NextOf(q, x) # b => ~Bordered(q, x))
  <2>1. NextOf(p, x) # n /\ NextOf(p, x) \in DOMAIN p.hdr /\ x \in DOMAIN p.hdr
    BY <1>1, NextDiffers, BlockFacts
  <2>2. Tagged(p, x) /\ (p.hdr[x].free => ~Bordered(p, x))
    BY DEF Intact
  <2>3. Tagged(q, x)
    BY <1>2, <1>3, <2>1, <2>2 DEF Tagged
  <2> QED
    BY <1>2, <1>3, <2>1, <2>2, <2>3 DEF Bordered
<1>11. Part(q, b)
  BY <1>1, <1>3, <1>6, <1>7, <1>10 DEF Part
<1> QED
  BY <1>2, <1>5, <1>9, <1>11, <1>1 DEF Out, q

(* block_merge_prev and block_merge_next: the block takes in its neighbour.*)
LEMMA MergePrevDoes ==
    ASSUME NEW p, NEW b, Out(p, b)
    PROVE  LET q == MergePrev(p, b)
               m == Merged(p, b) IN
           Out(q, m) /\ ~q.hdr[m].prevFree /\ SameUse(p, q, b)
<1> DEFINE q == MergePrev(p, b)
           m == Merged(p, b)
           D == DOMAIN p.hdr
           e == NextOf(p, b)
<1>1. Laid(p) /\ Edges(p) /\ ListsHold(p, FreeOf(p) \ {b}) /\ b \in Inner(p) /\ IsPool(p)
      /\ Inner(p) \subseteq D /\ p.hdr[b].free /\ Tagged(p, b)
      /\ \A x \in Inner(p) : Tagged(p, x)
  BY DEF Out, Part, Inner, Laid
<1>2. CASE ~p.hdr[b].prevFree
  <2>1. q = p /\ m = b
    BY <1>2 DEF MergePrev, Merged
  <2> QED
    BY <1>2, <2>1, <1>1 DEF SameUse
<1>3. CASE p.hdr[b].prevFree
  <2>1. PICK a \in Inner(p) : NextOf(p, a) = b /\ a # b /\ b > a
    BY <1>1, <1>3, BeforeIt DEF Edges
  <2>2. p.hdr[a].free /\ p.hdr[b].prev = a
    BY <1>1, <1>3, <2>1 DEF Tagged
  <2> DEFINE r == BlockRemove(p, a)
             L == FreeOf(p) \ {b}
  <2>3. IsPool(r) /\ r.hdr = p.hdr /\ ListsHold(r, L \ {a})
    <3>1. a \in L
      BY <2>1, <2>2 DEF FreeOf
    <3> QED
      BY <1>1, <2>1, <3>1, ListsRemove, BlockFacts
  <2>4. m = a /\ q = Absorb(r, a, b)
    BY <1>3, <2>2 DEF MergePrev, Merged
  <2> HIDE DEF r, q, m
  <2>5. /\ Inner(r) = Inner(p) /\ Laid(r)
        /\ \A x : SizeOf(r, x) = SizeOf(p, x) /\ NextOf(r, x) = NextOf(p, x)
    BY <1>1, <2>3, UseKept
  <2>6. AbsorbIs(r, q, a, b)
    BY <1>1, <2>1, <2>4, <2>5, AbsorbDoes
  <2>7. /\ Laid(q) /\ q.list = r.list /\ q.fl = r.fl /\ q.sl = r.sl
        /\ DOMAIN q.hdr = D \ {b} /\ Inner(q) = Inner(p) \ {b}
        /\ NextOf(q, a) = e /\ q.hdr[e].prev = a
        /\ \A x \in D \ {b} :
             /\ q.hdr[x].free = p.hdr[x].free /\ q.hdr[x].prevFree = p.hdr[x].prevFree
             /\ x # a => SizeOf(q, x) = SizeOf(p, x) /\ NextOf(q, x) = NextOf(p, x)
             /\ x # e => q.hdr[x].prev = p.hdr[x].prev
    BY <2>3, <2>5, <2>6 DEF AbsorbIs
  <2>8. a \in D \ {b} /\ e \in D \ {b} /\ e # Base /\ b # Base /\ Base \in D /\ Sentinel \in D
        /\ b # Sentinel /\ a \in Inner(q) /\ e # a
    BY <1>1, <2>1, <2>7, BlockFacts DEF Laid, Inner
  <2>9. Edges(q)
    BY <1>1, <2>7, <2>8 DEF Edges
  <2>10. ListsHold(q, FreeOf(q) \ {a})
    <3>1. FreeOf(q) \ {a} = L \ {a}
      BY <1>1, <2>7 DEF FreeOf
    <3>2. \A x \in L \ {a} : SizeOf(q, x) = SizeOf(r, x)
      BY <1>1, <2>5, <2>7 DEF FreeOf
    <3>3. ListsHold(q, L \ {a})
      BY <2>3, <2>7, <3>2, ListsKept
    <3> QED
      BY <3>1, <3>3
  <2>11. Tagged(q, a)
    BY <1>1, <2>2, <2>7, <2>8 DEF Tagged
  <2>12. ASSUME NEW x \in Inner(p) \ {b}, x # a
         PROVE  /\ NextOf(q, x) = NextOf(p, x) /\ NextOf(p, x) \in D \ {b} /\ NextOf(p, x) # e
                /\ Tagged(q, x)
    <3>1. NextOf(p, x) # b /\ NextOf(p, x) # e /\ NextOf(p, x) \in D
      BY <1>1, <2>1, <2>12, NextDiffers, BlockFacts
    <3>2. x \in D \ {b} /\ NextOf(q, x) = NextOf(p, x)
      BY <1>1, <2>7, <2>12
    <3> QED
      BY <1>1, <2>7, <2>12, <3>1, <3>2 DEF Tagged
  <2>13. ASSUME NEW x \in Inner(q) \ {a}
         PROVE  Tagged(q, x) /\ (q.hdr[x].free => ~Bordered(q, x))
    <3>1. x \in Inner(p) \ {b} /\ x # a /\ x \in D \ {b}
      BY <1>1, <2>7
    <3>2. NextOf(q, x) = NextOf(p, x) /\ NextOf(p, x) \in D \ {b} /\ Tagged(q, x)
      BY <2>12, <3>1
    <3>3. p.hdr[x].free => ~Bordered(p, x)
      BY <3>1, <3>2 DEF Out, Part
    <3> QED
      BY <2>7, <3>1, <3>2, <3>3 DEF Bordered
  <2>14. Out(q, a)
    BY <2>2, <2>7, <2>8, <2>9, <2>10, <2>11, <2>13 DEF Out, Part
  <2>15. ~q.hdr[a].prevFree
    <3>1. CASE a = Base
      BY <2>9, <3>1 DEF Edges
    <3>2. CASE a # Base
      <4>1. PICK x \in Inner(q) : NextOf(q, x) = a /\ x # a
        BY <2>7, <2>8, <3>2, BeforeIt
      <4>2. Tagged(q, x) /\ (q.hdr[x].free => ~Bordered(q, x))
        BY <2>13, <4>1
      <4>3. q.hdr[a].free
        BY <2>2, <2>7, <2>8
      <4> QED
        BY <4>1, <4>2, <4>3 DEF Tagged, Bordered
    <3> QED
      BY <3>1, <3>2
  <2>16. SameUse(p, q, b)
    <3>1. InUse(q) = InUse(p)
      BY <1>1, <2>7 DEF InUse
    <3>2. \A x \in InUse(p) : SizeOf(q, x) = SizeOf(p, x)
      BY <1>1, <2>2, <2>7 DEF InUse
    <3> QED
      BY <3>1, <3>2 DEF SameUse
  <2> QED
    BY <2>4, <2>14, <2>15, <2>16 DEF q, m
<1> QED
  BY <1>2, <1>3

LEMMA MergeNextDoes ==
    ASSUME NEW p, NEW b, Part(p, b)
    PROVE  LET q == MergeNext(p, b) IN
           /\ Part(q, b) /\ ~Bordered(q, b) /\ SameUse(p, q, b)
           /\ q.hdr[b].free = p.hdr[b].free /\ q.hdr[b].prevFree = p.hdr[b].prevFree
           /\ Out(p, b) => Out(q, b)
           /\ SizeOf(q, b) = IF Bordered(p, b) THEN SizeOf(p, b) + SizeOf(p, NextOf(p, b)) + 1
                             ELSE SizeOf(p, b)
<1> DEFINE q == MergeNext(p, b)
           D == DOMAIN p.hdr
           n == NextOf(p, b)
           e == NextOf(p, n)
<1>1. Laid(p) /\ Edges(p) /\ ListsHold(p, FreeOf(p) \ {b}) /\ b \in Inner(p) /\ IsPool(p)
      /\ Inner(p) \subseteq D
  BY DEF Part, Inner, Laid
<1>2. CASE ~Bordered(p, b)
  <2>1. q = p
    BY <1>2 DEF MergeNext, Bordered
  <2> QED
    BY <1>2, <2>1, <1>1 DEF SameUse
<1>3. CASE Bordered(p, b)
  <2>1. n \in Inner(p) /\ p.hdr[n].free /\ n # b /\ n > b /\ b \in Nat /\ n \in Nat /\ n # Base
    BY <1>1, <1>3, BlockFacts DEF Bordered, Edges, Inner
  <2> DEFINE r == BlockRemove(p, n)
             L == FreeOf(p) \ {b}
  <2>2. q = Absorb(r, b, n)
    BY <2>1 DEF MergeNext
  <2> HIDE DEF q, n
  <2>3. IsPool(r) /\ r.hdr = p.hdr /\ ListsHold(r, L \ {n})
    <3>1. n \in L
      BY <2>1 DEF FreeOf
    <3> QED
      BY <1>1, <2>1, <3>1, ListsRemove, BlockFacts
  <2> HIDE DEF r
  <2>4. /\ Inner(r) = Inner(p) /\ Laid(r)
        /\ \A x : SizeOf(r, x) = SizeOf(p, x) /\ NextOf(r, x) = NextOf(p, x)
    BY <1>1, <2>3, UseKept
  <2>5. AbsorbIs(r, q, b, n)
    BY <1>1, <2>1, <2>2, <2>4, AbsorbDoes DEF n
  <2>6. /\ Laid(q) /\ q.list = r.list /\ q.fl = r.fl /\ q.sl = r.sl
        /\ DOMAIN q.hdr = D \ {n} /\ Inner(q) = Inner(p) \ {n}
        /\ SizeOf(q, b) = SizeOf(p, b) + SizeOf(p, n) + 1
        /\ NextOf(q, b) = e /\ q.hdr[e].prev = b
        /\ \A x \in D \ {n} :
             /\ q.hdr[x].free = p.hdr[x].free /\ q.hdr[x].prevFree = p.hdr[x].prevFree
             /\ x # b => SizeOf(q, x) = SizeOf(p, x) /\ NextOf(q, x) = NextOf(p, x)
             /\ x # e => q.hdr[x].prev = p.hdr[x].prev
    BY <2>3, <2>4, <2>5 DEF AbsorbIs
  <2>7. e \in D \ {n} /\ e # Base /\ e > n /\ e # b /\ e \in Nat
    BY <1>1, <2>1, BlockFacts
  <2>8. Base \in D /\ Sentinel \in D /\ n # Sentinel /\ b \in Inner(q) /\ b \in D \ {n}
    BY <1>1, <2>1, <2>6 DEF Laid, Inner
  <2>9. Tagged(p, n) /\ ~Bordered(p, n)
    BY <2>1, <2>7 DEF Part
  <2> HIDE DEF e
  <2>10. Edges(q)
    BY <1>1, <2>1, <2>6, <2>8 DEF Edges
  <2>11. ListsHold(q, FreeOf(q) \ {b})
    <3>1. FreeOf(q) \ {b} = L \ {n}
      BY <1>1, <2>6 DEF FreeOf
    <3>2. \A x \in L \ {n} : SizeOf(q, x) = SizeOf(r, x)
      BY <1>1, <2>4, <2>6 DEF FreeOf
    <3>3. ListsHold(q, L \ {n})
      BY <2>3, <2>6, <3>2, ListsKept
    <3> QED
      BY <3>1, <3>3
  <2>12. q.hdr[e].prevFree /\ ~q.hdr[e].free
    BY <2>1, <2>6, <2>7, <2>9 DEF Tagged, Bordered, e
  <2>13. ASSUME NEW x \in Inner(q) \ {b}
         PROVE  Tagged(q, x) /\ (q.hdr[x].free /\ NextOf(q, x) # b => ~Bordered(q, x))
    <3>1. x \in Inner(p) \ {b} /\ x # n /\ x \in D \ {n}
      BY <1>1, <2>6
    <3>2. NextOf(p, x) # n /\ NextOf(p, x) # e /\ NextOf(p, x) \in D \ {n}
      BY <1>1, <2>1, <3>1, NextDiffers, BlockFacts DEF n, e
    <3>3. Tagged(p, x) /\ (p.hdr[x].free /\ NextOf(p, x) # b => ~Bordered(p, x))
      BY <3>1 DEF Part
    <3>4. NextOf(q, x) = NextOf(p, x)
      BY <2>6, <3>1
    <3>5. Tagged(q, x)
      BY <2>6, <3>1, <3>2, <3>3, <3>4 DEF Tagged
    <3> QED
      BY <2>6, <3>1, <3>2, <3>3, <3>4, <3>5 DEF Bordered
  <2>14. Part(q, b)
    BY <2>6, <2>8, <2>10, <2>11, <2>13 DEF Part
  <2>15. ~Bordered(q, b) /\ (p.hdr[b].free => Tagged(q, b) /\ q.hdr[b].free)
    BY <2>6, <2>8, <2>12 DEF Bordered, Tagged
  <2>16. SameUse(p, q, b)
    <3>1. InUse(q) = InUse(p)
      BY <1>1, <2>1, <2>6 DEF InUse
    <3>2. \A x \in InUse(p) \ {b} : SizeOf(q, x) = SizeOf(p, x)
      BY <1>1, <2>1, <2>6 DEF InUse
    <3> QED
      BY <3>1, <3>2 DEF SameUse
  <2>17. Out(p, b) => Out(q, b)
    BY <2>14, <2>15 DEF Out
  <2>18. q.hdr[b].free = p.hdr[b].free /\ q.hdr[b].prevFree = p.hdr[b].prevFree
    BY <2>6, <2>8
  <2> QED
    BY <1>3, <2>6, <2>14, <2>15, <2>16, <2>17, <2>18 DEF n, q
<1> QED
  BY <1>2, <1>3

(* What a split leaves as it was, and what it adds. *)
LEMMA SplitKeeps ==
    ASSUME NEW p, Laid(p), Edges(p), NEW b \in Inner(p), NEW n \in Nat, n >= 3,
           CanSplit(p, b, n), NEW v \in BOOLEAN, NEW q, SplitIs(p, q, b, n, v)
    PROVE  LET r == RestOf(b, n) IN
           /\ Laid(q) /\ Edges(q) /\ SameUse(p, q, b) /\ r # b /\ r \in Nat
           /\ r \in Inner(q) /\ b \in Inner(q) /\ Inner(q) = Inner(p) \cup {r}
           /\ FreeOf(q) = FreeOf(p) \cup {r} /\ r \notin FreeOf(p)
           /\ \A x \in FreeOf(p) \ {b} : SizeOf(q, x) = SizeOf(p, x)
           /\ SizeOf(q, b) = n /\ NextOf(q, b) = r /\ NextOf(q, r) # b
           /\ SizeOf(q, r) = SizeOf(p, b) - n - 1
           /\ Tagged(q, r) /\ (Bordered(q, r) <=> Bordered(p, b))
           /\ q.hdr[b].free = p.hdr[b].free /\ q.hdr[b].prevFree = p.hdr[b].prevFree
           /\ q.hdr[r].free /\ q.hdr[r].prevFree = v
           /\ \A x \in Inner(p) \ {b} :
                /\ NextOf(q, x) = NextOf(p, x) /\ NextOf(q, x) # r /\ q.hdr[x].free = p.hdr[x].free
                /\ Tagged(p, x) => Tagged(q, x)
                /\ Bordered(q, x) <=> Bordered(p, x)
<1> DEFINE r == RestOf(b, n)
           e == NextOf(p, b)
           D == DOMAIN p.hdr
<1>1. Inner(p) \subseteq D /\ Base \in D /\ Sentinel \in D
  BY DEF Inner, Laid
<1>2. /\ b \in Nat /\ b \in D /\ e \in Nat /\ e \in D /\ e > b /\ e # Base /\ b # Sentinel
      /\ SizeOf(p, b) \in Nat /\ r = b + 1 + n
  BY BlockFacts DEF Inner, RestOf, Overhead
<1>3. /\ Laid(q) /\ r \notin D /\ DOMAIN q.hdr = D \cup {r} /\ Inner(q) = Inner(p) \cup {r}
      /\ SizeOf(q, b) = n /\ NextOf(q, b) = r
      /\ SizeOf(q, r) = SizeOf(p, b) - n - 1 /\ NextOf(q, r) = e
      /\ q.hdr[r].free /\ q.hdr[r].prevFree = v /\ q.hdr[e].prevFree /\ q.hdr[e].prev = r
      /\ \A x \in D :
           /\ q.hdr[x].free = p.hdr[x].free
           /\ x # b => SizeOf(q, x) = SizeOf(p, x) /\ NextOf(q, x) = NextOf(p, x)
           /\ x # e => q.hdr[x].prevFree = p.hdr[x].prevFree /\ q.hdr[x].prev = p.hdr[x].prev
  BY DEF SplitIs
<1> HIDE DEF r, e, D
<1>4. Edges(q)
  BY <1>1, <1>2, <1>3 DEF Edges
<1>5. FreeOf(q) = FreeOf(p) \cup {r} /\ r \notin FreeOf(p)
  BY <1>1, <1>3 DEF FreeOf
<1>6. SameUse(p, q, b)
  <2>1. InUse(q) = InUse(p)
    BY <1>1, <1>3 DEF InUse
  <2>2. \A x \in InUse(p) \ {b} : SizeOf(q, x) = SizeOf(p, x)
    BY <1>1, <1>3 DEF InUse
  <2> QED
    BY <2>1, <2>2 DEF SameUse
<1>7. Tagged(q, r)
  <2>1. q.hdr \in [D \cup {r} -> Heads]
    BY <1>3 DEF Laid
  <2>2. q.hdr[e] \in Heads /\ q.hdr[r] \in Heads
    BY <1>2, <2>1
  <2> QED
    BY <1>3, <2>2, HeadFields DEF Tagged
<1>8. Bordered(q, r) <=> Bordered(p, b)
  BY <1>2, <1>3 DEF Bordered, e
<1>9. ASSUME NEW x \in Inner(p) \ {b}
      PROVE  /\ NextOf(q, x) = NextOf(p, x) /\ NextOf(q, x) # r /\ q.hdr[x].free = p.hdr[x].free
             /\ Tagged(p, x) => Tagged(q, x)
             /\ Bordered(q, x) <=> Bordered(p, x)
  <2>1. NextOf(p, x) \in D /\ NextOf(p, x) # e /\ x \in D
    BY <1>1, NextDiffers, BlockFacts DEF e, D
  <2>2. NextOf(q, x) = NextOf(p, x) /\ NextOf(q, x) # r /\ q.hdr[x].free = p.hdr[x].free
    BY <1>3, <2>1
  <2>3. Tagged(p, x) => Tagged(q, x)
    BY <1>3, <2>1, <2>2 DEF Tagged
  <2>4. Bordered(q, x) <=> Bordered(p, x)
    BY <1>3, <2>1, <2>2 DEF Bordered
  <2> QED
    BY <2>2, <2>3, <2>4
<1>10. \A x \in FreeOf(p) \ {b} : SizeOf(q, x) = SizeOf(p, x)
  BY <1>1, <1>3 DEF FreeOf
<1>11. r # b /\ r \in Nat /\ b \in Inner(q) /\ r \in Inner(q) /\ e # b
  BY <1>2, <1>3
<1>12. q.hdr[b].free = p.hdr[b].free /\ q.hdr[b].prevFree = p.hdr[b].prevFree
  BY <1>2, <1>3
<1> QED
  BY <1>3, <1>4, <1>5, <1>6, <1>7, <1>8, <1>9, <1>10, <1>11, <1>12 DEF r

(* With the block before the rest a free one and linked to it. *)
LEMMA SplitLinked ==
    ASSUME NEW p, Laid(p), NEW b \in Inner(p), NEW n \in Nat, n >= 3, CanSplit(p, b, n)
    PROVE  LET q == LinkNext(Split(p, b, n, TRUE), b) IN
           SplitIs(p, q, b, n, TRUE) /\ q.hdr[RestOf(b, n)].prev = b
<1> DEFINE r == RestOf(b, n)
           e == NextOf(p, b)
           D == DOMAIN p.hdr
           yes == TRUE
           s == Split(p, b, n, yes)
           q == LinkNext(s, b)
<1>1. yes \in BOOLEAN
  OBVIOUS
<1>2. s = Split(p, b, n, TRUE)
  OBVIOUS
<1>3. yes = TRUE
  OBVIOUS
<1> HIDE DEF yes
<1>4. SplitIs(p, s, b, n, yes)
  BY <1>1, SplitDoes
<1> HIDE DEF s
<1>5. /\ Laid(s) /\ s.list = p.list /\ s.fl = p.fl /\ s.sl = p.sl
      /\ r \notin D /\ DOMAIN s.hdr = D \cup {r} /\ Inner(s) = Inner(p) \cup {r}
      /\ SizeOf(s, b) = n /\ NextOf(s, b) = r
      /\ SizeOf(s, r) = SizeOf(p, b) - n - 1 /\ NextOf(s, r) = e
      /\ s.hdr[r].free /\ s.hdr[r].prevFree = yes /\ s.hdr[e].prevFree /\ s.hdr[e].prev = r
      /\ \A x \in D :
           /\ s.hdr[x].free = p.hdr[x].free
           /\ x # b => SizeOf(s, x) = SizeOf(p, x) /\ NextOf(s, x) = NextOf(p, x)
           /\ x # e => s.hdr[x].prevFree = p.hdr[x].prevFree /\ s.hdr[x].prev = p.hdr[x].prev
  BY <1>4 DEF SplitIs
<1>6. b \in D /\ e \in D /\ b \in Inner(s)
  BY <1>5, BlockFacts
<1>7. /\ IsPool(q) /\ q.list = s.list /\ q.fl = s.fl /\ q.sl = s.sl
      /\ q.hdr \in [DOMAIN s.hdr -> Heads] /\ q.hdr[NextOf(s, b)].prev = b
      /\ \A x \in DOMAIN s.hdr :
           /\ SizeOf(q, x) = SizeOf(s, x) /\ q.hdr[x].free = s.hdr[x].free
           /\ q.hdr[x].prevFree = s.hdr[x].prevFree
           /\ x # NextOf(s, b) => q.hdr[x].prev = s.hdr[x].prev
  <2>1. Laid(s) /\ b \in Inner(s)
    BY <1>5, <1>6
  <2> QED
    BY <2>1, LinkNextDoes
<1> HIDE DEF q, r, e, D
<1>8. Laid(q) /\ DOMAIN q.hdr = D \cup {r} /\ Inner(q) = Inner(p) \cup {r}
  <2>1. Laid(q) /\ DOMAIN q.hdr = DOMAIN s.hdr /\ Inner(q) = Inner(s)
    <3>1. /\ Laid(s) /\ IsPool(q) /\ q.hdr \in [DOMAIN s.hdr -> Heads]
          /\ \A x \in DOMAIN s.hdr : SizeOf(q, x) = SizeOf(s, x)
      BY <1>5, <1>7
    <3> QED
      BY <3>1, LaidKept
  <2> QED
    BY <1>5, <2>1
<1>9. \A x \in D \cup {r} : SizeOf(q, x) = SizeOf(s, x) /\ NextOf(q, x) = NextOf(s, x)
  BY <1>5, <1>7 DEF NextOf
<1>10. /\ SizeOf(q, b) = n /\ NextOf(q, b) = r
       /\ SizeOf(q, r) = SizeOf(p, b) - n - 1 /\ NextOf(q, r) = e
  BY <1>5, <1>6, <1>9
<1>11. q.hdr[r].free /\ q.hdr[r].prevFree = yes /\ q.hdr[e].prevFree /\ q.hdr[e].prev = r
       /\ q.hdr[r].prev = b
  BY <1>5, <1>6, <1>7
<1>12. \A x \in D :
           /\ q.hdr[x].free = p.hdr[x].free
           /\ x # b => SizeOf(q, x) = SizeOf(p, x) /\ NextOf(q, x) = NextOf(p, x)
           /\ x # e => q.hdr[x].prevFree = p.hdr[x].prevFree /\ q.hdr[x].prev = p.hdr[x].prev
  <2>1. ASSUME NEW x \in D
        PROVE  /\ q.hdr[x].free = p.hdr[x].free
               /\ x # b => SizeOf(q, x) = SizeOf(p, x) /\ NextOf(q, x) = NextOf(p, x)
    BY <1>5, <1>7, <1>9
  <2>2. ASSUME NEW x \in D, x # e
        PROVE  q.hdr[x].prevFree = p.hdr[x].prevFree /\ q.hdr[x].prev = p.hdr[x].prev
    BY <1>5, <1>7, <2>2
  <2> QED
    BY <2>1, <2>2
<1>13. SplitIs(p, q, b, n, yes)
  BY <1>5, <1>7, <1>8, <1>10, <1>11, <1>12 DEF SplitIs, r, e, D
<1> QED
  BY <1>2, <1>3, <1>11, <1>13 DEF q, r

(* block_trim_free, block_trim_used and block_trim_free_leading. *)
LEMMA TrimFreeDoes ==
    ASSUME NEW p, NEW b, Part(p, b), p.hdr[b].free, ~Bordered(p, b),
           NEW n \in Nat, n >= 3, SizeOf(p, b) >= n
    PROVE  LET q == TrimFree(p, b, n) IN
           Part(q, b) /\ SameUse(p, q, b) /\ SizeOf(q, b) >= n
<1> DEFINE q == TrimFree(p, b, n)
<1>1. Laid(p) /\ Edges(p) /\ ListsHold(p, FreeOf(p) \ {b}) /\ b \in Inner(p)
  BY DEF Part
<1>2. CASE ~CanSplit(p, b, n)
  <2>1. q = p
    BY <1>2 DEF TrimFree
  <2> QED
    BY <2>1 DEF SameUse
<1>3. CASE CanSplit(p, b, n)
  <2> DEFINE l == LinkNext(Split(p, b, n, TRUE), b)
             r == RestOf(b, n)
             yes == TRUE
  <2>1. q = BlockInsert(l, r)
    BY <1>3 DEF TrimFree
  <2>2. yes \in BOOLEAN
    OBVIOUS
  <2>3. SplitIs(p, l, b, n, yes)
    BY <1>1, <1>3, SplitLinked
  <2> HIDE DEF yes, q, l
  <2>4. /\ Laid(l) /\ Edges(l) /\ SameUse(p, l, b) /\ r # b /\ r \in Nat
        /\ r \in Inner(l) /\ b \in Inner(l) /\ Inner(l) = Inner(p) \cup {r}
        /\ FreeOf(l) = FreeOf(p) \cup {r} /\ r \notin FreeOf(p)
        /\ \A x \in FreeOf(p) \ {b} : SizeOf(l, x) = SizeOf(p, x)
        /\ SizeOf(l, b) = n /\ NextOf(l, b) = r
        /\ Tagged(l, r) /\ (Bordered(l, r) <=> Bordered(p, b))
        /\ \A x \in Inner(p) \ {b} :
             /\ NextOf(l, x) = NextOf(p, x) /\ l.hdr[x].free = p.hdr[x].free
             /\ Tagged(p, x) => Tagged(l, x)
             /\ Bordered(l, x) <=> Bordered(p, x)
    BY <1>1, <1>3, <2>2, <2>3, SplitKeeps
  <2>5. ListsHold(l, FreeOf(p) \ {b})
    BY <1>1, <2>3, <2>4, ListsKept DEF SplitIs
  <2>6. IsPool(l) /\ ClassIn(l, r) \in Classes
    BY <2>4, BlockFacts DEF Laid
  <2> HIDE DEF r
  <2>7. /\ IsPool(q) /\ q.hdr = l.hdr /\ ListsHold(q, (FreeOf(p) \ {b}) \cup {r})
    <3>1. r \in Nat /\ r \notin FreeOf(p) \ {b}
      BY <2>4
    <3> QED
      BY <2>1, <2>5, <2>6, <3>1, ListsInsert
  <2>8. /\ Inner(q) = Inner(l) /\ FreeOf(q) = FreeOf(l) /\ SameUse(l, q, b) /\ Edges(q) /\ Laid(q)
        /\ \A x : SizeOf(q, x) = SizeOf(l, x) /\ NextOf(q, x) = NextOf(l, x)
                  /\ (Tagged(q, x) <=> Tagged(l, x)) /\ (Bordered(q, x) <=> Bordered(l, x))
    BY <2>4, <2>7, UseKept
  <2>9. FreeOf(q) \ {b} = (FreeOf(p) \ {b}) \cup {r}
    BY <2>4, <2>8
  <2>10. ASSUME NEW x \in Inner(q) \ {b}
         PROVE  Tagged(q, x) /\ (q.hdr[x].free /\ NextOf(q, x) # b => ~Bordered(q, x))
    <3>1. CASE x = r
      BY <2>4, <2>8, <3>1
    <3>2. CASE x \in Inner(p) \ {b}
      BY <2>4, <2>7, <2>8, <3>2 DEF Part
    <3> QED
      BY <2>4, <2>8, <3>1, <3>2
  <2>11. Part(q, b)
    BY <2>4, <2>7, <2>8, <2>9, <2>10 DEF Part
  <2>12. SameUse(p, q, b)
    BY <2>4, <2>8, UseChain
  <2>13. SizeOf(q, b) >= n
    BY <2>4, <2>8
  <2> QED
    BY <2>11, <2>12, <2>13 DEF q
<1> QED
  BY <1>2, <1>3

LEMMA LeadingDoes ==
    ASSUME NEW p, NEW b, Out(p, b), ~Bordered(p, b), ~p.hdr[b].prevFree,
           NEW gap \in Nat, gap >= 4, CanSplit(p, b, gap)
    PROVE  LET q == TrimFreeLeading(p, b, gap)
               r == Trailing(p, b, gap) IN
           /\ r = b + gap /\ Out(q, r) /\ ~Bordered(q, r) /\ SameUse(p, q, b) /\ r \notin InUse(p)
           /\ SizeOf(q, r) = SizeOf(p, b) - gap
<1> DEFINE n == gap - 1
           q == TrimFreeLeading(p, b, gap)
           r == RestOf(b, n)
           l == LinkNext(Split(p, b, n, TRUE), b)
           yes == TRUE
<1>1. Laid(p) /\ Edges(p) /\ ListsHold(p, FreeOf(p) \ {b}) /\ b \in Inner(p) /\ p.hdr[b].free
      /\ Tagged(p, b) /\ \A x \in Inner(p) : Tagged(p, x)
  BY DEF Out, Part
<1>2. n \in Nat /\ n >= 3 /\ CanSplit(p, b, n) /\ b \in Nat /\ SizeOf(p, b) \in Nat
      /\ ClassIn(p, b) \in Classes
  BY <1>1, BlockFacts DEF CanSplit, Header
<1>3. q = BlockInsert(l, b) /\ Trailing(p, b, gap) = r
  BY DEF TrimFreeLeading, Trailing, Overhead
<1>4. r = b + gap
  BY <1>2 DEF RestOf, Overhead
<1>5. yes \in BOOLEAN
  OBVIOUS
<1>5a. yes
  OBVIOUS
<1> HIDE DEF n
<1>6. SplitIs(p, l, b, n, yes) /\ l.hdr[r].prev = b
  BY <1>1, <1>2, SplitLinked
<1> HIDE DEF yes, q, l
<1>7. /\ Laid(l) /\ Edges(l) /\ SameUse(p, l, b) /\ r # b /\ r \in Nat
      /\ r \in Inner(l) /\ b \in Inner(l) /\ Inner(l) = Inner(p) \cup {r}
      /\ FreeOf(l) = FreeOf(p) \cup {r} /\ r \notin FreeOf(p)
      /\ \A x \in FreeOf(p) \ {b} : SizeOf(l, x) = SizeOf(p, x)
      /\ SizeOf(l, b) = n /\ NextOf(l, b) = r /\ NextOf(l, r) # b
      /\ SizeOf(l, r) = SizeOf(p, b) - n - 1
      /\ Tagged(l, r) /\ (Bordered(l, r) <=> Bordered(p, b))
      /\ l.hdr[b].free = p.hdr[b].free /\ l.hdr[b].prevFree = p.hdr[b].prevFree
      /\ l.hdr[r].free /\ l.hdr[r].prevFree = yes
      /\ \A x \in Inner(p) \ {b} :
           /\ NextOf(l, x) = NextOf(p, x) /\ NextOf(l, x) # r /\ l.hdr[x].free = p.hdr[x].free
           /\ Tagged(p, x) => Tagged(l, x)
           /\ Bordered(l, x) <=> Bordered(p, x)
  <2>1. Laid(p) /\ Edges(p) /\ b \in Inner(p) /\ SplitIs(p, l, b, n, yes)
        /\ n \in Nat /\ n >= 3 /\ CanSplit(p, b, n)
    BY <1>1, <1>2, <1>6
  <2> QED
    BY <1>5, <2>1, SplitKeeps
<1>8. ListsHold(l, FreeOf(p) \ {b})
  BY <1>1, <1>6, <1>7, ListsKept DEF SplitIs
<1>9. IsPool(l) /\ ClassIn(l, b) \in Classes
  BY <1>7, BlockFacts DEF Laid
<1> HIDE DEF r
<1>10. /\ IsPool(q) /\ q.hdr = l.hdr /\ ListsHold(q, (FreeOf(p) \ {b}) \cup {b})
  <2>1. b \in Nat /\ b \notin FreeOf(p) \ {b}
    BY <1>2
  <2> QED
    BY <1>3, <1>8, <1>9, <2>1, ListsInsert
<1>11. /\ Inner(q) = Inner(l) /\ FreeOf(q) = FreeOf(l) /\ SameUse(l, q, b) /\ Edges(q) /\ Laid(q)
       /\ \A x : SizeOf(q, x) = SizeOf(l, x) /\ NextOf(q, x) = NextOf(l, x)
                 /\ (Tagged(q, x) <=> Tagged(l, x)) /\ (Bordered(q, x) <=> Bordered(l, x))
  BY <1>7, <1>10, UseKept
<1>12. FreeOf(q) \ {r} = (FreeOf(p) \ {b}) \cup {b}
  BY <1>1, <1>7, <1>11 DEF FreeOf
<1>13. Tagged(l, b)
  BY <1>1, <1>5a, <1>6, <1>7 DEF Tagged
<1>14. ASSUME NEW x \in Inner(q) \ {r}
       PROVE  Tagged(q, x) /\ (q.hdr[x].free /\ NextOf(q, x) # r => ~Bordered(q, x))
  <2>1. CASE x = b
    BY <1>7, <1>11, <1>13, <2>1
  <2>2. CASE x # b
    <3>1. x \in Inner(p) \ {b} /\ Tagged(p, x) /\ (p.hdr[x].free /\ NextOf(p, x) # b => ~Bordered(p, x))
      BY <1>1, <1>7, <1>11, <2>2 DEF Out, Part
    <3>2. p.hdr[x].free => NextOf(p, x) # b
      BY <3>1 DEF Tagged
    <3> QED
      BY <1>7, <1>10, <1>11, <3>1, <3>2
  <2> QED
    BY <2>1, <2>2
<1>15. Out(q, r) /\ ~Bordered(q, r)
  BY <1>7, <1>10, <1>11, <1>12, <1>14 DEF Out, Part
<1>16. SameUse(p, q, b)
  BY <1>7, <1>11, UseChain
<1>17. SizeOf(q, r) = SizeOf(p, b) - gap
  BY <1>2, <1>7, <1>11 DEF n
<1>18. r \notin InUse(p)
  BY <1>6 DEF SplitIs, InUse, Inner, r
<1> QED
  BY <1>3, <1>4, <1>15, <1>16, <1>17, <1>18 DEF q

LEMMA TrimUsedDoes ==
    ASSUME NEW p, Intact(p), NEW b \in InUse(p), NEW n \in Nat, n >= 3, SizeOf(p, b) >= n
    PROVE  LET q == TrimUsed(p, b, n) IN
           Intact(q) /\ SameUse(p, q, b) /\ SizeOf(q, b) >= n
<1> DEFINE q == TrimUsed(p, b, n)
<1>1. Laid(p) /\ Edges(p) /\ ListsHold(p, FreeOf(p)) /\ b \in Inner(p) /\ ~p.hdr[b].free
      /\ \A x \in Inner(p) : Tagged(p, x) /\ (p.hdr[x].free => ~Bordered(p, x))
  BY DEF Intact, InUse
<1>2. CASE ~CanSplit(p, b, n)
  <2>1. q = p
    BY <1>2 DEF TrimUsed
  <2> QED
    BY <2>1 DEF SameUse
<1>3. CASE CanSplit(p, b, n)
  <2> DEFINE no == FALSE
             s == Split(p, b, n, no)
             r == RestOf(b, n)
             m == MergeNext(s, r)
  <2>1. q = BlockInsert(m, r)
    BY <1>3 DEF TrimUsed
  <2>2. no \in BOOLEAN /\ ~no
    OBVIOUS
  <2> HIDE DEF no, q
  <2>3. SplitIs(p, s, b, n, no)
    BY <1>1, <1>3, <2>2, SplitDoes
  <2> HIDE DEF s
  <2>4. /\ Laid(s) /\ Edges(s) /\ SameUse(p, s, b) /\ r # b /\ r \in Nat
        /\ r \in Inner(s) /\ b \in Inner(s) /\ Inner(s) = Inner(p) \cup {r}
        /\ FreeOf(s) = FreeOf(p) \cup {r} /\ r \notin FreeOf(p)
        /\ \A x \in FreeOf(p) \ {b} : SizeOf(s, x) = SizeOf(p, x)
        /\ SizeOf(s, b) = n /\ NextOf(s, b) = r
        /\ Tagged(s, r) /\ s.hdr[b].free = p.hdr[b].free
        /\ s.hdr[r].free /\ s.hdr[r].prevFree = no
        /\ \A x \in Inner(p) \ {b} :
             /\ NextOf(s, x) = NextOf(p, x) /\ s.hdr[x].free = p.hdr[x].free
             /\ Tagged(p, x) => Tagged(s, x)
             /\ Bordered(s, x) <=> Bordered(p, x)
    BY <1>1, <1>3, <2>2, <2>3, SplitKeeps
  <2>5. ListsHold(s, FreeOf(p))
    <3>1. FreeOf(p) \ {b} = FreeOf(p)
      BY <1>1 DEF FreeOf
    <3> QED
      BY <1>1, <2>3, <2>4, <3>1, ListsKept DEF SplitIs
  <2>6. Tagged(s, b)
    <3>1. s.hdr[b] \in Heads /\ s.hdr[r] \in Heads
      BY <2>4 DEF Laid, Inner
    <3> QED
      BY <1>1, <2>2, <2>4, <3>1, HeadFields DEF Tagged
  <2> HIDE DEF r, m
  <2>7. ASSUME NEW x \in Inner(s) \ {r}
        PROVE  Tagged(s, x) /\ (s.hdr[x].free => ~Bordered(s, x))
    <3>1. CASE x = b
      BY <1>1, <2>4, <2>6, <3>1
    <3>2. CASE x # b
      BY <1>1, <2>4, <3>2
    <3> QED
      BY <3>1, <3>2
  <2>8. Out(s, r)
    <3>1. FreeOf(s) \ {r} = FreeOf(p)
      BY <2>4
    <3> QED
      BY <2>4, <2>5, <2>7, <3>1 DEF Out, Part
  <2>9. /\ Out(m, r) /\ ~Bordered(m, r) /\ SameUse(s, m, r) /\ ~m.hdr[r].prevFree
    BY <2>2, <2>4, <2>8, MergeNextDoes DEF Out, m
  <2>10. q.hdr = m.hdr /\ SameUse(m, q, r) /\ Intact(q)
    BY <2>1, <2>9, InsertDoes
  <2>11. InUse(q) = InUse(p) /\ r \notin InUse(p) /\ b \in InUse(s)
    BY <1>1, <2>3, <2>4, <2>9, <2>10 DEF SameUse, SplitIs, InUse, Inner, r
  <2>12. \A x \in InUse(p) \ {b} : SizeOf(q, x) = SizeOf(p, x)
    <3>1. \A x \in InUse(p) \ {b} : SizeOf(s, x) = SizeOf(p, x)
      BY <2>4 DEF SameUse
    <3>2. \A x \in InUse(p) : SizeOf(m, x) = SizeOf(s, x) /\ SizeOf(q, x) = SizeOf(m, x)
      BY <2>4, <2>9, <2>10, <2>11 DEF SameUse
    <3> QED
      BY <3>1, <3>2
  <2>13. SizeOf(q, b) = n
    BY <2>4, <2>9, <2>10, <2>11 DEF SameUse
  <2> QED
    BY <2>10, <2>11, <2>12, <2>13 DEF SameUse, q
<1> QED
  BY <1>2, <1>3

-----------------------------------------------------------------------------
(* block_locate_free: a search in a intact pool gives a free block that is  *)
(* large enough, and fails only when no list has a block that surely is.   *)
LEMMA FirstOfList ==
    ASSUME NEW p, Intact(p), NEW c \in Classes, c[2] \in p.sl[c[1]]
    PROVE  Head(p.list[c]) \in FreeOf(p) /\ ClassIn(p, Head(p.list[c])) = c
<1>1. ListsHold(p, FreeOf(p))
  BY DEF Intact
<1>2. p.list[c] \in Seq(Nat) /\ p.list[c] # <<>>
  BY <1>1 DEF ListsHold
<1> DEFINE s == p.list[c]
<1>3. \A b \in Nat : b \in Range(s) <=> b \in FreeOf(p) /\ ClassIn(p, b) = c
  BY <1>1 DEF ListsHold
<1> HIDE DEF s
<1>4. Head(s) = s[1] /\ 1 \in DOMAIN s /\ s[1] \in Nat
  <2>1. s \in Seq(Nat) /\ Len(s) \in Nat /\ Len(s) # 0
    BY <1>2, EmptySeq DEF s
  <2> QED
    BY <2>1
<1>5. Head(s) \in Range(s)
  BY <1>4 DEF Range
<1> QED
  BY <1>3, <1>4, <1>5 DEF s

LEMMA LocateDoes ==
    ASSUME NEW p, Intact(p), NEW n \in Nat, n >= 1, n <= SizeMax - Pow2[FlCount - 2]
    PROVE  LET b == LocateFree(p, n) IN
           /\ b # None => b \in FreeOf(p) /\ SizeOf(p, b) >= n
           /\ b = None => \A x \in FreeOf(p) : ~Beyond(ClassIn(p, x), MappingSearch(n))
<1> DEFINE g == MappingSearch(n)
           b == LocateFree(p, n)
           here == {sl \in p.sl[g[1]] : sl >= g[2]}
           above == {fl \in p.fl : fl > g[1]}
<1>1. g \in Classes /\ \A s \in Nat : s < SizeMax /\ Beyond(MappingInsert(s), g) => s >= n
  BY SearchIsEnough
<1> HIDE DEF g
<1>2. Laid(p) /\ ListsHold(p, FreeOf(p))
  BY DEF Intact
<1>3. g[1] \in 0..FlCount - 1 /\ g[2] \in 0..SlCount - 1 /\ FlCount \in Nat /\ SlCount \in Nat
  BY <1>1, SizesAre DEF Classes
<1>4. p.sl \in [0..FlCount - 1 -> SUBSET (0..SlCount - 1)] /\ p.fl \subseteq 0..FlCount - 1
      /\ \A fl \in 0..FlCount - 1 : (fl \in p.fl) = (p.sl[fl] # {})
  BY <1>2 DEF ListsHold
<1>5. b = IF here # {} THEN Head(p.list[<<g[1], Min(here)>>])
          ELSE IF above = {} THEN None ELSE Head(p.list[<<Min(above), Min(p.sl[Min(above)])>>])
  BY DEF LocateFree, Suitable, g
<1> HIDE DEF b
<1>6. ASSUME NEW c \in Classes, c[2] \in p.sl[c[1]], Beyond(c, g), b = Head(p.list[c])
      PROVE  b \in FreeOf(p) /\ SizeOf(p, b) >= n /\ b # None
  <2>1. b \in FreeOf(p) /\ ClassIn(p, b) = c
    BY <1>6, FirstOfList
  <2>2. b \in Inner(p) /\ b \in Nat /\ SizeOf(p, b) \in Nat /\ SizeOf(p, b) < SizeMax
    BY <1>2, <2>1, BlockFacts DEF FreeOf
  <2> QED
    BY <1>1, <1>6, <2>1, <2>2 DEF ClassIn, None
<1>7. CASE here # {}
  <2>1. here \in SUBSET Nat
    BY <1>3, <1>4
  <2>2. Min(here) \in here
    BY <1>7, <2>1, MinOf
  <2> DEFINE c == <<g[1], Min(here)>>
  <2>3. c \in Classes /\ c[1] = g[1] /\ c[2] = Min(here)
    BY <1>3, <1>4, <2>2 DEF Classes
  <2>4. c[2] \in p.sl[c[1]] /\ Beyond(c, g) /\ b = Head(p.list[c])
    BY <1>5, <1>7, <2>2, <2>3 DEF Beyond
  <2> HIDE DEF c
  <2> QED
    BY <1>6, <2>3, <2>4 DEF b
<1>8. CASE here = {} /\ above # {}
  <2>1. above \in SUBSET Nat
    BY <1>3, <1>4
  <2>2. Min(above) \in above
    BY <1>8, <2>1, MinOf
  <2> DEFINE f == Min(above)
             k == Min(p.sl[f])
             c == <<f, k>>
  <2>3. f \in 0..FlCount - 1 /\ f > g[1] /\ f \in p.fl
    BY <1>4, <2>2
  <2> HIDE DEF f
  <2>4. p.sl[f] \in SUBSET Nat /\ p.sl[f] # {}
    BY <1>3, <1>4, <2>3
  <2>5. k \in p.sl[f]
    BY <2>4, MinOf
  <2>6. b = Head(p.list[c])
    BY <1>5, <1>8 DEF f
  <2> HIDE DEF k
  <2>7. c \in Classes /\ c[1] = f /\ c[2] = k
    BY <1>3, <1>4, <2>3, <2>5 DEF Classes
  <2> HIDE DEF c
  <2>8. Beyond(c, g)
    BY <2>3, <2>7 DEF Beyond
  <2> QED
    BY <1>6, <2>5, <2>6, <2>7, <2>8 DEF b
<1>9. CASE here = {} /\ above = {}
  <2>1. b = None
    BY <1>5, <1>9
  <2>2. ASSUME NEW x \in FreeOf(p), Beyond(ClassIn(p, x), g)
        PROVE  FALSE
    <3> DEFINE c == ClassIn(p, x)
    <3>1. c \in Classes /\ x \in Nat
      BY <1>2, BlockFacts DEF FreeOf
    <3>2. c[1] \in 0..FlCount - 1 /\ c[2] \in 0..SlCount - 1
      BY <3>1, <1>3 DEF Classes
    <3>3. x \in Range(p.list[c]) /\ p.list[c] \in Seq(Nat)
      BY <1>2, <3>1 DEF ListsHold
    <3>4. p.list[c] # <<>>
      BY <3>3, EmptyRange
    <3>5. c[2] \in p.sl[c[1]]
      BY <1>2, <3>1, <3>4 DEF ListsHold
    <3> HIDE DEF c
    <3>6. c[1] \in p.fl
      BY <1>4, <3>2, <3>5
    <3>7. c[1] > g[1] \/ (c[1] = g[1] /\ c[2] >= g[2])
      BY <2>2 DEF Beyond, c
    <3> QED
      BY <1>9, <3>5, <3>6, <3>7
  <2> QED
    BY <2>1, <2>2 DEF b, g
<1> QED
  BY <1>7, <1>8, <1>9

-----------------------------------------------------------------------------
(* What tlsf_malloc does once it has found a block, and tlsf_free.         *)
LEMMA PrepareDoes ==
    ASSUME NEW p, NEW b, Out(p, b), ~Bordered(p, b), NEW n \in Nat, n >= 3, SizeOf(p, b) >= n
    PROVE  LET q == PrepareUsed(p, b, n) IN
           /\ Intact(q) /\ InUse(q) = InUse(p) \cup {b} /\ SizeOf(q, b) >= n
           /\ \A x \in InUse(p) : SizeOf(q, x) = SizeOf(p, x)
<1> DEFINE t == TrimFree(p, b, n)
           q == MarkUsed(t, b)
<1>1. Part(p, b) /\ p.hdr[b].free /\ b \in Inner(p) /\ b \notin InUse(p)
  BY DEF Out, Part, InUse
<1>2. Part(t, b) /\ SameUse(p, t, b) /\ SizeOf(t, b) >= n
  BY <1>1, TrimFreeDoes
<1> HIDE DEF t
<1>3. /\ Intact(q) /\ InUse(q) = InUse(t) \cup {b}
      /\ \A x \in Inner(t) : SizeOf(q, x) = SizeOf(t, x)
  BY <1>2, UsedIsIntact
<1>4. InUse(t) = InUse(p) /\ InUse(t) \subseteq Inner(t) /\ b \in Inner(t)
  BY <1>2 DEF SameUse, InUse, Part
<1>5. \A x \in InUse(p) : SizeOf(q, x) = SizeOf(p, x)
  BY <1>1, <1>2, <1>3, <1>4 DEF SameUse
<1>6. SizeOf(q, b) >= n
  BY <1>2, <1>3, <1>4
<1> QED
  BY <1>3, <1>4, <1>5, <1>6 DEF PrepareUsed, t

LEMMA TakenDoes ==
    ASSUME NEW p, Intact(p), NEW b \in FreeOf(p), NEW n \in Nat, n >= 3, SizeOf(p, b) >= n
    PROVE  LET q == Taken(p, b, n) IN
           /\ Intact(q) /\ InUse(q) = InUse(p) \cup {b} /\ b \notin InUse(p) /\ SizeOf(q, b) >= n
           /\ \A x \in InUse(p) : SizeOf(q, x) = SizeOf(p, x)
<1> DEFINE r == BlockRemove(p, b)
           q == PrepareUsed(r, b, n)
<1>1. r.hdr = p.hdr /\ Out(r, b) /\ ~Bordered(r, b)
  BY RemoveDoes
<1>2. Taken(p, b, n) = q
  BY DEF Taken, BlockRemove
<1> HIDE DEF r
<1>3. \A x : SizeOf(r, x) = SizeOf(p, x)
  BY <1>1 DEF SizeOf
<1>4. InUse(r) = InUse(p)
  BY <1>1 DEF InUse, Inner
<1>5. /\ Intact(q) /\ InUse(q) = InUse(r) \cup {b} /\ SizeOf(q, b) >= n
      /\ \A x \in InUse(r) : SizeOf(q, x) = SizeOf(r, x)
  BY <1>1, <1>3, PrepareDoes
<1> HIDE DEF q
<1>6. b \notin InUse(p)
  BY DEF FreeOf, InUse
<1> QED
  BY <1>2, <1>3, <1>4, <1>5, <1>6

LEMMA FreedDoes ==
    ASSUME NEW p, Intact(p), NEW ptr, FromPtr(ptr) \in InUse(p)
    PROVE  LET q == Freed(p, ptr) IN
           /\ Intact(q) /\ InUse(q) = InUse(p) \ {FromPtr(ptr)}
           /\ \A x \in InUse(p) \ {FromPtr(ptr)} : SizeOf(q, x) = SizeOf(p, x)
<1> DEFINE a == FromPtr(ptr)
           f == MarkFree(p, a)
           b == Merged(f, a)
           m == MergePrev(f, a)
           k == MergeNext(m, b)
           q == BlockInsert(k, b)
<1>1. Freed(p, ptr) = q
  BY DEF Freed
<1> HIDE DEF q, a
<1>2. /\ Out(f, a) /\ InUse(f) = InUse(p) \ {a}
      /\ \A x \in Inner(p) : SizeOf(f, x) = SizeOf(p, x)
  BY FreeIsOut DEF a
<1> HIDE DEF f
<1>3. Out(m, b) /\ ~m.hdr[b].prevFree /\ SameUse(f, m, a)
  BY <1>2, MergePrevDoes
<1> HIDE DEF m, b
<1>4. Out(k, b) /\ ~Bordered(k, b) /\ ~k.hdr[b].prevFree /\ SameUse(m, k, b)
  BY <1>3, MergeNextDoes DEF Out
<1> HIDE DEF k
<1>5. Intact(q) /\ SameUse(k, q, b)
  BY <1>4, InsertDoes DEF q
<1>6. a \notin InUse(f) /\ b \notin InUse(m)
  BY <1>2, <1>3 DEF Out, InUse
<1>7. InUse(q) = InUse(p) \ {a}
  BY <1>2, <1>3, <1>4, <1>5 DEF SameUse
<1>8. ASSUME NEW x \in InUse(p) \ {a} PROVE SizeOf(q, x) = SizeOf(p, x)
  <2>1. x \in InUse(f) /\ x \in InUse(m) /\ x \in InUse(k) /\ x # a /\ x # b
    BY <1>2, <1>3, <1>4, <1>6 DEF SameUse
  <2>2. SizeOf(q, x) = SizeOf(k, x) /\ SizeOf(k, x) = SizeOf(m, x) /\ SizeOf(m, x) = SizeOf(f, x)
    BY <1>3, <1>4, <1>5, <2>1 DEF SameUse
  <2> QED
    BY <1>2, <2>2 DEF InUse
<1> QED
  BY <1>1, <1>5, <1>7, <1>8 DEF a

-----------------------------------------------------------------------------
(* Boundaries.  The gap tlsf_memalign leaves ends at one of them, is large *)
(* enough for a block of its own and leaves room for what is asked for.    *)
LEMMA SameBoundary ==
    ASSUME NEW a \in Nat, a >= 1, NEW x \in Nat, NEW y \in Nat, x % a = 0, y % a = 0,
           x <= y, y < x + a
    PROVE  x = y
<1> DEFINE d == x \div a
           e == y \div a
<1>1. d \in Nat /\ e \in Nat /\ x = a * d /\ y = a * e
  <2>1. d \in Nat /\ x % a \in 0..(a - 1) /\ x = a * d + (x % a)
    BY Divides
  <2>2. e \in Nat /\ y % a \in 0..(a - 1) /\ y = a * e + (y % a)
    BY Divides
  <2> HIDE DEF d, e
  <2>3. a * d \in Nat /\ a * e \in Nat
    BY <2>1, <2>2
  <2> QED
    BY <2>1, <2>2, <2>3
<1> HIDE DEF d, e
<1>2. ~(d < e)
  <2> SUFFICES ASSUME d < e PROVE FALSE
    OBVIOUS
  <2>1. a * d + a <= a * e
    BY <1>1, Multiples
  <2> QED
    BY <1>1, <2>1
<1>3. ~(e < d)
  <2> SUFFICES ASSUME e < d PROVE FALSE
    OBVIOUS
  <2>1. a * e + a <= a * d
    BY <1>1, Multiples
  <2> QED
    BY <1>1, <2>1
<1> QED
  BY <1>1, <1>2, <1>3

LEMMA BoundaryStays ==
    ASSUME NEW a \in Nat, a >= 1, NEW x \in Nat, x % a = 0
    PROVE  AlignUp(x, a) = x /\ (x + a) % a = 0
<1>1. AlignUp(x, a) = x
  BY AlignUpAligns, SameBoundary
<1> DEFINE y == AlignUp(x + 1, a)
<1>2. y \in Nat /\ x + 1 <= y /\ y < x + 1 + a /\ y % a = 0
  BY AlignUpAligns
<1> HIDE DEF y
<1>3. SUFFICES ASSUME y # x + a PROVE FALSE
  BY <1>1, <1>2
<1>4. x <= y /\ y < x + a /\ x # y
  BY <1>2, <1>3
<1> QED
  BY <1>2, <1>4, SameBoundary

LEMMA GapFits ==
    ASSUME NEW ptr \in Nat, NEW a \in Nat, a >= 2
    PROVE  LET gap == Gap(ptr, a) IN
           /\ gap \in Nat /\ gap <= a + 3 /\ (gap = 0 \/ gap >= 4) /\ (ptr + gap) % a = 0
<1> DEFINE g == AlignUp(ptr, a) - ptr
           room == Max({Header - g, a})
           x == ptr + g + room
           h == AlignUp(x, a) - ptr
<1>1. g \in Nat /\ g < a /\ AlignUp(ptr, a) = ptr + g /\ (ptr + g) % a = 0
  <2> DEFINE u == AlignUp(ptr, a)
  <2>1. u \in Nat /\ ptr <= u /\ u < ptr + a /\ u % a = 0
    BY AlignUpAligns
  <2> HIDE DEF u
  <2>2. u - ptr \in Nat /\ u - ptr < a /\ u = ptr + (u - ptr)
    BY <2>1
  <2> QED
    BY <2>1, <2>2 DEF u
<1>2. Gap(ptr, a) = IF g = 0 \/ g >= 4 THEN g ELSE h
  BY DEF Gap, Header
<1> HIDE DEF g
<1>3. CASE g = 0 \/ g >= 4
  BY <1>1, <1>2, <1>3
<1>4. CASE g # 0 /\ g < 4
  <2>1. room = IF Header - g >= a THEN Header - g ELSE a
    BY <1>1, MaxOfTwo DEF Header
  <2> HIDE DEF room
  <2>2. x \in Nat
    BY <1>1, <2>1 DEF Header
  <2>3. AlignUp(x, a) \in Nat /\ x <= AlignUp(x, a) /\ AlignUp(x, a) < x + a
        /\ AlignUp(x, a) % a = 0
    BY <2>2, AlignUpAligns
  <2>4. CASE 4 - g >= a
    <3>1. x = ptr + 4
      BY <1>1, <2>1, <2>4 DEF Header
    <3> HIDE DEF x
    <3>2. h \in Nat /\ h <= a + 3 /\ h >= 4 /\ ptr + h = AlignUp(x, a)
      BY <2>3, <3>1
    <3> HIDE DEF h
    <3>3. Gap(ptr, a) = h /\ (ptr + h) % a = 0
      BY <1>1, <1>2, <1>4, <2>3, <3>2
    <3> QED
      BY <3>2, <3>3
  <2>5. CASE 4 - g < a
    <3>1. x = (ptr + g) + a /\ ptr + g \in Nat
      BY <1>1, <2>1, <2>5 DEF Header
    <3> HIDE DEF x
    <3>2. x % a = 0
      BY <1>1, <3>1, BoundaryStays
    <3>3. AlignUp(x, a) = x
      BY <2>2, <3>2, BoundaryStays DEF x
    <3>4. h \in Nat /\ h <= a + 3 /\ h >= 4 /\ ptr + h = x
      BY <1>1, <1>4, <2>5, <3>1, <3>3
    <3> HIDE DEF h
    <3>5. Gap(ptr, a) = h /\ (ptr + h) % a = 0
      BY <1>1, <1>2, <1>4, <3>2, <3>4
    <3> QED
      BY <3>4, <3>5
  <2> QED
    BY <1>1, <2>4, <2>5
<1> QED
  BY <1>1, <1>3, <1>4

-----------------------------------------------------------------------------
(* What the callers hold.  U is the set of blocks it stands in.            *)
HeldIn(p, h, U) ==
    /\ DOMAIN h \subseteq Nat /\ {FromPtr(ptr) : ptr \in DOMAIN h} = U
    /\ \A ptr \in DOMAIN h : SizeOf(p, FromPtr(ptr)) >= h[ptr].size /\ ptr % h[ptr].align = 0

LEMMA HeldKept ==
    ASSUME NEW p, NEW q, NEW h, NEW U, HeldIn(p, h, U), \A x \in U : SizeOf(q, x) = SizeOf(p, x)
    PROVE  HeldIn(q, h, U)
BY DEF HeldIn

LEMMA HeldLess ==
    ASSUME NEW p, NEW h, NEW U, HeldIn(p, h, U), NEW ptr \in DOMAIN h
    PROVE  HeldIn(p, Restrict(h, DOMAIN h \ {ptr}), U \ {FromPtr(ptr)})
<1> DEFINE k == Restrict(h, DOMAIN h \ {ptr})
<1>1. DOMAIN k = DOMAIN h \ {ptr} /\ \A x \in DOMAIN k : k[x] = h[x]
  BY DEF Restrict
<1> HIDE DEF k
<1>2. \A x \in DOMAIN h : FromPtr(x) = FromPtr(ptr) => x = ptr
  BY DEF HeldIn, FromPtr, StartOffset
<1>3. {FromPtr(x) : x \in DOMAIN k} = U \ {FromPtr(ptr)}
  BY <1>1, <1>2 DEF HeldIn
<1> QED
  BY <1>1, <1>3 DEF HeldIn, k

LEMMA HeldMore ==
    ASSUME NEW p, NEW h, NEW U, HeldIn(p, h, U), NEW b \in Nat, NEW n, NEW a,
           SizeOf(p, b) >= n, ToPtr(b) % a = 0
    PROVE  HeldIn(p, PutAt(h, ToPtr(b), [size |-> n, align |-> a]), U \cup {b})
<1> DEFINE r == [size |-> n, align |-> a]
           ptr == ToPtr(b)
           k == PutAt(h, ptr, r)
<1>1. r.size = n /\ r.align = a
  OBVIOUS
<1> HIDE DEF r
<1>2. ptr \in Nat /\ FromPtr(ptr) = b
  BY DEF ToPtr, FromPtr, StartOffset
<1>3. DOMAIN k = DOMAIN h \cup {ptr} /\ k[ptr] = r /\ \A x \in DOMAIN h \ {ptr} : k[x] = h[x]
  BY DEF PutAt
<1>4. ptr % a = 0
  OBVIOUS
<1> HIDE DEF k, ptr
<1>5. {FromPtr(x) : x \in DOMAIN k} = U \cup {b}
  BY <1>2, <1>3 DEF HeldIn
<1>6. ASSUME NEW x \in DOMAIN k
      PROVE  SizeOf(p, FromPtr(x)) >= k[x].size /\ x % k[x].align = 0
  <2>1. CASE x = ptr
    BY <1>1, <1>2, <1>3, <1>4, <2>1
  <2>2. CASE x # ptr
    <3>1. x \in DOMAIN h \ {ptr} /\ k[x] = h[x]
      BY <1>3, <2>2
    <3>2. SizeOf(p, FromPtr(x)) >= h[x].size /\ x % h[x].align = 0
      BY <3>1 DEF HeldIn
    <3> QED
      BY <3>1, <3>2
  <2> QED
    BY <2>1, <2>2
<1>7. DOMAIN k \subseteq Nat
  BY <1>2, <1>3 DEF HeldIn
<1> QED
  BY <1>5, <1>6, <1>7 DEF HeldIn, k, ptr, r

-----------------------------------------------------------------------------
(* The pool as tlsf_create leaves it.                                      *)
LEMMA CreatedIsIntact == Intact(Created) /\ InUse(Created) = {}
<1> DEFINE last == Base + Overhead + Total
           yes == TRUE
           no == FALSE
           whole == [size |-> Total, free |-> yes, prevFree |-> no, prev |-> Data]
           end == [size |-> 0, free |-> no, prevFree |-> yes, prev |-> Data]
           hdr == [b \in {Base, last} |-> IF b = Base THEN whole ELSE end]
           lists == [c \in (0..FlCount - 1) \X (0..SlCount - 1) |-> <<>>]
           sls == [fl \in 0..FlCount - 1 |-> {}]
           e == [hdr |-> hdr, list |-> lists, fl |-> {}, sl |-> sls]
           f == BlockInsert(e, Base)
           q == LinkNext(f, Base)
<1>1. Created = q
  BY DEF Created
<1>2. last = Sentinel /\ last \in Nat /\ Base \in Nat /\ Total \in Nat /\ Total >= 3 /\ last # Base
      /\ last > Base /\ Total < SizeMax /\ SizeMax \in Nat /\ last = Base + 1 + Total
  BY HeapAssumption, Bounds DEF Sentinel, SizeMin, Overhead
<1>3. yes \in BOOLEAN /\ no \in BOOLEAN
  OBVIOUS
<1>3a. yes /\ ~no
  OBVIOUS
<1> HIDE DEF q, f, yes, no
<1>4. /\ whole \in Heads /\ whole.size = Total /\ whole.free = yes /\ whole.prevFree = no
      /\ end \in Heads /\ end.size = 0 /\ end.free = no /\ end.prevFree = yes
  BY <1>2, <1>3 DEF Heads, Data
<1> HIDE DEF whole, end
<1>5. IsPool(e) /\ e.hdr = hdr /\ e.list = lists /\ e.fl = {} /\ e.sl = sls
  BY DEF IsPool
<1> HIDE DEF e, lists, sls, last
<1>6. /\ DOMAIN hdr = {Base, last} /\ hdr \in [{Base, last} -> Heads]
      /\ hdr[Base] = whole /\ hdr[last] = end
  BY <1>2, <1>4
<1> HIDE DEF hdr
<1>7. Inner(e) = {Base} /\ SizeOf(e, Base) = Total /\ SizeOf(e, last) = 0 /\ NextOf(e, Base) = last
  BY <1>2, <1>4, <1>5, <1>6 DEF Inner, SizeOf, NextOf, Overhead
<1>8. Laid(e)
  <2>1. DOMAIN e.hdr = {Base, last} /\ {Base, last} \subseteq Base..Sentinel
    BY <1>2, <1>5, <1>6
  <2>2. \A b \in Inner(e) : SizeOf(e, b) >= SizeMin /\ NextOf(e, b) \in DOMAIN e.hdr
    BY <1>2, <1>7, <2>1 DEF SizeMin
  <2>3. \A b \in Inner(e), c \in DOMAIN e.hdr : c > b => c >= NextOf(e, b)
    BY <1>2, <1>7, <2>1
  <2>4. \A c \in DOMAIN e.hdr \ {Base} : \E b \in Inner(e) : NextOf(e, b) = c
    BY <1>2, <1>7, <2>1
  <2> QED
    BY <1>2, <1>5, <1>6, <1>7, <2>1, <2>2, <2>3, <2>4 DEF Laid
<1>9. ListsHold(e, {})
  <2>1. /\ lists \in [Classes -> Seq(Nat)] /\ \A c \in Classes : lists[c] = <<>>
    BY DEF lists, Classes
  <2>2. /\ sls \in [0..FlCount - 1 -> SUBSET (0..SlCount - 1)]
        /\ \A fl \in 0..FlCount - 1 : sls[fl] = {}
    BY DEF sls
  <2>3. \A c \in Classes : c[1] \in 0..FlCount - 1
    BY DEF Classes
  <2>4. Once(<<>>) /\ Range(<<>>) = {}
    BY DEF Once, Range
  <2>5. ASSUME NEW c \in Classes
        PROVE  /\ Once(e.list[c])
               /\ \A b \in Nat : b \in Range(e.list[c]) <=> b \in {} /\ ClassIn(e, b) = c
               /\ (c[2] \in e.sl[c[1]]) = (e.list[c] # <<>>)
    BY <1>5, <2>1, <2>2, <2>3, <2>4
  <2>6. \A fl \in 0..FlCount - 1 : (fl \in e.fl) = (e.sl[fl] # {})
    BY <1>5, <2>2
  <2> QED
    BY <1>5, <2>1, <2>2, <2>5, <2>6 DEF ListsHold
<1>10. ClassIn(e, Base) \in Classes
  BY <1>2, <1>7, ClassOfSize DEF ClassIn
<1>11. IsPool(f) /\ f.hdr = hdr /\ ListsHold(f, {Base})
  <2>1. IsPool(f) /\ f.hdr = e.hdr /\ ListsHold(f, {} \cup {Base})
    BY <1>2, <1>5, <1>9, <1>10, ListsInsert DEF f
  <2>2. {} \cup {Base} = {Base}
    OBVIOUS
  <2> QED
    BY <1>5, <2>1, <2>2
<1>12. /\ Inner(f) = {Base} /\ Laid(f) /\ NextOf(f, Base) = last
       /\ \A x : SizeOf(f, x) = SizeOf(e, x)
  <2>1. f.hdr = e.hdr
    BY <1>5, <1>11
  <2> QED
    BY <1>7, <1>8, <1>11, <2>1, UseKept
<1>13. /\ IsPool(q) /\ q.list = f.list /\ q.fl = f.fl /\ q.sl = f.sl
       /\ q.hdr \in [DOMAIN f.hdr -> Heads] /\ q.hdr[NextOf(f, Base)].prev = Base
       /\ \A x \in DOMAIN f.hdr :
            /\ SizeOf(q, x) = SizeOf(f, x) /\ q.hdr[x].free = f.hdr[x].free
            /\ q.hdr[x].prevFree = f.hdr[x].prevFree
  <2>1. Laid(f) /\ Base \in Inner(f)
    BY <1>12
  <2> QED
    BY <2>1, LinkNextDoes DEF q
<1>14. /\ Laid(q) /\ DOMAIN q.hdr = DOMAIN f.hdr /\ Inner(q) = Inner(f)
       /\ \A b \in Inner(f) : NextOf(q, b) = NextOf(f, b)
  BY <1>12, <1>13, LaidKept
<1>15. /\ Inner(q) = {Base} /\ NextOf(q, Base) = last /\ q.hdr[Base].free /\ ~q.hdr[Base].prevFree
       /\ ~q.hdr[last].free /\ q.hdr[last].prevFree /\ q.hdr[last].prev = Base
  BY <1>3a, <1>4, <1>6, <1>11, <1>12, <1>13, <1>14
<1>16. FreeOf(q) = {Base} /\ InUse(q) = {}
  BY <1>15 DEF FreeOf, InUse
<1>17. ListsHold(q, FreeOf(q))
  <2>1. \A b \in {Base} : SizeOf(q, b) = SizeOf(f, b)
    BY <1>6, <1>11, <1>13
  <2>2. ListsHold(q, {Base})
    BY <1>11, <1>13, <2>1, ListsKept
  <2> QED
    BY <1>16, <2>2
<1>18. Tagged(q, Base) /\ ~Bordered(q, Base)
  <2>1. q.hdr[Base] \in Heads /\ q.hdr[last] \in Heads
    BY <1>6, <1>11, <1>13
  <2> QED
    BY <1>15, <2>1, HeadFields DEF Tagged, Bordered
<1>19. Edges(q)
  BY <1>2, <1>15 DEF Edges
<1> QED
  BY <1>1, <1>14, <1>15, <1>16, <1>17, <1>18, <1>19 DEF Intact

-----------------------------------------------------------------------------
(* The invariant.  A thread that is between the two steps of tlsf_new has  *)
(* found what a search would still find.                                   *)
Waits(t) == pending[t] # Idle
PendingHolds ==
    /\ DOMAIN pending = Allocators /\ pending = [t \in Allocators |-> pending[t]]
    /\ \A t \in Allocators : Waits(t) =>
         LET b == LocateFree(pool, AdjustRequest(pending[t].size, 1)) IN
         pending[t].size \in Requests /\ pending[t].found = b /\ b # None
HeapInv == Intact(pool) /\ HeldIn(pool, held, InUse(pool)) /\ PendingHolds

(* Nobody uses the pool while another one is between the two steps of      *)
(* tlsf_new: so it is with one thread, and with no other number of them.   *)
Undisturbed == \A t \in Allocators : Waits(t) => pending'[t] = Idle

LEMMA Asked ==
    ASSUME NEW n \in Requests, AdjustRequest(n, 1) # 0
    PROVE  LET m == AdjustRequest(n, 1) IN
           m \in Nat /\ m >= 3 /\ m >= n /\ m <= SizeMax - Pow2[FlCount - 2] /\ n \in Nat
<1>1. n \in Nat /\ AdjustRequest(n, 1) \in Searched
  BY HeapAssumption
<1>2. AdjustRequest(n, 1) \in Nat /\ AdjustRequest(n, 1) >= SizeMin /\ AdjustRequest(n, 1) >= n
  BY <1>1, Adjusts
<1> QED
  BY <1>1, <1>2 DEF Searched, SizeMin

LEMMA FoundFits ==
    ASSUME NEW p, Intact(p), NEW n \in Requests, LocateFree(p, AdjustRequest(n, 1)) # None
    PROVE  LET m == AdjustRequest(n, 1)
               b == LocateFree(p, m) IN
           m \in Nat /\ m >= 3 /\ m >= n /\ b \in FreeOf(p) /\ SizeOf(p, b) >= m /\ b \in Nat
           /\ SizeOf(p, b) \in Nat
<1> DEFINE m == AdjustRequest(n, 1)
<1>1. m # 0
  BY DEF LocateFree
<1>2. m \in Nat /\ m >= 3 /\ m >= n /\ m <= SizeMax - Pow2[FlCount - 2]
  BY <1>1, Asked
<1> HIDE DEF m
<1>3. LocateFree(p, m) \in FreeOf(p) /\ SizeOf(p, LocateFree(p, m)) >= m
  BY <1>2, LocateDoes DEF m
<1>4. LocateFree(p, m) \in Nat /\ SizeOf(p, LocateFree(p, m)) \in Nat
  BY <1>3, BlockFacts DEF Intact, FreeOf
<1> QED
  BY <1>2, <1>3, <1>4 DEF m

LEMMA AnyBoundary == \A x \in Nat : x % 1 = 0
OBVIOUS

LEMMA HeapInvInit == HeapInit => HeapInv
<1> SUFFICES ASSUME HeapInit PROVE HeapInv
  OBVIOUS
<1>1. Intact(pool) /\ InUse(pool) = {}
  BY CreatedIsIntact DEF HeapInit
<1>2. DOMAIN held = {}
  BY DEF HeapInit
<1>3. HeldIn(pool, held, {})
  BY <1>2 DEF HeldIn
<1>4. PendingHolds
  BY DEF HeapInit, PendingHolds, Waits
<1> QED
  BY <1>1, <1>3, <1>4 DEF HeapInv

LEMMA FindsKeeps ==
    ASSUME HeapInv, NEW t \in Allocators, NEW n \in Requests, NewFinds(t, n)
    PROVE  HeapInv'
<1> DEFINE b == LocateFree(pool, AdjustRequest(n, 1))
           r == [found |-> b, size |-> n]
<1>1. b # None /\ pending' = [pending EXCEPT ![t] = r] /\ pool' = pool /\ held' = held
  BY DEF NewFinds
<1>2. r.found = b /\ r.size = n
  OBVIOUS
<1>3. b = LocateFree(pool, AdjustRequest(r.size, 1))
  BY <1>2
<1> HIDE DEF r, b
<1>4. DOMAIN pending = Allocators /\ pending = [s \in Allocators |-> pending[s]]
  BY DEF HeapInv, PendingHolds
<1>5. /\ DOMAIN pending' = Allocators /\ pending' = [s \in Allocators |-> pending'[s]]
      /\ pending'[t] = r /\ \A s \in Allocators \ {t} : pending'[s] = pending[s]
  BY <1>1, <1>4
<1>6. ASSUME NEW s \in Allocators, pending'[s] # Idle
      PROVE  /\ pending'[s].size \in Requests
             /\ pending'[s].found = LocateFree(pool, AdjustRequest(pending'[s].size, 1))
             /\ LocateFree(pool, AdjustRequest(pending'[s].size, 1)) # None
  <2>1. CASE s = t
    BY <1>1, <1>2, <1>3, <1>5, <2>1
  <2>2. CASE s # t
    BY <1>5, <1>6, <2>2 DEF HeapInv, PendingHolds, Waits
  <2> QED
    BY <2>1, <2>2
<1>7. PendingHolds'
  BY <1>1, <1>5, <1>6 DEF PendingHolds, Waits
<1> QED
  BY <1>1, <1>7 DEF HeapInv

(* Whoever was between the two steps is through, whatever has been done.   *)
LEMMA NobodyWaits ==
    ASSUME HeapInv, Undisturbed, UNCHANGED pending
    PROVE  PendingHolds'
BY DEF HeapInv, PendingHolds, Undisturbed, Waits

LEMMA TakesKeeps ==
    ASSUME HeapInv, Undisturbed, NEW t \in Allocators, NewTakes(t)
    PROVE  HeapInv'
<1> DEFINE n == pending[t].size
           b == pending[t].found
           m == AdjustRequest(n, 1)
           one == 1
<1>1. /\ Waits(t) /\ pool' = Taken(pool, b, m) /\ pending' = [pending EXCEPT ![t] = Idle]
      /\ held' = PutAt(held, ToPtr(b), [size |-> n, align |-> one])
  BY DEF NewTakes, Hold, Waits
<1>2. n \in Requests /\ b = LocateFree(pool, m) /\ LocateFree(pool, m) # None
  BY <1>1 DEF HeapInv, PendingHolds
<1>3. Intact(pool) /\ HeldIn(pool, held, InUse(pool))
  BY DEF HeapInv
<1> HIDE DEF n
<1>4. m \in Nat /\ m >= 3 /\ m >= n /\ b \in FreeOf(pool) /\ SizeOf(pool, b) >= m /\ b \in Nat /\ n \in Nat
  BY <1>2, <1>3, FoundFits, HeapAssumption
<1>5. one = 1
  OBVIOUS
<1> HIDE DEF b, m, one
<1>6. /\ Intact(pool') /\ InUse(pool') = InUse(pool) \cup {b} /\ SizeOf(pool', b) >= m
      /\ \A x \in InUse(pool) : SizeOf(pool', x) = SizeOf(pool, x)
  BY <1>1, <1>3, <1>4, TakenDoes
<1>7. SizeOf(pool', b) >= n
  <2>1. b \in Inner(pool') /\ Laid(pool')
    BY <1>6 DEF InUse, Intact
  <2>2. SizeOf(pool', b) \in Nat
    BY <2>1, BlockFacts
  <2> QED
    BY <1>4, <1>6, <2>2
<1>8. ToPtr(b) % one = 0
  BY <1>4, <1>5, AnyBoundary DEF ToPtr, StartOffset
<1>9. HeldIn(pool', held, InUse(pool))
  BY <1>3, <1>6, HeldKept
<1>10. HeldIn(pool', held', InUse(pool'))
  BY <1>1, <1>4, <1>6, <1>7, <1>8, <1>9, HeldMore
<1>11. PendingHolds'
  <2>1. DOMAIN pending = Allocators /\ pending = [s \in Allocators |-> pending[s]]
    BY DEF HeapInv, PendingHolds
  <2>2. DOMAIN pending' = Allocators /\ pending' = [s \in Allocators |-> pending'[s]]
        /\ \A s \in Allocators : pending'[s] = IF s = t THEN Idle ELSE pending[s]
    BY <1>1, <2>1
  <2>3. \A s \in Allocators : pending'[s] = Idle
    BY <2>2 DEF Undisturbed, Waits
  <2> QED
    BY <2>2, <2>3 DEF PendingHolds, Waits
<1> QED
  BY <1>6, <1>10, <1>11 DEF HeapInv

LEMMA DeleteKeeps ==
    ASSUME HeapInv, Undisturbed, NEW t \in Allocators, NEW ptr \in DOMAIN held, Delete(t, ptr)
    PROVE  HeapInv'
<1> DEFINE b == FromPtr(ptr)
           k == Restrict(held, DOMAIN held \ {ptr})
<1>1. pool' = Freed(pool, ptr) /\ held' = k /\ UNCHANGED pending
  BY DEF Delete
<1>2. Intact(pool) /\ HeldIn(pool, held, InUse(pool)) /\ b \in InUse(pool)
  BY DEF HeapInv, HeldIn
<1>3. /\ Intact(pool') /\ InUse(pool') = InUse(pool) \ {b}
      /\ \A x \in InUse(pool) \ {b} : SizeOf(pool', x) = SizeOf(pool, x)
  BY <1>1, <1>2, FreedDoes
<1>4. HeldIn(pool, k, InUse(pool) \ {b})
  BY <1>2, HeldLess
<1> HIDE DEF b, k
<1>5. HeldIn(pool', held', InUse(pool'))
  BY <1>1, <1>3, <1>4, HeldKept
<1> QED
  BY <1>1, <1>3, <1>5, NobodyWaits DEF HeapInv

LEMMA MemalignKeeps ==
    ASSUME HeapInv, Undisturbed, NEW t \in Allocators, NEW n \in Requests, NEW a \in Aligns,
           Memalign(t, n, a)
    PROVE  HeapInv'
<1> DEFINE m == AdjustRequest(n, 1)
           w == WithGap(n, a)
           b == LocateFree(pool, w)
           f == BlockRemove(pool, b)
           gap == Gap(ToPtr(b), a)
           r == IF gap = 0 THEN f ELSE TrimFreeLeading(f, b, gap)
           s == IF gap = 0 THEN b ELSE Trailing(f, b, gap)
           q == PrepareUsed(r, s, m)
<1>1. /\ b # None /\ m # 0 /\ pool' = q /\ UNCHANGED pending
      /\ held' = PutAt(held, ToPtr(s), [size |-> n, align |-> a])
  BY DEF Memalign, Hold, BlockRemove
<1>2. Intact(pool) /\ HeldIn(pool, held, InUse(pool))
  BY DEF HeapInv
<1>3. m \in Nat /\ m >= 3 /\ m >= n /\ n \in Nat
  BY <1>1, Asked
<1>4. a \in Nat /\ a >= 2 /\ w \in Searched
  BY HeapAssumption
<1> HIDE DEF q, r, s, f, gap, b
<1>5. w \in Nat /\ w >= 1 /\ w >= m + a + 4 /\ w <= SizeMax - Pow2[FlCount - 2]
  <2>1. w # 0
    BY <1>1 DEF LocateFree, b
  <2>2. m + a + 4 \in Nat /\ w = AdjustRequest(m + a + 4, a)
    BY <1>3, <1>4 DEF WithGap, Header
  <2> HIDE DEF m, w
  <2>3. w \in Nat /\ w >= m + a + 4
    BY <1>4, <2>1, <2>2, Adjusts
  <2> QED
    BY <1>3, <1>4, <2>1, <2>3 DEF Searched
<1> HIDE DEF m, w
<1>6. b \in FreeOf(pool) /\ SizeOf(pool, b) >= w
  BY <1>1, <1>2, <1>5, LocateDoes DEF b
<1>7. b \in Nat /\ SizeOf(pool, b) \in Nat /\ ToPtr(b) = b + 2
  BY <1>2, <1>6, BlockFacts DEF FreeOf, Intact, ToPtr, StartOffset
<1>8. gap \in Nat /\ gap <= a + 3 /\ (gap = 0 \/ gap >= 4) /\ (ToPtr(b) + gap) % a = 0
  <2>1. ToPtr(b) \in Nat
    BY <1>7
  <2> QED
    BY <1>4, <2>1, GapFits DEF gap
<1>9. f.hdr = pool.hdr /\ Out(f, b) /\ ~Bordered(f, b) /\ ~f.hdr[b].prevFree
  BY <1>2, <1>6, RemoveDoes DEF f
<1>10. InUse(f) = InUse(pool) /\ \A x : SizeOf(f, x) = SizeOf(pool, x)
  BY <1>9 DEF InUse, Inner, SizeOf
<1>11. /\ Out(r, s) /\ ~Bordered(r, s) /\ InUse(r) = InUse(f) /\ s \notin InUse(f)
       /\ \A x \in InUse(f) : SizeOf(r, x) = SizeOf(f, x)
       /\ s = b + gap /\ SizeOf(r, s) >= m
  <2>1. b \notin InUse(f)
    BY <1>9 DEF Out, InUse
  <2>2. CASE gap = 0
    <3>1. r = f /\ s = b
      BY <2>2 DEF r, s
    <3>2. s = b + gap /\ SizeOf(r, s) >= m
      BY <1>3, <1>4, <1>5, <1>6, <1>7, <1>10, <2>2, <3>1
    <3> QED
      BY <1>9, <2>1, <3>1, <3>2
  <2>3. CASE gap # 0
    <3>1. r = TrimFreeLeading(f, b, gap) /\ s = Trailing(f, b, gap)
      BY <2>3 DEF r, s
    <3>2. gap \in Nat /\ gap >= 4 /\ CanSplit(f, b, gap)
      BY <1>3, <1>4, <1>5, <1>6, <1>7, <1>8, <1>10, <2>3 DEF CanSplit, Header
    <3>3. /\ s = b + gap /\ Out(r, s) /\ ~Bordered(r, s) /\ SameUse(f, r, b) /\ s \notin InUse(f)
          /\ SizeOf(r, s) = SizeOf(f, b) - gap
      BY <1>9, <3>1, <3>2, LeadingDoes
    <3>4. InUse(r) = InUse(f) /\ \A x \in InUse(f) : SizeOf(r, x) = SizeOf(f, x)
      BY <2>1, <3>3 DEF SameUse
    <3>5. SizeOf(r, s) >= m
      BY <1>3, <1>4, <1>5, <1>6, <1>7, <1>8, <1>10, <3>3
    <3> QED
      BY <3>3, <3>4, <3>5
  <2> QED
    BY <2>2, <2>3
<1>12. /\ Intact(q) /\ InUse(q) = InUse(r) \cup {s} /\ SizeOf(q, s) >= m
       /\ \A x \in InUse(r) : SizeOf(q, x) = SizeOf(r, x)
  BY <1>3, <1>11, PrepareDoes DEF q
<1>13. InUse(q) = InUse(pool) \cup {s} /\ \A x \in InUse(pool) : SizeOf(q, x) = SizeOf(pool, x)
  BY <1>10, <1>11, <1>12
<1>14. s \in Nat /\ SizeOf(q, s) >= n
  <2>1. s \in Inner(q) /\ Laid(q)
    BY <1>12 DEF InUse, Intact
  <2>2. SizeOf(q, s) \in Nat /\ s \in Nat
    BY <2>1, BlockFacts
  <2> QED
    BY <1>3, <1>12, <2>2
<1>15. ToPtr(s) % a = 0
  <2>1. ToPtr(s) = ToPtr(b) + gap
    BY <1>7, <1>8, <1>11 DEF ToPtr, StartOffset
  <2> QED
    BY <1>8, <2>1
<1>16. HeldIn(q, held, InUse(pool))
  BY <1>2, <1>13, HeldKept
<1>17. HeldIn(q, held', InUse(q))
  BY <1>1, <1>13, <1>14, <1>15, <1>16, HeldMore
<1>18. PendingHolds'
  BY <1>1, NobodyWaits
<1> QED
  BY <1>1, <1>12, <1>17, <1>18 DEF HeapInv

LEMMA ReallocKeeps ==
    ASSUME HeapInv, Undisturbed, NEW t \in Allocators, NEW ptr \in DOMAIN held,
           NEW n \in Requests, Realloc(t, ptr, n)
    PROVE  HeapInv'
<1> DEFINE b == FromPtr(ptr)
           m == AdjustRequest(n, 1)
           grows == m > SizeOf(pool, b)
           room == /\ pool.hdr[NextOf(pool, b)].free
                   /\ m <= SizeOf(pool, b) + SizeOf(pool, NextOf(pool, b)) + Overhead
           grown == IF grows THEN MarkUsed(MergeNext(pool, b), b) ELSE pool
           kept == Restrict(held, DOMAIN held \ {ptr})
           one == 1
           Given(at) == held' = PutAt(kept, at, [size |-> n, align |-> one])
<1>1. /\ m # 0 /\ UNCHANGED pending
      /\ \/ (~grows \/ room) /\ pool' = TrimUsed(grown, b, m) /\ Given(ptr)
         \/ /\ grows /\ ~room /\ LocateFree(pool, m) # None
            /\ pool' = Freed(Malloc(pool, m), ptr) /\ Given(ToPtr(LocateFree(pool, m)))
  BY DEF Realloc
<1>2. Intact(pool) /\ HeldIn(pool, held, InUse(pool)) /\ b \in InUse(pool) /\ ptr \in Nat
      /\ PendingHolds'
  BY <1>1, NobodyWaits DEF HeapInv, HeldIn
<1>3. m \in Nat /\ m >= 3 /\ m >= n /\ n \in Nat
  BY <1>1, Asked
<1>4. HeldIn(pool, kept, InUse(pool) \ {b})
  BY <1>2, HeldLess
<1>5. one = 1
  OBVIOUS
<1>6. Laid(pool) /\ b \in Inner(pool) /\ b \in Nat /\ SizeOf(pool, b) \in Nat /\ ptr = ToPtr(b)
  <2>1. Laid(pool) /\ b \in Inner(pool)
    BY <1>2 DEF Intact, InUse
  <2>2. ptr = ToPtr(b)
    BY <1>2 DEF ToPtr, FromPtr, StartOffset
  <2> QED
    BY <2>1, <2>2, BlockFacts
<1> HIDE DEF b, m, kept, one
(* In place, alone or with the next block. *)
<1>7. CASE (~grows \/ room) /\ pool' = TrimUsed(grown, b, m) /\ Given(ptr)
  <2>1. /\ Intact(grown) /\ InUse(grown) = InUse(pool) /\ SizeOf(grown, b) >= m
        /\ \A x \in InUse(pool) \ {b} : SizeOf(grown, x) = SizeOf(pool, x)
    <3>1. CASE ~grows
      BY <1>2, <1>3, <1>6, <3>1
    <3>2. CASE grows
      <4> DEFINE g == MergeNext(pool, b)
                 h == MarkUsed(g, b)
      <4>1. room /\ grown = h /\ Bordered(pool, b)
        BY <1>7, <3>2 DEF Bordered
      <4>2. Part(pool, b)
        BY <1>2, IntactIsPart
      <4>3. /\ Part(g, b) /\ SameUse(pool, g, b)
            /\ SizeOf(g, b) = SizeOf(pool, b) + SizeOf(pool, NextOf(pool, b)) + 1
        BY <4>1, <4>2, MergeNextDoes
      <4>4. SizeOf(g, b) >= m
        <5>1. SizeOf(pool, b) + SizeOf(pool, NextOf(pool, b)) + Overhead = SizeOf(g, b)
          BY <4>3 DEF Overhead
        <5>2. SizeOf(g, b) \in Nat
          BY <4>3, BlockFacts DEF Part
        <5> HIDE DEF g
        <5> QED
          BY <1>3, <4>1, <5>1, <5>2
      <4> HIDE DEF g
      <4>5. /\ Intact(h) /\ InUse(h) = InUse(g) \cup {b}
            /\ \A x \in Inner(g) : SizeOf(h, x) = SizeOf(g, x)
        BY <4>3, UsedIsIntact
      <4>6. InUse(g) = InUse(pool) /\ InUse(g) \subseteq Inner(g) /\ b \in Inner(g)
        BY <4>3 DEF SameUse, InUse, Part
      <4>7. \A x \in InUse(pool) \ {b} : SizeOf(h, x) = SizeOf(pool, x)
        BY <4>3, <4>5, <4>6 DEF SameUse
      <4> HIDE DEF h
      <4> QED
        BY <1>2, <4>1, <4>4, <4>5, <4>6, <4>7
    <3> QED
      BY <3>1, <3>2
  <2> HIDE DEF grown
  <2>2. Intact(pool') /\ SameUse(grown, pool', b) /\ SizeOf(pool', b) >= m
    BY <1>2, <1>3, <1>7, <2>1, TrimUsedDoes
  <2>3. InUse(pool') = InUse(pool) /\ \A x \in InUse(pool) \ {b} : SizeOf(pool', x) = SizeOf(pool, x)
    BY <2>1, <2>2 DEF SameUse
  <2>4. SizeOf(pool', b) >= n
    <3>1. SizeOf(pool', b) \in Nat
      BY <1>2, <2>2, <2>3, BlockFacts DEF Intact, InUse
    <3> QED
      BY <1>3, <2>2, <3>1
  <2>5. ToPtr(b) % one = 0
    BY <1>2, <1>5, <1>6, AnyBoundary
  <2>6. HeldIn(pool', kept, InUse(pool) \ {b})
    BY <1>4, <2>3, HeldKept
  <2>7. HeldIn(pool', held', (InUse(pool) \ {b}) \cup {b})
    BY <1>6, <1>7, <2>4, <2>5, <2>6, HeldMore
  <2>8. (InUse(pool) \ {b}) \cup {b} = InUse(pool')
    BY <1>2, <2>3
  <2> QED
    BY <1>2, <2>2, <2>7, <2>8 DEF HeapInv
(* Elsewhere: a new block, and the old one is given back. *)
<1>8. CASE /\ LocateFree(pool, m) # None
           /\ pool' = Freed(Malloc(pool, m), ptr) /\ Given(ToPtr(LocateFree(pool, m)))
  <2> DEFINE l == LocateFree(pool, m)
             p == Taken(pool, l, m)
  <2>1. pool' = Freed(p, ptr)
    BY <1>8 DEF Malloc
  <2>2. l \in FreeOf(pool) /\ SizeOf(pool, l) >= m /\ l \in Nat
    BY <1>2, <1>8, FoundFits DEF m
  <2> HIDE DEF l
  <2>3. /\ Intact(p) /\ InUse(p) = InUse(pool) \cup {l} /\ l \notin InUse(pool) /\ SizeOf(p, l) >= m
        /\ \A x \in InUse(pool) : SizeOf(p, x) = SizeOf(pool, x)
    BY <1>2, <1>3, <2>2, TakenDoes
  <2> HIDE DEF p
  <2>4. b = FromPtr(ptr) /\ b \in InUse(p) /\ l # b
    BY <1>2, <2>3 DEF b
  <2>5. /\ Intact(pool') /\ InUse(pool') = InUse(p) \ {b}
        /\ \A x \in InUse(p) \ {b} : SizeOf(pool', x) = SizeOf(p, x)
    BY <2>1, <2>3, <2>4, FreedDoes
  <2>6. InUse(pool') = (InUse(pool) \ {b}) \cup {l}
        /\ \A x \in InUse(pool) \ {b} : SizeOf(pool', x) = SizeOf(pool, x)
    BY <2>3, <2>4, <2>5
  <2>7. SizeOf(pool', l) >= n
    <3>1. SizeOf(pool', l) = SizeOf(p, l) /\ l \in InUse(pool')
      BY <2>3, <2>4, <2>5
    <3>2. SizeOf(pool', l) \in Nat
      BY <2>5, <3>1, BlockFacts DEF Intact, InUse
    <3> QED
      BY <1>3, <2>3, <3>1, <3>2
  <2>8. ToPtr(l) % one = 0
    BY <1>5, <2>2, AnyBoundary DEF ToPtr, StartOffset
  <2>9. HeldIn(pool', kept, InUse(pool) \ {b})
    BY <1>4, <2>6, HeldKept
  <2>10. HeldIn(pool', held', (InUse(pool) \ {b}) \cup {l})
    BY <1>8, <2>2, <2>7, <2>8, <2>9, HeldMore DEF l
  <2> QED
    BY <1>2, <2>5, <2>6, <2>10 DEF HeapInv
<1> QED
  BY <1>1, <1>7, <1>8

LEMMA HeapInvNext == HeapInv /\ [HeapNext /\ Undisturbed]_heapVars => HeapInv'
<1> SUFFICES ASSUME HeapInv, [HeapNext /\ Undisturbed]_heapVars PROVE HeapInv'
  OBVIOUS
<1>1. CASE HeapNext /\ Undisturbed
  <2>1. PICK t \in Allocators :
          \/ \E n \in Requests : NewFinds(t, n) \/ \E a \in Aligns : Memalign(t, n, a)
          \/ NewTakes(t)
          \/ \E ptr \in DOMAIN held : Delete(t, ptr) \/ \E n \in Requests : Realloc(t, ptr, n)
    BY <1>1 DEF HeapNext
  <2> QED
    BY <1>1, <2>1, FindsKeeps, MemalignKeeps, TakesKeeps, DeleteKeeps, ReallocKeeps
<1>2. CASE UNCHANGED heapVars
  BY <1>2 DEF heapVars, HeapInv, PendingHolds, Waits
<1> QED
  BY <1>1, <1>2

(* What the run checks follows from the invariant. *)
LEMMA HeapInvSays == HeapInv => HeapSound
<1> SUFFICES ASSUME HeapInv PROVE HeapSound
  OBVIOUS
<1>1. Intact(pool) /\ Laid(pool) /\ Edges(pool) /\ ListsHold(pool, FreeOf(pool))
      /\ HeldIn(pool, held, InUse(pool)) /\ Blocks \ {Sentinel} = Inner(pool)
      /\ Base \in Blocks /\ Sentinel \in Blocks /\ SizeOf(pool, Sentinel) = 0
  BY DEF HeapInv, Intact, Laid, Inner, Blocks
<1>2. BlocksChain
  <2>1. {NextOf(pool, b) : b \in Inner(pool)} = Blocks \ {Base}
    <3>1. \A b \in Inner(pool) : NextOf(pool, b) \in Blocks \ {Base}
      BY <1>1, BlockFacts DEF Blocks
    <3>2. \A c \in Blocks \ {Base} : \E b \in Inner(pool) : NextOf(pool, b) = c
      BY <1>1 DEF Laid, Blocks
    <3> QED
      BY <3>1, <3>2
  <2>2. ASSUME NEW b \in Inner(pool)
        PROVE  /\ SizeOf(pool, b) >= SizeMin /\ NextOf(pool, b) > b
               /\ pool.hdr[NextOf(pool, b)].prevFree = IsFree(b)
               /\ IsFree(b) => pool.hdr[NextOf(pool, b)].prev = b /\ ~IsFree(NextOf(pool, b))
    <3>1. SizeOf(pool, b) >= SizeMin /\ NextOf(pool, b) > b
      BY <1>1, BlockFacts DEF SizeMin
    <3>2. Tagged(pool, b) /\ (pool.hdr[b].free => ~Bordered(pool, b))
      BY <1>1 DEF Intact
    <3> QED
      BY <3>1, <3>2 DEF Tagged, Bordered, IsFree
  <2>3. ~IsFree(Sentinel)
    BY <1>1 DEF Edges, IsFree
  <2> QED
    BY <1>1, <2>1, <2>2, <2>3 DEF BlocksChain
<1>3. ListsAgree
  <2>1. DOMAIN pool.list = Classes /\ DOMAIN pool.sl = 0..FlCount - 1
    BY <1>1 DEF ListsHold
  <2>2. ASSUME NEW c \in Classes
        PROVE  Range(pool.list[c]) = {b \in Blocks : IsFree(b) /\ MappingInsert(SizeOf(pool, b)) = c}
    <3>1. pool.list[c] \in Seq(Nat) /\ FreeOf(pool) \subseteq Nat
      BY <1>1 DEF ListsHold
    <3>2. \A b \in Nat : b \in Range(pool.list[c]) <=> b \in FreeOf(pool) /\ ClassIn(pool, b) = c
      BY <1>1 DEF ListsHold
    <3>3. FreeOf(pool) = {b \in Blocks : IsFree(b)}
      BY <1>1 DEF FreeOf, IsFree, Edges
    <3>4. Range(pool.list[c]) \subseteq Nat
      BY <3>1, RangeOfNats
    <3> QED
      BY <3>1, <3>2, <3>3, <3>4 DEF ClassIn
  <2>3. ASSUME NEW c \in Classes
        PROVE  Once(pool.list[c]) /\ (c[2] \in pool.sl[c[1]]) = (pool.list[c] # <<>>)
    BY <1>1 DEF ListsHold
  <2>4. \A fl \in 0..FlCount - 1 : (fl \in pool.fl) = (pool.sl[fl] # {})
    BY <1>1 DEF ListsHold
  <2> QED
    BY <2>1, <2>2, <2>3, <2>4 DEF ListsAgree, Once
<1>4. HeldIsUsed
  <2>1. InUse(pool) = {b \in Blocks \ {Sentinel} : ~IsFree(b)}
    BY <1>1 DEF InUse, IsFree
  <2> QED
    BY <1>1, <2>1 DEF HeldIn, HeldIsUsed
<1>5. SearchFits
  <2> SUFFICES ASSUME NEW n \in Requests, AdjustRequest(n, 1) # 0
               PROVE  LET b == LocateFree(pool, AdjustRequest(n, 1))
                          goal == MappingSearch(AdjustRequest(n, 1)) IN
                      IF b = None
                      THEN \A c \in Blocks : IsFree(c) => ~Beyond(ClassIn(pool, c), goal)
                      ELSE b \in Blocks /\ IsFree(b) /\ SizeOf(pool, b) >= n
    BY DEF SearchFits, Beyond, ClassIn
  <2> DEFINE m == AdjustRequest(n, 1)
             b == LocateFree(pool, m)
  <2>1. m \in Nat /\ m >= 3 /\ m >= n /\ n \in Nat /\ m <= SizeMax - Pow2[FlCount - 2]
    BY Asked
  <2> HIDE DEF m
  <2>2. /\ b # None => b \in FreeOf(pool) /\ SizeOf(pool, b) >= m
        /\ b = None => \A x \in FreeOf(pool) : ~Beyond(ClassIn(pool, x), MappingSearch(m))
    BY <1>1, <2>1, LocateDoes
  <2> HIDE DEF b
  <2>3. CASE b = None
    <3>1. \A c \in Blocks : IsFree(c) => c \in FreeOf(pool)
      BY <1>1 DEF IsFree, FreeOf, Edges
    <3> QED
      BY <2>2, <2>3, <3>1 DEF b, m
  <2>4. CASE b # None
    <3>1. b \in Blocks /\ IsFree(b) /\ SizeOf(pool, b) \in Nat
      BY <1>1, <2>2, <2>4, BlockFacts DEF FreeOf, IsFree, Blocks
    <3>2. SizeOf(pool, b) >= n
      BY <2>1, <2>2, <2>4, <3>1
    <3> QED
      BY <2>4, <3>1, <3>2 DEF b, m
  <2> QED
    BY <2>3, <2>4
<1> QED
  BY <1>2, <1>3, <1>4, <1>5 DEF HeapSound

(* Every block keeps its place, is in the list it belongs in and is never  *)
(* given to two callers, whatever is asked for and freed in whatever order *)
(* (client/tlsf.cpp: tlsf_new, tlsf_delete, tlsf_memalign, tlsf_realloc),  *)
(* in a client that uses the pool from one thread.  Nothing is said of two:*)
(* the code has no lock.                                                   *)
THEOREM LonePoolIsSound ==
    ASSUME \A s, t \in Allocators : s = t
    PROVE  HeapSpec => []HeapSound
<1>1. HeapInv /\ HeapNext => Undisturbed
  <2> SUFFICES ASSUME HeapInv, HeapNext, NEW s \in Allocators, Waits(s)
               PROVE  pending'[s] = Idle
    BY DEF Undisturbed
  <2>1. PICK t \in Allocators :
          \/ \E n \in Requests : NewFinds(t, n) \/ \E a \in Aligns : Memalign(t, n, a)
          \/ NewTakes(t)
          \/ \E ptr \in DOMAIN held : Delete(t, ptr) \/ \E n \in Requests : Realloc(t, ptr, n)
    BY DEF HeapNext
  <2>2. t = s
    OBVIOUS
  <2>3. NewTakes(s)
    BY <2>1, <2>2 DEF NewFinds, Memalign, Delete, Realloc, Waits
  <2> QED
    BY <2>3 DEF NewTakes, HeapInv, PendingHolds
<1>2. HeapInv /\ [HeapNext]_heapVars => HeapInv'
  BY <1>1, HeapInvNext
<1> QED
  BY <1>2, HeapInvInit, HeapInvSays, PTL DEF HeapSpec

-----------------------------------------------------------------------------
(* The files of the user.  What Save writes of a key is what Load reads    *)
(* again: four letters for three bytes, whatever is left at the end.       *)
LEMMA BytesAreBytes ==
    ASSUME NEW bytes \in Seq(0..255), NEW i \in Nat, i # 0
    PROVE  Byte(bytes, i) \in 0..255 /\ (i <= Len(bytes) => Byte(bytes, i) = bytes[i])
<1>1. \A j \in 1..Len(bytes) : bytes[j] \in 0..255
  BY ElementOfSeq
<1>2. Len(bytes) \in Nat
  OBVIOUS
<1> QED
  BY <1>1, <1>2 DEF Byte

(* Six bits of two bytes, past the first bits, and eight of two letters.    *)
Six(x, y, past) == ((256 * x + y) \div 2^(10 - past)) % 64
Eight(x, y, past) == ((64 * x + y) \div 2^(4 - past)) % 256
SixAt(bytes, first, past) == Six(Byte(bytes, first), Byte(bytes, first + 1), past)

LEMMA LetterIs ==
    ASSUME NEW bytes, NEW j
    PROVE  Letter(bytes, j) = SixAt(bytes, ((6 * (j - 1)) \div 8) + 1, (6 * (j - 1)) % 8)
  BY Zenon DEF Letter, SixAt, Six

LEMMA SixBits ==
    ASSUME NEW x \in 0..255, NEW y \in 0..255
    PROVE  /\ Six(x, y, 0) = x \div 4
           /\ Six(x, y, 6) = 16 * (x % 4) + (y \div 16)
           /\ Six(x, y, 4) = 4 * (x % 16) + (y \div 64)
           /\ Six(x, y, 2) = x % 64
<1>1. 2^(10 - 0) = 1024 /\ 2^(10 - 6) = 16 /\ 2^(10 - 4) = 64 /\ 2^(10 - 2) = 256
  OBVIOUS
<1>2. ((256 * x + y) \div 1024) % 64 = x \div 4
  OBVIOUS
<1>3. ((256 * x + y) \div 16) % 64 = 16 * (x % 4) + (y \div 16)
  OBVIOUS
<1>4. ((256 * x + y) \div 64) % 64 = 4 * (x % 16) + (y \div 64)
  OBVIOUS
<1>5. ((256 * x + y) \div 256) % 64 = x % 64
  OBVIOUS
<1> QED
  <2>1. Six(x, y, 0) = x \div 4
    BY <1>1, <1>2 DEF Six
  <2>2. Six(x, y, 6) = 16 * (x % 4) + (y \div 16)
    BY <1>1, <1>3 DEF Six
  <2>3. Six(x, y, 4) = 4 * (x % 16) + (y \div 64)
    BY <1>1, <1>4 DEF Six
  <2>4. Six(x, y, 2) = x % 64
    BY <1>1, <1>5 DEF Six
  <2> QED
    BY <2>1, <2>2, <2>3, <2>4

LEMMA SixIsLetter ==
    ASSUME NEW x \in 0..255, NEW y \in 0..255, NEW past \in {0, 2, 4, 6}
    PROVE  Six(x, y, past) \in 0..63
<1>1. /\ x \div 4 \in 0..63 /\ 16 * (x % 4) + (y \div 16) \in 0..63
      /\ 4 * (x % 16) + (y \div 64) \in 0..63 /\ x % 64 \in 0..63
  OBVIOUS
<1>2. /\ Six(x, y, 0) \in 0..63 /\ Six(x, y, 6) \in 0..63
      /\ Six(x, y, 4) \in 0..63 /\ Six(x, y, 2) \in 0..63
  BY <1>1, SixBits, Zenon
<1> QED
  BY <1>2, Zenon

LEMMA LettersOf ==
    ASSUME NEW bytes \in Seq(0..255), NEW k \in Nat, NEW x, NEW y, NEW z,
           x = Byte(bytes, 3 * k + 1), y = Byte(bytes, 3 * k + 2), z = Byte(bytes, 3 * k + 3)
    PROVE  /\ x \in 0..255 /\ y \in 0..255 /\ z \in 0..255
           /\ Letter(bytes, 4 * k + 1) = x \div 4
           /\ Letter(bytes, 4 * k + 2) = 16 * (x % 4) + (y \div 16)
           /\ Letter(bytes, 4 * k + 3) = 4 * (y % 16) + (z \div 64)
           /\ Letter(bytes, 4 * k + 4) = z % 64
<1> DEFINE past == Byte(bytes, 3 * k + 4)
<1>1. x \in 0..255 /\ y \in 0..255 /\ z \in 0..255 /\ past \in 0..255
  <2>1. \A d \in {1, 2, 3, 4} : 3 * k + d \in Nat /\ 3 * k + d # 0
    OBVIOUS
  <2>2. \A d \in {1, 2, 3, 4} : Byte(bytes, 3 * k + d) \in 0..255
    BY <2>1, BytesAreBytes
  <2> QED
    BY <2>2
<1>2. /\ (3 * k + 1) + 1 = 3 * k + 2 /\ (3 * k + 2) + 1 = 3 * k + 3 /\ (3 * k + 3) + 1 = 3 * k + 4
  OBVIOUS
<1>3. Letter(bytes, 4 * k + 1) = Six(x, y, 0)
  <2>1. ((6 * ((4 * k + 1) - 1)) \div 8) + 1 = 3 * k + 1 /\ (6 * ((4 * k + 1) - 1)) % 8 = 0
    OBVIOUS
  <2>2. Letter(bytes, 4 * k + 1) = SixAt(bytes, 3 * k + 1, 0)
    BY <2>1, LetterIs, Zenon
  <2> QED
    BY <1>2, <2>2, Zenon DEF SixAt
<1>4. Letter(bytes, 4 * k + 2) = Six(x, y, 6)
  <2>1. ((6 * ((4 * k + 2) - 1)) \div 8) + 1 = 3 * k + 1 /\ (6 * ((4 * k + 2) - 1)) % 8 = 6
    OBVIOUS
  <2>2. Letter(bytes, 4 * k + 2) = SixAt(bytes, 3 * k + 1, 6)
    BY <2>1, LetterIs, Zenon
  <2> QED
    BY <1>2, <2>2, Zenon DEF SixAt
<1>5. Letter(bytes, 4 * k + 3) = Six(y, z, 4)
  <2>1. ((6 * ((4 * k + 3) - 1)) \div 8) + 1 = 3 * k + 2 /\ (6 * ((4 * k + 3) - 1)) % 8 = 4
    OBVIOUS
  <2>2. Letter(bytes, 4 * k + 3) = SixAt(bytes, 3 * k + 2, 4)
    BY <2>1, LetterIs, Zenon
  <2> QED
    BY <1>2, <2>2, Zenon DEF SixAt
<1>6. Letter(bytes, 4 * k + 4) = Six(z, past, 2)
  <2>1. ((6 * ((4 * k + 4) - 1)) \div 8) + 1 = 3 * k + 3 /\ (6 * ((4 * k + 4) - 1)) % 8 = 2
    OBVIOUS
  <2>2. Letter(bytes, 4 * k + 4) = SixAt(bytes, 3 * k + 3, 2)
    BY <2>1, LetterIs, Zenon
  <2> QED
    BY <1>2, <2>2, Zenon DEF SixAt
<1> HIDE DEF past
<1>7. /\ Six(x, y, 0) = x \div 4 /\ Six(x, y, 6) = 16 * (x % 4) + (y \div 16)
      /\ Six(y, z, 4) = 4 * (y % 16) + (z \div 64) /\ Six(z, past, 2) = z % 64
  <2>1. Six(x, y, 0) = x \div 4 /\ Six(x, y, 6) = 16 * (x % 4) + (y \div 16)
    BY <1>1, SixBits, Zenon
  <2>2. Six(y, z, 4) = 4 * (y % 16) + (z \div 64)
    BY <1>1, SixBits, Zenon
  <2>3. Six(z, past, 2) = z % 64
    BY <1>1, SixBits, Zenon
  <2> QED
    BY <2>1, <2>2, <2>3, Zenon
<1> QED
  BY <1>1, <1>3, <1>4, <1>5, <1>6, <1>7, Zenon

(* Three bytes out of four letters.                                        *)
LEMMA BytesOfLetters ==
    ASSUME NEW x \in 0..255, NEW y \in 0..255, NEW z \in 0..255
    PROVE  /\ Eight(x \div 4, 16 * (x % 4) + (y \div 16), 0) = x
           /\ Eight(4 * (y % 16) + (z \div 64), z % 64, 4) = z
<1>1. 2^(4 - 0) = 16 /\ 2^(4 - 4) = 1
  OBVIOUS
<1>2. ((64 * (x \div 4) + (16 * (x % 4) + (y \div 16))) \div 16) % 256 = x
  OBVIOUS
<1>3. ((64 * (4 * (y % 16) + (z \div 64)) + (z % 64)) \div 1) % 256 = z
  OBVIOUS
<1> QED
  BY <1>1, <1>2, <1>3, Zenon DEF Eight

LEMMA ByteInTheMiddle ==
    ASSUME NEW x \in 0..255, NEW y \in 0..255, NEW z \in 0..255
    PROVE  Eight(16 * (x % 4) + (y \div 16), 4 * (y % 16) + (z \div 64), 2) = y
<1>1. 2^(4 - 2) = 4
  OBVIOUS
<1>2. ((64 * (16 * (x % 4) + (y \div 16)) + (4 * (y % 16) + (z \div 64))) \div 4) % 256 = y
  OBVIOUS
<1> QED
  BY <1>1, <1>2, Zenon DEF Eight

(* Every byte is one of three.                                             *)
LEMMA InThrees ==
    ASSUME NEW i \in Nat \ {0}
    PROVE  \E k \in Nat : i = 3 * k + 1 \/ i = 3 * k + 2 \/ i = 3 * k + 3
<1>1. (i - 1) \div 3 \in Nat /\ i - 1 \in 3 * ((i - 1) \div 3)..(3 * ((i - 1) \div 3) + 2)
  OBVIOUS
<1> QED
  BY <1>1

LettersFor(n) == (8 * n + 5) \div 6

LEMMA LettersAreEnough ==
    ASSUME NEW n \in Nat
    PROVE  /\ LettersFor(n) \in Nat /\ LettersFor(n) <= 4 * ((n + 2) \div 3)
           /\ (6 * LettersFor(n)) \div 8 = n
           /\ \A k \in Nat : /\ 3 * k + 1 <= n => 4 * k + 2 <= LettersFor(n)
                             /\ 3 * k + 2 <= n => 4 * k + 3 <= LettersFor(n)
                             /\ 3 * k + 3 <= n => 4 * k + 4 <= LettersFor(n)
  BY DEF LettersFor

LEMMA EncodedIsText ==
    ASSUME NEW bytes \in Seq(0..255)
    PROVE  /\ Base64Encode(bytes) \in Seq(0..Pad)
           /\ Len(Base64Encode(bytes)) = 4 * ((Len(bytes) + 2) \div 3)
           /\ \A j \in 1..LettersFor(Len(bytes)) : Base64Encode(bytes)[j] = Letter(bytes, j)
           /\ Len(Unpadded(Base64Encode(bytes))) = LettersFor(Len(bytes))
           /\ \A j \in 1..LettersFor(Len(bytes)) :
                 Unpadded(Base64Encode(bytes))[j] = Letter(bytes, j)
<1> DEFINE text == Base64Encode(bytes)
           n == Len(bytes)
           m == LettersFor(n)
           long == 4 * ((n + 2) \div 3)
<1>0. n \in Nat /\ long \in Nat
  OBVIOUS
<1>1. n \in Nat /\ m \in Nat /\ m <= long /\ long \in Nat
  BY <1>0, LettersAreEnough, Zenon
<1>2. \A j \in 1..long : Letter(bytes, j) \in 0..63
  <2> SUFFICES ASSUME NEW j \in 1..long PROVE Letter(bytes, j) \in 0..63
    OBVIOUS
  <2>0. j \in Nat \ {0}
    BY <1>1
  <2> DEFINE first == ((6 * (j - 1)) \div 8) + 1
             past == (6 * (j - 1)) % 8
  <2>1. first \in Nat /\ first # 0 /\ first + 1 \in Nat /\ first + 1 # 0 /\ past \in {0, 2, 4, 6}
    BY <2>0
  <2>2. Letter(bytes, j) = SixAt(bytes, first, past)
    BY LetterIs, Zenon
  <2> HIDE DEF first, past
  <2>3. Byte(bytes, first) \in 0..255 /\ Byte(bytes, first + 1) \in 0..255
    BY <2>1, BytesAreBytes
  <2> QED
    <3>1. Six(Byte(bytes, first), Byte(bytes, first + 1), past) \in 0..63
      BY <2>1, <2>3, SixIsLetter, Zenon
    <3> QED
      BY <2>2, <3>1, Zenon DEF SixAt
<1>3. /\ text = [j \in 1..long |-> IF j <= m THEN Letter(bytes, j) ELSE Pad]
  BY DEF Base64Encode, LettersFor
<1> HIDE DEF n, m, long, text
<1>4. text \in Seq(0..Pad) /\ Len(text) = long /\ DOMAIN text = 1..long
  <2>1. \A j \in 1..long : Letter(bytes, j) \in 0..Pad /\ Pad \in 0..Pad
    BY <1>2 DEF Pad
  <2>2. text \in [1..long -> 0..Pad]
    BY <1>3, <2>1, Zenon
  <2>3. text \in Seq(0..Pad)
    <3> DEFINE all == [1..long -> 0..Pad]
    <3>1. all \in {[1..l -> 0..Pad] : l \in Nat}
      BY <1>1, Zenon
    <3>2. \A T : all \in T => text \in UNION T
      BY <2>2, Zenon
    <3> HIDE DEF all
    <3> QED
      BY <3>1, <3>2, SeqDef, Zenon
  <2>4. DOMAIN text = 1..long
    BY <2>2, Zenon
  <2>5. Len(text) = long
    BY <1>1, <2>3, <2>4
  <2> QED
    BY <2>3, <2>4, <2>5, Zenon
<1>5. \A j \in 1..m : text[j] = Letter(bytes, j)
  BY <1>1, <1>3
<1>6. {j \in DOMAIN text : text[j] # Pad} = 1..m
  <2>1. ASSUME NEW j \in 1..long PROVE text[j] # Pad <=> j <= m
    <3>1. text[j] = IF j <= m THEN Letter(bytes, j) ELSE Pad
      BY <1>3, Zenon
    <3>2. Letter(bytes, j) # Pad
      <4>1. \A v \in 0..63 : v # Pad
        BY DEF Pad
      <4> QED
        BY <1>2, <4>1, Zenon
    <3> QED
      BY <3>1, <3>2, Zenon
  <2> QED
    BY <1>1, <1>4, <2>1
<1>7. Cardinality(1..m) = m
  <2>1. 1 \in Int /\ m \in Int
    BY <1>1
  <2>2. Cardinality(1..m) = IF 1 > m THEN 0 ELSE m - 1 + 1
    BY <2>1, FS_Interval
  <2> QED
    BY <1>1, <2>2
<1>8. Unpadded(text) = SubSeq(text, 1, m)
  BY <1>6, <1>7 DEF Unpadded
<1>9. Len(SubSeq(text, 1, m)) = m /\ \A j \in 1..m : SubSeq(text, 1, m)[j] = text[j]
  BY <1>1, <1>4
<1> QED
  BY <1>4, <1>5, <1>8, <1>9 DEF text, n, m, long

LEMMA KeysAreReadAgain ==
    ASSUME NEW bytes \in Seq(0..255)
    PROVE  Base64Decode(Base64Encode(bytes)) = bytes
<1> DEFINE letters == Unpadded(Base64Encode(bytes))
           n == Len(bytes)
           m == LettersFor(n)
           at(i) == ((8 * (i - 1)) \div 6) + 1
           past(i) == (8 * (i - 1)) % 6
           byte(i) == Eight(letters[at(i)], letters[at(i) + 1], past(i))
<1>1. Len(letters) = m /\ \A j \in 1..m : letters[j] = Letter(bytes, j)
  BY EncodedIsText, Zenon
<1>2. n \in Nat
  OBVIOUS
<1>3. m \in Nat /\ (6 * Len(letters)) \div 8 = n
  BY <1>1, <1>2, LettersAreEnough, Zenon
<1>4. \A k \in Nat : /\ 3 * k + 1 <= n => 4 * k + 2 <= m
                     /\ 3 * k + 2 <= n => 4 * k + 3 <= m
                     /\ 3 * k + 3 <= n => 4 * k + 4 <= m
  BY <1>2, LettersAreEnough, Zenon
<1>5. Base64Decode(Base64Encode(bytes)) = [i \in 1..n |-> byte(i)]
  <2>1. Base64Decode(Base64Encode(bytes)) = [i \in 1..((6 * Len(letters)) \div 8) |-> byte(i)]
    BY Zenon DEF Base64Decode, Eight
  <2> QED
    BY <1>3, <2>1, Zenon
<1> HIDE DEF letters, n, m
<1>6. ASSUME NEW i \in 1..n PROVE byte(i) = bytes[i]
  <2>0. i \in Nat /\ i # 0 /\ i <= n
    BY <1>2
  <2>1. PICK k \in Nat : i = 3 * k + 1 \/ i = 3 * k + 2 \/ i = 3 * k + 3
    BY <2>0, InThrees
  <2> DEFINE x == Byte(bytes, 3 * k + 1)
             y == Byte(bytes, 3 * k + 2)
             z == Byte(bytes, 3 * k + 3)
             L(d) == letters[4 * k + d]
  <2>2. /\ x \in 0..255 /\ y \in 0..255 /\ z \in 0..255
        /\ Letter(bytes, 4 * k + 1) = x \div 4
        /\ Letter(bytes, 4 * k + 2) = 16 * (x % 4) + (y \div 16)
        /\ Letter(bytes, 4 * k + 3) = 4 * (y % 16) + (z \div 64)
        /\ Letter(bytes, 4 * k + 4) = z % 64
    <3> HIDE DEF x, y, z
    <3>1. x = Byte(bytes, 3 * k + 1) /\ y = Byte(bytes, 3 * k + 2) /\ z = Byte(bytes, 3 * k + 3)
      BY Zenon DEF x, y, z
    <3> QED
      BY <3>1, LettersOf, SMTT(60)
  <2>3. bytes[i] = Byte(bytes, i)
    BY <2>0, BytesAreBytes DEF n
  <2>4. /\ 4 * k + 2 <= m => L(1) = Letter(bytes, 4 * k + 1) /\ L(2) = Letter(bytes, 4 * k + 2)
        /\ 4 * k + 3 <= m => L(2) = Letter(bytes, 4 * k + 2) /\ L(3) = Letter(bytes, 4 * k + 3)
        /\ 4 * k + 4 <= m => L(3) = Letter(bytes, 4 * k + 3) /\ L(4) = Letter(bytes, 4 * k + 4)
    <3>1. /\ 4 * k + 2 <= m => 4 * k + 1 \in 1..m /\ 4 * k + 2 \in 1..m
          /\ 4 * k + 3 <= m => 4 * k + 2 \in 1..m /\ 4 * k + 3 \in 1..m
          /\ 4 * k + 4 <= m => 4 * k + 3 \in 1..m /\ 4 * k + 4 \in 1..m
      BY <1>3
    <3> QED
      BY <1>1, <3>1, Zenon
  <2>5. ASSUME i = 3 * k + 1 PROVE byte(i) = Eight(L(1), L(2), 0) /\ 4 * k + 2 <= m
    <3>1. at(i) = 4 * k + 1 /\ at(i) + 1 = 4 * k + 2 /\ past(i) = 0
      BY <2>5
    <3>2. 4 * k + 2 <= m
      BY <1>4, <2>0, <2>5
    <3> QED
      BY <3>1, <3>2, Zenon
  <2>6. ASSUME i = 3 * k + 2 PROVE byte(i) = Eight(L(2), L(3), 2) /\ 4 * k + 3 <= m
    <3>1. at(i) = 4 * k + 2 /\ at(i) + 1 = 4 * k + 3 /\ past(i) = 2
      BY <2>6
    <3>2. 4 * k + 3 <= m
      BY <1>4, <2>0, <2>6
    <3> QED
      BY <3>1, <3>2, Zenon
  <2>7. ASSUME i = 3 * k + 3 PROVE byte(i) = Eight(L(3), L(4), 4) /\ 4 * k + 4 <= m
    <3>1. at(i) = 4 * k + 3 /\ at(i) + 1 = 4 * k + 4 /\ past(i) = 4
      BY <2>7
    <3>2. 4 * k + 4 <= m
      BY <1>4, <2>0, <2>7
    <3> QED
      BY <3>1, <3>2, Zenon
  <2> HIDE DEF byte, L
  <2>8. i = 3 * k + 1 => byte(i) = x /\ bytes[i] = x
    <3> HIDE DEF x, y, z
    <3>1. i = 3 * k + 1 => byte(i) = Eight(x \div 4, 16 * (x % 4) + (y \div 16), 0)
      BY <2>2, <2>4, <2>5, Zenon
    <3>2. Eight(x \div 4, 16 * (x % 4) + (y \div 16), 0) = x
      BY <2>2, BytesOfLetters, Zenon
    <3>3. i = 3 * k + 1 => byte(i) = x
      BY <3>1, <3>2, Zenon
    <3> QED
      BY <2>3, <3>3, Zenon DEF x
  <2>9. i = 3 * k + 2 => byte(i) = y /\ bytes[i] = y
    <3> HIDE DEF x, y, z
    <3>1. i = 3 * k + 2 =>
            byte(i) = Eight(16 * (x % 4) + (y \div 16), 4 * (y % 16) + (z \div 64), 2)
      BY <2>2, <2>4, <2>6, Zenon
    <3>2. Eight(16 * (x % 4) + (y \div 16), 4 * (y % 16) + (z \div 64), 2) = y
      BY <2>2, ByteInTheMiddle, Zenon
    <3>3. i = 3 * k + 2 => byte(i) = y
      BY <3>1, <3>2, Zenon
    <3> QED
      BY <2>3, <3>3, Zenon DEF y
  <2>10. i = 3 * k + 3 => byte(i) = z /\ bytes[i] = z
    <3> HIDE DEF x, y, z
    <3>1. i = 3 * k + 3 => byte(i) = Eight(4 * (y % 16) + (z \div 64), z % 64, 4)
      BY <2>2, <2>4, <2>7, Zenon
    <3>2. Eight(4 * (y % 16) + (z \div 64), z % 64, 4) = z
      BY <2>2, BytesOfLetters, Zenon
    <3>3. i = 3 * k + 3 => byte(i) = z
      BY <3>1, <3>2, Zenon
    <3> QED
      BY <2>3, <3>3, Zenon DEF z
  <2> QED
    <3> HIDE DEF x, y, z
    <3> QED
      BY <2>1, <2>8, <2>9, <2>10
<1> HIDE DEF byte
<1>7. bytes = [i \in 1..n |-> bytes[i]]
  BY DEF n
<1> QED
  BY <1>5, <1>6, <1>7


(* The keys are those of one pair from the first save on: the file holds   *)
(* what the last Load has read or made, the server has seen no other, and  *)
(* what was entered is what the file says, until the next clean end.       *)
Text == [Fields -> Texts]
HeldAccount == [fields : Text, public_key : Seq(0..255) \ {<<>>}, private_key : Seq(0..255) \ {<<>>}]
Written(own) == [fields |-> own.fields,
                  public_key |-> Base64Encode(own.public_key),
                  private_key |-> Base64Encode(own.private_key)]
SameKeys(xml, own) ==
    xml.public_key = Base64Encode(own.public_key) /\ xml.private_key = Base64Encode(own.private_key)

UserInv ==
    /\ client \in {"off", "init", "title", "world"}
    /\ options \in [Options -> Settings]
    /\ account_xml = Missing \/ \E own \in HeldAccount : account_xml = Written(own)
    /\ client \in {"title", "world"} =>
          account_xml # Missing /\ account \in HeldAccount /\ SameKeys(account_xml, account)
    /\ client = "title" => account_xml = Written(account)
    /\ fingerprints = {} \/ (account_xml # Missing /\ fingerprints = {Base64Decode(account_xml.public_key)})
    /\ entered = [account |-> entered.account, options |-> entered.options]
    /\ entered.account = Missing \/ (entered.account \in HeldAccount /\ account_xml = Written(entered.account))
    /\ entered.options = Missing \/ options_xml = entered.options
    /\ options_xml = Missing \/ options_xml \in [Options -> Settings]

LEMMA WrittenIsFile ==
    ASSUME NEW own \in HeldAccount
    PROVE  /\ Written(own) # Missing
           /\ Base64Decode(Written(own).public_key) = own.public_key
           /\ Base64Decode(Written(own).private_key) = own.private_key
           /\ Written(own).fields = own.fields
           /\ own.public_key # <<>> /\ own.private_key # <<>>
           /\ own = [fields |-> own.fields, public_key |-> own.public_key,
                      private_key |-> own.private_key]
<1>1. /\ own.fields \in Text /\ own.public_key \in Seq(0..255) /\ own.private_key \in Seq(0..255)
      /\ own.public_key # <<>> /\ own.private_key # <<>>
      /\ own = [fields |-> own.fields, public_key |-> own.public_key,
                 private_key |-> own.private_key]
  BY DEF HeldAccount
<1>2. /\ Base64Encode(own.public_key) \in Seq(0..Pad)
      /\ Base64Encode(own.private_key) \in Seq(0..Pad)
  BY <1>1, EncodedIsText
<1>3. Written(own) \in [fields : Text, public_key : Seq(0..Pad), private_key : Seq(0..Pad)]
  BY <1>1, <1>2 DEF Written
<1>4. Written(own) # Missing
  BY <1>3, UserFilesAssumption DEF Text
<1>5. /\ Base64Decode(Base64Encode(own.public_key)) = own.public_key
      /\ Base64Decode(Base64Encode(own.private_key)) = own.private_key
  BY <1>1, KeysAreReadAgain
<1> QED
  BY <1>1, <1>4, <1>5 DEF Written

LEMMA WhatIsLoaded ==
    ASSUME NEW pair \in KeyPairs, UserInv
    PROVE  /\ Loaded(pair) \in HeldAccount
           /\ \A own \in HeldAccount : account_xml = Written(own) => Loaded(pair) = own
<1>1. ASSUME NEW own \in HeldAccount, account_xml = Written(own) PROVE Loaded(pair) = own
  <2>1. account_xml # Missing /\ account_xml.fields = own.fields
        /\ Base64Decode(account_xml.public_key) = own.public_key
        /\ Base64Decode(account_xml.private_key) = own.private_key
        /\ own.public_key # <<>> /\ own.private_key # <<>>
    BY <1>1, WrittenIsFile
  <2>2. KeysRead(pair) = [public_key |-> own.public_key, private_key |-> own.private_key]
    BY <2>1 DEF KeysRead
  <2>3. Loaded(pair) = [fields |-> own.fields, public_key |-> own.public_key,
                        private_key |-> own.private_key]
    BY <2>1, <2>2 DEF Loaded
  <2> QED
    BY <2>3, WrittenIsFile
<1>2. ASSUME account_xml = Missing PROVE Loaded(pair) \in HeldAccount
  <2>1. KeysRead(pair) = pair
    BY <1>2 DEF KeysRead
  <2>2. Loaded(pair) = [fields |-> [f \in Fields |-> DefaultText], public_key |-> pair.public_key,
                        private_key |-> pair.private_key]
    BY <1>2, <2>1 DEF Loaded
  <2> QED
    BY <2>2, UserFilesAssumption DEF HeldAccount, Text
<1> QED
  BY <1>1, <1>2 DEF UserInv

LEMMA FilesStart == UserInit => UserInv
  BY UserFilesAssumption DEF UserInit, UserInv

LEMMA LoadOptionsKeeps == UserInv /\ LoadOptions => UserInv'
  BY UserFilesAssumption DEF LoadOptions, UserInv

LEMMA LoadAccountKeeps ==
    ASSUME NEW pair \in KeyPairs, UserInv, LoadAccount(pair)
    PROVE  UserInv'
<1> DEFINE read == Loaded(pair)
<1>1. read \in HeldAccount /\ \A own \in HeldAccount : account_xml = Written(own) => read = own
  BY WhatIsLoaded
<1>2. /\ client' = "title" /\ account' = read /\ account_xml' = Written(read)
      /\ UNCHANGED <<options, options_xml, fingerprints, entered>>
  BY DEF LoadAccount, SaveAccount, Written
<1> HIDE DEF read
<1>3. Written(read) # Missing /\ SameKeys(Written(read), read)
  BY <1>1, WrittenIsFile DEF SameKeys, Written
<1>4. account_xml = Missing \/ account_xml' = account_xml
  BY <1>1, <1>2 DEF UserInv
<1>5. fingerprints' = {} \/ (account_xml' # Missing /\ fingerprints' = {Base64Decode(account_xml'.public_key)})
  BY <1>2, <1>3, <1>4 DEF UserInv
<1>6. entered.account = Missing \/ (entered.account \in HeldAccount /\ account_xml' = Written(entered.account))
  BY <1>1, <1>2 DEF UserInv
<1> QED
  BY <1>1, <1>2, <1>3, <1>5, <1>6 DEF UserInv

LEMMA LogOnKeeps == UserInv /\ LogOn => UserInv'
<1> SUFFICES ASSUME UserInv, LogOn PROVE UserInv'
  OBVIOUS
<1>1. Base64Decode(account_xml.public_key) = account.public_key /\ account_xml # Missing
  <2>1. account \in HeldAccount /\ account_xml = Written(account) /\ account_xml # Missing
    BY DEF UserInv, LogOn
  <2> QED
    BY <2>1, WrittenIsFile
<1>2. fingerprints' = {Base64Decode(account_xml'.public_key)} /\ account_xml' # Missing
  BY <1>1 DEF UserInv, LogOn
<1> QED
  BY <1>2 DEF UserInv, LogOn

LEMMA UpdateFieldKeeps ==
    ASSUME NEW f \in Fields, NEW text \in Texts, UserInv, UpdateField(f, text)
    PROVE  UserInv'
<1>1. account \in HeldAccount /\ account' = [account EXCEPT !.fields[f] = text]
  BY DEF UserInv, UpdateField
<1>2. /\ account' \in HeldAccount
      /\ account'.public_key = account.public_key /\ account'.private_key = account.private_key
  BY <1>1 DEF HeldAccount, Text
<1> QED
  BY <1>2 DEF UserInv, UpdateField, SameKeys

LEMMA SetOptionKeeps ==
    ASSUME NEW o \in Options, NEW value \in Settings, UserInv, SetOption(o, value)
    PROVE  UserInv'
  BY DEF UserInv, SetOption

(* A save of the account that is loaded changes nothing about the keys.   *)
LEMMA SavedIsFile ==
    ASSUME UserInv, client \in {"title", "world"}, SaveAccount(account)
    PROVE  /\ account \in HeldAccount /\ account_xml' = Written(account) /\ account_xml' # Missing
           /\ account_xml'.public_key = account_xml.public_key
           /\ SameKeys(account_xml', account)
<1>1. account \in HeldAccount /\ SameKeys(account_xml, account) /\ account_xml' = Written(account)
  BY DEF UserInv, SaveAccount, Written
<1> QED
  BY <1>1, WrittenIsFile DEF SameKeys, Written

LEMMA WarpKeeps == UserInv /\ Warp => UserInv'
<1> SUFFICES ASSUME UserInv, Warp PROVE UserInv'
  OBVIOUS
<1>1. /\ account \in HeldAccount /\ account_xml' = Written(account) /\ account_xml' # Missing
      /\ account_xml'.public_key = account_xml.public_key
      /\ SameKeys(account_xml', account)
  BY SavedIsFile DEF Warp
<1>2. entered'.account = account /\ entered'.options = entered.options
      /\ entered' = [account |-> entered'.account, options |-> entered'.options]
  BY DEF Warp, UserInv
<1> QED
  BY <1>1, <1>2 DEF UserInv, Warp

LEMMA ExitKeeps == UserInv /\ Exit => UserInv'
<1> SUFFICES ASSUME UserInv, Exit PROVE UserInv'
  OBVIOUS
<1>1. /\ account \in HeldAccount /\ account_xml' = Written(account) /\ account_xml' # Missing
      /\ account_xml'.public_key = account_xml.public_key
  <2>1. CASE client = "world"
    BY <2>1, SavedIsFile DEF Exit
  <2>2. CASE client = "title"
    BY <2>2 DEF Exit, UserInv
  <2> QED
    BY <2>1, <2>2 DEF Exit
<1> QED
  BY <1>1 DEF UserInv, Exit, SaveOptions

LEMMA KillKeeps == UserInv /\ Kill => UserInv'
  BY DEF UserInv, Kill

LEMMA FilesStep == UserInv /\ [UserNext]_userVars => UserInv'
<1> SUFFICES ASSUME UserInv, [UserNext]_userVars PROVE UserInv'
  OBVIOUS
<1>1. CASE UNCHANGED userVars
  BY <1>1 DEF userVars, UserInv, SameKeys
<1>2. CASE UserNext
  BY <1>2, LoadOptionsKeeps, LogOnKeeps, WarpKeeps, ExitKeeps, KillKeeps, LoadAccountKeeps,
     UpdateFieldKeeps, SetOptionKeeps DEF UserNext
<1> QED
  BY <1>1, <1>2

LEMMA StartsAsEntered == UserInv /\ [UserNext]_userVars => [StartsWithWhatWasEntered]_userVars
<1> SUFFICES ASSUME UserInv, UserNext PROVE StartsWithWhatWasEntered
  OBVIOUS
<1>1. client = "off" /\ client' = "init" /\ entered.options # Missing => options' = entered.options
  <2> SUFFICES ASSUME client = "off", client' = "init", entered.options # Missing
               PROVE  options' = entered.options
    OBVIOUS
  <2>1. LoadOptions
    BY DEF UserNext, LogOn, Warp, Exit, Kill, LoadAccount, UpdateField, SetOption
  <2> QED
    BY <2>1 DEF LoadOptions, UserInv
<1>2. client = "init" /\ client' = "title" /\ entered.account # Missing => account' = entered.account
  <2> SUFFICES ASSUME client = "init", client' = "title", entered.account # Missing
               PROVE  account' = entered.account
    OBVIOUS
  <2>1. PICK pair \in KeyPairs : LoadAccount(pair)
    BY DEF UserNext, LoadOptions, LogOn, Warp, Exit, Kill, UpdateField, SetOption
  <2>2. entered.account \in HeldAccount /\ account_xml = Written(entered.account)
    BY DEF UserInv
  <2> QED
    BY <2>1, <2>2, WhatIsLoaded DEF LoadAccount
<1> QED
  BY <1>1, <1>2 DEF StartsWithWhatWasEntered

(* However the client ends, the server is shown one key of this user, and  *)
(* a start begins with what was entered (Load and Save of AccountManager   *)
(* and ConfigManager).                                                     *)
THEOREM ProfileIsKept == UserSpec => ProfileKept
<1>1. UserInv => Cardinality(fingerprints) <= 1
  <2>1. Cardinality({}) = 0 /\ \A k : Cardinality({k}) = 1
    BY FS_EmptySet, FS_Singleton
  <2> QED
    <3> SUFFICES ASSUME UserInv PROVE Cardinality(fingerprints) <= 1
      OBVIOUS
    <3>1. CASE fingerprints = {}
      BY <2>1, <3>1
    <3>2. CASE fingerprints = {Base64Decode(account_xml.public_key)}
      <4>1. Cardinality(fingerprints) = 1
        BY <2>1, <3>2, Zenon
      <4> QED
        BY <4>1
    <3> QED
      BY <3>1, <3>2 DEF UserInv
<1> QED
  BY <1>1, FilesStart, FilesStep, StartsAsEntered, PTL DEF UserSpec, ProfileKept
=============================================================================
