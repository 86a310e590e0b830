------------------------------- MODULE Plugins -------------------------------
(***************************************************************************)
(* The plugins of the client and who waits for whom.  Every card has an    *)
(* isolate that one thread at a time may be in.  CardManager tells its     *)
(* cards of events one after the other; ScriptEnvironment::TimedWith runs  *)
(* each handler on a thread of its own and joins it, with a time limit;    *)
(* With (Execute, Plugin.run, the console of the input box) stays on the   *)
(* caller's thread.  A script may ask for a rebuild of the model or the    *)
(* music list, which tells all cards again, from inside the first handler. *)
(*                                                                         *)
(* A thread of control is its stack of calls.  What a script computes is   *)
(* left out; when it is in the isolate it may call back or return.  The    *)
(* timers themselves are in ScriptTimers, which has the lock of their list.*)
(***************************************************************************)
EXTENDS Integers, Sequences, SequencesExt

CONSTANTS
    Cards,       \* cards_ of CardManager, in order
    Rebuilders,  \* cards whose scripts call Model.rebuild or Music.rebuild
    Listeners,   \* cards whose scripts set Model.onReload or Music.onReload
    Starters,    \* <<c, d>>: c's scripts call Plugin.run with the name of d
    MaxEvents    \* bound on the events of a thread

CardSet == ToSet(Cards)
NoCard == "native"

\* The plugins that come with the client: who rebuilds the lists does not listen
\* to it, who listens does nothing else, and nobody is started by one he starts.
ASSUME PluginsAssumption ==
    /\ Cards \in Seq(CardSet) /\ IsInjective(Cards) /\ NoCard \notin CardSet
    /\ Rebuilders \subseteq CardSet /\ Listeners \subseteq CardSet \ Rebuilders
    /\ Starters \subseteq (CardSet \ Listeners) \X CardSet
    /\ \A p \in Starters : p[1] # p[2] /\ <<p[2], p[1]>> \notin Starters
    /\ MaxEvents \in Nat

VARIABLES
    stack,       \* of each thread, the calls it is in
    handlers,    \* cards whose on_reload_ is set
    struck,      \* cards whose isolate has a termination pending
    events       \* events each thread has had

pluginsVars == <<stack, handlers, struck, events>>

\* The main loop, and the timer thread of each card.
Threads == {"main"} \cup CardSet

\* `todo`: the cards this call has still to call; `limit`: with TimedWith;
\* `calls`: whom it calls, of which "listeners" are told only if they have a
\* handler; `in`: it has the isolate.
Native(todo, limit) ==
    [card |-> NoCard, in |-> TRUE, timed |-> FALSE, spent |-> FALSE, todo |-> todo,
     limit |-> limit, calls |-> "nobody"]
CallOf(c, timed) ==
    [card |-> c, in |-> FALSE, timed |-> timed, spent |-> FALSE, todo |-> <<>>,
     limit |-> FALSE, calls |-> "nobody"]

PluginsInit ==
    /\ stack = [t \in Threads |-> <<>>]
    /\ handlers = {} /\ struck = {}
    /\ events = [t \in Threads |-> 0]

Depths(t) == DOMAIN stack[t]
Top(t) == Last(stack[t])

\* The system thread a call is on: a timed call is on one of its own.
On(t, i) ==
    LET timed == {j \in 1..i : stack[t][j].timed}
    IN  <<t, IF timed = {} THEN 0 ELSE CHOOSE j \in timed : \A k \in timed : k <= j>>

\* The system threads inside the isolate of a card.
Inside(c) ==
    {On(x[1], x[2]) : x \in {y \in UNION {{t} \X Depths(t) : t \in Threads} :
                               LET call == stack[y[1]][y[2]] IN call.card = c /\ call.in}}

\* A script that is being executed, with nothing between it and V8.
Executing(t) ==
    /\ stack[t] # <<>> /\ Top(t).card # NoCard /\ Top(t).in /\ Top(t).todo = <<>>

SetTop(t, call) == stack' = [stack EXCEPT ![t] = Append(Front(@), call)]
Push(t, todo, call) ==
    stack' = [stack EXCEPT ![t] = Append(Append(Front(@), [Last(@) EXCEPT !.todo = todo]), call)]

\* Cards that have a handler for an event, in their order.
Handling ==
    {some \in UNION {[1..n -> CardSet] : n \in 1..Len(Cards)} :
        \A i, j \in DOMAIN some : i < j =>
            \E k, l \in DOMAIN Cards : k < l /\ some[i] = Cards[k] /\ some[j] = Cards[l]}

\* OnReceiveJSON, OnLogin, OnLogout and onEnter on the main thread call handlers
\* of some cards in their order; a console line and a plugin that is started at
\* the beginning are executed without a limit.  A timer thread calls its card.
EventComes(t) ==
    /\ stack[t] = <<>> /\ events[t] < MaxEvents
    /\ events' = [events EXCEPT ![t] = @ + 1]
    /\ \/ /\ t = "main"
          /\ \E some \in Handling, limit \in BOOLEAN :
               /\ ~limit => Len(some) = 1
               /\ stack' = [stack EXCEPT ![t] = <<Native(some, limit)>>]
       \/ /\ t # "main"
          /\ stack' = [stack EXCEPT ![t] = <<Native(<<t>>, TRUE)>>]
    /\ UNCHANGED <<handlers, struck>>

\* Card::OnModelReload calls only a handler that was set.
Told(c) == c \in handlers

\* The next card of those a call has to call.
CallNext(t) ==
    /\ stack[t] # <<>> /\ Top(t).todo # <<>>
    /\ LET c == Head(Top(t).todo)
       IN  IF Top(t).calls = "listeners" /\ ~Told(c)
           THEN SetTop(t, [Top(t) EXCEPT !.todo = Tail(@)])
           ELSE Push(t, Tail(Top(t).todo), CallOf(c, Top(t).limit))
    /\ UNCHANGED <<handlers, struck, events>>

\* Mutant of Free: the isolate is entered without a Locker.
FreeAlways(t) == TRUE

\* Locker locker(isolate_): a thread that is inside may enter again.
Free(t) == Inside(Top(t).card) \subseteq {On(t, Len(stack[t]))}

EnterIsolate(t) ==
    /\ stack[t] # <<>> /\ ~Top(t).in /\ Free(t)
    /\ SetTop(t, [Top(t) EXCEPT !.in = TRUE])
    /\ UNCHANGED <<handlers, struck, events>>

\* Property_set_Model_onReload and Property_set_Music_onReload
SetOnReload(t) ==
    /\ Executing(t) /\ Top(t).card \in Listeners \ struck
    /\ handlers' = handlers \cup {Top(t).card}
    /\ UNCHANGED <<stack, struck, events>>

\* Function_Model_Rebuild and Function_Music_Rebuild, once in a call of a script
Rebuild(t) ==
    /\ Executing(t) /\ Top(t).card \in Rebuilders \ struck /\ Top(t).calls = "nobody"
    /\ SetTop(t, [Top(t) EXCEPT !.todo = Cards, !.limit = TRUE, !.calls = "listeners"])
    /\ UNCHANGED <<handlers, struck, events>>

\* Function_Plugin_Run, likewise
RunPlugin(t) ==
    /\ Executing(t) /\ Top(t).card \notin struck /\ Top(t).calls = "nobody"
    /\ \E d \in {d \in CardSet : <<Top(t).card, d>> \in Starters} :
         SetTop(t, [Top(t) EXCEPT !.todo = <<d>>, !.calls = "plugin"])
    /\ UNCHANGED <<handlers, struck, events>>

\* A script ends, and V8 forgets the termination with the last script of the
\* isolate; the native caller ends when it has called everybody.
Return(t) ==
    /\ stack[t] # <<>> /\ Top(t).in /\ Top(t).todo = <<>>
    /\ stack' = [stack EXCEPT ![t] = Front(@)]
    /\ struck' = IF \E i \in 1..(Len(stack[t]) - 1) : stack[t][i].card = Top(t).card
                 THEN struck ELSE struck \ {Top(t).card}
    /\ UNCHANGED <<handlers, events>>

\* timed_join gives up, once: Terminate stops the script of the isolate as soon
\* as it is in V8, whoever's it is.  With nobody inside nothing is stopped.
LimitPasses(t) ==
    /\ \E i \in Depths(t) :
         /\ stack[t][i].timed /\ ~stack[t][i].spent
         /\ stack' = [stack EXCEPT ![t][i].spent = TRUE]
         /\ struck' = IF Inside(stack[t][i].card) = {} THEN struck
                      ELSE struck \cup {stack[t][i].card}
    /\ UNCHANGED <<handlers, events>>

PluginsNext ==
    \E t \in Threads :
        \/ EventComes(t) \/ CallNext(t) \/ EnterIsolate(t) \/ SetOnReload(t) \/ Rebuild(t)
        \/ RunPlugin(t) \/ Return(t) \/ LimitPasses(t)

\* Threads run, a lock that is free again and again is got, and scripts end.
PluginsFair ==
    \A t \in Threads : WF_pluginsVars(CallNext(t) \/ Return(t)) /\ SF_pluginsVars(EnterIsolate(t))

PluginsSpec == PluginsInit /\ [][PluginsNext]_pluginsVars /\ PluginsFair

-----------------------------------------------------------------------------

\* Every event comes to its end: no thread stays in a call for ever, whichever
\* plugins tell each other of what at the same time.
EventsEnd == \A t \in Threads : []<>(stack[t] = <<>>)

\* Plugins that call each other from several threads exclude each other without
\* waiting for each other for ever: one system thread at a time is in an isolate,
\* although a script may be called again from a script it called; no thread waits
\* for itself; and every event ends.
PluginsKept ==
    /\ [](\A c \in CardSet : Cardinality(Inside(c)) <= 1)
    /\ [](\A t \in Threads :
             stack[t] # <<>> /\ ~Top(t).in =>
                 \A x \in Inside(Top(t).card) : x[1] # t \/ x = On(t, Len(stack[t])))
    /\ EventsEnd
=============================================================================
