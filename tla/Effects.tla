------------------------------ MODULE Effects ------------------------------
(***************************************************************************)
(* Effects of jquery-1.7.2.js on one element: fadeIn, fadeOut, fadeToggle  *)
(* and delay wait in its queue fx and run one after the other, driven by   *)
(* timers, unless stop() ends one early or empties the queue.  What runs   *)
(* at its end may call all of these again, and promise() waits for all.    *)
(*                                                                         *)
(* One JavaScript function calls another: the variable todo is the stack   *)
(* of what is still to be done, its last element first.  Left out:         *)
(* animations of several properties, without a queue or of no duration,    *)
(* other queues, and easing: an animation takes a step on its way, at half *)
(* opacity, and the last one.                                              *)
(***************************************************************************)
EXTENDS Integers, FiniteSets, Sequences, SequencesExt

CONSTANT MaxCalls   \* bound: methods called by scripts

ASSUME EffectsAssumption == MaxCalls \in Nat

VARIABLES
    shown, opacity,     \* the element's style; Full is also that of no opacity
    fxshow, toggled,    \* data of the element: the opacity to go back to, and
                        \* what fadeToggle does next, or neither
    queues,             \* the arrays that are, or were, the queue
    inUse,              \* the one that the element's data holds, or 0
    hooks,              \* the delay that stop() in fx.run would end, or 0
    timers, delays,     \* jQuery.timers, and the timeouts of delays
    deferred,           \* the promise that waits for the queue, or not
    deferTimers,        \* timeouts set by handleQueueMarkDefer
    todo,
    made,               \* methods called; numbers effects
    finished,          \* effects whose function was called (not of the code)
    misused             \* such a function called stop(), or queued an effect when
                        \* stop() had emptied the queue before; or stop() did that
                        \* during a delay (not of the code)

styleVars == <<shown, opacity, fxshow, toggled>>
queueVars == <<queues, inUse, hooks>>
promiseVars == <<deferred, deferTimers>>
ghostVars == <<finished, misused>>
effectVars == <<styleVars, queueVars, timers, delays, promiseVars, todo, made, ghostVars>>

Full == 2
None == "none"
Unset == -1
InProgress == [do |-> "inprogress", id |-> 0]

EffectsInit ==
    /\ shown \in BOOLEAN /\ opacity = Full /\ fxshow = Unset /\ toggled = None
    /\ queues = [i \in 1..MaxCalls |-> <<>>] /\ inUse = 0 /\ hooks = 0
    /\ timers = <<>> /\ delays = {}
    /\ deferred = FALSE /\ deferTimers = 0
    /\ todo = <<>> /\ made = 0
    /\ finished = <<>> /\ misused = FALSE

-----------------------------------------------------------------------------
(* Calls of scripts: between events, or in a function called at an end. *)

Completion == [do |-> "script"]
DequeueNext == [do |-> "dequeue"]

EffectScriptRuns == todo # <<>> => Last(todo) = Completion

Calls == EffectScriptRuns /\ made < MaxCalls /\ made' = made + 1

FxQueue == IF inUse = 0 THEN <<>> ELSE queues[inUse]

\* fadeIn, fadeOut, fadeToggle and delay, through queue().
Enqueue ==
    /\ Calls
    /\ \E do \in {"show", "hide", "toggle", "delay"} :
          LET id == IF inUse = 0 THEN made' ELSE inUse
              waiting == Append(FxQueue, [do |-> do, id |-> made'])
          IN  /\ queues' = [queues EXCEPT ![id] = waiting]
              /\ inUse' = id
              /\ todo' = IF Head(waiting) # InProgress THEN Append(todo, DequeueNext) ELSE todo
    /\ misused' = (misused \/ (inUse = 0 /\ \E f \in ToSet(todo) : f.do = "stopped"))
    /\ UNCHANGED <<styleVars, hooks, timers, delays, promiseVars, finished>>

\* stop(), to begin with clearQueue.
Stop ==
    /\ Calls
    /\ \E clear, toEnd \in BOOLEAN :
          /\ todo' = todo \o <<[do |-> "stop", toEnd |-> toEnd]>>
                          \o (IF clear THEN <<DequeueNext>> ELSE <<>>)
          /\ queues' = IF clear THEN [queues EXCEPT ![made'] = <<>>] ELSE queues
          /\ inUse' = IF clear THEN made' ELSE inUse
          /\ misused' = (misused \/ todo # <<>> \/ (clear /\ delays # {}))
    /\ UNCHANGED <<styleVars, hooks, timers, delays, promiseVars, finished>>

\* With nothing in the queue the promise is kept at once.
MakePromise ==
    /\ EffectScriptRuns /\ ~deferred /\ inUse # 0
    /\ deferred' = TRUE
    /\ UNCHANGED <<styleVars, queueVars, timers, delays, deferTimers, todo, made, ghostVars>>

-----------------------------------------------------------------------------
(* What is on the stack. *)

Doing(what) == todo # <<>> /\ Last(todo).do = what
Caller == Front(todo)

ScriptReturns ==
    /\ Doing("script")
    /\ todo' = Caller
    /\ UNCHANGED <<styleVars, queueVars, timers, delays, promiseVars, made, ghostVars>>

\* Mutant: nobody looks at the promise when the queue is gone.
ForgetQueue_KeepsPromise == inUse' = 0 /\ hooks' = 0 /\ UNCHANGED promiseVars

\* Both end of dequeue(), and _unmark() which does no more without a queue.
ForgetQueue ==
    /\ inUse' = 0 /\ hooks' = 0
    /\ deferTimers' = IF deferred THEN deferTimers + 1 ELSE deferTimers
    /\ UNCHANGED deferred

\* opt.complete of an effect.
EffectEnds == <<DequeueNext, Completion>>

\* doAnimation, with the functions show, hide and custom of fx.  What a stopped
\* fadeToggle left decides for fadeIn and fadeOut as well.
StartFade(f, stack) ==
    LET toggles == f.do = "toggle" \/ toggled # None
        method == IF toggled # None THEN toggled
                  ELSE IF f.do = "toggle" THEN IF shown THEN "hide" ELSE "show" ELSE f.do
        shows == method = "show"
        remembered == IF fxshow \in {Unset, 0} THEN opacity ELSE fxshow
        from == IF shows /\ fxshow = Unset THEN 0 ELSE opacity
        to == IF ~shows THEN 0 ELSE IF fxshow = Unset THEN opacity ELSE fxshow
    IN  IF (f.do = "show" /\ shown) \/ (f.do = "hide" /\ ~shown)
        THEN /\ todo' = stack \o EffectEnds
             /\ finished' = Append(finished, f.id)
             /\ UNCHANGED <<styleVars, timers>>
        ELSE /\ todo' = stack
             /\ timers' = Append(timers, [id |-> f.id, shows |-> shows, start |-> from,
                                          end |-> to, orig |-> remembered,
                                          halfway |-> FALSE, complete |-> TRUE])
             /\ opacity' = from
             /\ shown' = (shown \/ shows)
             /\ toggled' = IF ~toggles THEN None ELSE IF shows THEN "hide" ELSE "show"
             /\ UNCHANGED <<fxshow, finished>>

\* Mutant: nothing makes other effects wait.
Running_NoSentinel(waiting) == Tail(waiting)

Running(waiting) == <<InProgress>> \o Tail(waiting)

Dequeue ==
    /\ Doing("dequeue")
    /\ LET marked == FxQueue # <<>> /\ Head(FxQueue) = InProgress
           waiting == IF marked THEN Tail(FxQueue) ELSE FxQueue
       IN  IF waiting = <<>>
           THEN /\ queues' = IF inUse = 0 THEN queues ELSE [queues EXCEPT ![inUse] = <<>>]
                /\ ForgetQueue
                /\ todo' = Caller
                /\ UNCHANGED <<styleVars, timers, delays, finished>>
           ELSE LET f == Head(waiting)
                    stack == Append(Caller, [do |-> "dequeued", queue |-> inUse])
                IN  /\ queues' = [queues EXCEPT ![inUse] = Running(waiting)]
                    /\ UNCHANGED <<inUse, promiseVars>>
                    /\ IF f.do = "delay"
                       THEN /\ delays' = delays \cup {f.id} /\ hooks' = f.id
                            /\ todo' = stack
                            /\ UNCHANGED <<styleVars, timers, finished>>
                       ELSE /\ hooks' = 0 /\ UNCHANGED delays
                            /\ StartFade(f, stack)
    /\ UNCHANGED <<made, misused>>

\* The last lines of dequeue(), which look at the array it has taken from.
Dequeued ==
    /\ Doing("dequeued")
    /\ IF queues[Last(todo).queue] = <<>> THEN ForgetQueue
       ELSE UNCHANGED <<inUse, hooks, promiseVars>>
    /\ todo' = Caller
    /\ UNCHANGED <<styleVars, queues, timers, delays, made, ghostVars>>

-----------------------------------------------------------------------------
(* Timers. *)

\* The last step of timer i, called over the stack.
LastStep(i, stack) ==
    LET t == timers[i]
    IN  /\ opacity' = t.orig
        /\ shown' = (shown /\ t.shows)
        /\ fxshow' = Unset /\ toggled' = None
        /\ timers' = [timers EXCEPT ![i].complete = FALSE]
        /\ todo' = IF t.complete THEN stack \o EffectEnds ELSE stack
        /\ finished' = IF t.complete THEN Append(finished, t.id) ELSE finished

\* Mutant: what an opacity was before is remembered in any case.
SaveState_Always(t) == fxshow' = IF t.shows THEN t.end ELSE t.start

SaveState(t) ==
    fxshow' = IF fxshow # Unset THEN fxshow ELSE IF t.shows THEN t.end ELSE t.start

Splice(i) == timers' = RemoveAt(timers, i)

Tick ==
    /\ todo = <<>> /\ timers # <<>>
    /\ todo' = <<[do |-> "tick", i |-> 1]>>
    /\ UNCHANGED <<styleVars, queueVars, timers, delays, promiseVars, made, ghostVars>>

\* A turn of the loop of tick().
TickTimer ==
    /\ Doing("tick")
    /\ LET i == Last(todo).i
           next == Append(Caller, [do |-> "tick", i |-> i + 1])
       IN  \/ /\ i > Len(timers)
              /\ todo' = Caller
              /\ UNCHANGED <<styleVars, timers, finished>>
           \/ /\ i <= Len(timers) /\ ~timers[i].halfway
              /\ opacity' = 1
              /\ timers' = [timers EXCEPT ![i].halfway = TRUE]
              /\ todo' = next
              /\ UNCHANGED <<shown, fxshow, toggled, finished>>
           \/ /\ i <= Len(timers)
              /\ LastStep(i, Append(Caller, [do |-> "ticked", i |-> i, id |-> timers[i].id]))
    /\ UNCHANGED <<queueVars, delays, promiseVars, made, misused>>

Ticked ==
    /\ Doing("ticked")
    /\ LET i == Last(todo).i
           still == i <= Len(timers) /\ timers[i].id = Last(todo).id
       IN  /\ IF still THEN Splice(i) ELSE UNCHANGED timers
           /\ todo' = Append(Caller, [do |-> "tick", i |-> IF still THEN i ELSE i + 1])
    /\ UNCHANGED <<styleVars, queueVars, delays, promiseVars, made, ghostVars>>

DelayTimer ==
    /\ todo = <<>>
    /\ \E id \in delays :
          /\ delays' = delays \ {id}
          /\ todo' = <<DequeueNext>>
    /\ UNCHANGED <<styleVars, queueVars, timers, promiseVars, made, ghostVars>>

DeferTimer ==
    /\ todo = <<>> /\ deferTimers > 0
    /\ deferTimers' = deferTimers - 1
    /\ deferred' = (deferred /\ inUse # 0)
    /\ UNCHANGED <<styleVars, queueVars, timers, delays, todo, made, ghostVars>>

-----------------------------------------------------------------------------
\* stop(), after clearQueue: _unmark, and the delay that is running.
StopDelay ==
    /\ Doing("stop")
    /\ LET toEnd == Last(todo).toEnd
       IN  /\ deferTimers' = IF ~toEnd /\ deferred /\ inUse = 0 THEN deferTimers + 1
                             ELSE deferTimers
           /\ todo' = Append(Caller, [do |-> "stopTimers", toEnd |-> toEnd,
                                      i |-> Len(timers), had |-> FALSE])
    /\ delays' = delays \ {hooks} /\ hooks' = 0
    /\ UNCHANGED <<styleVars, queues, inUse, timers, deferred, made, ghostVars>>

\* A turn of the loop of stop(), from the last timer down.  Asking a timer that
\* went away meanwhile whose it is throws; with effects one at a time, as
\* OneEffectAtATime says they are, none does.
StopTimer ==
    /\ Doing("stopTimers") /\ Last(todo).i > 0
    /\ LET s == Last(todo)
           next == [s EXCEPT !.i = @ - 1, !.had = TRUE]
       IN  \/ /\ s.i > Len(timers)
              /\ todo' = <<>>
              /\ UNCHANGED <<styleVars, timers, finished>>
           \/ /\ s.i <= Len(timers) /\ ~s.toEnd
              /\ SaveState(timers[s.i])
              /\ Splice(s.i)
              /\ todo' = Append(Caller, next)
              /\ UNCHANGED <<shown, opacity, toggled, finished>>
           \/ /\ s.i <= Len(timers) /\ s.toEnd
              /\ LastStep(s.i, Append(Caller, [next EXCEPT !.do = "stopped"]))
    /\ UNCHANGED <<queueVars, delays, promiseVars, made, misused>>

\* Whatever timer is there by then is taken out.
Stopped ==
    /\ Doing("stopped")
    /\ IF Last(todo).i < Len(timers) THEN Splice(Last(todo).i + 1) ELSE UNCHANGED timers
    /\ todo' = Append(Caller, [Last(todo) EXCEPT !.do = "stopTimers"])
    /\ UNCHANGED <<styleVars, queueVars, delays, promiseVars, made, ghostVars>>

StopEnds ==
    /\ Doing("stopTimers") /\ Last(todo).i = 0
    /\ todo' = IF Last(todo).toEnd /\ Last(todo).had THEN Caller
               ELSE Append(Caller, DequeueNext)
    /\ UNCHANGED <<styleVars, queueVars, timers, delays, promiseVars, made, ghostVars>>

RunEffects ==
    \/ ScriptReturns \/ Dequeue \/ Dequeued \/ TickTimer \/ Ticked
    \/ StopDelay \/ StopTimer \/ Stopped \/ StopEnds

EffectsNext ==
    \/ Enqueue \/ Stop \/ MakePromise
    \/ RunEffects \/ Tick \/ DelayTimer \/ DeferTimer

\* Functions return, and timers go off.
EffectsFairness ==
    /\ WF_effectVars(RunEffects) /\ WF_effectVars(Tick)
    /\ WF_effectVars(DelayTimer) /\ WF_effectVars(DeferTimer)

EffectsSpec == EffectsInit /\ [][EffectsNext]_effectVars /\ EffectsFairness

-----------------------------------------------------------------------------
\* However effects are queued, also at the ends of others, stopped between the
\* events and forgotten: one runs at a time, behind the sentinel that makes
\* others wait, and they end in the order in which they were queued, each once.
\* Two may run after one of the calls that misused tells of: any stop() in a
\* function at an end, for one.
OneEffectAtATime ==
    LET running == {i \in DOMAIN timers : timers[i].complete}
    IN  ~misused =>
          /\ Cardinality(running) + Cardinality(delays) <= 1
          /\ running # {} \/ delays # {} =>
                \/ FxQueue # <<>> /\ Head(FxQueue) = InProgress
                \/ \E f \in ToSet(todo) : f.do \in {"stop", "stopTimers"}
          /\ \A i, j \in DOMAIN finished : i < j => finished[i] < finished[j]

\* An element never loses its opacity by fades that are stopped half way: when
\* it is hidden it has its opacity for the next time, and when it is left half
\* faded its opacity is remembered.
FadesRestore ==
    todo = <<>> /\ timers = <<>> /\ ~misused =>
        /\ fxshow = Unset => opacity = Full
        /\ ~shown => opacity = Full
        /\ fxshow \in {Unset, Full}

\* A promise for the element's effects is kept once they are over or stopped.
PromiseOfEffects == deferred ~> (~deferred \/ misused)
=============================================================================
