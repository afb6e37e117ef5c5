------------------------------- MODULE Events -------------------------------
(***************************************************************************)
(* The events of jquery-1.7.2.js, by which the pages and all widgets are   *)
(* driven: functions bound to an element, directly, or for the elements    *)
(* inside it that match a selector, or for one call only; and an event     *)
(* that bubbles up and calls them, while each of them may bind, unbind and *)
(* trigger another event.                                                  *)
(*                                                                         *)
(* There is one type of event, which is how the functions of one type see  *)
(* it.  Left out: special types, properties of the event, default actions, *)
(* exclusive events, and functions that throw.                             *)
(***************************************************************************)
EXTENDS Integers, FiniteSets, Sequences, SequencesExt, Lists

CONSTANTS
    Depth,      \* elements on the path of events; element n is in n + 1
    Fn,         \* functions of scripts
    Space,      \* namespaces; NoSpace stands for none
    MaxEvents,  \* bound: events under way at a time
    MaxBinds    \* bound: calls of on() and off()

NoSpace == "none"

ASSUME EventsAssumption ==
    /\ {Depth, MaxEvents, MaxBinds} \subseteq Nat
    /\ NoSpace \in Space

VARIABLES
    bound,          \* of each element: its handleObjs, in order
    delegateCount,  \* of each element
    events,         \* the stack of events under way, see Trigger
    binds,          \* calls so far; numbers the handleObjs
    spent, again,   \* those for one call that have been called, and that have
                    \* been called again (not of the code)
    overtaken       \* those called by an event while one below it on the stack
                    \* had still to call them (not of the code)

onceVars == <<spent, again, overtaken>>
eventVars == <<bound, delegateCount, events, binds, onceVars>>

Element == 1..Depth

\* A selector is known by the one element on the path that it matches.
NotDelegated == 0

EventsInit ==
    /\ bound = [n \in Element |-> <<>>]
    /\ delegateCount = [n \in Element |-> 0]
    /\ events = <<>>
    /\ binds = 0
    /\ spent = {} /\ again = {} /\ overtaken = {}

-----------------------------------------------------------------------------
\* Scripts run between events, or in a function called by the last one.
EventScriptRuns == events # <<>> => Last(events).running # 0

Bind == EventScriptRuns /\ binds < MaxBinds /\ binds' = binds + 1

\* Mutant: delegates come last like all others.
Add_Appends(list, h, delegates) == Append(list, h)

Add(list, h, delegates) ==
    IF h.selector = NotDelegated THEN Append(list, h)
    ELSE InsertAt(list, delegates + 1, h)

\* on() and one()
On(n) ==
    /\ Bind
    /\ \E f \in Fn, s \in {NotDelegated} \cup 1..(n - 1), ns \in Space, one \in BOOLEAN :
          LET h == [id |-> binds', fn |-> f, selector |-> s, namespace |-> ns, one |-> one]
          IN  /\ bound' = [bound EXCEPT ![n] = Add(@, h, delegateCount[n])]
              /\ delegateCount' = [delegateCount EXCEPT ![n] = IF s = NotDelegated THEN @ ELSE @ + 1]
    /\ UNCHANGED <<events, onceVars>>

\* What a call of off() with these arguments removes; an argument that is not
\* given, by Fn, NoSpace or NotDelegated, excludes nothing.
Matching(n, fns, ns, s) ==
    {h \in ToSet(bound[n]) : /\ h.fn \in fns
                             /\ ns \in {NoSpace, h.namespace}
                             /\ s \in {NotDelegated, h.selector}}

RemoveAll(n, gone) ==
    /\ bound' = [bound EXCEPT ![n] = Kept(@, ToSet(@) \ gone)]
    /\ delegateCount' = [delegateCount EXCEPT
            ![n] = @ - Cardinality({h \in gone : h.selector # NotDelegated})]

Off(n) ==
    /\ Bind
    /\ \E fns \in {{f} : f \in Fn} \cup {Fn}, ns \in Space, s \in {NotDelegated} \cup 1..(n - 1) :
          RemoveAll(n, Matching(n, fns, ns, s))
    /\ UNCHANGED <<events, onceVars>>

-----------------------------------------------------------------------------
\* The functions of a list, to be called at element n for element e.
CallsFor(n, e, list) == [i \in DOMAIN list |-> [at |-> n, for |-> e, h |-> list[i]]]

\* What dispatch() will call when the event reaches element n: the delegates of
\* each element from the target on, and then what is bound to n directly.
HandlerQueue(n, target, ns) ==
    LET runs == {h \in ToSet(bound[n]) : ns \in {NoSpace, h.namespace}}
        delegates == SubSeq(bound[n], 1, delegateCount[n])
        others == SubSeq(bound[n], delegateCount[n] + 1, Len(bound[n]))
        Matched(e) == CallsFor(n, e, Kept(delegates, {h \in runs : h.selector = e}))
    IN  FlattenSeq([i \in 1..(n - target) |-> Matched(target + i - 1)])
            \o CallsFor(n, n, Kept(others, runs))

\* An event of the browser has no namespace.
Trigger(n) ==
    /\ EventScriptRuns /\ Len(events) < MaxEvents
    /\ \E ns \in Space :
          events' = Append(events, [target |-> n, namespace |-> ns, at |-> n,
                                    queue |-> HandlerQueue(n, n, ns), stopped |-> FALSE,
                                    running |-> 0,      \* the handleObj called
                                    called |-> <<>>])   \* (not of the code)
    /\ UNCHANGED <<bound, delegateCount, binds, onceVars>>

Event == Last(events)
Becomes(e) == events' = Append(Front(events), e)

Call(e, next) == [e EXCEPT !.queue = Tail(@), !.running = next.h.id, !.called = Append(@, next)]

WaitsBelow(id) ==
    \E i \in 1..(Len(events) - 1) : \E j \in DOMAIN events[i].queue : events[i].queue[j].h.id = id

Note(h) ==
    IF h.one
    THEN /\ spent' = spent \cup {h.id}
         /\ again' = again \cup ({h.id} \cap spent)
         /\ overtaken' = IF WaitsBelow(h.id) THEN overtaken \cup {h.id} ELSE overtaken
    ELSE UNCHANGED onceVars

\* Mutant: a function for one call is taken off by its return.
CallNext_KeepsOne ==
    /\ events # <<>> /\ Event.running = 0 /\ Event.queue # <<>>
    /\ LET next == Head(Event.queue)
       IN  /\ Becomes(Call(Event, next))
           /\ Note(next.h)
           /\ UNCHANGED <<bound, delegateCount>>
    /\ UNCHANGED binds

\* A function for one call first calls off(event).
CallNext ==
    /\ events # <<>> /\ Event.running = 0 /\ Event.queue # <<>>
    /\ LET next == Head(Event.queue)
           h == next.h
       IN  /\ Becomes(Call(Event, next))
           /\ Note(h)
           /\ IF h.one THEN RemoveAll(next.at, Matching(next.at, {h.fn}, h.namespace, h.selector))
              ELSE UNCHANGED <<bound, delegateCount>>
    /\ UNCHANGED binds

\* stopPropagation lets what is bound for the same element run.
HandlerReturns ==
    /\ events # <<>> /\ Event.running # 0
    /\ LET for == Last(Event.called).for
           back == [Event EXCEPT !.running = 0]
       IN  \/ Becomes(back)
           \/ Becomes([back EXCEPT !.stopped = TRUE,
                                   !.queue = Kept(@, {q \in ToSet(@) : q.for = for})])
           \/ Becomes([back EXCEPT !.stopped = TRUE, !.queue = <<>>])
    /\ UNCHANGED <<bound, delegateCount, binds, onceVars>>

BubbleUp ==
    /\ events # <<>> /\ Event.running = 0 /\ Event.queue = <<>>
    /\ IF Event.stopped \/ Event.at = Depth THEN events' = Front(events)
       ELSE Becomes([Event EXCEPT
                !.at = @ + 1, !.queue = HandlerQueue(Event.at + 1, Event.target, Event.namespace)])
    /\ UNCHANGED <<bound, delegateCount, binds, onceVars>>

EventsNext ==
    \/ \E n \in Element : On(n) \/ Off(n) \/ Trigger(n)
    \/ CallNext \/ HandlerReturns \/ BubbleUp

EventsSpec == EventsInit /\ [][EventsNext]_eventVars

-----------------------------------------------------------------------------
\* Whatever is bound and unbound meanwhile: an event calls the functions of an
\* inner element before those of an outer one, what is delegated at an element
\* before what is bound to it directly and from the target outwards, and else
\* in the order of binding; nothing is called twice, and only for an element
\* its selector matches.
EventsBubble ==
    \A k \in DOMAIN events :
        LET called == events[k].called
        IN  /\ \A i \in DOMAIN called :
                  called[i].for = IF called[i].h.selector = NotDelegated THEN called[i].at
                                  ELSE called[i].h.selector
            /\ \A i, j \in DOMAIN called : i < j =>
                  \/ called[i].at < called[j].at
                  \/ /\ called[i].at = called[j].at
                     /\ \/ called[i].for < called[j].for
                        \/ /\ called[i].for = called[j].for
                           /\ called[i].h.id < called[j].h.id

\* A function bound for one call is called once, also by the events that it
\* triggers itself, unless another function triggers an event while the first
\* event still has it to call.
OneIsCalledOnce == again \subseteq overtaken
=============================================================================
