----------------------------- MODULE Callbacks -----------------------------
(***************************************************************************)
(* jQuery.Callbacks, jQuery.Deferred and jQuery.when (jquery-1.7.2.js):    *)
(* lists of functions that are called one after the other, while any of    *)
(* them may add to the list, remove from it, fire it again, fire another   *)
(* list or throw.  Everything that the console's pages do after a request  *)
(* is called through such lists.                                           *)
(*                                                                         *)
(* JavaScript runs one thing at a time: the variable calls is its stack.   *)
(* Left out: the context and the number of the arguments, of which one     *)
(* value is kept, and pipe.                                                *)
(***************************************************************************)
EXTENDS Integers, FiniteSets, Sequences, SequencesExt, Lists

CONSTANTS
    Scripts,        \* which lists the scripts of a page use, see Layout
    MaxOps          \* bound, for each of them: calls of the lists' methods

Flag == {"once", "memory", "unique", "stopOnFalse"}
Deferreds == {"d", "e", "w"}
Kind == {"done", "fail", "progress"}

\* A page has one list of its own making with some flags, or one Deferred, or
\* two and what when() makes of them.
Layout(s) ==
    CASE s = "deferred" -> {"d"} \X Kind
      [] s = "when" -> Deferreds \X Kind
      [] OTHER -> {<<"list", "fire">>}

-----------------------------------------------------------------------------
(* One list.  memory is undefined (NoValue), true (Halted) or a value.     *)

NoValue == 0
Halted == -1

NewList(flags) ==
    [flags |-> flags, list |-> <<>>, alive |-> TRUE, stack |-> <<>>,
     open |-> TRUE, memory |-> NoValue, firing |-> FALSE,
     index |-> 0, length |-> 0, args |-> NoValue]

Has(l, fn) == l.alive /\ fn \in ToSet(l.list)

\* fire(), as far as its loop; from is firingStart.
StartFire(l, value, from) ==
    [l EXCEPT !.memory = IF "memory" \in l.flags THEN value ELSE Halted,
              !.firing = TRUE, !.index = from, !.length = Len(l.list),
              !.args = value]

AddTo(l, fn) ==
    LET added == IF "unique" \in l.flags /\ Has(l, fn) THEN l
                 ELSE [l EXCEPT !.list = Append(@, fn)]
    IN  IF ~l.alive THEN l
        ELSE IF l.firing THEN [added EXCEPT !.length = Len(added.list)]
        ELSE IF l.memory \in {NoValue, Halted} THEN added
        ELSE StartFire(added, l.memory, Len(l.list))

\* Mutant: the index of the callback that is being called stays.
RemoveFrom_KeepsIndex(l, fn) ==
    LET gone == {i \in DOMAIN l.list : l.list[i] = fn}
        rest == [l EXCEPT !.list = Kept(@, ToSet(@) \ {fn})]
    IN  IF l.firing
        THEN [rest EXCEPT !.length = @ - Cardinality({i \in gone : i - 1 <= @})]
        ELSE rest

\* Every occurrence goes; a list that is firing shifts what is left to call.
\* Positions count from 0 in the code.
RemoveFrom(l, fn) ==
    LET gone == {i \in DOMAIN l.list : l.list[i] = fn}
        counted == {i \in gone : i - 1 <= l.length}
        rest == [l EXCEPT !.list = Kept(@, ToSet(@) \ {fn})]
    IN  IF l.firing
        THEN [rest EXCEPT
                !.length = @ - Cardinality(counted),
                !.index = @ - Cardinality({i \in counted : i - 1 <= @})]
        ELSE rest

Empty(l) == [l EXCEPT !.list = <<>>, !.alive = TRUE]

Disable(l) ==
    [l EXCEPT !.list = <<>>, !.alive = FALSE, !.stack = <<>>, !.open = FALSE,
              !.memory = NoValue]

Lock(l) ==
    IF l.memory \in {NoValue, Halted} THEN Disable(l)
    ELSE [l EXCEPT !.stack = <<>>, !.open = FALSE]

FireWith(l, value) ==
    CASE ~l.open -> l
      [] l.open /\ l.firing ->
            IF "once" \in l.flags THEN l
            ELSE [l EXCEPT !.stack = Append(@, value)]
      [] l.open /\ ~l.firing ->
            IF "once" \in l.flags /\ l.memory # NoValue THEN l
            ELSE StartFire(l, value, 0)

MoreToCall(l) == l.alive /\ l.index < l.length

\* Mutant: what waits to be fired is fired in the wrong order.
EndFire_LastFirst(l) ==
    LET quiet == [l EXCEPT !.firing = FALSE]
    IN  IF ~l.alive THEN quiet
        ELSE IF "once" \notin l.flags
        THEN IF l.stack = <<>> THEN quiet
             ELSE StartFire([quiet EXCEPT !.stack = Front(@)], Last(l.stack), 0)
        ELSE IF l.memory = Halted THEN Disable(quiet)
        ELSE [quiet EXCEPT !.list = <<>>]

\* What follows the loop of fire().
EndFire(l) ==
    LET quiet == [l EXCEPT !.firing = FALSE]
    IN  IF ~l.alive THEN quiet
        ELSE IF "once" \notin l.flags
        THEN IF l.stack = <<>> THEN quiet
             ELSE StartFire([quiet EXCEPT !.stack = Tail(@)], Head(l.stack), 0)
        ELSE IF l.memory = Halted THEN Disable(quiet)
        ELSE [quiet EXCEPT !.list = <<>>]

-----------------------------------------------------------------------------
(* Callbacks: functions of the page's scripts, numbered, and those that    *)
(* Deferred and when put into the lists.                                   *)

Script(n) == <<"script", n>>
Settle(d, state) == <<"settle", d, state>>
Disabling(id) == <<"disable", id>>
Locking(d) == <<"lock", <<d, "progress">>>>
Firing(id) == <<"fire", id>>
CountingDown == <<"count", <<"w", "done">>>>

IsScript(fn) == fn[1] = "script"

\* What when() adds to the lists of its arguments.
WhenAdds(s, id) ==
    IF s # "when" \/ id[1] = "w" THEN <<>>
    ELSE CASE id[2] = "done" -> <<CountingDown>>
           [] id[2] = "fail" -> <<Firing(<<"w", "fail">>)>>
           [] id[2] = "progress" -> <<Firing(<<"w", "progress">>)>>

\* Mutant: resolving leaves the callbacks for failure in place.
NewDeferredList_LeavesOther(s, id) ==
    LET d == id[1]
    IN  CASE id[2] = "done" ->
                [NewList({"once", "memory"}) EXCEPT !.list =
                    <<Settle(d, "resolved"), Locking(d)>> \o WhenAdds(s, id)]
          [] id[2] = "fail" ->
                [NewList({"once", "memory"}) EXCEPT !.list =
                    <<Settle(d, "rejected"), Locking(d)>> \o WhenAdds(s, id)]
          [] id[2] = "progress" ->
                [NewList({"memory"}) EXCEPT !.list = WhenAdds(s, id)]

\* The lists that Deferred() makes, with the callbacks it adds first.
NewDeferredList(s, id) ==
    LET d == id[1]
    IN  CASE id[2] = "done" ->
                [NewList({"once", "memory"}) EXCEPT !.list =
                    <<Settle(d, "resolved"), Disabling(<<d, "fail">>), Locking(d)>>
                        \o WhenAdds(s, id)]
          [] id[2] = "fail" ->
                [NewList({"once", "memory"}) EXCEPT !.list =
                    <<Settle(d, "rejected"), Disabling(<<d, "done">>), Locking(d)>>
                        \o WhenAdds(s, id)]
          [] id[2] = "progress" ->
                [NewList({"memory"}) EXCEPT !.list = WhenAdds(s, id)]

-----------------------------------------------------------------------------
VARIABLES
    script,     \* the scripts of the page, one of Scripts
    lists,      \* the lists, by their names
    calls,      \* the stack: names of firing lists, and User on top of the
                \* list whose callback, a function of a script, is running
    outcome,    \* the state of each Deferred
    count,      \* when(): arguments that are not resolved yet
    ops,        \* methods called by scripts so far; also numbers functions
    added, ran, \* functions of scripts that were added to each list, and that
                \* were called with which value (not variables of the code)
    due,        \* of each list: what its firing has still to call (not of the
                \* code)
    broken      \* a callback threw, or emptied the list that was calling it
                \* (not of the code)

listVars == <<script, lists, calls, outcome, count, ops, added, ran, due, broken>>

User == <<"user">>

ListInit ==
    /\ script \in Scripts
    /\ \E flags \in SUBSET Flag :
          /\ script \in {"deferred", "when"} => flags = {}
          /\ lists = [id \in Layout(script) |->
                        IF script \in {"deferred", "when"}
                        THEN NewDeferredList(script, id) ELSE NewList(flags)]
    /\ calls = <<>>
    /\ outcome = [d \in Deferreds |-> "pending"]
    /\ count = 2
    /\ ops = 0
    /\ added = [id \in Layout(script) |-> <<>>]
    /\ ran = [id \in Layout(script) |-> <<>>]
    /\ due = [id \in Layout(script) |-> <<>>]
    /\ broken = FALSE

\* Scripts run between events, or in a callback.
ScriptRuns == calls # <<>> => Last(calls) = User

\* The list id becomes l; when that starts to fire, its loop runs next.
Put(id, l, stack) ==
    /\ lists' = [lists EXCEPT ![id] = l]
    /\ calls' = IF l.firing /\ ~lists[id].firing THEN Append(stack, id) ELSE stack
    /\ due' = IF l.firing /\ ~lists[id].firing
              THEN [due EXCEPT ![id] = SubSeq(l.list, l.index + 1, l.length)]
              ELSE due

Count == ScriptRuns /\ ops < MaxOps[script] /\ ops' = ops + 1

\* A script adds a function, which a list of its own may hold already.
ScriptAdds(id) ==
    /\ Count
    /\ \E n \in IF script = "list" THEN 1..ops' ELSE {ops'} :
          LET fn == Script(n)
              l == AddTo(lists[id], fn)
          IN  /\ lists' = [lists EXCEPT ![id] = l]
              /\ calls' = IF l.firing /\ ~lists[id].firing
                          THEN Append(calls, id) ELSE calls
              /\ due' = IF Len(l.list) > Len(lists[id].list) /\ l.firing
                        THEN [due EXCEPT ![id] = Append(@, fn)] ELSE due
              /\ added' = [added EXCEPT ![id] = Append(@, fn)]
    /\ UNCHANGED <<script, outcome, count, ran, broken>>

\* when() keeps its own Deferred to itself.
ScriptFires(id) ==
    /\ Count
    /\ id[1] # "w"
    /\ Put(id, FireWith(lists[id], ops'), calls)
    /\ UNCHANGED <<script, outcome, count, added, ran, broken>>

\* Methods that a Deferred does not hand out.
ScriptRemoves(id) ==
    /\ script = "list" /\ Count
    /\ \E fn \in ToSet(lists[id].list) :
          /\ lists' = [lists EXCEPT ![id] = RemoveFrom(@, fn)]
          /\ due' = [due EXCEPT ![id] = Kept(@, ToSet(@) \ {fn})]
    /\ UNCHANGED <<script, calls, outcome, count, added, ran, broken>>

ScriptEmpties(id) ==
    /\ script = "list" /\ Count
    /\ lists' = [lists EXCEPT ![id] = Empty(@)]
    /\ due' = [due EXCEPT ![id] = <<>>]
    /\ broken' = (broken \/ lists[id].firing)
    /\ UNCHANGED <<script, calls, outcome, count, added, ran>>

ScriptCloses(id) ==
    /\ script = "list" /\ Count
    /\ \E l \in {Disable(lists[id]), Lock(lists[id])} :
          /\ lists' = [lists EXCEPT ![id] = l]
          /\ due' = IF l.alive THEN due ELSE [due EXCEPT ![id] = <<>>]
    /\ UNCHANGED <<script, calls, outcome, count, added, ran, broken>>

-----------------------------------------------------------------------------
(* The loop of fire(). *)

Advance(l) == [l EXCEPT !.index = @ + 1]

AfterFirst(s) == SubSeq(s, 2, Len(s))

\* The next callback is a function of a script, which then runs.  After
\* empty() the loop may find nothing at its index, and calling that throws.
CallScript(id) ==
    /\ calls # <<>> /\ Last(calls) = id /\ MoreToCall(lists[id])
    /\ IF lists[id].index < Len(lists[id].list)
       THEN LET fn == lists[id].list[lists[id].index + 1]
            IN  /\ IsScript(fn)
                /\ calls' = Append(calls, User)
                /\ ran' = [ran EXCEPT ![id] =
                              Append(@, [fn |-> fn, value |-> lists[id].args])]
                /\ due' = [due EXCEPT ![id] = AfterFirst(@)]
                /\ UNCHANGED broken
       ELSE /\ calls' = <<>>
            /\ broken' = TRUE
            /\ UNCHANGED <<ran, due>>
    /\ UNCHANGED <<script, lists, outcome, count, ops, added>>

\* The next callback is one of Deferred's or when's, which returns at once
\* unless it starts another list.
CallInternal(id) ==
    /\ calls # <<>> /\ Last(calls) = id /\ MoreToCall(lists[id])
    /\ lists[id].index < Len(lists[id].list)
    /\ LET fn == lists[id].list[lists[id].index + 1]
           next == [lists EXCEPT ![id] = Advance(@)]
           left == [due EXCEPT ![id] = AfterFirst(@)]
           Becomes(other, l) ==
              LET starts == l.firing /\ ~lists[other].firing
              IN  /\ lists' = [next EXCEPT ![other] = l]
                  /\ calls' = IF starts THEN Append(calls, other) ELSE calls
                  /\ due' = [left EXCEPT ![other] = CASE ~l.alive -> <<>>
                                                      [] l.alive /\ starts -> l.list
                                                      [] OTHER -> @]
       IN  /\ ~IsScript(fn)
           /\ CASE fn[1] = "settle" ->
                     /\ Becomes(id, next[id])
                     /\ outcome' = [outcome EXCEPT ![fn[2]] = fn[3]]
                     /\ UNCHANGED count
                [] fn[1] = "disable" ->
                     Becomes(fn[2], Disable(lists[fn[2]])) /\ UNCHANGED <<outcome, count>>
                [] fn[1] = "lock" ->
                     Becomes(fn[2], Lock(lists[fn[2]])) /\ UNCHANGED <<outcome, count>>
                [] fn[1] = "fire" ->
                     /\ Becomes(fn[2], FireWith(lists[fn[2]], lists[id].args))
                     /\ UNCHANGED <<outcome, count>>
                [] fn[1] = "count" ->
                     /\ count' = count - 1
                     /\ IF count = 1
                        THEN Becomes(fn[2], FireWith(lists[fn[2]], lists[id].args))
                        ELSE Becomes(id, next[id])
                     /\ UNCHANGED outcome
    /\ UNCHANGED <<script, ops, added, ran, broken>>

\* A callback returns, and may with false stop a list that heeds that.
Return ==
    /\ calls # <<>> /\ Last(calls) = User
    /\ LET id == calls[Len(calls) - 1]
           stack == Front(calls)
       IN  \/ /\ lists' = [lists EXCEPT ![id] = Advance(@)]
              /\ calls' = stack
              /\ UNCHANGED due
           \/ /\ "stopOnFalse" \in lists[id].flags
              /\ lists' = [lists EXCEPT ![id] = EndFire([@ EXCEPT !.memory = Halted])]
              /\ calls' = IF lists'[id].firing THEN stack ELSE Front(stack)
              /\ due' = [due EXCEPT ![id] = IF lists'[id].firing
                                            THEN lists'[id].list ELSE <<>>]
    /\ UNCHANGED <<script, outcome, count, ops, added, ran, broken>>

\* Nothing catches what a callback throws: every loop on the stack is left,
\* and their lists count as firing for ever.
Throw ==
    /\ calls # <<>> /\ Last(calls) = User
    /\ calls' = <<>>
    /\ broken' = TRUE
    /\ UNCHANGED <<script, lists, outcome, count, ops, added, ran, due>>

EndLoop(id) ==
    /\ calls # <<>> /\ Last(calls) = id /\ ~MoreToCall(lists[id])
    /\ lists' = [lists EXCEPT ![id] = EndFire(@)]
    /\ calls' = IF lists'[id].firing THEN calls ELSE Front(calls)
    /\ due' = [due EXCEPT ![id] = IF lists'[id].firing THEN lists'[id].list ELSE @]
    /\ UNCHANGED <<script, outcome, count, ops, added, ran, broken>>

ListNext ==
    \/ \E id \in DOMAIN lists :
          \/ ScriptAdds(id) \/ ScriptFires(id) \/ ScriptRemoves(id)
          \/ ScriptEmpties(id) \/ ScriptCloses(id)
          \/ CallScript(id) \/ CallInternal(id) \/ EndLoop(id)
    \/ Return
    \/ Throw

ListSpec == ListInit /\ [][ListNext]_listVars

-----------------------------------------------------------------------------
\* Whatever callbacks add and remove while their list is firing, the loop has
\* exactly those left to call that were in the list or were added since and
\* have not been removed: the corrections of firingIndex and firingLength skip
\* no callback and call none twice.
LoopCallsWhatIsDue ==
    \A id \in DOMAIN lists :
        LET l == lists[id]
            inCall == \E i \in 2..Len(calls) : calls[i] = User /\ calls[i - 1] = id
            next == l.index + IF inCall THEN 2 ELSE 1
        IN  l.firing /\ l.alive /\ ~broken /\ id \in ToSet(calls)
            => due[id] = SubSeq(l.list, next, l.length) /\ l.length = Len(l.list)

\* A list that is fired while it fires calls nothing with the later value
\* before all is done with the earlier one; only the list of when(), which the
\* lists of both its arguments fire, may.
ValuesDoNotMix ==
    [][\A id \in DOMAIN lists :
        id[1] # "w" /\ ran'[id] # ran[id] /\ ran[id] # <<>>
            => Last(ran[id]).value <= Last(ran'[id]).value]_listVars

\* The first half of PromiseIsKept: a Deferred calls the callbacks of one
\* outcome only, each once, in the order in which they were added, with the
\* value it was settled with; and when no script runs, all of them have been
\* called unless one threw.
CalledAsSettled ==
    \A id \in DOMAIN lists :
        LET called == [i \in DOMAIN ran[id] |-> ran[id][i].fn]
            settled == \/ id[2] = "done" /\ outcome[id[1]] = "resolved"
                       \/ id[2] = "fail" /\ outcome[id[1]] = "rejected"
        IN  id[2] \in {"done", "fail"} =>
              /\ IsPrefix(called, added[id])
              /\ called # <<>> => settled
              /\ \A i, j \in DOMAIN ran[id] : ran[id][i].value = ran[id][j].value
              /\ calls = <<>> /\ ~broken /\ settled => called = added[id]

\* The second half: when() is resolved when all its arguments are and rejected
\* as soon as one is, whichever way they are settled by each other's callbacks.
WhenAgrees ==
    script = "when" /\ calls = <<>> /\ ~broken =>
        /\ outcome["w"] = "resolved" <=>
              \A d \in {"d", "e"} : outcome[d] = "resolved"
        /\ outcome["w"] = "rejected" <=>
              \E d \in {"d", "e"} : outcome[d] = "rejected"

\* Nobody who waits for a Deferred, or for several through when(), is told twice,
\* told of both outcomes or forgotten.
PromiseIsKept == CalledAsSettled /\ WhenAgrees
=============================================================================
