------------------------------ MODULE Collapse ------------------------------
(***************************************************************************)
(* An accordion of bootstrap.js, in a browser that supports transitions:   *)
(* panels of which a click on its header opens one and closes the one that *)
(* was open, while transitions of earlier clicks may still be under way.   *)
(* Each panel's Collapse object refuses calls during its own transition;   *)
(* show() also asks the object of the open panel, if there is one.         *)
(*                                                                         *)
(* Left out: the class of the headers, panels without an accordion, calls  *)
(* by scripts, and events that scripts prevent.                            *)
(***************************************************************************)
EXTENDS Integers, FiniteSets, Sequences, SequencesExt

CONSTANT Panel

VARIABLE accordion  \* the panels and their objects, see CollapseInit

\* A panel that the page shows open has no object before it is clicked.  The
\* one that hides it for another panel is forgotten at once.
Forgotten(p) == <<p, "forgotten">>
Kept(p) == <<p, "kept">>

CollapseInit ==
    \E open \in {{p} : p \in Panel} \cup {{}} :
        accordion = [open |-> open,                     \* the class in
                     size |-> [p \in Panel |-> IF p \in open THEN "auto" ELSE "zero"],
                     data |-> {},                       \* panels with an object
                     busy |-> {},                       \* objects: transitioning
                     onEnd |-> [p \in Panel |-> <<>>]]  \* functions complete()

-----------------------------------------------------------------------------
\* objects: of each panel that moves, the object that moves it.
Transition(a, objects, opens) ==
    LET moved == DOMAIN objects
    IN  [a EXCEPT !.busy = @ \cup {objects[p] : p \in moved},
                  !.open = IF opens THEN @ \cup moved ELSE @ \ moved,
                  !.size = [p \in Panel |-> IF p \notin moved THEN @[p]
                                            ELSE IF opens THEN "full" ELSE "zero"],
                  !.onEnd = [p \in Panel |->
                        IF p \notin moved THEN @[p]
                        ELSE Append(@[p], [object |-> objects[p], opens |-> opens])]]

HidePanel(a, p) ==
    IF Kept(p) \in a.busy \/ p \notin a.open THEN a
    ELSE Transition(a, [q \in {p} |-> Kept(p)], FALSE)

\* actives.collapse('hide')
HideOpen(a) ==
    LET object == [p \in a.open |-> IF p \in a.data THEN Kept(p) ELSE Forgotten(p)]
    IN  Transition(a, [p \in {q \in a.open : object[q] \notin a.busy} |-> object[p]], FALSE)

\* Mutant: nobody asks the object of the open panel.
ShowPanel_AsksNobody(a, p) ==
    IF Kept(p) \in a.busy \/ p \in a.open THEN a
    ELSE Transition(HideOpen(a), [q \in {p} |-> Kept(p)], TRUE)

ShowPanel(a, p) ==
    IF \/ Kept(p) \in a.busy \/ p \in a.open
       \/ \E q \in a.open : q \in a.data /\ Kept(q) \in a.busy
    THEN a
    ELSE Transition(HideOpen(a), [q \in {p} |-> Kept(p)], TRUE)

-----------------------------------------------------------------------------
\* The first click on a header makes the object, which toggles the panel.
ClickHeader(p) ==
    LET toggled == IF p \in accordion.open THEN HidePanel(accordion, p)
                   ELSE ShowPanel(accordion, p)
    IN  accordion' = [toggled EXCEPT !.data = @ \cup {p}]

PanelTransitionEnd(p) ==
    /\ accordion.onEnd[p] # <<>>
    /\ LET done == ToSet(accordion.onEnd[p])
       IN  accordion' = [accordion EXCEPT
                !.onEnd[p] = <<>>,
                !.busy = @ \ {f.object : f \in done},
                !.size[p] = IF \E f \in done : f.opens THEN "auto" ELSE @]

CollapseNext == \E p \in Panel : ClickHeader(p) \/ PanelTransitionEnd(p)

CollapseSpec == CollapseInit /\ [][CollapseNext]_accordion

-----------------------------------------------------------------------------
\* However fast headers are clicked: no two panels are open, a panel whose
\* transition is over has its size if it is open and none if it is not, and an
\* object that refuses calls has a transition under way that will end this.
CollapseAgrees ==
    LET a == accordion
    IN  /\ Cardinality(a.open) <= 1
        /\ \A p \in Panel : a.onEnd[p] = <<>> =>
              a.size[p] = IF p \in a.open THEN "auto" ELSE "zero"
        /\ \A o \in a.busy : \E f \in ToSet(a.onEnd[o[1]]) : f.object = o
=============================================================================
