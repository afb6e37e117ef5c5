------------------------------- MODULE Tooltip -------------------------------
(***************************************************************************)
(* A tooltip or popover of bootstrap.js, which fades: its tip is put into  *)
(* the document by show() and taken out some time after hide(), while the  *)
(* pointer, clicks and the page itself go on.  main.js takes all popovers  *)
(* out of the document before it toggles one.                              *)
(*                                                                         *)
(* Left out: content, placement, focus, delegation to a selector, events   *)
(* that scripts prevent, enable and disable.                               *)
(***************************************************************************)
EXTENDS Integers, FiniteSets

CONSTANT MaxHidden  \* bound: calls of hide()

VARIABLES
    trigger,        \* "hover" or "click"
    delayed,        \* which of "show" and "hide" wait for a timer
    over,           \* the pointer is over the element
    hoverState, hoverTimer, \* the latter: what is due, or "none"
    tipHas,         \* the tip's classes, of "in" and "fade"
    attached,       \* the tip is in the document
    waiting,        \* calls of hide() that wait for the end of the transition,
    hideTimers,     \* and those that wait for a timer
    hides,          \* calls of hide() so far
    undisturbed     \* no show() came before the last hide() was through, and
                    \* the page took no tip away (not of the code)

tooltipVars == <<trigger, delayed, over, hoverState, hoverTimer, tipHas, attached,
                 waiting, hideTimers, hides, undisturbed>>
hoverVars == <<trigger, delayed, over, hoverState, hoverTimer>>

TooltipInit ==
    /\ trigger \in {"hover", "click"}
    /\ delayed \in SUBSET {"show", "hide"} /\ (trigger = "click" => delayed = {})
    /\ over = FALSE /\ hoverState = "none" /\ hoverTimer = "none"
    /\ tipHas = {} /\ attached = FALSE
    /\ waiting = {} /\ hideTimers = {} /\ hides = 0
    /\ undisturbed = TRUE

ShowTip ==
    /\ tipHas' = {"in", "fade"}
    /\ attached' = TRUE
    /\ undisturbed' = (undisturbed /\ hideTimers = {})
    /\ UNCHANGED <<waiting, hideTimers, hides>>

HideTip ==
    /\ hides < MaxHidden
    /\ hides' = hides + 1
    /\ tipHas' = tipHas \ {"in"}
    /\ IF "fade" \in tipHas
       THEN /\ waiting' = waiting \cup {hides'}
            /\ hideTimers' = hideTimers \cup {hides'}
            /\ UNCHANGED attached
       ELSE /\ attached' = FALSE
            /\ UNCHANGED <<waiting, hideTimers>>
    /\ UNCHANGED undisturbed

Unmoved == UNCHANGED <<tipHas, attached, waiting, hideTimers, hides, undisturbed>>

-----------------------------------------------------------------------------
\* A pending hide is neither cancelled nor made to look outdated when there is
\* no delay for show().
PointerEnters ==
    /\ trigger = "hover" /\ ~over
    /\ over' = TRUE
    /\ IF "show" \in delayed
       THEN hoverState' = "in" /\ hoverTimer' = "in" /\ Unmoved
       ELSE ShowTip /\ UNCHANGED <<hoverState, hoverTimer>>
    /\ UNCHANGED <<trigger, delayed>>

\* Mutant: the timer that would show the tip goes on.
PointerLeaves_KeepsTimer ==
    /\ trigger = "hover" /\ over
    /\ over' = FALSE
    /\ IF "hide" \in delayed
       THEN hoverState' = "out" /\ hoverTimer' = "out" /\ Unmoved
       ELSE HideTip /\ UNCHANGED <<hoverState, hoverTimer>>
    /\ UNCHANGED <<trigger, delayed>>

PointerLeaves ==
    /\ trigger = "hover" /\ over
    /\ over' = FALSE
    /\ IF "hide" \in delayed
       THEN hoverState' = "out" /\ hoverTimer' = "out" /\ Unmoved
       ELSE HideTip /\ hoverTimer' = "none" /\ UNCHANGED hoverState
    /\ UNCHANGED <<trigger, delayed>>

HoverTimer ==
    /\ hoverTimer # "none"
    /\ hoverTimer' = "none"
    /\ CASE hoverTimer # hoverState -> Unmoved
         [] hoverTimer = "in" /\ hoverState = "in" -> ShowTip
         [] hoverTimer = "out" /\ hoverState = "out" -> HideTip
    /\ UNCHANGED <<trigger, delayed, over, hoverState>>

\* toggle()
ClickElement ==
    /\ trigger = "click"
    /\ IF "in" \in tipHas THEN HideTip ELSE ShowTip
    /\ UNCHANGED hoverVars

\* $('.popover').remove() drops the handlers on the tip, not the timers.
PageRemoves ==
    /\ trigger = "click" /\ attached
    /\ attached' = FALSE /\ waiting' = {} /\ undisturbed' = FALSE
    /\ UNCHANGED <<hoverVars, tipHas, hideTimers, hides>>

\* All the handlers run, and each clears the timer of its call.
TipTransitionEnd ==
    /\ attached /\ waiting # {}
    /\ attached' = FALSE
    /\ waiting' = {} /\ hideTimers' = hideTimers \ waiting
    /\ UNCHANGED <<hoverVars, tipHas, hides, undisturbed>>

TipTimer(n) ==
    /\ n \in hideTimers
    /\ hideTimers' = hideTimers \ {n}
    /\ waiting' = {} /\ attached' = FALSE
    /\ UNCHANGED <<hoverVars, tipHas, hides, undisturbed>>

TooltipNext ==
    \/ PointerEnters \/ PointerLeaves \/ HoverTimer
    \/ ClickElement \/ PageRemoves \/ TipTransitionEnd
    \/ \E n \in 1..MaxHidden : TipTimer(n)

TooltipSpec == TooltipInit /\ [][TooltipNext]_tooltipVars

-----------------------------------------------------------------------------
\* The first half of TipAgrees: a tip that counts as shown is in the document, unless it was shown while an
\* earlier hide() was under way or the page took it away, and when no timer is
\* pending one that does not count as shown is not.
TipIsInDocument ==
    /\ undisturbed /\ "in" \in tipHas => attached
    /\ hideTimers = {} /\ "in" \notin tipHas => ~attached

\* The second half: once the timers of the pointer have gone off, the tip is shown exactly while
\* the pointer is over the element, however fast it moved, unless hiding alone
\* is delayed.
TipFollowsPointer ==
    trigger = "hover" /\ hoverTimer = "none" /\ delayed # {"hide"}
        => (over <=> "in" \in tipHas)

\* What the object believes of its tip, the document and the pointer agree.
TipAgrees == TipIsInDocument /\ TipFollowsPointer
=============================================================================
