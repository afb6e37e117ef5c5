------------------------------ MODULE Carousel ------------------------------
(***************************************************************************)
(* A carousel of bootstrap.js with indicators, in a browser that supports  *)
(* transitions: one item slides away and another one in, while the timer,  *)
(* the pointer, buttons and scripts ask for other items.  What must wait   *)
(* for a slide is put off to the event slid, which a timer triggers after  *)
(* the end of the transition.                                              *)
(*                                                                         *)
(* Left out: where items slide to, positions out of range.                 *)
(***************************************************************************)
EXTENDS Integers, FiniteSets, Sequences, SequencesExt

CONSTANTS
    Items,          \* how many there are
    MaxWaiting      \* bound: functions and timers that wait for slid

VARIABLE carousel   \* the Carousel object and its elements, see CarouselInit

ASSUME CarouselAssumption == Items \in Nat \ {0}

Position == 1..Items
NoItem == 0

Indicate == [do |-> "indicate", pos |-> NoItem]
GoTo(pos) == [do |-> "to", pos |-> pos]

CarouselInit ==
    carousel = [active |-> {1}, indicators |-> {1}, \* the class active
                leaving |-> {}, coming |-> NoItem,  \* under way, or NoItem
                sliding |-> FALSE, paused |-> FALSE,
                cycling |-> TRUE,                   \* the interval is set
                onSlid |-> <<>>,        \* functions bound with one('slid')
                slidTimers |-> 0,       \* timers that trigger slid
                prevented |-> FALSE,    \* a script prevented a slide, and
                hasty |-> FALSE]        \* one began before slid was triggered
                                        \* for the last one (not of the code)

-----------------------------------------------------------------------------
(* The methods, as functions of the object. *)

\* An event as the argument means that the pointer asked for it.
Cycle(c, byPointer) ==
    LET paused == byPointer /\ c.paused
    IN  [c EXCEPT !.paused = paused, !.cycling = ~paused]

\* Mutant: the item that left keeps its class.
EndSlide_KeepsActive(c) ==
    [c EXCEPT !.active = @ \cup {c.coming}, !.leaving = {}, !.coming = NoItem,
              !.sliding = FALSE, !.slidTimers = @ + 1]

\* The function that slide() binds to the end of the transition.
EndSlide(c) ==
    [c EXCEPT !.active = (@ \ c.leaving) \cup {c.coming}, !.leaving = {},
              !.coming = NoItem, !.sliding = FALSE, !.slidTimers = @ + 1]

\* A slide under way is taken to its end.
Pause(c, byPointer) ==
    LET p == [c EXCEPT !.paused = byPointer => @]
    IN  [(IF c.coming # NoItem THEN EndSlide(p) ELSE p) EXCEPT !.cycling = FALSE]

\* Whether the carousel is returned, and not nothing.
Slides(c, item, prevent) == item \notin c.active /\ ~prevent

Slide(c, item, prevent) ==
    LET begun == [c EXCEPT !.sliding = TRUE]
        quiet == IF c.cycling THEN Pause(begun, FALSE) ELSE begun
        indicated == [quiet EXCEPT !.indicators = {},
                                   !.onSlid = Append(@, Indicate),
                                   !.hasty = @ \/ c.slidTimers > 0]
        moving == [indicated EXCEPT !.leaving = c.active, !.coming = item]
    IN  CASE item \in c.active -> quiet
          [] item \notin c.active /\ prevent -> [indicated EXCEPT !.prevented = TRUE]
          [] Slides(c, item, prevent) ->
                IF c.cycling THEN Cycle(moving, FALSE) ELSE moving

To(c, pos, prevent) ==
    CASE c.sliding -> [c EXCEPT !.onSlid = Append(@, GoTo(pos))]
      [] ~c.sliding /\ pos \in c.active -> Cycle(Pause(c, FALSE), FALSE)
      [] OTHER -> Slide(c, pos, prevent)

\* A function for slid; those that one of them binds wait for the next time.
RunSlid(c, f, prevent) ==
    IF f.do = "to" THEN To(c, f.pos, prevent)
    ELSE [c EXCEPT !.indicators = @ \cup c.active]

-----------------------------------------------------------------------------
Room == Len(carousel.onSlid) + carousel.slidTimers < MaxWaiting

\* After the last item comes the first one.
Beside(i, step) ==
    IF i + step \in Position THEN i + step ELSE IF step = 1 THEN 1 ELSE Items

\* By the interval, a button or a script.
NextOrPrev ==
    /\ ~carousel.sliding /\ Room
    /\ \E item \in Position, step \in {1, -1}, prevent \in BOOLEAN :
          /\ item = Beside(CHOOSE i \in carousel.active : TRUE, step)
          /\ carousel' = Slide(carousel, item, prevent)

ScriptGoesTo ==
    /\ Room
    /\ \E pos \in Position, prevent \in BOOLEAN : carousel' = To(carousel, pos, prevent)

\* Without a result of to() there is no cycle() to call, which throws.
ClickIndicator ==
    /\ Room
    /\ \E pos \in Position, prevent \in BOOLEAN :
          LET ready == Pause(Cycle(Pause(carousel, FALSE), FALSE), FALSE)
              there == To(ready, pos, prevent)
              returns == ~ready.sliding /\ (pos \in ready.active \/ Slides(ready, pos, prevent))
          IN  carousel' = IF returns THEN Cycle(there, FALSE) ELSE there

PointerPauses == Room /\ carousel' = Pause(carousel, TRUE)

PointerResumes == carousel' = Cycle(carousel, TRUE)

ScriptPauses == Room /\ carousel' = Pause(carousel, FALSE)

SlideTransitionEnd == carousel.coming # NoItem /\ carousel' = EndSlide(carousel)

SlidTimer ==
    /\ carousel.slidTimers > 0
    /\ \E prevent \in BOOLEAN :
          LET due == carousel.onSlid
              after[i \in 0..Len(due)] ==
                IF i = 0 THEN [carousel EXCEPT !.slidTimers = @ - 1, !.onSlid = <<>>]
                ELSE RunSlid(after[i - 1], due[i], prevent)
          IN  carousel' = after[Len(due)]

CarouselNext ==
    \/ NextOrPrev \/ ScriptGoesTo \/ ClickIndicator
    \/ PointerPauses \/ PointerResumes \/ ScriptPauses
    \/ SlideTransitionEnd \/ SlidTimer

CarouselSpec == CarouselInit /\ [][CarouselNext]_carousel

-----------------------------------------------------------------------------
\* Whatever is asked for during a slide, one item is active, and the carousel
\* slides on: sliding is set only while the end of a transition will reset it,
\* unless a script prevented a slide, or the only item was asked for the next
\* one.  Once nothing is pending the indicator of the active item is lit and no
\* other one, unless a slide began before the event for the last one.
CarouselAgrees ==
    LET c == carousel
    IN  /\ Cardinality(c.active) = 1
        /\ ~c.prevented /\ Items > 1 => (c.sliding <=> c.coming # NoItem)
        /\ ~c.prevented /\ ~c.hasty /\ ~c.sliding /\ c.slidTimers = 0
             => c.indicators = c.active
=============================================================================
