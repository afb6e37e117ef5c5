-------------------------------- MODULE Modal --------------------------------
(***************************************************************************)
(* A modal dialog of bootstrap.js: the element, its backdrop, and what     *)
(* waits for the end of their transitions or for a timer.  show() and      *)
(* hide() may be called at any time, also before the last call is through. *)
(*                                                                         *)
(* Left out: events that scripts prevent, remote content, and where the    *)
(* focus is put.                                                           *)
(***************************************************************************)
EXTENDS Integers, Sequences, FiniteSets, SequencesExt

CONSTANT MaxShown   \* bound: calls of show()

VARIABLES
    modal,      \* the Modal object and its elements, see ModalInit
    fades,      \* the element has the class fade, and transitions are supported
    withBackdrop,
    calls,      \* calls of show() so far
    calm        \* every call found the one before it through (not of the code)

modalVars == <<modal, fades, withBackdrop, calls, calm>>

ModalInit ==
    /\ modal = [isShown |-> FALSE, in |-> FALSE, displayed |-> FALSE,
                keys |-> 0, traps |-> 0,    \* handlers for keyup and focusin
                backdrop |-> 0,             \* the one it knows, 0 for none
                onBackdrop |-> <<>>,        \* the handlers of each in the document
                onElement |-> <<>>, timers |-> {}]  \* handlers are [do, timer]
    /\ fades \in BOOLEAN /\ withBackdrop \in BOOLEAN
    /\ calls = 0 /\ calm = TRUE

Backdrops(m) == DOMAIN m.onBackdrop

\* Callbacks of backdrop(): the dialog comes up, the backdrop goes away.
Run(m, handler) ==
    CASE handler.do = "present" ->
            [m EXCEPT !.displayed = TRUE, !.in = TRUE, !.traps = @ + 1,
                      !.onElement = IF fades THEN Append(@, [do |-> "shown", timer |-> 0])
                                    ELSE @]
      [] handler.do = "clear" ->
            [m EXCEPT !.onBackdrop = [b \in Backdrops(m) \ {m.backdrop} |-> @[b]],
                      !.backdrop = 0]
      [] OTHER -> m

NewBackdrop(m) ==
    CHOOSE b \in 1..(Cardinality(Backdrops(m)) + 1) : b \notin Backdrops(m)

Backdrop(m, callback) ==
    LET handler == [do |-> callback, timer |-> 0]
        new == NewBackdrop(m)
        made == [m EXCEPT !.backdrop = new,
                          !.onBackdrop = [b \in Backdrops(m) \cup {new} |->
                                            IF b = new THEN <<>> ELSE @[b]]]
        Then(n) == IF fades
                   THEN [n EXCEPT !.onBackdrop[n.backdrop] = Append(@, handler)]
                   ELSE Run(n, handler)
    IN  CASE m.isShown /\ withBackdrop -> Then(made)
          [] ~m.isShown /\ m.backdrop # 0 -> Then(m)
          [] OTHER -> Run(m, handler)

HideModal(m) == Backdrop([m EXCEPT !.displayed = FALSE], "clear")

\* Mutant: nothing but the end of the transition hides the element.
HideWithTransition_NoTimer(m) ==
    [m EXCEPT !.onElement = Append(@, [do |-> "hide", timer |-> 0])]

\* The end of the transition or 500 ms, whichever comes first.
HideWithTransition(m) ==
    [m EXCEPT !.onElement = Append(@, [do |-> "hide", timer |-> calls]),
              !.timers = @ \cup {calls}]

\* Nothing of an earlier call is pending.
Through ==
    /\ modal.timers = {} /\ modal.onElement = <<>>
    /\ \A b \in Backdrops(modal) : modal.onBackdrop[b] = <<>>

-----------------------------------------------------------------------------
Show ==
    /\ calls < MaxShown /\ ~modal.isShown
    /\ modal' = Backdrop([modal EXCEPT !.isShown = TRUE, !.keys = @ + 1], "present")
    /\ calls' = calls + 1
    /\ calm' = (calm /\ Through)
    /\ UNCHANGED <<fades, withBackdrop>>

\* Mutant: the handler for the escape key stays.
Hidden_KeepsKeys(m) == [m EXCEPT !.isShown = FALSE, !.in = FALSE, !.traps = 0]

Hidden(m) == [m EXCEPT !.isShown = FALSE, !.in = FALSE, !.keys = 0, !.traps = 0]

\* By a script, a button, the backdrop or the escape key.
Hide ==
    /\ modal.isShown
    /\ modal' = IF fades THEN HideWithTransition(Hidden(modal))
                ELSE HideModal(Hidden(modal))
    /\ calm' = (calm /\ Through)
    /\ UNCHANGED <<fades, withBackdrop, calls>>

RunHandler(m, handler) ==
    IF handler.do = "hide" THEN HideModal([m EXCEPT !.timers = @ \ {handler.timer}])
    ELSE Run(m, handler)

\* Every handler was bound with one(): all go before the first is called.
RunAll(m, handlers) ==
    LET after[i \in 0..Len(handlers)] ==
            IF i = 0 THEN m ELSE RunHandler(after[i - 1], handlers[i])
    IN  after[Len(handlers)]

ElementTransitionEnd ==
    /\ modal.displayed /\ modal.onElement # <<>>
    /\ modal' = RunAll([modal EXCEPT !.onElement = <<>>], modal.onElement)
    /\ UNCHANGED <<fades, withBackdrop, calls, calm>>

BackdropTransitionEnd ==
    /\ \E b \in Backdrops(modal) :
          /\ modal.onBackdrop[b] # <<>>
          /\ modal' = RunAll([modal EXCEPT !.onBackdrop[b] = <<>>], modal.onBackdrop[b])
    /\ UNCHANGED <<fades, withBackdrop, calls, calm>>

\* The timer takes all handlers off the element.
HideTimer ==
    /\ \E t \in modal.timers :
          modal' = HideModal([modal EXCEPT !.timers = @ \ {t}, !.onElement = <<>>])
    /\ UNCHANGED <<fades, withBackdrop, calls, calm>>

ModalNext ==
    Show \/ Hide \/ ElementTransitionEnd \/ BackdropTransitionEnd \/ HideTimer

\* Timers go off; that transitions end is not relied upon.
ModalFairness == WF_modalVars(HideTimer)

ModalSpec == ModalInit /\ [][ModalNext]_modalVars /\ ModalFairness

-----------------------------------------------------------------------------
\* The escape key closes the dialog exactly while it counts as shown, however
\* calls overlap; and if none do, what is to be seen once all transitions are
\* over is the dialog with one backdrop or nothing, and there is never a second
\* backdrop, nor one that no call will remove.
ModalAgrees ==
    /\ modal.keys = IF modal.isShown THEN 1 ELSE 0
    /\ calm => /\ Backdrops(modal) \subseteq {modal.backdrop}
               /\ Through => /\ modal.displayed = modal.isShown
                             /\ modal.in = modal.isShown
                             /\ Backdrops(modal) # {} <=> modal.isShown /\ withBackdrop
                             /\ modal.traps = IF modal.isShown THEN 1 ELSE 0

\* A dialog that is hidden disappears although its transition never ends, as on
\* an element that is not displayed.
HiddenDisappears ==
    (calm /\ ~modal.isShown) ~> (~modal.displayed \/ modal.isShown \/ ~calm)
=============================================================================
