------------------------------ MODULE MCWidgets ------------------------------
(***************************************************************************)
(* Small instances of the widgets of alertify.js and bootstrap.js, in one  *)
(* run: they share no state, so a behaviour is one of a single widget, and *)
(* the variables of the others stay as they are before any event.          *)
(***************************************************************************)
EXTENDS Alertify, Modal, Tooltip, Carousel, Collapse, Tabs, Typeahead, TLC

CONSTANTS m1, m2, t1, t2, t3

VARIABLE part   \* whose behaviour it is

widgetVars == <<alertifyVars, modalVars, tooltipVars, carousel, accordion, tabs,
                typeaheadVars, part>>

\* A list of which one text matches all and a longer one only a part, in an
\* order that is not that of the list.
MCText == {"a", "ab"}
MCKnown == <<"xab", "abc", "ax">>
MCMatch ==
    [t \in MCText |-> "xab" :> 2 @@ "abc" :> 1 @@ "ax" :> IF t = "a" THEN 1 ELSE 0]

Widgets == {"alertify", "modal", "tooltip", "carousel", "collapse", "tabs", "typeahead"}

\* The conditions leave one initial state for the behaviours of the others.
Init ==
    /\ part \in Widgets
    /\ AlertifyInit /\ (part # "alertify" => supported)
    /\ ModalInit /\ (part # "modal" => fades /\ withBackdrop)
    /\ TooltipInit /\ (part # "tooltip" => trigger = "click")
    /\ CarouselInit
    /\ CollapseInit /\ (part # "collapse" => accordion.open = {})
    /\ TabsInit /\ (part # "tabs" => tabs.fade = {} /\ tabs.chosen = t1)
    /\ TypeaheadInit /\ (part # "typeahead" => source = "array" /\ ~focus)

Next ==
    /\ UNCHANGED part
    /\ IF part = "alertify" THEN AlertifyNext ELSE UNCHANGED alertifyVars
    /\ IF part = "modal" THEN ModalNext ELSE UNCHANGED modalVars
    /\ IF part = "tooltip" THEN TooltipNext ELSE UNCHANGED tooltipVars
    /\ IF part = "carousel" THEN CarouselNext ELSE UNCHANGED carousel
    /\ IF part = "collapse" THEN CollapseNext ELSE UNCHANGED accordion
    /\ IF part = "tabs" THEN TabsNext ELSE UNCHANGED tabs
    /\ IF part = "typeahead" THEN TypeaheadNext ELSE UNCHANGED typeaheadVars

Spec == Init /\ [][Next]_widgetVars /\ ModalFairness
=============================================================================
