-------------------------------- MODULE Tabs --------------------------------
(***************************************************************************)
(* The tabs of bootstrap.js, in a browser that supports transitions: a     *)
(* click marks its tab at once, while the pane that was shown fades away   *)
(* first, at the end of which the new one takes its place.                 *)
(*                                                                         *)
(* Left out: tabs in dropdown menus, and events that scripts prevent.      *)
(***************************************************************************)
EXTENDS Integers, FiniteSets, Sequences, SequencesExt

CONSTANTS
    Tab,        \* tabs, each with its pane
    MaxEnds     \* bound: functions that wait for a pane's transition

VARIABLE tabs   \* the tabs and their panes, see TabsInit

TabsInit ==
    \E first \in Tab, fade \in SUBSET Tab :
        tabs = [chosen |-> first,               \* the tab with the class active
                active |-> {first},             \* of the panes, those with
                in |-> {first} \cap fade, fade |-> fade,    \* each class
                onEnd |-> [t \in Tab |-> <<>>], \* functions next()
                calm |-> TRUE]      \* no click came before the panes of the
                                    \* last one had changed (not of the code)

-----------------------------------------------------------------------------
\* Mutant: the old pane keeps its class.
NextPane_KeepsActive(s, f, fades) ==
    [s EXCEPT !.active = @ \cup {f.to},
              !.in = IF fades THEN @ \cup {f.to} ELSE @,
              !.fade = IF fades THEN @ ELSE @ \ {f.to}]

NextPane(s, f, fades) ==
    [s EXCEPT !.active = (@ \ f.from) \cup {f.to},
              !.in = IF fades THEN @ \cup {f.to} ELSE @,
              !.fade = IF fades THEN @ ELSE @ \ {f.to}]

\* activate() for a pane; every active pane gets the function.
ActivatePane(s, t) ==
    LET next == [to |-> t, from |-> s.active]
        fades == s.active \cap s.fade # {}
        later == [s EXCEPT !.onEnd = [p \in Tab |-> IF p \in s.active
                                                    THEN Append(@[p], next) ELSE @[p]]]
    IN  [(IF fades THEN later ELSE NextPane(s, next, FALSE)) EXCEPT !.in = @ \ s.active]

ClickTab(t) ==
    /\ t # tabs.chosen
    /\ \A p \in Tab : Len(tabs.onEnd[p]) < MaxEnds
    /\ LET waits == \E p \in Tab : tabs.onEnd[p] # <<>>
       IN  tabs' = ActivatePane([tabs EXCEPT !.chosen = t, !.calm = @ /\ ~waits], t)

\* Only a pane that is displayed has transitions; its fading in is one, too.
PaneTransitionEnd(p) ==
    /\ p \in tabs.active /\ tabs.onEnd[p] # <<>>
    /\ LET ends == tabs.onEnd[p]
           after[i \in 0..Len(ends)] ==
                IF i = 0 THEN [tabs EXCEPT !.onEnd[p] = <<>>]
                ELSE NextPane(after[i - 1], ends[i], TRUE)
       IN  tabs' = after[Len(ends)]

TabsNext == \E t \in Tab : ClickTab(t) \/ PaneTransitionEnd(t)

TabsSpec == TabsInit /\ [][TabsNext]_tabs

-----------------------------------------------------------------------------
\* If no click comes while panes change, one pane is displayed at any time, and
\* once nothing waits it is that of the chosen tab, and to be seen; otherwise
\* two panes may be displayed, or that of another tab.
TabsAgree ==
    LET waits == \E p \in Tab : tabs.onEnd[p] # <<>>
    IN  tabs.calm =>
          /\ Cardinality(tabs.active) = 1
          /\ ~waits => /\ tabs.active = {tabs.chosen}
                       /\ tabs.chosen \in tabs.in \/ tabs.chosen \notin tabs.fade
          /\ waits => /\ tabs.chosen \notin tabs.active
                      /\ \E p \in tabs.active : \E f \in ToSet(tabs.onEnd[p]) : f.to = tabs.chosen
=============================================================================
