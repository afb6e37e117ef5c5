----------------------------- MODULE Typeahead -----------------------------
(***************************************************************************)
(* The typeahead of bootstrap.js: a menu of items that match the text of   *)
(* an input, handled by keys, by the pointer and by the focus at once.     *)
(* The items may come at once or later, when the text is another one and   *)
(* the user elsewhere.                                                     *)
(*                                                                         *)
(* Left out: what items look like, and the parts of a keystroke: a key     *)
(* goes down and up in one step.                                           *)
(***************************************************************************)
EXTENDS Integers, FiniteSets, Sequences, SequencesExt

CONSTANTS
    Text,           \* what users type, long enough to be looked up
    Known,          \* the items of the source, a sequence
    Match,          \* Match[t][i]: how item i matches the text t, from 1 for
                    \* the items that begin with it to 3, or 0 if it does not
    MenuLength      \* options.items

Empty == "empty"

ASSUME TypeaheadAssumption ==
    /\ Known \in Seq(ToSet(Known))
    /\ Match \in [Text -> [ToSet(Known) -> 0..3]]
    /\ MenuLength \in Nat \ {0}

VARIABLES
    typeahead,  \* the Typeahead object and its elements, see TypeaheadInit
    source,     \* "array", or "function" for one that answers later
    asked,      \* texts for which that function has not answered yet
    focus,      \* the input really has the focus
    pointer,    \* the position in the menu that the pointer is on, or 0
    unheard     \* the focus was not heard of, see TypeaheadInit (not of the code)

typeaheadVars == <<typeahead, source, asked, focus, pointer, unheard>>

\* The data-api makes the object when the input gets the focus, too late for
\* the object's own function to be called for that.
TypeaheadInit ==
    /\ typeahead = [val |-> Empty, query |-> Empty, menu |-> <<>>,
                    lit |-> {},         \* positions with the class active
                    shown |-> FALSE, focused |-> FALSE, mousedover |-> FALSE]
    /\ source \in {"array", "function"}
    /\ asked = {}
    /\ focus \in BOOLEAN /\ unheard = focus
    /\ pointer = 0

-----------------------------------------------------------------------------
HideMenu(t) == [t EXCEPT !.shown = FALSE]

\* An item that was selected is a text as well.
MatchOf(text, item) ==
    IF text \in Text THEN Match[text][item] ELSE IF text = item THEN 1 ELSE 0

\* The items that match the query in one of these ways, in their order: grep
\* with matcher, and what sorter puts together.
Matching(query, items, ways) ==
    LET kept[n \in 0..Len(items)] ==
            IF n = 0 THEN <<>>
            ELSE IF MatchOf(query, items[n]) \in ways THEN Append(kept[n - 1], items[n])
            ELSE kept[n - 1]
    IN  kept[Len(items)]

\* grep, sorter and slice: the order of a list is kept among items that match
\* equally well.
Suggested(query, items) ==
    LET Of(m) == Matching(query, items, {m})
        sorted == Of(1) \o Of(2) \o Of(3)
    IN  SubSeq(sorted, 1, IF Len(sorted) < MenuLength THEN Len(sorted) ELSE MenuLength)

\* With render and show.
Process(t, items) ==
    LET suggested == Suggested(t.query, items)
    IN  IF suggested = <<>> THEN HideMenu(t)
        ELSE [t EXCEPT !.menu = suggested, !.lit = {1}, !.shown = TRUE]

Select(t) == HideMenu([t EXCEPT !.val = t.menu[CHOOSE i \in t.lit : TRUE]])

\* mouseleave
Leave(t) == [t EXCEPT !.mousedover = FALSE, !.shown = @ /\ t.focused]

\* The object becomes t.  If the items vanish from under the pointer, then
\* browsers may or may not tell that it left.
Becomes(t, rendered) ==
    /\ pointer' = IF t.shown /\ ~rendered THEN pointer ELSE 0
    /\ typeahead' \in IF pointer' # pointer THEN {t, Leave(t)} ELSE {t}

-----------------------------------------------------------------------------
Focus ==
    /\ ~focus
    /\ focus' = TRUE /\ unheard' = FALSE
    /\ typeahead' = [typeahead EXCEPT !.focused = TRUE]
    /\ UNCHANGED <<source, asked, pointer>>

Blur ==
    /\ focus
    /\ focus' = FALSE /\ unheard' = FALSE
    /\ LET t == [typeahead EXCEPT !.focused = FALSE]
       IN  Becomes(IF t.mousedover THEN t ELSE HideMenu(t), FALSE)
    /\ UNCHANGED <<source, asked>>

\* A key that may change the text: keyup with lookup.
TypeText ==
    /\ focus
    /\ \E text \in Text \cup {Empty, typeahead.val} :
          LET t == [typeahead EXCEPT !.val = text, !.query = text]
          IN  CASE text = Empty -> Becomes(HideMenu(t), FALSE) /\ UNCHANGED asked
                [] text # Empty /\ source = "array" ->
                      Becomes(Process(t, Known), TRUE) /\ UNCHANGED asked
                [] text # Empty /\ source = "function" ->
                      Becomes(t, FALSE) /\ asked' = asked \cup {text}
    /\ UNCHANGED <<source, focus, unheard>>

\* The function answers with what it takes to match the text it was given.
SourceAnswers ==
    \E text \in asked :
        /\ asked' = asked \ {text}
        /\ Becomes(Process(typeahead, Matching(text, Known, 1..3)), TRUE)
        /\ UNCHANGED <<source, focus, unheard>>

\* Mutant: below the last item there is nothing.
Move_NoWrap(t, step) ==
    [t EXCEPT !.lit = {i + step : i \in @} \cap DOMAIN t.menu]

\* next and prev
Move(t, step) ==
    [t EXCEPT !.lit = {IF i + step \in DOMAIN t.menu THEN i + step
                       ELSE IF step = 1 THEN 1 ELSE Len(t.menu) : i \in @}]

Arrow ==
    /\ focus /\ typeahead.shown
    /\ \E step \in {1, -1} : typeahead' = Move(typeahead, step)
    /\ UNCHANGED <<source, asked, focus, pointer, unheard>>

\* Enter and tab, which move nothing else meanwhile.
EnterOrTab ==
    /\ focus /\ typeahead.shown
    /\ Becomes(Select(typeahead), FALSE)
    /\ UNCHANGED <<source, asked, focus, unheard>>

Escape ==
    /\ focus /\ typeahead.shown
    /\ Becomes(HideMenu(typeahead), FALSE)
    /\ UNCHANGED <<source, asked, focus, unheard>>

PointerOnItem ==
    /\ typeahead.shown /\ pointer = 0
    /\ \E i \in DOMAIN typeahead.menu :
          /\ pointer' = i
          /\ typeahead' = [typeahead EXCEPT !.mousedover = TRUE, !.lit = {i}]
    /\ UNCHANGED <<source, asked, focus, unheard>>

PointerOffItem ==
    /\ pointer # 0
    /\ pointer' = 0
    /\ typeahead' = Leave(typeahead)
    /\ UNCHANGED <<source, asked, focus, unheard>>

ClickItem ==
    /\ typeahead.shown /\ pointer # 0
    /\ Becomes([Select(typeahead) EXCEPT !.focused = TRUE], FALSE)
    /\ focus' = TRUE /\ unheard' = FALSE
    /\ UNCHANGED <<source, asked>>

TypeaheadNext ==
    \/ Focus \/ Blur \/ TypeText \/ SourceAnswers \/ Arrow \/ EnterOrTab \/ Escape
    \/ PointerOnItem \/ PointerOffItem \/ ClickItem

TypeaheadSpec == TypeaheadInit /\ [][TypeaheadNext]_typeaheadVars

-----------------------------------------------------------------------------
\* Whatever keys, pointer and focus do in turn, a menu that is shown has one
\* item lit, to be selected, and that is not below it.  With an array as the
\* source it shows the best matches of the text that the input has, and only
\* to a user who has the focus on the input or the pointer on the menu, as far
\* as browsers told.
TypeaheadAgrees ==
    LET t == typeahead
    IN  /\ t.shown => Cardinality(t.lit) = 1 /\ t.lit \subseteq DOMAIN t.menu
        /\ ~unheard => t.focused = focus
        /\ source = "array" /\ t.shown =>
              /\ t.menu = Suggested(t.val, Known)
              /\ focus \/ t.mousedover
=============================================================================
