------------------------------ MODULE MCScripts ------------------------------
(***************************************************************************)
(* Small instances of the parts of jquery-1.7.2.js, in one run: they share *)
(* no state, so a behaviour is one of a single part, and the variables of  *)
(* the others stay as they are when nothing has happened.                  *)
(***************************************************************************)
EXTENDS Callbacks, Ajax, Conversion, Events, Effects, TLC

CONSTANTS r1, r2, handler1

VARIABLE part   \* whose behaviour it is

scriptVars == <<listVars, ajaxVars, conversionVars, eventVars, effectVars, part>>

\* A list is filled and fired and its callbacks change it; when() has two more
\* Deferreds to settle.
MCMaxOps == "list" :> 4 @@ "deferred" :> 4 @@ "when" :> 3

\* From a type that has a converter and from one that has none to any other, a
\* function or the value true; and one that takes anything.
MCAdded ==
    {{[from |-> a, to |-> b, same |-> s]} : a \in {"text", "xml"}, b \in Types, s \in BOOLEAN}
        \cup {{[from |-> Automatic, to |-> b, same |-> FALSE]} : b \in Types}

\* The requests are interchangeable: of two settings one order is enough.
Rank(s) ==
    LET Bit(b) == IF b THEN 1 ELSE 0
    IN  Bit(s.async) + 2 * Bit(s.timed) + 4 * Bit(s.global)
            + 8 * (CASE s.via = "xhr" -> 0 [] s.via = "script" -> 1 [] s.via = "none" -> 2)

\* One initial state of each part, for the behaviours of the others.
ListIdle == script = "list" /\ lists = [id \in Layout(script) |-> NewList({})]
AjaxIdle == setting = [r \in Req |-> CHOOSE s \in Settings : TRUE]
ConversionIdle == /\ converters = DefaultConverters /\ responses = {"text"}
                  /\ contentType = Unknown /\ dataTypes = <<Automatic>>

Init ==
    /\ part \in {"callbacks", "ajax", "conversion", "events", "effects"}
    /\ (part # "callbacks" => ListIdle) /\ ListInit
    /\ (part # "ajax" => AjaxIdle) /\ AjaxInit
    /\ Rank(setting[r1]) <= Rank(setting[r2])
    /\ (part # "conversion" => ConversionIdle) /\ ConversionInit
    /\ EventsInit
    /\ shown = TRUE /\ EffectsInit      \* it is hidden by fadeOut

Next ==
    /\ UNCHANGED part
    /\ \/ /\ part = "callbacks" /\ ListNext
          /\ UNCHANGED <<ajaxVars, conversionVars, eventVars, effectVars>>
       \/ /\ part = "ajax" /\ AjaxNext
          /\ UNCHANGED <<listVars, conversionVars, eventVars, effectVars>>
       \/ /\ part = "conversion" /\ ConversionNext
          /\ UNCHANGED <<listVars, ajaxVars, eventVars, effectVars>>
       \/ /\ part = "events" /\ EventsNext
          /\ UNCHANGED <<listVars, ajaxVars, conversionVars, effectVars>>
       \/ /\ part = "effects" /\ EffectsNext
          /\ UNCHANGED <<listVars, ajaxVars, conversionVars, eventVars>>

Spec == Init /\ [][Next]_scriptVars /\ AjaxFairness /\ EffectsFairness
=============================================================================
