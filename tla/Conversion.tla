----------------------------- MODULE Conversion -----------------------------
(***************************************************************************)
(* What jQuery.ajax makes of an answer (jquery-1.7.2.js): which of the     *)
(* forms it came in is taken, and how that is converted, type by type, to  *)
(* the type a script asked for.  The content is left out but for the type  *)
(* it really has; a conversion that fails on the content is left out too.  *)
(***************************************************************************)
EXTENDS Integers, FiniteSets, Sequences

CONSTANTS Added     \* converters a page may add, each [from, to, same]

Automatic == "*"
Unknown == "unknown"

\* ajaxSettings.converters and that of scripts; same: the value true in place
\* of a function, an answer of the one type is one of the other.
DefaultConverters ==
    {[from |-> Automatic, to |-> "text", same |-> FALSE],
     [from |-> "text", to |-> "html", same |-> TRUE]}
        \cup {[from |-> "text", to |-> t, same |-> FALSE] : t \in {"json", "xml", "script"}}

\* ajaxSettings.contents and that of scripts.
Contents == {"xml", "html", "json", "script"}

VARIABLES
    converters,
    responses,      \* the forms in which the answer can be had
    contentType,    \* by the header or the mimeType option
    dataTypes,      \* the types asked for, the next one first
    asked,          \* what they were (not of the code)
    current,        \* the type the response counts as, Unknown before
    content,        \* the type it really has (not of the code)
    failed          \* "No conversion"

conversionVars == <<converters, responses, contentType, dataTypes, asked,
                    current, content, failed>>

\* The types with converters, and one that a page makes up.
Types == {"text", "html", "json", "xml", "script", "own"}

ASSUME ConversionAssumption ==
    Added \subseteq SUBSET [from : Types \cup {Automatic}, to : Types, same : BOOLEAN]

ConversionInit ==
    /\ \E more \in Added \cup {{}} :
          converters = more \cup {c \in DefaultConverters :
                            \A m \in more : <<m.from, m.to>> # <<c.from, c.to>>}
    /\ responses \in {{"text"}, {"xml", "text"}, {"xml"}}
    /\ contentType \in Contents \cup {Unknown}
    /\ dataTypes \in {<<a>> : a \in Types \cup {Automatic}}
                        \cup {<<a, b>> : a, b \in Types \cup {Automatic}}
    /\ asked = dataTypes
    /\ current = Unknown /\ content = Unknown /\ failed = FALSE

Converts(a, b) == \E c \in converters : c.from = a /\ c.to = b

\* How many of the types asked for, from the first on, are automatic.
Leading ==
    CHOOSE n \in 0..Len(dataTypes) :
        /\ \A i \in 1..n : dataTypes[i] = Automatic
        /\ n < Len(dataTypes) => dataTypes[n + 1] # Automatic

\* The types asked for, with what the content type says in place of those.
Requested ==
    LET rest == SubSeq(dataTypes, Leading + 1, Len(dataTypes))
    IN  IF Leading > 0 /\ contentType # Unknown THEN <<contentType>> \o rest
        ELSE rest

\* ajaxHandleResponses.  Which convertible form comes first is up to the browser.
HandleResponses ==
    /\ current = Unknown
    /\ \E final \in responses :
          /\ Requested # <<>> =>
                \/ final = Requested[1]
                \/ /\ Requested[1] \notin responses
                   /\ Converts(final, Requested[1])
                        \/ \A f \in responses : ~Converts(f, Requested[1])
          /\ current' = final /\ content' = final
          /\ dataTypes' = IF Requested # <<>> /\ final = Requested[1]
                          THEN Tail(Requested) ELSE Requested
    /\ UNCHANGED <<converters, responses, contentType, asked, failed>>

\* By what pages say with converters that are true, the value is of every type
\* that these lead to.
CountsAs(value, type) ==
    \A T \in SUBSET (Types \cup {"garbage"}) :
        /\ value \in T
        /\ \A c \in converters : c.same /\ c.from \in T \cup {Automatic} => c.to \in T
        => type \in T

\* A converter applied to a value, which must be of its type.
Apply(c, value) ==
    IF c.same THEN value
    ELSE IF c.from = Automatic \/ CountsAs(value, c.from) THEN c.to ELSE "garbage"

Direct == {c \in converters : c.to = Head(dataTypes) /\ c.from \in {current, Automatic}}

\* Mutant: the second of two converters is all that is applied.
Chain_Second(first, second, value) == Apply(second, value)

Chain(first, second, value) == Apply(second, Apply(first, value))

\* One turn of the loop of ajaxConvert that finds a converter, or two.
Convert ==
    /\ current # Unknown /\ ~failed /\ dataTypes # <<>>
    /\ dataTypes' = Tail(dataTypes)
    /\ current' = IF Head(dataTypes) = Automatic THEN current ELSE Head(dataTypes)
    /\ \/ Head(dataTypes) \in {Automatic, current} /\ content' = content
       \/ /\ Head(dataTypes) \notin {Automatic, current}
          /\ \/ \E c \in Direct :
                   /\ c.from = Automatic => \A d \in Direct : d.from = Automatic
                   /\ content' = Apply(c, content)
             \/ /\ Direct = {}
                /\ \E first, second \in converters :
                      /\ first.from \in {current, Automatic} /\ first.to = second.from
                      /\ second.to = Head(dataTypes)
                      /\ content' = Chain(first, second, content)
    /\ UNCHANGED <<converters, responses, contentType, asked, failed>>

NoConversion ==
    /\ current # Unknown /\ ~failed /\ dataTypes # <<>>
    /\ Head(dataTypes) \notin {Automatic, current} /\ Direct = {}
    /\ \A first, second \in converters :
          ~(/\ first.from \in {current, Automatic} /\ first.to = second.from
            /\ second.to = Head(dataTypes))
    /\ failed' = TRUE
    /\ UNCHANGED <<converters, responses, contentType, dataTypes, asked, current, content>>

ConversionNext == HandleResponses \/ Convert \/ NoConversion

ConversionSpec == ConversionInit /\ [][ConversionNext]_conversionVars

-----------------------------------------------------------------------------
\* A function for success gets the type that was asked for last, converted by
\* functions of which each was given what it converts from, or the request
\* fails; only what was asked for automatically may come as it is.
GetsWhatWasAsked ==
    current # Unknown /\ dataTypes = <<>> /\ ~failed =>
        LET wanted == asked[Len(asked)]
        IN  /\ content # "garbage"
            /\ wanted # Automatic => CountsAs(content, wanted)
=============================================================================
