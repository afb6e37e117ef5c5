---------------------------- MODULE BusinessList ----------------------------
(***************************************************************************)
(* checkBusinessList: whether the server starts with the BusinessList of   *)
(* its configuration file.  Every port range of the list must be legal and *)
(* no two may overlap; applyVPort and autoAssignPort rely on both, and     *)
(* TaskData assumes the first.                                             *)
(*                                                                         *)
(* The pattern "name,dddd-dddd;..." has matched already, and no name holds *)
(* a comma or a semicolon.                                                 *)
(***************************************************************************)
EXTENDS Integers, Sequences, Functions

CONSTANTS
    Name,               \* the names of business types
    MinPort, MaxPort,   \* 1000 and 99999
    MaxBusinesses       \* bound on the length of the list

ASSUME BusinessListAssumption ==
    /\ MinPort \in Nat
    /\ MaxPort \in Nat
    /\ MaxBusinesses \in Nat

VARIABLES
    businesses, \* the entries of the list, in the order of the file
    verdict     \* what checkBusinessList says of it

vars == <<businesses, verdict>>

\* Four or five digits: nothing above 99999, but numbers below 1000.
Entry == [name : Name, begin : 0..MaxPort, end : 0..MaxPort]

BusinessLists == UNION {[1..n -> Entry] : n \in 0..MaxBusinesses}

Illegal(range) == range.begin > range.end \/ range.begin < MinPort

\* Mutant: only a range that begins too low is refused.
BadRange_Unordered(list) == \E i \in DOMAIN list : list[i].begin < MinPort

\* The ranges are checked in a map from names: of the entries with the same
\* name only the last is seen.
BadRange(list) ==
    \E i \in DOMAIN list :
        /\ Illegal(list[i])
        /\ \A j \in DOMAIN list : list[j].name = list[i].name => j <= i

\* Mutant: the list is not sorted.
Sorted_AsListed(list) == {list}

\* What sort.Sort may make of the list: its entries, ordered by their first port.
Sorted(list) ==
    {[i \in DOMAIN list |-> list[p[i]]] :
        p \in {q \in Bijection(DOMAIN list, DOMAIN list) :
                \A i, j \in DOMAIN list :
                    i < j => list[q[i]].begin <= list[q[j]].begin}}

\* Mutant: ranges may share one port.
Overlap_OffByOne(sorted) ==
    \E i \in 1..(Len(sorted) - 1) : sorted[i].end > sorted[i + 1].begin

Overlap(sorted) ==
    \E i \in 1..(Len(sorted) - 1) : sorted[i].end >= sorted[i + 1].begin

TypeOK ==
    /\ businesses \in BusinessLists
    /\ verdict \in {"none", "started", "bad range", "overlap"}

Init == businesses \in BusinessLists /\ verdict = "none"

CheckRanges ==
    /\ verdict = "none"
    /\ BadRange(businesses)
    /\ verdict' = "bad range"
    /\ UNCHANGED businesses

CheckOverlap ==
    /\ verdict = "none"
    /\ ~BadRange(businesses)
    /\ \E sorted \in Sorted(businesses) :
            verdict' = IF Overlap(sorted) THEN "overlap" ELSE "started"
    /\ UNCHANGED businesses

Next == CheckRanges \/ CheckOverlap

Spec == Init /\ [][Next]_vars

-----------------------------------------------------------------------------
UniqueNames ==
    \A i, j \in DOMAIN businesses :
        businesses[i].name = businesses[j].name => i = j

\* What a list must be for the console to work with it: each range is in order
\* and within the legal ports, and no port is in two.
Legal ==
    /\ \A i \in DOMAIN businesses :
            /\ MinPort <= businesses[i].begin
            /\ businesses[i].begin <= businesses[i].end
            /\ businesses[i].end <= MaxPort
    /\ \A i, j \in DOMAIN businesses :
            i # j => (businesses[i].begin..businesses[i].end)
                        \cap (businesses[j].begin..businesses[j].end) = {}

\* Looking at neighbours only, in whatever order sort.Sort leaves equal first
\* ports, decides the question: with distinct names the server starts with
\* every legal list and with no other.
StartsIffLegal == UniqueNames /\ verdict # "none" => (verdict = "started" <=> Legal)

\* A legal list is never refused, whatever the names.
RefusedIsIllegal == verdict \in {"bad range", "overlap"} => ~Legal
=============================================================================
