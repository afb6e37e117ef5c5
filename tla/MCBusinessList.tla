--------------------------- MODULE MCBusinessList ---------------------------
(* A small instance of BusinessList: three entries, so that a list can be  *)
(* out of order at both ends, over five port numbers.                      *)
EXTENDS BusinessList, TLC

CONSTANTS n1, n2, n3

\* The names are interchangeable.
Names == Permutations(Name)
=============================================================================
