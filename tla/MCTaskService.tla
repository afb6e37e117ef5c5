--------------------------- MODULE MCTaskService ---------------------------
(* A small instance of TaskService: two business types with adjacent port  *)
(* ranges inside the ports 2 to 7, and every set of assigned ports at the  *)
(* start.                                                                  *)
EXTENDS TaskService, TLC

CONSTANTS h1, h2, mail, web, old, new

MCPortRange == (mail :> <<2, 4>>) @@ (web :> <<5, 6>>)

\* Every set of assigned ports; the biggest port has the lowest id, so that
\* neither order agrees with the other.
MCStored ==
    {{[id |-> MaxPort - p, vport |-> p, info |-> old] : p \in ports} :
        ports \in SUBSET Port}

\* Ports below, inside, between and above the ranges, ids that exist and ids
\* that do not.
MCRequests ==
    [op : {"auto"}, business : Business, info : {new}]
        \cup [op : {"port"}, port : {1, 3, 7, 8}, info : {new}]
        \cup [op : {"delete"}, id : 0..6]
        \cup [op : {"edit"}, id : {0, 3, 6}, info : {new}]
        \cup ListRequest
=============================================================================
