------------------------------- MODULE MCPage -------------------------------
(* A small instance of Page: up to two tasks in the store, one range with  *)
(* two ports, the page and other users sharing two handlers.               *)
EXTENDS Page, TLC

CONSTANTS h1, h2, web, old, new

MCPortRange == web :> <<2, 3>>

\* The biggest port has the lowest id.
MCStored ==
    {{[id |-> MaxPort - p, vport |-> p, info |-> old] : p \in ports} :
        ports \in {{2, 3}}}

MCRequests ==
    [op : {"auto"}, business : Business, info : {new}]
        \cup [op : {"delete"}, id : 0..1]
        \cup [op : {"edit"}, id : {1}, info : {new}]

\* After haste the run goes on only while one request has arrived.
Bounded == hasty => arrived <= 1
=============================================================================
