---------------------------- MODULE MCFileStore ----------------------------
(* Small instances of FileStore. *)
EXTENDS FileStore, TLC

CONSTANTS h1, h2, h3, mail, old, new

MCPortRange == mail :> <<2, 4>>

Task(id, p) == [id |-> id, vport |-> p, info |-> old]

\* Lists a console may have stored: a gap in the ports, a gap in the ids, a
\* port above the range of the business.
MCStored ==
    {{Task(0, 2)}, {Task(0, 3), Task(2, 2)}, {Task(1, 5), Task(3, 2)}}

MCRequests ==
    [op : {"auto"}, business : Business, info : {new}]
        \cup [op : {"port"}, port : {2, 5, 6}, info : {new}]
        \cup [op : {"delete"}, id : {0, 3}]
        \cup [op : {"edit"}, id : {0}, info : {new}]
        \cup ListRequest

\* The handlers are interchangeable; for runs without liveness properties.
Handlers == Permutations(Handler)

\* For the run of SerialSpec, which has few interleavings: every set of
\* assigned ports, the biggest port with the lowest id.
MCEveryStored ==
    {{Task(MaxPort - p, p) : p \in ports} : ports \in SUBSET Port}

\* A first look at the list and applications: nothing deletes or edits.
MCInserts == [op : {"auto"}, business : Business, info : {new}] \cup ListRequest

\* One request of each shape of program: two reads and a write, one read and
\* a write, one read.
MCShapes == MCInserts \cup [op : {"delete"}, id : {0}]
=============================================================================
