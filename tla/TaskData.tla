------------------------------ MODULE TaskData ------------------------------
(***************************************************************************)
(* What a load-balancing task is, which requests the console serves about  *)
(* tasks, and what each request computes from the tasks it read: the port  *)
(* that applyVPort chooses, the row that InsertNewTask appends, the rows   *)
(* that DeleteTask and UpdateTaskInfo leave, and the answer sent back.     *)
(*                                                                         *)
(* The stored list of tasks is a set here: ids are unique (proved in       *)
(* FileStoreProofs), and every reader sorts the list by port again before  *)
(* it looks at it, so the order in the file tells nothing apart.           *)
(***************************************************************************)
EXTENDS Integers, FiniteSets

CONSTANTS
    MinPort, MaxPort,   \* the ports a task may have: 1000 and 99999
    Business,           \* the business types of BusinessList; a single one
                        \* stands for the empty list, 10000-19999
    PortRange,          \* the <<first, last>> port of each business type
    Info                \* servers, backup servers, comment, log flag, time

\* checkBusinessList lets the server start only with ranges like these, as long
\* as no two business types have the same name (BusinessList).
ASSUME PortsAssumption == MinPort \in Nat \ {0} /\ MaxPort \in Nat
ASSUME RangesAssumption ==
    /\ PortRange \in [Business -> Nat \X Nat]
    /\ \A b \in Business : /\ MinPort <= PortRange[b][1]
                           /\ PortRange[b][1] <= PortRange[b][2]
                           /\ PortRange[b][2] <= MaxPort

NoPort == -1
Port == MinPort..MaxPort
Row == [id : Nat, vport : Port, info : Info]

\* The port columns of a list of tasks: what QueryVPort returns.
VPorts(rows) == {r.vport : r \in rows}

UniqueIds(rows) == \A r, s \in rows : r.id = s.id => r = s
UniquePorts(rows) == \A r, s \in rows : r.vport = s.vport => r = s

\* A list of tasks that the console may find in its store when it starts.
StoredList(rows) ==
    /\ rows \subseteq Row
    /\ IsFiniteSet(rows)
    /\ UniqueIds(rows)
    /\ UniquePorts(rows)

Greatest(S) == CHOOSE x \in S : \A y \in S : y <= x
Least(S) == CHOOSE x \in S : \A y \in S : x <= y

-----------------------------------------------------------------------------
(* Requests: the forms that main.js sends. *)

AutoRequest == [op : {"auto"}, business : Business, info : Info]
PortRequest == [op : {"port"}, port : Int, info : Info]
DeleteRequest == [op : {"delete"}, id : Int]
EditRequest == [op : {"edit"}, id : Int, info : Info]
ListRequest == [op : {"list"}]

Request == AutoRequest \cup PortRequest \cup DeleteRequest
              \cup EditRequest \cup ListRequest

NoRequest == [op |-> "list"]    \* of a handler that serves none

Applies(r) == r.op \in {"auto", "port"}

-----------------------------------------------------------------------------
(* Choosing a port. *)

\* Mutant: the port after the biggest, without looking for gaps below it.
AutoAssign_SkipsGaps(first, last, taken) ==
    IF taken = {} \/ Greatest(taken) < first THEN first
    ELSE IF Greatest(taken) >= last THEN NoPort
    ELSE Greatest(taken) + 1

\* autoAssignPort, and the answer firstPort that applyVPort gives without
\* calling it when no task exists.  taken holds the ports whose portSlots
\* entry is true.  The search stops before the lower of the last port and the
\* biggest assigned one, and the port after the biggest is tried only when the
\* biggest is below the last port.
AutoAssign(first, last, taken) ==
    IF taken = {} \/ Greatest(taken) < first
    THEN first
    ELSE LET biggest == Greatest(taken)
             upperLimit == IF biggest < last THEN biggest ELSE last
             free == (first..(upperLimit - 1)) \ taken
         IN  IF free # {} THEN Least(free)
             ELSE IF upperLimit = last THEN NoPort
             ELSE biggest + 1

\* Mutant: the range of legal ports is not checked.
SpecifiedPort_Unchecked(port, taken) ==
    IF port \notin taken THEN port ELSE NoPort

\* A port asked for by number is taken as it is, or not at all.
SpecifiedPort(port, taken) ==
    IF port \in Port \ taken THEN port ELSE NoPort

\* vportToAssign at the end of applyVPort's checks; -1 when it fails them.
VPortToAssign(r, taken) ==
    CASE r.op = "auto" ->
            AutoAssign(PortRange[r.business][1], PortRange[r.business][2], taken)
      [] r.op = "port" -> SpecifiedPort(r.port, taken)
      [] OTHER -> NoPort

\* The three messages of a request for a port that got none.
Refusal(r) ==
    IF r.op = "auto" THEN "exhausted"
    ELSE IF r.port \notin Port THEN "out of range"
    ELSE "in use"

-----------------------------------------------------------------------------
(* What a request makes of the rows it read. *)

\* Mutant: the number of rows as the next id.
NextId_CountsRows(rows) == Cardinality(rows)

NextId(rows) ==
    IF rows = {} THEN 0 ELSE Greatest({r.id : r \in rows}) + 1

InsertRow(rows, vport, info) ==
    rows \cup {[id |-> NextId(rows), vport |-> vport, info |-> info]}

DeleteRows(rows, id) == {r \in rows : r.id # id}

\* Mutant: only the edited row is kept.
UpdateRows_OnlyEdited(rows, id, info) ==
    {[id |-> id, vport |-> r.vport, info |-> info] :
        r \in {s \in rows : s.id = id}}

UpdateRows(rows, id, info) ==
    {IF r.id = id THEN [id |-> id, vport |-> r.vport, info |-> info] ELSE r :
        r \in rows}

\* The rows that a request writes back, given those it read and, for a
\* request that applies for a port, the port chosen before.
Change(r, vport, rows) ==
    CASE Applies(r) -> InsertRow(rows, vport, r.info)
      [] r.op = "delete" -> DeleteRows(rows, r.id)
      [] r.op = "edit" -> UpdateRows(rows, r.id, r.info)
      [] r.op = "list" -> rows

-----------------------------------------------------------------------------
(* Answers. *)

Status == {"none", "assigned", "exhausted", "out of range", "in use",
           "deleted", "edited", "listed"}

Answer == [status : Status, port : Int, rows : SUBSET Row]

Result(status, port, rows) ==
    [status |-> status, port |-> port, rows |-> rows]

NoAnswer == Result("none", NoPort, {})
Refused(r) == Result(Refusal(r), NoPort, {})
Listed(rows) == Result("listed", NoPort, rows)

\* The answer of a request that has written to the store.  The file store
\* reports one deleted row whatever it deleted.
Accepted(r, vport) ==
    CASE Applies(r) -> Result("assigned", vport, {})
      [] r.op = "delete" -> Result("deleted", NoPort, {})
      [] r.op = "edit" -> Result("edited", NoPort, {})

-----------------------------------------------------------------------------
(* The request as a whole, when nothing happens between its parts. *)

Effect(r, rows) ==
    IF Applies(r) /\ VPortToAssign(r, VPorts(rows)) = NoPort
    THEN rows
    ELSE Change(r, VPortToAssign(r, VPorts(rows)), rows)

Reply(r, rows) ==
    CASE Applies(r) /\ VPortToAssign(r, VPorts(rows)) = NoPort -> Refused(r)
      [] r.op = "list" -> Listed(rows)
      [] OTHER -> Accepted(r, VPortToAssign(r, VPorts(rows)))
=============================================================================
