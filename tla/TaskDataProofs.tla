--------------------------- MODULE TaskDataProofs ---------------------------
(***************************************************************************)
(* What the operators of TaskData return, for every port range, every list *)
(* of stored tasks and every request: the facts that the proofs about      *)
(* TaskService and FileStore rest on.                                      *)
(***************************************************************************)
EXTENDS TaskData, FiniteSetTheorems, TLAPS

(***************************************************************************)
(* Greatest and least elements of finite sets of integers.  A smallest     *)
(* subset without a greatest element would, one element taken out, have    *)
(* one, and then so would the subset.                                      *)
(***************************************************************************)
LEMMA GreatestExists ==
    ASSUME NEW S \in SUBSET Int, IsFiniteSet(S), S # {}
    PROVE  \E x \in S : \A y \in S : y <= x
<1> DEFINE Topped(T) == \E x \in T : \A y \in T : y <= x
           Bad == {T \in FiniteSubsetsOf(S) : T # {} /\ ~Topped(T)}
<1>1. SUFFICES ASSUME ~Topped(S) PROVE FALSE
  OBVIOUS
<1>2. S \in Bad
  BY <1>1 DEF FiniteSubsetsOf
<1>3. PICK T \in Bad : \A U \in Bad : <<U, T>> \notin StrictSubsetOrdering(S)
  <2>1. Bad \subseteq FiniteSubsetsOf(S) /\ Bad # {}
    BY <1>2
  <2>2. IsWellFoundedOn(StrictSubsetOrdering(S), FiniteSubsetsOf(S))
    BY FS_StrictSubsetOrderingWellFounded
  <2> HIDE DEF Bad
  <2> QED BY <2>1, <2>2, WFMin
<1>4. PICK x \in T : TRUE
  BY <1>3
<1>5. T \ {x} \in FiniteSubsetsOf(S) /\ <<T \ {x}, T>> \in StrictSubsetOrdering(S)
  <2>1. T \subseteq S /\ IsFiniteSet(T)
    BY <1>3 DEF FiniteSubsetsOf
  <2>2. IsFiniteSet(T \ {x})
    BY <2>1, FS_RemoveElement
  <2> QED BY <1>4, <2>1, <2>2 DEF FiniteSubsetsOf, StrictSubsetOrdering
<1>6. CASE T \ {x} = {}
  <2>1. T = {x} /\ x \in Int
    BY <1>3, <1>4, <1>6 DEF FiniteSubsetsOf
  <2> QED BY <1>3, <2>1
<1>7. CASE T \ {x} # {}
  <2>1. PICK m \in T \ {x} : \A y \in T \ {x} : y <= m
    BY <1>3, <1>5, <1>7
  <2>2. x \in Int /\ m \in Int /\ T \subseteq Int
    BY <1>3, <1>4, <2>1 DEF FiniteSubsetsOf
  <2>3. CASE x <= m
    BY <1>3, <2>1, <2>2, <2>3
  <2>4. CASE ~(x <= m)
    <3>1. \A y \in T : y <= x
      BY <2>1, <2>2, <2>4
    <3> QED BY <1>3, <1>4, <3>1
  <2> QED BY <2>3, <2>4
<1> QED BY <1>6, <1>7

LEMMA GreatestIsGreatest ==
    ASSUME NEW S \in SUBSET Int, IsFiniteSet(S), S # {}
    PROVE  Greatest(S) \in S /\ \A y \in S : y <= Greatest(S)
BY GreatestExists DEF Greatest

LEMMA LeastIsLeast ==
    ASSUME NEW S \in SUBSET Int, IsFiniteSet(S), S # {}
    PROVE  Least(S) \in S /\ \A y \in S : Least(S) <= y
<1> DEFINE f == [x \in S |-> -x]
           N == {-x : x \in S}
<1>1. IsFiniteSet(N)
  <2>1. f \in Surjection(S, N)
    BY DEF Surjection
  <2> QED BY <2>1, FS_Surjection
<1>2. N \in SUBSET Int /\ N # {}
  <2>1. \A x \in S : -x \in Int
    OBVIOUS
  <2> QED BY <2>1
<1>3. PICK n \in N : \A m \in N : m <= n
  <2> HIDE DEF N
  <2> QED BY <1>1, <1>2, GreatestExists
<1>4. PICK x \in S : n = -x
  BY <1>3
<1>5. \A y \in S : x <= y
  <2>1. SUFFICES ASSUME NEW y \in S PROVE x <= y
    OBVIOUS
  <2>2. -y \in N
    OBVIOUS
  <2>3. -y <= -x /\ x \in Int /\ y \in Int
    BY <1>3, <1>4, <2>2
  <2> QED BY <2>3
<1> QED BY <1>5 DEF Least

-----------------------------------------------------------------------------
(* Columns of a list of tasks. *)

LEMMA PortsAreFinite ==
    ASSUME NEW taken \in SUBSET Port
    PROVE  /\ Port \in SUBSET (Nat \ {0})
           /\ IsFiniteSet(taken)
<1>1. MinPort \in Int /\ MaxPort \in Int /\ Port \in SUBSET (Nat \ {0})
  BY PortsAssumption DEF Port
<1>2. IsFiniteSet(Port)
  BY <1>1, FS_Interval DEF Port
<1> QED BY <1>1, <1>2, FS_Subset

LEMMA VPortsArePorts ==
    ASSUME NEW rows \in SUBSET Row
    PROVE  VPorts(rows) \in SUBSET Port
BY DEF VPorts, Row

\* The id of a new row is above all others.
LEMMA NextIdIsFresh ==
    ASSUME NEW rows \in SUBSET Row, IsFiniteSet(rows)
    PROVE  /\ NextId(rows) \in Nat
           /\ \A r \in rows : r.id < NextId(rows)
<1> DEFINE ids == {r.id : r \in rows}
           f == [r \in rows |-> r.id]
<1>1. CASE rows = {}
  BY <1>1 DEF NextId
<1>2. CASE rows # {}
  <2>1. ids \in SUBSET Nat /\ ids # {}
    BY <1>2 DEF Row
  <2>2. IsFiniteSet(ids)
    <3>1. f \in Surjection(rows, ids)
      BY DEF Surjection
    <3> QED BY <3>1, FS_Surjection
  <2>3. Greatest(ids) \in ids /\ \A i \in ids : i <= Greatest(ids)
    <3>1. ids \in SUBSET Int
      BY <2>1
    <3> HIDE DEF ids
    <3> QED BY <2>1, <2>2, <3>1, GreatestIsGreatest
  <2>4. NextId(rows) = Greatest(ids) + 1
    BY <1>2 DEF NextId
  <2>5. \A r \in rows : r.id \in ids
    OBVIOUS
  <2>6. Greatest(ids) \in Nat
    BY <2>1, <2>3
  <2>7. \A r \in rows : r.id \in Nat /\ r.id <= Greatest(ids)
    BY <2>1, <2>3, <2>5
  <2> HIDE DEF ids
  <2> QED BY <2>4, <2>6, <2>7
<1> QED BY <1>1, <1>2

-----------------------------------------------------------------------------
(* Choosing a port. *)

\* autoAssignPort either gives the first port of the range that is free, or
\* none, and then the range is taken but perhaps for its last port.
LEMMA AutoAssignFirstFit ==
    ASSUME NEW first \in Nat, NEW last \in Nat, first <= last,
           NEW taken \in SUBSET Nat, IsFiniteSet(taken)
    PROVE  LET port == AutoAssign(first, last, taken)
           IN  \/ /\ port = NoPort
                  /\ first..(last - 1) \subseteq taken
                  /\ \E p \in taken : p >= last
               \/ /\ port \in (first..last) \ taken
                  /\ first..(port - 1) \subseteq taken
<1> DEFINE biggest == Greatest(taken)
           upper == IF biggest < last THEN biggest ELSE last
           free == (first..(upper - 1)) \ taken
<1>1. CASE taken = {}
  BY <1>1 DEF AutoAssign
<1>2. ASSUME taken # {}
      PROVE  biggest \in taken /\ biggest \in Nat /\ \A p \in taken : p <= biggest
  <2>1. taken \in SUBSET Int
    OBVIOUS
  <2> QED BY <1>2, <2>1, GreatestIsGreatest
<1>3. CASE taken # {} /\ biggest < first
  BY <1>2, <1>3 DEF AutoAssign
<1>4. CASE taken # {} /\ ~(biggest < first) /\ free # {}
  <2>1. upper \in Int /\ upper <= last /\ upper <= biggest
    BY <1>2, <1>4
  <2>2. free \in SUBSET Int /\ IsFiniteSet(free)
    <3>1. IsFiniteSet(first..(upper - 1))
      BY <2>1, FS_Interval
    <3> QED BY <2>1, <3>1, FS_Subset
  <2>3. Least(free) \in free /\ \A p \in free : Least(free) <= p
    <3> HIDE DEF free
    <3> QED BY <1>4, <2>2, LeastIsLeast
  <2>4. AutoAssign(first, last, taken) = Least(free)
    BY <1>4 DEF AutoAssign
  <2>5. Least(free) \in (first..last) \ taken
    BY <2>1, <2>3
  <2>6. \A p \in first..(Least(free) - 1) : p \in taken
    <3>1. SUFFICES ASSUME NEW p \in first..(Least(free) - 1), p \notin taken
                   PROVE  FALSE
      OBVIOUS
    <3>2. p \in free
      BY <2>1, <2>3, <2>5, <3>1
    <3> QED BY <2>3, <2>5, <3>1, <3>2
  <2> QED BY <2>4, <2>5, <2>6
<1>5. CASE taken # {} /\ ~(biggest < first) /\ free = {}
  <2>1. AutoAssign(first, last, taken) =
            IF upper = last THEN NoPort ELSE biggest + 1
    BY <1>5 DEF AutoAssign
  <2>2. first..(upper - 1) \subseteq taken
    BY <1>5
  <2>3. CASE upper = last
    <3>1. biggest >= last
      BY <1>2, <1>5, <2>3
    <3> QED BY <1>2, <1>5, <2>1, <2>2, <2>3, <3>1
  <2>4. CASE upper # last
    <3>1. upper = biggest /\ biggest < last
      BY <2>4
    <3>2. \A p \in first..biggest : p \in taken
      BY <1>2, <1>5, <2>2, <3>1
    <3> HIDE DEF biggest, upper, free
    <3> QED BY <1>2, <1>5, <2>1, <2>4, <3>1, <3>2
  <2> QED BY <2>3, <2>4
<1> QED BY <1>1, <1>3, <1>4, <1>5

\* A request gets a port that no task has, and a legal one, or none.
LEMMA AssignedPortIsFree ==
    ASSUME NEW r \in Request, NEW taken \in SUBSET Port
    PROVE  VPortToAssign(r, taken) \in (Port \ taken) \cup {NoPort}
<1>1. CASE r.op = "auto"
  <2> DEFINE range == PortRange[r.business]
  <2>1. r.business \in Business
    BY <1>1 DEF Request, AutoRequest, PortRequest, DeleteRequest, EditRequest,
                ListRequest
  <2>2. /\ range[1] \in Nat /\ range[2] \in Nat /\ range[1] <= range[2]
        /\ MinPort <= range[1] /\ range[2] <= MaxPort
    BY <2>1, RangesAssumption
  <2>3. taken \in SUBSET Nat /\ IsFiniteSet(taken)
    BY PortsAreFinite
  <2>4. range[1]..range[2] \subseteq Port
    BY <2>2, PortsAssumption DEF Port
  <2>5. VPortToAssign(r, taken) = AutoAssign(range[1], range[2], taken)
    BY <1>1 DEF VPortToAssign
  <2> HIDE DEF range
  <2> QED BY <2>2, <2>3, <2>4, <2>5, AutoAssignFirstFit
<1>2. CASE r.op = "port"
  BY <1>2 DEF VPortToAssign, SpecifiedPort
<1>3. CASE r.op \notin {"auto", "port"}
  BY <1>3 DEF VPortToAssign
<1> QED BY <1>1, <1>2, <1>3

-----------------------------------------------------------------------------
(* Requests. *)

LEMMA RequestFields ==
    ASSUME NEW r \in Request
    PROVE  /\ r.op \in {"auto", "port", "delete", "edit", "list"}
           /\ r.op = "auto" => r.business \in Business
           /\ r.op \in {"auto", "port", "edit"} => r.info \in Info
BY DEF Request, AutoRequest, PortRequest, DeleteRequest, EditRequest, ListRequest

LEMMA NoRequestIsRequest == NoRequest \in Request
BY DEF NoRequest, Request, ListRequest

\* Writing back keeps a list of tasks a list of tasks with distinct ids.
LEMMA ChangeKeepsIds ==
    ASSUME NEW r \in Request, NEW vport, Applies(r) => vport \in Port,
           NEW rows \in SUBSET Row, IsFiniteSet(rows), UniqueIds(rows)
    PROVE  /\ Change(r, vport, rows) \in SUBSET Row
           /\ IsFiniteSet(Change(r, vport, rows))
           /\ UniqueIds(Change(r, vport, rows))
<1>1. CASE Applies(r)
  <2> DEFINE new == [id |-> NextId(rows), vport |-> vport, info |-> r.info]
  <2>1. Change(r, vport, rows) = rows \cup {new}
    BY <1>1 DEF Change, Applies, InsertRow
  <2>2. NextId(rows) \in Nat /\ \A s \in rows : s.id < NextId(rows)
    BY NextIdIsFresh
  <2>3. new \in Row
    BY <1>1, <2>2, RequestFields DEF Row, Applies
  <2>4. \A s \in rows : s.id # new.id
    BY <2>2 DEF Row
  <2>5. UniqueIds(rows \cup {new})
    <3> HIDE DEF new
    <3> QED BY <2>4 DEF UniqueIds
  <2> HIDE DEF new
  <2>6. IsFiniteSet(rows \cup {new})
    BY FS_AddElement
  <2> QED BY <2>1, <2>3, <2>5, <2>6
<1>2. CASE r.op = "delete"
  <2>1. Change(r, vport, rows) = DeleteRows(rows, r.id)
    BY <1>2 DEF Change
  <2>2. DeleteRows(rows, r.id) \in SUBSET rows
    BY DEF DeleteRows
  <2> QED BY <2>1, <2>2, FS_Subset DEF UniqueIds
<1>3. CASE r.op = "edit"
  <2> DEFINE Edited(s) == IF s.id = r.id
                          THEN [id |-> r.id, vport |-> s.vport, info |-> r.info]
                          ELSE s
             f == [s \in rows |-> Edited(s)]
             T == {Edited(s) : s \in rows}
  <2>1. Change(r, vport, rows) = T
    BY <1>3 DEF Change, UpdateRows
  <2>2. \A s \in rows : Edited(s) \in Row /\ Edited(s).id = s.id
    BY <1>3, RequestFields DEF Row
  <2>3. IsFiniteSet(T)
    <3>1. f \in Surjection(rows, T)
      BY DEF Surjection
    <3> HIDE DEF T, f
    <3> QED BY <3>1, FS_Surjection
  <2>4. UniqueIds(T)
    <3>1. SUFFICES ASSUME NEW s \in rows, NEW t \in rows,
                          Edited(s).id = Edited(t).id
                   PROVE  Edited(s) = Edited(t)
      BY DEF UniqueIds
    <3>2. s = t
      BY <2>2, <3>1 DEF UniqueIds
    <3> QED BY <3>2
  <2> QED BY <2>1, <2>2, <2>3, <2>4
<1>4. CASE r.op = "list"
  BY <1>4 DEF Change
<1> QED BY <1>1, <1>2, <1>3, <1>4, RequestFields DEF Applies

\* Writing back keeps ports distinct when the port to insert is a free one.
LEMMA ChangeKeepsPorts ==
    ASSUME NEW r \in Request, NEW vport,
           NEW rows \in SUBSET Row, UniquePorts(rows), UniqueIds(rows),
           Applies(r) => vport \notin VPorts(rows)
    PROVE  UniquePorts(Change(r, vport, rows))
<1>1. CASE Applies(r)
  <2> DEFINE new == [id |-> NextId(rows), vport |-> vport, info |-> r.info]
  <2>1. Change(r, vport, rows) = rows \cup {new}
    BY <1>1 DEF Change, Applies, InsertRow
  <2>2. \A s \in rows : s.vport # new.vport
    BY <1>1 DEF VPorts
  <2> HIDE DEF new
  <2> QED BY <2>1, <2>2 DEF UniquePorts
<1>2. CASE r.op = "delete"
  BY <1>2 DEF Change, DeleteRows, UniquePorts
<1>3. CASE r.op = "edit"
  <2> DEFINE Edited(s) == IF s.id = r.id
                          THEN [id |-> r.id, vport |-> s.vport, info |-> r.info]
                          ELSE s
  <2>1. Change(r, vport, rows) = {Edited(s) : s \in rows}
    BY <1>3 DEF Change, UpdateRows
  <2>2. \A s \in rows : Edited(s).vport = s.vport
    OBVIOUS
  <2>3. UniquePorts({Edited(s) : s \in rows})
    <3>1. SUFFICES ASSUME NEW s \in rows, NEW t \in rows,
                          Edited(s).vport = Edited(t).vport
                   PROVE  Edited(s) = Edited(t)
      BY DEF UniquePorts
    <3>2. s = t
      BY <2>2, <3>1 DEF UniquePorts
    <3> QED BY <3>2
  <2> QED BY <2>1, <2>3
<1>4. CASE r.op = "list"
  BY <1>4 DEF Change
<1> QED BY <1>1, <1>2, <1>3, <1>4, RequestFields DEF Applies

\* A whole request keeps the list one that the console may store.
LEMMA EffectKeepsStoredList ==
    ASSUME NEW r \in Request, NEW rows, StoredList(rows)
    PROVE  StoredList(Effect(r, rows))
<1> DEFINE vport == VPortToAssign(r, VPorts(rows))
<1>1. vport \in (Port \ VPorts(rows)) \cup {NoPort}
  BY VPortsArePorts, AssignedPortIsFree DEF StoredList
<1>2. CASE Applies(r) /\ vport = NoPort
  BY <1>2 DEF Effect
<1>3. CASE ~(Applies(r) /\ vport = NoPort)
  <2>1. Effect(r, rows) = Change(r, vport, rows)
    BY <1>3 DEF Effect
  <2>2. Applies(r) => vport \in Port \ VPorts(rows)
    BY <1>1, <1>3
  <2> HIDE DEF vport
  <2> QED BY <2>1, <2>2, ChangeKeepsIds, ChangeKeepsPorts DEF StoredList
<1> QED BY <1>2, <1>3

LEMMA ResultIsAnswer ==
    ASSUME NEW status \in Status, NEW port \in Port \cup {NoPort},
           NEW rows \in SUBSET Row
    PROVE  Result(status, port, rows) \in Answer
<1>1. port \in Int
  BY PortsAreFinite DEF NoPort
<1> QED BY <1>1 DEF Result, Answer

LEMMA AnswerKinds ==
    ASSUME NEW r \in Request
    PROVE  /\ NoAnswer \in Answer
           /\ Refused(r) \in Answer
           /\ \A rows \in SUBSET Row : Listed(rows) \in Answer
           /\ \A vport \in Port \cup {NoPort} :
                r.op # "list" => Accepted(r, vport) \in Answer
<1>1. {} \in SUBSET Row /\ NoPort \in Port \cup {NoPort}
  OBVIOUS
<1>2. NoAnswer \in Answer
  BY <1>1, ResultIsAnswer DEF NoAnswer, Status
<1>3. Refused(r) \in Answer
  <2>1. Refusal(r) \in Status
    BY DEF Refusal, Status
  <2> QED BY <1>1, <2>1, ResultIsAnswer DEF Refused
<1>4. \A rows \in SUBSET Row : Listed(rows) \in Answer
  BY <1>1, ResultIsAnswer DEF Listed, Status
<1>5. ASSUME NEW vport \in Port \cup {NoPort}, r.op # "list"
      PROVE  Accepted(r, vport) \in Answer
  <2>1. \A s \in Status : Result(s, vport, {}) \in Answer
                          /\ Result(s, NoPort, {}) \in Answer
    BY <1>1, ResultIsAnswer
  <2>2. {"assigned", "deleted", "edited"} \subseteq Status
    BY DEF Status
  <2> QED BY <1>5, <2>1, <2>2, RequestFields DEF Accepted, Applies
<1> QED BY <1>2, <1>3, <1>4, <1>5

LEMMA ReplyIsAnswer ==
    ASSUME NEW r \in Request, NEW rows \in SUBSET Row
    PROVE  Reply(r, rows) \in Answer
<1> DEFINE vport == VPortToAssign(r, VPorts(rows))
<1>1. vport \in Port \cup {NoPort}
  BY VPortsArePorts, AssignedPortIsFree
<1>2. Reply(r, rows) = IF Applies(r) /\ vport = NoPort THEN Refused(r)
                       ELSE IF r.op = "list" THEN Listed(rows)
                       ELSE Accepted(r, vport)
  BY DEF Reply, Applies
<1> HIDE DEF vport
<1> QED BY <1>1, <1>2, AnswerKinds
=============================================================================
