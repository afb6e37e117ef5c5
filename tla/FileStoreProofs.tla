-------------------------- MODULE FileStoreProofs --------------------------
(***************************************************************************)
(* The theorems about the file store, for every number of handlers, every  *)
(* interleaving of their system calls and any restart: what holds whatever *)
(* mixes, what holds for a request that has the store to itself, and that  *)
(* requests one at a time implement TaskService.                           *)
(***************************************************************************)
EXTENDS FileStore, TaskDataProofs

(***************************************************************************)
(* Types.  A handler that is about to write serves a request that writes,  *)
(* and what it will write has distinct ids, because it comes from rows with*)
(* distinct ids; the file has because it was written by such a handler.    *)
(***************************************************************************)
WritersModify ==
    \A h \in Handler :
        pc[h] \in {"truncate", "write"} =>
            /\ req[h].op # "list"
            /\ Applies(req[h]) => vport[h] # NoPort

TInv == TypeOK /\ IdsDistinct /\ WritersModify

LEMMA LengthType ==
    ASSUME NEW doc, IsFiniteSet(doc)
    PROVE  Length(doc) \in Nat \ {0}
BY FS_CardinalityType DEF Length

LEMMA OverwriteType ==
    ASSUME NEW f \in [length : Nat, tasks : SUBSET Row], IsFiniteSet(f.tasks),
           UniqueIds(f.tasks), NEW at \in Nat,
           NEW doc \in SUBSET Row, IsFiniteSet(doc), UniqueIds(doc)
    PROVE  /\ Overwrite(f, at, doc) \in [length : Nat, tasks : SUBSET Row]
           /\ IsFiniteSet(Overwrite(f, at, doc).tasks)
           /\ UniqueIds(Overwrite(f, at, doc).tasks)
<1> DEFINE end == at + Length(doc)
<1>1. f.length \in Nat /\ end \in Nat
  BY LengthType
<1>2. Greatest({f.length, end}) \in Nat
  <2> HIDE DEF end
  <2>1. IsFiniteSet({f.length} \cup {end})
    <3>1. IsFiniteSet({f.length})
      BY FS_Singleton
    <3> QED BY <3>1, FS_AddElement
  <2>2. {f.length} \cup {end} = {f.length, end}
    OBVIOUS
  <2>3. Greatest({f.length, end}) \in {f.length, end}
    BY <1>1, <2>1, <2>2, GreatestIsGreatest
  <2> QED BY <1>1, <2>3
<1>3. /\ {} \in SUBSET Row /\ IsFiniteSet({}) /\ UniqueIds({})
  BY FS_EmptySet DEF UniqueIds
<1> HIDE DEF end
<1> QED BY <1>2, <1>3 DEF Overwrite, end

LEMMA InitTInv == Init => TInv
<1> SUFFICES ASSUME Init PROVE TInv
  OBVIOUS
<1>1. {} \in SUBSET Row /\ IsFiniteSet({}) /\ UniqueIds({})
  BY FS_EmptySet DEF UniqueIds
<1>2. /\ file \in [length : Nat, tasks : SUBSET Row]
      /\ IsFiniteSet(file.tasks) /\ UniqueIds(file.tasks)
  <2>1. CASE file = EmptyFile
    BY <1>1, <2>1 DEF EmptyFile
  <2>2. ASSUME NEW doc \in Stored, file = Document(doc)
        PROVE  /\ file \in [length : Nat, tasks : SUBSET Row]
               /\ IsFiniteSet(file.tasks) /\ UniqueIds(file.tasks)
    <3>1. StoredList(doc)
      BY StoreAssumption
    <3>2. Length(doc) \in Nat
      BY <3>1, LengthType DEF StoredList
    <3> QED BY <2>2, <3>1, <3>2 DEF Document, StoredList
  <2> QED BY <2>1, <2>2 DEF Init
<1>3. NoRequest \in Request /\ NoAnswer \in Answer
  BY NoRequestIsRequest, AnswerKinds
<1>4. TypeOK
  BY <1>1, <1>2, <1>3, StoreAssumption DEF Init, TypeOK, Step
<1> QED BY <1>1, <1>2, <1>4 DEF Init, TInv, IdsDistinct, WritersModify

LEMMA StepTInv == TInv /\ [Next]_vars => TInv'
<1> SUFFICES ASSUME TInv, [Next]_vars PROVE TInv'
  OBVIOUS
<1> USE DEF TInv, TypeOK, IdsDistinct, WritersModify
<1>0. {} \in SUBSET Row /\ IsFiniteSet({}) /\ UniqueIds({})
  BY FS_EmptySet DEF UniqueIds
<1>1. CASE Crash
  <2>1. NoRequest \in Request /\ NoAnswer \in Answer
    BY NoRequestIsRequest, AnswerKinds
  <2> QED BY <1>0, <1>1, <2>1 DEF Crash, Step
<1>2. ASSUME NEW h \in Handler, Arrive(h) PROVE TInv'
  <2>1. alone' \in [Handler -> BOOLEAN]
    BY <1>2 DEF Arrive
  <2>2. before' \in [Handler -> SUBSET Row]
    BY <1>2 DEF Arrive
  <2>3. PICK r \in Requests : req' = [req EXCEPT ![h] = r]
    BY <1>2 DEF Arrive
  <2>4. /\ pc' = [pc EXCEPT ![h] = "seek"]
        /\ arrived' \in 0..MaxArrivals
        /\ UNCHANGED <<file, offset, started, rows, vport, ans>>
    BY <1>2, StoreAssumption DEF Arrive, store
  <2>5. r \in Request
    BY <2>3, StoreAssumption
  <2>6. pc' \in [Handler -> Step] /\ req' \in [Handler -> Request]
    BY <2>3, <2>4, <2>5 DEF Step
  <2>7. WritersModify'
    BY <2>3, <2>4
  <2> QED BY <2>1, <2>2, <2>4, <2>6, <2>7
<1>3. ASSUME NEW h \in Handler, Seek(h) PROVE TInv'
  BY <1>0, <1>3 DEF Seek, Step, history
<1>4. ASSUME NEW h \in Handler, Read(h) PROVE TInv'
  BY <1>0, <1>4 DEF Read, Step, history
<1>5. ASSUME NEW h \in Handler, ReadEnd(h) PROVE TInv'
  BY <1>5 DEF ReadEnd, Step, history, store
<1>6. ASSUME NEW h \in Handler, RewindList(h) PROVE TInv'
  BY <1>6, AnswerKinds DEF RewindList, Step, history
<1>7. ASSUME NEW h \in Handler, RewindQuery(h) PROVE TInv'
  <2>1. VPortToAssign(req[h], VPorts(rows[h])) \in Port \cup {NoPort}
    BY VPortsArePorts, AssignedPortIsFree
  <2>2. Refused(req[h]) \in Answer
    BY AnswerKinds
  <2> QED BY <1>7, <2>1, <2>2 DEF RewindQuery, Step, history
<1>8. ASSUME NEW h \in Handler, RewindModify(h) PROVE TInv'
  <2> DEFINE new == Change(req[h], vport[h], rows[h])
  <2>1. new \in SUBSET Row /\ IsFiniteSet(new) /\ UniqueIds(new)
    <3>1. Applies(req[h]) => vport[h] \in Port
      BY <1>8 DEF RewindModify, Applies
    <3> QED BY <3>1, ChangeKeepsIds
  <2>2. req[h].op # "list" /\ (Applies(req[h]) => vport[h] # NoPort)
    BY <1>8 DEF RewindModify, Applies
  <2>3. rows' = [rows EXCEPT ![h] = new]
    BY <1>8 DEF RewindModify
  <2> HIDE DEF new
  <2> QED BY <1>8, <2>1, <2>2, <2>3 DEF RewindModify, Step, history
<1>9. ASSUME NEW h \in Handler, Truncate(h) PROVE TInv'
  BY <1>0, <1>9 DEF Truncate, EmptyFile, Step, history
<1>10. ASSUME NEW h \in Handler, Write(h) PROVE TInv'
  <2>1. /\ file' \in [length : Nat, tasks : SUBSET Row]
        /\ IsFiniteSet(file'.tasks) /\ UniqueIds(file'.tasks)
    BY <1>10, OverwriteType DEF Write
  <2>2. offset' \in Nat
    BY <1>10, LengthType DEF Write
  <2>3. Accepted(req[h], vport[h]) \in Answer
    BY <1>10, AnswerKinds DEF Write
  <2> QED BY <1>10, <2>1, <2>2, <2>3 DEF Write, Step, history
<1>11. ASSUME NEW h \in Handler, Send(h) PROVE TInv'
  <2>1. NoRequest \in Request /\ NoAnswer \in Answer
    BY NoRequestIsRequest, AnswerKinds
  <2> QED BY <1>0, <1>11, <2>1 DEF Send, Step, store
<1>12. CASE UNCHANGED vars
  BY <1>12 DEF vars
<1> QED BY <1>1, <1>2, <1>3, <1>4, <1>5, <1>6, <1>7, <1>8, <1>9, <1>10,
           <1>11, <1>12 DEF Next, Serve

LEMMA TInvariance == Spec => []TInv
BY InitTInv, StepTInv, PTL DEF Spec

\* The program keeps its types, whatever mixes and whenever it restarts.
THEOREM TypeCorrect == Spec => []TypeOK
<1>1. TInv => TypeOK
  BY DEF TInv
<1> QED BY <1>1, TInvariance, PTL

\* No interleaving ever gives two tasks the same id.
THEOREM DistinctIds == Spec => []IdsDistinct
<1>1. TInv => IdsDistinct
  BY DEF TInv
<1> QED BY <1>1, TInvariance, PTL

(***************************************************************************)
(* A request that has the store to itself.  IsolatedCrashWindow is not     *)
(* inductive: it needs to know what the handler has read so far, at which  *)
(* offset, and that what it holds after the second rewind is the effect of *)
(* the request on the tasks that were there when it arrived.               *)
(***************************************************************************)
EmptyHoldsNothing == file.length = 0 => file.tasks = {}

Undisturbed(h) ==
    /\ \A g \in Handler : InStore(g) => g = h
    /\ pc[h] # "write" => file.tasks = before[h]
    /\ pc[h] = "write" => file = EmptyFile
    /\ vport[h] # NoPort =>
            Applies(req[h]) /\ vport[h] = VPortToAssign(req[h], VPorts(before[h]))
    /\ pc[h] = "read" =>
            \/ ~started[h] /\ offset = 0 /\ rows[h] = {}
            \/ started[h] /\ offset = file.length /\ rows[h] = before[h]
    /\ pc[h] = "rewind" => rows[h] = before[h]
    /\ pc[h] \in {"truncate", "write"} =>
            offset = 0 /\ rows[h] = Effect(req[h], before[h])

FreshAtArrival == \A h \in Handler : pc[h] = "idle" => vport[h] = NoPort

IsolationInv ==
    /\ EmptyHoldsNothing
    /\ FreshAtArrival
    /\ \A h \in Handler : Isolated(h) => Undisturbed(h)

\* A step inside the store while a handler is isolated is a step of that
\* handler, and leaves the others outside.
Inside(h) ==
    \/ Seek(h) \/ Read(h) \/ ReadEnd(h)
    \/ RewindList(h) \/ RewindQuery(h) \/ RewindModify(h)
    \/ Truncate(h) \/ Write(h)

LEMMA InsideStep ==
    ASSUME TypeOK, NEW h \in Handler, Inside(h)
    PROVE  /\ InStore(h)
           /\ \A g \in Handler : g # h => pc'[g] = pc[g] /\ vport'[g] = vport[g]
           /\ pc'[h] # "idle"
           /\ UNCHANGED <<req, history>>
<1> USE DEF TypeOK, InStore
<1>1. CASE Seek(h)
  BY <1>1 DEF Seek
<1>2. CASE Read(h)
  BY <1>2 DEF Read
<1>3. CASE ReadEnd(h)
  BY <1>3 DEF ReadEnd
<1>4. CASE RewindList(h)
  BY <1>4 DEF RewindList
<1>5. CASE RewindQuery(h)
  BY <1>5 DEF RewindQuery
<1>6. CASE RewindModify(h)
  BY <1>6 DEF RewindModify
<1>7. CASE Truncate(h)
  BY <1>7 DEF Truncate
<1>8. CASE Write(h)
  BY <1>8 DEF Write
<1> QED BY <1>1, <1>2, <1>3, <1>4, <1>5, <1>6, <1>7, <1>8 DEF Inside

LEMMA OnlyTheIsolated ==
    ASSUME TypeOK, IsolationInv, NEW h \in Handler, Inside(h),
           NEW g \in Handler, Isolated(g)'
    PROVE  /\ g = h
           /\ Isolated(h) /\ Undisturbed(h)
           /\ \A k \in Handler : InStore(k)' => k = h
<1>1. /\ InStore(h) /\ UNCHANGED <<req, history>>
      /\ \A k \in Handler : k # h => pc'[k] = pc[k]
  BY InsideStep
<1>2. alone' = alone
  BY <1>1 DEF history
<1>3. g = h
  <2>1. SUFFICES ASSUME g # h PROVE FALSE
    OBVIOUS
  <2>2. Isolated(g)
    BY <1>1, <1>2, <2>1 DEF Isolated, InStore
  <2> QED BY <1>1, <2>1, <2>2 DEF IsolationInv, Undisturbed
<1>4. Isolated(h)
  BY <1>1, <1>2, <1>3 DEF Isolated
<1>5. Undisturbed(h)
  BY <1>4 DEF IsolationInv
<1>6. \A k \in Handler : InStore(k)' => k = h
  BY <1>1, <1>5 DEF Undisturbed, InStore
<1> QED BY <1>3, <1>4, <1>5, <1>6

\* The effect of a request in terms of what RewindModify computes, and what
\* it answers.
LEMMA EffectIsChange ==
    ASSUME NEW r \in Request, NEW doc, NEW port,
           port # NoPort => Applies(r) /\ port = VPortToAssign(r, VPorts(doc)),
           Applies(r) => port # NoPort
    PROVE  /\ Effect(r, doc) = Change(r, port, doc)
           /\ r.op # "list" => Reply(r, doc) = Accepted(r, port)
<1>1. CASE Applies(r)
  BY <1>1 DEF Effect, Reply, Applies
<1>2. CASE ~Applies(r)
  <2>1. VPortToAssign(r, VPorts(doc)) = NoPort /\ port = NoPort
    BY <1>2 DEF VPortToAssign, Applies
  <2>2. Effect(r, doc) = Change(r, NoPort, doc)
    BY <1>2, <2>1 DEF Effect
  <2>3. r.op # "list" => Reply(r, doc) = Accepted(r, NoPort)
    BY <1>2, <2>1 DEF Reply
  <2> QED BY <2>1, <2>2, <2>3
<1> QED BY <1>1, <1>2

LEMMA OverwriteEmpty ==
    ASSUME NEW doc, IsFiniteSet(doc)
    PROVE  Overwrite(EmptyFile, 0, doc).tasks = doc
BY LengthType DEF Overwrite, EmptyFile

LEMMA OverwriteLength ==
    ASSUME NEW f \in [length : Nat, tasks : SUBSET Row], NEW at \in Nat,
           NEW doc, IsFiniteSet(doc)
    PROVE  Overwrite(f, at, doc).length > 0
<1> DEFINE end == at + Length(doc)
<1>1. f.length \in Int /\ end \in Int /\ end > 0
  BY LengthType
<1>2. IsFiniteSet({f.length, end})
  <2> HIDE DEF end
  <2>1. IsFiniteSet({f.length})
    BY FS_Singleton
  <2>2. IsFiniteSet({f.length} \cup {end})
    BY <2>1, FS_AddElement
  <2>3. {f.length} \cup {end} = {f.length, end}
    OBVIOUS
  <2> QED BY <2>2, <2>3
<1>3. Overwrite(f, at, doc).length = Greatest({f.length, end})
  BY DEF Overwrite
<1> HIDE DEF end
<1> QED BY <1>1, <1>2, <1>3, GreatestIsGreatest

LEMMA InitIsolation == Init => IsolationInv
<1> SUFFICES ASSUME Init PROVE IsolationInv
  OBVIOUS
<1>1. EmptyHoldsNothing
  <2>1. ASSUME NEW doc \in Stored, file = Document(doc) PROVE file.length # 0
    <3>1. IsFiniteSet(doc)
      BY StoreAssumption DEF StoredList
    <3> QED BY <2>1, <3>1, LengthType DEF Document
  <2> QED BY <2>1 DEF Init, EmptyFile, EmptyHoldsNothing
<1> QED BY <1>1 DEF Init, IsolationInv, FreshAtArrival, Isolated

LEMMA StepIsolation == TInv /\ IsolationInv /\ [Next]_vars => IsolationInv'
<1> SUFFICES ASSUME TInv, IsolationInv, [Next]_vars PROVE IsolationInv'
  OBVIOUS
<1>0. TypeOK
  BY DEF TInv
<1>1. CASE Crash
  BY <1>1 DEF Crash, IsolationInv, EmptyHoldsNothing, FreshAtArrival, Isolated
<1>2. ASSUME NEW h \in Handler, Arrive(h) PROVE IsolationInv'
  <2>1. UNCHANGED <<file, offset, started, rows, vport, ans>>
        /\ pc[h] = "idle" /\ pc' = [pc EXCEPT ![h] = "seek"]
        /\ before' = [before EXCEPT ![h] = file.tasks]
    BY <1>2 DEF Arrive, store
  <2>2. EmptyHoldsNothing' /\ FreshAtArrival'
    BY <1>0, <2>1 DEF IsolationInv, EmptyHoldsNothing, FreshAtArrival, TypeOK
  <2>3. ASSUME NEW g \in Handler, Isolated(g)' PROVE Undisturbed(g)'
    <3>1. CASE g = h
      <4>1. \A k \in Handler : ~InStore(k)
        BY <1>2, <2>3, <3>1 DEF Arrive, Isolated
      <4>2. \A k \in Handler : InStore(k)' => k = h
        BY <1>0, <2>1, <4>1 DEF InStore, TypeOK
      <4>3. vport[h] = NoPort
        BY <2>1 DEF IsolationInv, FreshAtArrival
      <4>4. pc'[h] = "seek" /\ before'[h] = file.tasks
        BY <1>0, <2>1 DEF TypeOK
      <4> QED BY <2>1, <3>1, <4>2, <4>3, <4>4 DEF Undisturbed
    <3>2. CASE g # h
      <4>1. alone'[g] = (alone[g] /\ ~InStore(g))
        BY <1>2, <3>2 DEF Arrive
      <4>2. InStore(g)' = InStore(g)
        BY <1>0, <2>1, <3>2 DEF InStore, TypeOK
      <4> QED BY <2>3, <4>1, <4>2 DEF Isolated
    <3> QED BY <3>1, <3>2
  <2> QED BY <2>2, <2>3 DEF IsolationInv
<1>3. ASSUME NEW h \in Handler, Inside(h) PROVE IsolationInv'
  <2>1. FreshAtArrival'
    BY <1>0, <1>3, InsideStep DEF IsolationInv, FreshAtArrival
  <2>2. EmptyHoldsNothing'
    <3>1. CASE Write(h)
      <4>1. file'.length > 0 /\ file'.length \in Nat
        <5>1. file'.length > 0
          BY <1>0, <3>1, OverwriteLength DEF Write, TypeOK
        <5>2. file'.length \in Nat
          BY StepTInv DEF TInv, TypeOK
        <5> QED BY <5>1, <5>2
      <4> QED BY <4>1 DEF EmptyHoldsNothing
    <3>2. CASE Truncate(h)
      BY <3>2 DEF Truncate, EmptyFile, EmptyHoldsNothing
    <3>3. CASE ~Write(h) /\ ~Truncate(h)
      <4>1. UNCHANGED file
        BY <1>3, <3>3 DEF Inside, Seek, Read, ReadEnd, RewindList, RewindQuery,
                          RewindModify, store
      <4> QED BY <4>1 DEF IsolationInv, EmptyHoldsNothing
    <3> QED BY <3>1, <3>2, <3>3
  <2>3. ASSUME NEW g \in Handler, Isolated(g)' PROVE Undisturbed(g)'
    <3>1. /\ g = h /\ Isolated(h) /\ Undisturbed(h)
          /\ \A k \in Handler : InStore(k)' => k = h
      BY <1>0, <1>3, <2>3, OnlyTheIsolated
    <3>2. req' = req /\ before' = before
      BY <1>0, <1>3, InsideStep DEF history
    <3>3. InStore(h)'
      BY <2>3, <3>1 DEF Isolated
    <3> USE <3>1, <3>2 DEF Undisturbed, TypeOK
    <3>4. CASE Seek(h)
      BY <1>0, <3>4 DEF Seek
    <3>5. CASE Read(h)
      BY <1>0, <3>5 DEF Read
    <3>6. CASE ReadEnd(h)
      <4>0. pc[h] = "read" /\ offset >= file.length /\ file.tasks = before[h]
        BY <3>6 DEF ReadEnd
      <4>1. CASE ~started[h] /\ offset = 0 /\ rows[h] = {}
        <5>1. file.length \in Nat
          BY <1>0
        <5>2. file.length = 0
          BY <4>0, <4>1, <5>1
        <5>3. rows[h] = before[h]
          BY <4>0, <4>1, <5>2 DEF IsolationInv, EmptyHoldsNothing
        <5> QED BY <1>0, <3>6, <5>3 DEF ReadEnd, store
      <4>2. CASE rows[h] = before[h]
        BY <1>0, <3>6, <4>2 DEF ReadEnd, store
      <4> QED BY <4>0, <4>1, <4>2
    <3>7. CASE RewindList(h)
      BY <1>0, <3>3, <3>7 DEF RewindList, InStore
    <3>8. CASE RewindQuery(h)
      <4>1. /\ rows[h] = before[h] /\ Applies(req[h])
            /\ vport'[h] = VPortToAssign(req[h], VPorts(rows[h]))
            /\ UNCHANGED file /\ pc[h] = "rewind"
        BY <1>0, <3>8 DEF RewindQuery
      <4>2. pc'[h] = "seek"
        BY <1>0, <3>3, <3>8 DEF RewindQuery, InStore
      <4> QED BY <4>1, <4>2
    <3>9. CASE RewindModify(h)
      <4>1. Effect(req[h], before[h]) = Change(req[h], vport[h], rows[h])
        <5>1. Applies(req[h]) => vport[h] # NoPort
          BY <3>9 DEF RewindModify, Applies
        <5>2. rows[h] = before[h] /\ req[h] \in Request
          BY <1>0, <3>9 DEF RewindModify
        <5> QED BY <5>1, <5>2, EffectIsChange
      <4>2. /\ rows'[h] = Effect(req[h], before[h]) /\ offset' = 0
            /\ pc[h] = "rewind" /\ pc'[h] = "truncate"
            /\ UNCHANGED <<file, vport>>
        BY <1>0, <3>9, <4>1 DEF RewindModify
      <4> QED BY <4>2
    <3>10. CASE Truncate(h)
      BY <1>0, <3>10 DEF Truncate
    <3>11. CASE Write(h)
      BY <1>0, <3>3, <3>11 DEF Write, InStore
    <3> QED BY <1>3, <3>4, <3>5, <3>6, <3>7, <3>8, <3>9, <3>10, <3>11 DEF Inside
  <2> QED BY <2>1, <2>2, <2>3 DEF IsolationInv
<1>4. ASSUME NEW h \in Handler, Send(h) PROVE IsolationInv'
  <2>1. UNCHANGED <<file, offset>> /\ pc[h] = "done" /\ pc'[h] = "idle"
        /\ vport'[h] = NoPort
    BY <1>0, <1>4 DEF Send, store, TypeOK
  <2>2. \A g \in Handler : g # h =>
            UNCHANGED <<pc[g], req[g], started[g], rows[g], vport[g], alone[g],
                        before[g]>>
    BY <1>0, <1>4 DEF Send, TypeOK
  <2>3. EmptyHoldsNothing' /\ FreshAtArrival'
    BY <2>1, <2>2 DEF IsolationInv, EmptyHoldsNothing, FreshAtArrival
  <2>4. ASSUME NEW g \in Handler, Isolated(g)' PROVE Undisturbed(g)'
    <3>1. g # h
      BY <2>1, <2>4 DEF Isolated, InStore
    <3>2. Isolated(g)
      BY <2>2, <2>4, <3>1 DEF Isolated, InStore
    <3>3. Undisturbed(g)
      BY <3>2 DEF IsolationInv
    <3>4. \A k \in Handler : InStore(k)' => k = g
      BY <2>1, <2>2, <3>3 DEF InStore, Undisturbed
    <3> QED BY <2>1, <2>2, <3>1, <3>3, <3>4 DEF Undisturbed
  <2> QED BY <2>3, <2>4 DEF IsolationInv
<1>5. CASE UNCHANGED vars
  BY <1>5 DEF vars, IsolationInv, EmptyHoldsNothing, FreshAtArrival, Isolated,
              Undisturbed, InStore
<1> QED BY <1>1, <1>2, <1>3, <1>4, <1>5 DEF Next, Serve, Inside

LEMMA Invariance == Spec => [](TInv /\ IsolationInv)
BY InitTInv, StepTInv, InitIsolation, StepIsolation, PTL DEF Spec

\* A crash during a request that has the store to itself loses nothing, unless
\* it comes between Truncate and Write.
THEOREM CrashWindow == Spec => []IsolatedCrashWindow
<1>1. IsolationInv => IsolatedCrashWindow
  BY DEF IsolationInv, Undisturbed, IsolatedCrashWindow
<1> QED BY <1>1, Invariance, PTL

\* The last step inside the store gives the request its effect and its answer.
LEMMA IsolatedEnds ==
    ASSUME TInv, IsolationInv, NEW h \in Handler, Inside(h), Isolated(h),
           pc'[h] = "done"
    PROVE  /\ file'.tasks = Effect(req[h], before[h])
           /\ ans'[h] = Reply(req[h], before[h])
<1>0. TypeOK /\ Undisturbed(h) /\ req[h] \in Request
  BY DEF TInv, IsolationInv, TypeOK
<1> USE <1>0 DEF TypeOK
<1>1. CASE RewindList(h)
  <2>1. /\ rows[h] = before[h] /\ file' = file /\ file.tasks = before[h]
        /\ req[h].op = "list" /\ ans'[h] = Listed(rows[h])
    BY <1>1 DEF RewindList, Undisturbed
  <2>2. Effect(req[h], before[h]) = before[h]
    BY <2>1 DEF Effect, Change, Applies
  <2>3. Reply(req[h], before[h]) = Listed(before[h])
    BY <2>1 DEF Reply, Applies
  <2> QED BY <2>1, <2>2, <2>3
<1>2. CASE RewindQuery(h)
  <2> DEFINE port == VPortToAssign(req[h], VPorts(rows[h]))
  <2>1. /\ rows[h] = before[h] /\ file' = file /\ file.tasks = before[h]
        /\ Applies(req[h]) /\ port = NoPort
        /\ ans'[h] = Refused(req[h])
    BY <1>2 DEF RewindQuery, Undisturbed
  <2>2. Effect(req[h], before[h]) = before[h]
    BY <2>1 DEF Effect
  <2>3. Reply(req[h], before[h]) = Refused(req[h])
    BY <2>1 DEF Reply, Applies
  <2> QED BY <2>1, <2>2, <2>3
<1>3. CASE Write(h)
  <2>1. /\ pc[h] = "write" /\ file = EmptyFile /\ offset = 0
        /\ rows[h] = Effect(req[h], before[h])
        /\ file' = Overwrite(file, offset, rows[h])
        /\ ans'[h] = Accepted(req[h], vport[h])
    BY <1>3 DEF Write, Undisturbed
  <2>2. file'.tasks = Effect(req[h], before[h])
    BY <2>1, OverwriteEmpty
  <2>3. req[h].op # "list" /\ (Applies(req[h]) => vport[h] # NoPort)
    BY <2>1 DEF TInv, WritersModify
  <2>4. Reply(req[h], before[h]) = Accepted(req[h], vport[h])
    BY <2>3, EffectIsChange DEF Undisturbed
  <2> QED BY <2>1, <2>2, <2>4
<1>4. CASE ~RewindList(h) /\ ~RewindQuery(h) /\ ~Write(h)
  BY <1>4 DEF Inside, Seek, Read, ReadEnd, RewindModify, Truncate
<1> QED BY <1>1, <1>2, <1>3, <1>4

\* A request that has the store to itself is atomic, whatever was in the file
\* and wherever the offset was when it arrived.
THEOREM IsolationIsAtomicity == Spec => IsolatedIsAtomic
<1> DEFINE A == \A h \in Handler :
                    Isolated(h) /\ pc'[h] = "done"
                        => /\ file'.tasks = Effect(req[h], before[h])
                           /\ ans'[h] = Reply(req[h], before[h])
<1>1. TInv /\ IsolationInv /\ [Next]_vars => A
  <2> SUFFICES ASSUME TInv, IsolationInv, [Next]_vars, NEW h \in Handler,
                      Isolated(h), pc'[h] = "done"
               PROVE  /\ file'.tasks = Effect(req[h], before[h])
                      /\ ans'[h] = Reply(req[h], before[h])
    OBVIOUS
  <2>1. Inside(h)
    <3>0. TypeOK /\ InStore(h)
      BY DEF TInv, Isolated
    <3>1. ~Crash
      BY DEF Crash
    <3>2. vars' # vars
      BY <3>0 DEF vars, InStore
    <3>3. PICK g \in Handler : Arrive(g) \/ Inside(g) \/ Send(g)
      BY <3>1, <3>2 DEF Next, Serve, Inside
    <3>4. g = h
      <4>1. SUFFICES ASSUME g # h PROVE pc'[h] = pc[h]
        BY <3>0 DEF InStore
      <4> QED BY <3>0, <3>3, <4>1, InsideStep DEF Arrive, Send, TypeOK
    <3> QED BY <3>0, <3>3, <3>4 DEF Arrive, Send, TypeOK, InStore
  <2> QED BY <2>1, IsolatedEnds
<1>2. Spec => [][A]_vars
  BY <1>1, Invariance, PTL DEF Spec
<1> QED BY <1>2 DEF IsolatedIsAtomic

(***************************************************************************)
(* Requests one at a time.  Every request is alone, so at most one handler *)
(* is in the store, and the stored tasks seen from outside are those that  *)
(* were there when it arrived.                                             *)
(***************************************************************************)
AllAlone == \A h \in Handler : InStore(h) => alone[h]

SerialInv == TInv /\ IsolationInv /\ AllAlone

LEMMA SerialStep == SerialInv /\ [SerialNext]_vars => SerialInv'
<1> SUFFICES ASSUME SerialInv, [SerialNext]_vars PROVE SerialInv'
  OBVIOUS
<1>1. [Next]_vars
  BY DEF SerialNext, Next
<1>2. TInv' /\ IsolationInv'
  BY <1>1, StepTInv, StepIsolation DEF SerialInv
<1>3. AllAlone'
  <2> USE DEF SerialInv, TInv, TypeOK, AllAlone
  <2>1. ASSUME NEW h \in Handler, Arrive(h), \A g \in Handler : ~InStore(g)
        PROVE  AllAlone'
    <3>1. pc' = [pc EXCEPT ![h] = "seek"]
      BY <2>1 DEF Arrive
    <3>2. \A g \in Handler : InStore(g)' => g = h
      BY <2>1, <3>1 DEF InStore
    <3>3. alone'[h] = (\A k \in Handler : ~InStore(k))
      BY <2>1 DEF Arrive
    <3> QED BY <2>1, <3>2, <3>3
  <2>2. ASSUME NEW h \in Handler, Inside(h) PROVE AllAlone'
    <3>1. InStore(h) /\ alone' = alone
          /\ \A g \in Handler : g # h => pc'[g] = pc[g]
      BY <2>2, InsideStep DEF history
    <3> QED BY <3>1 DEF InStore
  <2>3. ASSUME NEW h \in Handler, Send(h) PROVE AllAlone'
    BY <2>3 DEF Send, InStore
  <2>4. CASE UNCHANGED vars
    BY <2>4 DEF vars, InStore
  <2> QED BY <2>1, <2>2, <2>3, <2>4 DEF SerialNext, Serve, Inside
<1> QED BY <1>2, <1>3 DEF SerialInv

LEMMA SerialInvariance == SerialSpec => []SerialInv
<1>1. Init => SerialInv
  BY InitTInv, InitIsolation DEF SerialInv, AllAlone, Init, InStore
<1> QED BY <1>1, SerialStep, PTL DEF SerialSpec

LEMMA StoredTasksOf ==
    ASSUME NEW p, NEW b, NEW doc, NEW h \in Handler,
           \A g \in Handler : p[g] = "write" => g = h,
           p[h] # "write" => doc = b[h]
    PROVE  b[h] = IF \E g \in Handler : p[g] = "write"
                  THEN b[CHOOSE g \in Handler : p[g] = "write"]
                  ELSE doc
OBVIOUS

\* From outside, a handler in the store has not changed it yet.
LEMMA InStoreUnchanged ==
    ASSUME SerialInv, NEW h \in Handler, InStore(h)
    PROVE  Isolated(h) /\ StoredTasks = before[h]
<1>1. Isolated(h) /\ Undisturbed(h)
  BY DEF SerialInv, AllAlone, IsolationInv, Isolated
<1>2. \A g \in Handler : pc[g] = "write" => g = h
  BY <1>1 DEF Undisturbed, InStore
<1> QED BY <1>1, <1>2, StoredTasksOf DEF StoredTasks, Undisturbed

LEMMA InStoreUnchangedPrimed ==
    ASSUME SerialInv', NEW h \in Handler, InStore(h)'
    PROVE  StoredTasks' = before'[h]
<1>1. Undisturbed(h)'
  BY DEF SerialInv, AllAlone, IsolationInv, Isolated
<1>2. \A g \in Handler : pc'[g] = "write" => g = h
  BY <1>1 DEF Undisturbed, InStore
<1> QED BY <1>1, <1>2, StoredTasksOf DEF StoredTasks, Undisturbed

\* The instance has the operators of TaskData under names of its own.
LEMMA SameData ==
    ASSUME NEW r, NEW doc
    PROVE  /\ Service!NoRequest = NoRequest
           /\ Service!NoAnswer = NoAnswer
           /\ Service!Effect(r, doc) = Effect(r, doc)
           /\ Service!Reply(r, doc) = Reply(r, doc)
<1>1. Service!NoRequest = NoRequest
  BY DEF NoRequest, Service!NoRequest
<1>2. Service!NoAnswer = NoAnswer
  BY DEF NoAnswer, Result, NoPort, Service!NoAnswer, Service!Result, Service!NoPort
<1>3. \A taken : Service!VPortToAssign(r, taken) = VPortToAssign(r, taken)
  BY DEF VPortToAssign, AutoAssign, SpecifiedPort, Greatest, Least, Port, NoPort,
         Service!VPortToAssign, Service!AutoAssign, Service!SpecifiedPort,
         Service!Greatest, Service!Least, Service!Port, Service!NoPort
<1>4. Service!VPorts(doc) = VPorts(doc)
  BY DEF VPorts, Service!VPorts
<1>5. \A port : Service!Change(r, port, doc) = Change(r, port, doc)
  BY DEF Change, InsertRow, DeleteRows, UpdateRows, NextId, Greatest, Applies,
         Service!Change, Service!InsertRow, Service!DeleteRows,
         Service!UpdateRows, Service!NextId, Service!Greatest, Service!Applies
<1>6. Service!Effect(r, doc) = Effect(r, doc)
  BY <1>3, <1>4, <1>5
  DEF Effect, Applies, NoPort, Service!Effect, Service!Applies, Service!NoPort
<1>7. Service!Reply(r, doc) = Reply(r, doc)
  BY <1>3, <1>4
  DEF Reply, Refused, Refusal, Listed, Accepted, Result, Applies, Port, NoPort,
      Service!Reply, Service!Refused, Service!Refusal, Service!Listed,
      Service!Accepted, Service!Result, Service!Applies, Service!Port,
      Service!NoPort
<1> QED BY <1>1, <1>2, <1>6, <1>7

LEMMA InitImplements == Init => Service!Init
<1> SUFFICES ASSUME Init PROVE Service!Init
  OBVIOUS
<1>1. StoredTasks = file.tasks
  BY DEF Init, StoredTasks
<1>2. file.tasks \in Stored \cup {{}}
  BY DEF Init, Document, EmptyFile
<1>3. [h \in Handler |-> Phase(h)] = [h \in Handler |-> "idle"]
  BY DEF Init, Phase
<1> QED BY <1>1, <1>2, <1>3, SameData DEF Init, Service!Init

LEMMA StepImplements ==
    SerialInv /\ SerialInv' /\ [SerialNext]_vars => [Service!Next]_(Service!vars)
<1> SUFFICES ASSUME SerialInv, SerialInv', [SerialNext]_vars
             PROVE  [Service!Next]_(Service!vars)
  OBVIOUS
<1> DEFINE phase == [h \in Handler |-> Phase(h)]
<1>0. TypeOK
  BY DEF SerialInv, TInv
<1>1. ASSUME NEW h \in Handler, Arrive(h), \A g \in Handler : ~InStore(g)
      PROVE  Service!Arrive(h)
  <2>1. /\ pc[h] = "idle" /\ pc' = [pc EXCEPT ![h] = "seek"]
        /\ UNCHANGED <<file, ans>> /\ before'[h] = file.tasks
    BY <1>0, <1>1 DEF Arrive, store, TypeOK
  <2>2. StoredTasks = file.tasks
    BY <1>1 DEF StoredTasks, InStore
  <2>3. StoredTasks' = file.tasks
    <3>1. InStore(h)'
      BY <1>0, <2>1 DEF InStore, TypeOK
    <3> QED BY <2>1, <3>1, InStoreUnchangedPrimed
  <2>4. phase[h] = "idle" /\ phase' = [phase EXCEPT ![h] = "pending"]
    BY <1>0, <2>1 DEF Phase, TypeOK
  <2>5. /\ arrived < MaxArrivals /\ arrived' = arrived + 1
        /\ \E r \in Requests : req' = [req EXCEPT ![h] = r]
    BY <1>1 DEF Arrive
  <2> QED BY <2>1, <2>2, <2>3, <2>4, <2>5 DEF Service!Arrive
<1>2. ASSUME NEW h \in Handler, Inside(h)
      PROVE  Service!Execute(h) \/ UNCHANGED Service!vars
  <2>1. /\ InStore(h) /\ UNCHANGED <<req, history>> /\ pc'[h] # "idle"
        /\ \A g \in Handler : g # h => pc'[g] = pc[g]
    BY <1>0, <1>2, InsideStep
  <2>2. Isolated(h) /\ StoredTasks = before[h]
    BY <2>1, InStoreUnchanged
  <2>3. CASE pc'[h] = "done"
    <3>1. /\ file'.tasks = Effect(req[h], before[h])
          /\ ans'[h] = Reply(req[h], before[h])
      BY <1>2, <2>2, <2>3, IsolatedEnds DEF SerialInv
    <3>2. ans' = [ans EXCEPT ![h] = Reply(req[h], before[h])]
      <4>1. ans' = [ans EXCEPT ![h] = ans'[h]]
        BY <1>0, <1>2, <2>3 DEF Inside, Seek, Read, ReadEnd, RewindList,
                RewindQuery, RewindModify, Truncate, Write, TypeOK
      <4> QED BY <3>1, <4>1
    <3>3. \A g \in Handler : pc'[g] # "write"
      <4>1. Undisturbed(h)
        BY <2>2 DEF SerialInv, IsolationInv
      <4> QED BY <2>1, <2>3, <4>1 DEF Undisturbed, InStore
    <3>4. StoredTasks' = file'.tasks
      BY <3>3 DEF StoredTasks
    <3>5. phase[h] = "pending" /\ phase' = [phase EXCEPT ![h] = "done"]
      BY <2>1, <2>3 DEF Phase, InStore
    <3> QED BY <2>1, <2>2, <3>1, <3>2, <3>4, <3>5, SameData
        DEF Service!Execute, history
  <2>4. CASE pc'[h] # "done"
    <3>1. InStore(h)'
      BY <2>1, <2>4 DEF InStore
    <3>2. StoredTasks' = StoredTasks
      BY <2>1, <2>2, <3>1, InStoreUnchangedPrimed DEF history
    <3>3. phase' = phase
      BY <2>1, <2>4 DEF Phase, InStore
    <3>4. ans' = ans
      BY <1>0, <1>2, <2>4 DEF Inside, Seek, Read, ReadEnd, RewindList, RewindQuery,
              RewindModify, Truncate, Write, TypeOK
    <3> QED BY <2>1, <3>2, <3>3, <3>4 DEF Service!vars, history
  <2> QED BY <2>3, <2>4
<1>3. ASSUME NEW h \in Handler, Send(h) PROVE Service!Send(h)
  <2>1. /\ pc[h] = "done" /\ pc' = [pc EXCEPT ![h] = "idle"]
        /\ req' = [req EXCEPT ![h] = NoRequest]
        /\ ans' = [ans EXCEPT ![h] = NoAnswer]
        /\ before' = [before EXCEPT ![h] = {}]
        /\ UNCHANGED <<file, arrived>>
    BY <1>3 DEF Send, store
  <2>2. phase[h] = "done" /\ phase' = [phase EXCEPT ![h] = "idle"]
    BY <1>0, <2>1 DEF Phase, TypeOK
  <2>3. StoredTasks' = StoredTasks
    <3>1. CASE \E g \in Handler : InStore(g)
      <4>1. PICK g \in Handler : InStore(g)
        BY <3>1
      <4>2. InStore(g)' /\ before'[g] = before[g]
        BY <1>0, <2>1, <4>1 DEF InStore, TypeOK
      <4> QED BY <4>1, <4>2, InStoreUnchanged, InStoreUnchangedPrimed
    <3>2. CASE ~\E g \in Handler : InStore(g)
      <4>1. \A g \in Handler : pc[g] # "write" /\ pc'[g] # "write"
        BY <1>0, <2>1, <3>2 DEF InStore, TypeOK
      <4> QED BY <2>1, <4>1 DEF StoredTasks
    <3> QED BY <3>1, <3>2
  <2> QED BY <2>1, <2>2, <2>3, SameData DEF Service!Send
<1>4. CASE UNCHANGED vars
  BY <1>4 DEF vars, Service!vars, StoredTasks, Phase
<1> QED BY <1>1, <1>2, <1>3, <1>4 DEF SerialNext, Serve, Inside, Service!Next

\* When users wait for each other, the handlers over the file implement the
\* list of tasks on which each request takes effect at once.
THEOREM Implementation == SerialSpec => ImplementsService
<1>1. SerialSpec => Service!Init /\ [][Service!Next]_(Service!vars)
  BY InitImplements, StepImplements, SerialInvariance, PTL DEF SerialSpec
<1> QED BY <1>1 DEF ImplementsService, Service!Spec
=============================================================================
