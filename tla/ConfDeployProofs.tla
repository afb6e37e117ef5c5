-------------------------- MODULE ConfDeployProofs --------------------------
(***************************************************************************)
(* The theorems about deployments, for every number of handlers and tasks: *)
(* types, that deployments which do not overlap never put a torn           *)
(* configuration into force, and that an undisturbed one that reports      *)
(* success put the tasks into force, but for failures of its own.          *)
(***************************************************************************)
EXTENDS ConfDeploy, FiniteSetTheorems, TLAPS

(***************************************************************************)
(* Types: a configuration is as long as its tasks and the common part.     *)
(***************************************************************************)
LEMMA ConfType ==
    /\ Nothing \in Content
    /\ \A S \in SUBSET Task : Conf(S) \in Content /\ Conf(S).length > 0
<1>1. Cardinality(Task) \in Nat
  BY DeployAssumption, FS_CardinalityType
<1>2. ASSUME NEW S \in SUBSET Task
      PROVE  Conf(S) \in Content /\ Conf(S).length > 0
  <2>1. Cardinality(S) \in Nat /\ Cardinality(S) <= Cardinality(Task)
    BY DeployAssumption, FS_Subset, FS_CardinalityType
  <2>2. Cardinality(S) + 1 \in 0..(Cardinality(Task) + 1) /\ Cardinality(S) + 1 > 0
    BY <1>1, <2>1
  <2> QED BY <2>2 DEF Conf, Content
<1>3. 0 \in 0..(Cardinality(Task) + 1)
  BY <1>1
<1> QED BY <1>2, <1>3 DEF Nothing, Torn, Content

LEMMA OverwriteType ==
    ASSUME NEW f \in Content, NEW c \in Content
    PROVE  /\ Overwrite(f, c) \in Content
           /\ Interrupted(f, c) \subseteq Content
<1>1. Cardinality(Task) \in Nat
  BY DeployAssumption, FS_CardinalityType
<1>2. Overwrite(f, c) \in Content
  BY DEF Overwrite, Torn, Content
<1>3. ASSUME NEW k \in 1..c.length
      PROVE  Torn(IF k > f.length THEN k ELSE f.length) \in Content
  <2>1. c.length \in 0..(Cardinality(Task) + 1) /\ f.length \in 0..(Cardinality(Task) + 1)
    BY DEF Content
  <2>2. k \in 0..(Cardinality(Task) + 1)
    BY <1>1, <2>1
  <2> QED BY <2>1, <2>2 DEF Torn, Content
<1> QED BY <1>2, <1>3 DEF Interrupted

\* The types of what belongs to requests.
RequestTypes ==
    /\ pc \in [Handler -> Step]
    /\ target \in [Handler -> Target]
    /\ rows \in [Handler -> SUBSET Task]
    /\ bytes \in [Handler -> Content]
    /\ ans \in [Handler -> {"none", "applied", "failed"}]
    /\ mixed \subseteq Handler
    /\ alone \in [Handler -> BOOLEAN]
    /\ lists \in [Handler -> SUBSET SUBSET Task]
    /\ ignored \in [Handler -> SUBSET Content]

LEMMA AnswersType ==
    ASSUME TypeOK, NEW h \in Handler, NEW a \in {"applied", "failed"}, Answers(h, a)
    PROVE  RequestTypes'
BY ConfType DEF TypeOK, Answers, RequestTypes, Step, Target

\* A handler's next step after the rebuild, and its answer, keep their types.
LEMMA AfterRebuildType ==
    ASSUME TypeOK, NEW h \in Handler, NEW C \in SUBSET Content, AfterRebuild(h, C)
    PROVE  RequestTypes'
<1>1. CASE Deploys(h)
  BY <1>1 DEF TypeOK, AfterRebuild, Ignores, RequestTypes, Step
<1>2. CASE ~Deploys(h)
  BY <1>2, AnswersType DEF AfterRebuild
<1> QED BY <1>1, <1>2

\* Every variable keeps its type, whatever handlers overlap, fail or crash.
THEOREM TypeCorrect == Spec => []TypeOK
<1>1. Init => TypeOK
  <2> SUFFICES ASSUME Init PROVE TypeOK
    OBVIOUS
  <2>1. Conf({}) \in Content /\ Nothing \in Content
    BY ConfType
  <2> QED BY <2>1 DEF Init, TypeOK, Target, Step
<1>2. TypeOK /\ [Next]_vars => TypeOK'
  <2> SUFFICES ASSUME TypeOK, [Next]_vars PROVE TypeOK'
    OBVIOUS
  <2>1. CASE UNCHANGED vars
    BY <2>1 DEF TypeOK, vars
  <2>2. CASE ChangeTasks
    <3>1. tasks' \subseteq Task
      BY <2>2 DEF ChangeTasks
    <3>2. lists' \in [Handler -> SUBSET SUBSET Task]
      BY <2>2, <3>1 DEF ChangeTasks, TypeOK
    <3> QED BY <2>2, <3>1, <3>2 DEF ChangeTasks, TypeOK, files
  <2>3. CASE Crash
    BY <2>3, ConfType DEF Crash, TypeOK, given, files, Target, Step
  <2>4. ASSUME NEW h \in Handler, Arrive(h) PROVE TypeOK'
    <3>1. lists' \in [Handler -> SUBSET SUBSET Task]
      BY <2>4 DEF Arrive, TypeOK
    <3>2. alone' \in [Handler -> BOOLEAN]
      BY <2>4, Zenon DEF Arrive, TypeOK, Inside
    <3>3. tidy' \in BOOLEAN
      BY <2>4, Zenon DEF Arrive, TypeOK
    <3>4. target' \in [Handler -> Target] /\ pc' \in [Handler -> Step]
      BY <2>4 DEF Arrive, TypeOK, Step
    <3>5. ans' \in [Handler -> {"none", "applied", "failed"}]
      BY <2>4 DEF Arrive, TypeOK
    <3> QED BY <2>4, <3>1, <3>2, <3>3, <3>4, <3>5 DEF Arrive, TypeOK, given, files
  \* What a step does to the files, and to the requests, has its type.
  <2> DEFINE FileTypes == /\ copyMethod' \in CopyMethods /\ tasks' \subseteq Task
                          /\ newConf' \in Content
                          /\ conf' \in [Target -> Content]
                          /\ running' \in [Target -> Content]
                          /\ tidy' \in BOOLEAN
  <2>5. RequestTypes' /\ FileTypes => TypeOK'
    BY DEF RequestTypes, TypeOK
  <2> HIDE DEF FileTypes
  <2>6. ASSUME NEW h \in Handler, Rebuild(h) PROVE TypeOK'
    <3>1. CASE ReadCommon(h) \/ Query(h) \/ QueryDisturbed(h)
      BY <2>5, <3>1, ConfType DEF FileTypes, RequestTypes, ReadCommon, Query,
           QueryDisturbed, Ignores, TypeOK, given, files, history, Step
    <3>2. CASE ReadCommonFails(h) \/ OpenFails(h)
      <4>1. RequestTypes'
        BY <3>2, AfterRebuildType DEF ReadCommonFails, OpenFails, TypeOK
      <4> QED BY <2>5, <3>2, <4>1
              DEF FileTypes, ReadCommonFails, OpenFails, TypeOK, given, files
    <3>3. CASE Open(h)
      BY <2>5, <3>3, ConfType
         DEF FileTypes, RequestTypes, Open, TypeOK, given, history, Step
    <3>4. CASE Write(h) \/ WriteShort(h)
      <4>1. /\ Overwrite(newConf, Conf(rows[h])) \in Content
            /\ Interrupted(newConf, Conf(rows[h])) \subseteq Content
        BY ConfType, OverwriteType DEF TypeOK
      <4>2. newConf' \in Content
        BY <3>4, <4>1 DEF Write, WriteShort
      <4>3. RequestTypes'
        BY <3>4, <4>2, AfterRebuildType DEF Write, WriteShort
      <4> QED BY <2>5, <3>4, <4>2, <4>3 DEF FileTypes, Write, WriteShort, TypeOK, given
    <3> QED BY <2>6, <3>1, <3>2, <3>3, <3>4 DEF Rebuild
  <2>7. ASSUME NEW h \in Handler, Transfer(h) PROVE TypeOK'
    <3>1. CASE ReadBack(h)
      BY <2>5, <3>1 DEF FileTypes, RequestTypes, ReadBack, TypeOK, given, files, history, Step
    <3>2. CASE ReadBackFails(h)
      <4>1. Interrupted(Nothing, newConf) \subseteq Content
        BY ConfType, OverwriteType DEF TypeOK
      <4>2. PICK c \in Content : bytes' = [bytes EXCEPT ![h] = c] /\ Ignores(h, {c})
        BY <3>2, <4>1 DEF ReadBackFails
      <4>3. bytes' \in [Handler -> Content] /\ ignored' \in [Handler -> SUBSET Content]
        BY <4>2 DEF Ignores, TypeOK
      <4> QED BY <2>5, <3>2, <4>3
              DEF FileTypes, RequestTypes, ReadBackFails, TypeOK, given, files, Step
    <3>3. CASE OpenConf(h)
      BY <2>5, <3>3, ConfType
         DEF FileTypes, RequestTypes, OpenConf, TypeOK, given, history, Step
    <3>4. CASE OpenConfFails(h)
      BY <2>5, <3>4, ConfType
         DEF FileTypes, RequestTypes, OpenConfFails, Ignores, TypeOK, given, files, Step, Target
    <3>5. CASE WriteConf(h)
      <4>1. Overwrite(conf["master"], bytes[h]) \in Content
        BY OverwriteType DEF TypeOK, Target
      <4>2. conf' \in [Target -> Content]
        BY <3>5, <4>1 DEF WriteConf, TypeOK
      <4> QED BY <2>5, <3>5, <4>2, ConfType
              DEF FileTypes, RequestTypes, WriteConf, TypeOK, given, history, Step
    <3>6. CASE WriteConfShort(h)
      <4>1. PICK c \in Interrupted(conf["master"], bytes[h]) :
                conf' = [conf EXCEPT !["master"] = c] /\ Ignores(h, {c})
        BY <3>6 DEF WriteConfShort
      <4>2. c \in Content
        BY OverwriteType DEF TypeOK, Target
      <4>3. conf' \in [Target -> Content] /\ ignored' \in [Handler -> SUBSET Content]
        BY <4>1, <4>2 DEF Ignores, TypeOK
      <4> QED BY <2>5, <3>6, <4>3, ConfType
              DEF FileTypes, RequestTypes, WriteConfShort, TypeOK, given, Step
    <3>7. CASE Copy(h)
      <4>1. PICK f \in {conf["slave"], Nothing} : \E c \in Interrupted(f, bytes[h]) :
                conf' = [conf EXCEPT !["slave"] = c]
        BY <3>7 DEF Copy
      <4>2. f \in Content
        BY ConfType DEF TypeOK, Target
      <4>3. PICK c \in Interrupted(f, bytes[h]) : conf' = [conf EXCEPT !["slave"] = c]
        BY <4>1
      <4>4. c \in Content
        BY <4>2, OverwriteType DEF TypeOK
      <4>5. conf' \in [Target -> Content]
        BY <4>3, <4>4 DEF TypeOK
      <4>6. mixed' \subseteq Handler
        BY <3>7 DEF Copy, TypeOK
      <4> QED BY <2>5, <3>7, <4>5, <4>6
              DEF FileTypes, RequestTypes, Copy, TypeOK, given, history, Step
    <3>8. CASE CopyEnds(h)
      <4>1. PICK c \in Content : conf' = [conf EXCEPT !["slave"] = c]
        BY <3>8 DEF CopyEnds
      <4>2. conf' \in [Target -> Content] /\ mixed' \subseteq Handler
        BY <3>8, <4>1 DEF CopyEnds, TypeOK
      <4> QED BY <2>5, <3>8, <4>2, ConfType
              DEF FileTypes, RequestTypes, CopyEnds, TypeOK, given, history, Step
    <3>9. CASE CopyFails(h)
      <4>1. RequestTypes'
        BY <3>9, AnswersType DEF CopyFails
      <4> QED BY <2>5, <3>9, <4>1 DEF FileTypes, CopyFails, TypeOK, given, files
    <3>10. CASE CopyWithoutInput(h)
      BY <2>5, <3>10, ConfType
         DEF FileTypes, RequestTypes, CopyWithoutInput, Ignores, TypeOK, given, files, Step, Target
    <3> QED BY <2>7, <3>1, <3>2, <3>3, <3>4, <3>5, <3>6, <3>7, <3>8, <3>9, <3>10
            DEF Transfer
  <2>8. ASSUME NEW h \in Handler, Restart(h) \/ RestartFails(h) PROVE TypeOK'
    <3>1. RequestTypes'
      BY <2>8, AnswersType DEF Restart, RestartFails
    <3>2. running' \in [Target -> Content]
      BY <2>8 DEF Restart, RestartFails, TypeOK, Target
    <3> QED BY <2>5, <2>8, <3>1, <3>2
            DEF FileTypes, Restart, RestartFails, TypeOK, given, files
  <2> QED BY <2>1, <2>2, <2>3, <2>4, <2>6, <2>7, <2>8 DEF Next, Serve
<1> QED BY <1>1, <1>2, PTL DEF Spec

(***************************************************************************)
(* Where a handler is: which HAProxy it is about to write for, and that    *)
(* only a copy under way can have met another.                             *)
(***************************************************************************)
Place(h) ==
    /\ pc[h] \in {"openConf", "writeConf"} => target[h] = "master"
    /\ pc[h] \in {"copy", "stream"} => target[h] = "slave"
    /\ h \in mixed => pc[h] = "stream"

Places == \A h \in Handler : Place(h)

LEMMA AnswersStep ==
    ASSUME TypeOK, NEW h \in Handler, NEW a, Answers(h, a)
    PROVE  /\ \A g \in Handler \ {h} :
                 /\ pc'[g] = pc[g] /\ target'[g] = target[g] /\ rows'[g] = rows[g]
                 /\ bytes'[g] = bytes[g] /\ ans'[g] = ans[g] /\ alone'[g] = alone[g]
                 /\ lists'[g] = lists[g] /\ ignored'[g] = ignored[g]
           /\ pc'[h] = "idle" /\ bytes'[h] = Nothing /\ mixed' = mixed \ {h}
BY DEF TypeOK, Answers

\* After its rebuild a handler reads the new configuration, or it had nothing
\* to put into force and is gone.
LEMMA AfterRebuildStep ==
    ASSUME TypeOK, NEW h \in Handler, NEW C, AfterRebuild(h, C)
    PROVE  /\ \A g \in Handler \ {h} :
                 /\ pc'[g] = pc[g] /\ target'[g] = target[g] /\ rows'[g] = rows[g]
                 /\ bytes'[g] = bytes[g] /\ ans'[g] = ans[g] /\ alone'[g] = alone[g]
                 /\ lists'[g] = lists[g] /\ ignored'[g] = ignored[g]
           /\ mixed' \subseteq mixed
           /\ \/ pc'[h] = "idle" /\ bytes'[h] = Nothing /\ ~Deploys(h) /\ h \notin mixed'
              \/ /\ pc'[h] = "read" /\ bytes'[h] = bytes[h] /\ ans'[h] = ans[h]
                 /\ mixed' = mixed /\ alone'[h] = alone[h] /\ lists'[h] = lists[h]
                 /\ ignored'[h] = ignored[h] \cup C /\ target'[h] = target[h]
<1>1. CASE Deploys(h)
  BY <1>1 DEF TypeOK, AfterRebuild, Ignores
<1>2. CASE ~Deploys(h)
  <2>1. Answers(h, "applied")
    BY <1>2 DEF AfterRebuild
  <2> QED BY <1>2, <2>1, AnswersStep
<1> QED BY <1>1, <1>2

\* What a handler's step leaves alone.
LEMMA ServesOne ==
    ASSUME TypeOK, NEW h \in Handler, Serve(h)
    PROVE  /\ \A g \in Handler \ {h} :
                 /\ pc'[g] = pc[g] /\ target'[g] = target[g] /\ rows'[g] = rows[g]
                 /\ bytes'[g] = bytes[g] /\ ans'[g] = ans[g] /\ alone'[g] = alone[g]
                 /\ lists'[g] = lists[g] /\ ignored'[g] = ignored[g]
           /\ Inside(h)
           /\ tidy' => tidy
           /\ tasks' = tasks /\ copyMethod' = copyMethod
<1>1. CASE ReadCommonFails(h) \/ OpenFails(h) \/ Write(h) \/ WriteShort(h)
  BY <1>1, AfterRebuildStep
     DEF ReadCommonFails, OpenFails, Write, WriteShort, Inside, given
<1>2. CASE ReadCommon(h) \/ Query(h) \/ QueryDisturbed(h) \/ Open(h)
  BY <1>2 DEF ReadCommon, Query, QueryDisturbed, Open, Ignores, TypeOK, Inside, given, history
<1>3. CASE ReadBack(h) \/ ReadBackFails(h) \/ OpenConf(h) \/ OpenConfFails(h)
  BY <1>3 DEF ReadBack, ReadBackFails, OpenConf, OpenConfFails, Ignores, TypeOK,
       Inside, given, history
<1>4. CASE WriteConf(h) \/ WriteConfShort(h)
  BY <1>4 DEF WriteConf, WriteConfShort, Ignores, TypeOK, Inside, given, history
<1>5. CASE Copy(h) \/ CopyEnds(h) \/ CopyWithoutInput(h)
  BY <1>5 DEF Copy, CopyEnds, CopyWithoutInput, Ignores, TypeOK, Inside, given, history
<1>6. CASE CopyFails(h) \/ Restart(h) \/ RestartFails(h)
  BY <1>6, AnswersStep DEF CopyFails, Restart, RestartFails, Inside, given
<1> QED BY <1>1, <1>2, <1>3, <1>4, <1>5, <1>6 DEF Serve, Rebuild, Transfer

LEMMA PlacesInit == Init => Places
BY DEF Init, Places, Place

LEMMA PlacesNext == TypeOK /\ Places /\ [Next]_vars => Places'
<1> SUFFICES ASSUME TypeOK, Places, [Next]_vars PROVE Places'
  OBVIOUS
<1>1. CASE UNCHANGED vars \/ ChangeTasks
  BY <1>1 DEF vars, ChangeTasks, Places, Place
<1>2. CASE Crash
  BY <1>2 DEF Crash, Places, Place
<1>3. ASSUME NEW h \in Handler, Arrive(h) PROVE Places'
  <2>1. h \notin mixed
    BY <1>3 DEF Arrive, Places, Place
  <2> QED BY <1>3, <2>1 DEF Arrive, TypeOK, Places, Place
<1>4. ASSUME NEW h \in Handler, Serve(h) PROVE Places'
  <2>1. Place(h)' /\ (\A g \in Handler \ {h} : g \in mixed' => g \in mixed \/ pc[g] = "stream")
        => Places'
    BY <1>4, ServesOne DEF Places, Place
  <2>2. CASE ReadCommonFails(h) \/ OpenFails(h) \/ Write(h) \/ WriteShort(h)
    <3>1. PICK C : AfterRebuild(h, C)
      BY <2>2 DEF ReadCommonFails, OpenFails, Write, WriteShort
    <3>2. h \notin mixed
      BY <2>2 DEF ReadCommonFails, OpenFails, Write, WriteShort, Places, Place
    <3> QED BY <2>1, <3>1, <3>2, AfterRebuildStep DEF Place
  <2>3. CASE ReadCommon(h) \/ Query(h) \/ QueryDisturbed(h) \/ Open(h)
    BY <2>1, <2>3 DEF ReadCommon, Query, QueryDisturbed, Open, TypeOK, Places, Place
  <2>4. CASE ReadBack(h) \/ ReadBackFails(h) \/ OpenConf(h) \/ OpenConfFails(h)
    BY <2>1, <2>4
       DEF ReadBack, ReadBackFails, OpenConf, OpenConfFails, TypeOK, Target, Places, Place
  <2>5. CASE WriteConf(h) \/ WriteConfShort(h)
    BY <2>1, <2>5 DEF WriteConf, WriteConfShort, TypeOK, Places, Place
  <2>6. CASE Copy(h)
    BY <2>1, <2>6 DEF Copy, TypeOK, Places, Place
  <2>7. CASE CopyEnds(h) \/ CopyWithoutInput(h)
    BY <2>1, <2>7 DEF CopyEnds, CopyWithoutInput, TypeOK, Places, Place
  <2>8. CASE CopyFails(h) \/ Restart(h) \/ RestartFails(h)
    <3>1. PICK a : Answers(h, a)
      BY <2>8 DEF CopyFails, Restart, RestartFails
    <3> QED BY <2>1, <3>1, AnswersStep DEF Place
  <2> QED BY <1>4, <2>2, <2>3, <2>4, <2>5, <2>6, <2>7, <2>8 DEF Serve, Rebuild, Transfer
<1> QED BY <1>1, <1>2, <1>3, <1>4 DEF Next

(***************************************************************************)
(* No torn configuration in force.  Where the property speaks of what      *)
(* HAProxy runs and finds, the invariant also speaks of every place that a *)
(* configuration comes through on its way there: the new file, what was    *)
(* read back, that a file which is about to be written is empty, and that  *)
(* the slave's file is in order again when a restart is near.  This is so  *)
(* only while one handler at a time is inside.                             *)
(***************************************************************************)
Sound(c) == c.whole \/ c = Nothing

\* What is in order while handler h is inside.
OnItsWay(h) ==
    /\ Sound(bytes[h])
    /\ pc[h] = "write" => newConf = Nothing
    /\ pc[h] = "writeConf" => conf["master"] = Nothing
    /\ pc[h] = "restart" => Sound(conf[target[h]])
    /\ h \notin mixed

TidyInv ==
    tidy =>
        /\ \A g, h \in Handler : Inside(g) /\ Inside(h) => g = h
        /\ Sound(newConf) /\ Sound(conf["master"])
        /\ \A t \in Target : running[t].whole
        /\ \A h \in Handler : OnItsWay(h)

LEMMA SoundFacts ==
    /\ Sound(Nothing)
    /\ \A S : Sound(Conf(S))
    /\ \A c : Sound(c) /\ c.length > 0 => c.whole
    /\ \A c \in Content : Sound(c) => Sound(Overwrite(Nothing, c))
BY DEF Sound, Nothing, Torn, Conf, Overwrite, Content

LEMMA TidyInvInit == Init => TidyInv
<1> SUFFICES ASSUME Init PROVE TidyInv
  OBVIOUS
<1>1. \A h \in Handler : ~Inside(h) /\ OnItsWay(h)
  BY SoundFacts DEF Init, Inside, OnItsWay
<1>2. \A t \in Target : running[t].whole /\ Sound(conf[t])
  <2>1. Conf({}).whole /\ Sound(Conf({}))
    BY SoundFacts DEF Conf
  <2> QED BY <2>1 DEF Init
<1>3. Sound(newConf)
  BY SoundFacts DEF Init
<1> QED BY <1>1, <1>2, <1>3 DEF TidyInv, Target

LEMMA TidyInvNext ==
    TypeOK /\ TypeOK' /\ Places /\ TidyInv /\ [Next]_vars => TidyInv'
<1> SUFFICES ASSUME TypeOK, TypeOK', Places, TidyInv, [Next]_vars, tidy' PROVE TidyInv'
  BY DEF TidyInv
<1>1. CASE UNCHANGED vars
  BY <1>1 DEF vars, TidyInv, OnItsWay, Inside
<1>2. CASE ChangeTasks
  BY <1>2 DEF ChangeTasks, TidyInv, OnItsWay, Inside, files
<1>3. CASE Crash
  <2>1. \A h \in Handler : OnItsWay(h)' /\ ~Inside(h)'
    BY <1>3, SoundFacts DEF Crash, OnItsWay, Inside
  <2> QED BY <1>3, <2>1 DEF Crash, TidyInv, files
<1>4. ASSUME NEW h \in Handler, Arrive(h) PROVE TidyInv'
  \* Nobody was inside.
  <2>1. tidy /\ \A k \in Handler : ~Inside(k)
    BY <1>4 DEF Arrive
  <2>2. \A g \in Handler : g # h => pc'[g] = pc[g] /\ target'[g] = target[g]
    BY <1>4 DEF Arrive, TypeOK
  <2>3. pc'[h] = "common"
    BY <1>4 DEF Arrive, TypeOK
  <2> QED BY <1>4, <2>1, <2>2, <2>3 DEF Arrive, TidyInv, OnItsWay, Inside, files
<1>5. ASSUME NEW h \in Handler, Serve(h) PROVE TidyInv'
  <2>1. tidy /\ Inside(h) /\ Place(h) /\ OnItsWay(h)
    BY <1>5, ServesOne DEF TidyInv, Places
  \* Every other handler is before or after its deployment.
  <2>2. \A g \in Handler \ {h} : pc[g] = "idle" /\ pc'[g] = "idle"
    BY <1>5, <2>1, ServesOne DEF TidyInv, Inside
  <2>3. ASSUME NEW g \in Handler \ {h}, mixed' \subseteq mixed \cup {h}
        PROVE  OnItsWay(g)'
    BY <1>5, <2>1, <2>2, <2>3, ServesOne DEF TidyInv, OnItsWay
  <2> DEFINE Rest == /\ Sound(newConf') /\ Sound(conf'["master"])
                     /\ \A t \in Target : running'[t].whole
                     /\ mixed' \subseteq mixed
                     /\ OnItsWay(h)'
  <2>4. Rest => TidyInv'
    BY <2>2, <2>3 DEF TidyInv, Inside
  <2>5. CASE ReadCommon(h) \/ Query(h) \/ QueryDisturbed(h)
    BY <2>1, <2>4, <2>5
       DEF ReadCommon, Query, QueryDisturbed, TidyInv, OnItsWay, TypeOK, files
  <2>6. CASE ReadCommonFails(h) \/ OpenFails(h)
    <3>1. PICK C : AfterRebuild(h, C)
      BY <2>6 DEF ReadCommonFails, OpenFails
    <3>2. OnItsWay(h)' /\ mixed' \subseteq mixed
      BY <2>1, <3>1, SoundFacts, AfterRebuildStep DEF OnItsWay
    <3> QED BY <2>1, <2>4, <2>6, <3>2 DEF ReadCommonFails, OpenFails, TidyInv, files
  <2>7. CASE Open(h)
    BY <2>1, <2>4, <2>7, SoundFacts DEF Open, TidyInv, OnItsWay, TypeOK
  <2>8. CASE Write(h)
    <3>1. newConf = Nothing /\ Conf(rows[h]) \in Content
      BY <2>1, <2>8, ConfType DEF Write, OnItsWay, TypeOK
    <3>2. Sound(newConf')
      BY <2>8, <3>1, SoundFacts DEF Write
    <3>3. OnItsWay(h)' /\ mixed' \subseteq mixed
      BY <2>1, <2>8, SoundFacts, AfterRebuildStep DEF Write, OnItsWay
    <3> QED BY <2>1, <2>4, <2>8, <3>2, <3>3 DEF Write, TidyInv
  <2>9. CASE WriteShort(h) \/ ReadBackFails(h) \/ WriteConfShort(h) \/ CopyWithoutInput(h)
    BY <2>9 DEF WriteShort, ReadBackFails, WriteConfShort, CopyWithoutInput
  <2>10. CASE ReadBack(h)
    BY <2>1, <2>4, <2>10 DEF ReadBack, TidyInv, OnItsWay, TypeOK, files
  <2>11. CASE OpenConf(h)
    BY <2>1, <2>4, <2>11, SoundFacts DEF OpenConf, TidyInv, OnItsWay, TypeOK, Target
  <2>12. CASE OpenConfFails(h)
    BY <2>1, <2>4, <2>12, SoundFacts
       DEF OpenConfFails, TidyInv, OnItsWay, Place, TypeOK, files
  <2>13. CASE WriteConf(h)
    <3>1. conf["master"] = Nothing /\ bytes[h] \in Content /\ Sound(bytes[h])
      BY <2>1, <2>13 DEF WriteConf, OnItsWay, TypeOK
    <3>2. Sound(conf'["master"])
      BY <2>13, <3>1, SoundFacts DEF WriteConf, TypeOK, Target
    <3> QED BY <2>1, <2>4, <2>13, <3>2, SoundFacts
            DEF WriteConf, TidyInv, OnItsWay, Place, TypeOK
  <2>14. CASE Copy(h)
    <3>1. mixed' = mixed
      BY <2>2, <2>14 DEF Copy
    <3> QED BY <2>1, <2>4, <2>14, <3>1 DEF Copy, TidyInv, OnItsWay, TypeOK, Target
  <2>15. CASE CopyEnds(h)
    <3>1. conf'["slave"] = bytes[h] /\ conf'["master"] = conf["master"]
      BY <2>1, <2>15 DEF CopyEnds, OnItsWay, TypeOK, Target
    <3> QED BY <2>1, <2>4, <2>15, <3>1, SoundFacts
            DEF CopyEnds, TidyInv, OnItsWay, Place, TypeOK
  <2>16. CASE CopyFails(h) \/ Restart(h) \/ RestartFails(h)
    <3>1. OnItsWay(h)' /\ mixed' \subseteq mixed
      <4>1. PICK a : Answers(h, a)
        BY <2>16 DEF CopyFails, Restart, RestartFails
      <4> QED BY <4>1, AnswersStep, SoundFacts DEF OnItsWay
    <3>2. \A t \in Target : running'[t].whole
      BY <2>1, <2>16, SoundFacts
         DEF CopyFails, Restart, RestartFails, TidyInv, OnItsWay, TypeOK, Target
    <3> QED BY <2>1, <2>4, <2>16, <3>1, <3>2
            DEF CopyFails, Restart, RestartFails, TidyInv, files
  <2> QED BY <1>5, <2>5, <2>6, <2>7, <2>8, <2>9, <2>10, <2>11, <2>12, <2>13,
             <2>14, <2>15, <2>16 DEF Serve, Rebuild, Transfer
<1> QED BY <1>1, <1>2, <1>3, <1>4, <1>5 DEF Next

\* Deployments that do not overlap, and take nothing for whole that they read,
\* wrote or copied in part, never make an HAProxy run a configuration in part,
\* nor leave one for the master, wherever the console crashed, a file could not
\* be opened or a copy broke off.
THEOREM NeverTorn == Spec => []NotTorn
<1>1. TidyInv => NotTorn
  BY DEF TidyInv, NotTorn, Sound
<1> QED BY <1>1, TidyInvInit, TidyInvNext, PlacesInit, PlacesNext, TypeCorrect,
           PTL DEF Spec

(***************************************************************************)
(* An undisturbed deployment.  What overlapping, failed and interrupted    *)
(* ones left behind does not matter because the handler empties each file  *)
(* before it writes it, or has failed to, which the history tells.  The    *)
(* tasks it read are known three files earlier than what HAProxy runs, so  *)
(* the invariant follows what is due through all of them.                  *)
(***************************************************************************)

\* c is what handler h has to put into force, or a failure of its accounts for.
Due(h, c) ==
    \/ c = Nothing
    \/ \E S \in lists[h] : c = Conf(S)
    \/ c \in ignored[h]

\* What holds of handler h at each of its steps.
Undisturbed(h) ==
    /\ \A g \in Handler : Inside(g) => g = h
    /\ pc[h] \in {"open", "write"} => Due(h, Conf(rows[h]))
    /\ pc[h] = "write" => newConf = Nothing
    /\ pc[h] = "read" => Due(h, newConf)
    /\ pc[h] \in {"openConf", "writeConf", "copy", "stream"} => Due(h, bytes[h])
    /\ pc[h] = "writeConf" => conf["master"] = Nothing
    /\ pc[h] = "restart" => Due(h, conf[target[h]])
    /\ h \notin mixed

AloneInv ==
    \A h \in Handler :
        Inside(h) => tasks \in lists[h] /\ (alone[h] => Undisturbed(h))

LEMMA AloneInvInit == Init => AloneInv
BY DEF Init, AloneInv, Inside

LEMMA WriteToEmpty ==
    ASSUME NEW c \in Content
    PROVE  /\ Overwrite(Nothing, c) \in {Nothing, c}
           /\ c.length > 0 => Overwrite(Nothing, c) = c
BY DEF Overwrite, Nothing, Torn, Content

LEMMA AloneInvNext ==
    TypeOK /\ TypeOK' /\ Places /\ AloneInv /\ [Next]_vars => AloneInv'
<1> SUFFICES ASSUME TypeOK, TypeOK', Places, AloneInv, [Next]_vars PROVE AloneInv'
  OBVIOUS
<1>1. CASE UNCHANGED vars
  BY <1>1 DEF vars, AloneInv, Undisturbed, Due, Inside
<1>2. CASE ChangeTasks
  <2>1. \A h \in Handler : /\ lists[h] \subseteq lists'[h]
                           /\ Inside(h) => tasks' \in lists'[h]
    BY <1>2 DEF ChangeTasks, TypeOK
  <2>2. \A h \in Handler : Inside(h)' <=> Inside(h)
    BY <1>2 DEF ChangeTasks, Inside
  <2> SUFFICES ASSUME NEW h \in Handler, alone[h], Inside(h) PROVE Undisturbed(h)'
    BY <1>2, <2>1, <2>2 DEF ChangeTasks, AloneInv
  <2>3. Undisturbed(h)
    BY DEF AloneInv
  <2> QED BY <1>2, <2>1, <2>2, <2>3 DEF ChangeTasks, Undisturbed, Due, files
<1>3. CASE Crash
  BY <1>3 DEF Crash, AloneInv, Inside
<1>4. ASSUME NEW h \in Handler, Arrive(h) PROVE AloneInv'
  <2>1. \A g \in Handler : g # h => /\ pc'[g] = pc[g] /\ lists'[g] = lists[g]
                                   /\ ~(alone'[g] /\ Inside(g))
    BY <1>4 DEF Arrive, TypeOK
  <2>2. /\ pc'[h] = "common" /\ lists'[h] = {tasks} /\ h \notin mixed
        /\ alone'[h] => \A g \in Handler : ~Inside(g)
    BY <1>4 DEF Arrive, TypeOK, Places, Place
  <2>3. alone'[h] => Undisturbed(h)'
    BY <1>4, <2>1, <2>2 DEF Arrive, Undisturbed, Inside
  <2> QED BY <1>4, <2>1, <2>2, <2>3 DEF Arrive, AloneInv, Inside, given
<1>5. ASSUME NEW h \in Handler, Serve(h) PROVE AloneInv'
  <2>1. Inside(h) /\ Place(h) /\ tasks \in lists[h] /\ (alone[h] => Undisturbed(h))
    BY <1>5, ServesOne DEF AloneInv, Places
  \* Others that are inside are not alone, and nothing of theirs changes.
  <2>2. \A g \in Handler \ {h} : alone[g] => ~Inside(g)
    BY <2>1 DEF AloneInv, Undisturbed
  <2>3. pc'[h] = "idle" => AloneInv'
    BY <1>5, <2>2, ServesOne DEF AloneInv, Inside
  <2>4. alone[h] => \A g \in Handler \ {h} : pc[g] = "idle" /\ pc'[g] = "idle"
    BY <1>5, <2>1, ServesOne DEF Undisturbed, Inside
  <2> DEFINE Grows == alone'[h] = alone[h] /\ lists'[h] = lists[h]
                      /\ ignored[h] \subseteq ignored'[h]
             Own == alone[h] => Undisturbed(h)'
  <2>5. Grows /\ Own => AloneInv'
    BY <1>5, <2>1, <2>2, ServesOne DEF AloneInv, Inside
  <2>6. Grows => \A c : Due(h, c) => Due(h, c)'
    BY DEF Due
  <2>7. alone[h] => (Undisturbed(h)' <=>
            /\ pc'[h] \in {"open", "write"} => Due(h, Conf(rows[h]))'
            /\ pc'[h] = "write" => newConf' = Nothing
            /\ pc'[h] = "read" => Due(h, newConf)'
            /\ pc'[h] \in {"openConf", "writeConf", "copy", "stream"} => Due(h, bytes[h])'
            /\ pc'[h] = "writeConf" => conf'["master"] = Nothing
            /\ pc'[h] = "restart" => Due(h, conf[target[h]])'
            /\ h \notin mixed')
    BY <2>4 DEF Undisturbed, Inside
  <2>8. CASE ReadCommon(h)
    BY <2>1, <2>5, <2>7, <2>8 DEF ReadCommon, Undisturbed, TypeOK, history
  <2>9. CASE Query(h)
    <3>1. rows'[h] = tasks /\ pc'[h] = "open" /\ Grows /\ mixed' = mixed
      BY <2>9 DEF Query, TypeOK, history
    <3>2. Due(h, Conf(rows[h]))'
      BY <2>1, <3>1 DEF Due
    <3> QED BY <2>1, <2>5, <2>7, <3>1, <3>2 DEF Undisturbed
  <2>10. CASE QueryDisturbed(h)
    <3>1. rows'[h] = {} /\ pc'[h] = "open" /\ Grows /\ mixed' = mixed
          /\ Conf({}) \in ignored'[h]
      BY <2>10 DEF QueryDisturbed, Ignores, TypeOK
    <3>2. Due(h, Conf(rows[h]))'
      BY <3>1 DEF Due
    <3> QED BY <2>1, <2>5, <2>7, <3>1, <3>2 DEF Undisturbed
  <2>11. CASE ReadCommonFails(h) \/ OpenFails(h)
    <3>1. AfterRebuild(h, {newConf}) /\ newConf' = newConf
      BY <2>11 DEF ReadCommonFails, OpenFails, files
    <3>2. CASE pc'[h] = "idle"
      BY <2>3, <3>2
    <3>3. CASE pc'[h] = "read"
      <4>1. Grows /\ newConf' \in ignored'[h] /\ mixed' = mixed
        BY <3>1, <3>3, AfterRebuildStep
      <4> QED BY <2>1, <2>5, <2>7, <3>3, <4>1 DEF Undisturbed, Due
    <3> QED BY <3>1, <3>2, <3>3, AfterRebuildStep
  <2>12. CASE Open(h)
    <3>1. pc[h] = "open" /\ pc'[h] = "write" /\ newConf' = Nothing /\ rows' = rows
          /\ Grows /\ mixed' = mixed
      BY <2>12 DEF Open, TypeOK, history
    <3> QED BY <2>1, <2>5, <2>6, <2>7, <3>1 DEF Undisturbed, Due
  <2>13. CASE Write(h)
    <3>1. pc[h] = "write" /\ newConf' = Overwrite(newConf, Conf(rows[h])) /\ AfterRebuild(h, {})
      BY <2>13 DEF Write
    <3>2. CASE pc'[h] = "idle"
      BY <2>3, <3>2
    <3>3. CASE pc'[h] = "read"
      <4>1. Grows /\ mixed' = mixed
        BY <3>1, <3>3, AfterRebuildStep
      <4>2. alone[h] => newConf' = Conf(rows[h])
        BY <2>1, <3>1, ConfType, WriteToEmpty DEF Undisturbed, TypeOK
      <4>3. alone[h] => Due(h, newConf)'
        BY <2>1, <2>6, <3>1, <4>1, <4>2 DEF Undisturbed, Due
      <4> QED BY <2>1, <2>5, <2>7, <3>3, <4>1, <4>3 DEF Undisturbed
    <3> QED BY <3>1, <3>2, <3>3, AfterRebuildStep
  <2>14. CASE WriteShort(h)
    <3>1. AfterRebuild(h, {newConf'})
      BY <2>14 DEF WriteShort
    <3>2. CASE pc'[h] = "idle"
      BY <2>3, <3>2
    <3>3. CASE pc'[h] = "read"
      <4>1. Grows /\ newConf' \in ignored'[h] /\ mixed' = mixed
        BY <3>1, <3>3, AfterRebuildStep
      <4> QED BY <2>1, <2>5, <2>7, <3>3, <4>1 DEF Undisturbed, Due
    <3> QED BY <3>1, <3>2, <3>3, AfterRebuildStep
  <2>15. CASE ReadBack(h)
    <3>1. /\ pc[h] = "read" /\ pc'[h] \in {"openConf", "copy"} /\ bytes'[h] = newConf
          /\ Grows /\ mixed' = mixed
      BY <2>15 DEF ReadBack, TypeOK, history
    <3>2. alone[h] => Due(h, bytes[h])'
      BY <2>1, <3>1 DEF Undisturbed, Due
    <3> QED BY <2>1, <2>5, <2>7, <3>1, <3>2 DEF Undisturbed
  <2>16. CASE ReadBackFails(h)
    <3>1. PICK c : bytes' = [bytes EXCEPT ![h] = c] /\ Ignores(h, {c})
      BY <2>16 DEF ReadBackFails
    <3>2. pc'[h] = "openConf" /\ bytes'[h] \in ignored'[h] /\ Grows /\ mixed' = mixed
      BY <2>16, <3>1 DEF ReadBackFails, Ignores, TypeOK
    <3> QED BY <2>1, <2>5, <2>7, <3>2 DEF Undisturbed, Due
  <2>17. CASE OpenConf(h)
    <3>1. /\ pc[h] = "openConf" /\ pc'[h] = "writeConf" /\ bytes' = bytes
          /\ conf'["master"] = Nothing /\ Grows /\ mixed' = mixed
      BY <2>17 DEF OpenConf, TypeOK, Target, history
    <3> QED BY <2>1, <2>5, <2>6, <2>7, <3>1 DEF Undisturbed, Due
  <2>18. CASE OpenConfFails(h)
    <3>1. /\ pc'[h] = "restart" /\ target'[h] = "master"
          /\ conf'["master"] \in ignored'[h] /\ Grows /\ mixed' = mixed
      BY <2>1, <2>18 DEF OpenConfFails, Ignores, Place, TypeOK, files
    <3> QED BY <2>1, <2>5, <2>7, <3>1 DEF Undisturbed, Due
  <2>19. CASE WriteConf(h)
    <3>1. /\ pc[h] = "writeConf" /\ pc'[h] = "restart" /\ target'[h] = "master"
          /\ conf'["master"] = Overwrite(conf["master"], bytes[h])
          /\ Grows /\ mixed' = mixed /\ bytes[h] \in Content
      BY <2>1, <2>19 DEF WriteConf, Place, TypeOK, Target, history
    <3>2. alone[h] => Due(h, conf["master"])'
      BY <2>1, <3>1, WriteToEmpty DEF Undisturbed, Due
    <3> QED BY <2>1, <2>5, <2>7, <3>1, <3>2 DEF Undisturbed, Due
  <2>20. CASE WriteConfShort(h)
    <3>1. PICK c : conf' = [conf EXCEPT !["master"] = c] /\ Ignores(h, {c})
      BY <2>20 DEF WriteConfShort
    <3>2. /\ pc'[h] = "restart" /\ target'[h] = "master"
          /\ conf'["master"] \in ignored'[h] /\ Grows /\ mixed' = mixed
      BY <2>1, <2>20, <3>1 DEF WriteConfShort, Ignores, Place, TypeOK, Target
    <3> QED BY <2>1, <2>5, <2>7, <3>2 DEF Undisturbed, Due
  <2>21. CASE Copy(h)
    <3>1. pc[h] = "copy" /\ pc'[h] = "stream" /\ bytes' = bytes /\ Grows
      BY <2>21 DEF Copy, TypeOK, history
    <3>2. alone[h] => mixed' = mixed
      BY <2>4, <2>21 DEF Copy
    <3> QED BY <2>1, <2>5, <2>6, <2>7, <3>1, <3>2 DEF Undisturbed, Due
  <2>22. CASE CopyEnds(h)
    <3>1. pc[h] = "stream" /\ pc'[h] = "restart" /\ target'[h] = "slave" /\ Grows
          /\ h \notin mixed'
      BY <2>1, <2>22 DEF CopyEnds, Place, TypeOK, history
    <3>2. alone[h] => conf'["slave"] = bytes[h]
      BY <2>1, <2>22 DEF CopyEnds, Undisturbed, TypeOK, Target
    <3>3. alone[h] => Due(h, conf["slave"])'
      BY <2>1, <3>1, <3>2 DEF Undisturbed, Due
    <3> QED BY <2>1, <2>5, <2>7, <3>1, <3>3 DEF Due
  <2>23. CASE CopyWithoutInput(h)
    <3>1. /\ pc'[h] = "restart" /\ target'[h] = "slave"
          /\ conf'["slave"] \in ignored'[h] /\ Grows /\ mixed' = mixed
      BY <2>1, <2>23 DEF CopyWithoutInput, Ignores, Place, TypeOK, files
    <3> QED BY <2>1, <2>5, <2>7, <3>1 DEF Undisturbed, Due
  <2>24. CASE CopyFails(h) \/ Restart(h) \/ RestartFails(h)
    <3>1. PICK a : Answers(h, a)
      BY <2>24 DEF CopyFails, Restart, RestartFails
    <3> QED BY <2>3, <3>1, AnswersStep
  <2> QED BY <1>5, <2>8, <2>9, <2>10, <2>11, <2>12, <2>13, <2>14, <2>15, <2>16,
             <2>17, <2>18, <2>19, <2>20, <2>21, <2>22, <2>23, <2>24
          DEF Serve, Rebuild, Transfer
<1> QED BY <1>1, <1>2, <1>3, <1>4, <1>5 DEF Next

\* A deployment that nobody overlapped is reported as a success only when
\* HAProxy runs, and its file holds, the tasks of some moment of the request, or
\* what a failure of its own that went unnoticed left there, for any number of
\* handlers before and after.
THEOREM UndisturbedApplies == Spec => IsolatedApplies
<1> DEFINE Says == \A h \in Handler : Succeeds(h) /\ Deploys(h) /\ alone[h] =>
                        Applied(h) \/ Accounted(h)
<1>1. TypeOK /\ AloneInv /\ [Next]_vars => [Says]_vars
  <2> SUFFICES ASSUME TypeOK, AloneInv, Next, NEW h \in Handler,
                      Succeeds(h), Deploys(h), alone[h]
               PROVE  Applied(h) \/ Accounted(h)
    OBVIOUS
  <2>1. ~ChangeTasks /\ ~Crash
    BY DEF ChangeTasks, Crash, Succeeds, TypeOK
  <2>2. \A g \in Handler : ~Arrive(g)
    BY DEF Arrive, Succeeds, TypeOK
  <2>3. Serve(h)
    BY <2>1, <2>2, ServesOne DEF Next, Succeeds
  <2>4. Restart(h)
    <3>1. ~ReadCommon(h) /\ ~Query(h) /\ ~QueryDisturbed(h) /\ ~Open(h)
      BY DEF ReadCommon, Query, QueryDisturbed, Open, Succeeds
    <3>2. ~ReadBack(h) /\ ~ReadBackFails(h) /\ ~OpenConf(h) /\ ~OpenConfFails(h)
      BY DEF ReadBack, ReadBackFails, OpenConf, OpenConfFails, Succeeds
    <3>3. ~WriteConf(h) /\ ~WriteConfShort(h) /\ ~Copy(h) /\ ~CopyEnds(h)
          /\ ~CopyWithoutInput(h)
      BY DEF WriteConf, WriteConfShort, Copy, CopyEnds, CopyWithoutInput, Succeeds
    <3>4. ~CopyFails(h) /\ ~RestartFails(h)
      BY DEF CopyFails, RestartFails, Answers, Succeeds, TypeOK
    <3>5. ~ReadCommonFails(h) /\ ~OpenFails(h) /\ ~Write(h) /\ ~WriteShort(h)
      <4>1. ASSUME NEW C, AfterRebuild(h, C) PROVE FALSE
        BY <4>1 DEF AfterRebuild, Succeeds
      <4> QED BY <4>1 DEF ReadCommonFails, OpenFails, Write, WriteShort
    <3> QED BY <2>3, <3>1, <3>2, <3>3, <3>4, <3>5 DEF Serve, Rebuild, Transfer
  <2>5. /\ pc[h] = "restart" /\ conf[target[h]].length > 0 /\ target[h] \in Target
        /\ conf' = conf /\ running'[target[h]] = conf[target[h]]
    BY <2>4 DEF Restart, TypeOK, files
  <2>6. Due(h, conf[target[h]]) /\ conf[target[h]] # Nothing
    BY <2>5 DEF AloneInv, Undisturbed, Inside, Nothing, Torn
  <2> QED BY <2>5, <2>6 DEF Due, Applied, Accounted, PutsInForce
<1> QED BY <1>1, AloneInvInit, AloneInvNext, PlacesInit, PlacesNext, TypeCorrect,
           PTL DEF Spec, IsolatedApplies
=============================================================================
