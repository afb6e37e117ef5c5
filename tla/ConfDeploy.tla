----------------------------- MODULE ConfDeploy -----------------------------
(***************************************************************************)
(* applyConf: a handler rebuilds the new HAProxy configuration from the    *)
(* stored tasks, copies it over the configuration of the master or of the  *)
(* slave and has HAProxy restarted.  All handlers share one file for the   *)
(* new configuration and one for each HAProxy, each through a descriptor   *)
(* of its own, opened with O_TRUNC; nothing keeps two of them apart.       *)
(*                                                                         *)
(* Other users' requests change and read the stored tasks meanwhile,       *)
(* through one descriptor for all (FileStore): a query returns the tasks as*)
(* they are when it reads, or nothing when another request comes between   *)
(* its steps.  The code looks at the errors of few of its calls: an open, a*)
(* read or a write that fails, wholly or half way, is a step of its own    *)
(* here, after which the deployment goes on as the code does.              *)
(***************************************************************************)
EXTENDS Integers, FiniteSets

CONSTANTS
    Handler,        \* goroutines that serve /applyconf
    Task,           \* the tasks that may be stored
    CopyMethods     \* values that app_conf.ini may have for CopyMethod

ASSUME DeployAssumption == IsFiniteSet(Task) /\ CopyMethods \subseteq Int

VARIABLES
    copyMethod, \* to the slave: 1 by password, 2 by trust
    tasks,      \* the stored tasks
    newConf,    \* the file of NewHAProxyConfPath
    conf,       \* the configuration file of each HAProxy
    running,    \* the configuration each HAProxy runs
    pc,         \* what each handler does next
    target,     \* the HAProxy it deploys to
    rows,       \* the tasks it queried, until the rebuild ends
    bytes,      \* what it read back from newConf, until it is copied
    ans,        \* its last answer
    mixed,      \* handlers whose copy to the slave another copy has met
    alone,      \* history: no other handler deployed meanwhile
    lists,      \* history: the lists of tasks in force since it arrived
    ignored,    \* history: what became of a configuration in each failure of
                \*   the request that went unnoticed
    tidy        \* history: no two deployments have overlapped so far, and no
                \*   read, write or copy was taken for whole that was not

given == <<copyMethod, tasks>>
files == <<newConf, conf>>
history == <<alone, lists, ignored, tidy>>
vars == <<copyMethod, tasks, newConf, conf, running, pc, target, rows, bytes,
          ans, mixed, alone, lists, ignored, tidy>>

Target == {"master", "slave"}
Step == {"idle", "common", "query", "open", "write", "read", "openConf",
         "writeConf", "copy", "stream", "restart"}

(* A configuration file: the length counts its listen sections and the     *)
(* common part.  One that is not whole is empty, or the start of one       *)
(* configuration followed by the rest of another.                          *)
Content == [length : 0..(Cardinality(Task) + 1), tasks : SUBSET Task,
            whole : BOOLEAN]

Torn(k) == [length |-> k, tasks |-> {}, whole |-> FALSE]
Nothing == Torn(0)
Conf(S) == [length |-> Cardinality(S) + 1, tasks |-> S, whole |-> TRUE]

\* Mutant: the file is opened to append.
Overwrite_Appends(f, c) ==
    Torn(f.length + c.length)

\* A write of c at the start of a file that holds f.
Overwrite(f, c) ==
    IF c.length = 0 THEN f
    ELSE IF c.length >= f.length THEN c
    ELSE Torn(f.length)

\* What a file that holds f may hold when a write of c at its start stopped
\* before its end, and what may come of a reading of c (f = Nothing).
Interrupted(f, c) ==
    {f} \cup {Torn(IF k > f.length THEN k ELSE f.length) : k \in 1..c.length}

Inside(h) == pc[h] # "idle"

TypeOK ==
    /\ copyMethod \in CopyMethods
    /\ tasks \subseteq Task
    /\ newConf \in Content
    /\ conf \in [Target -> Content]
    /\ running \in [Target -> Content]
    /\ pc \in [Handler -> Step]
    /\ target \in [Handler -> Target]
    /\ rows \in [Handler -> SUBSET Task]
    /\ bytes \in [Handler -> Content]
    /\ ans \in [Handler -> {"none", "applied", "failed"}]
    /\ mixed \subseteq Handler
    /\ alone \in [Handler -> BOOLEAN]
    /\ lists \in [Handler -> SUBSET SUBSET Task]
    /\ ignored \in [Handler -> SUBSET Content]
    /\ tidy \in BOOLEAN

\* checkMaster has seen a configuration of the master; HAProxy runs on both.
Init ==
    /\ copyMethod \in CopyMethods
    /\ tasks \in SUBSET Task
    /\ newConf = Nothing
    /\ conf = [t \in Target |-> Conf({})]
    /\ running = [t \in Target |-> Conf({})]
    /\ pc = [h \in Handler |-> "idle"]
    /\ target = [h \in Handler |-> "master"]
    /\ rows = [h \in Handler |-> {}]
    /\ bytes = [h \in Handler |-> Nothing]
    /\ ans = [h \in Handler |-> "none"]
    /\ mixed = {}
    /\ alone = [h \in Handler |-> FALSE]
    /\ lists = [h \in Handler |-> {}]
    /\ ignored = [h \in Handler |-> {}]
    /\ tidy = TRUE

\* A request of another user changes the stored tasks.
ChangeTasks ==
    /\ \E S \in SUBSET Task \ {tasks} : tasks' = S
    /\ lists' = [h \in Handler |->
                    IF Inside(h) THEN lists[h] \cup {tasks'} ELSE lists[h]]
    /\ UNCHANGED <<copyMethod, files, running, pc, target, rows, bytes, ans,
                   mixed, alone, ignored, tidy>>

Arrive(h) ==
    /\ pc[h] = "idle"
    /\ \E t \in Target : target' = [target EXCEPT ![h] = t]
    /\ pc' = [pc EXCEPT ![h] = "common"]
    /\ ans' = [ans EXCEPT ![h] = "none"]
    /\ alone' = [g \in Handler |->
                    IF g = h THEN \A k \in Handler : ~Inside(k)
                    ELSE alone[g] /\ ~Inside(g)]
    /\ lists' = [lists EXCEPT ![h] = {tasks}]
    /\ tidy' = (tidy /\ \A k \in Handler : ~Inside(k))
    /\ UNCHANGED <<given, files, running, rows, bytes, mixed, ignored>>

\* The answer goes out and the goroutine ends.
Answers(h, answer) ==
    /\ ans' = [ans EXCEPT ![h] = answer]
    /\ pc' = [pc EXCEPT ![h] = "idle"]
    /\ target' = [target EXCEPT ![h] = "master"]
    /\ rows' = [rows EXCEPT ![h] = {}]
    /\ bytes' = [bytes EXCEPT ![h] = Nothing]
    /\ mixed' = mixed \ {h}
    /\ alone' = [alone EXCEPT ![h] = FALSE]
    /\ lists' = [lists EXCEPT ![h] = {}]
    /\ ignored' = [ignored EXCEPT ![h] = {}]

\* The code does not notice, or only logs, failures that leave a configuration
\* of the set C where the new one should be.
Ignores(h, C) == ignored' = [ignored EXCEPT ![h] = @ \cup C]

-----------------------------------------------------------------------------
(* rebuildHAProxyConf. *)

\* applyConf has something to put into force: it leaves a slave alone when
\* copyMethod is neither 1 nor 2, and that counts as success.
Deploys(h) == target[h] = "master" \/ copyMethod \in {1, 2}

\* What applyConf goes on with after the rebuild, which ignored failures C.
AfterRebuild(h, C) ==
    IF Deploys(h)
    THEN /\ pc' = [pc EXCEPT ![h] = "read"]
         /\ rows' = [rows EXCEPT ![h] = {}]
         /\ Ignores(h, C)
         /\ UNCHANGED <<target, bytes, ans, mixed, alone, lists>>
    ELSE Answers(h, "applied")

\* The common part of the configuration is read.
ReadCommon(h) ==
    /\ pc[h] = "common"
    /\ pc' = [pc EXCEPT ![h] = "query"]
    /\ UNCHANGED <<given, files, running, target, rows, bytes, ans, mixed, history>>

\* It is missing or not json: the rebuild ends, and nobody is told.
ReadCommonFails(h) ==
    /\ pc[h] = "common"
    /\ AfterRebuild(h, {newConf})
    /\ UNCHANGED <<given, files, running, tidy>>

\* db.QueryNewConfData, at the moment it reads the store.
Query(h) ==
    /\ pc[h] = "query"
    /\ rows' = [rows EXCEPT ![h] = tasks]
    /\ pc' = [pc EXCEPT ![h] = "open"]
    /\ UNCHANGED <<given, files, running, target, bytes, ans, mixed, history>>

\* Another request has moved the descriptor's offset or has the store truncated
\* when it reads: what it gets is no json, and the error is only logged.
QueryDisturbed(h) ==
    /\ pc[h] = "query"
    /\ rows' = [rows EXCEPT ![h] = {}]
    /\ pc' = [pc EXCEPT ![h] = "open"]
    /\ Ignores(h, {Conf({})})
    /\ UNCHANGED <<given, files, running, target, bytes, ans, mixed, alone, lists,
                   tidy>>

\* Mutant: without O_TRUNC.
Open_KeepsContent(h) ==
    /\ pc[h] = "open"
    /\ pc' = [pc EXCEPT ![h] = "write"]
    /\ UNCHANGED <<given, files, running, target, rows, bytes, ans, mixed, history>>

\* os.OpenFile with O_TRUNC.
Open(h) ==
    /\ pc[h] = "open"
    /\ newConf' = Nothing
    /\ pc' = [pc EXCEPT ![h] = "write"]
    /\ UNCHANGED <<given, conf, running, target, rows, bytes, ans, mixed, history>>

\* It fails: the error is only printed, and nothing is written to a file that
\* is not there.
OpenFails(h) ==
    /\ pc[h] = "open"
    /\ AfterRebuild(h, {newConf})
    /\ UNCHANGED <<given, files, running, tidy>>

\* WriteString of the new configuration; rebuildHAProxyConf returns.
Write(h) ==
    /\ pc[h] = "write"
    /\ newConf' = Overwrite(newConf, Conf(rows[h]))
    /\ AfterRebuild(h, {})
    /\ UNCHANGED <<given, conf, running, tidy>>

\* The disk is full, or fails: a part is written, and nobody is told.
WriteShort(h) ==
    /\ pc[h] = "write"
    /\ newConf' \in Interrupted(newConf, Conf(rows[h]))
    /\ AfterRebuild(h, {newConf'})
    /\ tidy' = FALSE
    /\ UNCHANGED <<given, conf, running>>

-----------------------------------------------------------------------------
(* The rest of applyConf: copy and restart. *)

\* ioutil.ReadFile of the new configuration, for the master by applyConf, for
\* the slave by ScpHaproxyConf or by the scp program.
ReadBack(h) ==
    /\ pc[h] = "read"
    /\ bytes' = [bytes EXCEPT ![h] = newConf]
    /\ pc' = [pc EXCEPT ![h] =
                IF target[h] = "master" THEN "openConf" ELSE "copy"]
    /\ UNCHANGED <<given, files, running, target, rows, ans, mixed, history>>

\* For the master what was read up to the error is used as if it were all (for
\* the slave: CopyFails).
ReadBackFails(h) ==
    /\ pc[h] = "read"
    /\ target[h] = "master"
    /\ \E c \in Interrupted(Nothing, newConf) :
          bytes' = [bytes EXCEPT ![h] = c] /\ Ignores(h, {c})
    /\ pc' = [pc EXCEPT ![h] = "openConf"]
    /\ tidy' = FALSE
    /\ UNCHANGED <<given, files, running, target, rows, ans, mixed, alone,
                   lists>>

\* Mutant: without O_TRUNC.
OpenConf_KeepsContent(h) ==
    /\ pc[h] = "openConf"
    /\ pc' = [pc EXCEPT ![h] = "writeConf"]
    /\ UNCHANGED <<given, files, running, target, rows, bytes, ans, mixed, history>>

\* os.OpenFile of the master's configuration, with O_TRUNC.
OpenConf(h) ==
    /\ pc[h] = "openConf"
    /\ conf' = [conf EXCEPT !["master"] = Nothing]
    /\ pc' = [pc EXCEPT ![h] = "writeConf"]
    /\ UNCHANGED <<given, newConf, running, target, rows, bytes, ans, mixed, history>>

\* It fails: err is assigned anew before anybody looks at it, and HAProxy is
\* restarted with the file as it is.
OpenConfFails(h) ==
    /\ pc[h] = "openConf"
    /\ bytes' = [bytes EXCEPT ![h] = Nothing]
    /\ pc' = [pc EXCEPT ![h] = "restart"]
    /\ Ignores(h, {conf["master"]})
    /\ UNCHANGED <<given, files, running, target, rows, ans, mixed, alone, lists,
                   tidy>>

WriteConf(h) ==
    /\ pc[h] = "writeConf"
    /\ conf' = [conf EXCEPT !["master"] = Overwrite(@, bytes[h])]
    /\ bytes' = [bytes EXCEPT ![h] = Nothing]
    /\ pc' = [pc EXCEPT ![h] = "restart"]
    /\ UNCHANGED <<given, newConf, running, target, rows, ans, mixed, history>>

\* A part is written, and nobody is told.
WriteConfShort(h) ==
    /\ pc[h] = "writeConf"
    /\ \E c \in Interrupted(conf["master"], bytes[h]) :
          conf' = [conf EXCEPT !["master"] = c] /\ Ignores(h, {c})
    /\ bytes' = [bytes EXCEPT ![h] = Nothing]
    /\ pc' = [pc EXCEPT ![h] = "restart"]
    /\ tidy' = FALSE
    /\ UNCHANGED <<given, newConf, running, target, rows, ans, mixed, alone,
                   lists>>

\* scp on the slave writes over its file as the bytes come, with or without
\* emptying it first: what this leaves is what is there when the copy breaks
\* off, when another comes between, or when the console dies.
Copy(h) ==
    /\ pc[h] = "copy"
    /\ \E f \in {conf["slave"], Nothing} : \E c \in Interrupted(f, bytes[h]) :
          conf' = [conf EXCEPT !["slave"] = c]
    /\ LET others == {g \in Handler \ {h} : pc[g] = "stream"} IN
          mixed' = IF others = {} THEN mixed ELSE mixed \cup others \cup {h}
    /\ pc' = [pc EXCEPT ![h] = "stream"]
    /\ UNCHANGED <<given, newConf, running, target, rows, bytes, ans, history>>

\* The last byte is written and the file cut to its length; of two copies at
\* once each may have written any part of it.
CopyEnds(h) ==
    /\ pc[h] = "stream"
    /\ \E c \in Content :
          /\ \/ c = bytes[h]
             \/ h \in mixed /\ (c = conf["slave"] \/ c = Torn(c.length))
          /\ conf' = [conf EXCEPT !["slave"] = c]
    /\ mixed' = mixed \ {h}
    /\ bytes' = [bytes EXCEPT ![h] = Nothing]
    /\ pc' = [pc EXCEPT ![h] = "restart"]
    /\ UNCHANGED <<given, newConf, running, target, rows, ans, history>>

\* The slave cannot be reached, or not written, or the connection breaks.
CopyFails(h) ==
    /\ pc[h] \in {"read", "copy", "stream"}
    /\ target[h] = "slave"
    /\ Answers(h, "failed")
    /\ UNCHANGED <<given, files, running, tidy>>

\* The session has started before the goroutine that writes to it asked for its
\* input, so the input is at its end: scp finds nothing to do, which it calls a
\* success, and HAProxy is restarted with the file as it is.  (The goroutine is
\* refused the pipe and panics: a Crash then comes, sooner or later.)
CopyWithoutInput(h) ==
    /\ pc[h] = "copy"
    /\ copyMethod = 1
    /\ bytes' = [bytes EXCEPT ![h] = Nothing]
    /\ pc' = [pc EXCEPT ![h] = "restart"]
    /\ Ignores(h, {conf["slave"]})
    /\ tidy' = FALSE
    /\ UNCHANGED <<given, files, running, target, rows, ans, mixed, alone,
                   lists>>

\* The restart script starts HAProxy with the configuration it finds; the new
\* process makes the old one go (haproxy -st).  There is nothing to start with
\* an empty file.
Restart(h) ==
    /\ pc[h] = "restart"
    /\ conf[target[h]].length > 0
    /\ running' = [running EXCEPT ![target[h]] = conf[target[h]]]
    /\ Answers(h, "applied")
    /\ UNCHANGED <<given, files, tidy>>

\* The script fails, and the old process goes on; or only its outcome is lost
\* with the connection to the slave.
RestartFails(h) ==
    /\ pc[h] = "restart"
    /\ \/ UNCHANGED running
       \/ /\ target[h] = "slave"
          /\ conf["slave"].length > 0
          /\ running' = [running EXCEPT !["slave"] = conf["slave"]]
    /\ Answers(h, "failed")
    /\ UNCHANGED <<given, files, tidy>>

\* The console dies and is started again; the files and HAProxy stay.  A script
\* or copy that outlives it is one whose step comes before the crash.
Crash ==
    /\ pc' = [h \in Handler |-> "idle"]
    /\ target' = [h \in Handler |-> "master"]
    /\ rows' = [h \in Handler |-> {}]
    /\ bytes' = [h \in Handler |-> Nothing]
    /\ ans' = [h \in Handler |-> "none"]
    /\ mixed' = {}
    /\ alone' = [h \in Handler |-> FALSE]
    /\ lists' = [h \in Handler |-> {}]
    /\ ignored' = [h \in Handler |-> {}]
    /\ UNCHANGED <<given, files, running, tidy>>

Rebuild(h) ==
    \/ ReadCommon(h) \/ ReadCommonFails(h) \/ Query(h) \/ QueryDisturbed(h)
    \/ Open(h) \/ OpenFails(h) \/ Write(h) \/ WriteShort(h)

Transfer(h) ==
    \/ ReadBack(h) \/ ReadBackFails(h) \/ OpenConf(h) \/ OpenConfFails(h)
    \/ WriteConf(h) \/ WriteConfShort(h)
    \/ Copy(h) \/ CopyEnds(h) \/ CopyFails(h) \/ CopyWithoutInput(h)

Serve(h) ==
    Rebuild(h) \/ Transfer(h) \/ Restart(h) \/ RestartFails(h)

Next == ChangeTasks \/ Crash \/ \E h \in Handler : Arrive(h) \/ Serve(h)

Spec == Init /\ [][Next]_vars

-----------------------------------------------------------------------------
\* The request is being answered with success.
Succeeds(h) == ans[h] # ans'[h] /\ ans'[h] = "applied"

\* HAProxy now runs c, and its file says the same.
PutsInForce(h, c) == running'[target[h]] = c /\ conf'[target[h]] = c

\* HAProxy now runs the tasks as they were at some moment of the request.
Applied(h) == \E S \in lists[h] : PutsInForce(h, Conf(S))

\* HAProxy now runs what a failure of the request, that went unnoticed, left in
\* the place of the new configuration: one that it failed to replace, one that
\* names no task because nothing came of the query, or one written in part.
Accounted(h) == \E c \in ignored[h] : PutsInForce(h, c)

\* A request that no other deployment overlaps is answered with success only
\* when HAProxy runs the tasks as they were during the request, or what one of
\* its own unnoticed failures accounts for: what overlapping, failed or
\* interrupted deployments left in the three files before does not show, unless
\* a failure kept it from being replaced.
IsolatedApplies ==
    [][\A h \in Handler : Succeeds(h) /\ Deploys(h) /\ alone[h] =>
        Applied(h) \/ Accounted(h)]_vars

\* As long as deployments do not overlap, and none takes for whole a file that
\* it read or wrote only in part or a copy that had no input, no HAProxy runs a
\* configuration in part and the master's file holds a whole one or nothing:
\* wherever the console was stopped, whatever file could not be opened, and
\* wherever a copy broke off (which leaves a part in the slave's file).
NotTorn ==
    tidy => /\ \A t \in Target : running[t].whole
            /\ conf["master"].whole \/ conf["master"] = Nothing

\* applyConf's message of success (main.go:444) is true of every request in
\* which nothing failed (README: not when deployments overlap).
DeployedIsApplied ==
    [][\A h \in Handler :
        Succeeds(h) /\ Deploys(h) /\ ignored[h] = {} => Applied(h)]_vars
=============================================================================
