----------------------------- MODULE FileStore -----------------------------
(***************************************************************************)
(* The request handlers of main.go over the file store of applicationDB.go:*)
(* one json file, opened once, whose file offset every handler shares, and *)
(* no lock anywhere.  net/http serves each request in a goroutine, so the  *)
(* system calls of several requests mix freely: seek, read until the end of*)
(* the file, seek again and, for a request that modifies, truncate and     *)
(* write.  An application for a port reads twice, once to choose the port  *)
(* (QueryVPort) and once to append the row (InsertNewTask).                *)
(*                                                                         *)
(* A file is its length and the tasks that a read of the whole of it       *)
(* decodes to.  A document's length counts its tasks.  Bytes that are not  *)
(* one whole document do not decode, and the code treats them as no tasks: *)
(* the readers drop json's error or only log it.                           *)
(***************************************************************************)
EXTENDS TaskData

CONSTANTS
    Handler,        \* goroutines of net/http, each serving one request
    Requests,       \* the requests that users send
    Stored,         \* the lists of tasks the file may hold at start
    MaxArrivals     \* bound: how many requests arrive in a behaviour

ASSUME StoreAssumption ==
    /\ Requests \subseteq Request
    /\ \A doc \in Stored : StoredList(doc)
    /\ MaxArrivals \in Nat

VARIABLES
    file,       \* [length, tasks] of the file
    offset,     \* the file offset shared by all handlers
    pc,         \* the system call each handler makes next
    req,        \* the request each handler serves
    started,    \* TRUE once the handler's current read returned some bytes
    rows,       \* the tasks that the bytes it read decode to
    vport,      \* the port applyVPort chose; NoPort before it has
    ans,        \* the answer each handler has ready
    arrived,    \* number of requests that have arrived
    alone,      \* history: no other handler used the store with this one
    before      \* history: the stored tasks when the request arrived

store == <<file, offset>>
local == <<pc, req, started, rows, vport, ans>>
history == <<arrived, alone, before>>
vars == <<file, offset, pc, req, started, rows, vport, ans, arrived, alone,
          before>>

Step == {"idle", "seek", "read", "rewind", "truncate", "write", "done"}

Length(doc) == Cardinality(doc) + 1
Document(doc) == [length |-> Length(doc), tasks |-> doc]
EmptyFile == [length |-> 0, tasks |-> {}]

\* Write of a document at an offset: only a write at the start that covers
\* what was there leaves a document.
Overwrite(f, at, doc) ==
    [length |-> Greatest({f.length, at + Length(doc)}),
     tasks |-> IF at = 0 /\ f.length <= Length(doc) THEN doc ELSE {}]

\* A handler is between the first and the last use it makes of the store.
InStore(h) == pc[h] \notin {"idle", "done"}

TypeOK ==
    /\ file \in [length : Nat, tasks : SUBSET Row]
    /\ IsFiniteSet(file.tasks)
    /\ offset \in Nat
    /\ pc \in [Handler -> Step]
    /\ req \in [Handler -> Request]
    /\ started \in [Handler -> BOOLEAN]
    /\ rows \in [Handler -> SUBSET Row]
    /\ \A h \in Handler : IsFiniteSet(rows[h])
    /\ vport \in [Handler -> Port \cup {NoPort}]
    /\ ans \in [Handler -> Answer]
    /\ arrived \in 0..MaxArrivals
    /\ alone \in [Handler -> BOOLEAN]
    /\ before \in [Handler -> SUBSET Row]

\* The file is created empty when it does not exist.
Init ==
    /\ file \in {Document(doc) : doc \in Stored} \cup {EmptyFile}
    /\ offset = 0
    /\ pc = [h \in Handler |-> "idle"]
    /\ req = [h \in Handler |-> NoRequest]
    /\ started = [h \in Handler |-> FALSE]
    /\ rows = [h \in Handler |-> {}]
    /\ vport = [h \in Handler |-> NoPort]
    /\ ans = [h \in Handler |-> NoAnswer]
    /\ arrived = 0
    /\ alone = [h \in Handler |-> FALSE]
    /\ before = [h \in Handler |-> {}]

-----------------------------------------------------------------------------
(* A request arrives and gets a goroutine. *)
Arrive(h) ==
    /\ pc[h] = "idle"
    /\ arrived < MaxArrivals
    /\ \E r \in Requests : req' = [req EXCEPT ![h] = r]
    /\ pc' = [pc EXCEPT ![h] = "seek"]
    /\ arrived' = arrived + 1
    /\ alone' = [g \in Handler |->
                    IF g = h THEN \A k \in Handler : ~InStore(k)
                    ELSE alone[g] /\ ~InStore(g)]
    /\ before' = [before EXCEPT ![h] = file.tasks]
    /\ UNCHANGED <<store, started, rows, vport, ans>>

(* readJson. *)

\* Mutant: the read starts wherever the last request left the offset.
Seek_KeepsOffset(h) ==
    /\ pc[h] = "seek"
    /\ started' = [started EXCEPT ![h] = FALSE]
    /\ rows' = [rows EXCEPT ![h] = {}]
    /\ pc' = [pc EXCEPT ![h] = "read"]
    /\ UNCHANGED <<store, req, vport, ans, history>>

\* f.F.Seek(0, 0), and the buffer of readAll made.
Seek(h) ==
    /\ pc[h] = "seek"
    /\ offset' = 0
    /\ started' = [started EXCEPT ![h] = FALSE]
    /\ rows' = [rows EXCEPT ![h] = {}]
    /\ pc' = [pc EXCEPT ![h] = "read"]
    /\ UNCHANGED <<file, req, vport, ans, history>>

\* A read that returns bytes takes everything up to the end of the file, and
\* readAll reads again.  The bytes are a document only when they are the whole
\* file and the first bytes read.
Read(h) ==
    /\ pc[h] = "read"
    /\ offset < file.length
    /\ offset' = file.length
    /\ started' = [started EXCEPT ![h] = TRUE]
    /\ rows' = [rows EXCEPT ![h] =
                    IF offset = 0 /\ ~started[h] THEN file.tasks ELSE {}]
    /\ UNCHANGED <<file, pc, req, vport, ans, history>>

\* Mutant: a read that found nothing starts over.
ReadEnd_RetriesEmpty(h) ==
    /\ pc[h] = "read"
    /\ offset >= file.length
    /\ pc' = [pc EXCEPT ![h] = IF started[h] THEN "rewind" ELSE "seek"]
    /\ UNCHANGED <<store, req, started, rows, vport, ans, history>>

\* A read at or beyond the end of the file ends readAll.
ReadEnd(h) ==
    /\ pc[h] = "read"
    /\ offset >= file.length
    /\ pc' = [pc EXCEPT ![h] = "rewind"]
    /\ UNCHANGED <<store, req, started, rows, vport, ans, history>>

(* The second f.F.Seek(0, 0), json.Unmarshal, and what the caller does with *)
(* the rows up to its next system call.                                     *)

\* getListenList has its rows.
RewindList(h) ==
    /\ pc[h] = "rewind"
    /\ req[h].op = "list"
    /\ offset' = 0
    /\ ans' = [ans EXCEPT ![h] = Listed(rows[h])]
    /\ pc' = [pc EXCEPT ![h] = "done"]
    /\ UNCHANGED <<file, req, started, rows, vport, history>>

\* applyVPort has the assigned ports: it refuses, or calls InsertNewTask.
RewindQuery(h) ==
    LET port == VPortToAssign(req[h], VPorts(rows[h]))
    IN  /\ pc[h] = "rewind"
        /\ Applies(req[h])
        /\ vport[h] = NoPort
        /\ offset' = 0
        /\ vport' = [vport EXCEPT ![h] = port]
        /\ IF port = NoPort
           THEN /\ pc' = [pc EXCEPT ![h] = "done"]
                /\ ans' = [ans EXCEPT ![h] = Refused(req[h])]
           ELSE /\ pc' = [pc EXCEPT ![h] = "seek"]
                /\ UNCHANGED ans
        /\ UNCHANGED <<file, req, started, rows, history>>

\* Mutant: the offset is not set back before the write.
RewindModify_KeepsOffset(h) ==
    /\ pc[h] = "rewind"
    /\ \/ req[h].op \in {"delete", "edit"}
       \/ Applies(req[h]) /\ vport[h] # NoPort
    /\ rows' = [rows EXCEPT ![h] = Change(req[h], vport[h], rows[h])]
    /\ pc' = [pc EXCEPT ![h] = "truncate"]
    /\ UNCHANGED <<store, req, started, vport, ans, history>>

\* Mutant: the file is truncated before the new rows are computed.
RewindModify_Truncates(h) ==
    /\ pc[h] = "rewind"
    /\ \/ req[h].op \in {"delete", "edit"}
       \/ Applies(req[h]) /\ vport[h] # NoPort
    /\ offset' = 0
    /\ file' = EmptyFile
    /\ rows' = [rows EXCEPT ![h] = Change(req[h], vport[h], rows[h])]
    /\ pc' = [pc EXCEPT ![h] = "truncate"]
    /\ UNCHANGED <<req, started, vport, ans, history>>

\* InsertNewTask, DeleteTask or UpdateTaskInfo computes the new rows.
RewindModify(h) ==
    /\ pc[h] = "rewind"
    /\ \/ req[h].op \in {"delete", "edit"}
       \/ Applies(req[h]) /\ vport[h] # NoPort
    /\ offset' = 0
    /\ rows' = [rows EXCEPT ![h] = Change(req[h], vport[h], rows[h])]
    /\ pc' = [pc EXCEPT ![h] = "truncate"]
    /\ UNCHANGED <<file, req, started, vport, ans, history>>

(* f.F.Truncate(0) leaves the offset where it is. *)
Truncate(h) ==
    /\ pc[h] = "truncate"
    /\ file' = EmptyFile
    /\ pc' = [pc EXCEPT ![h] = "write"]
    /\ UNCHANGED <<offset, req, started, rows, vport, ans, history>>

(* f.F.Write at the shared offset, f.F.Sync, and the answer. *)
Write(h) ==
    /\ pc[h] = "write"
    /\ file' = Overwrite(file, offset, rows[h])
    /\ offset' = offset + Length(rows[h])
    /\ ans' = [ans EXCEPT ![h] = Accepted(req[h], vport[h])]
    /\ pc' = [pc EXCEPT ![h] = "done"]
    /\ UNCHANGED <<req, started, rows, vport, history>>

(* The answer goes out and the goroutine ends. *)
Send(h) ==
    /\ pc[h] = "done"
    /\ pc' = [pc EXCEPT ![h] = "idle"]
    /\ req' = [req EXCEPT ![h] = NoRequest]
    /\ started' = [started EXCEPT ![h] = FALSE]
    /\ rows' = [rows EXCEPT ![h] = {}]
    /\ vport' = [vport EXCEPT ![h] = NoPort]
    /\ ans' = [ans EXCEPT ![h] = NoAnswer]
    /\ alone' = [alone EXCEPT ![h] = FALSE]
    /\ before' = [before EXCEPT ![h] = {}]
    /\ UNCHANGED <<store, arrived>>

\* The process dies and is started again: the file stays and is opened anew.
Crash ==
    /\ offset' = 0
    /\ pc' = [h \in Handler |-> "idle"]
    /\ req' = [h \in Handler |-> NoRequest]
    /\ started' = [h \in Handler |-> FALSE]
    /\ rows' = [h \in Handler |-> {}]
    /\ vport' = [h \in Handler |-> NoPort]
    /\ ans' = [h \in Handler |-> NoAnswer]
    /\ alone' = [h \in Handler |-> FALSE]
    /\ before' = [h \in Handler |-> {}]
    /\ UNCHANGED <<file, arrived>>

Serve(h) ==
    \/ Seek(h) \/ Read(h) \/ ReadEnd(h)
    \/ RewindList(h) \/ RewindQuery(h) \/ RewindModify(h)
    \/ Truncate(h) \/ Write(h) \/ Send(h)

Next == Crash \/ \E h \in Handler : Arrive(h) \/ Serve(h)

Spec == Init /\ [][Next]_vars

\* The Go scheduler runs every goroutine that can run; nothing makes users
\* send requests or the process crash.
FairSpec == Spec /\ \A h \in Handler : WF_vars(Serve(h))

\* The same program when users wait for each other and the process stays up.
SerialNext ==
    \E h \in Handler :
        \/ Arrive(h) /\ \A g \in Handler : ~InStore(g)
        \/ Serve(h)

SerialSpec == Init /\ [][SerialNext]_vars

-----------------------------------------------------------------------------
(* What holds whatever mixes. *)

\* No id ever names two tasks, in the file or in what a handler is about to
\* write, however reads and writes of the handlers fall between each other:
\* InsertNewTask gives an id above those of the rows it writes back.
IdsDistinct ==
    /\ UniqueIds(file.tasks)
    /\ \A h \in Handler : UniqueIds(rows[h])

\* The handler is the only one using the store since its request arrived.
Isolated(h) == alone[h] /\ InStore(h)

\* A request that has the store to itself changes it as the request alone
\* would, whatever earlier requests or a restart have left in the file and at
\* whatever offset; the answer is about the tasks that were there when the
\* request arrived, and an application inserts the port chosen from them.
IsolatedIsAtomic ==
    [][\A h \in Handler :
        Isolated(h) /\ pc'[h] = "done"
            => /\ file'.tasks = Effect(req[h], before[h])
               /\ ans'[h] = Reply(req[h], before[h])]_vars

\* A crash while one request has the store to itself costs nothing, except
\* between Truncate and Write, where it costs every task.
IsolatedCrashWindow ==
    \A h \in Handler :
        Isolated(h) /\ pc[h] # "write" => file.tasks = before[h]

\* Reads that raced with writers leave a file of a document or of rubbish, but
\* never an offset or a handler that keeps the console from answering: once no
\* new request arrives, every request is answered (or dies with the process).
Answered == \A h \in Handler : pc[h] # "idle" ~> pc[h] = "idle"

-----------------------------------------------------------------------------
(* Requests one at a time: the program implements TaskService. *)

\* The tasks of a request between Truncate and Write are those it will write
\* instead of; the request has its effect when it is written.
StoredTasks ==
    IF \E h \in Handler : pc[h] = "write"
    THEN before[CHOOSE h \in Handler : pc[h] = "write"]
    ELSE file.tasks

Phase(h) ==
    IF pc[h] \in {"idle", "done"} THEN pc[h] ELSE "pending"

Service == INSTANCE TaskService
    WITH tasks <- StoredTasks, phase <- [h \in Handler |-> Phase(h)],
         Stored <- Stored \cup {{}}

\* When users wait for each other the handlers and the file look like a list
\* of tasks on which each request takes effect at once.
ImplementsService == Service!Spec

-----------------------------------------------------------------------------
(* What the code's comments say and concurrent requests break (README). *)

\* applicationDB.go:204 has InsertNewTask insert a row: the tasks that were
\* stored when the request arrived are still there when it is answered.  (For
\* a run without requests that delete or edit.)
InsertOnlyAdds ==
    [][\A h \in Handler :
        Applies(req[h]) /\ pc[h] = "write" /\ pc'[h] = "done"
            => before[h] \subseteq file'.tasks]_vars
=============================================================================
