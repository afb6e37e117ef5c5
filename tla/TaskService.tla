---------------------------- MODULE TaskService ----------------------------
(***************************************************************************)
(* What the console promises its users: a list of tasks on which every     *)
(* request takes effect at one instant between its arrival and its answer. *)
(* The handlers and the store that FileStore details have to look like     *)
(* this from outside.                                                      *)
(***************************************************************************)
EXTENDS TaskData

CONSTANTS
    Handler,        \* goroutines of net/http, each serving one request
    Requests,       \* the requests that users send
    Stored,         \* the lists of tasks the store may hold at start
    MaxArrivals     \* bound: how many requests arrive in a behaviour

ASSUME ServiceAssumption ==
    /\ Requests \subseteq Request
    /\ \A rows \in Stored : StoredList(rows)
    /\ MaxArrivals \in Nat

VARIABLES
    tasks,      \* the stored tasks
    phase,      \* of each handler: "idle", "pending" or "done"
    req,        \* the request each handler serves
    ans,        \* the answer each handler has ready
    arrived     \* number of requests that have arrived

vars == <<tasks, phase, req, ans, arrived>>

TypeOK ==
    /\ tasks \subseteq Row
    /\ IsFiniteSet(tasks)
    /\ phase \in [Handler -> {"idle", "pending", "done"}]
    /\ req \in [Handler -> Request]
    /\ ans \in [Handler -> Answer]
    /\ arrived \in 0..MaxArrivals

Init ==
    /\ tasks \in Stored
    /\ phase = [h \in Handler |-> "idle"]
    /\ req = [h \in Handler |-> NoRequest]
    /\ ans = [h \in Handler |-> NoAnswer]
    /\ arrived = 0

Arrive(h) ==
    /\ phase[h] = "idle"
    /\ arrived < MaxArrivals
    /\ \E r \in Requests : req' = [req EXCEPT ![h] = r]
    /\ phase' = [phase EXCEPT ![h] = "pending"]
    /\ arrived' = arrived + 1
    /\ UNCHANGED <<tasks, ans>>

Execute(h) ==
    /\ phase[h] = "pending"
    /\ tasks' = Effect(req[h], tasks)
    /\ ans' = [ans EXCEPT ![h] = Reply(req[h], tasks)]
    /\ phase' = [phase EXCEPT ![h] = "done"]
    /\ UNCHANGED <<req, arrived>>

Send(h) ==
    /\ phase[h] = "done"
    /\ phase' = [phase EXCEPT ![h] = "idle"]
    /\ req' = [req EXCEPT ![h] = NoRequest]
    /\ ans' = [ans EXCEPT ![h] = NoAnswer]
    /\ UNCHANGED <<tasks, arrived>>

Next == \E h \in Handler : Arrive(h) \/ Execute(h) \/ Send(h)

Spec == Init /\ [][Next]_vars

-----------------------------------------------------------------------------
\* No port is assigned to two tasks, and no id names two tasks: neither the
\* automatic search, nor the check of a port asked for by number, nor the
\* reuse of the ids of deleted tasks ever gives out one that is in use.
TasksDistinct == UniqueIds(tasks) /\ UniquePorts(tasks)

\* The port of an automatic request lies in the range of its business and was
\* free, and every lower port of the range was taken (autoAssignPort is a first
\* fit that never skips a gap left by a deleted task).
AutoIsFirstFit ==
    [][\A h \in Handler :
        LET range == PortRange[req[h].business]
            port == ans'[h].port
        IN  ans[h] # ans'[h] /\ req[h].op = "auto" /\ ans'[h].status = "assigned"
            => /\ port \in (range[1]..range[2]) \ VPorts(tasks)
               /\ range[1]..(port - 1) \subseteq VPorts(tasks)]_vars

\* A step that is not a deletion loses no task, and no step moves a task to
\* another port: what a user has put into the configuration of others stays
\* where it was.
TasksKeepTheirPort ==
    [][\A t \in tasks :
        \/ \E u \in tasks' : u.id = t.id /\ u.vport = t.vport
        \/ /\ \A u \in tasks' : u.id # t.id
           /\ \E h \in Handler : /\ phase[h] = "pending" /\ phase'[h] = "done"
                                 /\ req[h].op = "delete" /\ req[h].id = t.id]_vars

\* An automatic request is turned away only when the ports of its business are
\* used up but for the last one, which the search leaves out.
ExhaustedIsNearlyFull ==
    [][\A h \in Handler :
        LET range == PortRange[req[h].business]
        IN  ans[h] # ans'[h] /\ req[h].op = "auto" /\ ans'[h].status = "exhausted"
            => /\ range[1]..(range[2] - 1) \subseteq VPorts(tasks)
               /\ \E p \in VPorts(tasks) : p >= range[2]]_vars

\* autoAssignPort's comment: no port is available only when every port from
\* firstPort to lastPort is assigned.  The code refuses earlier (see README).
ExhaustedMeansFull ==
    [][\A h \in Handler :
        LET range == PortRange[req[h].business]
        IN  ans[h] # ans'[h] /\ req[h].op = "auto" /\ ans'[h].status = "exhausted"
            => range[1]..range[2] \subseteq VPorts(tasks)]_vars
=============================================================================
