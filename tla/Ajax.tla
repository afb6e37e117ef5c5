-------------------------------- MODULE Ajax --------------------------------
(***************************************************************************)
(* jQuery.ajax (jquery-1.7.2.js): requests of one page, from the call to   *)
(* the last callback.  Each request can be settled from four sides, by its *)
(* answer, its timeout, a script that aborts it and a failure to send it,  *)
(* and runs functions of scripts at eight points, in each of which other   *)
(* requests may be made and any request aborted.                           *)
(*                                                                         *)
(* A request's Deferred and its list of functions for completion are taken *)
(* as Callbacks shows them to be: fired the first time only, all functions *)
(* in a row.  Left out: urls, headers, data, caching, and prefilters that  *)
(* abort; the conversion of answers is in Conversion.                      *)
(***************************************************************************)
EXTENDS Integers, FiniteSets, Sequences, SequencesExt

CONSTANTS
    Req,        \* requests that scripts make
    MaxAborts   \* bound: abort() called by scripts

ASSUME AjaxAssumption == IsFiniteSet(Req) /\ MaxAborts \in Nat

VARIABLES
    setting,    \* of each request, what its options say
    state,      \* "unused", or the variable state: 0, 1 for sent, 2 for done
    transport,  \* the variable transport holds one
    link,       \* what that has with the network: "none", "listening", "closed"
    timer,      \* the timeout is set
    active,     \* jQuery.active
    stack,      \* functions of scripts that are running, the last one called
                \* by jQuery from the one before
    settled,    \* outcome the Deferred has, or "pending"
    completed,  \* the functions for completion have been called
    log,        \* the functions called at the end of each request (not of the
                \* code)
    pages,      \* ajaxStart and ajaxStop as triggered (not of the code)
    aborts, threw, abortedInSend    \* (not of the code)

requestVars == <<setting, state, transport, link, timer, settled, completed>>
ajaxVars == <<requestVars, active, stack, log, pages, aborts, threw, abortedInSend>>

\* "none": no transport for the type.  A script element tells nothing when it
\* cannot be loaded.  It is only used asynchronously and without global events.
Settings ==
    {s \in [via : {"xhr", "script", "none"}, async : BOOLEAN, timed : BOOLEAN,
            global : BOOLEAN] :
        /\ s.via = "script" => s.async /\ ~s.global
        /\ s.via = "none" => s.async /\ ~s.timed}

\* Where a function of a script could run, if the request did not keep its
\* events to itself.
Silent == "send"

AjaxInit ==
    /\ setting \in [Req -> Settings]
    /\ state = [r \in Req |-> "unused"]
    /\ transport = [r \in Req |-> FALSE] /\ link = [r \in Req |-> "none"]
    /\ timer = [r \in Req |-> FALSE]
    /\ active = 0 /\ stack = <<>>
    /\ settled = [r \in Req |-> "pending"] /\ completed = [r \in Req |-> FALSE]
    /\ log = [r \in Req |-> <<>>] /\ pages = <<>>
    /\ aborts = 0 /\ threw = FALSE /\ abortedInSend = {}

-----------------------------------------------------------------------------
(* The points at which jQuery calls functions of scripts. *)

\* Those that tell how a request ended.
EndPoints == {"callbacks", "ended", "complete", "ajaxComplete"}

Enter(below, r, at) ==
    /\ stack' = Append(below, [req |-> r, at |-> at])
    /\ log' = IF at \in EndPoints THEN [log EXCEPT ![r] = Append(@, at)] ELSE log
    /\ pages' = IF at \in {"ajaxStart", "ajaxStop"} THEN Append(pages, at) ELSE pages

Leave(below) == stack' = below /\ UNCHANGED <<log, pages>>

\* done(), from its second line to the first function it calls, over the stack
\* below.  Of a request that is settled only the global events are repeated.
Finish(below, r, outcome) ==
    /\ state' = [state EXCEPT ![r] = "2"]
    /\ timer' = [timer EXCEPT ![r] = FALSE]
    /\ transport' = [transport EXCEPT ![r] = FALSE]
    /\ IF settled[r] = "pending"
       THEN /\ settled' = [settled EXCEPT ![r] = outcome]
            /\ Enter(below, r, "callbacks")
       ELSE /\ UNCHANGED settled
            /\ IF setting[r].global THEN Enter(below, r, "ended") ELSE Leave(below)
    /\ UNCHANGED <<setting, completed, active>>

\* Mutant: done() may run again.
Done_Again(below, r, outcome) == Finish(below, r, outcome)

Done(below, r, outcome) ==
    IF state[r] = "2"
    THEN /\ Leave(below)
         /\ UNCHANGED <<setting, state, timer, transport, settled, completed, active>>
    ELSE Finish(below, r, outcome)

\* jqXHR.abort
AbortRequest(below, r, outcome) ==
    /\ link' = [link EXCEPT ![r] = IF transport[r] THEN "closed" ELSE @]
    /\ Done(below, r, outcome)

-----------------------------------------------------------------------------
(* Scripts: between events, or in a function that jQuery has called. *)

AjaxScriptRuns == stack # <<>> => Last(stack).at # Silent

\* ajax(), up to the first function it calls.
Request(r) ==
    /\ AjaxScriptRuns
    /\ state[r] = "unused"
    /\ state' = [state EXCEPT ![r] = "0"]
    /\ active' = IF setting[r].global THEN active + 1 ELSE active
    /\ Enter(stack, r, IF setting[r].global /\ active = 0
                       THEN "ajaxStart" ELSE "beforeSend")
    /\ UNCHANGED <<setting, transport, link, timer, settled, completed, aborts,
                   threw, abortedInSend>>

\* The functions for ajaxStart do not get the jqXHR.
Known(r) ==
    /\ state[r] # "unused"
    /\ \A i \in DOMAIN stack : stack[i] # [req |-> r, at |-> "ajaxStart"]

Abort(r) ==
    /\ AjaxScriptRuns /\ Known(r) /\ aborts < MaxAborts
    /\ aborts' = aborts + 1
    /\ abortedInSend' = IF transport[r] /\ state[r] = "0"
                        THEN abortedInSend \cup {r} ELSE abortedInSend
    /\ AbortRequest(stack, r, "abort")
    /\ UNCHANGED threw

\* No try is around it that would not throw it on.
AjaxThrow ==
    /\ stack # <<>> /\ AjaxScriptRuns
    /\ stack' = <<>> /\ threw' = TRUE
    /\ UNCHANGED <<requestVars, active, log, pages, aborts, abortedInSend>>

-----------------------------------------------------------------------------
(* What jQuery goes on with when a function of a script returns. *)

Top == Last(stack)
Below == Front(stack)
Returns(at) == stack # <<>> /\ Top.at = at /\ UNCHANGED <<aborts, threw, abortedInSend>>

AfterStart ==
    /\ Returns("ajaxStart")
    /\ Enter(Below, Top.req, "beforeSend")
    /\ UNCHANGED <<requestVars, active>>

\* beforeSend returned false, or aborted the request.
Veto ==
    /\ Returns("beforeSend")
    /\ AbortRequest(Below, Top.req, "abort")

\* The transport is chosen, and ajaxSend triggered if anybody may know.
AfterBeforeSend ==
    /\ Returns("beforeSend")
    /\ state[Top.req] = "0"
    /\ IF setting[Top.req].via = "none"
       THEN Done(Below, Top.req, "error") /\ UNCHANGED link
       ELSE /\ transport' = [transport EXCEPT ![Top.req] = TRUE]
            /\ Enter(Below, Top.req, IF setting[Top.req].global THEN "ajaxSend" ELSE Silent)
            /\ UNCHANGED <<setting, state, link, timer, settled, completed, active>>

ReturnsToSend == Returns("ajaxSend") \/ Returns(Silent)

\* Sent, and nothing has come back yet.
Send ==
    /\ ReturnsToSend /\ transport[Top.req] /\ setting[Top.req].async
    /\ state' = [state EXCEPT ![Top.req] = "1"]
    /\ timer' = [timer EXCEPT ![Top.req] = setting[Top.req].timed]
    /\ link' = [link EXCEPT ![Top.req] = "listening"]
    /\ Leave(Below)
    /\ UNCHANGED <<setting, transport, settled, completed, active>>

\* A synchronous request has its answer before send returns.
SendAndWait ==
    /\ ReturnsToSend /\ transport[Top.req] /\ ~setting[Top.req].async
    /\ link' = [link EXCEPT ![Top.req] = "closed"]
    /\ \E outcome \in {"success", "error"} : Done(Below, Top.req, outcome)

\* send throws, which it does in any case when there is no transport any more:
\* state was set to 1 before, so that done() runs, for the second time then.
SendThrows ==
    /\ ReturnsToSend
    /\ setting[Top.req].via = "xhr" \/ ~transport[Top.req]
    /\ Finish(Below, Top.req, "error")
    /\ UNCHANGED link

AfterCallbacks ==
    /\ Returns("callbacks")
    /\ IF setting[Top.req].global
       THEN Enter(Below, Top.req, "ended") /\ UNCHANGED completed
       ELSE /\ Enter(Below, Top.req, "complete")
            /\ completed' = [completed EXCEPT ![Top.req] = TRUE]
    /\ UNCHANGED <<setting, state, transport, link, timer, settled, active>>

\* After ajaxSuccess or ajaxError.
AfterEnded ==
    /\ Returns("ended")
    /\ Enter(Below, Top.req, IF completed[Top.req] THEN "ajaxComplete" ELSE "complete")
    /\ completed' = [completed EXCEPT ![Top.req] = TRUE]
    /\ UNCHANGED <<setting, state, transport, link, timer, settled, active>>

AfterComplete ==
    /\ Returns("complete")
    /\ IF setting[Top.req].global THEN Enter(Below, Top.req, "ajaxComplete")
       ELSE Leave(Below)
    /\ UNCHANGED <<requestVars, active>>

\* Mutant: one request of several that ends stops them all.
AfterAjaxComplete_Stops ==
    /\ Returns("ajaxComplete")
    /\ active' = active - 1
    /\ Enter(Below, Top.req, "ajaxStop")
    /\ UNCHANGED requestVars

AfterAjaxComplete ==
    /\ Returns("ajaxComplete")
    /\ active' = active - 1
    /\ IF active = 1 THEN Enter(Below, Top.req, "ajaxStop") ELSE Leave(Below)
    /\ UNCHANGED requestVars

AfterStop ==
    /\ Returns("ajaxStop")
    /\ Leave(Below)
    /\ UNCHANGED <<requestVars, active>>

AjaxReturn ==
    \/ AfterStart \/ Veto \/ AfterBeforeSend \/ Send \/ SendAndWait \/ SendThrows
    \/ AfterCallbacks \/ AfterEnded \/ AfterComplete \/ AfterAjaxComplete \/ AfterStop

-----------------------------------------------------------------------------
(* Events, which wait until no script runs. *)

Answer(r) ==
    /\ stack = <<>> /\ link[r] = "listening"
    /\ link' = [link EXCEPT ![r] = "closed"]
    /\ \E outcome \in {"success", "error"} : Done(stack, r, outcome)
    /\ UNCHANGED <<aborts, threw, abortedInSend>>

\* Mutant: the transport is aborted, and nobody told.
Timeout_OnlyAborts(r) ==
    /\ stack = <<>> /\ timer[r]
    /\ timer' = [timer EXCEPT ![r] = FALSE] /\ link' = [link EXCEPT ![r] = "closed"]
    /\ UNCHANGED <<setting, state, transport, settled, completed>>
    /\ UNCHANGED <<active, stack, log, pages, aborts, threw, abortedInSend>>

Timeout(r) ==
    /\ stack = <<>> /\ timer[r]
    /\ AbortRequest(stack, r, "timeout")
    /\ UNCHANGED <<aborts, threw, abortedInSend>>

AjaxNext ==
    \/ \E r \in Req : Request(r) \/ Abort(r) \/ Answer(r) \/ Timeout(r)
    \/ AjaxReturn \/ AjaxThrow

\* Functions of scripts return or throw, and timers go off.
AjaxFairness == WF_ajaxVars(AjaxReturn) /\ \A r \in Req : WF_ajaxVars(Timeout(r))

AjaxSpec == AjaxInit /\ [][AjaxNext]_ajaxVars /\ AjaxFairness

-----------------------------------------------------------------------------
(* A request that is aborted in a function for ajaxSend ends twice. *)

Regular == ~threw /\ abortedInSend = {}

\* Requests that ajaxStart has told of, and whose end is not through.
UnderWay ==
    {r \in Req : /\ setting[r].global /\ state[r] # "unused"
                 /\ \/ "ajaxComplete" \notin ToSet(log[r])
                    \/ [req |-> r, at |-> "ajaxComplete"] \in ToSet(stack)}

\* jQuery.active counts the requests that are under way.
ActiveCounts == active = Cardinality(UnderWay)

\* Whatever requests are started and aborted inside the callbacks of others,
\* the count is right, ajaxStart and ajaxStop take turns, and when no script runs
\* the last one was ajaxStart exactly if a request is under way.
StartsAndStops ==
    Regular =>
        /\ ActiveCounts
        /\ \A i \in DOMAIN pages : pages[i] = IF i % 2 = 1 THEN "ajaxStart" ELSE "ajaxStop"
        /\ stack = <<>> =>
              (Len(pages) % 2 = 1 <=>
                  \E r \in Req : setting[r].global /\ state[r] \in {"0", "1"})

\* An answer that races a timeout or an abort, and an abort inside any of the
\* request's own callbacks: functions are called for one outcome, in order,
\* each once, and a request that has ended has no timer and no transport left.
EndsInOrder ==
    \A r \in Req \ abortedInSend :
        /\ IsPrefix(log[r], IF setting[r].global
                            THEN <<"callbacks", "ended", "complete", "ajaxComplete">>
                            ELSE <<"callbacks", "complete">>)
        /\ state[r] = "2" => ~transport[r] /\ ~timer[r] /\ settled[r] # "pending"

\* A request whose timeout is set ends, whatever the network does, with its
\* functions for completion, unless a script throws.
TimedRequestsEnd ==
    \A r \in Req : timer[r] ~> completed[r] \/ threw
=============================================================================
