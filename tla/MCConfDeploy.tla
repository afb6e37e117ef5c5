---------------------------- MODULE MCConfDeploy ----------------------------
(* Small instances of ConfDeploy: with one task a configuration may be     *)
(* longer than another, shorter or the same.                               *)
EXTENDS ConfDeploy, TLC

CONSTANTS h1, h2, t1

\* The handlers are interchangeable.
Handlers == Permutations(Handler)

\* At most one failure goes unnoticed in the requests of a moment.  Where the
\* slave is left alone nobody deploys to the master: that is no other than with
\* another copyMethod.  What follows on a torn configuration in force is left to
\* the same steps with a RestartFails in place of the Restart, since no step
\* looks at running.
Bounded ==
    /\ Cardinality(UNION {{h} \X ignored[h] : h \in Handler}) <= 1
    /\ copyMethod = 3 => \A h \in Handler : Inside(h) => target[h] = "slave"
    /\ \A t \in Target : running[t].whole
=============================================================================
