---------------------------- MODULE MCDeployFlow ----------------------------
(***************************************************************************)
(* DeployFlow on small instances: one scope for each question, so that no  *)
(* behaviour needs all the bounds at once.                                 *)
(***************************************************************************)
EXTENDS DeployFlow

Deployments == {"forward", "rollback", "drill"}

Scope == [flows |-> Deployments, operators |-> {CHOOSE o \in Operators : TRUE},
          outages |-> FALSE, errors |-> FALSE, crashes |-> FALSE, started |-> 3]

DeploymentScopes == {
    \* two operators meet at the lock
    [Scope EXCEPT !.flows = {"forward", "rollback"}, !.operators = Operators, !.crashes = TRUE,
                  !.started = 2],
    \* restore drills between deployments
    [Scope EXCEPT !.flows = {"forward", "restore"}, !.outages = TRUE],
    \* brain answers, operators may die: incidents of several flows
    [Scope EXCEPT !.crashes = TRUE, !.started = 4],
    \* brain refuses attestations or loses its answers
    [Scope EXCEPT !.flows = {"forward", "rollback"}, !.outages = TRUE],
    \* the ledger and the operator's process, two at a time and then all
    [Scope EXCEPT !.outages = TRUE, !.crashes = TRUE],
    [Scope EXCEPT !.errors = TRUE, !.crashes = TRUE],
    [Scope EXCEPT !.outages = TRUE, !.errors = TRUE, !.crashes = TRUE, !.started = 2]}

\* Brain becomes unreachable between the apply and the first attestation.
UnreadableScopes == {[Scope EXCEPT !.flows = {"forward", "rollback"}, !.outages = TRUE,
                                   !.errors = TRUE, !.started = 2]}

\* Two forward deployments whose records are written out of order.
RecordRaceScopes == {[Scope EXCEPT !.flows = {"forward"}, !.operators = Operators, !.started = 2]}
=============================================================================
