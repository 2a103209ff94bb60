----------------------------- MODULE MCDelivery -----------------------------
(***************************************************************************)
(* Delivery on small instances: two operators who race, and one operator   *)
(* in the scopes where evidence is late or a drill breaks off.             *)
(***************************************************************************)
EXTENDS Delivery

Scope == [flows |-> {"forward", "rollback", "drill"}, operators |-> Operators,
          outages |-> FALSE, errors |-> FALSE, crashes |-> FALSE, started |-> 3]

Solo == {CHOOSE o \in Operators : TRUE}

\* Two operators race for the target.
RacingScopes == {[Scope EXCEPT !.crashes = TRUE]}

\* One operator's releases fail, with rollbacks and drills between; or brain
\* refuses or loses the attestations.
FailureScopes == {
    [Scope EXCEPT !.operators = Solo, !.started = 4],
    [Scope EXCEPT !.operators = Solo, !.flows = {"forward"}, !.outages = TRUE,
                  !.started = 2]}

\* One operator's drills are killed, with releases and restore drills between.
DrillScopes == {
    [Scope EXCEPT !.operators = Solo, !.flows = {"forward", "drill", "restore"},
                  !.crashes = TRUE, !.started = 4]}

DeliveryScopes == RacingScopes \cup FailureScopes \cup DrillScopes
=============================================================================
