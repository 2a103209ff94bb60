---------------------------- MODULE MCReviewLoop ----------------------------
(***************************************************************************)
(* ReviewLoop on small instances: one scope for each question, so that no  *)
(* behaviour needs all the bounds at once.                                 *)
(***************************************************************************)
EXTENDS ReviewLoop

Says(word) == [x \in Elsewhere |-> word]

Scope == [artifacts |-> {"code"}, proposals |-> {"blocker"}, bodies |-> {Says("deferred")},
          verdicts |-> 5, rulings |-> 2, heads |-> 1, edits |-> 0, outages |-> 0, asked |-> FALSE,
          opens |-> FALSE]

SmallScopes == {
    \* rounds, rulings and closures; with heads that move
    Scope,
    [Scope EXCEPT !.heads = 2, !.verdicts = 4],
    \* specifications and plans: judges propose carry-forwards
    [Scope EXCEPT !.artifacts = {"spec_plan"}, !.proposals = {"blocker", "carry_forward"},
                  !.verdicts = 4],
    \* the carry-forwards of others, claimed or forgotten in the body
    [Scope EXCEPT !.bodies = {Says("absent"), Says("addressed")}, !.edits = 1, !.verdicts = 4,
                  !.rulings = 1],
    \* receipts that wait in the spool
    [Scope EXCEPT !.outages = 1, !.verdicts = 4, !.rulings = 1],
    \* a pull request that is at times made of records only
    [Scope EXCEPT !.artifacts = {"code", "records"}, !.heads = 3, !.verdicts = 4, !.rulings = 1],
    \* one that grows from specification to code and back
    [Scope EXCEPT !.artifacts = {"code", "spec_plan"}, !.bodies = {Says("absent")}, !.heads = 2,
                  !.verdicts = 4, !.rulings = 1],
    \* others open a carry-forward between its rounds: heads move, receipts wait
    [Scope EXCEPT !.opens = TRUE, !.bodies = {Says("absent"), Says("addressed")}, !.heads = 2,
                  !.verdicts = 3, !.rulings = 1],
    [Scope EXCEPT !.opens = TRUE, !.bodies = {Says("absent"), Says("addressed")},
                  !.verdicts = 3, !.rulings = 1, !.outages = 1],
    \* an operator asks for passes over judged heads
    [Scope EXCEPT !.heads = 2, !.verdicts = 4, !.rulings = 1, !.asked = TRUE]}

\* `rail reviewer once --pr` on a head that was judged already.
AskedScopes == {[Scope EXCEPT !.heads = 2, !.verdicts = 3, !.asked = TRUE]}

\* An approval carried over a carry-forward that was opened since.
CarriedScopes ==
    {[Scope EXCEPT !.opens = TRUE, !.bodies = {Says("absent")}, !.heads = 2, !.verdicts = 3,
                   !.rulings = 0]}
=============================================================================
