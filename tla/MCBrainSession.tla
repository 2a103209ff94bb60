--------------------------- MODULE MCBrainSession ---------------------------
(***************************************************************************)
(* BrainSession on small instances: a pool of the process whose callers    *)
(* are interrupted, and one whose only client is collected.                *)
(***************************************************************************)
EXTENDS BrainSession

Scope == [interrupts |-> FALSE, private |-> FALSE, exits |-> FALSE, startFails |-> FALSE]

\* No thread can be started for the loop.
StartScopes == {[Scope EXCEPT !.startFails = TRUE]}

PoolScopes ==
    {[Scope EXCEPT !.interrupts = TRUE], [Scope EXCEPT !.private = TRUE]} \cup StartScopes

\* The exit handler closes a pool whose client is being collected.
ExitScopes == {[Scope EXCEPT !.private = TRUE, !.exits = TRUE]}
=============================================================================
