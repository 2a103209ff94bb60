---------------------------- MODULE MCRemoteScripts --------------------------
(* Instances of RemoteScripts for TLC. *)
EXTENDS RemoteScripts, TLC

CONSTANTS alice, bob, v1, v2, nightly, weekly

\* The second release adds a unit.
Units == [a \in Artefacts |-> IF a = v1 THEN {nightly} ELSE {nightly, weekly}]

World(shape, flows, crew, bound) ==
    [shape |-> shape, flows |-> flows, crew |-> crew, kills |-> FALSE,
     reboots |-> FALSE, edits |-> {}, docker |-> {}, started |-> bound]

Team == {alice, bob}

\* What each scope adds: two operators and sessions that are killed; a host that
\* reboots; people who edit units, people who edit the manifest; every flow of
\* one operator; a target's other shapes; restore drills.
AllScopes ==
    {[World("timers", {"forward"}, Team, 3) EXCEPT !.kills = TRUE],
     [World("timers", {"forward"}, {alice}, 2) EXCEPT !.reboots = TRUE],
     [World("timers", {"forward"}, {alice}, 2) EXCEPT !.edits = {"units"}],
     [World("timers", {"forward"}, {alice}, 2) EXCEPT !.edits = {"manifest"}],
     World("timers", {"forward", "rollback", "drill"}, Team, 3),
     [World("systemd", {"forward", "rollback"}, {alice}, 3)
          EXCEPT !.kills = TRUE, !.reboots = TRUE, !.edits = {"units", "manifest"}],
     [World("compose", {"forward", "drill"}, Team, 3) EXCEPT !.kills = TRUE],
     World("compose", {"forward", "restore"}, Team, 4)}
  \cup {[World("compose", {"forward", "restore"}, {alice}, 4) EXCEPT !.docker = stuck] :
           stuck \in {{"network"}, {"database"}, {"app"}}}
  \cup {[World("systemd", {"forward"}, {alice}, 2) EXCEPT !.docker = stuck] :
           stuck \in {{"carrier"}, {"created"}}}

\* Deliveries, a rollback and a drill of one operator, nothing else.
GateScopes == {World("timers", {"forward", "rollback", "drill"}, {alice}, 4)}
=============================================================================
