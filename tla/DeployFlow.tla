----------------------------- MODULE DeployFlow -----------------------------
(***************************************************************************)
(* The deployment flows of src/rail/deploy/flow.py -- forward, rollback    *)
(* and drill -- and the restore drill of deploy/restore.py, run by         *)
(* operators against one target (deploy/remote.py) and one ledger.         *)
(*                                                                         *)
(* A flow is a walk through stages.  In an apply stage the flow runs the   *)
(* remote script under the target's lock and then verifies from outside,   *)
(* with the lock already released.  In an attest stage it writes one       *)
(* record.  Operators interleave between any two steps; a step of the      *)
(* model is one remote call, one ledger call or one local decision.        *)
(***************************************************************************)
EXTENDS Naturals

CONSTANTS
    Operators,      \* processes running `rail deploy` or `rail drill`
    Artefacts,      \* released artefacts, named by digest; all are released
    Nothing,        \* no artefact: a null of the ledger reads
    Down,           \* what the target serves when no artefact answers
    Scopes,         \* the scopes a behaviour may have
    MaxFlows        \* bound: flows started in a behaviour

FlowKinds == {"forward", "rollback", "drill", "restore"}

ASSUME ConstantsAssumption ==
    /\ Nothing \notin Artefacts
    /\ Down \notin Artefacts
    /\ Nothing # Down
    /\ MaxFlows \in Nat
    /\ Scopes \subseteq [flows : SUBSET FlowKinds, operators : SUBSET Operators,
                         outages : BOOLEAN, errors : BOOLEAN, crashes : BOOLEAN,
                         started : 0..MaxFlows]

ASSUME OperatorAssumption == Nothing \notin Operators

VARIABLES
    scope,      \* what may happen in this behaviour, chosen once: the flows
                \* operators run, which operators and how many flows; whether
                \* brain refuses or loses attestations; whether a ledger read
                \* fails or a write leaves no receipt; whether a process dies
    serving,    \* what the target answers from outside: an artefact or Down
    lock,       \* who holds $root/.deploy.lock, or Nothing
    ledger,     \* the records the ledger lists
    spool,      \* receipts waiting on the host (BrainLedger.spool)
    clock,      \* the next emission stamp
    stage,      \* where each operator is in its flow
    phase,      \* where it is inside an apply
    flow,       \* the local state of its flow
    exit,       \* how its last command ended
    started     \* number of flows started, for the bound

vars == <<scope, serving, lock, ledger, spool, clock, stage, phase, flow, exit, started>>

-----------------------------------------------------------------------------
(***************************************************************************)
(* Records.  `at` is the emission stamp, the order of the ledger and the   *)
(* record's identity; `digest` is the artefact it is about, for a          *)
(* rolled_back the one put back; `from` is the artefact a rolled_back took *)
(* off, the one that failed; `mode` tells the deployed records apart, and  *)
(* the restored of a restore drill from that of a rollback drill;          *)
(* `incident` is the stamp of the incident a restored names, 0 when it     *)
(* names none.                                                             *)
(***************************************************************************)

Kinds == {"deployed", "rolled_back", "incident", "restored"}

Stamps == Nat \ {0}

Modes == {"release", "rollback", "drill", "restore", "none"}

Records == [kind : Kinds, digest : Artefacts, from : Artefacts \cup {Nothing},
            mode : Modes, drill : BOOLEAN, incident : Nat, at : Stamps]

DeployedIn(rs) == {r \in rs : r.kind = "deployed"}

Newest(rs) == CHOOSE r \in rs : \A s \in rs : s.at <= r.at

\* What the newest `deployed` of rs says is live, whatever its mode.
LiveArtefact(rs) ==
    IF DeployedIn(rs) = {} THEN Nothing ELSE Newest(DeployedIn(rs)).digest

\* The newest deployed artefact whose digest is not `a`.
PreviousArtefact(rs, a) ==
    LiveArtefact({r \in DeployedIn(rs) : r.digest # a})

\* The open list that counts drills as incidents.
Real(rs, k) == {r \in rs : r.kind = k /\ ~r.drill}

\* A real incident is newer than every `deployed`.
InDoubt(rs) == \E i \in Real(rs, "incident") : \A d \in DeployedIn(rs) : d.at < i.at

Least(S) == CHOOSE i \in S : \A j \in S : i <= j

(***************************************************************************)
(* The stamps of the incidents match_recoveries leaves open: restores are  *)
(* taken in ledger order; one that names an incident closes that one and   *)
(* no other, one that names none closes the oldest earlier open incident.  *)
(***************************************************************************)
OpenIncidents(rs) ==
    LET last == IF rs = {} THEN 0 ELSE Newest(rs).at
        incidents == {r.at : r \in Real(rs, "incident")}
        closedBy(open, r) ==
            LET earlier == {i \in open : i < r.at}
            IN  IF r.incident # 0 THEN {r.incident}
                ELSE IF earlier = {} THEN {} ELSE {Least(earlier)}
        open[t \in 0..last] ==
            IF t = 0 THEN incidents
            ELSE open[t - 1] \ UNION {closedBy(open[t - 1], r) :
                     r \in {s \in Real(rs, "restored") : s.at = t}}
    IN  {i \in incidents : i \in open[last]}

-----------------------------------------------------------------------------
(***************************************************************************)
(* Stages.                                                                 *)
(***************************************************************************)

\* The stages that run a script on the target.
ApplyStages == {"deploy", "put_back", "roll_back", "drill_back", "drill_forward",
                "restore_backup"}

\* Which artefact of the flow an apply stage puts on the target.
Applied == [deploy |-> "artefact", put_back |-> "previous",
            roll_back |-> "previous", drill_back |-> "previous",
            drill_forward |-> "artefact", restore_backup |-> "previous"]

OnSuccess == [deploy |-> "deployed", put_back |-> "back_rolled",
              roll_back |-> "rolled", drill_back |-> "drill_rolled",
              drill_forward |-> "drill_deployed", restore_backup |-> "drill_rebuilt"]

\* The attempted put-back attested as a completed rollback.
FaultyOnFailure == [deploy |-> "failed_incident", put_back |-> "back_rolled",
                    roll_back |-> "rollback_incident",
                    drill_back |-> "drill_failed", drill_forward |-> "drill_stays",
                    restore_backup |-> "report"]

OnFailure == [deploy |-> "failed_incident", put_back |-> "report",
              roll_back |-> "rollback_incident",
              drill_back |-> "drill_failed", drill_forward |-> "drill_stays",
              restore_backup |-> "report"]

Emission(kind, of, drill, mode, next) ==
    [kind |-> kind, of |-> of, drill |-> drill, mode |-> mode, next |-> next]

\* What each attest stage writes, about which artefact, and what follows it.
Emissions ==
  [deployed          |-> Emission("deployed", "artefact", FALSE, "release", "closing"),
   closing           |-> Emission("restored", "artefact", FALSE, "none", "closing"),
   failed_incident   |-> Emission("incident", "artefact", FALSE, "none", "put_back"),
   back_rolled       |-> Emission("rolled_back", "previous", FALSE, "none", "back_deployed"),
   back_deployed     |-> Emission("deployed", "previous", FALSE, "rollback", "back_restored"),
   back_restored     |-> Emission("restored", "previous", FALSE, "none", "report"),
   rollback_incident |-> Emission("incident", "artefact", FALSE, "none", "report"),
   rolled            |-> Emission("rolled_back", "previous", FALSE, "none", "rollback_deployed"),
   rollback_deployed |-> Emission("deployed", "previous", FALSE, "rollback", "rollback_restored"),
   rollback_restored |-> Emission("restored", "previous", FALSE, "none", "report"),
   drill_incident    |-> Emission("incident", "artefact", TRUE, "none", "drill_back"),
   drill_failed      |-> Emission("incident", "artefact", FALSE, "none", "report"),
   drill_rolled      |-> Emission("rolled_back", "previous", TRUE, "none", "drill_restored"),
   drill_restored    |-> Emission("restored", "previous", TRUE, "none", "drill_forward"),
   drill_deployed    |-> Emission("deployed", "artefact", FALSE, "drill", "report"),
   drill_stays       |-> Emission("deployed", "previous", FALSE, "rollback", "report"),
   drill_rebuilt     |-> Emission("restored", "previous", TRUE, "restore", "report")]

AttestStages == DOMAIN Emissions

Stages == ApplyStages \cup AttestStages \cup {"idle", "report"}

Phases == {"ready", "script", "switched", "verify"}

\* artefact: the candidate of a forward, what the ledger called live of the
\* others.  opened: open incidents when the flow read the ledger.  incident:
\* the stamp of the incident this flow recorded.  attesting: its Attester has
\* read the ledger.  waiting, failed: what the command reports at its end.
FlowStates == [artefact : Artefacts \cup {Nothing},
               previous : Artefacts \cup {Nothing},
               opened : SUBSET Stamps, incident : Nat,
               attesting : BOOLEAN, waiting : BOOLEAN, failed : BOOLEAN]

NoFlow == [artefact |-> Nothing, previous |-> Nothing, opened |-> {},
           incident |-> 0, attesting |-> FALSE,
           waiting |-> FALSE, failed |-> FALSE]

\* The exit codes of `rail deploy` and `rail drill`, and two more: no
\* command has ended yet, the process died.
Exits == {"none", "ok", "failed", "unattested", "locked", "crashed"}

Init ==
    /\ scope \in Scopes
    /\ serving = Down
    /\ lock = Nothing
    /\ ledger = {}
    /\ spool = {}
    /\ clock = 1
    /\ stage = [o \in Operators |-> "idle"]
    /\ phase = [o \in Operators |-> "ready"]
    /\ flow = [o \in Operators |-> NoFlow]
    /\ exit = [o \in Operators |-> "none"]
    /\ started = 0

-----------------------------------------------------------------------------
(***************************************************************************)
(* Starting a flow: the ledger reads, before the first side effect.        *)
(***************************************************************************)

Start(o, first, artefact, opened) ==
    /\ stage[o] = "idle"
    /\ o \in scope.operators
    /\ started < scope.started
    /\ started' = started + 1
    /\ stage' = [stage EXCEPT ![o] = first]
    /\ flow' = [flow EXCEPT ![o] =
                  [NoFlow EXCEPT !.artefact = artefact,
                                 !.previous = PreviousArtefact(ledger, artefact),
                                 !.opened = opened]]
    /\ UNCHANGED <<scope, serving, lock, ledger, spool, clock, phase, exit>>

\* `rail deploy [--version]`: any released artefact, the live one included.
StartForward(o) ==
    /\ "forward" \in scope.flows
    /\ \E a \in Artefacts : Start(o, "deploy", a, OpenIncidents(ledger))

\* A rollback and a drill need two deployed artefacts in the ledger.
TwoDeployed == PreviousArtefact(ledger, LiveArtefact(ledger)) # Nothing

StartRollback(o) ==
    /\ "rollback" \in scope.flows
    /\ TwoDeployed
    /\ Start(o, "roll_back", LiveArtefact(ledger), OpenIncidents(ledger))

StartDrill(o) ==
    /\ "drill" \in scope.flows
    /\ TwoDeployed
    /\ Start(o, "drill_incident", LiveArtefact(ledger), {})

\* `rail drill --restore`: the previous artefact reads a backup, isolated.
StartRestore(o) ==
    /\ "restore" \in scope.flows
    /\ TwoDeployed
    /\ Start(o, "restore_backup", LiveArtefact(ledger), {})

(***************************************************************************)
(* Target.apply: the script under the lock, then the verification.         *)
(***************************************************************************)

Subject(o) == IF Applied[stage[o]] = "artefact" THEN flow[o].artefact
                                                ELSE flow[o].previous

InApply(o, p) == stage[o] \in ApplyStages /\ phase[o] = p

\* The script runs whoever holds the lock.
FaultyTakeLock(o) ==
    /\ InApply(o, "ready")
    /\ lock' = o
    /\ phase' = [phase EXCEPT ![o] = "script"]
    /\ UNCHANGED <<scope, serving, ledger, spool, clock, stage, flow, exit, started>>

TakeLock(o) ==
    /\ InApply(o, "ready")
    /\ lock = Nothing
    /\ lock' = o
    /\ phase' = [phase EXCEPT ![o] = "script"]
    /\ UNCHANGED <<scope, serving, ledger, spool, clock, stage, flow, exit, started>>

\* The script replaces what runs: the artefact comes up, or nothing does.
Switch(o) ==
    /\ InApply(o, "script")
    /\ stage[o] # "restore_backup"
    /\ serving' \in {Subject(o), Down}
    /\ phase' = [phase EXCEPT ![o] = "switched"]
    /\ UNCHANGED <<scope, lock, ledger, spool, clock, stage, flow, exit, started>>

\* Exit code 0: the service is up, and the lock goes with the ssh session.
ScriptEnds(o) ==
    /\ InApply(o, "switched")
    /\ serving = Subject(o)
    /\ lock' = Nothing
    /\ phase' = [phase EXCEPT ![o] = "verify"]
    /\ UNCHANGED <<scope, serving, ledger, spool, clock, stage, flow, exit, started>>

\* The backup is read and the disposable objects are gone: what the target
\* serves never changed, and nothing is verified from outside.
Rebuilt(o) ==
    /\ InApply(o, "script")
    /\ stage[o] = "restore_backup"
    /\ lock' = Nothing
    /\ stage' = [stage EXCEPT ![o] = OnSuccess[stage[o]]]
    /\ phase' = [phase EXCEPT ![o] = "ready"]
    /\ UNCHANGED <<scope, serving, ledger, spool, clock, flow, exit, started>>

\* Healthy, and `/version` equal to the artefact.
Verified(o) ==
    /\ InApply(o, "verify")
    /\ serving = Subject(o)
    /\ stage' = [stage EXCEPT ![o] = OnSuccess[stage[o]]]
    /\ phase' = [phase EXCEPT ![o] = "ready"]
    /\ UNCHANGED <<scope, serving, lock, ledger, spool, clock, flow, exit, started>>

Released(o) == IF lock = o THEN Nothing ELSE lock

\* A remote phase without a timeout.
FaultyApplyFails(o) ==
    /\ stage[o] \in ApplyStages
    /\ phase[o] # "switched"
    /\ lock' = Released(o)
    /\ stage' = [stage EXCEPT ![o] = OnFailure[stage[o]]]
    /\ phase' = [phase EXCEPT ![o] = "ready"]
    /\ flow' = [flow EXCEPT ![o].failed = TRUE]
    /\ UNCHANGED <<scope, serving, ledger, spool, clock, exit, started>>

\* A DeployError, at any point of the apply: a refusal or no ssh before the
\* lock, a script that fails or times out, a verification that fails.  What
\* the script already changed stays changed.
ApplyFails(o) ==
    /\ stage[o] \in ApplyStages
    /\ lock' = Released(o)
    /\ stage' = [stage EXCEPT ![o] = OnFailure[stage[o]]]
    /\ phase' = [phase EXCEPT ![o] = "ready"]
    /\ flow' = [flow EXCEPT ![o].failed = TRUE]
    /\ UNCHANGED <<scope, serving, ledger, spool, clock, exit, started>>

\* Another deployment holds the lock.  Locked ends the flow, except in the
\* roll-forward of a drill, whose handler takes every DeployError.
FindLocked(o) ==
    /\ InApply(o, "ready")
    /\ stage[o] # "drill_forward"
    /\ lock # Nothing
    /\ stage' = [stage EXCEPT ![o] = "idle"]
    /\ flow' = [flow EXCEPT ![o] = NoFlow]
    /\ exit' = [exit EXCEPT ![o] = "locked"]
    /\ UNCHANGED <<scope, serving, lock, ledger, spool, clock, phase, started>>

(***************************************************************************)
(* Attester.attest.                                                        *)
(***************************************************************************)

\* The incident a restored names.  Only a record this flow got back from the
\* ledger, or one it read as open, is ever named.
Named(o) ==
    CASE stage[o] = "back_restored" -> flow[o].incident
      [] stage[o] = "closing" -> Least(flow[o].opened)
      [] stage[o] = "rollback_restored" /\ flow[o].opened # {} -> Least(flow[o].opened)
      [] OTHER -> 0

Emitted(o) ==
    LET e == Emissions[stage[o]]
    IN  [kind |-> e.kind,
         digest |-> IF e.of = "artefact" THEN flow[o].artefact ELSE flow[o].previous,
         from |-> IF e.kind = "rolled_back" THEN flow[o].artefact ELSE Nothing,
         mode |-> e.mode, drill |-> e.drill, incident |-> Named(o), at |-> clock]

\* A release closes one incident, as a rollback does.
FaultyStillOpen(o) == IF stage[o] = "closing" THEN {} ELSE flow[o].opened

StillOpen(o) == IF stage[o] = "closing" THEN flow[o].opened \ {Least(flow[o].opened)}
                                        ELSE flow[o].opened

\* A forward closes incidents only behind a recorded `deployed`; without a
\* previous artefact a failed one has nothing to put back.
NextStage(o, recorded) ==
    CASE stage[o] = "deployed" /\ ~recorded -> "report"
      [] stage[o] \in {"deployed", "closing"} /\ StillOpen(o) = {} -> "report"
      [] stage[o] = "failed_incident" /\ flow[o].previous = Nothing -> "report"
      [] OTHER -> Emissions[stage[o]].next

\* The incident is named whether or not the ledger returned it.
FaultyAttested(o, recorded) ==
    /\ clock' = clock + 1
    /\ stage' = [stage EXCEPT ![o] = NextStage(o, recorded)]
    /\ flow' = [flow EXCEPT ![o].attesting = TRUE,
                            ![o].opened = StillOpen(o),
                            ![o].incident = IF stage[o] = "failed_incident"
                                            THEN clock ELSE @,
                            ![o].waiting = @ \/ ~recorded]
    /\ UNCHANGED <<scope, serving, lock, phase, exit, started>>

Attested(o, recorded) ==
    /\ clock' = clock + 1
    /\ stage' = [stage EXCEPT ![o] = NextStage(o, recorded)]
    /\ flow' = [flow EXCEPT ![o].attesting = TRUE,
                            ![o].opened = StillOpen(o),
                            ![o].incident = IF stage[o] = "failed_incident" /\ recorded
                                            THEN clock ELSE @,
                            ![o].waiting = @ \/ ~recorded]
    /\ UNCHANGED <<scope, serving, lock, phase, exit, started>>

AttestRecorded(o) ==
    /\ stage[o] \in AttestStages
    /\ ledger' = ledger \cup {Emitted(o)}
    /\ UNCHANGED spool
    /\ Attested(o, TRUE)

\* An outage that leaves no receipt.
FaultyAttestWaits(o) ==
    /\ scope.outages
    /\ stage[o] \in AttestStages
    /\ UNCHANGED <<ledger, spool>>
    /\ Attested(o, FALSE)

\* Unattested: the receipt waits on the host.  Brain refused the record, or
\* took it and its answer was lost.
AttestWaits(o) ==
    /\ scope.outages
    /\ stage[o] \in AttestStages
    /\ spool' = spool \cup {Emitted(o)}
    /\ \/ UNCHANGED ledger
       \/ ledger' = ledger \cup {Emitted(o)}
    /\ Attested(o, FALSE)

\* A refusal that leaves no receipt: the flow keeps it for its report.
AttestFails(o) ==
    /\ scope.errors
    /\ stage[o] \in AttestStages
    /\ UNCHANGED <<ledger, spool>>
    /\ Attested(o, FALSE)

\* The first attest of a flow lists the ledger for its floor, outside the
\* handler of a refusal: a brain it cannot read ends the flow, nothing written.
AttestAborts(o) ==
    /\ scope.errors
    /\ stage[o] \in AttestStages
    /\ ~flow[o].attesting
    /\ stage' = [stage EXCEPT ![o] = "idle"]
    /\ flow' = [flow EXCEPT ![o] = NoFlow]
    /\ exit' = [exit EXCEPT ![o] = "failed"]
    /\ UNCHANGED <<scope, serving, lock, ledger, spool, clock, phase, started>>

\* `rail ledger replay`: a receipt keeps its key and its emission stamp.
Replay(r) ==
    /\ ledger' = ledger \cup {r}
    /\ spool' = spool \ {r}
    /\ UNCHANGED <<scope, serving, lock, clock, stage, phase, flow, exit, started>>

(***************************************************************************)
(* How a command ends.                                                     *)
(***************************************************************************)

\* A receipt that waits is no concern of the exit code.
FaultyReport(o) ==
    /\ stage[o] = "report"
    /\ exit' = [exit EXCEPT ![o] = IF flow[o].failed THEN "failed" ELSE "ok"]
    /\ stage' = [stage EXCEPT ![o] = "idle"]
    /\ flow' = [flow EXCEPT ![o] = NoFlow]
    /\ UNCHANGED <<scope, serving, lock, ledger, spool, clock, phase, started>>

Report(o) ==
    /\ stage[o] = "report"
    /\ exit' = [exit EXCEPT ![o] = IF flow[o].waiting THEN "unattested"
                                   ELSE IF flow[o].failed THEN "failed" ELSE "ok"]
    /\ stage' = [stage EXCEPT ![o] = "idle"]
    /\ flow' = [flow EXCEPT ![o] = NoFlow]
    /\ UNCHANGED <<scope, serving, lock, ledger, spool, clock, phase, started>>

\* The operator's process dies; its ssh session, and the lock, with it.
Crash(o) ==
    /\ scope.crashes
    /\ stage[o] # "idle"
    /\ lock' = Released(o)
    /\ stage' = [stage EXCEPT ![o] = "idle"]
    /\ phase' = [phase EXCEPT ![o] = "ready"]
    /\ flow' = [flow EXCEPT ![o] = NoFlow]
    /\ exit' = [exit EXCEPT ![o] = "crashed"]
    /\ UNCHANGED <<scope, serving, ledger, spool, clock, started>>

-----------------------------------------------------------------------------
\* A step a running command takes by itself: every wait of it is bounded by a
\* timeout (the ssh session, the healthcheck, each HTTP request, brain).
Progress(o) ==
    \/ TakeLock(o) \/ FindLocked(o) \/ Switch(o) \/ ScriptEnds(o)
    \/ Rebuilt(o) \/ Verified(o) \/ ApplyFails(o)
    \/ AttestRecorded(o) \/ AttestWaits(o) \/ AttestFails(o) \/ AttestAborts(o)
    \/ Report(o)

Step(o) ==
    \/ StartForward(o) \/ StartRollback(o) \/ StartDrill(o) \/ StartRestore(o)
    \/ Progress(o)
    \/ Crash(o)

Next ==
    \/ \E o \in Operators : Step(o)
    \/ \E r \in spool : Replay(r)

Spec == Init /\ [][Next]_vars

Fairness == \A o \in Operators : WF_vars(Progress(o))

FairSpec == Spec /\ Fairness

-----------------------------------------------------------------------------
(***************************************************************************)
(* Properties.                                                             *)
(***************************************************************************)

\* Every variable has its type.
TypeOK ==
    /\ scope \in Scopes
    /\ serving \in Artefacts \cup {Down}
    /\ lock \in Operators \cup {Nothing}
    /\ ledger \subseteq Records
    /\ spool \subseteq Records
    /\ clock \in Stamps
    /\ stage \in [Operators -> Stages]
    /\ phase \in [Operators -> Phases]
    /\ flow \in [Operators -> FlowStates]
    /\ exit \in [Operators -> Exits]
    /\ started \in 0..MaxFlows

\* One operator works on the target.
Alone == \E o \in Operators : scope.operators = {o}

Idle == \A o \in Operators : stage[o] = "idle"

\* No two remote scripts of one target ever overlap, across the deaths and
\* timeouts of their sessions: one operator at most is between the flock and
\* the end of its script, and it holds the lock.
OneScriptAtATime ==
    \A o \in Operators : phase[o] \in {"script", "switched"} <=> lock = o

\* A recovery is evidence about an incident the ledger holds: a restored that
\* names an incident names a real one, recorded earlier, never a receipt that
\* still waits, a drill or a record of a flow yet to come.
RestoredNamesARecordedIncident ==
    \A r \in ledger \cup spool :
        r.kind = "restored" /\ r.incident # 0 =>
            /\ ~r.drill
            /\ \E i \in Real(ledger, "incident") : i.at = r.incident /\ i.at < r.at

\* `rail deploy` and `rail drill` exit 0 only with the newest `deployed`
\* naming what the target serves -- after any crash, failure or outage of an
\* earlier command, and whatever receipts are replayed afterwards, with one
\* operator.  `rail drill --restore` is the exception: it deploys nothing, and
\* its exit code tells nothing of the deployment before it.
ExitOkNamesLive ==
    (Alone /\ Idle /\ "restore" \notin scope.flows /\ \E o \in Operators : exit[o] = "ok")
        => serving = LiveArtefact(ledger)

\* A release that goes live closes every incident the ledger still holds open,
\* whatever mix of failed deployments, put-backs, rollbacks and named or
\* unnamed recoveries came before it, as long as brain answers one operator.
ReleaseClosesEveryIncident ==
    [][\A o \in Operators :
        (/\ Alone /\ ~scope.outages /\ ~scope.errors
         /\ stage[o] \in {"deployed", "closing"} /\ stage'[o] = "report")
            => OpenIncidents(ledger') = {}]_vars

\* A deployed or rolled_back record is true when it is written: the target
\* serves the digest it names (flow.py: "a `rolled_back` record means a
\* completed rollback"), whatever brain and the operator's process do.  A drill
\* whose roll-forward fails is the exception, and so are two operators.
RecordsAreTrueWhenWritten ==
    [][\A r \in (ledger' \cup spool') \ (ledger \cup spool) :
        Alone /\ r.kind \in {"deployed", "rolled_back"} /\ "drill" \notin scope.flows
            => serving = r.digest]_vars

\* "Every state change of the target is followed by its record": when no
\* command runs, either the newest `deployed`, waiting receipts included,
\* names what the target serves, or a real incident newer than it says that
\* the target is in doubt.
EveryChangeIsRecorded ==
    LET known == ledger \cup spool
    IN  Idle => \/ serving = LiveArtefact(known)
                \/ serving = Down /\ DeployedIn(known) = {}
                \/ InDoubt(known)

\* The part of it the code keeps with one operator: deployments and rollbacks
\* leave no change unrecorded while the ledger can be read and nobody dies,
\* whatever attestations brain refuses or loses.
DeploymentsAreRecorded ==
    (Alone /\ "drill" \notin scope.flows /\ ~scope.errors /\ ~scope.crashes) => EveryChangeIsRecorded

\* "The newest `deployed` always names the live digest", whenever every
\* command has ended with exit 0.  It holds of one operator (ExitOkNamesLive);
\* with two the lock fences the scripts and not the records.
NewestDeployedNamesLive ==
    (\A o \in Operators : exit[o] = "ok" /\ stage[o] = "idle")
        => serving = LiveArtefact(ledger)

\* Every command ends: no operator waits for another, for the lock or for
\* brain.
EveryCommandEnds == \A o \in Operators : stage[o] # "idle" ~> stage[o] = "idle"

=============================================================================
