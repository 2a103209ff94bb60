------------------------------ MODULE Delivery ------------------------------
(***************************************************************************)
(* What the evidence of the deployment flows says afterwards: the delivery *)
(* metrics (metrics.py, both windows) and the gate observe.drill           *)
(* (gates/evidence.py), read from the ledger that DeployFlow writes while  *)
(* records wait, are replayed late, or are never written.                  *)
(*                                                                         *)
(* Time is the emission stamp of DeployFlow: a window is the records from  *)
(* a stamp on.  The flows always name the artefact of an incident and the  *)
(* artefact a rollback takes off, so the attribution of a nameless failure *)
(* to the deployment of the 24 hours before it never applies.              *)
(***************************************************************************)
EXTENDS DeployFlow, FiniteSets

VARIABLES
    went,       \* what happened: the releases that went live, [artefact, at]
    fell,       \* the artefacts that failed or were taken off, [artefact, at]
    began,      \* the stamps at which rollback drills began
    drilled     \* the kinds of drill that recovered since the newest release

witnessed == <<went, fell, began, drilled>>

dvars == <<vars, witnessed>>

-----------------------------------------------------------------------------
(***************************************************************************)
(* The first window, `delivery`.                                           *)
(***************************************************************************)

Window(rs, since) == {r \in rs : r.at >= since}

ReleaseDeployments(rs) == {r \in DeployedIn(rs) : r.mode = "release"}

Digests(rs) == {r.digest : r \in rs}

Undone(rs) == {r.from : r \in Real(rs, "rolled_back")}

\* Deployments, failed artefacts and attempts of the window.
DeliveryWindow(rs, since) ==
    LET deployed == Window(ReleaseDeployments(rs), since)
        failed == Undone(Window(rs, since))
    IN  [deployments |-> Cardinality(deployed), failed |-> failed,
         attempts |-> Cardinality(deployed) + Cardinality(failed \ Digests(deployed))]

-----------------------------------------------------------------------------
(***************************************************************************)
(* The second window, `delivery_v2`: attributed over the whole history.    *)
(***************************************************************************)

FirstOf(rs) == CHOOSE r \in rs : \A s \in rs : r.at <= s.at

\* A change is the first release deployment of an artefact.
Changes(rs) ==
    {r \in ReleaseDeployments(rs) :
        \A s \in ReleaseDeployments(rs) : s.digest = r.digest => r.at <= s.at}

Redeployments(rs, since) ==
    Cardinality(Window(ReleaseDeployments(rs) \ Changes(rs), since))

\* Drills fail artefacts too.
FaultyFailures(rs) == {r \in rs : r.kind \in {"incident", "rolled_back"}}

Failures(rs) == Real(rs, "incident") \cup Real(rs, "rolled_back")

\* A rollback blames what it puts back.
FaultyBlamed(r) == r.digest

Blamed(r) == IF r.kind = "rolled_back" THEN r.from ELSE r.digest

FirstFailure(rs, a) == FirstOf({r \in Failures(rs) : Blamed(r) = a})

\* An artefact that failed and never was a change, by its first failure.
Candidates(rs, since) ==
    {a \in {Blamed(r) : r \in Failures(rs)} :
        a \notin Digests(Changes(rs)) /\ FirstFailure(rs, a).at >= since}

DeliveryWindowV2(rs, since) ==
    LET changed == Digests(Window(Changes(rs), since))
        blamed == {Blamed(r) : r \in Failures(rs)}
        candidates == Candidates(rs, since)
    IN  [changes |-> changed, redeployments |-> Redeployments(rs, since),
         failed |-> (changed \cap blamed) \cup candidates,
         attempts |-> changed \cup candidates,
         open |-> {i \in OpenIncidents(rs) : i >= since}]

-----------------------------------------------------------------------------
(***************************************************************************)
(* The recoveries of drills, measured the same way in both windows.        *)
(***************************************************************************)

DrillsIn(rs, k) == {r \in rs : r.kind = k /\ r.drill}

\* Any later restored of a drill will do.
FaultyDrillRecoveries(rs, since) ==
    LET within == Window(rs, since)
        after(i) == {r \in DrillsIn(within, "restored") : r.at > i.at}
    IN  {<<i, FirstOf(after(i))>> : i \in {j \in DrillsIn(within, "incident") : after(j) # {}}}

\* Each drill's incident with the first restored after it and before the next
\* drill's incident.
DrillRecoveries(rs, since) ==
    LET within == Window(rs, since)
        incidents == DrillsIn(within, "incident")
        after(i) == {r \in DrillsIn(within, "restored") :
                       /\ r.at > i.at
                       /\ \A j \in incidents : j.at > i.at => r.at < j.at}
    IN  {<<i, FirstOf(after(i))>> : i \in {j \in incidents : after(j) # {}}}

-----------------------------------------------------------------------------
(***************************************************************************)
(* observe.drill: green after a restore drill, or after a rollback drill   *)
(* and its recovery, newer than the newest release deployment.             *)
(***************************************************************************)

\* Any drill's recovery after the release.
FaultyDrillGate(rs) ==
    LET after(k) == {r \in DrillsIn(rs, k) : r.at > Newest(ReleaseDeployments(rs)).at}
    IN  /\ ReleaseDeployments(rs) # {}
        /\ after("restored") # {}

DrillGate(rs) ==
    LET after(k) == {r \in DrillsIn(rs, k) : r.at > Newest(ReleaseDeployments(rs)).at}
    IN  /\ ReleaseDeployments(rs) # {}
        /\ \/ \E r \in after("restored") : r.mode = "restore"
           \/ /\ after("rolled_back") # {}
              /\ \E r \in after("restored") :
                    /\ r.mode # "restore"
                    /\ r.at > Newest(after("rolled_back")).at

-----------------------------------------------------------------------------
(***************************************************************************)
(* What happened, beside what the ledger says: noted as the flows step.    *)
(***************************************************************************)

Goes(o, from, to) == stage[o] = from /\ stage'[o] = to

Fell(o) ==
    \/ Goes(o, "deploy", "failed_incident")
    \/ Goes(o, "roll_back", "rollback_incident") \/ Goes(o, "roll_back", "rolled")
    \/ Goes(o, "drill_back", "drill_failed")

Event(o) == [artefact |-> flow[o].artefact, at |-> clock]

\* `drilled`: the drills that hold, as they are recorded: a release drops them, a
\* rollback drill drops the one before it at its `rolled_back`.
Witness(o) ==
    /\ went' = IF Goes(o, "deploy", "deployed") THEN went \cup {Event(o)} ELSE went
    /\ fell' = IF Fell(o) THEN fell \cup {Event(o)} ELSE fell
    /\ began' = IF Goes(o, "idle", "drill_incident") THEN began \cup {clock} ELSE began
    /\ drilled' = CASE stage[o] = "deployed" /\ clock' # clock -> {}
                    [] Goes(o, "drill_rolled", "drill_restored") -> drilled \ {"drill"}
                    [] Goes(o, "drill_restored", "drill_forward") -> drilled \cup {"drill"}
                    [] Goes(o, "drill_rebuilt", "report") -> drilled \cup {"restore"}
                    [] OTHER -> drilled

DeliveryInit == Init /\ went = {} /\ fell = {} /\ began = {} /\ drilled = {}

DeliveryProgress(o) == Progress(o) /\ Witness(o)

DeliveryNext ==
    \/ \E o \in Operators : Step(o) /\ Witness(o)
    \/ \E r \in spool : Replay(r) /\ UNCHANGED witnessed

DeliverySpec ==
    /\ DeliveryInit /\ [][DeliveryNext]_dvars
    /\ \A o \in Operators : WF_dvars(DeliveryProgress(o))

-----------------------------------------------------------------------------
(***************************************************************************)
(* Properties.                                                             *)
(***************************************************************************)

Windows == 1..clock

\* One operator, and every record it emitted has reached the ledger.
Settled == Alone /\ ~scope.errors /\ Idle /\ spool = {}

At(events, a) == {e.at : e \in {x \in events : x.artefact = a}}

Attempted == {e.artefact : e \in went \cup fell}

\* When a change or a failed candidate counts: when it first went live, and
\* if it never did when it first failed.
CountedAt(a) == Least(IF At(went, a) # {} THEN At(went, a) ELSE At(fell, a))

Went(since) == {e \in went : e.at >= since}

Again(since) == {e \in Went(since) : \E x \in went : x.artefact = e.artefact /\ x.at < e.at}

\* The change failure rate counts what really happened, each artefact once and
\* in one window: whatever failed, was put back, rolled back, redeployed or
\* drilled, and however late a waiting receipt of it was replayed
\* (metrics.py: "late failure evidence stays with the original change"); what
\* a drill puts back and forth is no deployment; and the first window blames
\* nobody the second does not.
FailuresAreCounted ==
    (Settled /\ ~scope.crashes) =>
        \A since \in Windows :
            LET v2 == DeliveryWindowV2(ledger, since)
                attempts == {a \in Attempted : CountedAt(a) >= since}
            IN  /\ v2.attempts = attempts
                /\ v2.failed = {a \in attempts : At(fell, a) # {}}
                /\ v2.redeployments = Cardinality(Again(since))
                /\ LET first == DeliveryWindow(ledger, since)
                   IN  /\ first.deployments = Cardinality(Went(since))
                       /\ first.failed \subseteq DeliveryWindowV2(ledger, 1).failed

SameDrill(i, r) == \A b \in began : ~(i.at < b /\ b <= r.at)

\* "An aborted drill never borrows the restore of a later one" (metrics.py): a
\* recovery measured for a drill is of that drill, whatever was aborted,
\* killed or replayed before it.
DrillsAreMeasuredAlone ==
    Settled => \A since \in Windows : \A p \in DrillRecoveries(ledger, since) :
                   p[2].mode # "restore" /\ SameDrill(p[1], p[2])

\* The part of it the code keeps: the recovery of a rollback drill is measured
\* for its own incident, and for no drill before it.
RollbackDrillsAreMeasuredAlone ==
    Settled => \A since \in Windows : \A p \in DrillRecoveries(ledger, since) :
                   p[2].mode # "restore" => SameDrill(p[1], p[2])

\* observe.drill is green exactly when, since the newest recorded release, a
\* restore drill has read its backup or the last rollback drill whose
\* `rolled_back` was recorded has measured its recovery: never on the recovery
\* of a drill before that release, or before a drill that recorded its rollback
\* and broke off.  A drill that dies after its switch and before that record is
\* nowhere in the ledger, and takes nothing from the gate.
DrillGateIsEarned ==
    Settled => (DrillGate(ledger) <=> drilled # {})

=============================================================================
