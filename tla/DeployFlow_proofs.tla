------------------------- MODULE DeployFlow_proofs --------------------------
(***************************************************************************)
(* Theorems of DeployFlow, and of Delivery over it, for every set of       *)
(* operators and artefacts and every setting of the outages.               *)
(***************************************************************************)
EXTENDS Delivery, WellFoundedInduction, FiniteSetTheorems, TLAPS

-----------------------------------------------------------------------------
(* The helpers on stamps and records.                                      *)

\* A non-empty set of stamps has a least one: what open_incidents[0] reads.
LEMMA LeastInSet ==
    ASSUME NEW S \in SUBSET Nat, S # {}
    PROVE  /\ Least(S) \in S
           /\ \A j \in S : Least(S) <= j
<1> DEFINE R == {p \in Nat \X Nat : p[1] < p[2]}
<1>1. IsWellFoundedOn(R, Nat)
  BY NatLessThanWellFounded DEF OpToRel
<1>2. PICK x \in S : \A y \in S : ~(<<y, x>> \in R)
  <2> HIDE DEF R
  <2> QED BY <1>1, WFMin
<1>3. ASSUME NEW y \in S  PROVE x <= y
  <2>1. x \in Nat /\ y \in Nat /\ ~(<<y, x>> \in R)
    BY <1>2
  <2>2. y < x => <<y, x>> \in R
    BY <2>1
  <2> QED
    BY <2>1, <2>2
<1> QED
  BY <1>2, <1>3 DEF Least

\* A non-empty set of records bounded by a stamp has a newest one.
LEMMA NewestInSet ==
    ASSUME NEW rs \in SUBSET Records, rs # {},
           NEW bound \in Nat, \A r \in rs : r.at < bound
    PROVE  /\ Newest(rs) \in rs
           /\ \A r \in rs : r.at <= Newest(rs).at
<1> DEFINE S == {bound - r.at : r \in rs}
<1>1. \A r \in rs : r.at \in Nat /\ bound - r.at \in Nat
  BY DEF Records, Stamps
<1>2. S \in SUBSET Nat /\ S # {}
  BY <1>1
<1>3. Least(S) \in S /\ \A j \in S : Least(S) <= j
  BY <1>2, LeastInSet
<1>4. PICK r \in rs : Least(S) = bound - r.at
  BY <1>3
<1>5. \A s \in rs : bound - r.at <= bound - s.at
  BY <1>3, <1>4
<1>6. \A s \in rs : s.at <= r.at
  BY <1>1, <1>5
<1> QED
  BY <1>6 DEF Newest

-----------------------------------------------------------------------------
(* The table of stages.                                                    *)

\* The stages whose record or artefact is the flow's previous artefact.
PreviousStages == (ApplyStages \cup AttestStages)
                    \ {"deploy", "deployed", "closing", "failed_incident"}

\* Every attest stage is one of seventeen.
LEMMA AttestStagesAre ==
    AttestStages = {"deployed", "closing", "failed_incident", "back_rolled",
        "back_deployed", "back_restored", "rollback_incident", "rolled",
        "rollback_deployed", "rollback_restored", "drill_incident",
        "drill_failed", "drill_rolled", "drill_restored", "drill_deployed",
        "drill_stays", "drill_rebuilt"}
BY DEF AttestStages, Emissions

\* What an attest stage writes has a type, and a stage that a previous
\* artefact follows is one that has it.
LEMMA EmissionsTyped ==
    ASSUME NEW s \in AttestStages
    PROVE  /\ Emissions[s].kind \in Kinds
           /\ Emissions[s].of \in {"artefact", "previous"}
           /\ Emissions[s].drill \in BOOLEAN
           /\ Emissions[s].mode \in Modes
           /\ Emissions[s].next \in Stages \ {"idle", "deploy"}
           /\ Emissions[s].of = "previous" => s \in PreviousStages
           /\ Emissions[s].next \in PreviousStages
                => s \in PreviousStages \cup {"failed_incident"}
           /\ Emissions[s].next = "closing" => s \in {"deployed", "closing"}
           /\ s \in {"closing", "back_restored", "rollback_restored"} => ~Emissions[s].drill
<1> USE AttestStagesAre DEF Emissions, Emission
<1>1. Emissions[s].kind \in Kinds
  BY DEF Kinds
<1>2. Emissions[s].of \in {"artefact", "previous"}
  OBVIOUS
<1>8. Emissions[s].drill \in BOOLEAN
  <2>1. s \in {"drill_incident", "drill_rolled", "drill_restored", "drill_rebuilt"}
          => Emissions[s].drill = TRUE
    OBVIOUS
  <2>2. s \notin {"drill_incident", "drill_rolled", "drill_restored", "drill_rebuilt"}
          => Emissions[s].drill = FALSE
    OBVIOUS
  <2> QED
    BY <2>1, <2>2, Zenon
<1>9. Emissions[s].mode \in Modes
  BY DEF Modes
<1>3. Emissions[s].next \in Stages \ {"idle", "deploy"}
  BY DEF Stages, ApplyStages
<1>4. Emissions[s].of = "previous" => s \in PreviousStages
  BY DEF PreviousStages, ApplyStages
<1>5. Emissions[s].next \in PreviousStages
        => s \in PreviousStages \cup {"failed_incident"}
  BY DEF PreviousStages, ApplyStages
<1>6. Emissions[s].next = "closing" => s \in {"deployed", "closing"}
  OBVIOUS
<1>7. s \in {"closing", "back_restored", "rollback_restored"} => ~Emissions[s].drill
  OBVIOUS
<1> QED
  BY <1>1, <1>2, <1>3, <1>4, <1>5, <1>6, <1>7, <1>8, <1>9

-----------------------------------------------------------------------------
(* The inductive invariant.                                                *)

\* A flow that applies or attests has the artefacts its stage works on, and
\* closes incidents only while some are left to close.
ArtefactsAtHand ==
    \A o \in Operators :
        /\ stage[o] \in ApplyStages \cup AttestStages => flow[o].artefact \in Artefacts
        /\ stage[o] \in PreviousStages => flow[o].previous \in Artefacts
        /\ stage[o] = "closing" => flow[o].opened # {}

\* Every record was emitted before now.
StampsPast == \A r \in ledger \cup spool : r.at < clock

IncidentAt(rs, i) == \E r \in Real(rs, "incident") : r.at = i

\* What a flow may name as an incident is recorded.
NamesKnown ==
    \A o \in Operators :
        /\ flow[o].incident # 0 => IncidentAt(ledger, flow[o].incident)
        /\ \A i \in flow[o].opened : IncidentAt(ledger, i)

IInv == TypeOK /\ ArtefactsAtHand /\ StampsPast /\ NamesKnown
          /\ RestoredNamesARecordedIncident

-----------------------------------------------------------------------------
(* What a flow reads from the ledger.                                      *)

\* The ledger's live artefact is an artefact, or the ledger names none.
LEMMA LiveArtefactTyped ==
    ASSUME NEW rs \in SUBSET Records,
           NEW bound \in Nat, \A r \in rs : r.at < bound
    PROVE  /\ LiveArtefact(rs) \in Artefacts \cup {Nothing}
           /\ LiveArtefact(rs) = Nothing => DeployedIn(rs) = {}
<1>1. CASE DeployedIn(rs) = {}
  BY <1>1 DEF LiveArtefact
<1>2. CASE DeployedIn(rs) # {}
  <2>1. /\ DeployedIn(rs) \in SUBSET Records
        /\ \A r \in DeployedIn(rs) : r.at < bound
    BY DEF DeployedIn
  <2>2. Newest(DeployedIn(rs)) \in Records
    BY <1>2, <2>1, NewestInSet
  <2> QED
    BY <1>2, <2>2, ConstantsAssumption DEF LiveArtefact, Records
<1> QED
  BY <1>1, <1>2

\* What a flow reads as live and as previous is an artefact or nothing, and a
\* ledger that names no live artefact names no previous one.
LEMMA ReadsTyped ==
    ASSUME TypeOK, StampsPast, NEW a
    PROVE  /\ LiveArtefact(ledger) \in Artefacts \cup {Nothing}
           /\ PreviousArtefact(ledger, a) \in Artefacts \cup {Nothing}
           /\ LiveArtefact(ledger) = Nothing => PreviousArtefact(ledger, a) = Nothing
<1> DEFINE others == {r \in DeployedIn(ledger) : r.digest # a}
<1>1. clock \in Nat /\ ledger \in SUBSET Records /\ \A r \in ledger : r.at < clock
  BY DEF TypeOK, StampsPast, Stamps
<1>2. others \in SUBSET Records /\ \A r \in others : r.at < clock
  BY <1>1 DEF DeployedIn
<1>3. /\ LiveArtefact(ledger) \in Artefacts \cup {Nothing}
      /\ LiveArtefact(ledger) = Nothing => DeployedIn(ledger) = {}
  BY <1>1, LiveArtefactTyped
<1>4. LiveArtefact(others) \in Artefacts \cup {Nothing}
  <2> HIDE DEF others
  <2> QED BY <1>1, <1>2, LiveArtefactTyped
<1>5. DeployedIn(ledger) = {} => LiveArtefact(others) = Nothing
  BY DEF DeployedIn, LiveArtefact
<1> QED
  BY <1>3, <1>4, <1>5 DEF PreviousArtefact

\* An incident a flow reads as open is one the ledger holds.
LEMMA OpenIncidentsKnown ==
    ASSUME NEW rs \in SUBSET Records
    PROVE  /\ OpenIncidents(rs) \in SUBSET Stamps
           /\ \A i \in OpenIncidents(rs) : IncidentAt(rs, i)
<1> DEFINE incidents == {r.at : r \in Real(rs, "incident")}
<1>1. OpenIncidents(rs) \subseteq incidents
  BY DEF OpenIncidents
<1>2. \A i \in incidents : i \in Stamps /\ IncidentAt(rs, i)
  BY DEF Real, IncidentAt, Records
<1> QED
  BY <1>1, <1>2

-----------------------------------------------------------------------------
(* What an attest stage writes.                                            *)

\* A record is well formed, and names as its incident one the ledger holds.
LEMMA EmittedTyped ==
    ASSUME IInv, NEW o \in Operators, stage[o] \in AttestStages
    PROVE  /\ Emitted(o) \in Records
           /\ Emitted(o).at = clock
           /\ Emitted(o).incident # 0 => /\ ~Emitted(o).drill
                                         /\ IncidentAt(ledger, Emitted(o).incident)
           /\ StillOpen(o) \in SUBSET flow[o].opened
<1> DEFINE e == Emissions[stage[o]]
<1>1. /\ e.kind \in Kinds /\ e.drill \in BOOLEAN /\ e.mode \in Modes
      /\ e.of \in {"artefact", "previous"}
      /\ e.of = "previous" => stage[o] \in PreviousStages
      /\ stage[o] \in {"closing", "back_restored", "rollback_restored"} => ~e.drill
  BY EmissionsTyped
<1>2. /\ flow[o] \in FlowStates /\ clock \in Stamps
      /\ flow[o].artefact \in Artefacts
      /\ stage[o] \in PreviousStages => flow[o].previous \in Artefacts
      /\ stage[o] = "closing" => flow[o].opened # {}
      /\ flow[o].incident # 0 => IncidentAt(ledger, flow[o].incident)
      /\ \A i \in flow[o].opened : IncidentAt(ledger, i)
  BY DEF IInv, TypeOK, ArtefactsAtHand, NamesKnown
<1>3. flow[o].opened \in SUBSET Nat /\ flow[o].incident \in Nat
  BY <1>2 DEF FlowStates, Stamps
<1>4. flow[o].opened # {} => Least(flow[o].opened) \in flow[o].opened
  BY <1>3, LeastInSet
<1>5. Named(o) \in Nat
  BY <1>2, <1>3, <1>4 DEF Named
<1>6. Named(o) # 0 => /\ stage[o] \in {"closing", "back_restored", "rollback_restored"}
                      /\ IncidentAt(ledger, Named(o))
  BY <1>2, <1>3, <1>4 DEF Named
<1>7. StillOpen(o) \in SUBSET flow[o].opened
  BY DEF StillOpen
<1>8. (IF e.of = "artefact" THEN flow[o].artefact ELSE flow[o].previous) \in Artefacts
  BY <1>1, <1>2
<1> HIDE DEF e
<1>9. Emitted(o) = [kind |-> e.kind,
                    digest |-> IF e.of = "artefact" THEN flow[o].artefact
                                                    ELSE flow[o].previous,
                    from |-> IF e.kind = "rolled_back" THEN flow[o].artefact
                                                       ELSE Nothing,
                    mode |-> e.mode, drill |-> e.drill, incident |-> Named(o), at |-> clock]
  BY DEF Emitted, e
<1>10. Emitted(o) \in Records
  BY <1>1, <1>2, <1>5, <1>8, <1>9 DEF Records
<1>11. Emitted(o).at = clock /\ Emitted(o).incident = Named(o)
  BY <1>9
<1>12. Emitted(o).drill = e.drill
  BY <1>9
<1> QED
  BY <1>1, <1>6, <1>7, <1>10, <1>11, <1>12

-----------------------------------------------------------------------------
(* Each step preserves the invariant.                                      *)

\* The records are untouched and one flow changes to a state that has what
\* its stage needs.
LEMMA FlowChange ==
    ASSUME IInv, NEW o \in Operators, NEW st \in Stages, NEW fl \in FlowStates,
           stage' = [stage EXCEPT ![o] = st], flow' = [flow EXCEPT ![o] = fl],
           UNCHANGED <<scope, ledger, spool, clock>>,
           serving' \in Artefacts \cup {Down}, lock' \in Operators \cup {Nothing},
           phase' \in [Operators -> Phases], exit' \in [Operators -> Exits],
           started' \in 0..MaxFlows,
           st \in ApplyStages \cup AttestStages => fl.artefact \in Artefacts,
           st \in PreviousStages => fl.previous \in Artefacts,
           st = "closing" => fl.opened # {},
           fl.incident # 0 => IncidentAt(ledger, fl.incident),
           \A i \in fl.opened : IncidentAt(ledger, i)
    PROVE  IInv'
<1>1. TypeOK'
  BY DEF IInv, TypeOK
<1>2. ArtefactsAtHand'
  BY DEF IInv, TypeOK, ArtefactsAtHand
<1>3. StampsPast' /\ RestoredNamesARecordedIncident'
  BY DEF IInv, StampsPast, RestoredNamesARecordedIncident, Real
<1>4. NamesKnown'
  BY DEF IInv, TypeOK, NamesKnown, IncidentAt, Real
<1> QED
  BY <1>1, <1>2, <1>3, <1>4 DEF IInv

\* A command that ends leaves nothing behind.
LEMMA FlowEnds ==
    ASSUME IInv, NEW o \in Operators,
           stage' = [stage EXCEPT ![o] = "idle"], flow' = [flow EXCEPT ![o] = NoFlow],
           UNCHANGED <<scope, serving, ledger, spool, clock, started>>,
           lock' \in Operators \cup {Nothing},
           phase' \in [Operators -> Phases], exit' \in [Operators -> Exits]
    PROVE  IInv'
<1>1. NoFlow \in FlowStates /\ NoFlow.incident = 0 /\ NoFlow.opened = {}
  BY DEF NoFlow, FlowStates, Stamps
<1>2. "idle" \in Stages \ (ApplyStages \cup AttestStages)
  BY AttestStagesAre DEF Stages, ApplyStages
<1>3. serving' \in Artefacts \cup {Down} /\ started' \in 0..MaxFlows
  BY DEF IInv, TypeOK
<1> HIDE DEF NoFlow
<1> QED
  BY <1>1, <1>2, <1>3, FlowChange, AttestStagesAre DEF PreviousStages

\* Starting a forward, a rollback or a drill preserves the invariant.
LEMMA StartKeeps ==
    ASSUME IInv, NEW o \in Operators, NEW a \in Artefacts,
           NEW first \in {"deploy", "roll_back", "drill_incident", "restore_backup"},
           NEW opened \in SUBSET Stamps, \A i \in opened : IncidentAt(ledger, i),
           first # "deploy" => PreviousArtefact(ledger, a) # Nothing,
           Start(o, first, a, opened)
    PROVE  IInv'
<1> DEFINE p == PreviousArtefact(ledger, a)
<1> DEFINE fl == [NoFlow EXCEPT !.artefact = a, !.previous = p, !.opened = opened]
<1>1. p \in Artefacts \cup {Nothing}
  BY ReadsTyped DEF IInv
<1>2. /\ fl \in FlowStates /\ fl.artefact = a /\ fl.incident = 0 /\ fl.opened = opened
      /\ fl.previous = p
  <2> HIDE DEF p
  <2> QED
    BY <1>1 DEF NoFlow, FlowStates, Stamps
<1>3. /\ stage' = [stage EXCEPT ![o] = first] /\ flow' = [flow EXCEPT ![o] = fl]
      /\ UNCHANGED <<scope, serving, lock, ledger, spool, clock, phase, exit>>
      /\ started' = started + 1 /\ started < scope.started
  BY DEF Start
<1>4. /\ started' \in 0..MaxFlows
      /\ serving' \in Artefacts \cup {Down} /\ lock' \in Operators \cup {Nothing}
      /\ phase' \in [Operators -> Phases] /\ exit' \in [Operators -> Exits]
  BY <1>3, ConstantsAssumption DEF IInv, TypeOK
<1>5. first \in Stages /\ first # "closing" /\ "deploy" \notin PreviousStages
  BY AttestStagesAre DEF Stages, ApplyStages, PreviousStages
<1> HIDE DEF fl
<1> QED
  BY <1>1, <1>2, <1>3, <1>4, <1>5, FlowChange

\* An apply takes its flow to a stage that has its artefacts.
LEMMA ApplyStagesTyped ==
    ASSUME NEW s \in ApplyStages
    PROVE  /\ OnSuccess[s] \in Stages \ {"closing"}
           /\ OnFailure[s] \in Stages \ {"closing"}
           /\ OnSuccess[s] \in PreviousStages \/ s \in {"deploy"}
           /\ s = "deploy" => OnSuccess[s] \notin PreviousStages
           /\ s = "deploy" => OnFailure[s] \notin PreviousStages
           /\ s # "deploy" => s \in PreviousStages
           /\ s \notin AttestStages
BY AttestStagesAre
   DEF OnSuccess, OnFailure, ApplyStages, Stages, PreviousStages

\* Every step of Target.apply preserves the invariant.
LEMMA ApplyKeeps ==
    ASSUME IInv, NEW o \in Operators,
           \/ TakeLock(o) \/ Switch(o) \/ ScriptEnds(o)
           \/ Rebuilt(o) \/ Verified(o) \/ ApplyFails(o) \/ FindLocked(o)
    PROVE  IInv'
<1> USE DEF IInv
<1>0. /\ stage[o] \in Stages /\ flow[o] \in FlowStates /\ stage \in [Operators -> Stages]
      /\ flow \in [Operators -> FlowStates] /\ phase \in [Operators -> Phases]
      /\ lock \in Operators \cup {Nothing} /\ started \in 0..MaxFlows
      /\ serving \in Artefacts \cup {Down} /\ exit \in [Operators -> Exits]
  BY DEF TypeOK
<1>1. /\ stage[o] \in ApplyStages \cup AttestStages => flow[o].artefact \in Artefacts
      /\ stage[o] \in PreviousStages => flow[o].previous \in Artefacts
      /\ stage[o] = "closing" => flow[o].opened # {}
      /\ flow[o].incident # 0 => IncidentAt(ledger, flow[o].incident)
      /\ \A i \in flow[o].opened : IncidentAt(ledger, i)
  BY DEF ArtefactsAtHand, NamesKnown
<1>2. stage = [stage EXCEPT ![o] = stage[o]] /\ flow = [flow EXCEPT ![o] = flow[o]]
  BY <1>0
<1>3. stage[o] \in ApplyStages =>
        Subject(o) \in Artefacts
  BY <1>1, ApplyStagesTyped DEF Subject, Applied, ApplyStages
<1>4. CASE TakeLock(o) \/ ScriptEnds(o)
  <2>1. /\ lock' \in Operators \cup {Nothing} /\ phase' \in [Operators -> Phases]
        /\ UNCHANGED <<scope, serving, ledger, spool, clock, stage, flow, exit, started>>
    BY <1>0, <1>4 DEF TakeLock, ScriptEnds, Phases
  <2>2. stage' = [stage EXCEPT ![o] = stage[o]] /\ flow' = [flow EXCEPT ![o] = flow[o]]
    BY <1>2, <2>1
  <2> QED
    BY <1>0, <1>1, <2>1, <2>2, FlowChange
<1>5. CASE Switch(o)
  <2>1. /\ serving' \in Artefacts \cup {Down} /\ phase' \in [Operators -> Phases]
        /\ UNCHANGED <<scope, lock, ledger, spool, clock, stage, flow, exit, started>>
    BY <1>0, <1>3, <1>5 DEF Switch, InApply, Phases
  <2>2. stage' = [stage EXCEPT ![o] = stage[o]] /\ flow' = [flow EXCEPT ![o] = flow[o]]
    BY <1>2, <2>1
  <2> QED
    BY <1>0, <1>1, <2>1, <2>2, FlowChange
<1>6. CASE Verified(o) \/ Rebuilt(o)
  <2>1. /\ stage[o] \in ApplyStages /\ stage' = [stage EXCEPT ![o] = OnSuccess[stage[o]]]
        /\ phase' \in [Operators -> Phases] /\ lock' \in Operators \cup {Nothing}
        /\ UNCHANGED <<scope, serving, ledger, spool, clock, flow, exit, started>>
    BY <1>0, <1>6 DEF Verified, Rebuilt, InApply, Phases
  <2>2. flow' = [flow EXCEPT ![o] = flow[o]]
    BY <1>2, <2>1
  <2>3. /\ OnSuccess[stage[o]] \in Stages \ {"closing"}
        /\ OnSuccess[stage[o]] \in PreviousStages => flow[o].previous \in Artefacts
        /\ flow[o].artefact \in Artefacts
    BY <1>1, <2>1, ApplyStagesTyped
  <2> QED
    BY <1>0, <1>1, <2>1, <2>2, <2>3, FlowChange
<1>7. CASE ApplyFails(o)
  <2> DEFINE fl == [flow[o] EXCEPT !.failed = TRUE]
  <2>1. /\ stage[o] \in ApplyStages /\ stage' = [stage EXCEPT ![o] = OnFailure[stage[o]]]
        /\ phase' \in [Operators -> Phases] /\ lock' \in Operators \cup {Nothing}
        /\ flow' = [flow EXCEPT ![o] = fl]
        /\ UNCHANGED <<scope, serving, ledger, spool, clock, exit, started>>
    BY <1>0, <1>7 DEF ApplyFails, Released, Phases
  <2>2. /\ fl \in FlowStates /\ fl.artefact = flow[o].artefact
        /\ fl.previous = flow[o].previous /\ fl.incident = flow[o].incident
        /\ fl.opened = flow[o].opened
    BY <1>0 DEF FlowStates
  <2>3. /\ OnFailure[stage[o]] \in Stages \ {"closing"}
        /\ OnFailure[stage[o]] \in PreviousStages => flow[o].previous \in Artefacts
        /\ flow[o].artefact \in Artefacts
    BY <1>1, <2>1, ApplyStagesTyped
  <2> HIDE DEF fl
  <2> QED
    BY <1>0, <1>1, <2>1, <2>2, <2>3, FlowChange
<1>8. CASE FindLocked(o)
  <2>1. exit' \in [Operators -> Exits]
    BY <1>0, <1>8 DEF FindLocked, Exits
  <2> QED
    BY <1>0, <1>8, <2>1, FlowEnds DEF FindLocked
<1> QED
  BY <1>4, <1>5, <1>6, <1>7, <1>8

\* Where an attest stage leads.
LEMMA NextStageTyped ==
    ASSUME IInv, NEW o \in Operators, stage[o] \in AttestStages,
           NEW recorded \in BOOLEAN
    PROVE  /\ NextStage(o, recorded) \in Stages
           /\ NextStage(o, recorded) \in PreviousStages => flow[o].previous \in Artefacts
           /\ NextStage(o, recorded) = "closing" => StillOpen(o) # {}
<1> DEFINE next == Emissions[stage[o]].next
<1>1. /\ next \in Stages
      /\ next \in PreviousStages => stage[o] \in PreviousStages \cup {"failed_incident"}
      /\ next = "closing" => stage[o] \in {"deployed", "closing"}
  BY EmissionsTyped
<1>2. /\ stage[o] \in PreviousStages => flow[o].previous \in Artefacts
      /\ flow[o].previous \in Artefacts \cup {Nothing}
  BY DEF IInv, TypeOK, ArtefactsAtHand, FlowStates
<1>3. "report" \in Stages \ PreviousStages
  BY AttestStagesAre DEF Stages, PreviousStages, ApplyStages
<1>4. NextStage(o, recorded) \in {"report", next}
  BY DEF NextStage
<1>5. NextStage(o, recorded) # "report" /\ stage[o] = "failed_incident"
        => flow[o].previous # Nothing
  BY DEF NextStage
<1>6. NextStage(o, recorded) # "report" /\ stage[o] \in {"deployed", "closing"}
        => StillOpen(o) # {}
  BY DEF NextStage
<1> HIDE DEF next
<1> QED
  BY <1>1, <1>2, <1>3, <1>4, <1>5, <1>6

\* Writing a record that is typed, stamped now and true about its incident.
LEMMA RecordsChange ==
    ASSUME IInv, NEW r \in Records, r.at = clock,
           r.incident # 0 => ~r.drill /\ IncidentAt(ledger, r.incident),
           ledger' \in {ledger, ledger \cup {r}}, spool' \in {spool, spool \cup {r}},
           clock' = clock + 1
    PROVE  /\ (ledger \subseteq Records /\ spool \subseteq Records /\ clock \in Stamps)'
           /\ StampsPast'
           /\ RestoredNamesARecordedIncident'
<1> USE DEF IInv
<1>1. /\ ledger \subseteq Records /\ spool \subseteq Records /\ clock \in Nat \ {0}
      /\ \A s \in ledger \cup spool : s.at < clock /\ s.at \in Nat
  BY DEF TypeOK, StampsPast, Records, Stamps
<1>2. (ledger \subseteq Records /\ spool \subseteq Records /\ clock \in Stamps)'
  BY <1>1 DEF Stamps
<1>3. StampsPast'
  BY <1>1 DEF StampsPast
<1>4. RestoredNamesARecordedIncident'
  <2> SUFFICES ASSUME NEW s \in ledger' \cup spool', s.kind = "restored", s.incident # 0
               PROVE  /\ ~s.drill
                      /\ \E i \in Real(ledger', "incident") :
                           i.at = s.incident /\ i.at < s.at
    BY DEF RestoredNamesARecordedIncident
  <2>1. Real(ledger, "incident") \subseteq Real(ledger', "incident")
    BY DEF Real
  <2>2. CASE s \in ledger \cup spool
    BY <2>1, <2>2 DEF RestoredNamesARecordedIncident
  <2>3. CASE s = r
    <3>1. PICK i \in Real(ledger, "incident") : i.at = r.incident
      BY <2>3 DEF IncidentAt
    <3>2. i.at < r.at
      BY <1>1 DEF Real
    <3> QED
      BY <2>1, <2>3, <3>1, <3>2
  <2> QED
    BY <2>2, <2>3
<1> QED
  BY <1>2, <1>3, <1>4

\* Attester.attest preserves the invariant, recorded or not.
LEMMA AttestKeeps ==
    ASSUME IInv, NEW o \in Operators, AttestRecorded(o) \/ AttestWaits(o) \/ AttestFails(o)
    PROVE  IInv'
<1> USE DEF IInv
<1>1. stage[o] \in AttestStages
  BY DEF AttestRecorded, AttestWaits, AttestFails
<1>2. PICK recorded \in BOOLEAN :
        /\ Attested(o, recorded)
        /\ recorded => ledger' = ledger \cup {Emitted(o)}
        /\ ledger' \in {ledger, ledger \cup {Emitted(o)}}
        /\ spool' \in {spool, spool \cup {Emitted(o)}}
  BY DEF AttestRecorded, AttestWaits, AttestFails
<1> DEFINE r == Emitted(o)
<1> DEFINE st == NextStage(o, recorded)
<1> DEFINE incident == IF stage[o] = "failed_incident" /\ recorded THEN clock
                                                             ELSE flow[o].incident
<1> DEFINE fl == [flow[o] EXCEPT !.attesting = TRUE, !.opened = StillOpen(o),
                                 !.incident = incident,
                                 !.waiting = @ \/ ~recorded]
<1>3. /\ r \in Records /\ r.at = clock
      /\ r.incident # 0 => ~r.drill /\ IncidentAt(ledger, r.incident)
      /\ StillOpen(o) \in SUBSET flow[o].opened
  BY <1>1, EmittedTyped
<1>4. /\ clock' = clock + 1
      /\ stage' = [stage EXCEPT ![o] = st]
      /\ UNCHANGED <<scope, serving, lock, phase, exit, started>>
  BY <1>2 DEF Attested
<1>5. flow' = [flow EXCEPT ![o] = fl]
  BY <1>2 DEF Attested, TypeOK
<1>6. /\ flow[o] \in FlowStates /\ clock \in Nat
      /\ stage \in [Operators -> Stages] /\ flow \in [Operators -> FlowStates]
  BY DEF TypeOK, Stamps
<1>7. /\ st \in Stages
      /\ st \in PreviousStages => flow[o].previous \in Artefacts
      /\ st = "closing" => StillOpen(o) # {}
  BY <1>1, NextStageTyped
<1>8. flow[o].artefact \in Artefacts
  BY <1>1 DEF ArtefactsAtHand
<1>9. (ledger \subseteq Records /\ spool \subseteq Records /\ clock \in Stamps)'
        /\ StampsPast' /\ RestoredNamesARecordedIncident'
  <2> HIDE DEF r
  <2> QED BY <1>2, <1>3, <1>4, RecordsChange DEF r
<1>10. Real(ledger, "incident") \subseteq Real(ledger', "incident")
  BY <1>2 DEF Real
<1>11. stage[o] = "failed_incident" => r.kind = "incident" /\ r.drill = FALSE
  BY DEF Emitted, Emissions, Emission
<1>12. stage[o] = "failed_incident" /\ recorded => IncidentAt(ledger', clock)
  BY <1>2, <1>3, <1>11 DEF IncidentAt, Real
<1>13. incident # 0 => IncidentAt(ledger', incident)
  BY <1>10, <1>12 DEF NamesKnown, IncidentAt
<1> HIDE DEF r, st, incident
<1>14. /\ fl \in FlowStates /\ fl.opened = StillOpen(o) /\ fl.incident = incident
       /\ fl.artefact = flow[o].artefact /\ fl.previous = flow[o].previous
  <2>1. incident \in Nat
    BY <1>6 DEF incident, FlowStates
  <2>2. StillOpen(o) \in SUBSET Stamps
    BY <1>3, <1>6 DEF FlowStates
  <2> QED
    BY <1>6, <2>1, <2>2 DEF FlowStates
<1> HIDE DEF fl
<1>15. TypeOK'
  BY <1>4, <1>5, <1>6, <1>7, <1>9, <1>14 DEF TypeOK
<1>16. ArtefactsAtHand'
  <2> SUFFICES ASSUME NEW q \in Operators
               PROVE  /\ stage'[q] \in ApplyStages \cup AttestStages
                           => flow'[q].artefact \in Artefacts
                      /\ stage'[q] \in PreviousStages => flow'[q].previous \in Artefacts
                      /\ stage'[q] = "closing" => flow'[q].opened # {}
    BY DEF ArtefactsAtHand
  <2>1. CASE q = o
    BY <1>4, <1>5, <1>6, <1>7, <1>8, <1>14, <2>1
  <2>2. CASE q # o
    BY <1>4, <1>5, <1>6, <2>2 DEF ArtefactsAtHand
  <2> QED
    BY <2>1, <2>2
<1>17. NamesKnown'
  <2> SUFFICES ASSUME NEW q \in Operators
               PROVE  /\ flow'[q].incident # 0 => IncidentAt(ledger', flow'[q].incident)
                      /\ \A i \in flow'[q].opened : IncidentAt(ledger', i)
    BY DEF NamesKnown, IncidentAt
  <2>1. \A i : IncidentAt(ledger, i) => IncidentAt(ledger', i)
    BY <1>10 DEF IncidentAt
  <2>2. CASE q = o
    BY <1>3, <1>5, <1>6, <1>13, <1>14, <2>1, <2>2 DEF NamesKnown
  <2>3. CASE q # o
    BY <1>5, <1>6, <2>1, <2>3 DEF NamesKnown
  <2> QED
    BY <2>2, <2>3
<1> QED
  BY <1>9, <1>15, <1>16, <1>17

\* `rail ledger replay` preserves the invariant.
LEMMA ReplayKeeps ==
    ASSUME IInv, NEW r \in spool, Replay(r)
    PROVE  IInv'
<1> USE DEF IInv
<1>1. /\ ledger' = ledger \cup {r} /\ spool' = spool \ {r}
      /\ UNCHANGED <<scope, serving, lock, clock, stage, phase, flow, exit, started>>
  BY DEF Replay
<1>2. Real(ledger, "incident") \subseteq Real(ledger', "incident")
  BY <1>1 DEF Real
<1>3. TypeOK' /\ ArtefactsAtHand' /\ StampsPast'
  BY <1>1 DEF TypeOK, ArtefactsAtHand, StampsPast
<1>4. NamesKnown'
  BY <1>1, <1>2 DEF NamesKnown, IncidentAt
<1>5. RestoredNamesARecordedIncident'
  BY <1>1, <1>2 DEF RestoredNamesARecordedIncident
<1> QED
  BY <1>3, <1>4, <1>5

\* An empty ledger and idle operators satisfy the invariant.
LEMMA InitHolds == Init => IInv
<1> SUFFICES ASSUME Init PROVE IInv
  OBVIOUS
<1>1. NoFlow \in FlowStates /\ NoFlow.incident = 0 /\ NoFlow.opened = {}
  BY DEF NoFlow, FlowStates, Stamps
<1>2. "idle" \in Stages \ (ApplyStages \cup AttestStages \cup PreviousStages)
  BY AttestStagesAre DEF Stages, ApplyStages, PreviousStages
<1>3. TypeOK
  BY <1>1, <1>2, ConstantsAssumption DEF Init, TypeOK, Stamps, Phases, Exits
<1> HIDE DEF NoFlow
<1>4. ArtefactsAtHand /\ NamesKnown
  BY <1>1, <1>2, AttestStagesAre DEF Init, ArtefactsAtHand, NamesKnown
<1>5. StampsPast /\ RestoredNamesARecordedIncident
  BY DEF Init, StampsPast, RestoredNamesARecordedIncident
<1> QED
  BY <1>3, <1>4, <1>5 DEF IInv

\* Every step preserves the invariant.
LEMMA NextKeeps == IInv /\ [Next]_vars => IInv'
<1> SUFFICES ASSUME IInv, [Next]_vars PROVE IInv'
  OBVIOUS
<1>1. CASE UNCHANGED vars
  BY <1>1 DEF vars, IInv, TypeOK, ArtefactsAtHand, StampsPast, NamesKnown,
     IncidentAt, RestoredNamesARecordedIncident, Real
<1>2. ASSUME NEW r \in spool, Replay(r) PROVE IInv'
  BY <1>2, ReplayKeeps
<1>3. ASSUME NEW o \in Operators, Step(o) PROVE IInv'
  <2>0. /\ phase \in [Operators -> Phases] /\ exit \in [Operators -> Exits]
        /\ lock \in Operators \cup {Nothing} /\ ledger \in SUBSET Records
    BY DEF IInv, TypeOK
  <2>1. /\ OpenIncidents(ledger) \in SUBSET Stamps
        /\ \A i \in OpenIncidents(ledger) : IncidentAt(ledger, i)
    BY <2>0, OpenIncidentsKnown
  <2>2. TwoDeployed => /\ LiveArtefact(ledger) \in Artefacts
                       /\ PreviousArtefact(ledger, LiveArtefact(ledger)) # Nothing
    BY ReadsTyped DEF IInv, TwoDeployed
  <2>3. CASE StartForward(o)
    BY <2>1, <2>3, StartKeeps DEF StartForward
  <2>4. CASE StartRollback(o)
    BY <2>1, <2>2, <2>4, StartKeeps DEF StartRollback
  <2>5. CASE StartDrill(o)
    <3>1. {} \in SUBSET Stamps /\ \A i \in {} : IncidentAt(ledger, i)
      OBVIOUS
    <3>2. TwoDeployed /\ Start(o, "drill_incident", LiveArtefact(ledger), {})
      BY <2>5 DEF StartDrill
    <3> QED
      BY <2>2, <3>1, <3>2, StartKeeps
  <2>10. CASE StartRestore(o)
    <3>1. {} \in SUBSET Stamps /\ \A i \in {} : IncidentAt(ledger, i)
      OBVIOUS
    <3>2. TwoDeployed /\ Start(o, "restore_backup", LiveArtefact(ledger), {})
      BY <2>10 DEF StartRestore
    <3> QED
      BY <2>2, <3>1, <3>2, StartKeeps
  <2>6. CASE TakeLock(o) \/ FindLocked(o) \/ Switch(o) \/ ScriptEnds(o)
               \/ Rebuilt(o) \/ Verified(o) \/ ApplyFails(o)
    BY <2>6, ApplyKeeps
  <2>7. CASE AttestRecorded(o) \/ AttestWaits(o) \/ AttestFails(o)
    BY <2>7, AttestKeeps
  <2>8. CASE AttestAborts(o) \/ Report(o)
    <3>1. exit' \in [Operators -> Exits]
      BY <2>0, <2>8 DEF AttestAborts, Report, Exits
    <3> QED
      BY <2>0, <2>8, <3>1, FlowEnds DEF AttestAborts, Report
  <2>9. CASE Crash(o)
    <3>1. /\ exit' \in [Operators -> Exits] /\ phase' \in [Operators -> Phases]
          /\ lock' \in Operators \cup {Nothing}
      BY <2>0, <2>9 DEF Crash, Released, Exits, Phases
    <3> QED
      BY <2>9, <3>1, FlowEnds DEF Crash
  <2> QED
    BY <1>3, <2>3, <2>4, <2>5, <2>6, <2>7, <2>8, <2>9, <2>10 DEF Step, Progress
<1> QED
  BY <1>1, <1>2, <1>3 DEF Next

-----------------------------------------------------------------------------
(* The theorems.                                                           *)

\* The inductive invariant holds in every reachable state.
THEOREM Invariance == Spec => []IInv
<1>1. Init => IInv
  BY InitHolds
<1>2. IInv /\ [Next]_vars => IInv'
  BY NextKeeps
<1> QED
  BY <1>1, <1>2, PTL DEF Spec

\* Every behaviour of the flows keeps the types of their state, whatever the
\* numbers of operators, artefacts and flows and whichever failures happen.
THEOREM TypeCorrect == Spec => []TypeOK
<1>1. IInv => TypeOK
  BY DEF IInv
<1> QED
  BY <1>1, Invariance, PTL

\* No recovery evidence dangles: a restored that names an incident names a
\* real one that the ledger itself holds and that was recorded earlier.
THEOREM RecoveriesAreEvidenced == Spec => []RestoredNamesARecordedIncident
<1>1. IInv => RestoredNamesARecordedIncident
  BY DEF IInv
<1> QED
  BY <1>1, Invariance, PTL

\* The remote scripts of one target never overlap, for any number of
\* operators and whatever dies, fails or times out.
THEOREM MutualExclusion == Spec => []OneScriptAtATime
<1>1. Init => OneScriptAtATime
  <2> SUFFICES ASSUME Init PROVE OneScriptAtATime
    OBVIOUS
  <2>1. lock = Nothing /\ \A o \in Operators : phase[o] = "ready"
    BY DEF Init
  <2> QED
    BY <2>1, OperatorAssumption DEF OneScriptAtATime
<1>2. TypeOK /\ OneScriptAtATime /\ [Next]_vars => OneScriptAtATime'
  <2> SUFFICES ASSUME TypeOK, OneScriptAtATime, [Next]_vars
               PROVE  OneScriptAtATime'
    OBVIOUS
  <2> USE OperatorAssumption DEF TypeOK, OneScriptAtATime
  <2>1. CASE UNCHANGED <<lock, phase>>
    BY <2>1
  <2>2. ASSUME NEW o \in Operators, TakeLock(o) \/ ScriptEnds(o) \/ Rebuilt(o)
        PROVE  OneScriptAtATime'
    BY <2>2 DEF TakeLock, ScriptEnds, Rebuilt, InApply
  <2>3. ASSUME NEW o \in Operators, Switch(o) \/ Verified(o)
        PROVE  OneScriptAtATime'
    BY <2>3 DEF Switch, Verified, InApply
  <2>4. ASSUME NEW o \in Operators, ApplyFails(o) \/ Crash(o)
        PROVE  OneScriptAtATime'
    BY <2>4 DEF ApplyFails, Crash, Released
  <2>5. CASE UNCHANGED vars
    BY <2>1, <2>5 DEF vars
  <2>6. ASSUME NEW r \in spool, Replay(r) PROVE OneScriptAtATime'
    BY <2>1, <2>6 DEF Replay
  <2>7. ASSUME NEW o \in Operators,
               \/ StartForward(o) \/ StartRollback(o) \/ StartDrill(o)
               \/ StartRestore(o) \/ FindLocked(o) \/ AttestRecorded(o) \/ AttestWaits(o)
               \/ AttestFails(o) \/ AttestAborts(o) \/ Report(o)
        PROVE  UNCHANGED <<lock, phase>>
    BY <2>7 DEF StartForward, StartRollback, StartDrill, StartRestore, Start, FindLocked,
       AttestRecorded, AttestWaits, AttestFails, Attested, AttestAborts, Report
  <2> QED
    BY <2>1, <2>2, <2>3, <2>4, <2>5, <2>6, <2>7 DEF Next, Step, Progress
<1> QED
  BY <1>1, <1>2, TypeCorrect, PTL DEF Spec

-----------------------------------------------------------------------------
(***************************************************************************)
(* With one operator: what the ledger says of what the target serves.      *)
(*                                                                         *)
(* The invariant follows a flow through its stages.  Own: a flow walks     *)
(* through the stages of the kinds its scope has.  Serves: the stage of a  *)
(* deployed or rolled_back record is reached with its artefact live.       *)
(* Tracks: where the newest `deployed` is right, or an incident is newer   *)
(* than it.  Settles: where exit 0 is still possible, and why it is        *)
(* earned.                                                                 *)
(***************************************************************************)

DrillStages == {"drill_incident", "drill_back", "drill_failed", "drill_rolled",
                "drill_restored", "drill_forward", "drill_deployed", "drill_stays"}

Known == ledger \cup spool

Recorded ==
    \/ serving = LiveArtefact(Known)
    \/ serving = Down /\ DeployedIn(Known) = {}
    \/ InDoubt(Known)

\* A recorded `deployed` of a is newer than every other, waiting ones included.
Leads(a) ==
    \E r \in DeployedIn(ledger) :
        /\ r.digest = a
        /\ \A s \in DeployedIn(Known) : s = r \/ s.at < r.at

Own(o) ==
    /\ o \notin scope.operators => (stage[o] = "idle" /\ exit[o] = "none")
    /\ "drill" \notin scope.flows => stage[o] \notin DrillStages
    /\ "restore" \notin scope.flows => stage[o] \notin {"restore_backup", "drill_rebuilt"}

Serves(o) ==
    /\ stage[o] \in {"deployed", "drill_deployed"} => serving = flow[o].artefact
    /\ stage[o] \in {"back_rolled", "back_deployed", "rolled", "rollback_deployed",
                     "drill_rolled"} => serving = flow[o].previous

Calm == "drill" \notin scope.flows /\ ~scope.errors /\ ~scope.crashes

Tracks(o) ==
    o \in scope.operators =>
        /\ stage[o] \in {"idle", "report", "closing", "back_restored", "rollback_restored",
                         "restore_backup", "drill_rebuilt"} => Recorded
        /\ stage[o] \in {"deploy", "roll_back"} /\ phase[o] \in {"ready", "script"} => Recorded
        /\ stage[o] = "put_back" => InDoubt(Known)

FailedStages == {"drill_stays", "drill_failed", "failed_incident", "put_back", "back_rolled",
                 "back_deployed", "back_restored", "rollback_incident"}

Settles(o) ==
    o \in scope.operators =>
        /\ stage[o] = "idle" /\ exit[o] = "ok" => Leads(serving)
        /\ /\ stage[o] \in {"report", "closing", "rollback_restored"}
           /\ ~flow[o].failed /\ ~flow[o].waiting
           => Leads(serving)
        /\ stage[o] \in FailedStages => flow[o].failed

\* What one operator keeps of its flow.
Keeps(o) ==
    /\ Own(o)
    /\ Alone => /\ Serves(o)
                /\ Calm => Tracks(o)
                /\ "restore" \notin scope.flows => Settles(o)

SoleInv == \A o \in Operators : Keeps(o)

(* What a record changes in what the ledger says. *)

LEMMA AddDeployed ==
    ASSUME NEW rs, rs \subseteq Records, NEW n \in Nat, \A x \in rs : x.at < n,
           NEW r \in Records, r.at = n, r.kind = "deployed"
    PROVE  LiveArtefact(rs \cup {r}) = r.digest
<1> DEFINE all == DeployedIn(rs \cup {r})
<1>1. r \in all BY DEF DeployedIn
<1>2. \A x \in all : x \in Records /\ x.at \in Nat /\ (x = r \/ x.at < n)
  BY DEF DeployedIn, Records, Stamps
<1>3. \A s \in all : s.at <= r.at BY <1>2
<1>4. \A x \in all : (\A s \in all : s.at <= x.at) => x = r
  BY <1>1, <1>2
<1>5. LiveArtefact(rs \cup {r}) = Newest(all).digest
  BY <1>1 DEF LiveArtefact
<1> HIDE DEF all
<1>6. Newest(all) = r BY <1>1, <1>3, <1>4 DEF Newest
<1> QED BY <1>5, <1>6

LEMMA AddOther ==
    ASSUME NEW rs, NEW r, r.kind # "deployed"
    PROVE  /\ DeployedIn(rs \cup {r}) = DeployedIn(rs)
           /\ LiveArtefact(rs \cup {r}) = LiveArtefact(rs)
           /\ InDoubt(rs) => InDoubt(rs \cup {r})
<1>1. DeployedIn(rs \cup {r}) = DeployedIn(rs) BY DEF DeployedIn
<1>2. Real(rs, "incident") \subseteq Real(rs \cup {r}, "incident") BY DEF Real
<1> QED BY <1>1, <1>2 DEF LiveArtefact, InDoubt

LEMMA AddIncident ==
    ASSUME NEW rs, NEW n, \A x \in rs : x.at < n,
           NEW r, r.at = n, r.kind = "incident", ~r.drill
    PROVE  InDoubt(rs \cup {r})
<1>1. r \in Real(rs \cup {r}, "incident") BY DEF Real
<1>2. \A d \in DeployedIn(rs \cup {r}) : d.at < r.at BY DEF DeployedIn
<1> QED BY <1>1, <1>2 DEF InDoubt

\* The operator who leads is the one the ledger names.
LEMMA LeadsIsLive ==
    ASSUME TypeOK, NEW a, Leads(a)
    PROVE  LiveArtefact(ledger) = a
<1>1. PICK r \in DeployedIn(ledger) :
        r.digest = a /\ \A s \in DeployedIn(Known) : s = r \/ s.at < r.at
  BY DEF Leads
<1>2. DeployedIn(ledger) \subseteq DeployedIn(Known) BY DEF DeployedIn, Known
<1>3. \A s \in DeployedIn(ledger) : s.at \in Nat BY DEF DeployedIn, TypeOK, Records, Stamps
<1>4. \A s \in DeployedIn(ledger) : s.at <= r.at BY <1>1, <1>2, <1>3
<1>5. \A x \in DeployedIn(ledger) : (\A s \in DeployedIn(ledger) : s.at <= x.at) => x = r
  BY <1>1, <1>2, <1>3
<1>6. Newest(DeployedIn(ledger)) = r BY <1>4, <1>5 DEF Newest
<1> QED BY <1>1, <1>6 DEF LiveArtefact

(* One operator's step. *)

\* Who takes a step is one of the scope's operators, and moves alone.
LEMMA StepIsOwn ==
    ASSUME IInv, SoleInv, NEW o \in Operators, Step(o)
    PROVE  /\ o \in scope.operators /\ scope' = scope
           /\ \A q \in Operators : q # o => /\ stage'[q] = stage[q] /\ phase'[q] = phase[q]
                                            /\ flow'[q] = flow[q] /\ exit'[q] = exit[q]
<1>1. /\ stage \in [Operators -> Stages] /\ phase \in [Operators -> Phases]
      /\ flow \in [Operators -> FlowStates] /\ exit \in [Operators -> Exits]
  BY DEF IInv, TypeOK
<1>2. o \notin scope.operators => stage[o] = "idle"
  BY DEF SoleInv, Keeps, Own
<1>3. "idle" \notin ApplyStages /\ "idle" \notin AttestStages
  BY AttestStagesAre DEF ApplyStages
<1>4. CASE StartForward(o) \/ StartRollback(o) \/ StartDrill(o) \/ StartRestore(o)
  BY <1>1, <1>4 DEF StartForward, StartRollback, StartDrill, StartRestore, Start
<1>5. CASE TakeLock(o) \/ FindLocked(o) \/ Switch(o) \/ ScriptEnds(o)
  BY <1>1, <1>2, <1>3, <1>5 DEF TakeLock, FindLocked, Switch, ScriptEnds, InApply
<1>6. CASE Rebuilt(o) \/ Verified(o) \/ ApplyFails(o)
  BY <1>1, <1>2, <1>3, <1>6 DEF Rebuilt, Verified, ApplyFails, InApply
<1>7. CASE AttestRecorded(o) \/ AttestWaits(o) \/ AttestFails(o)
  BY <1>1, <1>2, <1>3, <1>7 DEF AttestRecorded, AttestWaits, AttestFails, Attested
<1>8. CASE AttestAborts(o) \/ Report(o) \/ Crash(o)
  BY <1>1, <1>2, <1>3, <1>8 DEF AttestAborts, Report, Crash
<1> QED
  BY <1>4, <1>5, <1>6, <1>7, <1>8 DEF Step, Progress

\* What is kept of the flow that moves is kept of all.
LEMMA SoleStep ==
    ASSUME IInv, SoleInv, NEW o \in Operators, Step(o), Own(o)',
           Alone => /\ Serves(o)'
                    /\ Calm => Tracks(o)'
                    /\ "restore" \notin scope.flows => Settles(o)'
    PROVE  SoleInv'
<1> SUFFICES ASSUME NEW q \in Operators PROVE Keeps(q)'
  BY DEF SoleInv
<1>1. /\ o \in scope.operators /\ scope' = scope
      /\ q # o => /\ stage'[q] = stage[q] /\ phase'[q] = phase[q]
                  /\ flow'[q] = flow[q] /\ exit'[q] = exit[q]
  BY StepIsOwn
<1>2. Alone' <=> Alone BY <1>1 DEF Alone
<1>3. Calm' <=> Calm BY <1>1 DEF Calm
<1>4. CASE q = o
  BY <1>1, <1>2, <1>3, <1>4 DEF Keeps
<1>5. CASE q # o
  <2>1. Own(q)' BY <1>1, <1>5 DEF SoleInv, Keeps, Own
  <2>2. ASSUME Alone PROVE q \notin scope'.operators /\ stage'[q] = "idle"
    <3>1. q \notin scope.operators BY <1>1, <1>5, <2>2 DEF Alone
    <3> QED BY <1>1, <3>1, <2>1 DEF Own
  <2> QED BY <1>2, <2>1, <2>2 DEF Keeps, Serves, Tracks, Settles
<1> QED BY <1>4, <1>5

\* What the ledger says is the same while nothing is written, and more of it
\* is recorded after a replay.
LEMMA SaidAlike ==
    ASSUME UNCHANGED <<serving, ledger, spool>>
    PROVE  /\ Recorded' <=> Recorded
           /\ InDoubt(Known)' <=> InDoubt(Known)
           /\ \A a : Leads(a)' <=> Leads(a)
BY DEF Recorded, Known, InDoubt, Leads, LiveArtefact, DeployedIn, Newest, Real

LEMMA ReplayIsSole ==
    ASSUME SoleInv, NEW r \in spool, Replay(r)
    PROVE  SoleInv'
<1>1. /\ ledger' = ledger \cup {r} /\ spool' = spool \ {r}
      /\ UNCHANGED <<scope, serving, stage, phase, flow, exit>>
  BY DEF Replay
<1>2. Known' = Known BY <1>1 DEF Known
<1>3. Recorded' <=> Recorded BY <1>1, <1>2 DEF Recorded
<1>4. InDoubt(Known)' <=> InDoubt(Known) BY <1>2
<1>5. \A a : Leads(a) => Leads(a)'
  <2>1. DeployedIn(ledger) \subseteq DeployedIn(ledger') BY <1>1 DEF DeployedIn
  <2> QED BY <1>2, <2>1 DEF Leads
<1>6. ASSUME NEW o \in Operators PROVE Keeps(o)'
  <2>1. Own(o)' BY <1>1 DEF SoleInv, Keeps, Own
  <2>2. (Alone' <=> Alone) /\ (Calm' <=> Calm) BY <1>1 DEF Alone, Calm
  <2>3. Alone => Serves(o)' BY <1>1 DEF SoleInv, Keeps, Serves
  <2>4. Alone /\ Calm => Tracks(o)' BY <1>1, <1>3, <1>4 DEF SoleInv, Keeps, Tracks
  <2>5. Alone /\ "restore" \notin scope.flows => Settles(o)'
    BY <1>1, <1>5 DEF SoleInv, Keeps, Settles
  <2> QED BY <1>1, <2>1, <2>2, <2>3, <2>4, <2>5 DEF Keeps
<1> QED BY <1>6 DEF SoleInv

\* A command begins: nothing has changed since the last one ended.
LEMMA StartIsSole ==
    ASSUME IInv, SoleInv, NEW o \in Operators,
           StartForward(o) \/ StartRollback(o) \/ StartDrill(o) \/ StartRestore(o)
    PROVE  SoleInv'
<1>1. PICK first \in {"deploy", "roll_back", "drill_incident", "restore_backup"} :
        /\ first = "drill_incident" => "drill" \in scope.flows
        /\ first = "restore_backup" => "restore" \in scope.flows
        /\ stage[o] = "idle" /\ o \in scope.operators
        /\ stage' = [stage EXCEPT ![o] = first]
        /\ UNCHANGED <<scope, serving, ledger, spool, phase, exit>>
  BY DEF StartForward, StartRollback, StartDrill, StartRestore, Start
<1>2. stage'[o] = first BY <1>1 DEF IInv, TypeOK
<1>3. Own(o)' BY <1>1, <1>2 DEF Own, DrillStages
<1>4. Serves(o)' BY <1>2 DEF Serves
<1>5. Alone /\ Calm => Tracks(o)'
  <2>1. Recorded' <=> Recorded BY <1>1, SaidAlike
  <2>2. Alone /\ Calm => Recorded BY <1>1 DEF SoleInv, Keeps, Tracks
  <2> QED BY <1>2, <2>1, <2>2 DEF Tracks
<1>6. "restore" \notin scope.flows => Settles(o)' BY <1>1, <1>2 DEF Settles, FailedStages
<1> QED BY <1>3, <1>4, <1>5, <1>6, SoleStep DEF Step

\* Where an apply stage leads, and which artefact it puts on the target.
LEMMA ApplyLeads ==
    ASSUME NEW s \in ApplyStages
    PROVE  /\ s \in {"deploy", "drill_forward"} <=> Applied[s] = "artefact"
           /\ s = "deploy" => OnSuccess[s] = "deployed" /\ OnFailure[s] = "failed_incident"
           /\ s = "put_back" => OnSuccess[s] = "back_rolled" /\ OnFailure[s] = "report"
           /\ s = "roll_back" => OnSuccess[s] = "rolled" /\ OnFailure[s] = "rollback_incident"
           /\ s = "drill_back" => OnSuccess[s] = "drill_rolled" /\ OnFailure[s] = "drill_failed"
           /\ s = "drill_forward" => OnSuccess[s] = "drill_deployed"
                                     /\ OnFailure[s] = "drill_stays"
           /\ s = "restore_backup" => OnSuccess[s] = "drill_rebuilt" /\ OnFailure[s] = "report"
BY DEF ApplyStages, Applied, OnSuccess, OnFailure

\* The lock is taken, the script ends: the flow stays in its stage.
LEMMA ScriptIsSole ==
    ASSUME IInv, SoleInv, NEW o \in Operators, TakeLock(o) \/ ScriptEnds(o)
    PROVE  SoleInv'
<1>1. /\ UNCHANGED <<scope, serving, ledger, spool, stage, flow, exit>>
      /\ TakeLock(o) => phase[o] = "ready"
      /\ ScriptEnds(o) => phase'[o] = "verify"
  BY DEF TakeLock, ScriptEnds, InApply, IInv, TypeOK
<1>2. Own(o)' /\ (Alone => Serves(o)') BY <1>1 DEF SoleInv, Keeps, Own, Serves
<1>3. Alone /\ Calm => Tracks(o)'
  BY <1>1, SaidAlike DEF SoleInv, Keeps, Tracks
<1>4. Alone /\ "restore" \notin scope.flows => Settles(o)'
  BY <1>1, SaidAlike DEF SoleInv, Keeps, Settles
<1> QED BY <1>2, <1>3, <1>4, SoleStep DEF Step, Progress

\* What runs is replaced: in a stage that promises nothing of it.
LEMMA SwitchIsSole ==
    ASSUME IInv, SoleInv, NEW o \in Operators, Switch(o)
    PROVE  SoleInv'
<1>1. /\ UNCHANGED <<scope, ledger, spool, stage, flow, exit>>
      /\ stage[o] \in ApplyStages \ {"restore_backup"} /\ phase'[o] = "switched"
  BY DEF Switch, InApply, IInv, TypeOK
<1>2. Own(o)' /\ Serves(o)' BY <1>1 DEF SoleInv, Keeps, Own, Serves, ApplyStages
<1>3. Alone /\ Calm => Tracks(o)'
  <2>1. InDoubt(Known)' <=> InDoubt(Known) BY <1>1 DEF Known
  <2> QED BY <1>1, <2>1 DEF SoleInv, Keeps, Tracks, ApplyStages
<1>4. Alone /\ "restore" \notin scope.flows => Settles(o)'
  BY <1>1 DEF SoleInv, Keeps, Settles, ApplyStages
<1> QED BY <1>2, <1>3, <1>4, SoleStep DEF Step, Progress

\* The apply succeeds: what it put on the target answers.
LEMMA SuccessIsSole ==
    ASSUME IInv, SoleInv, NEW o \in Operators, Verified(o) \/ Rebuilt(o)
    PROVE  SoleInv'
<1>1. /\ UNCHANGED <<scope, serving, ledger, spool, flow, exit>>
      /\ stage[o] \in ApplyStages /\ stage'[o] = OnSuccess[stage[o]]
      /\ stage[o] = "restore_backup" \/ serving = Subject(o)
  BY DEF Verified, Rebuilt, InApply, IInv, TypeOK
<1>2. /\ stage[o] \in {"deploy", "put_back", "roll_back", "drill_back", "drill_forward",
                       "restore_backup"}
      /\ stage[o] = "deploy" => stage'[o] = "deployed"
      /\ stage[o] = "put_back" => stage'[o] = "back_rolled"
      /\ stage[o] = "roll_back" => stage'[o] = "rolled"
      /\ stage[o] = "drill_back" => stage'[o] = "drill_rolled"
      /\ stage[o] = "drill_forward" => stage'[o] = "drill_deployed"
      /\ stage[o] = "restore_backup" => stage'[o] = "drill_rebuilt"
  BY <1>1, ApplyLeads DEF ApplyStages
<1>3. Own(o)' BY <1>1, <1>2 DEF SoleInv, Keeps, Own, DrillStages
<1>4. Serves(o)'
  <2>1. /\ stage[o] \in {"deploy", "drill_forward"} => serving = flow[o].artefact
        /\ stage[o] \in {"put_back", "roll_back", "drill_back"} => serving = flow[o].previous
    BY <1>1, ApplyLeads DEF Subject
  <2> QED BY <1>1, <1>2, <2>1 DEF Serves
<1>5. Alone /\ Calm => Tracks(o)'
  <2>1. stage[o] = "restore_backup" /\ Alone /\ Calm /\ o \in scope.operators => Recorded
    BY DEF SoleInv, Keeps, Tracks
  <2> QED BY <1>1, <1>2, <2>1, SaidAlike DEF Tracks
<1>6. Alone /\ "restore" \notin scope.flows => Settles(o)'
  BY <1>1, <1>2 DEF SoleInv, Keeps, Settles, FailedStages
<1> QED BY <1>3, <1>4, <1>5, <1>6, SoleStep DEF Step, Progress

\* The apply fails, at any point.
LEMMA FailureIsSole ==
    ASSUME IInv, SoleInv, NEW o \in Operators, ApplyFails(o)
    PROVE  SoleInv'
<1>1. /\ UNCHANGED <<scope, serving, ledger, spool, exit>>
      /\ stage[o] \in ApplyStages /\ stage'[o] = OnFailure[stage[o]]
      /\ flow'[o].failed
  BY DEF ApplyFails, IInv, TypeOK, FlowStates
<1>2. /\ stage[o] \in {"deploy", "put_back", "roll_back", "drill_back", "drill_forward",
                       "restore_backup"}
      /\ stage[o] = "deploy" => stage'[o] = "failed_incident"
      /\ stage[o] = "roll_back" => stage'[o] = "rollback_incident"
      /\ stage[o] = "drill_back" => stage'[o] = "drill_failed"
      /\ stage[o] = "drill_forward" => stage'[o] = "drill_stays"
      /\ stage[o] \in {"put_back", "restore_backup"} => stage'[o] = "report"
  BY <1>1, ApplyLeads DEF ApplyStages
<1>3. Own(o)' BY <1>1, <1>2 DEF SoleInv, Keeps, Own, DrillStages
<1>4. Serves(o)' BY <1>2 DEF Serves
<1>5. Alone /\ Calm => Tracks(o)'
  <2>1. stage[o] \in {"put_back", "restore_backup"} /\ Alone /\ Calm /\ o \in scope.operators
          => Recorded
    BY DEF SoleInv, Keeps, Tracks, Recorded
  <2> QED BY <1>1, <1>2, <2>1, SaidAlike DEF Tracks
<1>6. Settles(o)' BY <1>1, <1>2 DEF Settles
<1> QED BY <1>3, <1>4, <1>5, <1>6, SoleStep DEF Step, Progress

\* The command ends: it found the lock held or the ledger unreadable, it
\* reports, or its process dies.
LEMMA EndIsSole ==
    ASSUME IInv, SoleInv, NEW o \in Operators,
           FindLocked(o) \/ AttestAborts(o) \/ Report(o) \/ Crash(o)
    PROVE  SoleInv'
<1>1. /\ UNCHANGED <<scope, serving, ledger, spool>>
      /\ stage'[o] = "idle" /\ stage[o] # "idle"
  BY AttestStagesAre DEF FindLocked, AttestAborts, Report, Crash, IInv, TypeOK, InApply, ApplyStages
<1>2. /\ AttestAborts(o) => scope.errors
      /\ Crash(o) => scope.crashes
      /\ Report(o) => stage[o] = "report"
      /\ FindLocked(o) => /\ stage[o] \in ApplyStages /\ stage[o] # "drill_forward"
                          /\ phase[o] = "ready"
  BY DEF FindLocked, AttestAborts, Report, Crash, InApply
<1>3. exit'[o] = "ok" => Report(o) /\ ~flow[o].waiting /\ ~flow[o].failed
  BY DEF FindLocked, AttestAborts, Report, Crash, IInv, TypeOK
<1>4. o \in scope.operators BY StepIsOwn DEF Step, Progress
<1>5. Own(o)' BY <1>1, <1>4 DEF Own, DrillStages
<1>6. Serves(o)' BY <1>1 DEF Serves
<1>7. Alone /\ Calm => Tracks(o)'
  <2>1. ASSUME Alone, Calm PROVE Recorded
    <3>1. Tracks(o) /\ Own(o) BY <2>1 DEF SoleInv, Keeps
    <3>2. ~scope.errors /\ ~scope.crashes /\ stage[o] # "drill_back"
      BY <2>1, <3>1 DEF Calm, Own, DrillStages
    <3>3. CASE Report(o) BY <1>2, <1>4, <3>1, <3>3 DEF Tracks
    <3>4. CASE FindLocked(o)
      <4>1. stage[o] \in {"deploy", "put_back", "roll_back", "restore_backup"}
        BY <1>2, <3>2, <3>4 DEF ApplyStages
      <4> QED BY <1>2, <1>4, <3>1, <3>4, <4>1 DEF Tracks, Recorded
    <3> QED BY <1>2, <3>2, <3>3, <3>4
  <2> QED BY <1>1, <2>1, SaidAlike DEF Tracks
<1>8. Alone /\ "restore" \notin scope.flows => Settles(o)'
  <2>1. ASSUME Alone, "restore" \notin scope.flows, exit'[o] = "ok" PROVE Leads(serving)
    BY <1>2, <1>3, <1>4, <2>1 DEF SoleInv, Keeps, Settles
  <2> QED BY <1>1, <2>1, SaidAlike DEF Settles, FailedStages
<1> QED BY <1>5, <1>6, <1>7, <1>8, SoleStep DEF Step, Progress

(* The attestations. *)

\* The table of the records, read by what it writes and by what follows.
LEMMA EmissionsTable ==
    ASSUME NEW s \in AttestStages
    PROVE  /\ Emissions[s].kind = "deployed" <=>
                  s \in {"deployed", "back_deployed", "rollback_deployed", "drill_deployed",
                         "drill_stays"}
           /\ Emissions[s].kind = "rolled_back" <=> s \in {"back_rolled", "rolled", "drill_rolled"}
           /\ s \in {"failed_incident", "rollback_incident"} =>
                  Emissions[s].kind = "incident" /\ Emissions[s].drill = FALSE
           /\ s \in {"deployed", "drill_deployed"} => Emissions[s].of = "artefact"
           /\ s \in {"back_deployed", "rollback_deployed", "drill_stays", "back_rolled",
                     "rolled", "drill_rolled"} => Emissions[s].of = "previous"
<1> USE AttestStagesAre DEF Emissions, Emission
<1>1. Emissions[s].kind = "deployed" <=>
          s \in {"deployed", "back_deployed", "rollback_deployed", "drill_deployed", "drill_stays"}
  OBVIOUS
<1>2. Emissions[s].kind = "rolled_back" <=> s \in {"back_rolled", "rolled", "drill_rolled"}
  OBVIOUS
<1>3. s \in {"failed_incident", "rollback_incident"} =>
          Emissions[s].kind = "incident" /\ Emissions[s].drill = FALSE
  OBVIOUS
<1>4. s \in {"deployed", "drill_deployed"} => Emissions[s].of = "artefact"
  OBVIOUS
<1>5. s \in {"back_deployed", "rollback_deployed", "drill_stays", "back_rolled", "rolled",
             "drill_rolled"} => Emissions[s].of = "previous"
  OBVIOUS
<1> QED BY <1>1, <1>2, <1>3, <1>4, <1>5

LEMMA NextsTable ==
    ASSUME NEW s \in AttestStages
    PROVE  /\ s \in {"deployed", "closing"} => Emissions[s].next = "closing"
           /\ s = "failed_incident" => Emissions[s].next = "put_back"
           /\ s = "back_rolled" => Emissions[s].next = "back_deployed"
           /\ s = "back_deployed" => Emissions[s].next = "back_restored"
           /\ s = "rolled" => Emissions[s].next = "rollback_deployed"
           /\ s = "rollback_deployed" => Emissions[s].next = "rollback_restored"
           /\ s = "drill_incident" => Emissions[s].next = "drill_back"
           /\ s = "drill_rolled" => Emissions[s].next = "drill_restored"
           /\ s = "drill_restored" => Emissions[s].next = "drill_forward"
           /\ s \in {"back_restored", "rollback_incident", "rollback_restored", "drill_failed",
                     "drill_deployed", "drill_stays", "drill_rebuilt"}
                => Emissions[s].next = "report"
BY AttestStagesAre DEF Emissions, Emission

\* Where a flow goes on from an attestation, recorded or not.
LEMMA NextStageIs ==
    ASSUME NEW o \in Operators, stage[o] \in AttestStages, NEW recorded \in BOOLEAN
    PROVE  /\ stage[o] \in {"deployed", "closing"} =>
                  NextStage(o, recorded) \in {"closing", "report"}
           /\ stage[o] = "deployed" /\ ~recorded => NextStage(o, recorded) = "report"
           /\ stage[o] = "failed_incident" => NextStage(o, recorded) \in {"put_back", "report"}
           /\ stage[o] \notin {"deployed", "closing", "failed_incident"} =>
                  NextStage(o, recorded) = Emissions[stage[o]].next
BY NextsTable DEF NextStage

\* What the step of an attestation changes.
LEMMA AttestEffects ==
    ASSUME IInv, NEW o \in Operators, AttestRecorded(o) \/ AttestWaits(o) \/ AttestFails(o)
    PROVE  \E recorded \in BOOLEAN :
             /\ stage[o] \in AttestStages /\ stage'[o] = NextStage(o, recorded)
             /\ UNCHANGED <<scope, serving, phase, exit>>
             /\ flow'[o].artefact = flow[o].artefact /\ flow'[o].previous = flow[o].previous
             /\ flow'[o].failed = flow[o].failed
             /\ flow'[o].waiting = (flow[o].waiting \/ ~recorded)
             /\ recorded => ledger' = ledger \cup {Emitted(o)} /\ spool' = spool
             /\ ledger' \in {ledger, ledger \cup {Emitted(o)}}
             /\ Known' = Known \cup {Emitted(o)} \/ (Known' = Known /\ scope.errors)
<1>1. /\ stage \in [Operators -> Stages] /\ flow \in [Operators -> FlowStates]
  BY DEF IInv, TypeOK
<1>2. flow[o] \in FlowStates BY <1>1
<1>3. ASSUME NEW recorded \in BOOLEAN, Attested(o, recorded)
      PROVE  /\ stage'[o] = NextStage(o, recorded)
             /\ UNCHANGED <<scope, serving, phase, exit>>
             /\ flow'[o].artefact = flow[o].artefact /\ flow'[o].previous = flow[o].previous
             /\ flow'[o].failed = flow[o].failed
             /\ flow'[o].waiting = (flow[o].waiting \/ ~recorded)
  <2>1. stage'[o] = NextStage(o, recorded) /\ UNCHANGED <<scope, serving, phase, exit>>
    BY <1>1, <1>3 DEF Attested
  <2> DEFINE fl == [flow[o] EXCEPT !.attesting = TRUE, !.opened = StillOpen(o),
                                   !.incident = IF stage[o] = "failed_incident" /\ recorded
                                                THEN clock ELSE @,
                                   !.waiting = @ \/ ~recorded]
  <2>2. flow'[o] = fl BY <1>1, <1>3 DEF Attested
  <2>3. /\ fl.artefact = flow[o].artefact /\ fl.previous = flow[o].previous
        /\ fl.failed = flow[o].failed
    BY <1>2 DEF FlowStates
  <2>4. fl.waiting = (flow[o].waiting \/ ~recorded)
    BY <1>2, Zenon DEF FlowStates
  <2> HIDE DEF fl
  <2> QED BY <2>1, <2>2, <2>3, <2>4
<1>4. CASE AttestRecorded(o)
  <2>1. Attested(o, TRUE) /\ stage[o] \in AttestStages
        /\ ledger' = ledger \cup {Emitted(o)} /\ spool' = spool
    BY <1>4 DEF AttestRecorded
  <2>2. Known' = Known \cup {Emitted(o)} BY <2>1 DEF Known
  <2> QED BY <1>3, <2>1, <2>2
<1>5. CASE AttestWaits(o)
  <2>1. Attested(o, FALSE) /\ stage[o] \in AttestStages
        /\ ledger' \in {ledger, ledger \cup {Emitted(o)}} /\ spool' = spool \cup {Emitted(o)}
    BY <1>5 DEF AttestWaits
  <2>2. Known' = Known \cup {Emitted(o)} BY <2>1 DEF Known
  <2> QED BY <1>3, <2>1, <2>2
<1>6. CASE AttestFails(o)
  <2>1. Attested(o, FALSE) /\ stage[o] \in AttestStages /\ ledger' = ledger /\ spool' = spool
        /\ scope.errors
    BY <1>6 DEF AttestFails
  <2>2. Known' = Known BY <2>1 DEF Known
  <2> QED BY <1>3, <2>1, <2>2
<1> QED BY <1>4, <1>5, <1>6

\* What is written, about what.
LEMMA EmittedIs ==
    ASSUME IInv, NEW o \in Operators, stage[o] \in AttestStages
    PROVE  /\ Emitted(o) \in Records /\ Emitted(o).at = clock /\ clock \in Nat
           /\ \A x \in Known : x.at < clock
           /\ Known \subseteq Records
           /\ Emitted(o).kind = Emissions[stage[o]].kind
           /\ Emitted(o).drill = Emissions[stage[o]].drill
           /\ Emitted(o).digest = IF Emissions[stage[o]].of = "artefact"
                                  THEN flow[o].artefact ELSE flow[o].previous
<1>1. Emitted(o) \in Records /\ Emitted(o).at = clock BY EmittedTyped
<1>2. clock \in Nat /\ Known \subseteq Records BY DEF IInv, TypeOK, Stamps, Known
<1>3. \A x \in Known : x.at < clock BY DEF IInv, StampsPast, Known
<1>4. /\ Emitted(o).kind = Emissions[stage[o]].kind
      /\ Emitted(o).digest = IF Emissions[stage[o]].of = "artefact"
                             THEN flow[o].artefact ELSE flow[o].previous
  BY DEF Emitted
<1>5. Emitted(o).drill = Emissions[stage[o]].drill BY Zenon DEF Emitted
<1> QED BY <1>1, <1>2, <1>3, <1>4, <1>5

\* What a new record makes the ledger say.
LEMMA EmissionSays ==
    ASSUME IInv, NEW o \in Operators, stage[o] \in AttestStages,
           Known' = Known \cup {Emitted(o)}, serving' = serving,
           ledger' \in {ledger, ledger \cup {Emitted(o)}}
    PROVE  /\ Emitted(o).kind = "deployed" /\ Emitted(o).digest = serving => Recorded'
           /\ Emitted(o).kind # "deployed" /\ Recorded => Recorded'
           /\ stage[o] \in {"failed_incident", "rollback_incident"} => InDoubt(Known)' /\ Recorded'
           /\ \A a : /\ Emitted(o).kind = "deployed" /\ Emitted(o).digest = a
                     /\ ledger' = ledger \cup {Emitted(o)}
                     => Leads(a)'
           /\ \A a : Emitted(o).kind # "deployed" /\ Leads(a) => Leads(a)'
<1> DEFINE r == Emitted(o)
<1>1. /\ r \in Records /\ r.at = clock /\ clock \in Nat /\ Known \subseteq Records
      /\ \A x \in Known : x.at < clock
      /\ r.kind = Emissions[stage[o]].kind /\ r.drill = Emissions[stage[o]].drill
  BY EmittedIs
<1>2. stage[o] \in {"failed_incident", "rollback_incident"} => r.kind = "incident" /\ ~r.drill
  BY <1>1, EmissionsTable
<1>3. ledger' \subseteq ledger \cup {r} /\ ledger \subseteq ledger' OBVIOUS
<1> HIDE DEF r
<1>4. Known' = Known \cup {r} BY DEF r
<1>5. r.kind = "deployed" => LiveArtefact(Known') = r.digest BY <1>1, <1>4, AddDeployed
<1>6. r.kind # "deployed" => /\ DeployedIn(Known') = DeployedIn(Known)
                             /\ LiveArtefact(Known') = LiveArtefact(Known)
                             /\ InDoubt(Known) => InDoubt(Known')
  BY <1>4, AddOther
<1>7. stage[o] \in {"failed_incident", "rollback_incident"} => InDoubt(Known')
  <2>1. ASSUME stage[o] \in {"failed_incident", "rollback_incident"}
        PROVE  InDoubt(Known \cup {r})
    <3>1. r.at = clock /\ r.kind = "incident" /\ ~r.drill /\ \A x \in Known : x.at < clock
      BY <1>1, <1>2, <2>1
    <3> QED BY <3>1, AddIncident
  <2> QED BY <1>4, <2>1
<1>8. r.kind # "deployed" /\ Recorded => Recorded' BY <1>6 DEF Recorded
<1>9. r.kind = "deployed" /\ r.digest = serving => Recorded' BY <1>5 DEF Recorded
<1>10. ASSUME NEW a, r.kind = "deployed", r.digest = a, ledger' = ledger \cup {r}
       PROVE  Leads(a)'
  <2>1. r \in DeployedIn(ledger') BY <1>10 DEF DeployedIn
  <2>2. \A s \in DeployedIn(Known') : s = r \/ s.at < r.at BY <1>1, <1>4 DEF DeployedIn
  <2> QED BY <1>10, <2>1, <2>2 DEF Leads
<1>11. ASSUME NEW a, r.kind # "deployed", Leads(a) PROVE Leads(a)'
  <2>1. DeployedIn(ledger) \subseteq DeployedIn(ledger') BY <1>3 DEF DeployedIn
  <2>2. DeployedIn(Known') = DeployedIn(Known) BY <1>6, <1>11
  <2> QED BY <1>11, <2>1, <2>2 DEF Leads
<1> QED BY <1>7, <1>8, <1>9, <1>10, <1>11 DEF r, Recorded

\* A step of Attester.attest.
LEMMA AttestIsSole ==
    ASSUME IInv, SoleInv, NEW o \in Operators,
           AttestRecorded(o) \/ AttestWaits(o) \/ AttestFails(o)
    PROVE  SoleInv'
<1>1. PICK recorded \in BOOLEAN :
        /\ stage[o] \in AttestStages /\ stage'[o] = NextStage(o, recorded)
        /\ UNCHANGED <<scope, serving, phase, exit>>
        /\ flow'[o].artefact = flow[o].artefact /\ flow'[o].previous = flow[o].previous
        /\ flow'[o].failed = flow[o].failed
        /\ flow'[o].waiting = (flow[o].waiting \/ ~recorded)
        /\ recorded => ledger' = ledger \cup {Emitted(o)} /\ spool' = spool
        /\ ledger' \in {ledger, ledger \cup {Emitted(o)}}
        /\ Known' = Known \cup {Emitted(o)} \/ (Known' = Known /\ scope.errors)
  BY AttestEffects
<1>2. /\ stage[o] \in {"deployed", "closing", "failed_incident", "back_rolled", "back_deployed",
                       "back_restored", "rollback_incident", "rolled", "rollback_deployed",
                       "rollback_restored", "drill_incident", "drill_failed", "drill_rolled",
                       "drill_restored", "drill_deployed", "drill_stays", "drill_rebuilt"}
  BY <1>1, AttestStagesAre
<1>3. /\ stage[o] \in {"deployed", "closing"} => stage'[o] \in {"closing", "report"}
      /\ stage[o] = "deployed" /\ ~recorded => stage'[o] = "report"
      /\ stage[o] = "failed_incident" => stage'[o] \in {"put_back", "report"}
      /\ stage[o] = "back_rolled" => stage'[o] = "back_deployed"
      /\ stage[o] = "back_deployed" => stage'[o] = "back_restored"
      /\ stage[o] = "rolled" => stage'[o] = "rollback_deployed"
      /\ stage[o] = "rollback_deployed" => stage'[o] = "rollback_restored"
      /\ stage[o] = "drill_incident" => stage'[o] = "drill_back"
      /\ stage[o] = "drill_rolled" => stage'[o] = "drill_restored"
      /\ stage[o] = "drill_restored" => stage'[o] = "drill_forward"
      /\ stage[o] \in {"back_restored", "rollback_incident", "rollback_restored", "drill_failed",
                       "drill_deployed", "drill_stays", "drill_rebuilt"} => stage'[o] = "report"
  BY <1>1, NextStageIs, NextsTable
<1>4. Own(o) /\ (Alone => Serves(o)) /\ (Alone /\ Calm => Tracks(o))
      /\ (Alone /\ "restore" \notin scope.flows => Settles(o))
  BY DEF SoleInv, Keeps
<1>5. o \in scope.operators BY StepIsOwn DEF Step, Progress
<1>6. Own(o)' BY <1>1, <1>2, <1>3, <1>4, <1>5 DEF Own, DrillStages
<1>7. Alone => Serves(o)' BY <1>1, <1>2, <1>3, <1>4 DEF Serves
<1>8. /\ Emitted(o).kind = "deployed" <=>
            stage[o] \in {"deployed", "back_deployed", "rollback_deployed", "drill_deployed",
                          "drill_stays"}
      /\ stage[o] \in {"deployed", "drill_deployed"} => Emitted(o).digest = flow[o].artefact
      /\ stage[o] \in {"back_deployed", "rollback_deployed"} => Emitted(o).digest = flow[o].previous
  <2>1. /\ Emitted(o).kind = Emissions[stage[o]].kind
        /\ Emitted(o).digest = IF Emissions[stage[o]].of = "artefact"
                               THEN flow[o].artefact ELSE flow[o].previous
    BY <1>1, EmittedIs
  <2>2. /\ Emissions[stage[o]].kind = "deployed" <=>
              stage[o] \in {"deployed", "back_deployed", "rollback_deployed", "drill_deployed",
                            "drill_stays"}
        /\ stage[o] \in {"deployed", "drill_deployed"} => Emissions[stage[o]].of = "artefact"
        /\ stage[o] \in {"back_deployed", "rollback_deployed"} =>
              Emissions[stage[o]].of = "previous"
    BY <1>1, EmissionsTable
  <2> QED BY <2>1, <2>2
<1>9. Alone /\ stage[o] \in {"deployed", "back_deployed", "rollback_deployed", "drill_deployed"}
        => Emitted(o).digest = serving
  BY <1>4, <1>8 DEF Serves
<1>10. ASSUME Alone, Calm PROVE Tracks(o)'
  <2>1. Known' = Known \cup {Emitted(o)} BY <1>1, <1>10 DEF Calm
  <2>2. stage[o] \notin DrillStages BY <1>4, <1>10 DEF Own, Calm
  <2>3. CASE stage[o] \in {"deployed", "back_deployed", "rollback_deployed"}
    <3>1. Recorded' BY <1>1, <1>8, <1>9, <1>10, <2>1, <2>3, EmissionSays
    <3> QED BY <1>3, <2>3, <3>1 DEF Tracks
  <2>4. CASE stage[o] \in {"closing", "back_restored", "rollback_restored", "drill_rebuilt"}
    <3>1. Recorded BY <1>4, <1>5, <1>10, <2>4 DEF Tracks
    <3>2. Recorded' BY <1>1, <1>8, <2>1, <2>4, <3>1, EmissionSays
    <3> QED BY <1>3, <2>4, <3>2 DEF Tracks
  <2>5. CASE stage[o] \in {"failed_incident", "rollback_incident"}
    <3>1. Recorded' /\ InDoubt(Known)' BY <1>1, <2>1, <2>5, EmissionSays
    <3> QED BY <1>3, <2>5, <3>1 DEF Tracks
  <2>6. CASE stage[o] \in {"back_rolled", "rolled"} BY <1>3, <2>6 DEF Tracks
  <2> QED BY <1>2, <2>2, <2>3, <2>4, <2>5, <2>6 DEF DrillStages
<1>11. ASSUME Alone, "restore" \notin scope.flows PROVE Settles(o)'
  <2>1. stage'[o] \in FailedStages => stage[o] \in FailedStages /\ flow[o].failed
    BY <1>2, <1>3, <1>4, <1>5, <1>11 DEF Settles, FailedStages
  <2>2. ASSUME stage'[o] \in {"report", "closing", "rollback_restored"},
               ~flow'[o].failed, ~flow'[o].waiting
        PROVE  Leads(serving)'
    <3>1. recorded /\ ~flow[o].waiting /\ ~flow[o].failed BY <1>1, <2>2
    <3>2. ledger' = ledger \cup {Emitted(o)} /\ Known' = Known \cup {Emitted(o)}
      BY <1>1, <3>1 DEF Known
    <3>3. stage[o] \notin FailedStages BY <1>4, <1>5, <1>11, <3>1 DEF Settles
    <3>4. stage[o] # "drill_rebuilt" BY <1>4, <1>11 DEF Own
    <3>5. CASE stage[o] \in {"deployed", "rollback_deployed", "drill_deployed"}
      <4>1. Emitted(o).kind = "deployed" /\ Emitted(o).digest = serving'
        BY <1>1, <1>8, <1>9, <1>11, <3>5
      <4> QED BY <1>1, <3>2, <4>1, EmissionSays
    <3>6. CASE stage[o] \in {"closing", "rollback_restored"}
      <4>1. Leads(serving) BY <1>4, <1>5, <1>11, <3>1, <3>6 DEF Settles
      <4> QED BY <1>1, <1>8, <3>2, <3>6, <4>1, EmissionSays
    <3> QED BY <1>2, <1>3, <2>2, <3>3, <3>4, <3>5, <3>6 DEF FailedStages
  <2>3. stage'[o] # "idle" BY <1>2, <1>3
  <2> QED BY <1>1, <2>1, <2>2, <2>3 DEF Settles
<1> QED BY <1>6, <1>7, <1>10, <1>11, SoleStep DEF Step, Progress

\* The invariant is kept by every step, and holds while nothing is deployed.
LEMMA SoleKept == IInv /\ SoleInv /\ [Next]_vars => SoleInv'
<1> SUFFICES ASSUME IInv, SoleInv, [Next]_vars PROVE SoleInv'
  OBVIOUS
<1>1. CASE UNCHANGED vars
  <2>1. UNCHANGED <<scope, serving, ledger, spool, stage, phase, flow, exit>>
    BY <1>1 DEF vars
  <2> QED
    BY <2>1, SaidAlike
       DEF SoleInv, Keeps, Own, Alone, Calm, Serves, Tracks, Settles
<1>2. ASSUME NEW o \in Operators, Step(o) PROVE SoleInv'
  BY <1>2, StartIsSole, ScriptIsSole, SwitchIsSole, SuccessIsSole, FailureIsSole, EndIsSole,
     AttestIsSole DEF Step, Progress
<1> QED BY <1>1, <1>2, ReplayIsSole DEF Next

LEMMA SoleAtFirst == Init => SoleInv
<1> SUFFICES ASSUME Init, NEW o \in Operators PROVE Keeps(o)
  BY DEF SoleInv
<1>1. stage[o] = "idle" /\ exit[o] = "none" /\ serving = Down /\ ledger = {} /\ spool = {}
  BY DEF Init
<1>2. Recorded BY <1>1 DEF Recorded, Known, DeployedIn
<1> QED
  BY <1>1, <1>2 DEF Keeps, Own, Serves, Tracks, Settles, FailedStages, DrillStages

LEMMA Sole == Spec => []SoleInv
<1>1. IInv /\ SoleInv /\ [Next]_vars => SoleInv' BY SoleKept
<1> QED BY <1>1, SoleAtFirst, Invariance, PTL DEF Spec

\* With one operator, no drill, a ledger that can be read and a process that
\* does not die, no change of the target is left without its record: the newest
\* `deployed` names what is live, or a newer incident says that it is in doubt.
THEOREM ChangesAreRecorded == Spec => []DeploymentsAreRecorded
<1>1. IInv /\ SoleInv => DeploymentsAreRecorded
  <2> SUFFICES ASSUME SoleInv, Alone, "drill" \notin scope.flows, ~scope.errors, ~scope.crashes,
                      Idle
               PROVE  Recorded
    BY DEF DeploymentsAreRecorded, EveryChangeIsRecorded, Recorded, Known
  <2>1. PICK o \in Operators : scope.operators = {o} BY DEF Alone
  <2>2. Tracks(o) BY DEF SoleInv, Keeps, Calm
  <2> QED BY <2>1, <2>2 DEF Tracks, Idle
<1> QED BY <1>1, Sole, Invariance, PTL

\* With one operator, a deployment, rollback or drill that ends with exit 0
\* leaves a ledger that names what the target serves, whatever crashed, failed
\* or was refused before it and whatever is replayed after it.
THEOREM ExitOkIsEarned == Spec => []ExitOkNamesLive
<1>1. IInv /\ SoleInv => ExitOkNamesLive
  <2> SUFFICES ASSUME IInv, SoleInv, Alone, Idle, "restore" \notin scope.flows,
                      NEW o \in Operators, exit[o] = "ok"
               PROVE  serving = LiveArtefact(ledger)
    BY DEF ExitOkNamesLive
  <2>1. Own(o) /\ Settles(o) BY DEF SoleInv, Keeps
  <2>2. o \in scope.operators /\ stage[o] = "idle" BY <2>1 DEF Own, Idle
  <2>3. Leads(serving) BY <2>1, <2>2 DEF Settles
  <2> QED BY <2>3, LeadsIsLive DEF IInv
<1> QED BY <1>1, Sole, Invariance, PTL

\* With one operator and no drill, a `deployed` or `rolled_back` record names what
\* the target serves at the moment it is written: a put-back or a rollback that
\* did not answer is never recorded as one.
THEOREM RecordsAreTrue == Spec => RecordsAreTrueWhenWritten
<1> DEFINE True == \A r \in (ledger' \cup spool') \ (ledger \cup spool) :
        Alone /\ r.kind \in {"deployed", "rolled_back"} /\ "drill" \notin scope.flows
            => serving = r.digest
<1>1. IInv /\ SoleInv /\ [Next]_vars => [True]_vars
  <2> SUFFICES ASSUME IInv, SoleInv, Next PROVE True
    OBVIOUS
  <2>1. ASSUME NEW o \in Operators, Step(o), NEW r \in Known', r \notin Known, Alone,
               r.kind \in {"deployed", "rolled_back"}, "drill" \notin scope.flows
        PROVE  serving = r.digest
    <3>1. AttestRecorded(o) \/ AttestWaits(o) \/ AttestFails(o)
      <4>1. UNCHANGED <<ledger, spool>> => Known' = Known BY DEF Known
      <4>2. CASE StartForward(o) \/ StartRollback(o) \/ StartDrill(o) \/ StartRestore(o)
        <5>1. \A first, a, opened : Start(o, first, a, opened) => UNCHANGED <<ledger, spool>>
          BY DEF Start
        <5>2. UNCHANGED <<ledger, spool>>
          BY <4>2, <5>1 DEF StartForward, StartRollback, StartDrill, StartRestore
        <5> QED BY <2>1, <4>1, <5>2
      <4>3. CASE TakeLock(o) \/ FindLocked(o) \/ Switch(o) \/ ScriptEnds(o) \/ Rebuilt(o)
                 \/ Verified(o) \/ ApplyFails(o) \/ AttestAborts(o) \/ Report(o) \/ Crash(o)
        <5>1. UNCHANGED <<ledger, spool>>
          BY <4>3 DEF TakeLock, FindLocked, Switch, ScriptEnds, Rebuilt, Verified,
             ApplyFails, AttestAborts, Report, Crash
        <5> QED BY <2>1, <4>1, <5>1
      <4> QED BY <2>1, <4>2, <4>3 DEF Step, Progress
    <3>2. stage[o] \in AttestStages /\ Known' \subseteq Known \cup {Emitted(o)}
      BY <3>1, AttestEffects
    <3>3. r = Emitted(o) BY <2>1, <3>2
    <3>4. /\ r.kind = Emissions[stage[o]].kind
          /\ r.digest = IF Emissions[stage[o]].of = "artefact" THEN flow[o].artefact
                                                               ELSE flow[o].previous
      BY <3>2, <3>3, EmittedIs
    <3>5. Own(o) /\ Serves(o) BY <2>1 DEF SoleInv, Keeps
    <3>6. stage[o] \in {"deployed", "back_deployed", "rollback_deployed", "back_rolled", "rolled"}
      <4>1. Emissions[stage[o]].kind \in {"deployed", "rolled_back"} BY <2>1, <3>4
      <4>2. stage[o] \in {"deployed", "back_deployed", "rollback_deployed", "drill_deployed",
                          "drill_stays", "back_rolled", "rolled", "drill_rolled"}
        BY <3>2, <4>1, EmissionsTable
      <4>3. stage[o] \notin DrillStages BY <2>1, <3>5 DEF Own
      <4> QED BY <4>2, <4>3 DEF DrillStages
    <3> QED BY <3>2, <3>4, <3>5, <3>6, EmissionsTable DEF Serves
  <2>2. ASSUME NEW r \in spool, Replay(r) PROVE Known' = Known
    BY <2>2 DEF Replay, Known
  <2> QED BY <2>1, <2>2 DEF Next, Known
<1> QED BY <1>1, Sole, Invariance, PTL DEF Spec, RecordsAreTrueWhenWritten

-----------------------------------------------------------------------------
(***************************************************************************)
(* Which incidents are open.  OpenIncidents walks the stamps with a        *)
(* recursive function; a run of it is the function itself.                 *)
(***************************************************************************)

Incidents(rs) == {r.at : r \in Real(rs, "incident")}

Last(rs) == IF rs = {} THEN 0 ELSE Newest(rs).at

ClosedBy(open, r) ==
    LET earlier == {i \in open : i < r.at}
    IN  IF r.incident # 0 THEN {r.incident}
        ELSE IF earlier = {} THEN {} ELSE {Least(earlier)}

RestoredAt(rs, t) == {s \in Real(rs, "restored") : s.at = t}

StillOpenAt(rs, open, t) == open \ UNION {ClosedBy(open, r) : r \in RestoredAt(rs, t)}

IsRun(rs, g, n) ==
    g = [t \in 0..n |-> IF t = 0 THEN Incidents(rs) ELSE StillOpenAt(rs, g[t - 1], t)]

LEMMA RunExists ==
    ASSUME NEW rs
    PROVE  \A n \in Nat : \E g : IsRun(rs, g, n)
<1> DEFINE Bad == {n \in Nat : ~ \E g : IsRun(rs, g, n)}
<1> SUFFICES ASSUME Bad # {} PROVE FALSE
  OBVIOUS
<1>1. Bad \in SUBSET Nat OBVIOUS
<1>2. PICK m \in Bad : \A j \in Bad : m <= j
  <2> HIDE DEF Bad
  <2> QED BY <1>1, LeastInSet
<1>3. CASE m = 0
  <2> DEFINE g == [t \in 0..0 |-> Incidents(rs)]
  <2>1. IsRun(rs, g, 0) BY DEF IsRun
  <2> QED BY <1>2, <1>3, <2>1
<1>4. CASE m # 0
  <2>1. m \in Nat /\ m - 1 \in Nat /\ m - 1 \notin Bad BY <1>2, <1>4
  <2>2. PICK g : IsRun(rs, g, m - 1) BY <2>1
  <2> DEFINE h == [t \in 0..m |-> IF t = m THEN StillOpenAt(rs, g[m - 1], m) ELSE g[t]]
  <2>3. \A t \in 0..(m - 1) :
          g[t] = IF t = 0 THEN Incidents(rs) ELSE StillOpenAt(rs, g[t - 1], t)
    BY <2>2 DEF IsRun
  <2>4. ASSUME NEW t \in 0..m
        PROVE  h[t] = IF t = 0 THEN Incidents(rs) ELSE StillOpenAt(rs, h[t - 1], t)
    <3>1. CASE t = m
      <4>1. h[t] = StillOpenAt(rs, g[m - 1], m) BY <2>1, <3>1
      <4>2. h[m - 1] = g[m - 1] BY <2>1
      <4> QED BY <1>4, <3>1, <4>1, <4>2
    <3>2. CASE t # m
      <4>1. t \in 0..(m - 1) /\ h[t] = g[t] BY <2>1, <3>2
      <4>2. t # 0 => h[t - 1] = g[t - 1] BY <2>1, <3>2
      <4> QED BY <2>3, <4>1, <4>2
    <3> QED BY <3>1, <3>2
  <2>5. h = [t \in 0..m |-> h[t]] OBVIOUS
  <2> HIDE DEF h
  <2>6. IsRun(rs, h, m) BY <2>4, <2>5 DEF IsRun
  <2> QED BY <1>2, <2>6
<1> QED BY <1>3, <1>4

\* Two runs are alike as long as the same recoveries are met.
LEMMA RunsAgree ==
    ASSUME NEW rs, NEW rs2, NEW g, NEW h, NEW n \in Nat, NEW m \in Nat, n <= m,
           IsRun(rs, g, n), IsRun(rs2, h, m), Incidents(rs) = Incidents(rs2),
           \A t \in 1..n : RestoredAt(rs, t) = RestoredAt(rs2, t)
    PROVE  \A t \in 0..n : g[t] = h[t]
<1> DEFINE Bad == {t \in 0..n : g[t] # h[t]}
<1> SUFFICES ASSUME Bad # {} PROVE FALSE
  OBVIOUS
<1>1. Bad \in SUBSET Nat OBVIOUS
<1>2. PICK t \in Bad : \A j \in Bad : t <= j
  <2> HIDE DEF Bad
  <2> QED BY <1>1, LeastInSet
<1>3. /\ g[t] = IF t = 0 THEN Incidents(rs) ELSE StillOpenAt(rs, g[t - 1], t)
      /\ h[t] = IF t = 0 THEN Incidents(rs2) ELSE StillOpenAt(rs2, h[t - 1], t)
  BY <1>2 DEF IsRun
<1>4. t # 0 => t - 1 \in 0..n /\ t - 1 \notin Bad /\ t \in 1..n BY <1>2
<1>5. t # 0 => g[t - 1] = h[t - 1] BY <1>4
<1> QED BY <1>2, <1>3, <1>4, <1>5 DEF StillOpenAt

\* Past the last record a run rests.
LEMMA RunRests ==
    ASSUME NEW rs, NEW g, NEW n \in Nat, NEW m \in Nat, n <= m, IsRun(rs, g, m),
           \A t \in (n + 1)..m : RestoredAt(rs, t) = {}
    PROVE  g[m] = g[n]
<1> DEFINE Bad == {t \in n..m : g[t] # g[n]}
<1> SUFFICES ASSUME Bad # {} PROVE FALSE
  OBVIOUS
<1>1. Bad \in SUBSET Nat OBVIOUS
<1>2. PICK t \in Bad : \A j \in Bad : t <= j
  <2> HIDE DEF Bad
  <2> QED BY <1>1, LeastInSet
<1>3. t \in (n + 1)..m /\ t \in 0..m /\ t # 0 /\ t - 1 \in n..m /\ t - 1 \notin Bad BY <1>2
<1>4. g[t - 1] = g[n] BY <1>3
<1>5. g[t] = StillOpenAt(rs, g[t - 1], t) BY <1>3 DEF IsRun
<1>6. StillOpenAt(rs, g[t - 1], t) = g[t - 1] BY <1>3 DEF StillOpenAt
<1> QED BY <1>2, <1>4, <1>5, <1>6

\* The open incidents are what a run as long as the ledger leaves.
LEMMA OpenIncidentsAre ==
    ASSUME NEW rs \in SUBSET Records, NEW m \in Nat, \A r \in rs : r.at <= m,
           NEW g, IsRun(rs, g, m)
    PROVE  OpenIncidents(rs) = Incidents(rs) \cap g[m]
<1> DEFINE n == Last(rs)
<1> DEFINE f == CHOOSE f : IsRun(rs, f, n)
<1>1. \A r \in rs : r.at \in Nat /\ r.at < m + 1 BY DEF Records, Stamps
<1>2. n \in Nat /\ n <= m /\ \A r \in rs : r.at <= n
  <2>1. CASE rs = {} BY <2>1 DEF Last
  <2>2. CASE rs # {}
    <3>1. Newest(rs) \in rs /\ \A r \in rs : r.at <= Newest(rs).at
      BY <1>1, <2>2, NewestInSet
    <3> QED BY <1>1, <2>2, <3>1 DEF Last
  <2> QED BY <2>1, <2>2
<1>3. IsRun(rs, f, n) BY <1>2, RunExists
<1>4. OpenIncidents(rs) = {i \in Incidents(rs) : i \in f[n]}
  BY DEF OpenIncidents, IsRun, Incidents, Last, StillOpenAt, ClosedBy, RestoredAt
<1> HIDE DEF f, n
<1>5. g[n] = f[n]
  <2>1. \A t \in 0..n : f[t] = g[t] BY <1>2, <1>3, RunsAgree
  <2> QED BY <1>2, <2>1
<1>6. g[m] = g[n]
  <2>1. \A t \in (n + 1)..m : RestoredAt(rs, t) = {}
    BY <1>2, <1>1 DEF RestoredAt, Real
  <2> QED BY <1>2, <2>1, RunRests
<1> QED BY <1>4, <1>5, <1>6

\* What a newer record that opens nothing changes.
LEMMA OpenAfterARecord ==
    ASSUME NEW rs \in SUBSET Records, NEW r \in Records, \A s \in rs : s.at < r.at,
           r.kind # "incident"
    PROVE  /\ r.kind # "restored" => OpenIncidents(rs \cup {r}) = OpenIncidents(rs)
           /\ r.kind = "restored" /\ ~r.drill /\ r.incident # 0
                => OpenIncidents(rs \cup {r}) = OpenIncidents(rs) \ {r.incident}
<1> DEFINE m == r.at
<1> DEFINE all == rs \cup {r}
<1>1. m \in Nat /\ m # 0 /\ m - 1 \in Nat /\ \A s \in rs : s.at \in Nat
  BY DEF Records, Stamps
<1>2. /\ all \in SUBSET Records
      /\ \A s \in all : s.at <= m
      /\ \A s \in rs : s.at <= m - 1
  BY <1>1
<1>3. Incidents(all) = Incidents(rs) BY DEF Incidents, Real
<1>4. \A t \in 1..(m - 1) : RestoredAt(rs, t) = RestoredAt(all, t)
  BY <1>1 DEF RestoredAt, Real
<1>5. RestoredAt(rs, m) = {} BY <1>1 DEF RestoredAt, Real
<1>6. r.kind # "restored" => RestoredAt(all, m) = {}
  BY <1>1 DEF RestoredAt, Real
<1>7. r.kind = "restored" /\ ~r.drill => RestoredAt(all, m) = {r}
  BY <1>1 DEF RestoredAt, Real
<1> HIDE DEF all
<1>8. PICK h : IsRun(all, h, m) BY <1>1, RunExists
<1>9. PICK g : IsRun(rs, g, m - 1) BY <1>1, RunExists
<1>10. OpenIncidents(all) = Incidents(rs) \cap h[m]
  BY <1>1, <1>2, <1>3, <1>8, OpenIncidentsAre
<1>11. OpenIncidents(rs) = Incidents(rs) \cap g[m - 1]
  <2> DEFINE p == m - 1
  <2>1. p \in Nat /\ IsRun(rs, g, p) /\ \A s \in rs : s.at <= p BY <1>1, <1>2, <1>9
  <2> HIDE DEF p
  <2>2. OpenIncidents(rs) = Incidents(rs) \cap g[p] BY <2>1, OpenIncidentsAre
  <2> QED BY <2>2 DEF p
<1>12. g[m - 1] = h[m - 1]
  <2> DEFINE p == m - 1
  <2>1. p \in Nat /\ IsRun(rs, g, p) /\ p <= m /\ \A t \in 1..p : RestoredAt(rs, t) = RestoredAt(all, t)
    BY <1>1, <1>4, <1>9
  <2> HIDE DEF p
  <2>2. \A t \in 0..p : g[t] = h[t] BY <1>1, <1>3, <1>8, <2>1, RunsAgree
  <2>3. g[p] = h[p] BY <2>1, <2>2
  <2> QED BY <2>3 DEF p
<1>13. h[m] = StillOpenAt(all, h[m - 1], m) BY <1>1, <1>8 DEF IsRun
<1>14. r.kind # "restored" => h[m] = g[m - 1] BY <1>6, <1>12, <1>13 DEF StillOpenAt
<1>15. r.kind = "restored" /\ ~r.drill /\ r.incident # 0 => h[m] = g[m - 1] \ {r.incident}
  <2>1. ASSUME r.incident # 0 PROVE ClosedBy(h[m - 1], r) = {r.incident}
    BY <2>1 DEF ClosedBy
  <2>2. ASSUME r.kind = "restored", ~r.drill PROVE RestoredAt(all, m) = {r} BY <1>7, <2>2
  <2> HIDE DEF m
  <2>3. ASSUME RestoredAt(all, m) = {r}, ClosedBy(h[m - 1], r) = {r.incident}
        PROVE  h[m] = g[m - 1] \ {r.incident}
    BY <1>12, <1>13, <2>3 DEF StillOpenAt
  <2> QED BY <2>1, <2>2, <2>3
<1> QED BY <1>10, <1>11, <1>14, <1>15 DEF all

-----------------------------------------------------------------------------
(***************************************************************************)
(* A release closes what is open.  While brain answers, what a forward of  *)
(* the one operator has left to close is what the ledger holds open.       *)
(***************************************************************************)

Answers == Alone /\ ~scope.outages /\ ~scope.errors

ForwardStages == {"deploy", "deployed", "closing"}

ClosesAll(o) == stage[o] \in ForwardStages => OpenIncidents(ledger) = flow[o].opened

NothingWaits == ~scope.outages => spool = {}

OpenInv == NothingWaits /\ (Answers => \A o \in Operators : ClosesAll(o))

\* A step that writes nothing: the record sets and the clock stay.
LEMMA StepWrites ==
    ASSUME NEW o \in Operators, Step(o),
           ~(AttestRecorded(o) \/ AttestWaits(o) \/ AttestFails(o))
    PROVE  UNCHANGED <<ledger, spool, clock>>
<1>1. CASE StartForward(o) \/ StartRollback(o) \/ StartDrill(o) \/ StartRestore(o)
  <2>1. \A first, a, opened : Start(o, first, a, opened) => UNCHANGED <<ledger, spool, clock>>
    BY DEF Start
  <2> QED BY <1>1, <2>1 DEF StartForward, StartRollback, StartDrill, StartRestore
<1>2. CASE TakeLock(o) \/ FindLocked(o) \/ Switch(o) \/ ScriptEnds(o) \/ Rebuilt(o)
           \/ Verified(o) \/ ApplyFails(o) \/ AttestAborts(o) \/ Report(o) \/ Crash(o)
  BY <1>2 DEF TakeLock, FindLocked, Switch, ScriptEnds, Rebuilt, Verified,
     ApplyFails, AttestAborts, Report, Crash
<1> QED BY <1>1, <1>2 DEF Step, Progress

\* Where a step that writes nothing takes a flow.
LEMMA StepLeads ==
    ASSUME IInv, NEW o \in Operators, Step(o),
           ~(AttestRecorded(o) \/ AttestWaits(o) \/ AttestFails(o))
    PROVE  \/ stage[o] = "idle" /\ StartForward(o) /\ stage'[o] = "deploy"
              /\ flow'[o].opened = OpenIncidents(ledger)
           \/ stage[o] = "idle" /\ TwoDeployed
              /\ stage'[o] \in {"roll_back", "drill_incident", "restore_backup"}
           \/ /\ stage'[o] = stage[o] /\ stage[o] \in ApplyStages /\ flow' = flow
              /\ TakeLock(o) \/ Switch(o) \/ ScriptEnds(o)
           \/ /\ stage[o] \in ApplyStages /\ flow' = flow /\ stage'[o] = OnSuccess[stage[o]]
           \/ /\ stage[o] \in ApplyStages /\ stage'[o] = OnFailure[stage[o]]
              /\ flow'[o].artefact = flow[o].artefact /\ flow'[o].previous = flow[o].previous
           \/ /\ stage[o] # "idle" /\ stage'[o] = "idle" /\ flow'[o] = NoFlow
              /\ AttestAborts(o) => scope.errors
              /\ Crash(o) => scope.crashes
              /\ \/ FindLocked(o) /\ stage[o] \in ApplyStages
                 \/ AttestAborts(o) \/ Crash(o)
                 \/ Report(o) /\ stage[o] = "report"
<1>1. /\ stage \in [Operators -> Stages] /\ flow \in [Operators -> FlowStates]
      /\ flow[o] \in FlowStates
  BY DEF IInv, TypeOK
<1>2. CASE StartForward(o)
  <2>1. ASSUME NEW a \in Artefacts, Start(o, "deploy", a, OpenIncidents(ledger))
        PROVE  /\ stage[o] = "idle" /\ stage'[o] = "deploy"
               /\ flow'[o].opened = OpenIncidents(ledger)
    <3> DEFINE n == [NoFlow EXCEPT !.artefact = a,
                                   !.previous = PreviousArtefact(ledger, a),
                                   !.opened = OpenIncidents(ledger)]
    <3>1. flow'[o] = n /\ stage[o] = "idle" /\ stage'[o] = "deploy"
      BY <1>1, <2>1 DEF Start
    <3>2. n.opened = OpenIncidents(ledger) BY DEF NoFlow
    <3> HIDE DEF n
    <3> QED BY <3>1, <3>2
  <2> QED BY <1>2, <2>1 DEF StartForward
<1>3. CASE StartRollback(o) \/ StartDrill(o) \/ StartRestore(o)
  <2>1. PICK first \in {"roll_back", "drill_incident", "restore_backup"} :
          TwoDeployed /\ stage[o] = "idle" /\ stage' = [stage EXCEPT ![o] = first]
    BY <1>3 DEF StartRollback, StartDrill, StartRestore, Start
  <2> QED BY <1>1, <2>1
<1>4. CASE TakeLock(o) \/ Switch(o) \/ ScriptEnds(o)
  BY <1>4 DEF TakeLock, Switch, ScriptEnds, InApply
<1>5. CASE Rebuilt(o) \/ Verified(o)
  BY <1>1, <1>5 DEF Rebuilt, Verified, InApply
<1>6. CASE ApplyFails(o)
  <2> DEFINE n == [flow[o] EXCEPT !.failed = TRUE]
  <2>1. stage[o] \in ApplyStages /\ stage'[o] = OnFailure[stage[o]] /\ flow'[o] = n
    BY <1>1, <1>6 DEF ApplyFails
  <2>2. n.artefact = flow[o].artefact /\ n.previous = flow[o].previous BY <1>1 DEF FlowStates
  <2> HIDE DEF n
  <2> QED BY <2>1, <2>2
<1>7. CASE FindLocked(o) \/ AttestAborts(o) \/ Report(o) \/ Crash(o)
  <2>1. stage'[o] = "idle" /\ flow'[o] = NoFlow
    BY <1>1, <1>7 DEF FindLocked, AttestAborts, Report, Crash
  <2>2. stage[o] # "idle"
    BY <1>7, AttestStagesAre DEF FindLocked, AttestAborts, Report, Crash, InApply, ApplyStages
  <2>3. /\ AttestAborts(o) => scope.errors
        /\ Crash(o) => scope.crashes
        /\ Report(o) => stage[o] = "report"
        /\ FindLocked(o) => stage[o] \in ApplyStages
    BY DEF FindLocked, AttestAborts, Report, Crash, InApply
  <2> QED BY <1>7, <2>1, <2>2, <2>3
<1> QED BY <1>2, <1>3, <1>4, <1>5, <1>6, <1>7 DEF Step, Progress

\* What a forward emits, and what that leaves open.
LEMMA ForwardEmits ==
    ASSUME IInv, NEW o \in Operators, stage[o] \in {"deployed", "closing"},
           OpenIncidents(ledger) = flow[o].opened
    PROVE  OpenIncidents(ledger \cup {Emitted(o)}) = StillOpen(o)
<1>1. /\ stage[o] \in AttestStages /\ ledger \in SUBSET Records
      /\ stage[o] = "closing" => flow[o].opened # {}
      /\ flow[o].opened \in SUBSET (Nat \ {0})
  BY AttestStagesAre DEF IInv, TypeOK, ArtefactsAtHand, FlowStates, Stamps
<1>2. /\ Emitted(o) \in Records /\ \A s \in ledger : s.at < Emitted(o).at
      /\ Emitted(o).kind = Emissions[stage[o]].kind
      /\ Emitted(o).drill = Emissions[stage[o]].drill
  BY <1>1, EmittedIs DEF Known
<1>3. stage[o] = "deployed" => Emitted(o).kind = "deployed"
  BY <1>2 DEF Emissions, Emission
<1>4. stage[o] = "closing" => Emitted(o).kind = "restored" /\ ~Emitted(o).drill
  BY <1>2 DEF Emissions, Emission
<1>5. stage[o] = "closing" => Emitted(o).incident = Least(flow[o].opened)
  BY DEF Emitted, Named
<1>6. stage[o] = "closing" => Least(flow[o].opened) # 0
  BY <1>1, LeastInSet
<1>7. CASE stage[o] = "deployed"
  <2>1. OpenIncidents(ledger \cup {Emitted(o)}) = OpenIncidents(ledger)
    BY <1>1, <1>2, <1>3, <1>7, OpenAfterARecord
  <2> QED BY <1>7, <2>1 DEF StillOpen
<1>8. CASE stage[o] = "closing"
  <2>1. OpenIncidents(ledger \cup {Emitted(o)}) = OpenIncidents(ledger) \ {Emitted(o).incident}
    BY <1>1, <1>2, <1>4, <1>5, <1>6, <1>8, OpenAfterARecord
  <2> QED BY <1>5, <1>8, <2>1 DEF StillOpen
<1> QED BY <1>7, <1>8

\* What the step of an attestation does to what is left to close.
LEMMA AttestCloses ==
    ASSUME IInv, NEW o \in Operators,
           AttestRecorded(o) \/ AttestWaits(o) \/ AttestFails(o)
    PROVE  /\ flow'[o].opened = StillOpen(o)
           /\ ~scope.outages /\ ~scope.errors =>
                 ledger' = ledger \cup {Emitted(o)} /\ spool' = spool
           /\ ~scope.outages => spool' = spool
           /\ clock' = clock + 1
<1>1. flow \in [Operators -> FlowStates] /\ flow[o] \in FlowStates BY DEF IInv, TypeOK
<1>2. PICK recorded \in BOOLEAN : Attested(o, recorded)
  BY DEF AttestRecorded, AttestWaits, AttestFails
<1> DEFINE n == [flow[o] EXCEPT !.attesting = TRUE, !.opened = StillOpen(o),
                                !.incident = IF stage[o] = "failed_incident" /\ recorded
                                             THEN clock ELSE @,
                                !.waiting = @ \/ ~recorded]
<1>3. flow'[o] = n /\ clock' = clock + 1 BY <1>1, <1>2 DEF Attested
<1>4. n.opened = StillOpen(o) BY <1>1 DEF FlowStates
<1> HIDE DEF n
<1>5. ~scope.outages => AttestRecorded(o) \/ AttestFails(o) BY DEF AttestWaits
<1>6. ~scope.errors => ~AttestFails(o) BY DEF AttestFails
<1> QED BY <1>3, <1>4, <1>5, <1>6 DEF AttestRecorded, AttestFails

LEMMA OpenKept == IInv /\ SoleInv /\ OpenInv /\ [Next]_vars => OpenInv'
<1> SUFFICES ASSUME IInv, SoleInv, OpenInv, [Next]_vars PROVE OpenInv'
  OBVIOUS
<1>1. CASE UNCHANGED vars
  <2>1. UNCHANGED <<scope, ledger, spool, stage, flow>> BY <1>1 DEF vars
  <2> QED BY <2>1 DEF OpenInv, NothingWaits, Answers, Alone, ClosesAll
<1>2. ASSUME NEW r \in spool, Replay(r) PROVE OpenInv'
  <2>1. /\ spool' = spool \ {r} /\ UNCHANGED <<scope, stage, flow>> /\ scope.outages
    BY <1>2 DEF Replay, OpenInv, NothingWaits
  <2> QED BY <2>1 DEF OpenInv, NothingWaits, Answers
<1>3. ASSUME NEW o \in Operators, Step(o) PROVE OpenInv'
  <2>1. /\ o \in scope.operators /\ scope' = scope
        /\ \A q \in Operators : q # o => stage'[q] = stage[q] /\ flow'[q] = flow[q]
    BY <1>3, StepIsOwn
  <2>2. NothingWaits'
    <3>1. CASE AttestRecorded(o) \/ AttestWaits(o) \/ AttestFails(o)
      BY <2>1, <3>1, AttestCloses DEF OpenInv, NothingWaits
    <3>2. CASE ~(AttestRecorded(o) \/ AttestWaits(o) \/ AttestFails(o))
      BY <1>3, <2>1, <3>2, StepWrites DEF OpenInv, NothingWaits
    <3> QED BY <3>1, <3>2
  <2>3. Answers' <=> Answers BY <2>1 DEF Answers, Alone
  <2>4. ASSUME Answers, NEW q \in Operators, q # o PROVE ClosesAll(q)'
    <3>1. q \notin scope.operators BY <2>1, <2>4 DEF Answers, Alone
    <3>2. stage[q] = "idle" BY <3>1 DEF SoleInv, Keeps, Own
    <3> QED BY <2>1, <2>4, <3>2 DEF ClosesAll, ForwardStages
  <2>5. ASSUME Answers PROVE ClosesAll(o)'
    <3>0. ClosesAll(o) BY <2>5 DEF OpenInv
    <3>1. CASE AttestRecorded(o) \/ AttestWaits(o) \/ AttestFails(o)
      <4>1. PICK recorded \in BOOLEAN :
              stage[o] \in AttestStages /\ stage'[o] = NextStage(o, recorded)
        BY <3>1, AttestEffects
      <4>2. stage'[o] \in ForwardStages => stage[o] \in {"deployed", "closing"}
        BY <4>1, NextStageIs, NextsTable, AttestStagesAre DEF ForwardStages
      <4>3. flow'[o].opened = StillOpen(o) /\ ledger' = ledger \cup {Emitted(o)}
        BY <2>5, <3>1, AttestCloses DEF Answers
      <4>4. stage[o] \in {"deployed", "closing"} => OpenIncidents(ledger') = StillOpen(o)
        BY <3>0, <4>3, ForwardEmits DEF ClosesAll, ForwardStages
      <4> QED BY <4>2, <4>3, <4>4 DEF ClosesAll
    <3>2. CASE ~(AttestRecorded(o) \/ AttestWaits(o) \/ AttestFails(o))
      <4>1. ledger' = ledger BY <1>3, <3>2, StepWrites
      <4>2. \/ flow'[o].opened = OpenIncidents(ledger)
            \/ stage'[o] \notin ForwardStages
            \/ flow' = flow /\ stage[o] \in ForwardStages
        <5>1. stage[o] \in ApplyStages =>
                /\ OnSuccess[stage[o]] \in ForwardStages => stage[o] = "deploy"
                /\ OnFailure[stage[o]] \notin ForwardStages
          BY ApplyLeads DEF ApplyStages, ForwardStages
        <5>2. CASE stage'[o] = OnSuccess[stage[o]] /\ stage[o] \in ApplyStages /\ flow' = flow
          BY <5>1, <5>2 DEF ForwardStages
        <5>3. CASE stage'[o] = OnFailure[stage[o]] /\ stage[o] \in ApplyStages
          BY <5>1, <5>3
        <5>4. CASE stage'[o] \in {"roll_back", "drill_incident", "restore_backup", "idle"}
          BY <5>4 DEF ForwardStages
        <5> QED BY <1>3, <3>2, <5>2, <5>3, <5>4, StepLeads
      <4> QED BY <3>0, <4>1, <4>2 DEF ClosesAll
    <3> QED BY <3>1, <3>2
  <2> QED BY <2>2, <2>3, <2>4, <2>5 DEF OpenInv
<1> QED BY <1>1, <1>2, <1>3 DEF Next

LEMMA OpenAtFirst == Init => OpenInv
BY DEF Init, OpenInv, NothingWaits, ClosesAll, ForwardStages

LEMMA Open == Spec => []OpenInv
<1>1. IInv /\ SoleInv /\ OpenInv /\ [Next]_vars => OpenInv' BY OpenKept
<1> QED BY <1>1, OpenAtFirst, Invariance, Sole, PTL DEF Spec

\* While brain answers the one operator, a release that goes live leaves no
\* incident open, whatever failed, was put back, rolled back or killed before.
THEOREM ReleasesClose == Spec => ReleaseClosesEveryIncident
<1> DEFINE Closed ==
      \A o \in Operators :
        (/\ Alone /\ ~scope.outages /\ ~scope.errors
         /\ stage[o] \in {"deployed", "closing"} /\ stage'[o] = "report")
            => OpenIncidents(ledger') = {}
<1>1. IInv /\ SoleInv /\ OpenInv /\ [Next]_vars => [Closed]_vars
  <2> SUFFICES ASSUME IInv, SoleInv, OpenInv, Next, NEW o \in Operators,
                      Alone, ~scope.outages, ~scope.errors,
                      stage[o] \in {"deployed", "closing"}, stage'[o] = "report"
               PROVE  OpenIncidents(ledger') = {}
    OBVIOUS
  <2>1. Step(o)
    <3>1. ASSUME NEW r \in spool, Replay(r) PROVE FALSE BY <3>1 DEF Replay
    <3>2. ASSUME NEW q \in Operators, Step(q), q # o PROVE FALSE BY <3>2, StepIsOwn
    <3> QED BY <3>1, <3>2 DEF Next
  <2>2. AttestRecorded(o) \/ AttestWaits(o) \/ AttestFails(o)
    <3>1. stage[o] \notin ApplyStages /\ stage[o] # "idle" BY DEF ApplyStages
    <3> QED BY <2>1, <3>1, StepLeads
  <2>3. stage'[o] = NextStage(o, TRUE)
    <3>1. AttestRecorded(o) BY <2>2 DEF AttestWaits, AttestFails
    <3> QED BY <3>1 DEF AttestRecorded, Attested, IInv, TypeOK
  <2>4. ledger' = ledger \cup {Emitted(o)} BY <2>2, AttestCloses
  <2>5. OpenIncidents(ledger) = flow[o].opened BY DEF OpenInv, Answers, ClosesAll, ForwardStages
  <2>6. OpenIncidents(ledger') = StillOpen(o) BY <2>4, <2>5, ForwardEmits
  <2>7. StillOpen(o) = {} BY <2>3, NextsTable, AttestStagesAre DEF NextStage
  <2> QED BY <2>6, <2>7
<1> QED BY <1>1, Open, Sole, Invariance, PTL DEF Spec, ReleaseClosesEveryIncident

-----------------------------------------------------------------------------
(***************************************************************************)
(* What the evidence says afterwards (Delivery).  Every step of Delivery   *)
(* is a step of the flows, with what happened noted beside it.             *)
(***************************************************************************)

LEMMA DeliveryIsDeployFlow == DeliverySpec => Spec
<1>1. DeliveryInit => Init BY DEF DeliveryInit
<1>2. [DeliveryNext]_dvars => [Next]_vars BY DEF DeliveryNext, Next, dvars
<1> QED BY <1>1, <1>2, PTL DEF DeliverySpec, Spec

\* The flows keep excluding each other while their evidence is counted.
THEOREM DeliveryExcludes == DeliverySpec => []OneScriptAtATime
BY DeliveryIsDeployFlow, MutualExclusion, PTL

\* What an attest stage adds to the records, by what the metrics read.
FailureStages == {"failed_incident", "rollback_incident", "drill_failed", "back_rolled",
                  "rolled"}

Added(o, S) == IF stage[o] \in S THEN {Emitted(o)} ELSE {}

LEMMA MetricsTable ==
    ASSUME NEW s \in AttestStages
    PROVE  /\ Emissions[s].kind = "deployed" /\ Emissions[s].mode = "release" <=> s = "deployed"
           /\ Emissions[s].kind = "deployed" <=>
                  s \in {"deployed", "back_deployed", "rollback_deployed", "drill_deployed",
                         "drill_stays"}
           /\ Emissions[s].kind = "restored" <=>
                  s \in {"closing", "back_restored", "rollback_restored", "drill_restored",
                         "drill_rebuilt"}
           /\ Emissions[s].kind = "rolled_back" <=> s \in {"back_rolled", "rolled", "drill_rolled"}
           /\ Emissions[s].kind = "incident" <=>
                  s \in {"failed_incident", "rollback_incident", "drill_incident",
                         "drill_failed"}
           /\ Emissions[s].mode = "restore" <=> s = "drill_rebuilt"
           /\ Emissions[s].of = "artefact" <=>
                  s \in {"deployed", "closing", "failed_incident", "rollback_incident",
                         "drill_incident", "drill_failed", "drill_deployed"}
<1> USE AttestStagesAre DEF Emissions, Emission
<1>1. Emissions[s].kind = "deployed" /\ Emissions[s].mode = "release" <=> s = "deployed"
  OBVIOUS
<1>2. Emissions[s].kind = "deployed" <=>
        s \in {"deployed", "back_deployed", "rollback_deployed", "drill_deployed", "drill_stays"}
  OBVIOUS
<1>3. Emissions[s].kind = "restored" <=>
        s \in {"closing", "back_restored", "rollback_restored", "drill_restored", "drill_rebuilt"}
  OBVIOUS
<1>4. Emissions[s].kind = "rolled_back" <=> s \in {"back_rolled", "rolled", "drill_rolled"}
  OBVIOUS
<1>5. Emissions[s].kind = "incident" <=>
        s \in {"failed_incident", "rollback_incident", "drill_incident", "drill_failed"}
  OBVIOUS
<1>6. Emissions[s].mode = "restore" <=> s = "drill_rebuilt"
  OBVIOUS
<1>7. Emissions[s].of = "artefact" <=>
        s \in {"deployed", "closing", "failed_incident", "rollback_incident",
               "drill_incident", "drill_failed", "drill_deployed"}
  OBVIOUS
<1> QED BY <1>1, <1>2, <1>3, <1>4, <1>5, <1>6, <1>7

LEMMA DrillTable ==
    ASSUME NEW s \in AttestStages
    PROVE  Emissions[s].drill <=>
              s \in {"drill_incident", "drill_rolled", "drill_restored", "drill_rebuilt"}
<1> USE AttestStagesAre DEF Emissions, Emission
<1>1. s \in {"drill_incident", "drill_rolled", "drill_restored", "drill_rebuilt"}
        => Emissions[s].drill = TRUE
  OBVIOUS
<1>2. s \notin {"drill_incident", "drill_rolled", "drill_restored", "drill_rebuilt"}
        => Emissions[s].drill = FALSE
  OBVIOUS
<1> QED BY <1>1, <1>2

LEMMA RecordAdds ==
    ASSUME IInv, NEW o \in Operators, stage[o] \in AttestStages, NEW rs
    PROVE  LET all == rs \cup {Emitted(o)}
           IN  /\ ReleaseDeployments(all) = ReleaseDeployments(rs) \cup Added(o, {"deployed"})
               /\ DrillsIn(all, "incident") = DrillsIn(rs, "incident")
                                                \cup Added(o, {"drill_incident"})
               /\ DrillsIn(all, "rolled_back") = DrillsIn(rs, "rolled_back")
                                                   \cup Added(o, {"drill_rolled"})
               /\ DrillsIn(all, "restored") = DrillsIn(rs, "restored")
                                                \cup Added(o, {"drill_restored", "drill_rebuilt"})
               /\ Failures(all) = Failures(rs) \cup Added(o, FailureStages)
               /\ Emitted(o).mode = "restore" <=> stage[o] = "drill_rebuilt"
               /\ stage[o] = "deployed" => Emitted(o).digest = flow[o].artefact
               /\ stage[o] \in FailureStages => Blamed(Emitted(o)) = flow[o].artefact
<1> DEFINE s == stage[o]
<1> DEFINE e == Emitted(o)
<1> DEFINE all == rs \cup {e}
<1>1. /\ e.kind = Emissions[s].kind
      /\ e.mode = Emissions[s].mode
      /\ e.digest = IF Emissions[s].of = "artefact" THEN flow[o].artefact ELSE flow[o].previous
      /\ e.from = IF Emissions[s].kind = "rolled_back" THEN flow[o].artefact ELSE Nothing
  BY DEF Emitted
<1>2. e.drill <=> s \in {"drill_incident", "drill_rolled", "drill_restored", "drill_rebuilt"}
  <2>1. e.drill = Emissions[s].drill BY EmittedIs
  <2> QED BY <2>1, DrillTable
<1>3. s \in AttestStages OBVIOUS
<1> HIDE DEF e, s
<1>4. e.kind = "deployed" /\ e.mode = "release" <=> s = "deployed" BY <1>1, <1>3, MetricsTable
<1>5. e.kind = "incident" /\ e.drill <=> s = "drill_incident"
  BY <1>1, <1>2, <1>3, MetricsTable
<1>6. e.kind = "rolled_back" /\ e.drill <=> s = "drill_rolled"
  BY <1>1, <1>2, <1>3, MetricsTable
<1>7. e.kind = "restored" /\ e.drill <=> s \in {"drill_restored", "drill_rebuilt"}
  BY <1>1, <1>2, <1>3, MetricsTable
<1>8. (e.kind = "incident" \/ e.kind = "rolled_back") /\ ~e.drill <=> s \in FailureStages
  BY <1>1, <1>2, <1>3, MetricsTable DEF FailureStages
<1>9. \A S : Added(o, S) = IF s \in S THEN {e} ELSE {} BY DEF Added, e, s
<1>10. ReleaseDeployments(all) = ReleaseDeployments(rs) \cup Added(o, {"deployed"})
  BY <1>4, <1>9 DEF ReleaseDeployments, DeployedIn
<1>11. DrillsIn(all, "incident") = DrillsIn(rs, "incident") \cup Added(o, {"drill_incident"})
  BY <1>5, <1>9 DEF DrillsIn
<1>12. DrillsIn(all, "rolled_back") = DrillsIn(rs, "rolled_back") \cup Added(o, {"drill_rolled"})
  BY <1>6, <1>9 DEF DrillsIn
<1>13. DrillsIn(all, "restored") = DrillsIn(rs, "restored")
                                     \cup Added(o, {"drill_restored", "drill_rebuilt"})
  BY <1>7, <1>9 DEF DrillsIn
<1>14. Failures(all) = Failures(rs) \cup Added(o, FailureStages)
  BY <1>8, <1>9 DEF Failures, Real
<1>15. e.mode = "restore" <=> s = "drill_rebuilt" BY <1>1, <1>3, MetricsTable
<1>16. s = "deployed" => e.digest = flow[o].artefact BY <1>1, <1>3, MetricsTable
<1>17. s \in FailureStages => Blamed(e) = flow[o].artefact
  BY <1>1, <1>3, MetricsTable DEF Blamed, FailureStages
<1> QED BY <1>10, <1>11, <1>12, <1>13, <1>14, <1>15, <1>16, <1>17 DEF e, s

\* Where an attestation leads its flow.
LEMMA AttestLeads ==
    ASSUME NEW o \in Operators, NEW recorded \in BOOLEAN, stage[o] \in AttestStages,
           stage'[o] = NextStage(o, recorded)
    PROVE  /\ stage'[o] = "drill_back" <=> stage[o] = "drill_incident"
           /\ stage'[o] = "drill_restored" <=> stage[o] = "drill_rolled"
           /\ stage'[o] = "drill_forward" <=> stage[o] = "drill_restored"
           /\ stage'[o] = "put_back" => stage[o] = "failed_incident"
           /\ stage[o] = "drill_rebuilt" => stage'[o] = "report"
           /\ stage'[o] \notin {"idle", "deploy", "deployed", "failed_incident", "roll_back",
                                "rollback_incident", "rolled", "drill_failed", "back_rolled",
                                "drill_rolled", "drill_incident", "drill_rebuilt"}
BY NextStageIs, NextsTable, AttestStagesAre

\* What one operator's step writes, while the ledger can be read.
Readable == Alone /\ ~scope.errors

Attests(o) ==
    /\ stage[o] \in AttestStages
    /\ \E recorded \in BOOLEAN : stage'[o] = NextStage(o, recorded)
    /\ Known' = Known \cup {Emitted(o)}
    /\ clock' = clock + 1
    /\ flow'[o].artefact = flow[o].artefact

Moves(o) ==
    /\ UNCHANGED <<ledger, spool, clock>>
    /\ \/ stage[o] = "idle" /\ stage'[o] \in {"deploy", "roll_back", "drill_incident",
                                             "restore_backup"}
       \/ stage[o] \in ApplyStages /\ stage'[o] = stage[o] /\ flow'[o] = flow[o]
       \/ /\ stage[o] \in ApplyStages /\ stage'[o] \in {OnSuccess[stage[o]], OnFailure[stage[o]]}
          /\ flow'[o].artefact = flow[o].artefact
       \/ /\ stage[o] # "idle" /\ stage'[o] = "idle"
          /\ ~scope.crashes => stage[o] \notin AttestStages

LEMMA SoleSteps ==
    ASSUME IInv, SoleInv, Readable, NEW o \in Operators, Step(o)
    PROVE  /\ scope' = scope
           /\ \A q \in Operators : q # o => stage[q] = "idle" /\ stage'[q] = "idle"
           /\ Attests(o) \/ Moves(o)
<1>1. /\ o \in scope.operators /\ scope' = scope
      /\ \A q \in Operators : q # o => stage'[q] = stage[q]
  BY StepIsOwn
<1>2. ASSUME NEW q \in Operators, q # o PROVE stage[q] = "idle"
  <2>1. q \notin scope.operators BY <1>1, <1>2 DEF Readable, Alone
  <2> QED BY <2>1 DEF SoleInv, Keeps, Own
<1>3. CASE AttestRecorded(o) \/ AttestWaits(o) \/ AttestFails(o)
  <2>1. Attests(o)
    BY <1>3, AttestEffects, AttestCloses DEF Attests, Readable
  <2> QED BY <1>1, <1>2, <2>1
<1>4. CASE ~(AttestRecorded(o) \/ AttestWaits(o) \/ AttestFails(o))
  <2>1. UNCHANGED <<ledger, spool, clock>> BY <1>4, StepWrites
  <2>2. \A s \in ApplyStages : s \notin AttestStages BY ApplyStagesTyped
  <2>3. "report" \notin AttestStages BY AttestStagesAre
  <2>4. Moves(o)
    BY <1>4, <2>1, <2>2, <2>3, StepLeads DEF Moves, Readable
  <2> QED BY <1>1, <1>2, <2>4
<1> QED BY <1>3, <1>4

-----------------------------------------------------------------------------
(***************************************************************************)
(* observe.drill.  Founded: nothing is drilled or put back before a        *)
(* release.  GateInv: the drills that recovered since the newest release   *)
(* are the ones its records prove.                                         *)
(***************************************************************************)

Founded ==
    (\/ DeployedIn(Known) # {}
     \/ DrillsIn(Known, "restored") # {}
     \/ \E o \in Operators : flow[o].previous # Nothing)
        => ReleaseDeployments(Known) # {}

NewerThanReleases(rs, r) == \A d \in ReleaseDeployments(rs) : d.at < r.at

RestoreDrilled(rs) ==
    \E r \in DrillsIn(rs, "restored") : r.mode = "restore" /\ NewerThanReleases(rs, r)

RollbackDrilled(rs) ==
    /\ \E b \in DrillsIn(rs, "rolled_back") : NewerThanReleases(rs, b)
    /\ \E r \in DrillsIn(rs, "restored") :
          r.mode # "restore" /\ \A b \in DrillsIn(rs, "rolled_back") : b.at < r.at

GateInv ==
    Readable =>
        /\ drilled \subseteq {"drill", "restore"}
        /\ "restore" \in drilled <=> RestoreDrilled(Known)
        /\ "drill" \in drilled <=> RollbackDrilled(Known)
        /\ \A o \in Operators : stage[o] = "drill_restored" =>
              \E b \in DrillsIn(Known, "rolled_back") : NewerThanReleases(Known, b)

\* The artefact a command puts back is read from a ledger that has deployed one.
LEMMA PreviousRead ==
    ASSUME IInv, NEW o \in Operators, Step(o),
           ~(AttestRecorded(o) \/ AttestWaits(o) \/ AttestFails(o)),
           flow'[o].previous # Nothing
    PROVE  flow[o].previous # Nothing \/ DeployedIn(ledger) # {}
<1>1. flow \in [Operators -> FlowStates] /\ flow[o] \in FlowStates BY DEF IInv, TypeOK
<1>2. NoFlow.previous = Nothing BY DEF NoFlow
<1>3. CASE StartForward(o) \/ StartRollback(o) \/ StartDrill(o) \/ StartRestore(o)
  <2>1. PICK a, opened, first : Start(o, first, a, opened)
    BY <1>3 DEF StartForward, StartRollback, StartDrill, StartRestore
  <2> DEFINE n == [NoFlow EXCEPT !.artefact = a, !.previous = PreviousArtefact(ledger, a),
                                 !.opened = opened]
  <2>2. flow'[o] = n BY <1>1, <2>1 DEF Start
  <2>3. n.previous = PreviousArtefact(ledger, a) BY DEF NoFlow
  <2> HIDE DEF n
  <2>4. PreviousArtefact(ledger, a) # Nothing BY <2>2, <2>3
  <2> QED BY <2>4 DEF PreviousArtefact, LiveArtefact, DeployedIn
<1>4. CASE TakeLock(o) \/ Switch(o) \/ ScriptEnds(o) \/ Rebuilt(o) \/ Verified(o)
  BY <1>4 DEF TakeLock, Switch, ScriptEnds, Rebuilt, Verified
<1>5. CASE ApplyFails(o)
  BY <1>1, <1>5 DEF ApplyFails, FlowStates
<1>6. CASE FindLocked(o) \/ AttestAborts(o) \/ Report(o) \/ Crash(o)
  BY <1>1, <1>2, <1>6 DEF FindLocked, AttestAborts, Report, Crash
<1> QED BY <1>3, <1>4, <1>5, <1>6 DEF Step, Progress

LEMMA FoundedKept == IInv /\ SoleInv /\ Founded /\ [Next]_vars => Founded'
<1> SUFFICES ASSUME IInv, SoleInv, Founded, [Next]_vars PROVE Founded'
  OBVIOUS
<1>1. CASE UNCHANGED vars
  <2>1. Known' = Known /\ flow' = flow BY <1>1 DEF vars, Known
  <2> QED BY <2>1 DEF Founded
<1>2. ASSUME NEW r \in spool, Replay(r) PROVE Founded'
  <2>1. Known' = Known /\ flow' = flow BY <1>2 DEF Replay, Known
  <2> QED BY <2>1 DEF Founded
<1>3. ASSUME NEW o \in Operators, Step(o) PROVE Founded'
  <2>1. \A q \in Operators : q # o => flow'[q] = flow[q] BY <1>3, StepIsOwn
  <2>2. CASE AttestRecorded(o) \/ AttestWaits(o) \/ AttestFails(o)
    <3>1. /\ stage[o] \in AttestStages /\ flow'[o].previous = flow[o].previous
          /\ Known' = Known \cup {Emitted(o)} \/ Known' = Known
      BY <2>2, AttestEffects
    <3>2. CASE Known' = Known BY <2>1, <3>1, <3>2 DEF Founded
    <3>3. CASE Known' = Known \cup {Emitted(o)}
      <4> DEFINE all == Known \cup {Emitted(o)}
      <4>1. /\ ReleaseDeployments(all) = ReleaseDeployments(Known) \cup Added(o, {"deployed"})
            /\ DrillsIn(all, "restored") = DrillsIn(Known, "restored")
                                             \cup Added(o, {"drill_restored", "drill_rebuilt"})
        BY <3>1, RecordAdds
      <4>2. DeployedIn(all) # {} => DeployedIn(Known) # {} \/ Emitted(o).kind = "deployed"
        BY DEF DeployedIn
      <4>3. Emitted(o).kind = "deployed" =>
              stage[o] \in {"deployed", "back_deployed", "rollback_deployed", "drill_deployed",
                            "drill_stays"}
        BY <3>1, EmittedIs, MetricsTable
      <4> HIDE DEF all
      <4>4. ASSUME ReleaseDeployments(Known) = {}, stage[o] # "deployed"
            PROVE  /\ stage[o] \notin PreviousStages
                   /\ Emitted(o).kind # "deployed"
                   /\ Added(o, {"drill_restored", "drill_rebuilt"}) = {}
        <5>1. flow[o].previous = Nothing BY <4>4 DEF Founded
        <5>2. stage[o] \notin PreviousStages
          BY <5>1, ConstantsAssumption DEF IInv, ArtefactsAtHand
        <5> QED
          BY <3>1, <4>3, <4>4, <5>2, AttestStagesAre DEF PreviousStages, Added
      <4>5. stage[o] = "deployed" => ReleaseDeployments(all) # {} BY <4>1 DEF Added
      <4>6. ReleaseDeployments(Known) # {} => ReleaseDeployments(all) # {} BY <4>1
      <4>7. ASSUME ReleaseDeployments(Known) = {}, stage[o] # "deployed"
            PROVE  /\ DeployedIn(all) = {} /\ DrillsIn(all, "restored") = {}
                   /\ \A q \in Operators : flow'[q].previous = Nothing
        BY <2>1, <3>1, <4>1, <4>2, <4>4, <4>7 DEF Founded
      <4> QED BY <3>3, <4>5, <4>6, <4>7 DEF Founded, all
    <3> QED BY <3>1, <3>2, <3>3
  <2>3. CASE ~(AttestRecorded(o) \/ AttestWaits(o) \/ AttestFails(o))
    <3>1. Known' = Known BY <1>3, <2>3, StepWrites DEF Known
    <3>2. DeployedIn(ledger) \subseteq DeployedIn(Known) BY DEF DeployedIn, Known
    <3>3. flow'[o].previous # Nothing => flow[o].previous # Nothing \/ DeployedIn(Known) # {}
      BY <1>3, <2>3, <3>2, PreviousRead
    <3> QED BY <2>1, <3>1, <3>3 DEF Founded
  <2> QED BY <2>2, <2>3
<1> QED BY <1>1, <1>2, <1>3 DEF Next

\* A step that writes nothing notes no drill.
LEMMA MovesNoteNoDrill ==
    ASSUME IInv, NEW o \in Operators, Moves(o), Witness(o)
    PROVE  /\ Known' = Known
           /\ drilled' = drilled
           /\ stage'[o] # "drill_restored"
<1>1. UNCHANGED <<ledger, spool, clock>> BY DEF Moves
<1>2. stage'[o] # "drill_restored"
  BY ApplyLeads DEF Moves, ApplyStages
<1>3. ~(stage[o] = "drill_restored" /\ stage'[o] = "drill_forward")
  BY ApplyLeads DEF Moves, ApplyStages
<1>4. ~(stage[o] = "drill_rebuilt" /\ stage'[o] = "report")
  BY ApplyLeads DEF Moves, ApplyStages
<1> QED BY <1>1, <1>2, <1>3, <1>4 DEF Witness, Goes, Known

\* What the note of a drill is after an attestation.
LEMMA AttestsNoteDrills ==
    ASSUME IInv, NEW o \in Operators, Attests(o), Witness(o)
    PROVE  drilled' = CASE stage[o] = "deployed" -> {}
                        [] stage[o] = "drill_rolled" -> drilled \ {"drill"}
                        [] stage[o] = "drill_restored" -> drilled \cup {"drill"}
                        [] stage[o] = "drill_rebuilt" -> drilled \cup {"restore"}
                        [] OTHER -> drilled
<1>1. clock' # clock BY DEF Attests, IInv, TypeOK, Stamps
<1>2. /\ stage'[o] = "drill_restored" <=> stage[o] = "drill_rolled"
      /\ stage'[o] = "drill_forward" <=> stage[o] = "drill_restored"
      /\ stage[o] = "drill_rebuilt" => stage'[o] = "report"
  BY AttestLeads DEF Attests
<1> QED BY <1>1, <1>2 DEF Witness, Goes

LEMMA GateKept ==
    IInv /\ SoleInv /\ GateInv /\ [DeliveryNext]_dvars => GateInv'
<1> SUFFICES ASSUME IInv, SoleInv, GateInv, [DeliveryNext]_dvars PROVE GateInv'
  OBVIOUS
<1>1. CASE UNCHANGED dvars
  <2>1. Known' = Known /\ UNCHANGED <<scope, stage, drilled>>
    BY <1>1 DEF dvars, vars, witnessed, Known
  <2> QED BY <2>1 DEF GateInv, Readable, Alone
<1>2. ASSUME NEW r \in spool, Replay(r), UNCHANGED witnessed PROVE GateInv'
  <2>1. Known' = Known /\ UNCHANGED <<scope, stage, drilled>>
    BY <1>2 DEF Replay, witnessed, Known
  <2> QED BY <2>1 DEF GateInv, Readable, Alone
<1>3. ASSUME NEW o \in Operators, Step(o), Witness(o) PROVE GateInv'
  <2>1. scope' = scope BY <1>3, StepIsOwn
  <2>2. Readable' <=> Readable BY <2>1 DEF Readable, Alone
  <2> SUFFICES ASSUME Readable
               PROVE  /\ drilled' \subseteq {"drill", "restore"}
                      /\ "restore" \in drilled' <=> RestoreDrilled(Known')
                      /\ "drill" \in drilled' <=> RollbackDrilled(Known')
                      /\ \A q \in Operators : stage'[q] = "drill_restored" =>
                           \E b \in DrillsIn(Known', "rolled_back") : NewerThanReleases(Known', b)
    BY <2>2 DEF GateInv
  <2>3. /\ \A q \in Operators : q # o => stage'[q] = "idle"
        /\ Attests(o) \/ Moves(o)
    BY <1>3, SoleSteps
  <2>4. /\ drilled \subseteq {"drill", "restore"}
        /\ "restore" \in drilled <=> RestoreDrilled(Known)
        /\ "drill" \in drilled <=> RollbackDrilled(Known)
        /\ stage[o] = "drill_restored" =>
              \E b \in DrillsIn(Known, "rolled_back") : NewerThanReleases(Known, b)
    BY DEF GateInv
  <2>5. CASE Moves(o)
    <3>1. Known' = Known /\ drilled' = drilled /\ stage'[o] # "drill_restored"
      BY <1>3, <2>5, MovesNoteNoDrill
    <3> QED BY <2>3, <2>4, <3>1
  <2>6. CASE Attests(o)
    <3> DEFINE e == Emitted(o)
    <3> DEFINE all == Known \cup {e}
    <3>1. stage[o] \in AttestStages /\ Known' = all BY <2>6 DEF Attests
    <3>2. /\ e.at = clock /\ clock \in Nat /\ \A x \in Known : x.at < clock /\ x.at \in Nat
      BY <3>1, EmittedIs DEF Records, Stamps
    <3>3. /\ ReleaseDeployments(all) = ReleaseDeployments(Known) \cup Added(o, {"deployed"})
          /\ DrillsIn(all, "rolled_back") = DrillsIn(Known, "rolled_back")
                                              \cup Added(o, {"drill_rolled"})
          /\ DrillsIn(all, "restored") = DrillsIn(Known, "restored")
                                           \cup Added(o, {"drill_restored", "drill_rebuilt"})
          /\ e.mode = "restore" <=> stage[o] = "drill_rebuilt"
      BY <3>1, RecordAdds
    <3>4. drilled' = CASE stage[o] = "deployed" -> {}
                       [] stage[o] = "drill_rolled" -> drilled \ {"drill"}
                       [] stage[o] = "drill_restored" -> drilled \cup {"drill"}
                       [] stage[o] = "drill_rebuilt" -> drilled \cup {"restore"}
                       [] OTHER -> drilled
      BY <1>3, <2>6, AttestsNoteDrills
    <3>5. stage'[o] = "drill_restored" <=> stage[o] = "drill_rolled"
      BY <2>6, AttestLeads DEF Attests
    <3>6. /\ DrillsIn(Known, "rolled_back") \subseteq Known
          /\ DrillsIn(Known, "restored") \subseteq Known
          /\ ReleaseDeployments(Known) \subseteq Known
      BY DEF DrillsIn, ReleaseDeployments, DeployedIn
    <3>7. \A S : Added(o, S) = IF stage[o] \in S THEN {e} ELSE {} BY DEF Added
    <3> HIDE DEF e, all
    <3>8. CASE stage[o] = "deployed"
      <4>1. /\ ReleaseDeployments(all) = ReleaseDeployments(Known) \cup {e}
            /\ DrillsIn(all, "rolled_back") = DrillsIn(Known, "rolled_back")
            /\ DrillsIn(all, "restored") = DrillsIn(Known, "restored")
        BY <3>3, <3>7, <3>8
      <4>2. \A x \in Known : ~NewerThanReleases(all, x)
        BY <3>2, <4>1 DEF NewerThanReleases
      <4>3. ~RestoreDrilled(all) /\ ~RollbackDrilled(all)
        BY <3>6, <4>1, <4>2 DEF RestoreDrilled, RollbackDrilled
      <4> QED BY <2>3, <3>1, <3>4, <3>5, <3>8, <4>3
    <3>9. CASE stage[o] = "drill_rolled"
      <4>1. /\ ReleaseDeployments(all) = ReleaseDeployments(Known)
            /\ DrillsIn(all, "rolled_back") = DrillsIn(Known, "rolled_back") \cup {e}
            /\ DrillsIn(all, "restored") = DrillsIn(Known, "restored")
        BY <3>3, <3>7, <3>9
      <4>2. NewerThanReleases(all, e) BY <3>2, <3>6, <4>1 DEF NewerThanReleases
      <4>3. ~RollbackDrilled(all) BY <3>2, <3>6, <4>1 DEF RollbackDrilled
      <4>4. RestoreDrilled(all) <=> RestoreDrilled(Known)
        BY <4>1 DEF RestoreDrilled, NewerThanReleases
      <4>5. drilled' = drilled \ {"drill"} BY <3>4, <3>9
      <4> QED BY <2>3, <2>4, <3>1, <4>1, <4>2, <4>3, <4>4, <4>5
    <3>10. CASE stage[o] = "drill_restored"
      <4>1. /\ ReleaseDeployments(all) = ReleaseDeployments(Known)
            /\ DrillsIn(all, "rolled_back") = DrillsIn(Known, "rolled_back")
            /\ DrillsIn(all, "restored") = DrillsIn(Known, "restored") \cup {e}
            /\ e.mode # "restore"
        BY <3>3, <3>7, <3>10
      <4>2. RollbackDrilled(all)
        BY <2>4, <3>2, <3>6, <3>10, <4>1 DEF RollbackDrilled, NewerThanReleases
      <4>3. RestoreDrilled(all) <=> RestoreDrilled(Known)
        BY <4>1 DEF RestoreDrilled, NewerThanReleases
      <4>4. drilled' = drilled \cup {"drill"} BY <3>4, <3>10
      <4> QED BY <2>3, <2>4, <3>1, <3>5, <3>10, <4>2, <4>3, <4>4
    <3>11. CASE stage[o] = "drill_rebuilt"
      <4>1. /\ ReleaseDeployments(all) = ReleaseDeployments(Known)
            /\ DrillsIn(all, "rolled_back") = DrillsIn(Known, "rolled_back")
            /\ DrillsIn(all, "restored") = DrillsIn(Known, "restored") \cup {e}
            /\ e.mode = "restore"
        BY <3>3, <3>7, <3>11
      <4>2. RestoreDrilled(all)
        BY <3>2, <3>6, <4>1 DEF RestoreDrilled, NewerThanReleases
      <4>3. RollbackDrilled(all) <=> RollbackDrilled(Known)
        BY <4>1 DEF RollbackDrilled, NewerThanReleases
      <4>4. drilled' = drilled \cup {"restore"} BY <3>4, <3>11
      <4> QED BY <2>3, <2>4, <3>1, <3>5, <3>11, <4>2, <4>3, <4>4
    <3>12. CASE stage[o] \notin {"deployed", "drill_rolled", "drill_restored", "drill_rebuilt"}
      <4>1. /\ ReleaseDeployments(all) = ReleaseDeployments(Known)
            /\ DrillsIn(all, "rolled_back") = DrillsIn(Known, "rolled_back")
            /\ DrillsIn(all, "restored") = DrillsIn(Known, "restored")
        BY <3>3, <3>7, <3>12
      <4>2. /\ RestoreDrilled(all) <=> RestoreDrilled(Known)
            /\ RollbackDrilled(all) <=> RollbackDrilled(Known)
        BY <4>1 DEF RestoreDrilled, RollbackDrilled, NewerThanReleases
      <4>3. drilled' = drilled BY <3>4, <3>12
      <4> QED BY <2>3, <2>4, <3>1, <3>5, <3>12, <4>2, <4>3
    <3> QED BY <3>8, <3>9, <3>10, <3>11, <3>12
  <2> QED BY <2>3, <2>5, <2>6
<1> QED BY <1>1, <1>2, <1>3 DEF DeliveryNext

\* The gate reads the records as the invariant does.
LEMMA GateReads ==
    ASSUME NEW rs \in SUBSET Records, NEW bound \in Nat, \A r \in rs : r.at < bound
    PROVE  DrillGate(rs) <=> /\ ReleaseDeployments(rs) # {}
                             /\ RestoreDrilled(rs) \/ RollbackDrilled(rs)
<1> DEFINE RD == ReleaseDeployments(rs)
<1> DEFINE n == Newest(RD)
<1> DEFINE RB == DrillsIn(rs, "rolled_back")
<1> DEFINE RR == DrillsIn(rs, "restored")
<1> DEFINE after(S) == {r \in S : r.at > n.at}
<1>1. \A r \in rs : r.at \in Nat BY DEF Records, Stamps
<1>2. RD \subseteq rs /\ RB \subseteq rs /\ RR \subseteq rs
  BY DEF ReleaseDeployments, DeployedIn, DrillsIn
<1>3. DrillGate(rs) <=>
        /\ RD # {}
        /\ \/ \E r \in after(RR) : r.mode = "restore"
           \/ /\ after(RB) # {}
              /\ \E r \in after(RR) : r.mode # "restore" /\ r.at > Newest(after(RB)).at
  BY DEF DrillGate
<1> SUFFICES ASSUME RD # {}
             PROVE  /\ (\E r \in after(RR) : r.mode = "restore") <=> RestoreDrilled(rs)
                    /\ (/\ after(RB) # {}
                        /\ \E r \in after(RR) : r.mode # "restore" /\ r.at > Newest(after(RB)).at)
                         <=> RollbackDrilled(rs)
  BY <1>3
<1>4. n \in RD /\ \A d \in RD : d.at <= n.at
  <2>1. RD \in SUBSET Records /\ \A d \in RD : d.at < bound BY <1>2
  <2> HIDE DEF RD
  <2> QED BY <2>1, NewestInSet
<1>5. \A r \in rs : NewerThanReleases(rs, r) <=> r.at > n.at
  BY <1>1, <1>2, <1>4 DEF NewerThanReleases
<1>6. after(RB) # {} => /\ Newest(after(RB)) \in after(RB)
                        /\ \A b \in after(RB) : b.at <= Newest(after(RB)).at
  <2> DEFINE S == after(RB)
  <2>1. S \in SUBSET Records /\ \A d \in S : d.at < bound BY <1>2
  <2> HIDE DEF S
  <2>2. S # {} => Newest(S) \in S /\ \A b \in S : b.at <= Newest(S).at BY <2>1, NewestInSet
  <2> QED BY <2>2 DEF S
<1>7. (\E r \in after(RR) : r.mode = "restore") <=> RestoreDrilled(rs)
  BY <1>2, <1>5 DEF RestoreDrilled
<1>8. after(RB) # {} <=> \E b \in RB : NewerThanReleases(rs, b) BY <1>2, <1>5
<1>9. ASSUME after(RB) # {}, NEW r \in RR
      PROVE  (r.at > n.at /\ r.at > Newest(after(RB)).at) <=> \A b \in RB : b.at < r.at
  <2> DEFINE last == Newest(after(RB))
  <2>1. last \in RB /\ last.at > n.at /\ \A b \in RB : b.at > n.at => b.at <= last.at
    BY <1>6, <1>9
  <2>2. r.at \in Nat /\ last.at \in Nat /\ n.at \in Nat /\ \A b \in RB : b.at \in Nat
    BY <1>1, <1>2, <1>4, <2>1
  <2> HIDE DEF last, n, RB
  <2>3. ASSUME r.at > n.at, r.at > last.at, NEW b \in RB PROVE b.at < r.at
    BY <2>1, <2>2, <2>3
  <2>4. ASSUME \A b \in RB : b.at < r.at PROVE r.at > n.at /\ r.at > last.at
    BY <2>1, <2>2, <2>4
  <2> QED BY <2>3, <2>4 DEF last
<1> QED BY <1>7, <1>8, <1>9 DEF RollbackDrilled

LEMMA DeliverySole == DeliverySpec => [](IInv /\ SoleInv)
BY DeliveryIsDeployFlow, Invariance, Sole, PTL

\* The gate observe.drill is green exactly when the last rollback drill to have
\* recorded its rollback has recovered since the newest recorded release, or a
\* restore drill has, for one operator and every ledger it can read: a drill
\* that broke off after that record, or one before the release, never makes it
\* green.
THEOREM DrillGateEarned == DeliverySpec => []DrillGateIsEarned
<1>1. DeliveryInit => Founded /\ GateInv
  BY DEF DeliveryInit, Init, NoFlow, Founded, GateInv, Known, DeployedIn, DrillsIn,
     RestoreDrilled, RollbackDrilled
<1>2. IInv /\ SoleInv /\ Founded /\ [DeliveryNext]_dvars => Founded'
  <2>1. [DeliveryNext]_dvars => [Next]_vars BY DEF DeliveryNext, Next, dvars
  <2> QED BY <2>1, FoundedKept
<1>3. IInv /\ SoleInv /\ GateInv /\ [DeliveryNext]_dvars => GateInv' BY GateKept
<1>4. IInv /\ Founded /\ GateInv => DrillGateIsEarned
  <2> SUFFICES ASSUME IInv, Founded, GateInv, Settled
               PROVE  DrillGate(ledger) <=> drilled # {}
    BY DEF DrillGateIsEarned
  <2>1. Readable /\ Known = ledger BY DEF Settled, Readable, Known
  <2>2. ledger \in SUBSET Records /\ clock \in Nat /\ \A r \in ledger : r.at < clock
    BY DEF IInv, TypeOK, StampsPast, Stamps
  <2>3. drilled # {} <=> RestoreDrilled(ledger) \/ RollbackDrilled(ledger)
    BY <2>1 DEF GateInv
  <2>4. RestoreDrilled(ledger) \/ RollbackDrilled(ledger) => ReleaseDeployments(ledger) # {}
    BY <2>1 DEF RestoreDrilled, RollbackDrilled, Founded
  <2> QED BY <2>2, <2>3, <2>4, GateReads
<1> QED BY <1>1, <1>2, <1>3, <1>4, DeliverySole, PTL DEF DeliverySpec

-----------------------------------------------------------------------------
(***************************************************************************)
(* The recoveries of drills.  Between the beginning of a drill and its     *)
(* recovery stands its incident: what the measure of the drills looks for. *)
(***************************************************************************)

IncidentSince(rs, b, n) == \E j \in DrillsIn(rs, "incident") : b <= j.at /\ j.at < n

DrillInv ==
    Readable =>
        /\ \A b \in began : b \in Nat /\ b <= clock
        /\ \A r \in DrillsIn(Known, "restored") : r.mode # "restore" =>
              \A b \in began : b <= r.at => IncidentSince(Known, b, r.at)
        /\ \A o \in Operators : stage[o] \in {"drill_back", "drill_rolled", "drill_restored"} =>
              \A b \in began : IncidentSince(Known, b, clock)

LEMMA DrillKept ==
    IInv /\ SoleInv /\ DrillInv /\ [DeliveryNext]_dvars => DrillInv'
<1> SUFFICES ASSUME IInv, SoleInv, DrillInv, [DeliveryNext]_dvars PROVE DrillInv'
  OBVIOUS
<1>1. CASE UNCHANGED dvars
  <2>1. Known' = Known /\ UNCHANGED <<scope, stage, began, clock>>
    BY <1>1 DEF dvars, vars, witnessed, Known
  <2> QED BY <2>1 DEF DrillInv, Readable, Alone
<1>2. ASSUME NEW r \in spool, Replay(r), UNCHANGED witnessed PROVE DrillInv'
  <2>1. Known' = Known /\ UNCHANGED <<scope, stage, began, clock>>
    BY <1>2 DEF Replay, witnessed, Known
  <2> QED BY <2>1 DEF DrillInv, Readable, Alone
<1>3. ASSUME NEW o \in Operators, Step(o), Witness(o) PROVE DrillInv'
  <2>1. scope' = scope BY <1>3, StepIsOwn
  <2>2. Readable' <=> Readable BY <2>1 DEF Readable, Alone
  <2> SUFFICES ASSUME Readable
               PROVE  /\ \A b \in began' : b \in Nat /\ b <= clock'
                      /\ \A r \in DrillsIn(Known', "restored") : r.mode # "restore" =>
                            \A b \in began' : b <= r.at => IncidentSince(Known', b, r.at)
                      /\ \A q \in Operators :
                            stage'[q] \in {"drill_back", "drill_rolled", "drill_restored"} =>
                              \A b \in began' : IncidentSince(Known', b, clock')
    BY <2>2 DEF DrillInv
  <2>3. /\ \A q \in Operators : q # o => stage'[q] = "idle"
        /\ Attests(o) \/ Moves(o)
    BY <1>3, SoleSteps
  <2>4. /\ \A b \in began : b \in Nat /\ b <= clock
        /\ \A r \in DrillsIn(Known, "restored") : r.mode # "restore" =>
              \A b \in began : b <= r.at => IncidentSince(Known, b, r.at)
        /\ stage[o] \in {"drill_back", "drill_rolled", "drill_restored"} =>
              \A b \in began : IncidentSince(Known, b, clock)
    BY DEF DrillInv
  <2>5. /\ clock \in Nat /\ \A x \in Known : x \in Records /\ x.at \in Nat /\ x.at < clock
        /\ \A k : DrillsIn(Known, k) \subseteq Known
    BY DEF IInv, TypeOK, StampsPast, Known, Stamps, Records, DrillsIn
  <2>6. began' = IF stage[o] = "idle" /\ stage'[o] = "drill_incident"
                 THEN began \cup {clock} ELSE began
    BY <1>3 DEF Witness, Goes
  <2>7. CASE Moves(o)
    <3>1. Known' = Known /\ clock' = clock BY <2>7 DEF Moves, Known
    <3>2. stage'[o] \in {"drill_back", "drill_rolled", "drill_restored"} =>
             stage[o] \in {"drill_back", "drill_rolled", "drill_restored"} /\ began' = began
      BY <2>6, <2>7, ApplyLeads DEF Moves, ApplyStages
    <3>3. \A b \in began' : b \in Nat /\ b <= clock /\ (b \in began \/ b = clock)
      BY <2>4, <2>5, <2>6
    <3>4. ASSUME NEW r \in DrillsIn(Known, "restored"), r.mode # "restore",
                 NEW b \in began', b <= r.at
          PROVE  IncidentSince(Known, b, r.at)
      <4>1. b # clock BY <2>5, <3>4
      <4> QED BY <2>4, <3>3, <3>4, <4>1
    <3> QED BY <2>3, <2>4, <3>1, <3>2, <3>3, <3>4
  <2>8. CASE Attests(o)
    <3> DEFINE e == Emitted(o)
    <3> DEFINE all == Known \cup {e}
    <3>1. stage[o] \in AttestStages /\ Known' = all /\ clock' = clock + 1 BY <2>8 DEF Attests
    <3>2. e.at = clock BY <3>1, EmittedIs
    <3>3. /\ DrillsIn(all, "incident") = DrillsIn(Known, "incident")
                                           \cup Added(o, {"drill_incident"})
          /\ DrillsIn(all, "restored") = DrillsIn(Known, "restored")
                                           \cup Added(o, {"drill_restored", "drill_rebuilt"})
          /\ e.mode = "restore" <=> stage[o] = "drill_rebuilt"
      BY <3>1, RecordAdds
    <3>4. \A S : Added(o, S) = IF stage[o] \in S THEN {e} ELSE {} BY DEF Added
    <3>5. /\ stage'[o] = "drill_back" <=> stage[o] = "drill_incident"
          /\ stage'[o] = "drill_restored" <=> stage[o] = "drill_rolled"
          /\ stage'[o] # "drill_rolled"
      BY <2>8, AttestLeads DEF Attests
    <3>6. began' = began
      <4>1. stage[o] # "idle" BY <3>1, AttestStagesAre
      <4> QED BY <2>6, <4>1
    <3> HIDE DEF e, all
    <3>7. \A b, n : IncidentSince(Known, b, n) => IncidentSince(all, b, n)
      BY <3>3 DEF IncidentSince
    <3>8. \A b \in Nat : IncidentSince(Known, b, clock) => IncidentSince(all, b, clock + 1)
      BY <2>5, <3>3 DEF IncidentSince
    <3>9. \A b \in began : b \in Nat /\ b <= clock + 1 BY <2>4, <2>5
    <3>10. ASSUME NEW r \in DrillsIn(all, "restored"), r.mode # "restore",
                  NEW b \in began, b <= r.at
           PROVE  IncidentSince(all, b, r.at)
      <4>1. CASE r \in DrillsIn(Known, "restored") BY <2>4, <3>7, <3>10, <4>1
      <4>2. CASE r \notin DrillsIn(Known, "restored")
        <5>1. r = e /\ stage[o] = "drill_restored" BY <3>3, <3>4, <3>10, <4>2
        <5>2. IncidentSince(Known, b, clock) BY <2>4, <3>10, <5>1
        <5> QED BY <3>2, <3>7, <5>1, <5>2
      <4> QED BY <4>1, <4>2
    <3>11. ASSUME stage'[o] \in {"drill_back", "drill_rolled", "drill_restored"},
                  NEW b \in began
           PROVE  IncidentSince(all, b, clock + 1)
      <4>1. CASE stage[o] = "drill_incident"
        <5>1. e \in DrillsIn(all, "incident") BY <3>3, <3>4, <4>1
        <5>2. b <= e.at /\ e.at < clock + 1 BY <2>4, <2>5, <3>2
        <5> QED BY <5>1, <5>2 DEF IncidentSince
      <4>2. CASE stage[o] = "drill_rolled"
        BY <2>4, <3>8, <3>11, <4>2
      <4> QED BY <3>5, <3>11, <4>1, <4>2
    <3> QED BY <2>3, <3>1, <3>6, <3>9, <3>10, <3>11
  <2> QED BY <2>3, <2>7, <2>8
<1> QED BY <1>1, <1>2, <1>3 DEF DeliveryNext

\* The first of a set of records is one of them, and none is earlier.
LEMMA FirstInSet ==
    ASSUME NEW rs \in SUBSET Records, rs # {}
    PROVE  FirstOf(rs) \in rs /\ \A s \in rs : FirstOf(rs).at <= s.at
<1> DEFINE S == {r.at : r \in rs}
<1>1. S \in SUBSET Nat /\ S # {} BY DEF Records, Stamps
<1>2. Least(S) \in S /\ \A j \in S : Least(S) <= j BY <1>1, LeastInSet
<1>3. PICK r \in rs : r.at = Least(S) BY <1>2
<1>4. \A s \in rs : r.at <= s.at BY <1>2, <1>3
<1> QED BY <1>4 DEF FirstOf

\* For one operator and every window, a rollback drill's recovery is measured
\* from its own incident: no drill began in between, whatever was killed,
\* aborted or attested late.
THEOREM RollbackDrillsMeasured == DeliverySpec => []RollbackDrillsAreMeasuredAlone
<1>1. DeliveryInit => DrillInv
  BY DEF DeliveryInit, Init, DrillInv, Known, DrillsIn
<1>2. IInv /\ SoleInv /\ DrillInv /\ [DeliveryNext]_dvars => DrillInv' BY DrillKept
<1>3. IInv /\ DrillInv => RollbackDrillsAreMeasuredAlone
  <2> SUFFICES ASSUME IInv, DrillInv, Settled, NEW since \in Windows,
                      NEW p \in DrillRecoveries(ledger, since), p[2].mode # "restore",
                      NEW b \in began, p[1].at < b, b <= p[2].at
               PROVE  FALSE
    BY DEF RollbackDrillsAreMeasuredAlone, SameDrill
  <2> DEFINE within == Window(ledger, since)
  <2> DEFINE incidents == DrillsIn(within, "incident")
  <2> DEFINE after(i) == {r \in DrillsIn(within, "restored") :
                            r.at > i.at /\ \A j \in incidents : j.at > i.at => r.at < j.at}
  <2>1. DrillRecoveries(ledger, since) =
          {<<i, FirstOf(after(i))>> : i \in {j \in incidents : after(j) # {}}}
    BY DEF DrillRecoveries
  <2>2. PICK i \in incidents : after(i) # {} /\ p = <<i, FirstOf(after(i))>> BY <2>1
  <2>3. Readable /\ Known = ledger BY DEF Settled, Readable, Known
  <2>4. /\ ledger \subseteq Records /\ since \in Nat
        /\ \A x \in ledger : x.at \in Nat
    BY DEF IInv, TypeOK, Records, Stamps, Windows
  <2>5. within \subseteq ledger /\ incidents \subseteq within
    BY DEF Window, DrillsIn
  <2>6. FirstOf(after(i)) \in after(i)
    <3> DEFINE S == after(i)
    <3>1. S \in SUBSET Records /\ S # {} BY <2>2, <2>4 DEF Window, DrillsIn
    <3> HIDE DEF S
    <3>2. FirstOf(S) \in S BY <3>1, FirstInSet
    <3> QED BY <3>2 DEF S
  <2>7. PICK r \in DrillsIn(within, "restored") :
          r = p[2] /\ \A j \in incidents : j.at > i.at => r.at < j.at
    BY <2>2, <2>6
  <2>8. i = p[1] /\ i.at >= since /\ i \in ledger BY <2>2, <2>5 DEF Window
  <2>9. r \in DrillsIn(ledger, "restored") /\ r.at \in Nat BY <2>4, <2>5 DEF DrillsIn
  <2>10. IncidentSince(ledger, b, r.at) /\ b \in Nat
    BY <2>3, <2>7, <2>9 DEF DrillInv
  <2>11. PICK j \in DrillsIn(ledger, "incident") : b <= j.at /\ j.at < r.at
    BY <2>10 DEF IncidentSince
  <2>12. j \in ledger /\ j.at \in Nat /\ i.at \in Nat BY <2>4, <2>8 DEF DrillsIn
  <2>13. j.at > i.at /\ j.at >= since BY <2>4, <2>8, <2>10, <2>11, <2>12
  <2>14. j \in incidents BY <2>13 DEF DrillsIn, Window
  <2> QED BY <2>7, <2>9, <2>11, <2>12, <2>13, <2>14
<1> QED BY <1>1, <1>2, <1>3, DeliverySole, PTL DEF DeliverySpec

-----------------------------------------------------------------------------
(***************************************************************************)
(* The failure rate.  What went live and what fell, as it happened, stands *)
(* in the records, but for the one event its flow is about to attest.      *)
(***************************************************************************)

EventOf(d) == [artefact |-> d.digest, at |-> d.at]

BlameOf(f) == [artefact |-> Blamed(f), at |-> f.at]

FallStages == {"failed_incident", "rollback_incident", "rolled", "drill_failed"}

PendingOf(st, fl, n, S) ==
    {[artefact |-> fl[o].artefact, at |-> n] : o \in {q \in Operators : st[q] \in S}}

Pending(S) == PendingOf(stage, flow, clock, S)

FellBefore(o) == \E e \in fell : e.artefact = flow[o].artefact /\ e.at < clock

CountInv ==
    Readable /\ ~scope.crashes =>
        /\ went = {EventOf(d) : d \in ReleaseDeployments(Known)} \cup Pending({"deployed"})
        /\ \A e \in fell : e \in Pending(FallStages) \/ \E f \in Failures(Known) : BlameOf(f) = e
        /\ \A f \in Failures(Known) : \E e \in fell : e.artefact = Blamed(f) /\ e.at <= f.at
        /\ Pending(FallStages) \subseteq fell
        /\ \A o \in Operators : stage[o] \in {"put_back", "back_rolled"} => FellBefore(o)

\* Stamps name records, and only finitely many releases have gone live.
StampsDiffer == \A r \in Known, s \in Known : r.at = s.at => r = s

FiniteWent == IsFiniteSet(went)

\* Only the one operator has an event to attest.
LEMMA PendingSole ==
    ASSUME NEW st, NEW fl, NEW n, NEW S, "idle" \notin S, NEW o \in Operators,
           \A q \in Operators : q # o => st[q] = "idle"
    PROVE  PendingOf(st, fl, n, S) =
             IF st[o] \in S THEN {[artefact |-> fl[o].artefact, at |-> n]} ELSE {}
BY DEF PendingOf

LEMMA CountKept ==
    IInv /\ SoleInv /\ CountInv /\ [DeliveryNext]_dvars => CountInv'
<1> SUFFICES ASSUME IInv, SoleInv, CountInv, [DeliveryNext]_dvars PROVE CountInv'
  OBVIOUS
<1>1. CASE UNCHANGED dvars
  <2>1. Known' = Known /\ UNCHANGED <<scope, stage, flow, went, fell, clock>>
    BY <1>1 DEF dvars, vars, witnessed, Known
  <2> QED BY <2>1 DEF CountInv, Readable, Alone, Pending, FellBefore
<1>2. ASSUME NEW r \in spool, Replay(r), UNCHANGED witnessed PROVE CountInv'
  <2>1. Known' = Known /\ UNCHANGED <<scope, stage, flow, went, fell, clock>>
    BY <1>2 DEF Replay, witnessed, Known
  <2> QED BY <2>1 DEF CountInv, Readable, Alone, Pending, FellBefore
<1>3. ASSUME NEW o \in Operators, Step(o), Witness(o) PROVE CountInv'
  <2>1. scope' = scope BY <1>3, StepIsOwn
  <2>2. Readable' <=> Readable BY <2>1 DEF Readable, Alone
  <2> DEFINE e == Emitted(o)
  <2> DEFINE all == Known \cup {e}
  <2> DEFINE Ev == Event(o)
  <2> SUFFICES ASSUME Readable, ~scope.crashes
               PROVE  /\ went' = {EventOf(d) : d \in ReleaseDeployments(Known')}
                                   \cup PendingOf(stage', flow', clock', {"deployed"})
                      /\ \A x \in fell' : \/ x \in PendingOf(stage', flow', clock', FallStages)
                                          \/ \E f \in Failures(Known') : BlameOf(f) = x
                      /\ \A f \in Failures(Known') :
                            \E x \in fell' : x.artefact = Blamed(f) /\ x.at <= f.at
                      /\ PendingOf(stage', flow', clock', FallStages) \subseteq fell'
                      /\ \A q \in Operators : stage'[q] \in {"put_back", "back_rolled"} =>
                            \E x \in fell' : x.artefact = flow'[q].artefact /\ x.at < clock'
    BY <2>1, <2>2 DEF CountInv, Pending, FellBefore
  <2>3. /\ \A q \in Operators : q # o => stage[q] = "idle" /\ stage'[q] = "idle"
        /\ Attests(o) \/ Moves(o)
    BY <1>3, SoleSteps
  <2>sole. ASSUME NEW S, "idle" \notin S
         PROVE  /\ PendingOf(stage, flow, clock, S) = IF stage[o] \in S THEN {Ev} ELSE {}
                /\ PendingOf(stage', flow', clock', S) =
                     IF stage'[o] \in S
                     THEN {[artefact |-> flow'[o].artefact, at |-> clock']} ELSE {}
    <3>1. Ev = [artefact |-> flow[o].artefact, at |-> clock] BY DEF Event
    <3> HIDE DEF Ev
    <3> QED BY <2>3, <2>sole, <3>1, PendingSole
  <2>none. "idle" \notin {"deployed"} /\ "idle" \notin FallStages BY DEF FallStages
  <2>4. /\ PendingOf(stage, flow, clock, {"deployed"}) =
             IF stage[o] = "deployed" THEN {Ev} ELSE {}
        /\ PendingOf(stage, flow, clock, FallStages) =
             IF stage[o] \in FallStages THEN {Ev} ELSE {}
    BY <2>sole, <2>none
  <2>5. /\ PendingOf(stage', flow', clock', {"deployed"}) =
             IF stage'[o] = "deployed"
             THEN {[artefact |-> flow'[o].artefact, at |-> clock']} ELSE {}
        /\ PendingOf(stage', flow', clock', FallStages) =
             IF stage'[o] \in FallStages
             THEN {[artefact |-> flow'[o].artefact, at |-> clock']} ELSE {}
    BY <2>sole, <2>none
  <2>6. /\ went = {EventOf(d) : d \in ReleaseDeployments(Known)}
                    \cup (IF stage[o] = "deployed" THEN {Ev} ELSE {})
        /\ \A x \in fell : \/ stage[o] \in FallStages /\ x = Ev
                           \/ \E f \in Failures(Known) : BlameOf(f) = x
        /\ \A f \in Failures(Known) : \E x \in fell : x.artefact = Blamed(f) /\ x.at <= f.at
        /\ stage[o] \in FallStages => Ev \in fell
        /\ stage[o] \in {"put_back", "back_rolled"} =>
              \E x \in fell : x.artefact = flow[o].artefact /\ x.at < clock
    BY <2>4 DEF CountInv, Pending, FellBefore
  <2>7. /\ went' = IF stage[o] = "deploy" /\ stage'[o] = "deployed"
                   THEN went \cup {Ev} ELSE went
        /\ fell' = IF Fell(o) THEN fell \cup {Ev} ELSE fell
    BY <1>3 DEF Witness, Goes
  <2>8. clock \in Nat /\ Ev.artefact = flow[o].artefact /\ Ev.at = clock
    BY DEF IInv, TypeOK, Stamps, Event
  <2>9. CASE Moves(o)
    <3>1. Known' = Known /\ clock' = clock BY <2>9 DEF Moves, Known
    <3>2. stage[o] \notin {"deployed", "back_rolled"} \cup FallStages
      BY <2>9, ApplyLeads, AttestStagesAre DEF Moves, ApplyStages, FallStages
    <3>3. /\ stage'[o] = "deployed" => stage[o] = "deploy"
          /\ stage'[o] \in FallStages => Fell(o)
          /\ Fell(o) => stage'[o] \in FallStages
          /\ stage'[o] \in {"put_back", "back_rolled"} => stage[o] = "put_back"
          /\ stage'[o] \in {"deployed", "put_back", "back_rolled"} \cup FallStages
               => flow'[o].artefact = flow[o].artefact
      BY <2>9, <3>2, ApplyLeads DEF Moves, ApplyStages, FallStages, Fell, Goes
    <3>4. went' = {EventOf(d) : d \in ReleaseDeployments(Known)}
                    \cup (IF stage'[o] = "deployed" THEN {Ev} ELSE {})
      BY <2>6, <2>7, <3>2, <3>3
    <3>5. stage'[o] \in {"deployed"} \cup FallStages =>
            [artefact |-> flow'[o].artefact, at |-> clock'] = Ev
      BY <3>1, <3>3 DEF Event
    <3>6. fell' = IF stage'[o] \in FallStages THEN fell \cup {Ev} ELSE fell
      BY <2>7, <3>3
    <3> HIDE DEF Ev
    <3>7. stage'[o] \in {"put_back", "back_rolled"} =>
             \E x \in fell' : x.artefact = flow'[o].artefact /\ x.at < clock'
      BY <2>6, <3>1, <3>3, <3>6
    <3>8. \A x \in fell' : \/ stage'[o] \in FallStages /\ x = Ev
                           \/ \E f \in Failures(Known) : BlameOf(f) = x
      BY <2>6, <3>2, <3>6
    <3>9. \A f \in Failures(Known) : \E x \in fell' : x.artefact = Blamed(f) /\ x.at <= f.at
      BY <2>6, <3>6
    <3> QED BY <2>3, <2>5, <3>1, <3>4, <3>5, <3>6, <3>7, <3>8, <3>9
  <2>10. CASE Attests(o)
    <3>1. /\ stage[o] \in AttestStages /\ Known' = all /\ clock' = clock + 1
          /\ flow'[o].artefact = flow[o].artefact
      BY <2>10 DEF Attests
    <3>2. e.at = clock BY <3>1, EmittedIs
    <3>3. /\ ReleaseDeployments(all) = ReleaseDeployments(Known) \cup Added(o, {"deployed"})
          /\ Failures(all) = Failures(Known) \cup Added(o, FailureStages)
          /\ stage[o] = "deployed" => e.digest = flow[o].artefact
          /\ stage[o] \in FailureStages => Blamed(e) = flow[o].artefact
      BY <3>1, RecordAdds
    <3>4. \A S : Added(o, S) = IF stage[o] \in S THEN {e} ELSE {} BY DEF Added
    <3>5. /\ stage'[o] # "deployed" /\ stage'[o] \notin FallStages
          /\ stage'[o] # "back_rolled"
          /\ stage'[o] = "put_back" => stage[o] = "failed_incident"
      BY <2>10, AttestLeads DEF Attests, FallStages
    <3>6. went' = went /\ fell' = fell
      <4>1. stage[o] \notin {"deploy", "roll_back", "drill_back"} BY <3>1, AttestStagesAre
      <4> QED BY <2>7, <4>1 DEF Fell, Goes
    <3>7. stage[o] = "deployed" => EventOf(e) = Ev
      BY <3>2, <3>3 DEF EventOf, Event
    <3>8. stage[o] \in FailureStages => BlameOf(e) = Ev
      BY <3>2, <3>3 DEF BlameOf, Event
    <3> HIDE DEF e, all, Ev
    <3>9. went = {EventOf(d) : d \in ReleaseDeployments(all)}
      <4>1. CASE stage[o] = "deployed"
        <5>1. ReleaseDeployments(all) = ReleaseDeployments(Known) \cup {e}
          BY <3>3, <3>4, <4>1
        <5>2. {EventOf(d) : d \in ReleaseDeployments(Known) \cup {e}}
                = {EventOf(d) : d \in ReleaseDeployments(Known)} \cup {EventOf(e)}
          OBVIOUS
        <5> QED BY <2>6, <3>7, <4>1, <5>1, <5>2
      <4>2. CASE stage[o] # "deployed"
        <5>1. ReleaseDeployments(all) = ReleaseDeployments(Known) BY <3>3, <3>4, <4>2
        <5> QED BY <2>6, <4>2, <5>1
      <4> QED BY <4>1, <4>2
    <3>10. FallStages \subseteq FailureStages /\ FailureStages = FallStages \cup {"back_rolled"}
      BY DEF FallStages, FailureStages
    <3>11. ASSUME NEW x \in fell PROVE \E f \in Failures(all) : BlameOf(f) = x
      <4>1. CASE stage[o] \in FallStages /\ x = Ev
        BY <3>3, <3>4, <3>8, <3>10, <4>1
      <4>2. CASE \E f \in Failures(Known) : BlameOf(f) = x BY <3>3, <4>2
      <4> QED BY <2>6, <4>1, <4>2
    <3>12. ASSUME NEW f \in Failures(all)
           PROVE  \E x \in fell : x.artefact = Blamed(f) /\ x.at <= f.at
      <4>1. CASE f \in Failures(Known) BY <2>6, <4>1
      <4>2. CASE f \notin Failures(Known)
        <5>1. f = e /\ stage[o] \in FailureStages BY <3>3, <3>4, <4>2
        <5>2. CASE stage[o] \in FallStages
          <6>1. Ev \in fell /\ Ev.artefact = Blamed(f) /\ Ev.at <= f.at
            BY <2>6, <2>8, <3>2, <3>3, <5>1, <5>2
          <6> QED BY <6>1
        <5>3. CASE stage[o] = "back_rolled"
          <6>1. PICK x \in fell : x.artefact = flow[o].artefact /\ x.at < clock
            BY <2>6, <5>3
          <6>2. x.artefact = Blamed(f) /\ f.at = clock BY <3>2, <3>3, <5>1, <6>1
          <6>3. x.at <= f.at
            <7>1. \E g \in Failures(Known) : BlameOf(g) = x
              BY <2>6, <5>3 DEF FallStages
            <7>2. \A g \in Failures(Known) : g.at \in Nat
              BY DEF Failures, Real, IInv, TypeOK, Known, Records, Stamps
            <7>3. x.at \in Nat BY <7>1, <7>2 DEF BlameOf
            <7> QED BY <2>8, <6>1, <6>2, <7>3
          <6> QED BY <6>2, <6>3
        <5> QED BY <3>10, <5>1, <5>2, <5>3
      <4> QED BY <4>1, <4>2
    <3>13. stage'[o] \in {"put_back", "back_rolled"} =>
             \E x \in fell : x.artefact = flow'[o].artefact /\ x.at < clock'
      <4>1. ASSUME stage[o] = "failed_incident"
            PROVE  Ev \in fell /\ Ev.artefact = flow'[o].artefact /\ Ev.at < clock'
        BY <2>6, <2>8, <3>1, <4>1 DEF FallStages
      <4> QED BY <3>5, <4>1
    <3> QED BY <2>3, <2>5, <3>1, <3>5, <3>6, <3>9, <3>11, <3>12, <3>13
  <2> QED BY <2>3, <2>9, <2>10
<1> QED BY <1>1, <1>2, <1>3 DEF DeliveryNext

LEMMA StampsDifferKept == IInv /\ StampsDiffer /\ [Next]_vars => StampsDiffer'
<1> SUFFICES ASSUME IInv, StampsDiffer, [Next]_vars PROVE StampsDiffer'
  OBVIOUS
<1>1. CASE Known' = Known BY <1>1 DEF StampsDiffer
<1>2. CASE UNCHANGED vars \/ \E r \in spool : Replay(r)
  <2>1. Known' = Known BY <1>2 DEF vars, Known, Replay
  <2> QED BY <1>1, <2>1
<1>3. ASSUME NEW o \in Operators, Step(o) PROVE StampsDiffer'
  <2>1. CASE AttestRecorded(o) \/ AttestWaits(o) \/ AttestFails(o)
    <3>1. stage[o] \in AttestStages /\ (Known' = Known \cup {Emitted(o)} \/ Known' = Known)
      BY <2>1, AttestEffects
    <3>2. CASE Known' = Known \cup {Emitted(o)}
      <4>1. Emitted(o).at = clock /\ clock \in Nat /\ Known \subseteq Records
            /\ \A x \in Known : x.at < clock
        BY <3>1, EmittedIs
      <4>2. \A x \in Known : x.at # clock BY <4>1 DEF Records, Stamps
      <4> QED BY <3>2, <4>1, <4>2 DEF StampsDiffer
    <3> QED BY <1>1, <3>1, <3>2
  <2>2. CASE ~(AttestRecorded(o) \/ AttestWaits(o) \/ AttestFails(o))
    <3>1. Known' = Known BY <1>3, <2>2, StepWrites DEF Known
    <3> QED BY <1>1, <3>1
  <2> QED BY <2>1, <2>2
<1> QED BY <1>2, <1>3 DEF Next

LEMMA FiniteWentKept == FiniteWent /\ [DeliveryNext]_dvars => FiniteWent'
<1> SUFFICES ASSUME FiniteWent, [DeliveryNext]_dvars PROVE FiniteWent'
  OBVIOUS
<1>1. went' = went \/ \E x : went' = went \cup {x}
  BY DEF DeliveryNext, Witness, dvars, witnessed
<1> QED BY <1>1, FS_AddElement DEF FiniteWent

(* What the windows read of the records, when nothing waits any more. *)

Counts ==
    /\ ledger \subseteq Records
    /\ \A r \in ledger, s \in ledger : r.at = s.at => r = s
    /\ IsFiniteSet(went)
    /\ went = {EventOf(d) : d \in ReleaseDeployments(ledger)}
    /\ \A e \in fell : \E f \in Failures(ledger) : BlameOf(f) = e
    /\ \A f \in Failures(ledger) : \E e \in fell : e.artefact = Blamed(f) /\ e.at <= f.at

LEMMA SettledCounts ==
    ASSUME IInv, CountInv, StampsDiffer, FiniteWent, Settled, ~scope.crashes
    PROVE  Counts
<1>1. Readable /\ Known = ledger BY DEF Settled, Readable, Known
<1>2. \A o \in Operators : stage[o] = "idle" BY DEF Settled, Idle
<1>3. Pending({"deployed"}) = {} BY <1>2 DEF Pending, PendingOf
<1>4. Pending(FallStages) = {} BY <1>2 DEF Pending, PendingOf, FallStages
<1>5. /\ went = {EventOf(d) : d \in ReleaseDeployments(ledger)}
      /\ \A e \in fell : \E f \in Failures(ledger) : BlameOf(f) = e
      /\ \A f \in Failures(ledger) : \E e \in fell : e.artefact = Blamed(f) /\ e.at <= f.at
  BY <1>1, <1>3, <1>4 DEF CountInv
<1> QED BY <1>1, <1>5 DEF Counts, StampsDiffer, FiniteWent, IInv, TypeOK

\* The stamps of an event are numbers.
LEMMA EventStamps ==
    ASSUME Counts
    PROVE  /\ \A r \in ReleaseDeployments(ledger) : r \in ledger /\ r.at \in Nat /\ r.at >= 1
           /\ \A r \in Failures(ledger) : r \in ledger /\ r.at \in Nat /\ r.at >= 1
           /\ \A e \in went \cup fell : e.at \in Nat
           /\ \A a : At(went, a) \subseteq Nat /\ At(fell, a) \subseteq Nat
<1>1. \A r \in ledger : r.at \in Nat /\ r.at >= 1 BY DEF Counts, Records, Stamps
<1>2. \A r \in ReleaseDeployments(ledger) : r \in ledger
  BY DEF ReleaseDeployments, DeployedIn
<1>3. \A r \in Failures(ledger) : r \in ledger BY DEF Failures, Real
<1>4. \A e \in went : e.at \in Nat BY <1>1, <1>2 DEF Counts, EventOf
<1>5. \A e \in fell : e.at \in Nat BY <1>1, <1>3 DEF Counts, BlameOf
<1> QED BY <1>1, <1>2, <1>3, <1>4, <1>5 DEF At

\* An artefact's change is its first event of going live.
LEMMA ChangesAre ==
    ASSUME Counts
    PROVE  /\ \A a : a \in Digests(Changes(ledger)) <=> At(went, a) # {}
           /\ \A c \in Changes(ledger) : c.at = Least(At(went, c.digest))
<1> DEFINE RD == ReleaseDeployments(ledger)
<1>1. \A r \in RD : r.at \in Nat BY EventStamps
<1>2. \A a, n : n \in At(went, a) <=> \E d \in RD : d.digest = a /\ d.at = n
  <2>1. \A e : e \in went <=> \E d \in RD : e = EventOf(d) BY DEF Counts
  <2>2. \A d : EventOf(d).artefact = d.digest /\ EventOf(d).at = d.at BY DEF EventOf
  <2>3. \A a, n : n \in At(went, a) <=> \E e \in went : e.artefact = a /\ e.at = n BY DEF At
  <2> HIDE DEF RD
  <2> QED BY <2>1, <2>2, <2>3
<1>3. Changes(ledger) = {r \in RD : \A s \in RD : s.digest = r.digest => r.at <= s.at}
  BY DEF Changes
<1> HIDE DEF RD
<1>4. ASSUME NEW a, At(went, a) # {}
      PROVE  \E c \in Changes(ledger) : c.digest = a
  <2>1. At(went, a) \in SUBSET Nat BY EventStamps
  <2>2. Least(At(went, a)) \in At(went, a) /\ \A j \in At(went, a) : Least(At(went, a)) <= j
    BY <1>4, <2>1, LeastInSet
  <2>3. PICK c \in RD : c.digest = a /\ c.at = Least(At(went, a)) BY <1>2, <2>2
  <2>4. \A s \in RD : s.digest = c.digest => c.at <= s.at BY <1>2, <2>2, <2>3
  <2> QED BY <1>3, <2>3, <2>4
<1>5. ASSUME NEW c \in Changes(ledger)
      PROVE  c.at \in At(went, c.digest) /\ c.at = Least(At(went, c.digest))
  <2>1. c.at \in At(went, c.digest) BY <1>2, <1>3
  <2>2. At(went, c.digest) \in SUBSET Nat BY EventStamps
  <2>3. /\ Least(At(went, c.digest)) \in At(went, c.digest)
        /\ \A j \in At(went, c.digest) : Least(At(went, c.digest)) <= j
    BY <2>1, <2>2, LeastInSet
  <2>4. \A j \in At(went, c.digest) : c.at <= j BY <1>2, <1>3
  <2> QED BY <2>1, <2>2, <2>3, <2>4
<1>6. \A a : a \in Digests(Changes(ledger)) <=> \E c \in Changes(ledger) : c.digest = a
  BY DEF Digests
<1>7. ASSUME NEW a, a \in Digests(Changes(ledger)) PROVE At(went, a) # {}
  BY <1>5, <1>6, <1>7
<1> QED BY <1>4, <1>5, <1>6, <1>7

\* An artefact's first failure is its first fall.
LEMMA FirstFailureIs ==
    ASSUME Counts
    PROVE  /\ \A a : a \in {Blamed(r) : r \in Failures(ledger)} <=> At(fell, a) # {}
           /\ \A a : At(fell, a) # {} => FirstFailure(ledger, a).at = Least(At(fell, a))
<1> DEFINE F == Failures(ledger)
<1>1. /\ \A e \in fell : \E f \in F : e.artefact = Blamed(f) /\ e.at = f.at
      /\ \A f \in F : \E e \in fell : e.artefact = Blamed(f) /\ e.at <= f.at
      /\ \A f \in F : f.at \in Nat /\ f \in Records
  BY EventStamps DEF Counts, BlameOf
<1>2. \A a : At(fell, a) = {e.at : e \in {x \in fell : x.artefact = a}} BY DEF At
<1>3. \A a : FirstFailure(ledger, a) = FirstOf({r \in F : Blamed(r) = a}) BY DEF FirstFailure
<1> HIDE DEF F
<1>4. \A a : a \in {Blamed(r) : r \in F} <=> At(fell, a) # {}
  <2>1. \A a : At(fell, a) # {} <=> \E e \in fell : e.artefact = a BY <1>2
  <2>2. \A a : a \in {Blamed(r) : r \in F} <=> \E f \in F : Blamed(f) = a OBVIOUS
  <2> QED BY <1>1, <2>1, <2>2
<1>5. ASSUME NEW a, At(fell, a) # {} PROVE FirstFailure(ledger, a).at = Least(At(fell, a))
  <2> DEFINE S == {r \in F : Blamed(r) = a}
  <2> DEFINE m == Least(At(fell, a))
  <2>1. S \in SUBSET Records /\ S # {} BY <1>1, <1>4, <1>5
  <2>2. At(fell, a) \in SUBSET Nat BY EventStamps
  <2>3. m \in At(fell, a) /\ \A j \in At(fell, a) : m <= j BY <1>5, <2>2, LeastInSet
  <2>4. \A j \in At(fell, a) : \E f \in S : f.at = j BY <1>1, <1>2
  <2>5. \A f \in S : \E j \in At(fell, a) : j <= f.at BY <1>1, <1>2
  <2>6. \A f \in S : f.at \in Nat BY <1>1
  <2> HIDE DEF S, m
  <2>7. FirstOf(S) \in S /\ \A s \in S : FirstOf(S).at <= s.at BY <2>1, FirstInSet
  <2>8. FirstOf(S).at <= m BY <2>3, <2>4, <2>7
  <2>9. m <= FirstOf(S).at
    <3>1. PICK j \in At(fell, a) : j <= FirstOf(S).at BY <2>5, <2>7
    <3>2. m <= j /\ j \in Nat /\ m \in Nat BY <2>2, <2>3
    <3>3. FirstOf(S).at \in Nat BY <2>6, <2>7
    <3> QED BY <3>1, <3>2, <3>3
  <2>10. m \in Nat /\ FirstOf(S).at \in Nat BY <2>2, <2>3, <2>6, <2>7
  <2>11. FirstOf(S).at = m BY <2>8, <2>9, <2>10
  <2> QED BY <1>3, <2>11 DEF S, m
<1> QED BY <1>4, <1>5 DEF F

\* Releases and their events are as many.
LEMMA AsManyEvents ==
    ASSUME Counts, NEW S \in SUBSET ReleaseDeployments(ledger)
    PROVE  Cardinality(S) = Cardinality({EventOf(d) : d \in S})
<1> DEFINE T == {EventOf(d) : d \in S}
<1> DEFINE f == [d \in S |-> EventOf(d)]
<1>1. T \subseteq went BY DEF Counts
<1>2. IsFiniteSet(T) BY <1>1, FS_Subset DEF Counts
<1>3. \A x \in S, y \in S : EventOf(x) = EventOf(y) => x = y
  <2>1. S \subseteq ledger BY EventStamps
  <2> QED BY <2>1 DEF Counts, EventOf
<1>4. f \in [S -> T] BY DEF T
<1>5. f \in Injection(S, T)
  <2>1. \A x, y \in S : f[x] = f[y] => x = y BY <1>3
  <2> HIDE DEF f, T
  <2> QED BY <1>4, <2>1 DEF Injection, IsInjective
<1>6. f \in Surjection(S, T)
  <2>1. \A t \in T : \E s \in S : f[s] = t BY DEF T
  <2> HIDE DEF f, T
  <2> QED BY <1>4, <2>1 DEF Surjection
<1> HIDE DEF f, T
<1>7. Cardinality(S) = Cardinality(T) BY <1>2, <1>5, <1>6, FS_Injection
<1> QED BY <1>7 DEF T

LEMMA WindowsCount ==
    ASSUME Counts, NEW since \in Nat
    PROVE  LET v2 == DeliveryWindowV2(ledger, since)
               attempts == {a \in Attempted : CountedAt(a) >= since}
           IN  /\ v2.attempts = attempts
               /\ v2.failed = {a \in attempts : At(fell, a) # {}}
               /\ v2.redeployments = Cardinality(Again(since))
               /\ LET first == DeliveryWindow(ledger, since)
                  IN  /\ first.deployments = Cardinality(Went(since))
                      /\ first.failed \subseteq DeliveryWindowV2(ledger, 1).failed
<1> DEFINE changed(n) == Digests(Window(Changes(ledger), n))
<1> DEFINE blamed == {Blamed(r) : r \in Failures(ledger)}
<1> DEFINE candidates(n) == Candidates(ledger, n)
<1> DEFINE attempts == {a \in Attempted : CountedAt(a) >= since}
<1>1. \A n : /\ DeliveryWindowV2(ledger, n).attempts = changed(n) \cup candidates(n)
             /\ DeliveryWindowV2(ledger, n).failed = (changed(n) \cap blamed) \cup candidates(n)
             /\ DeliveryWindowV2(ledger, n).redeployments = Redeployments(ledger, n)
  BY DEF DeliveryWindowV2
<1>2. \A a : a \in blamed <=> At(fell, a) # {} BY FirstFailureIs
<1>3. \A a : a \in Digests(Changes(ledger)) <=> At(went, a) # {} BY ChangesAre
<1>4. ASSUME NEW n, NEW a
      PROVE  a \in changed(n) <=> At(went, a) # {} /\ Least(At(went, a)) >= n
  <2>1. a \in changed(n) <=> \E c \in Changes(ledger) : c.digest = a /\ c.at >= n
    BY DEF Digests, Window
  <2>2. \A c \in Changes(ledger) : c.digest = a => c.at = Least(At(went, a)) BY ChangesAre
  <2>3. (\E c \in Changes(ledger) : c.digest = a) <=> At(went, a) # {} BY <1>3 DEF Digests
  <2> QED BY <2>1, <2>2, <2>3
<1>5. ASSUME NEW n, NEW a
      PROVE  a \in candidates(n) <=>
               At(fell, a) # {} /\ At(went, a) = {} /\ Least(At(fell, a)) >= n
  <2>1. a \in candidates(n) <=>
          a \in blamed /\ a \notin Digests(Changes(ledger)) /\ FirstFailure(ledger, a).at >= n
    BY DEF Candidates
  <2>2. At(fell, a) # {} => FirstFailure(ledger, a).at = Least(At(fell, a)) BY FirstFailureIs
  <2> QED BY <1>2, <1>3, <2>1, <2>2
<1>6. \A a : a \in Attempted <=> At(went, a) # {} \/ At(fell, a) # {}
  BY DEF Attempted, At
<1>7. \A a : a \in attempts <=>
        (At(went, a) # {} \/ At(fell, a) # {}) /\ CountedAt(a) >= since
  BY <1>6
<1>8. \A a : CountedAt(a) = IF At(went, a) # {} THEN Least(At(went, a)) ELSE Least(At(fell, a))
  BY DEF CountedAt
<1> HIDE DEF changed, blamed, candidates, attempts
<1>9. \A a : a \in attempts <=> a \in changed(since) \cup candidates(since)
  BY <1>4, <1>5, <1>7, <1>8
<1>10. \A a : a \in attempts /\ At(fell, a) # {}
                <=> a \in (changed(since) \cap blamed) \cup candidates(since)
  BY <1>2, <1>4, <1>5, <1>7, <1>8
<1>11. DeliveryWindowV2(ledger, since).attempts = attempts BY <1>1, <1>9
<1>12. DeliveryWindowV2(ledger, since).failed = {a \in attempts : At(fell, a) # {}}
  BY <1>1, <1>10
<1>13. Redeployments(ledger, since) = Cardinality(Again(since))
  <2> DEFINE S == Window(ReleaseDeployments(ledger) \ Changes(ledger), since)
  <2>1. S \in SUBSET ReleaseDeployments(ledger) BY DEF Window
  <2>2. Redeployments(ledger, since) = Cardinality(S) BY DEF Redeployments
  <2>3. \A d \in ReleaseDeployments(ledger) : d.at \in Nat BY EventStamps
  <2>4. \A d \in ReleaseDeployments(ledger) : d \notin Changes(ledger) <=>
          \E s \in ReleaseDeployments(ledger) : s.digest = d.digest /\ s.at < d.at
    BY <2>3 DEF Changes
  <2>5. {EventOf(d) : d \in S} = Again(since)
    <3>1. ASSUME NEW d \in S PROVE EventOf(d) \in Again(since)
      <4>1. d \in ReleaseDeployments(ledger) /\ d \notin Changes(ledger) /\ d.at >= since
        BY DEF Window
      <4>2. PICK s \in ReleaseDeployments(ledger) : s.digest = d.digest /\ s.at < d.at
        BY <2>4, <4>1
      <4>3. EventOf(d) \in went /\ EventOf(s) \in went BY <4>1, <4>2 DEF Counts
      <4>4. /\ EventOf(d).at >= since /\ EventOf(s).at < EventOf(d).at
            /\ EventOf(s).artefact = EventOf(d).artefact
        BY <4>1, <4>2 DEF EventOf
      <4> QED BY <4>3, <4>4 DEF Again, Went
    <3>2. \A x \in Again(since) : \E d \in S : x = EventOf(d)
      <4> SUFFICES ASSUME NEW x \in Again(since) PROVE \E d \in S : x = EventOf(d)
        OBVIOUS
      <4>1. PICK y \in went : y.artefact = x.artefact /\ y.at < x.at BY DEF Again
      <4>2. x \in went /\ x.at >= since BY DEF Again, Went
      <4>3. PICK d \in ReleaseDeployments(ledger) : x = EventOf(d) BY <4>2 DEF Counts
      <4>4. PICK s \in ReleaseDeployments(ledger) : y = EventOf(s) BY <4>1 DEF Counts
      <4>5. s.digest = d.digest /\ s.at < d.at /\ d.at >= since
        BY <4>1, <4>2, <4>3, <4>4 DEF EventOf
      <4>6. d \in S BY <2>4, <4>5 DEF Window
      <4> QED BY <4>3, <4>6
    <3> QED BY <3>1, <3>2
  <2> HIDE DEF S
  <2>6. Cardinality(S) = Cardinality({EventOf(d) : d \in S}) BY <2>1, AsManyEvents
  <2> QED BY <2>2, <2>5, <2>6
<1>14. DeliveryWindow(ledger, since).deployments = Cardinality(Went(since))
  <2> DEFINE S == Window(ReleaseDeployments(ledger), since)
  <2>1. S \in SUBSET ReleaseDeployments(ledger) BY DEF Window
  <2>2. DeliveryWindow(ledger, since).deployments = Cardinality(S) BY DEF DeliveryWindow
  <2>3. {EventOf(d) : d \in S} = Went(since) BY DEF Window, Went, Counts, EventOf
  <2> HIDE DEF S
  <2>4. Cardinality(S) = Cardinality({EventOf(d) : d \in S}) BY <2>1, AsManyEvents
  <2> QED BY <2>2, <2>3, <2>4
<1>15. DeliveryWindow(ledger, since).failed \subseteq DeliveryWindowV2(ledger, 1).failed
  <2> SUFFICES ASSUME NEW a \in DeliveryWindow(ledger, since).failed
               PROVE  a \in DeliveryWindowV2(ledger, 1).failed
    OBVIOUS
  <2>1. DeliveryWindow(ledger, since).failed = Undone(Window(ledger, since))
    BY DEF DeliveryWindow
  <2>2. PICK r \in Real(Window(ledger, since), "rolled_back") : a = r.from
    BY <2>1 DEF Undone
  <2>3. r \in Failures(ledger) /\ Blamed(r) = a
    BY <2>2 DEF Real, Window, Failures, Blamed
  <2>4. a \in blamed BY <2>3 DEF blamed
  <2>5. At(fell, a) # {} BY <1>2, <2>4
  <2>6. \A e \in went \cup fell : e.at >= 1
    BY EventStamps DEF Counts, EventOf, BlameOf
  <2>7. At(went, a) # {} => Least(At(went, a)) >= 1
    <3>1. At(went, a) \in SUBSET Nat /\ \A j \in At(went, a) : j >= 1
      BY <2>6, EventStamps DEF At
    <3> QED BY <3>1, LeastInSet
  <2>8. Least(At(fell, a)) >= 1
    <3>1. At(fell, a) \in SUBSET Nat /\ \A j \in At(fell, a) : j >= 1
      BY <2>6, EventStamps DEF At
    <3> QED BY <2>5, <3>1, LeastInSet
  <2>9. a \in (changed(1) \cap blamed) \cup candidates(1)
    BY <1>4, <1>5, <2>4, <2>5, <2>7, <2>8
  <2> QED BY <1>1, <2>9
<1> QED BY <1>1, <1>11, <1>12, <1>13, <1>14, <1>15 DEF attempts

\* For one operator whose commands end, the change failure rate is what
\* happened: every attempt once and in its window, every fall on the artefact
\* that fell, every redeployment, and nothing of what drills and rollbacks put
\* back -- for any number of releases, failures, rollbacks and replays.
THEOREM FailuresCounted == DeliverySpec => []FailuresAreCounted
<1>1. DeliveryInit => CountInv /\ StampsDiffer /\ FiniteWent
  <2> SUFFICES ASSUME DeliveryInit PROVE CountInv /\ StampsDiffer /\ FiniteWent
    OBVIOUS
  <2>1. /\ went = {} /\ fell = {} /\ Known = {} /\ \A o \in Operators : stage[o] = "idle"
    BY DEF DeliveryInit, Init, Known
  <2>2. Pending({"deployed"}) = {} BY <2>1 DEF Pending, PendingOf
  <2>3. Pending(FallStages) = {} BY <2>1 DEF Pending, PendingOf, FallStages
  <2>4. ReleaseDeployments(Known) = {} /\ Failures(Known) = {}
    BY <2>1 DEF ReleaseDeployments, DeployedIn, Failures, Real
  <2> QED BY <2>1, <2>2, <2>3, <2>4, FS_EmptySet DEF CountInv, StampsDiffer, FiniteWent
<1>2. IInv /\ SoleInv /\ CountInv /\ [DeliveryNext]_dvars => CountInv' BY CountKept
<1>3. IInv /\ StampsDiffer /\ [DeliveryNext]_dvars => StampsDiffer'
  <2>1. [DeliveryNext]_dvars => [Next]_vars BY DEF DeliveryNext, Next, dvars
  <2> QED BY <2>1, StampsDifferKept
<1>4. FiniteWent /\ [DeliveryNext]_dvars => FiniteWent' BY FiniteWentKept
<1>5. IInv /\ CountInv /\ StampsDiffer /\ FiniteWent => FailuresAreCounted
  <2> SUFFICES ASSUME IInv, CountInv, StampsDiffer, FiniteWent, Settled, ~scope.crashes,
                      NEW since \in Windows
               PROVE  LET v2 == DeliveryWindowV2(ledger, since)
                          attempts == {a \in Attempted : CountedAt(a) >= since}
                      IN  /\ v2.attempts = attempts
                          /\ v2.failed = {a \in attempts : At(fell, a) # {}}
                          /\ v2.redeployments = Cardinality(Again(since))
                          /\ LET first == DeliveryWindow(ledger, since)
                             IN  /\ first.deployments = Cardinality(Went(since))
                                 /\ first.failed \subseteq DeliveryWindowV2(ledger, 1).failed
    BY DEF FailuresAreCounted
  <2>1. since \in Nat BY DEF Windows, IInv, TypeOK, Stamps
  <2> QED BY <2>1, SettledCounts, WindowsCount
<1> QED BY <1>1, <1>2, <1>3, <1>4, <1>5, DeliverySole, PTL DEF DeliverySpec

=============================================================================
