----------------------------- MODULE ReviewLoop -----------------------------
(***************************************************************************)
(* The review loop of one pull request (src/rail/reviewer/rounds.py,       *)
(* carry.py, _review_started and _finish of service.py, `rail reviewer     *)
(* rule`), and the gate that audits its receipts: three judged rounds,     *)
(* then rulings, then a closure, all decided from the receipts of the      *)
(* ledger.  A pass reads the ledger, then publishes; rulings, replays,     *)
(* pushes and edits of the body come between.  Other pull requests open    *)
(* carry-forwards that this one must account for.                          *)
(*                                                                         *)
(* Verdicts recorded before findings had a list are not modelled, and an   *)
(* answer about code the judge did not see counts as no answer.            *)
(***************************************************************************)
EXTENDS Naturals, Sequences, FiniteSets, SequencesExt

CONSTANTS
    Rulers,         \* who may rule: the operator and agents under a delegation
    Agents,         \* the agents: they rule `fix` only
    Elsewhere,      \* the carry-forwards of other pull requests
    MaxFindings,    \* the limit of ReviewVerdict.findings (100 in the code)
    MaxIds,         \* bound: findings numbered
    Bounds          \* the scopes a behaviour may have

\* What a pull request may consist of, and the classes of findings.
Artifacts == {"code", "spec_plan", "records"}
Classes == {"blocker", "carry_forward", "note"}
Bodies == [Elsewhere -> {"absent", "addressed", "deferred", "unreasoned"}]

ASSUME LoopAssumption ==
    /\ Agents \subseteq Rulers /\ IsFiniteSet(Elsewhere)
    /\ MaxFindings \in Nat \ {0} /\ MaxIds \in Nat
    /\ Bounds \subseteq [artifacts : SUBSET Artifacts, proposals : SUBSET Classes,
                         bodies : SUBSET Bodies, verdicts : Nat, rulings : Nat,
                         heads : Nat \ {0}, edits : Nat, outages : Nat, asked : BOOLEAN,
                         opens : BOOLEAN]

VARIABLES
    bounds,      \* the bounds of this behaviour, chosen once: the verdicts,
                \* rulings, heads, edits and outages it may have, what the pull
                \* request may consist of, its first body, what judges propose,
                \* whether operators ask for passes over judged heads, and
                \* others open carry-forwards meanwhile, not before
    head,       \* the head of the pull request; heads are numbered by push
    artifact,   \* what the pull request consists of at this head
    body,       \* how its body accounts for the carry-forwards of others
    receipts,   \* every verdict and ruling, and the verdicts of others that
                \* open a carry-forward, by instant of emission
    listed,     \* those the ledger lists; the others wait in the spool
    pass,       \* the review pass of the host
    ruler,      \* the finding each ruler was shown and is confirming, or 0
    edits, outages      \* counters of the bounds

lvars == <<bounds, head, artifact, body, receipts, listed, pass, ruler, edits, outages>>

(***************************************************************************)
(* Findings.  `gap`: a mechanical blocker, the carry-forward it is about   *)
(* and why; {} for a finding of a judge.  `born`: the receipt that first   *)
(* held it (a history field).                                              *)
(***************************************************************************)
Gaps == [cf : Elsewhere, why : {"unaccounted", "unreasoned", "unconfirmed"}]

Findings == [id : 1..MaxIds, class : Classes,
             status : {"new", "still_open", "fixed", "ruled"},
             gap : {{}} \cup {{g} : g \in Gaps}, born : Nat]

IsOpen(f) == f.status \in {"new", "still_open"}

OpenBlocker(f) == IsOpen(f) /\ f.class = "blocker"

Mechanical(f) == f.gap # {}

BodyDerived(f) == \E g \in f.gap : g.why # "unconfirmed"

JudgesOwn(F) == {f \in F : ~Mechanical(f)}

(***************************************************************************)
(* Receipts.  A verdict: its step, its findings, the ids its judges called *)
(* fixed, the accounting of the carry-forwards.  `source`: the verdict it  *)
(* carries to a new head, or 0.  `late`: unattested when its pass ended.   *)
(***************************************************************************)
Verdicts == [kind : {"verdict"}, step : {"round", "closure", "awaiting_ruling", "mechanical"},
             round : 0..3, head : Nat, artifact : Artifacts, approve : BOOLEAN,
             findings : SUBSET Findings, judges : BOOLEAN, fixed : SUBSET (1..MaxIds),
             confirmed : SUBSET Elsewhere, addressed : SUBSET Elsewhere,
             deferred : SUBSET Elsewhere, source : Nat, late : BOOLEAN]

Rulings == [kind : {"ruling"}, finding : 1..MaxIds, ruling : {"fix", "carry_forward"}]

\* The approving verdict of another pull request that opens a carry-forward.
Others == [kind : {"other"}, cf : Elsewhere, late : BOOLEAN]

Receipts == Verdicts \cup Rulings \cup Others

Opening(cf) == [kind |-> "other", cf |-> cf, late |-> FALSE]

Greatest(S) == IF S = {} THEN 0 ELSE CHOOSE x \in S : \A y \in S : y <= x

-----------------------------------------------------------------------------
(***************************************************************************)
(* loop_state: what the receipts S say, seen by a pass or a ruler.         *)
(***************************************************************************)

\* A mechanical verdict judged the form of receipts, never a round.
VerdictsIn(S) == {i \in S : receipts[i].kind = "verdict" /\ receipts[i].step # "mechanical"}

Judging(S) == {i \in VerdictsIn(S) : receipts[i].step \in {"round", "closure"}}

Rounds(S) == Cardinality({i \in Judging(S) : receipts[i].step = "round" /\ receipts[i].source = 0})

LastJudged(S) == Greatest(Judging(S))

Latest(S) == IF VerdictsIn(S) = {} THEN {} ELSE receipts[Greatest(VerdictsIn(S))].findings

\* A carried receipt changes the head, not when the judgment happened.
Carried(i) == i # 0 /\ receipts[i].source # 0

Origin(i) ==
    LET to[j \in DOMAIN receipts] ==
            IF Carried(receipts[j].source) THEN to[receipts[j].source] ELSE receipts[j].source
    IN  IF Carried(i) THEN to[i] ELSE i

\* Every ruling on a finding counts, however old.
FaultyRulingsOn(S, id) ==
    {i \in S : receipts[i].kind = "ruling" /\ receipts[i].finding = id}

\* The rulings on a finding since the last judgment; the newest one decides.
RulingsOn(S, id) ==
    {i \in S : /\ receipts[i].kind = "ruling" /\ receipts[i].finding = id
               /\ i > Origin(LastJudged(S))}

IsRuled(S, id) == RulingsOn(S, id) # {}

RuledAs(S, id, ruling) == IsRuled(S, id) /\ receipts[Greatest(RulingsOn(S, id))].ruling = ruling

Awaiting(S) ==
    /\ \E f \in Latest(S) : OpenBlocker(f)
    /\ LastJudged(S) # 0
    /\ \/ receipts[LastJudged(S)].step = "closure"
       \/ receipts[LastJudged(S)].round = 3

ConfirmedIn(S) == UNION {receipts[i].addressed : i \in Judging(S)}

\* The highest id of the latest list only.
FaultyHighestId(S) == Greatest({f.id : f \in Latest(S)})

\* The highest id any verdict of the pull request ever held.
HighestId(S) == Greatest(UNION {{f.id : f \in receipts[i].findings} : i \in VerdictsIn(S)})

Unruled(S) == {f \in Latest(S) : OpenBlocker(f) /\ ~IsRuled(S, f.id) /\ ~BodyDerived(f)}

\* next_step.  With nothing left to rule on, only a ruling on an open
\* blocker closes; a gap the body filled by itself gets another round 3.
NextStep(S) ==
    IF ~Awaiting(S) THEN "round"
    ELSE IF Unruled(S) # {} THEN "awaiting_ruling"
    ELSE IF \E f \in Latest(S) : OpenBlocker(f) /\ IsRuled(S, f.id) /\ ~BodyDerived(f)
         THEN "closure"
    ELSE "round"

Round(S) == IF Rounds(S) + 1 < 3 /\ ~Awaiting(S) THEN Rounds(S) + 1 ELSE 3

\* open_carry_forwards of this pull request, for the others to account for.
OpenedIn(S) ==
    LET verdicts == {i \in S : receipts[i].kind = "verdict"}
        approving == {i \in verdicts : receipts[i].approve}
        findings(V) == UNION {receipts[i].findings : i \in V}
        rulings == {i \in S : receipts[i].kind = "ruling"}
        deferring == {i \in rulings : receipts[i].ruling = "carry_forward"}
    IN  {f.id : f \in {g \in JudgesOwn(findings(approving)) :
                        g.class = "carry_forward" /\ g.status # "fixed"}}
        \cup IF approving = {} THEN {}
             ELSE {receipts[i].finding : i \in deferring}
                  \ {f.id : f \in findings(verdicts) \ JudgesOwn(findings(verdicts))}

\* open_carry_forwards of the others.
OpenElsewhere(S) ==
    LET approving == {i \in S : receipts[i].kind = "verdict" /\ receipts[i].approve}
    IN  {receipts[i].cf : i \in {j \in S : receipts[j].kind = "other"}}
        \ UNION {receipts[i].addressed : i \in approving}

\* The gate review.carry_forward: every approving code verdict accounted for
\* each carry-forward open before it.
CarryForwardGate(S) ==
    \A v \in {i \in S : receipts[i].kind = "verdict"} :
        receipts[v].approve /\ receipts[v].artifact = "code" =>
            OpenElsewhere({i \in S : i < v}) \subseteq receipts[v].addressed \cup receipts[v].deferred

-----------------------------------------------------------------------------
(***************************************************************************)
(* The pass: what it read, and the pull request as it loaded it.           *)
(***************************************************************************)
NoPass == [on |-> FALSE, head |-> 1, artifact |-> "code", seen |-> {},
           body |-> [cf \in Elsewhere |-> "absent"]]

Passes == [on : BOOLEAN, head : Nat, artifact : Artifacts,
           seen : SUBSET DOMAIN receipts, body : Bodies]

Seen == pass.seen

Earlier == Latest(Seen)

\* The carry-forwards a code pull request must account for.
Owed == IF pass.artifact # "code" THEN {} ELSE OpenElsewhere(Seen)

Claimed == {cf \in Owed : pass.body[cf] = "addressed"}

\* The body's own word is enough.
FaultyConfirmed(fixed, denied) == Claimed \ denied

\* confirmed_addressed: a judge says fixed, or one said so and none denies now.
Confirmed(fixed, denied) == {cf \in Claimed : cf \in fixed \/ (cf \in ConfirmedIn(Seen) /\ cf \notin denied)}

\* mechanical_blockers and not_addressed.
CurrentGaps(confirmed) ==
    {g \in Gaps : /\ g.cf \in Owed
                  /\ CASE g.why = "unaccounted" -> pass.body[g.cf] = "absent"
                       [] g.why = "unreasoned" -> pass.body[g.cf] = "unreasoned"
                       [] g.why = "unconfirmed" -> g.cf \in Claimed \ confirmed}

\* carry.reconcile: what the body says decides, except on a ruled finding.
Reconciled(F, confirmed) ==
    {IF f.status = "ruled" THEN f
     ELSE [f EXCEPT !.status = IF f.gap \subseteq CurrentGaps(confirmed)
                               THEN "still_open" ELSE "fixed"]
        : f \in {g \in F : Mechanical(g)}}

\* append_new.
NumberedGaps(F, gaps) ==
    LET floor == Greatest({HighestId(Seen)} \cup {f.id : f \in F})
        order == SetToSeq(gaps)
    IN  {[id |-> floor + n, class |-> "blocker", status |-> "new",
          gap |-> {order[n]}, born |-> Len(receipts) + 1] : n \in DOMAIN order}

\* The findings F of the judges, then the mechanical ones of `old` recomputed.
WithGaps(F, old, confirmed) ==
    LET kept == F \cup Reconciled(old, confirmed)
        known == UNION {f.gap : f \in {g \in old : Mechanical(g)}}
    IN  kept \cup NumberedGaps(kept, CurrentGaps(confirmed) \ known)

\* _mechanical_recomputed: no judge reads the pull request.
Recomputed(F) ==
    IF pass.artifact = "code" THEN WithGaps(JudgesOwn(F), F, Confirmed({}, {})) ELSE F

\* _capped: every open finding stays; the first closed ones of the list go.
Capped(F) ==
    LET closed == {f \in F : ~IsOpen(f)}
        before(f) == {g \in closed : \/ ~Mechanical(g) /\ Mechanical(f)
                                     \/ Mechanical(g) = Mechanical(f) /\ g.id < f.id}
    IN  {f \in F : IsOpen(f) \/ Cardinality(before(f)) + MaxFindings >= Cardinality(F)}

Approves(F) == \A f \in F : ~OpenBlocker(f)

\* apply_rulings.
Ruled(F) ==
    {IF RuledAs(Seen, f.id, "carry_forward")
     THEN [f EXCEPT !.class = "carry_forward", !.status = "ruled"] ELSE f : f \in F}

\* _deferred: the body's reasons, and the gaps the operator ruled.
Deferred(F) ==
    {cf \in Owed : \/ pass.body[cf] = "deferred"
                   \/ \E f \in F : f.status = "ruled" /\ f.gap = {[cf |-> cf, why |-> "unconfirmed"]}}

Verdict(step, round, F) ==
    [kind |-> "verdict", step |-> step, round |-> round, head |-> pass.head,
     artifact |-> pass.artifact, approve |-> Approves(F), findings |-> Capped(F),
     judges |-> FALSE, fixed |-> {}, confirmed |-> {}, addressed |-> {},
     deferred |-> {}, source |-> 0, late |-> FALSE]

-----------------------------------------------------------------------------
(***************************************************************************)
(* A judged round or a judged closure.  The merged reply of the judges:    *)
(* the findings they call fixed, those they report again, at most one new  *)
(* one, and their word on the carry-forwards the body claims.              *)
(***************************************************************************)
SameHead == LastJudged(Seen) # 0 /\ receipts[LastJudged(Seen)].head = pass.head

\* A finding no judge mentions is taken for fixed.
FaultyAssigned(fixed, again) ==
    {CASE f.status = "ruled" -> f
       [] f.status = "fixed" -> IF f.id \in again THEN [f EXCEPT !.status = "still_open"] ELSE f
       [] OTHER -> [f EXCEPT !.status = IF f.id \in again THEN "still_open" ELSE "fixed"]
        : f \in JudgesOwn(Earlier)}

\* assign: `fixed` is sticky unless reported again; silence keeps a finding open.
Assigned(fixed, again) ==
    {CASE f.status = "ruled" -> f
       [] f.status = "fixed" -> IF f.id \in again THEN [f EXCEPT !.status = "still_open"] ELSE f
       [] OTHER -> [f EXCEPT !.status = IF f.id \in fixed THEN "fixed" ELSE "still_open"]
        : f \in JudgesOwn(Earlier)}

\* enforce_class, then what a new finding becomes: in round 3 and in a closure
\* on a moved head a blocker outside the delta is demoted; in a closure on
\* the judged head every new finding is a note.
NewClass(step, round, class, inside) ==
    LET enforced == IF pass.artifact = "code" /\ class = "carry_forward" THEN "note" ELSE class
        bound == round = 3 \/ (step = "closure" /\ ~SameHead)
    IN  IF step = "closure" /\ SameHead THEN "note"
        ELSE IF bound /\ enforced = "blocker" /\ ~inside
             THEN IF pass.artifact = "spec_plan" THEN "carry_forward" ELSE "note"
        ELSE enforced

NewFinding(class) ==
    [id |-> HighestId(Seen) + 1, class |-> class, status |-> "new", gap |-> {},
     born |-> Len(receipts) + 1]

\* _finish.
Finished(step, round, fixed, again, new, cfFixed, cfDenied) ==
    LET own == Assigned(fixed, again) \cup new
        closing(F) == IF step = "closure" THEN Ruled(F) ELSE F
        confirmed == Confirmed(cfFixed, cfDenied)
        all == IF pass.artifact = "code"
               THEN WithGaps(closing(own), closing(Earlier \ JudgesOwn(Earlier)), confirmed)
               ELSE closing(own)
    IN  [Verdict(step, round, all) EXCEPT
            !.judges = TRUE, !.fixed = fixed, !.confirmed = cfFixed,
            !.addressed = confirmed, !.deferred = Deferred(all)]

-----------------------------------------------------------------------------
LoopInit ==
    /\ bounds \in Bounds
    /\ head = 1
    /\ artifact \in bounds.artifacts
    /\ body \in bounds.bodies
    /\ receipts = IF bounds.opens THEN <<>>
                  ELSE LET order == SetToSeq(Elsewhere) IN [n \in DOMAIN order |-> Opening(order[n])]
    /\ listed = DOMAIN receipts
    /\ pass = NoPass
    /\ ruler = [r \in Rulers |-> 0]
    /\ edits = 0 /\ outages = 0

Push ==
    /\ head < bounds.heads
    /\ head' = head + 1
    /\ artifact' \in bounds.artifacts
    /\ UNCHANGED <<bounds, body, receipts, listed, pass, ruler, edits, outages>>

Edit ==
    /\ edits < bounds.edits
    /\ edits' = edits + 1
    /\ body' \in Bodies \ {body}
    /\ UNCHANGED <<bounds, head, artifact, receipts, listed, pass, ruler, outages>>

VerdictCount == Cardinality({i \in DOMAIN receipts : receipts[i].kind = "verdict"})

RulingCount == Cardinality({i \in DOMAIN receipts : receipts[i].kind = "ruling"})

\* A pass loads the pull request and reads the ledger.
Read ==
    /\ ~pass.on
    /\ VerdictCount < bounds.verdicts
    /\ pass' = [on |-> TRUE, head |-> head, artifact |-> artifact, seen |-> listed, body |-> body]
    /\ UNCHANGED <<bounds, head, artifact, body, receipts, listed, ruler, edits, outages>>

\* The ledger takes a receipt, or the receipt waits and the ledger may or may
\* not hold it.
Attested(receipt) ==
    /\ receipts' = Append(receipts, receipt)
    /\ listed' = listed \cup {Len(receipts) + 1}
    /\ UNCHANGED outages

Unattested(receipt) ==
    /\ outages < bounds.outages
    /\ outages' = outages + 1
    /\ receipts' = Append(receipts, receipt)
    /\ listed' \in {listed, listed \cup {Len(receipts) + 1}}

\* Another pull request is approved: no pass of the host runs beside another.
OthersApprove(cf) ==
    /\ bounds.opens /\ ~pass.on
    /\ \A i \in DOMAIN receipts : receipts[i].kind = "other" => receipts[i].cf # cf
    /\ \/ Attested(Opening(cf))
       \/ Unattested([Opening(cf) EXCEPT !.late = TRUE])
    /\ UNCHANGED <<bounds, head, artifact, body, pass, ruler, edits>>

Publish(verdict) ==
    /\ \A f \in verdict.findings : f.id <= MaxIds
    /\ \/ Attested(verdict)
       \/ Unattested([verdict EXCEPT !.late = TRUE])
    /\ pass' = NoPass
    /\ UNCHANGED <<bounds, head, artifact, body, ruler, edits>>

Loops == pass.on /\ pass.artifact # "records"

\* A pull request of records only: form alone, no judge, no round.
JudgeForm ==
    /\ pass.on /\ pass.artifact = "records"
    /\ \E approve \in BOOLEAN :
        Publish([Verdict("mechanical", 0, {}) EXCEPT !.approve = approve])

\* No fourth round: say what waits for a ruling, with the gaps recomputed.
Await ==
    /\ Loops
    /\ NextStep(Seen) = "awaiting_ruling"
    /\ Publish([Verdict("awaiting_ruling", 0, Recomputed(Earlier)) EXCEPT !.approve = FALSE])

WithoutJudge ==
    /\ NextStep(Seen) = "closure"
    /\ \A id \in 1..MaxIds : ~RuledAs(Seen, id, "fix")
    /\ SameHead

\* Every open blocker was ruled carry_forward and no judge has anything new
\* to read.
CloseWithoutJudge ==
    /\ Loops
    /\ WithoutJudge
    /\ LET F == Recomputed(Ruled(Earlier))
       IN  Publish([Verdict("closure", 0, F) EXCEPT
                       !.addressed = Confirmed({}, {}), !.deferred = Deferred(F)])

JudgeRound ==
    /\ Loops
    /\ NextStep(Seen) # "awaiting_ruling" /\ ~WithoutJudge
    /\ LET step == NextStep(Seen)
           round == IF step = "closure" THEN 0 ELSE Round(Seen)
       IN  \E fixed \in SUBSET {f.id : f \in {g \in JudgesOwn(Earlier) : IsOpen(g)}},
              again \in SUBSET {f.id : f \in {g \in JudgesOwn(Earlier) : g.status = "fixed"}},
              cfFixed \in SUBSET Claimed, cfDenied \in SUBSET Claimed :
            /\ cfFixed \cap cfDenied = {}
            /\ \/ Publish(Finished(step, round, fixed, again, {}, cfFixed, cfDenied))
               \/ \E class \in bounds.proposals, inside \in BOOLEAN :
                    Publish(Finished(step, round, fixed, again,
                                     {NewFinding(NewClass(step, round, class, inside))},
                                     cfFixed, cfDenied))

\* No judge answers, or the pass dies: no round is spent.
EndWithoutVerdict ==
    /\ pass.on
    /\ pass' = NoPass
    /\ UNCHANGED <<bounds, head, artifact, body, receipts, listed, ruler, edits, outages>>

\* carry_decision and carry_review: the attested approval of the newest
\* earlier head that has a check, its findings and its accounting, on a head
\* no approval covers.  A poll passes over a judged head; `once --pr` does not.
Carry ==
    /\ ~pass.on
    /\ VerdictCount < bounds.verdicts
    /\ LET on(h) == {i \in DOMAIN receipts : receipts[i].kind = "verdict" /\ receipts[i].head = h}
           green(i) == receipts[i].approve /\ ~receipts[i].late
           judged == Greatest({h \in 1..(head - 1) : on(h) # {}})
           source == Greatest(on(judged))
       IN  /\ on(head) # {} => bounds.asked /\ \A i \in on(head) : ~green(i)
           /\ judged # 0
           /\ source \in listed /\ green(source)
           /\ receipts[source].artifact = artifact
           /\ Publish([receipts[source] EXCEPT !.head = head, !.source = source])

\* `rail ledger replay`: a receipt takes its place by its instant of emission.
Replay ==
    /\ \E i \in DOMAIN receipts \ listed : listed' = listed \cup {i}
    /\ UNCHANGED <<bounds, head, artifact, body, receipts, pass, ruler, edits, outages>>

\* `rail reviewer rule` shows a finding that waits, then asks to confirm.
ShowFinding(r) ==
    /\ ruler[r] = 0
    /\ RulingCount < bounds.rulings
    /\ Awaiting(listed)
    /\ \E f \in Unruled(listed) : ruler' = [ruler EXCEPT ![r] = f.id]
    /\ UNCHANGED <<bounds, head, artifact, body, receipts, listed, pass, edits, outages>>

Rule(r) ==
    /\ ruler[r] # 0
    /\ RulingCount < bounds.rulings
    /\ \E ruling \in {"fix", "carry_forward"} :
        /\ r \in Agents => ruling = "fix"
        /\ LET receipt == [kind |-> "ruling", finding |-> ruler[r], ruling |-> ruling]
           IN  Attested(receipt) \/ Unattested(receipt)
    /\ ruler' = [ruler EXCEPT ![r] = 0]
    /\ UNCHANGED <<bounds, head, artifact, body, pass, edits>>

\* The confirmation does not match, or another ruling took the key.
GiveUp(r) ==
    /\ ruler[r] # 0
    /\ ruler' = [ruler EXCEPT ![r] = 0]
    /\ UNCHANGED <<bounds, head, artifact, body, receipts, listed, pass, edits, outages>>

LoopNext ==
    \/ Push \/ Edit \/ Read
    \/ JudgeForm \/ Await \/ CloseWithoutJudge \/ JudgeRound \/ EndWithoutVerdict
    \/ Carry \/ Replay
    \/ \E cf \in Elsewhere : OthersApprove(cf)
    \/ \E r \in Rulers : ShowFinding(r) \/ Rule(r) \/ GiveUp(r)

LoopSpec == LoopInit /\ [][LoopNext]_lvars

-----------------------------------------------------------------------------
(***************************************************************************)
(* Properties.                                                             *)
(***************************************************************************)

\* Every variable has its type, and no verdict holds two findings of one id.
LoopTypeOK ==
    /\ bounds \in Bounds
    /\ head \in 1..bounds.heads
    /\ artifact \in bounds.artifacts
    /\ body \in Bodies
    /\ receipts \in Seq(Receipts)
    /\ listed \subseteq DOMAIN receipts
    /\ pass \in Passes /\ pass.seen \subseteq listed
    /\ ruler \in [Rulers -> 0..MaxIds]
    /\ edits \in 0..bounds.edits /\ outages \in 0..bounds.outages
    /\ \A i \in VerdictsIn(DOMAIN receipts) : \A f, g \in receipts[i].findings : f.id = g.id => f = g

\* "A dropped id is never reused": over the verdicts that were attested in
\* time an id names one finding for ever, mechanical or judged, whatever the
\* limit of a verdict dropped in between.
IdsNameOneFinding ==
    \A i, j \in VerdictsIn(DOMAIN receipts) :
        ~receipts[i].late /\ ~receipts[j].late =>
            \A f \in receipts[i].findings, g \in receipts[j].findings :
                f.id = g.id => f.born = g.born /\ f.gap = g.gap

\* A verdict that waited in the spool gave the id to a gap before w gave it to
\* a finding.
GivenToAGap(w, id) ==
    \E l \in VerdictsIn(DOMAIN receipts) :
        l < w /\ receipts[l].late /\ \E g \in receipts[l].findings : g.id = id /\ Mechanical(g)

\* An operator asked for a pass over a judged head: up to v, it carried an
\* approval older than the verdict w to a new head.
CarriedOver(w, v) ==
    /\ bounds.asked
    /\ \E c \in VerdictsIn(DOMAIN receipts) :
          w < c /\ c <= v /\ receipts[c].source # 0 /\ receipts[c].source < w

\* A blocker never disappears from the books: an approval after it rests on a
\* judge that called it fixed since, or leaves it as a carry-forward the next
\* pull requests must account for.  (Unless an older approval was carried over
\* it, or its id was given twice: a ruling on it is then taken for one on a gap.)
BlockersAreFixedOrOwed ==
    \A v \in VerdictsIn(listed) : receipts[v].approve =>
        \A w \in {i \in VerdictsIn(listed) : i < v /\ ~receipts[i].late /\ ~CarriedOver(i, v)} :
            \A f \in JudgesOwn(receipts[w].findings) :
                OpenBlocker(f) /\ ~GivenToAGap(w, f.id) =>
                    \/ \E u \in (w + 1)..v : receipts[u].kind = "verdict" /\ f.id \in receipts[u].fixed
                    \/ f.id \in OpenedIn(listed)

\* "No fourth round": after round 3 or a closure no judge reads the pull
\* request again before every blocker of that verdict has a ruling of its own,
\* given since; an old ruling serves no second time.  (Unless an older approval
\* was carried over that verdict.)
NoJudgeBeforeTheRulings ==
    \A w \in Judging(DOMAIN receipts), u \in Judging(DOMAIN receipts) :
        /\ u < w /\ receipts[w].judges /\ receipts[w].source = 0
        /\ receipts[u].step = "closure" \/ receipts[u].round = 3
        /\ ~receipts[u].late /\ receipts[u].source = 0 /\ ~CarriedOver(u, w)
        => \A f \in JudgesOwn(receipts[u].findings) : OpenBlocker(f) =>
             \E r \in (u + 1)..(w - 1) : receipts[r].kind = "ruling" /\ receipts[r].finding = f.id

\* No verdict before the n-th receipt waited in the spool.
InTime(n) == \A l \in VerdictsIn(DOMAIN receipts) : l < n => ~receipts[l].late

\* A code pull request is approved only with every carry-forward of others
\* accounted for, as the gate will ask: deferred with a reason or a ruling, or
\* addressed by the word of a judge of this pull request, never by the body's
\* claim alone.  (Aside from receipts that waited in the spool, and from
\* carried approvals: ReviewsPassTheGate.)
ApprovalsAccountForCarryForwards ==
    \A v \in Judging(listed) :
        receipts[v].approve /\ receipts[v].artifact = "code" /\ receipts[v].source = 0 =>
            /\ InTime(v) =>
                   OpenElsewhere({i \in listed : i < v /\ ~(receipts[i].kind = "other" /\ receipts[i].late)})
                     \subseteq receipts[v].addressed \cup receipts[v].deferred
            /\ \A cf \in receipts[v].addressed : \E u \in Judging(1..v) : cf \in receipts[u].confirmed

\* "The reviewer enforces this at review time; the gate catches a receipt
\* written some other way" (gates/evidence.py, carry_forward): the gate accepts
\* the receipts the reviewer wrote.  It does not hold: an approval carried over a
\* carry-forward opened since is refused.
ReviewsPassTheGate == CarryForwardGate(listed)

\* "Never cross a newer judgment to revive an older approval": no verdict
\* between an approval and its carrying asked for changes.
CarryCrossesNoJudgment ==
    \A v \in VerdictsIn(listed) :
        receipts[v].source # 0 =>
            \A u \in Judging((receipts[v].source + 1)..v) : receipts[u].approve

=============================================================================
