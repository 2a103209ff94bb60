---------------------------- MODULE FlowTimeline ----------------------------
(***************************************************************************)
(* The flow timeline of one merged pull request (flow.py), and the cache   *)
(* of what GitHub said of its final head (flow_cache.py), published again  *)
(* and again (flow_publish.py) while checks still run, GitHub is late to   *)
(* report them, reads fail and the cache is lost.                          *)
(*                                                                         *)
(* Time is counted in ticks: of a minute in a segment, of the 24 hours in  *)
(* Maturity.                                                               *)
(***************************************************************************)
EXTENDS Integers, FiniteSets

CONSTANTS
    CiRuns, ReviewerRuns,   \* the attempts of the CI's checks and of our own
    Created, Merged,        \* of the pull request
    Maturity,               \* the age a complete reading must have
    Absent,                 \* no reading, no time, no value
    LastTick,               \* bound: the clock
    Scopes                  \* what may happen: [suites, runs, late, posts, kinds, receipts,
                            \* verdicts, unread]; bounds: suites, posts, receipts, verdicts

ASSUME TimesAssumption ==
    /\ Created \in Nat /\ Merged \in Nat /\ Created <= Merged
    /\ Maturity \in Nat \ {0} /\ LastTick \in Nat

Runs == CiRuns \cup ReviewerRuns

\* The verdicts the reviewer may give: when, on the final head or on an earlier
\* one, in a judged round or a closure, of the run they name or carried.
ASSUME VerdictsAssumption ==
    \A s \in Scopes : s.verdicts \subseteq [at : Nat, final : BOOLEAN, judged : BOOLEAN,
                                            carried : BOOLEAN, run : ReviewerRuns]

ASSUME AbsentAssumption ==
    Absent \notin Int /\ Absent \notin Int \X Int /\ Absent \notin Runs /\ Absent # TRUE

Ticks == 0..LastTick

VARIABLES
    scope,
    now,
    suites,     \* the ticks at which suites of the CI were created
    began,      \* when each run really started, if it did
    ended,      \* when each run really ended, if it did
    told,       \* what GitHub reports of each run
    statuses,   \* the judge's statuses: [id, at, kind, start]
    receipts,   \* the reviewer's verdicts the ledger holds: [id, at, final, judged,
                \* carried, run]
    reading,    \* the publication under way: the tick it began, if any
    cache,      \* the cached entry: [evidence, fetched_at, complete]
    published,  \* the last timeline published
    settled,    \* it was computed from a complete entry
    read        \* history: the receipts it was computed from

fvars == <<scope, now, suites, began, ended, told, statuses, receipts, reading, cache,
          published, settled, read>>

Later(a, b) == IF a >= b THEN a ELSE b

Earlier(a, b) == IF a <= b THEN a ELSE b

First(S) == CHOOSE x \in S : \A y \in S : x <= y

Last1(S) == CHOOSE x \in S : \A y \in S : y <= x

-----------------------------------------------------------------------------
(***************************************************************************)
(* The timeline.                                                           *)
(***************************************************************************)

Newest(S) == CHOOSE s \in S : \A o \in S : o.at < s.at \/ (o.at = s.at /\ o.id <= s.id)

\* review_facts: the judged rounds over all heads, and what the newest receipt
\* of the final head says, of those recorded up to the merge.
ReviewFacts(records) ==
    LET mine == {r \in records : r.at <= Merged}
        finals == {r \in mine : r.final}
    IN  [rounds |-> Cardinality({r \in mine : r.judged /\ ~r.carried}),
         carried |-> IF finals = {} THEN Absent ELSE Newest(finals).carried,
         run |-> IF finals = {} THEN Absent ELSE Newest(finals).run]

\* What it says of a ledger that was not read.
NoFacts == [rounds |-> Absent, carried |-> Absent, run |-> Absent]

\* The creation of the first suite of the CI before the merge, but not before
\* the pull request's.
PushProxy(ss) ==
    LET candidates == {s \in ss : s <= Merged} IN
    IF candidates = {} THEN Absent ELSE Later(First(candidates), Created)

\* A run as it occupies the delivery: clipped to it, ignored if it started
\* after the merge, ended by the merge if it is still running.
RunInterval(r, push) ==
    IF r.started = Absent THEN Absent
    ELSE IF r.started >= Merged THEN Absent
    ELSE LET i == <<Later(r.started, push),
                    IF r.completed = Absent THEN Merged ELSE Earlier(r.completed, Merged)>>
         IN  IF i[1] <= i[2] THEN i ELSE Absent

IntervalsOf(runs, push) == {RunInterval(r, push) : r \in runs} \ {Absent}

\* Ticks occupied by overlapping intervals: sorted, clipped, merged in turn.
Before(i, j) == i[1] < j[1] \/ (i[1] = j[1] /\ i[2] <= j[2])

MergeNext(acc, i) ==
    IF i[1] <= acc.right THEN [acc EXCEPT !.right = Later(@, i[2])]
    ELSE [left |-> i[1], right |-> i[2], total |-> acc.total + acc.right - acc.left]

Clipped(intervals, start, end) ==
    {<<Later(i[1], start), Earlier(i[2], end)>> :
        i \in {j \in intervals : Later(j[1], start) <= Earlier(j[2], end)}}

Sorted(S) ==
    CHOOSE s \in [1..Cardinality(S) -> S] :
        \A k, l \in 1..Cardinality(S) : k < l => s[k] # s[l] /\ Before(s[k], s[l])

UnionMinutes(intervals, start, end) ==
    LET sorted == Sorted(Clipped(intervals, start, end))
        size == Cardinality(Clipped(intervals, start, end))
        merged[k \in 1..size] ==
            IF k = 1 THEN [left |-> sorted[1][1], right |-> sorted[1][2], total |-> 0]
            ELSE MergeNext(merged[k - 1], sorted[k])
    IN  IF size = 0 THEN 0
        ELSE merged[size].total + merged[size].right - merged[size].left

\* The judge's latest success before the merge.  A carried one tells no start,
\* nor does one that names no run, or a run that starts after it.
NoVerdict == [verdict |-> Absent, start |-> Absent]

JudgeFacts(ss) ==
    LET candidates == {s \in ss : s.at <= Merged}
        latest == Newest(candidates)
    IN  IF candidates = {} THEN NoVerdict
        ELSE [verdict |-> latest.at,
              start |-> IF latest.kind = "run" /\ latest.start <= latest.at
                        THEN latest.start ELSE Absent]

\* What was read of a head; of a source whose read failed, nothing.
Sources == {"suites", "runs", "statuses"}

GitHubEvidence(ss, rs, sts, failed) ==
    [suites |-> IF "suites" \in failed THEN {} ELSE ss,
     runs |-> IF "runs" \in failed THEN {} ELSE rs,
     statuses |-> IF "statuses" \in failed THEN {} ELSE sts,
     unread |-> failed \cap Sources]

\* compute_timeline: no push, no timeline; what was not read, or is not told
\* yet, is Absent and never zero.
FaultyTimeline(e, facts) ==
    LET push == PushProxy(e.suites)
        ci == IntervalsOf({r \in e.runs : r.run \in CiRuns}, push)
        reviewer == IntervalsOf({r \in e.runs : r.run \in ReviewerRuns}, push)
    IN  IF push = Absent THEN Absent
        ELSE [flow |-> Merged - push, ciStart |-> Absent, ci |-> Absent, longest |-> Absent,
              reviewStart |-> Absent, review |-> Absent, judgeWait |-> Absent, judge |-> Absent,
              rounds |-> facts.rounds,
              idle |-> Merged - push - UnionMinutes(ci \cup reviewer, push, Merged)]

Timeline(e, facts) ==
    LET push == PushProxy(e.suites)
        ciRuns == {r \in e.runs : r.run \in CiRuns}
        reviewerRuns == {r \in e.runs : r.run \in ReviewerRuns}
        ci == IntervalsOf(ciRuns, push)
        queued(rs) == \E r \in rs : r.started = Absent
        ciKnown == ci # {} /\ ~queued(ciRuns)
        first == First({i[1] : i \in ci})
        review == IntervalsOf({r \in reviewerRuns : r.run = facts.run}, push)
        judge == JudgeFacts(e.statuses)
        judged == IF judge.verdict = Absent THEN FALSE ELSE judge.verdict >= push
        judging == IF judged /\ judge.start # Absent
                   THEN {<<Later(judge.start, push), judge.verdict>>} ELSE {}
        occupied == ci \cup IntervalsOf(reviewerRuns, push) \cup judging
    IN  IF push = Absent THEN Absent
        ELSE [flow |-> Merged - push,
              ciStart |-> IF ciKnown THEN first - push ELSE Absent,
              ci |-> IF ciKnown THEN Last1({i[2] : i \in ci}) - first ELSE Absent,
              longest |-> IF ciKnown THEN Last1({i[2] - i[1] : i \in ci}) ELSE Absent,
              reviewStart |-> IF review # {} THEN First({i[1] : i \in review}) - push ELSE Absent,
              review |-> IF facts.carried = TRUE THEN 0
                         ELSE IF review # {} THEN Last1({i[2] - i[1] : i \in review}) ELSE Absent,
              rounds |-> facts.rounds,
              judgeWait |-> IF judged THEN judge.verdict - push ELSE Absent,
              judge |-> IF judging # {} THEN judge.verdict - Later(judge.start, push) ELSE Absent,
              idle |-> IF {"runs", "statuses"} \cap e.unread = {} /\ ~queued(ciRuns \cup reviewerRuns)
                       THEN Merged - push - UnionMinutes(occupied, push, Merged)
                       ELSE Absent]

Segments == {"flow", "ciStart", "ci", "longest", "reviewStart", "review", "rounds", "judgeWait",
             "judge", "idle"}

-----------------------------------------------------------------------------
(***************************************************************************)
(* The cache.                                                              *)
(***************************************************************************)

\* Complete: every source was read, more than Maturity after the merge, and
\* every run that started before the merge has ended.
FaultyIsComplete(e, at) ==
    /\ e.unread = {}
    /\ \A r \in e.runs :
        /\ r.started # Absent
        /\ r.started < Merged => r.completed # Absent /\ r.completed <= at

IsComplete(e, at) ==
    /\ e.unread = {}
    /\ at - Merged > Maturity
    /\ \A r \in e.runs :
        /\ r.started # Absent
        /\ r.started < Merged => r.completed # Absent /\ r.completed <= at

\* The entry a publication that began at a tick may reuse.
Load(at) ==
    IF cache = Absent THEN Absent
    ELSE IF cache.complete /\ cache.fetched_at <= at /\ IsComplete(cache.evidence, cache.fetched_at)
         THEN cache ELSE Absent

-----------------------------------------------------------------------------
(***************************************************************************)
(* GitHub: what happens, and what it reports of it.                        *)
(***************************************************************************)

FlowInit ==
    /\ scope \in Scopes
    /\ now = 0 /\ suites = {} /\ statuses = {} /\ receipts = {}
    /\ began = [r \in Runs |-> Absent] /\ ended = [r \in Runs |-> Absent]
    /\ told = [r \in Runs |-> "nothing"]
    /\ reading = Absent /\ cache = Absent /\ published = Absent /\ settled = FALSE /\ read = {}

OfRail == <<reading, cache, published, settled, read>>

OfRuns == <<began, ended, told>>

\* What started before the merge is told by the time a reading may be complete;
\* what ended may be told later still.
Tick ==
    /\ now < LastTick /\ now' = now + 1
    /\ now = Merged + Maturity =>
        \A r \in Runs : (began[r] # Absent /\ began[r] < Merged) =>
                            told[r] \in {"in_progress", "completed"}
    /\ UNCHANGED <<scope, suites, statuses, receipts>> /\ UNCHANGED OfRuns /\ UNCHANGED OfRail

\* A push of the final head reaches the CI, again if it was pushed elsewhere.
CreateSuite ==
    /\ now \notin suites /\ Cardinality(suites) < scope.suites
    /\ suites' = suites \cup {now}
    /\ UNCHANGED <<scope, now, statuses, receipts>> /\ UNCHANGED OfRuns /\ UNCHANGED OfRail

Queue(r) ==
    /\ suites # {} /\ r \in scope.runs
    /\ told[r] = "nothing" /\ began[r] = Absent
    /\ told' = [told EXCEPT ![r] = "queued"]
    /\ UNCHANGED <<scope, now, suites, statuses, receipts, began, ended>> /\ UNCHANGED OfRail

\* A run starts, and ends; GitHub tells of it at once, or later.
Starts(r) ==
    /\ began[r] = Absent
    /\ told[r] = "queued" \/ (scope.late /\ suites # {} /\ r \in scope.runs)
    /\ began' = [began EXCEPT ![r] = now]
    /\ \/ told' = [told EXCEPT ![r] = "in_progress"]
       \/ scope.late /\ UNCHANGED told
    /\ UNCHANGED <<scope, now, suites, statuses, receipts, ended>> /\ UNCHANGED OfRail

Ends(r) ==
    /\ began[r] # Absent /\ ended[r] = Absent
    /\ ended' = [ended EXCEPT ![r] = now]
    /\ \/ told' = [told EXCEPT ![r] = "completed"]
       \/ scope.late /\ UNCHANGED told
    /\ UNCHANGED <<scope, now, suites, statuses, receipts, began>> /\ UNCHANGED OfRail

Tells(r) ==
    /\ began[r] # Absent
    /\ told' = [told EXCEPT ![r] = IF ended[r] = Absent THEN "in_progress" ELSE "completed"]
    /\ told' # told
    /\ UNCHANGED <<scope, now, suites, statuses, receipts, began, ended>> /\ UNCHANGED OfRail

\* The judge's verdict is posted: of a run of its own, or carried.
Post(kind, start) ==
    /\ kind \in scope.kinds
    /\ Cardinality(statuses) < scope.posts
    /\ statuses' = statuses \cup
        {[id |-> Cardinality(statuses) + 1, at |-> now, kind |-> kind, start |-> start]}
    /\ UNCHANGED <<scope, now, suites, receipts>> /\ UNCHANGED OfRuns /\ UNCHANGED OfRail

\* A verdict of the reviewer reaches the ledger.  It keeps the time it was emitted
\* at, however long it waited in the spool, and a judgement names a run begun then.
Receive(v) ==
    /\ Cardinality(receipts) < scope.receipts
    /\ v.at <= now
    /\ v.final /\ ~v.carried => began[v.run] # Absent /\ began[v.run] <= v.at
    /\ receipts' = receipts \cup
        {[id |-> Cardinality(receipts) + 1, at |-> v.at, final |-> v.final, judged |-> v.judged,
          carried |-> v.carried, run |-> v.run]}
    /\ UNCHANGED <<scope, now, suites, statuses>> /\ UNCHANGED OfRuns /\ UNCHANGED OfRail

-----------------------------------------------------------------------------
(***************************************************************************)
(* The publications.                                                       *)
(***************************************************************************)

Reported(r) ==
    [run |-> r,
     started |-> IF told[r] = "queued" THEN Absent ELSE began[r],
     completed |-> IF told[r] = "completed" THEN ended[r] ELSE Absent]

ReportedRuns == {Reported(r) : r \in {q \in Runs : told[q] # "nothing"}}

\* A publication begins, with the tick it measures from.
Begin ==
    /\ now >= Merged /\ reading = Absent
    /\ reading' = now
    /\ UNCHANGED <<scope, now, suites, statuses, receipts, cache, published, settled, read>>
    /\ UNCHANGED OfRuns

\* get_or_read: the complete entry, or each source, each of which may fail; what
\* was read is written unless the write fails.
Publish(unread, written) ==
    /\ reading # Absent
    /\ LET kept == Load(reading)
           fresh == GitHubEvidence(suites, ReportedRuns, statuses, unread)
           entry == [evidence |-> fresh, fetched_at |-> reading,
                     complete |-> IsComplete(fresh, reading)]
           facts == IF "ledger" \in unread THEN NoFacts ELSE ReviewFacts(receipts)
       IN  IF kept # Absent
           THEN published' = Timeline(kept.evidence, facts) /\ settled' = TRUE /\ UNCHANGED cache
           ELSE /\ published' = Timeline(fresh, facts) /\ settled' = entry.complete
                /\ cache' = IF written THEN entry ELSE cache
    /\ read' = IF "ledger" \in unread THEN {} ELSE receipts
    /\ reading' = Absent
    /\ UNCHANGED <<scope, now, suites, statuses, receipts>> /\ UNCHANGED OfRuns

\* The cached entry is lost, or is not readable any more.
Lose ==
    /\ cache # Absent /\ cache' = Absent
    /\ UNCHANGED <<scope, now, suites, statuses, receipts, reading, published, settled, read>>
    /\ UNCHANGED OfRuns

FlowNext ==
    \/ Tick \/ CreateSuite
    \/ \E r \in Runs : Queue(r) \/ Starts(r) \/ Ends(r) \/ Tells(r)
    \/ \E start \in 0..now : Post("run", start)
    \/ Post("carried", 0)
    \/ \E v \in scope.verdicts : Receive(v)
    \/ Begin
    \/ \E unread \in scope.unread, written \in BOOLEAN : Publish(unread, written)
    \/ Lose

FlowSpec == FlowInit /\ [][FlowNext]_fvars

-----------------------------------------------------------------------------
(***************************************************************************)
(* What really happened between the push and the merge.                    *)
(***************************************************************************)

Push == PushProxy(suites)

\* The runs that ran between the push and the merge.
Ran(rs) ==
    {r \in rs : began[r] # Absent /\ began[r] < Merged /\ (ended[r] # Absent => ended[r] >= Push)}

Judged ==
    {s \in statuses : /\ Push <= s.at /\ s.at <= Merged
                      /\ \A o \in statuses : o.at <= Merged =>
                            o.at < s.at \/ (o.at = s.at /\ o.id <= s.id)}

\* The ticks during which nobody worked on the pull request.
IdleTicks ==
    {m \in Push..(Merged - 1) :
        /\ \A r \in Ran(Runs) : m < began[r] \/ (ended[r] # Absent /\ ended[r] <= m)
        /\ \A s \in Judged : s.kind = "run" => m < s.start \/ s.at <= m}

\* The ticks from the first run of the CI to the end of its last.
RunEnd(r) == IF ended[r] = Absent THEN Merged ELSE Earlier(ended[r], Merged)

TrueCi ==
    Last1({RunEnd(r) : r \in Ran(CiRuns)})
        - First({Later(began[r], Push) : r \in Ran(CiRuns)})

\* The ticks the review of the final head took: that of its last receipt.
Reviews == {r \in receipts : r.final /\ r.at <= Merged}

TrueReview ==
    LET r == Newest(Reviews).run
    IN  IF Newest(Reviews).carried THEN 0
        ELSE IF r \in Ran(ReviewerRuns) THEN RunEnd(r) - Later(began[r], Push) ELSE Absent

-----------------------------------------------------------------------------
(***************************************************************************)
(* Properties.                                                             *)
(***************************************************************************)

\* A complete entry is the whole truth (flow_cache.py: "aging an early fetch
\* cannot prove absence"; the contract: such evidence "can no longer change"):
\* the timeline it gives counts idle exactly the ticks during which neither a
\* run nor the judge worked, and as review those of the run the last receipt of
\* the final head names, whatever overlapped, ran on over the merge, was
\* run again after it, or was reported late.
FinalTimelinesAreTrue ==
    (IF cache = Absent THEN FALSE ELSE cache.complete) =>
        LET t == Timeline(cache.evidence, ReviewFacts(receipts)) IN
        t # Absent =>
            /\ t.flow = Merged - Push
            /\ t.idle = Cardinality(IdleTicks)
            /\ t.ci = IF Ran(CiRuns) = {} THEN Absent ELSE TrueCi
            /\ t.review = IF Reviews = {} THEN Absent ELSE TrueReview
            /\ t.judgeWait = IF Judged = {} THEN Absent ELSE First({s.at : s \in Judged}) - Push

\* A verdict emitted before the merge reached the ledger after it was read: it had
\* waited in the spool (ledger/brain.py: replay keeps `emitted_at`).
CameLate == \E r \in receipts \ read : r.at <= Merged

OfReview == {"reviewStart", "review", "rounds"}

\* What was published from a complete entry of GitHub is never taken back: a later
\* publication says the same of a segment or does not know it, after the entry
\* was lost, with reads that fail and with checks run again after the merge.
\* Only the segments of the review, which come from the ledger at each
\* publication, may change: where it was not read before, or where a verdict
\* emitted before the merge has arrived since.
SettledSegmentsNeverChange ==
    [][(settled /\ published # Absent /\ published' # Absent) =>
        \A s \in Segments :
            \/ published'[s] \in {published[s], Absent}
            \/ s \in OfReview /\ (published.rounds = Absent \/ CameLate)]_fvars

=============================================================================
