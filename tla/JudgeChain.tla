----------------------------- MODULE JudgeChain -----------------------------
(***************************************************************************)
(* One judging of a pull request by the independent reviewer: the chain of *)
(* providers that may judge, the pieces a large change is read in, what    *)
(* each judge was shown, the arbitration when light judges disagree, the   *)
(* filter on what a judge did not see, and the merge of the replies into a *)
(* verdict (reviewer/service.py, judges.py, split.py, policy.py).          *)
(*                                                                         *)
(* A diff is a sequence of files, a file a number of hunks; sizes and      *)
(* budgets count hunks.  What is cut from a diff, or from the chain, keeps *)
(* the order of the whole, and is a set here.  A judge is shown a prefix   *)
(* of its piece.  What it answers is any choice among the sayings of the   *)
(* scope; what it was shown (`shown`) is a fact of the model, beside the   *)
(* words it may use of any place.  The rounds that number findings are in  *)
(* ReviewLoop.                                                             *)
(***************************************************************************)
EXTENDS Naturals, Sequences, FiniteSetsExt, Functions

CONSTANTS
    Providers,      \* policy.providers: the order judges are asked in
    Unknown,        \* policy.unknown_producer_excludes
    Metered,        \* the provider with a subscription and a paid fallback (glm)
    Vague,          \* a file spelled so that two paths of the diff match it
    Skip,           \* policy.glm_quota_skip_minutes
    MaxSkip,        \* _GLM_QUOTA_MAX_SKIP: a day
    Scopes          \* the changes, policies and sayings to explore

ASSUME ChainAssumption ==
    /\ Providers \in Seq(Range(Providers)) /\ Metered \in Range(Providers)
    /\ Unknown \subseteq Range(Providers)
    /\ Skip \in Nat /\ MaxSkip \in Nat

Severity == {"blocking", "important", "minor"}

\* A change: a diff names a file once, and a file it names has hunks.
\* `earlier`: the place of each earlier finding, hunk 0 when it has no line or
\* its line is in no hunk; `closed`: those that are fixed; `blocking`: those of
\* class blocker, the others being notes and carry-forwards.
ASSUME ScopeAssumption ==
    \A s \in Scopes :
        /\ s.files \in Seq(Range(s.files)) /\ IsInjective(s.files)
        /\ Vague \notin Range(s.files)
        /\ Range(s.files) \subseteq DOMAIN s.hunks
        /\ \A f \in DOMAIN s.hunks : s.hunks[f] \in Nat \ {0}
        /\ \A id \in DOMAIN s.earlier :
               LET place == s.earlier[id]
               IN  /\ place.hunk \in Nat
                   /\ place.file \in Range(s.files) => place.hunk <= s.hunks[place.file]
        /\ s.closed \subseteq DOMAIN s.earlier /\ s.blocking \subseteq DOMAIN s.earlier
        /\ s.claims \subseteq [file : {c.file : c \in s.claims}, hunk : Nat, severity : Severity]
        /\ s.decisions \subseteq {"approve", "request_changes"}
        /\ s.max \in Nat \ {0} /\ \A p \in DOMAIN s.room : s.room[p] \in Nat
        /\ s.resets \subseteq Nat /\ s.horizon \in Nat /\ s.reviews \in Nat \ {0}

VARIABLES
    scope,      \* the world of this behaviour, chosen by Init
    now,        \* the host's clock
    until,      \* reviewer-glm-quota.json: skip the subscription until then
    limits,     \* history: when the subscription said its quota was spent
    review,     \* which review of the pull request this is, at most scope.reviews
    phase,      \* where _review_started stands
    piece,      \* the files being judged, of several pieces or all
    tried,      \* the judges of the chain asked so far
    fallback,   \* the subscription failed: the paid model is asked next
    got,        \* replies of the walk under way
    light,      \* the light verdicts an arbitration replaces
    replies,    \* replies retained for the verdict
    attempts,   \* judge_replies: every attempt of this review
    verdict     \* what the pass publishes

mind == <<now, until, limits>>
vars == <<scope, mind, review, phase, piece, tried, fallback, got, light, replies, attempts,
          verdict>>

NoVerdict == [decision |-> "none", cause |-> "pending"]
Limited == DOMAIN scope.room
Ids == DOMAIN scope.earlier
-----------------------------------------------------------------------------
(* The chain and the pieces. *)

\* The providers the trailers of the commits name, or the usual suspects.
Excluded == IF scope.producers = {} THEN Unknown ELSE scope.producers

\* Where the policy lists a provider, or the diff a file.
Position(s, x) == CHOOSE n \in DOMAIN s : s[n] = x

\* chain_for: never a provider that wrote the change.
Chain == Range(Providers) \ Excluded

\* drop_ignored, unless nothing else changed.
JudgedDiff ==
    LET kept == Range(scope.files) \ scope.ignored
    IN  IF kept = {} THEN Range(scope.files) ELSE kept

\* The files the headers name: an unreadable header names none.
Judged == JudgedDiff \ scope.unreadable
Readable(part) == part \cap scope.unreadable = {}
Whole(f) == {f} \X (1..scope.hunks[f])
Places(part) == UNION {Whole(f) : f \in part}
Size(part) == Cardinality(Places(part))

\* diff_budget: what every judge of the chain can hold.
Budget == Max({1, Min({scope.max} \cup {scope.room[p] : p \in Limited \cap Chain})})

\* split_diff: of the files left, as many as fit; one that never fits is alone.
FirstPiece(left) ==
    LET upTo(f) == {e \in left : Position(scope.files, e) <= Position(scope.files, f)}
    IN  {f \in left : upTo(f) = {f} \/ Size(upTo(f)) <= Budget}

InPieces == FirstPiece(JudgedDiff) # JudgedDiff

\* The files after the piece being judged.
Left == {f \in JudgedDiff : \A e \in piece : Position(scope.files, e) < Position(scope.files, f)}

Oversized == \E f \in JudgedDiff : scope.hunks[f] > Budget

DocsOnly == /\ scope.files # <<>> /\ Readable(Range(scope.files))
            /\ Range(scope.files) \subseteq scope.docs

\* mode_for; a delta since the last verdict is judged by its size alone.
Light == scope.small \/ (~scope.incremental /\ DocsOnly)
Depth == IF Light THEN "light" ELSE "deep"

\* prioritise_diff: code first, documents last.
Prioritised(e, f) ==
    \/ e \notin scope.docs /\ f \in scope.docs
    \/ /\ e \in scope.docs <=> f \in scope.docs
       /\ Position(scope.files, e) < Position(scope.files, f)

\* build_prompt and the shrinking of judge: the hunks p can be given.
Capacity(p) == IF p \in Limited THEN Max({1, Min({scope.max, scope.room[p]})}) ELSE scope.max

\* The prefix of the prompt's diff that reaches the model, in hunks.
Shown(p, part) ==
    LET before(f) == {e \in part : Prioritised(e, f)}
    IN  {place \in Places(part) : Size(before(place[1])) + place[2] <= Capacity(p)}
-----------------------------------------------------------------------------
(* What a reply says, and where. *)

\* sight_of and _seen: a file shown whole, or the hunk a line is in.  A place
\* with no line has hunk 0.
SeesPlace(r, file, hunk) ==
    /\ Readable(r.piece)
    /\ \/ Whole(file) \subseteq r.shown
       \/ <<file, hunk>> \in r.shown

\* _within_part: a new claim on what the judge did not see does not block.
WithinPart(r) ==
    LET Hidden(c) ==
            \/ c.file = Vague
            \/ c.file \in Judged /\ ~SeesPlace(r, c.file, c.hunk)
            \/ c.file \notin Judged /\ InPieces
    IN  IF Readable(r.piece)
        THEN [r EXCEPT !.claims =
                {[c EXCEPT !.severity = IF Hidden(c) THEN "important" ELSE @] : c \in @}]
        ELSE r

\* _head_excerpts: only an open finding's own window is quoted, when GitHub
\* answers and the budget lasts (scope.excerpted).
Excerpted ==
    {id \in scope.excerpted \ scope.closed : scope.earlier[id].file # Vague}

\* The words _admissible lets a reply say of an earlier finding.
Admits(r, id) ==
    LET place == scope.earlier[id]
    IN  /\ Readable(JudgedDiff)
        /\ place.file # Vague
        /\ IF place.file \in Judged
           THEN SeesPlace(r, place.file, place.hunk)
           ELSE id \in Excerpted

FaultyAdmissible(r) == r

\* _admissible: the other words are dropped before any status moves.
Admissible(r) ==
    LET kept == {id \in Ids : Admits(r, id)}
    IN  [r EXCEPT !.fixed = @ \cap kept, !.open = @ \cap kept, !.again = @ \cap kept]

Words(r) == r.fixed \cup r.open \cup r.again

\* A finding on a dated record is at most minor.
Discounted(claims) ==
    {[c EXCEPT !.severity = IF c.file \in scope.dated THEN "minor" ELSE @] : c \in claims}

OnRecord(s) == {c \in s.claims : c.file \in scope.dated}
RepeatedOnRecord(s) == {id \in s.again : scope.earlier[id].file \in scope.dated}

\* What a saying holds against the change: a finding it repeats is as grave as
\* the judge says now, whatever its class.
Severities(claims, again, gravity) ==
    {c.severity : c \in claims} \cup (IF again = {} THEN {} ELSE {gravity})

\* What is left of it when the records are discounted.
Discount(s) == Severities(s.claims \ OnRecord(s), s.again \ RepeatedOnRecord(s), s.gravity)

\* parse_verdict: a blocker asks for changes.  discount_records: when nothing
\* but records is left, the reply approves.
Decision(s) ==
    IF /\ Discount(s) \cap {"blocking", "important"} = {}
       /\ OnRecord(s) # {} \/ RepeatedOnRecord(s) # {}
    THEN "approve"
    ELSE IF "blocking" \in Severities(s.claims, s.again, s.gravity) THEN "request_changes"
    ELSE s.said

\* Every answer a judge may give: what it raises and what it says of the past.
Sayings ==
    {s \in [claims : SUBSET scope.claims, fixed : SUBSET Ids, open : SUBSET Ids,
            again : SUBSET Ids, gravity : Severity, said : scope.decisions] :
        /\ s.fixed \cap s.open = {}
        /\ s.again = {} => s.gravity = "minor"
        /\ Cardinality(s.claims) + Cardinality(Words(s)) <= scope.says}

Reply(p, tier, part, s) ==
    [provider |-> p, tier |-> tier, piece |-> part, shown |-> Shown(p, part),
     whole |-> Size(part) <= Capacity(p), decision |-> Decision(s),
     raised |-> s.claims, claims |-> Discounted(s.claims),
     fixed |-> s.fixed, open |-> s.open, again |-> s.again,
     important |-> Discount(s) \cap {"blocking", "important"} # {}]
-----------------------------------------------------------------------------
(* Walking the chain. *)

\* The providers that gave no light verdict, or all when none is left.
Fresh == Chain \ {r.provider : r \in light}
Arbiters == IF Fresh = {} THEN Chain ELSE Fresh

Asked == IF phase = "deep" THEN Arbiters ELSE Chain
Wanted == CASE phase = "pieces" -> 1
            [] phase = "light" -> IF Light THEN 1 ELSE 2
            [] OTHER -> Cardinality(Asked)
Tier == CASE phase = "pieces" -> Depth [] OTHER -> phase

\* _judge_chain walks in order until it has what it wants, or no judge is left.
Waiting == Asked \ tried
Turn == CHOOSE p \in Waiting : \A q \in Waiting : Position(Providers, p) <= Position(Providers, q)

Walking == /\ phase \in {"pieces", "light", "deep"}
           /\ Waiting # {}
           /\ Cardinality(got) < Wanted

Attempt(outcome, skipped) ==
    [provider |-> Turn, tier |-> Tier, piece |-> piece, outcome |-> outcome,
     skipped |-> skipped, at |-> now]

\* The next judge is asked, whatever this one did.
Answered(outcome, new, skipped) ==
    /\ got' = got \cup new
    /\ attempts' = attempts \cup {Attempt(outcome, skipped)}
    /\ tried' = tried \cup {Turn}
    /\ fallback' = FALSE
    /\ UNCHANGED <<scope, now, until, review, phase, piece, light, replies, verdict>>

\* _prompt_timeout: a prompt that would need more than timeout_max_seconds.
TooLarge(shown) == Cardinality(shown) > scope.longest

\* judge() answers without a run: no patch, or more than the time allows.
Unaskable ==
    /\ Walking
    /\ LET shown == Shown(Turn, piece)
       IN  \/ shown = {} /\ Answered("empty", {}, FALSE)
           \/ TooLarge(shown) /\ Answered("too large", {}, FALSE)
    /\ UNCHANGED limits

Askable ==
    /\ Walking
    /\ LET shown == Shown(Turn, piece) IN shown # {} /\ ~TooLarge(shown)

\* _glm_quota_until: a limit remembered, and not yet over.
Remembered(t) == t > now

\* The model that answers is the provider's own, or the paid fallback.
ByFallback == Turn = Metered /\ (fallback \/ Remembered(until))

Judge ==
    /\ Askable
    /\ \/ \E s \in Sayings :
            Answered("verdict", {Reply(Turn, Tier, piece, s)},
                     ByFallback /\ ~fallback)
       \/ \E outcome \in scope.faults \ {"quota"} :
            /\ Turn = Metered /\ outcome # "unparsable" => ByFallback
            /\ Answered(outcome, {}, ByFallback /\ ~fallback)
    /\ UNCHANGED limits

FaultyDelay(announced) == IF announced = 0 THEN Skip ELSE announced

\* The delay a spent quota is remembered for: announced and capped, or Skip.
Delay(announced) == IF announced = 0 THEN Skip ELSE Min({announced, MaxSkip})

\* _remember_glm_quota: a memory that cannot be written is done without.
Memories(announced) == {until, now + Delay(announced)}

\* failure_reason: the log of a failed run says its quota is spent.
QuotaSpent(outcome) == outcome = "quota"

\* The subscription did not answer: the same model is asked where it is paid.
PrimaryFails ==
    /\ Askable /\ Turn = Metered /\ ~ByFallback
    /\ \E outcome \in scope.faults \ {"unparsable"}, announced \in scope.resets :
        IF QuotaSpent(outcome)
        THEN /\ until' \in Memories(announced)
             /\ limits' = limits \cup {[at |-> now, announced |-> announced]}
        ELSE UNCHANGED <<until, limits>>
    /\ fallback' = TRUE
    /\ UNCHANGED <<scope, now, review, phase, piece, tried, got, light, replies, attempts, verdict>>

Tick ==
    /\ now < scope.horizon
    /\ now' = now + 1
    /\ UNCHANGED <<scope, until, limits, review, phase, piece, tried, fallback, got, light,
                   replies, attempts, verdict>>
-----------------------------------------------------------------------------
(* From one walk to the next, and to the verdict. *)

Walked == phase \in {"pieces", "light", "deep"} /\ ~Walking

Goto(phase_, piece_) ==
    /\ phase' = phase_ /\ piece' = piece_
    /\ tried' = {} /\ got' = {}
    /\ UNCHANGED <<scope, mind, review, fallback, attempts, verdict>>

PieceEnds ==
    /\ Walked /\ phase = "pieces"
    /\ replies' = replies \cup {WithinPart(r) : r \in got}
    /\ IF Left # {} THEN Goto("pieces", FirstPiece(Left)) ELSE Goto("judged", piece)
    /\ UNCHANGED light

\* Deep judges are called in when light ones disagree or raise what matters.
Escalates ==
    \/ Cardinality({r.decision : r \in got}) > 1
    \/ \E r \in got : r.important

LightEnds ==
    /\ Walked /\ phase = "light"
    /\ IF ~Light /\ Escalates
       THEN Goto("deep", piece) /\ light' = got /\ UNCHANGED replies
       ELSE Goto("judged", piece) /\ replies' = {WithinPart(r) : r \in got} /\ UNCHANGED light

FaultyRetained == IF got = {} THEN light ELSE got

\* The deep verdicts replace the light ones; a disputant asked again that did
\* not answer keeps its request for changes.
Retained ==
    IF got = {} THEN light
    ELSE got \cup {r \in light :
            /\ r.decision = "request_changes"
            /\ r.provider \in Arbiters \ {d.provider : d \in got}}

DeepEnds ==
    /\ Walked /\ phase = "deep"
    /\ replies' = {WithinPart(r) : r \in Retained}
    /\ Goto("judged", piece)
    /\ UNCHANGED light

\* _no_judge_cause.
Cause ==
    LET outcomes == {a.outcome : a \in attempts}
    IN  IF outcomes = {"too large"} THEN "size"
        ELSE IF "timeout" \in outcomes /\ "too large" \notin outcomes THEN "timeout"
        ELSE "no judge"

\* _merge: "still open" wins over "fixed"; a repeated finding is open.
Fixed(filtered) ==
    {id \in Ids : /\ \E r \in filtered : id \in r.fixed
                  /\ \A r \in filtered : id \notin r.open \cup r.again}

FaultyUnseen(retained) == {f \in Judged : \A r \in retained : f \notin {p[1] : p \in r.shown}}

\* The files no retained reply was shown whole.
Unseen(retained) ==
    {f \in Judged : \A r \in retained : ~SeesPlace(r, f, 0)}

Truncated(retained) == Oversized \/ \E r \in retained : ~r.whole

\* The verdict of _merge and _finish; approves: no blocker is open, new or earlier.
Merged ==
    LET filtered == {Admissible(r) : r \in replies}
        blockers == {c \in UNION {r.claims : r \in filtered} : c.severity = "blocking"}
        fixed == Fixed(filtered) \ scope.closed
        reopened == scope.closed \cap UNION {r.again : r \in filtered}
        stillOpen == ((Ids \ (scope.closed \cup fixed)) \cup reopened) \cap scope.blocking
    IN  [decision |-> IF blockers = {} /\ stillOpen = {} THEN "approve" ELSE "request_changes",
         blockers |-> blockers, fixed |-> fixed, reopened |-> reopened,
         truncated |-> Truncated(replies), unseen |-> Unseen(replies),
         notReviewed |-> UNION {Words(r) : r \in replies} \ UNION {Words(r) : r \in filtered}]

Conclude ==
    /\ phase = "judged"
    /\ phase' = "published"
    /\ verdict' = IF replies = {} THEN [NoVerdict EXCEPT !.cause = Cause] ELSE Merged
    /\ UNCHANGED <<scope, mind, review, piece, tried, fallback, got, light, replies, attempts>>

First == IF InPieces THEN "pieces" ELSE "light"

\* The same change is reviewed once more.
Again ==
    /\ phase = "published" /\ review < scope.reviews
    /\ review' = review + 1
    /\ phase' = First /\ piece' = FirstPiece(JudgedDiff) /\ tried' = {} /\ fallback' = FALSE
    /\ got' = {} /\ light' = {} /\ replies' = {} /\ attempts' = {}
    /\ verdict' = NoVerdict
    /\ UNCHANGED <<scope, mind>>

Init ==
    /\ scope \in Scopes
    /\ now = 0 /\ until = 0 /\ limits = {}
    /\ review = 1 /\ phase = First /\ piece = FirstPiece(JudgedDiff) /\ tried = {} /\ fallback = FALSE
    /\ got = {} /\ light = {} /\ replies = {} /\ attempts = {}
    /\ verdict = NoVerdict

Next ==
    \/ Unaskable \/ Judge \/ PrimaryFails \/ Tick
    \/ PieceEnds \/ LightEnds \/ DeepEnds \/ Conclude \/ Again

Spec == Init /\ [][Next]_vars
-----------------------------------------------------------------------------
(* Properties. *)

Outcomes == {"verdict", "empty", "too large"} \cup scope.faults
Remarks == [file : {c.file : c \in scope.claims}, hunk : Nat, severity : Severity]
Replies == [provider : Chain, tier : {"light", "deep"}, piece : SUBSET JudgedDiff,
            shown : SUBSET Places(JudgedDiff), whole : BOOLEAN,
            decision : {"approve", "request_changes"},
            raised : SUBSET scope.claims, claims : SUBSET Remarks,
            fixed : SUBSET Ids, open : SUBSET Ids, again : SUBSET Ids, important : BOOLEAN]

\* Types of the model.
TypeOK ==
    /\ scope \in Scopes
    /\ now \in 0..scope.horizon /\ until \in Nat
    /\ limits \subseteq [at : 0..scope.horizon, announced : scope.resets]
    /\ review \in 1..scope.reviews /\ fallback \in BOOLEAN
    /\ phase \in {"pieces", "light", "deep", "judged", "published"}
    /\ piece \subseteq JudgedDiff /\ tried \subseteq Chain
    /\ got \subseteq Replies /\ light \subseteq Replies /\ replies \subseteq Replies
    /\ \A a \in attempts : a.provider \in Chain /\ a.outcome \in Outcomes

Concluded == verdict.decision # "none"

\* The gate review.verdict, on a receipt of its reviewer.
VerdictGate == Concluded /\ verdict.decision = "approve" /\ ~verdict.truncated

\* r's judge was shown the place of an earlier finding: in its prompt's diff,
\* or in the excerpt made for a file the change does not touch.
ShownTo(r, id) ==
    LET place == scope.earlier[id]
    IN  IF place.file \notin Judged THEN id \in Excerpted
        ELSE IF place.hunk = 0 THEN Whole(place.file) \subseteq r.shown
        ELSE <<place.file, place.hunk>> \in r.shown

\* D2-D3 of docs/specs/2026-10-13-reviewer-partial-view.md: an earlier finding is
\* closed, or reopened, exactly when a judge that was shown its place says so
\* and, for a closing, no judge that was shown it says it is still there; and an
\* approval leaves no earlier blocker open, though it may leave notes and
\* carry-forwards.  About _admissible, _merge, assign and approves, over pieces,
\* cuts and arbitrations.
EarlierFindingsMoveOnSight ==
    Concluded =>
        LET Say(id, words(_)) ==
                Readable(JudgedDiff) /\ \E r \in replies : id \in words(r) /\ ShownTo(r, id)
            Denied(r) == r.open \cup r.again
        IN  /\ \A id \in Ids \ scope.closed :
                  id \in verdict.fixed
                      <=> Say(id, LAMBDA r : r.fixed) /\ ~Say(id, Denied)
            /\ \A id \in scope.closed :
                  id \in verdict.reopened <=> Say(id, LAMBDA r : r.again)
            /\ verdict.decision = "approve"
                  => scope.blocking \subseteq (scope.closed \ verdict.reopened) \cup verdict.fixed

\* Of two judges that disagree, neither decides alone: a request for changes
\* that is not in the verdict was replaced by its own author's deep reply or by
\* a judge that had not taken side.  About the arbitration of _review_started.
DissentsAreAnswered ==
    Concluded =>
        \A r \in light : r.decision = "request_changes" =>
            \/ \E q \in replies : q.provider = r.provider
            \/ \E q \in replies : q.provider \notin {d.provider : d \in light}

\* D4: every file the receipt does not name as unseen was shown whole to a judge
\* whose reply counts, and a receipt that does not say it was cut rests on
\* judges that were shown their whole piece.  About the coverage lists and
\* diff_truncated.
ReceiptsNameWhatWasNotRead ==
    Concluded =>
        /\ \A f \in Judged \ verdict.unseen : \E r \in replies : Whole(f) \subseteq r.shown
        /\ ~verdict.truncated =>
              \A r \in replies : Places(r.piece) = r.shown

\* A spent quota parks the subscription for the time it announced, at most a
\* day, or for the configured time.  About the glm quota memory of judge().
LimitsExpire ==
    \A a \in attempts : a.skipped =>
        \E l \in limits :
            /\ l.at <= a.at
            /\ IF l.announced = 0 THEN a.at < l.at + Skip
               ELSE a.at < l.at + l.announced /\ a.at < l.at + MaxSkip

\* src/rail/gates/evidence.py:118-120: "A verdict that covers part of the change
\* is not a verdict on the change: read literally, it approves what happened to
\* fit".  The receipt a green gate rests on would be of a change read whole.
ApprovalsCoverTheChange ==
    VerdictGate => verdict.unseen = {}
=============================================================================
