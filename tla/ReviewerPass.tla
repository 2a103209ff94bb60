---------------------------- MODULE ReviewerPass ----------------------------
(***************************************************************************)
(* The passes of the independent reviewer over one pull request            *)
(* (src/rail/reviewer/service.py, commands/reviewer.py): which heads get a *)
(* check run, who judges them, and how a verdict reaches the ledger first  *)
(* and GitHub second.  `rail reviewer once` and `run` hold the lock of the *)
(* host; `rail verdict carry` (commands/verdict.py) holds none.            *)
(*                                                                         *)
(* What the judges say is a choice here; the rounds, findings and rulings  *)
(* behind a verdict are the subject of ReviewLoop.                         *)
(***************************************************************************)
EXTENDS Naturals, Sequences, FiniteSets

CONSTANTS
    Passes,         \* processes running `rail reviewer` or `rail verdict carry`
    NoOne,          \* nobody holds the lock of the host
    Carriers,       \* those that may run `rail verdict carry`
    MaxHeads,       \* bound: heads the pull request gets
    MaxRequests,    \* bound: rerun labels added and `--pr` passes asked for
    MaxSilences,    \* bound: judgements no judge answers
    MaxFaults,      \* bound: failed calls and deaths
    MaxEvents       \* bound: requests and faults together

ASSUME PassesAssumption ==
    /\ NoOne \notin Passes
    /\ Carriers \subseteq Passes
    /\ MaxHeads \in Nat \ {0}
    /\ MaxRequests \in Nat /\ MaxSilences \in Nat /\ MaxFaults \in Nat
    /\ MaxEvents \in Nat

VARIABLES
    head,       \* the head of the pull request; heads are numbered by push
    patch,      \* the patch each head carries: the head that introduced it
    labelled,   \* the pull request has the rerun label
    checks,     \* the check runs `red-rail/review`, by id
    reviews,    \* the pull request reviews posted: of which check, approving
    ledger,     \* the review verdicts brain holds
    spool,      \* the review verdicts whose receipts wait on the host
    lock,       \* who holds reviewer.lock
    pass,       \* the local state of each process
    requests, silences, faults      \* counters of the bounds

github == <<head, patch, labelled>>
counters == <<requests, silences, faults>>
shared == <<github, checks, reviews, ledger, spool, lock, counters>>
vars == <<shared, pass>>

Heads == 1..MaxHeads

(***************************************************************************)
(* A check run.  `stale`: it started before the cutoff of                  *)
(* stale_check_minutes.  `automatic`: a pass opened it by itself to have   *)
(* the head judged, asked by no operator and no label, neither when it     *)
(* selected the head nor when it loaded it.                                *)
(***************************************************************************)
Titles == {"", "verdict", "unattested", "retry pending", "no verdict",
           "interrupted", "error"}

Checks == [head : Heads, done : BOOLEAN, green : BOOLEAN, title : Titles,
           stale : BOOLEAN, automatic : BOOLEAN]

Ids == DOMAIN checks

\* A verdict names its check run.  `source`: the check a carried approval
\* comes from, 0 for a judged one.  `late`: brain did not confirm it to the
\* pass that wrote it.
Verdicts == [check : Nat \ {0}, approve : BOOLEAN, source : Nat, late : BOOLEAN]

VerdictsOf(c) == {v \in ledger : v.check = c}

Attested(c) == VerdictsOf(c) # {}

OnHead(h) == {c \in Ids : checks[c].head = h}

Greatest(S) == CHOOSE x \in S : \A y \in S : y <= x

-----------------------------------------------------------------------------
(***************************************************************************)
(* Processes.                                                              *)
(***************************************************************************)

\* "asked": the operator asked for the pass, or the label for the selected head.
Modes == {"none", "poll", "asked", "carry"}

Steps == {"idle", "reconcile", "select", "load", "decide", "close", "interrupt",
          "cover", "start", "judge", "silent", "attest", "publish", "review",
          "unlabel", "tell", "object", "handler", "error"}

\* head, label: the pull request as the pass loaded it.  receipts: the
\* verdicts it listed at its start.  check: the check it works on.
PassStates == [step : Steps, mode : Modes, head : {0} \cup Heads, label : BOOLEAN,
               receipts : SUBSET Verdicts, check : Nat, approve : BOOLEAN,
               source : Nat]

NoPass == [step |-> "idle", mode |-> "none", head |-> 0, label |-> FALSE,
           receipts |-> {}, check |-> 0, approve |-> FALSE, source |-> 0]

At(p, s) == pass[p].step = s

Goes(p, s) == pass' = [pass EXCEPT ![p].step = s]

Init ==
    /\ head = 1
    /\ patch = [h \in Heads |-> h]
    /\ labelled = FALSE
    /\ checks = <<>>
    /\ reviews = {}
    /\ ledger = {}
    /\ spool = {}
    /\ lock = NoOne
    /\ pass = [p \in Passes |-> NoPass]
    /\ requests = 0 /\ silences = 0 /\ faults = 0

Fault == faults < MaxFaults /\ requests + faults < MaxEvents /\ faults' = faults + 1

Request == /\ requests < MaxRequests /\ requests + faults < MaxEvents
           /\ requests' = requests + 1

NoFault == UNCHANGED faults

\* The process ends; the lock of the host goes with it.
Ends(p) ==
    /\ pass' = [pass EXCEPT ![p] = NoPass]
    /\ lock' = IF lock = p THEN NoOne ELSE lock

\* A check run is updated, whatever its status: GitHub takes every update.
Completed(c, green, title) ==
    checks' = [checks EXCEPT ![c].done = TRUE, ![c].green = green, ![c].title = title]

-----------------------------------------------------------------------------
(***************************************************************************)
(* The world around the passes.                                            *)
(***************************************************************************)

\* A push changes the patch, or merges the base branch and keeps it.
Push ==
    /\ head < MaxHeads
    /\ head' = head + 1
    /\ patch' \in {patch, [patch EXCEPT ![head + 1] = patch[head]]}
    /\ UNCHANGED <<labelled, checks, reviews, ledger, spool, lock, pass, counters>>

Label ==
    /\ ~labelled
    /\ Request
    /\ labelled' = TRUE
    /\ UNCHANGED <<head, patch, checks, reviews, ledger, spool, lock, pass, silences, faults>>

\* Nobody works on the check any more and its age passes the cutoff: a pass
\* lives four hours at most, the cutoff is five.
Age(c) ==
    /\ c \in Ids
    /\ ~checks[c].done /\ ~checks[c].stale
    /\ \A p \in Passes : pass[p].check # c
    /\ checks' = [checks EXCEPT ![c].stale = TRUE]
    /\ UNCHANGED <<github, reviews, ledger, spool, lock, pass, counters>>

\* `rail ledger replay`.
Replay(v) ==
    /\ ledger' = ledger \cup {v}
    /\ spool' = spool \ {v}
    /\ UNCHANGED <<github, checks, reviews, lock, pass, counters>>

-----------------------------------------------------------------------------
(***************************************************************************)
(* A pass begins: the lock, then the verdicts of the ledger.  A ledger it  *)
(* cannot list is reported and the pass goes on.                           *)
(***************************************************************************)

Begins(p, mode) ==
    /\ At(p, "idle")
    /\ lock = NoOne
    /\ lock' = p
    /\ \E listed \in {ledger, {}} :
        /\ listed # ledger => Fault
        /\ listed = ledger => NoFault
        /\ pass' = [pass EXCEPT ![p] = [NoPass EXCEPT !.step = "reconcile",
                                          !.mode = mode, !.receipts = listed]]
    /\ UNCHANGED <<github, checks, reviews, ledger, spool, silences>>

\* The timer of the host, or `rail reviewer run`.
Poll(p) == Begins(p, "poll") /\ UNCHANGED requests

\* `rail reviewer once --pr`.
Ask(p) ==
    /\ Request
    /\ Begins(p, "asked")

\* `rail verdict carry`: no lock.
Carry(p) ==
    /\ p \in Carriers
    /\ At(p, "idle")
    /\ Request
    /\ pass' = [pass EXCEPT ![p] = [NoPass EXCEPT !.step = "load", !.mode = "carry"]]
    /\ UNCHANGED <<github, checks, reviews, ledger, spool, lock, silences, faults>>

-----------------------------------------------------------------------------
(***************************************************************************)
(* complete_attested_checks: verdicts whose completion was lost.           *)
(***************************************************************************)

\* Only approvals are published late.
FaultyLost(p) ==
    {c \in OnHead(head) : ~checks[c].done /\ \E v \in pass[p].receipts : v.check = c /\ v.approve}

Lost(p) ==
    {c \in OnHead(head) : ~checks[c].done /\ \E v \in pass[p].receipts : v.check = c}

Reconcile(p) ==
    /\ At(p, "reconcile")
    /\ \E c \in Lost(p), v \in pass[p].receipts :
        /\ v.check = c
        /\ Completed(c, v.approve, "verdict")
    /\ UNCHANGED <<github, reviews, ledger, spool, lock, pass, counters>>

Reconciled(p) ==
    /\ At(p, "reconcile")
    /\ Lost(p) = {}
    /\ Goes(p, IF pass[p].mode = "poll" THEN "select" ELSE "load")
    /\ UNCHANGED shared

\* Any failure of the reconciliation is reported and the pass goes on.
ReconcileFails(p) ==
    /\ At(p, "reconcile")
    /\ Fault
    /\ Goes(p, IF pass[p].mode = "poll" THEN "select" ELSE "load")
    /\ UNCHANGED <<github, checks, reviews, ledger, spool, lock, requests, silences>>

-----------------------------------------------------------------------------
(***************************************************************************)
(* Selection.                                                              *)
(***************************************************************************)

\* Any earlier timeout permits another automatic pass.
FaultyNeedsReview(h) ==
    LET done == {c \in OnHead(h) : checks[c].done}
    IN  \/ labelled
        \/ /\ done = {} \/ \E c \in done : checks[c].title = "retry pending"
           /\ \A c \in OnHead(h) \ done : checks[c].stale

\* A running check always stands in the way, however old.
FaultyIdleNeedsReview(h) ==
    LET done == {c \in OnHead(h) : checks[c].done}
    IN  \/ labelled
        \/ OnHead(h) = {}
        \/ done = OnHead(h) /\ \E c \in done : done = {c} /\ checks[c].title = "retry pending"

\* needs_review: no check yet, or nothing but one timeout and stale checks.
NeedsReview(h) ==
    LET done == {c \in OnHead(h) : checks[c].done}
    IN  \/ labelled
        \/ /\ \/ done = {}
              \/ \E c \in done : done = {c} /\ checks[c].title = "retry pending"
           /\ \A c \in OnHead(h) \ done : checks[c].stale

Select(p) ==
    /\ At(p, "select")
    /\ NeedsReview(head)
    /\ pass' = [pass EXCEPT ![p].step = "load", ![p].mode = IF labelled THEN "asked" ELSE "poll"]
    /\ UNCHANGED shared

NothingToReview(p) ==
    /\ At(p, "select")
    /\ ~NeedsReview(head)
    /\ Ends(p)
    /\ UNCHANGED <<github, checks, reviews, ledger, spool, counters>>

\* The pull request is loaded in full: its head and its labels of now.
Load(p) ==
    /\ At(p, "load")
    /\ pass' = [pass EXCEPT ![p].head = head, ![p].label = labelled,
                            ![p].step = "decide"]
    /\ UNCHANGED shared

-----------------------------------------------------------------------------
(***************************************************************************)
(* carry_decision and the source receipt carry_review asks for.  The       *)
(* newest earlier head with a check is the only source.  The statuses and  *)
(* the CI of the heads are not modelled: the decision may always refuse.   *)
(***************************************************************************)

\* The patch of the two heads is not compared.
FaultyMayCarry(h, c) ==
    LET judged == {k \in Heads : k < h /\ OnHead(k) # {}}
    IN  /\ judged # {}
        /\ c = Greatest(OnHead(Greatest(judged)))
        /\ checks[c].done /\ checks[c].green
        /\ \E v \in VerdictsOf(c) : v.approve

MayCarry(h, c) ==
    LET judged == {k \in Heads : k < h /\ OnHead(k) # {}}
    IN  /\ judged # {}
        /\ c = Greatest(OnHead(Greatest(judged)))
        /\ checks[c].done /\ checks[c].green
        /\ patch[checks[c].head] = patch[h]
        /\ \E v \in VerdictsOf(c) : v.approve

DecideCarry(p) ==
    /\ At(p, "decide")
    /\ pass[p].mode = "carry" => OnHead(pass[p].head) = {}
    /\ pass[p].mode # "carry" => ~pass[p].label
    /\ head = pass[p].head
    /\ \E c \in Ids :
        /\ MayCarry(head, c)
        /\ pass' = [pass EXCEPT ![p].source = c, ![p].step = "close"]
    /\ UNCHANGED shared

DecideJudge(p) ==
    /\ At(p, "decide")
    /\ pass[p].mode # "carry"
    /\ Goes(p, "close")
    /\ UNCHANGED shared

RefuseCarry(p) ==
    /\ At(p, "decide")
    /\ pass[p].mode = "carry"
    /\ Ends(p)
    /\ UNCHANGED <<github, checks, reviews, ledger, spool, counters>>

-----------------------------------------------------------------------------
(***************************************************************************)
(* _close_interrupted_checks: read the ledger, then retire the check.      *)
(***************************************************************************)

Interrupted(p) ==
    {c \in OnHead(pass[p].head) : ~checks[c].done /\ checks[c].stale}

Close(p) ==
    /\ At(p, "close")
    /\ \E c \in Interrupted(p) :
        /\ ~Attested(c)
        /\ pass' = [pass EXCEPT ![p].check = c, ![p].step = "interrupt"]
    /\ UNCHANGED shared

Interrupt(p) ==
    /\ At(p, "interrupt")
    /\ Completed(pass[p].check, FALSE, "interrupted")
    /\ pass' = [pass EXCEPT ![p].check = 0, ![p].step = "close"]
    /\ UNCHANGED <<github, reviews, ledger, spool, lock, counters>>

CloseDone(p) ==
    /\ At(p, "close")
    /\ \A c \in Interrupted(p) : Attested(c)
    /\ Goes(p, "cover")
    /\ UNCHANGED shared

\* _skip_covered_head: a success covers a head unless the label was there;
\* a check that runs and is not stale covers it always.
Covered(p) ==
    \E c \in OnHead(pass[p].head) :
        \/ ~checks[c].done /\ ~checks[c].stale
        \/ checks[c].done /\ checks[c].green /\ ~pass[p].label

Skip(p) ==
    /\ At(p, "cover")
    /\ Covered(p)
    /\ Ends(p)
    /\ UNCHANGED <<github, checks, reviews, ledger, spool, counters>>

Uncovered(p) ==
    /\ At(p, "cover")
    /\ ~Covered(p)
    /\ Goes(p, "start")
    /\ UNCHANGED shared

-----------------------------------------------------------------------------
(***************************************************************************)
(* start_check, and the judgement.                                         *)
(***************************************************************************)

Opened(p) ==
    checks' = Append(checks,
        [head |-> pass[p].head, done |-> FALSE, green |-> FALSE, title |-> "",
         stale |-> FALSE,
         automatic |-> pass[p].mode = "poll" /\ ~pass[p].label /\ pass[p].source = 0])

\* A carried approval is attested at once, a head is judged.
StartCheck(p) ==
    /\ At(p, "start")
    /\ Opened(p)
    /\ pass' = [pass EXCEPT ![p].check = Len(checks) + 1,
                            ![p].approve = pass[p].source # 0,
                            ![p].step = IF pass[p].source = 0 THEN "judge" ELSE "attest"]
    /\ UNCHANGED <<github, reviews, ledger, spool, lock, counters>>

\* The judges rule; so do the mechanical verdicts, without a judge.
Judge(p) ==
    /\ At(p, "judge")
    /\ \E ruling \in BOOLEAN :
        pass' = [pass EXCEPT ![p].approve = ruling, ![p].step = "attest"]
    /\ UNCHANGED shared

NoJudge(p) ==
    /\ At(p, "judge")
    /\ silences < MaxSilences
    /\ silences' = silences + 1
    /\ Goes(p, "silent")
    /\ UNCHANGED <<github, checks, reviews, ledger, spool, lock, requests, faults>>

\* Nobody ruled: nothing is attested.  A first timeout on the head announces
\* its one automatic retry; a second one, a prompt too large or an outage
\* asks for the label or a push.
NoVerdictTitles(p) ==
    IF \E c \in OnHead(pass[p].head) : checks[c].done /\ checks[c].title = "retry pending"
    THEN {"no verdict"} ELSE {"retry pending", "no verdict"}

SayNoVerdict(p) ==
    /\ At(p, "silent")
    /\ \E title \in NoVerdictTitles(p) : Completed(pass[p].check, FALSE, title)
    /\ Ends(p)
    /\ UNCHANGED <<github, reviews, ledger, spool, counters>>

-----------------------------------------------------------------------------
(***************************************************************************)
(* _publish: the ledger first.                                             *)
(***************************************************************************)

Ruling(p, late) == [check |-> pass[p].check, approve |-> pass[p].approve,
                    source |-> pass[p].source, late |-> late]

Attest(p) ==
    /\ At(p, "attest")
    /\ ledger' = ledger \cup {Ruling(p, FALSE)}
    /\ Goes(p, "publish")
    /\ UNCHANGED <<github, checks, reviews, spool, lock, counters>>

\* Unattested: the receipt waits.  Brain refused it, or recorded it and its
\* answer was lost.
AttestWaits(p) ==
    /\ At(p, "attest")
    /\ Fault
    /\ spool' = spool \cup {Ruling(p, TRUE)}
    /\ ledger' \in {ledger, ledger \cup {Ruling(p, TRUE)}}
    /\ Goes(p, "tell")
    /\ UNCHANGED <<github, checks, reviews, lock, requests, silences>>

\* A carried approval posts no pull request review.
Publish(p) ==
    /\ At(p, "publish")
    /\ Completed(pass[p].check, pass[p].approve, "verdict")
    /\ Goes(p, IF pass[p].source = 0 THEN "review" ELSE "unlabel")
    /\ UNCHANGED <<github, reviews, ledger, spool, lock, counters>>

Posted(p, approve) == reviews' = reviews \cup {[check |-> pass[p].check, approve |-> approve]}

PostReview(p) ==
    /\ At(p, "review")
    /\ Posted(p, pass[p].approve)
    /\ Goes(p, "unlabel")
    /\ UNCHANGED <<github, checks, ledger, spool, lock, counters>>

\* Only a label the pass loaded is removed.
Unlabel(p) ==
    /\ At(p, "unlabel")
    /\ labelled' = (labelled /\ ~pass[p].label)
    /\ Ends(p)
    /\ UNCHANGED <<head, patch, checks, reviews, ledger, spool, counters>>

\* The conclusion follows the ruling, attested or not.
FaultyTellUnattested(p) ==
    /\ At(p, "tell")
    /\ Completed(pass[p].check, pass[p].approve, "unattested")
    /\ IF pass[p].source = 0 THEN Goes(p, "object") /\ UNCHANGED lock ELSE Ends(p)
    /\ UNCHANGED <<github, reviews, ledger, spool, counters>>

TellUnattested(p) ==
    /\ At(p, "tell")
    /\ Completed(pass[p].check, FALSE, "unattested")
    /\ IF pass[p].source = 0 THEN Goes(p, "object") /\ UNCHANGED lock ELSE Ends(p)
    /\ UNCHANGED <<github, reviews, ledger, spool, counters>>

\* REQUEST_CHANGES, whatever was ruled; the label stays.
Object(p) ==
    /\ At(p, "object")
    /\ Posted(p, FALSE)
    /\ Ends(p)
    /\ UNCHANGED <<github, checks, ledger, spool, counters>>

-----------------------------------------------------------------------------
(***************************************************************************)
(* Failures.                                                               *)
(***************************************************************************)

\* What a call to GitHub leaves behind when its answer is lost.
Effect(p) ==
    CASE At(p, "interrupt") -> Completed(pass[p].check, FALSE, "interrupted")
      [] At(p, "start") -> Opened(p)
      [] At(p, "silent") -> \E title \in NoVerdictTitles(p) :
                                Completed(pass[p].check, FALSE, title)
      [] At(p, "publish") -> Completed(pass[p].check, pass[p].approve, "verdict")
      [] At(p, "tell") -> Completed(pass[p].check, FALSE, "unattested")
      [] At(p, "error") -> Completed(pass[p].check, FALSE, "error")
      [] OTHER -> UNCHANGED checks

\* Before a check exists, and in the handler itself, a failure ends the process.
PassFails(p) ==
    /\ pass[p].step \in {"select", "load", "decide", "close", "interrupt", "cover", "start",
                         "handler", "error"}
    /\ Fault
    /\ (UNCHANGED checks \/ Effect(p))
    /\ Ends(p)
    /\ UNCHANGED <<github, reviews, ledger, spool, requests, silences>>

\* After it, the handler takes over, whatever the call had done.
ReviewFails(p) ==
    /\ pass[p].step \in {"judge", "silent", "attest", "publish", "review",
                         "unlabel", "tell", "object"}
    /\ Fault
    /\ (UNCHANGED checks \/ Effect(p))
    /\ \/ UNCHANGED reviews
       \/ At(p, "review") /\ Posted(p, pass[p].approve)
       \/ At(p, "object") /\ Posted(p, FALSE)
    /\ \/ UNCHANGED labelled
       \/ At(p, "unlabel") /\ labelled' = (labelled /\ ~pass[p].label)
    /\ Goes(p, "handler")
    /\ UNCHANGED <<head, patch, ledger, spool, lock, requests, silences>>

\* The handler does not look at the ledger.
FaultyHandlerFindsNone(p) ==
    /\ At(p, "handler")
    /\ Goes(p, "error")
    /\ UNCHANGED shared

\* The verdict is in the ledger: reconciliation publishes it on a later pass.
HandlerLeaves(p) ==
    /\ At(p, "handler")
    /\ Attested(pass[p].check)
    /\ Ends(p)
    /\ UNCHANGED <<github, checks, reviews, ledger, spool, counters>>

HandlerFindsNone(p) ==
    /\ At(p, "handler")
    /\ ~Attested(pass[p].check)
    /\ Goes(p, "error")
    /\ UNCHANGED shared

SayError(p) ==
    /\ At(p, "error")
    /\ Completed(pass[p].check, FALSE, "error")
    /\ Ends(p)
    /\ UNCHANGED <<github, reviews, ledger, spool, counters>>

\* The process dies, or its unit times out.
Crash(p) ==
    /\ ~At(p, "idle")
    /\ Fault
    /\ Ends(p)
    /\ UNCHANGED <<github, checks, reviews, ledger, spool, requests, silences>>

-----------------------------------------------------------------------------
\* The steps a pass takes once GitHub, brain and the judges answer it.
Progress(p) ==
    \/ Reconcile(p) \/ Reconciled(p)
    \/ Select(p) \/ NothingToReview(p) \/ Load(p)
    \/ DecideCarry(p) \/ DecideJudge(p) \/ RefuseCarry(p)
    \/ Close(p) \/ Interrupt(p) \/ CloseDone(p) \/ Skip(p) \/ Uncovered(p)
    \/ StartCheck(p) \/ Judge(p) \/ NoJudge(p) \/ SayNoVerdict(p)
    \/ Attest(p) \/ Publish(p) \/ PostReview(p) \/ Unlabel(p)
    \/ TellUnattested(p) \/ Object(p)
    \/ HandlerLeaves(p) \/ HandlerFindsNone(p) \/ SayError(p)

Failure(p) ==
    \/ ReconcileFails(p) \/ AttestWaits(p)
    \/ PassFails(p) \/ ReviewFails(p) \/ Crash(p)

Next ==
    \/ Push \/ Label
    \/ \E c \in Ids : Age(c)
    \/ \E v \in spool : Replay(v)
    \/ \E p \in Passes : \/ Poll(p) \/ Ask(p) \/ Carry(p)
                         \/ Progress(p) \/ Failure(p)

Spec == Init /\ [][Next]_vars

\* The timer starts a pass after each pass, every call of a pass is bounded
\* by a timeout, and time passes.
Fairness ==
    /\ WF_vars(\E p \in Passes : Poll(p))
    /\ \A p \in Passes : WF_vars(Progress(p))
    /\ WF_vars(\E c \in Ids : Age(c))

FairSpec == Spec /\ Fairness

-----------------------------------------------------------------------------
(***************************************************************************)
(* Properties.                                                             *)
(***************************************************************************)

\* Every variable has its type, a pass past the load names a head, and one past
\* start_check works on a check of it.
TypeOK ==
    /\ head \in Heads
    /\ patch \in [Heads -> Heads]
    /\ labelled \in BOOLEAN
    /\ checks \in Seq(Checks)
    /\ reviews \subseteq [check : Ids, approve : BOOLEAN]
    /\ ledger \subseteq Verdicts
    /\ spool \subseteq Verdicts
    /\ lock \in Passes \cup {NoOne}
    /\ pass \in [Passes -> PassStates]
    /\ requests \in 0..MaxRequests
    /\ silences \in 0..MaxSilences
    /\ faults \in 0..MaxFaults
    /\ \A v \in ledger \cup spool : v.check \in Ids
    /\ \A p \in Passes :
        pass[p].step \notin {"idle", "reconcile", "select", "load"} => pass[p].head # 0
    /\ \A p \in Passes :
        pass[p].step \in {"interrupt", "judge", "silent", "attest", "publish", "review",
                          "unlabel", "tell", "object", "handler", "error"}
          => pass[p].check \in OnHead(pass[p].head)

\* Behind every green check and every approving review there is an approval in the ledger,
\* and a check titled as a verdict shows the one attested for it.
ShownIsAttested ==
    /\ \A c \in Ids : checks[c].green => \E v \in VerdictsOf(c) : v.approve
    /\ \A c \in Ids : checks[c].title = "verdict" =>
         \E v \in VerdictsOf(c) : v.approve = checks[c].green
    /\ \A r \in reviews : r.approve => \E v \in VerdictsOf(r.check) : v.approve

\* A verdict brain confirmed is never denied on GitHub: its check is completed
\* with it or not at all, by no error, interruption or "not attested".
ConfirmedIsNeverDenied ==
    \A v \in ledger : ~v.late => checks[v.check].title \in {"", "verdict"}

\* "GitHub must never show an approval the ledger does not hold", nor deny a
\* verdict it does hold -- whatever failed, died, was carried, reconciled or
\* replayed.
GitHubShowsTheLedger == ShownIsAttested /\ ConfirmedIsNeverDenied

\* A carried approval rests on a judgement: an earlier head with the same
\* patch was judged, not carried, and approved, through any chain of carries.
CarriedRestsOnAJudgement ==
    \A v \in ledger \cup spool : v.source # 0 =>
        \E j \in ledger :
            /\ j.source = 0 /\ j.approve
            /\ checks[j.check].head < checks[v.check].head
            /\ patch[checks[j.check].head] = patch[checks[v.check].head]

\* A head is judged by itself once, and once more after a timeout; each
\* further automatic judgement is owed to a failed call or a death.
RetriesAreOwed ==
    \A h \in Heads : Cardinality({c \in OnHead(h) : checks[c].automatic}) <= 2 + faults

Answered(h) == \E c \in OnHead(h) : checks[c].done /\ checks[c].title # "interrupted"

\* A pass died on the head, and one that took over failed in its turn.
TwiceFailed(h) == faults > 1 /\ \E c \in OnHead(h) : checks[c].title = "interrupted"

\* Once pushes stop, the head gets an answer: a check that says something else
\* than that a pass was interrupted.  One failure, wherever it strikes, costs it
\* none, and any number of failures that leave no check of it interrupted; after
\* a second failure a head with an interrupted check may be left without.  About
\* needs_review, _close_interrupted_checks and the age of a running check.
HeadsAreAnswered == <>[](Answered(head) \/ TwiceFailed(head))

\* A verdict in the ledger does not stay hidden behind a running check.
NoVerdictIsLost == <>[](\A c \in OnHead(head) : Attested(c) => checks[c].done)

=============================================================================
