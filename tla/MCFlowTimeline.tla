--------------------------- MODULE MCFlowTimeline ---------------------------
(***************************************************************************)
(* FlowTimeline on small instances, each varying one thing: the runs that  *)
(* overlap, the reports that come late, the judge, the review, the reads   *)
(* that fail.                                                              *)
(***************************************************************************)
EXTENDS FlowTimeline

Scope == [suites |-> 1, runs |-> {}, late |-> FALSE, posts |-> 0, kinds |-> {"run", "carried"},
          receipts |-> 0, verdicts |-> {}, unread |-> {{}}]

Verdicts(times) == [at : times, final : BOOLEAN, judged : BOOLEAN, carried : BOOLEAN,
                    run : ReviewerRuns]

OneRun == {CHOOSE r \in CiRuns : TRUE}

\* Two runs that overlap, of the CI or of both.
OverlapScopes == {[Scope EXCEPT !.runs = CiRuns], [Scope EXCEPT !.runs = OneRun \cup ReviewerRuns]}

\* A head pushed twice, reports that come late.
LateScopes == {[Scope EXCEPT !.suites = 2, !.runs = OneRun, !.late = TRUE]}

\* A verdict while a run works, and one after another.
JudgeScopes == {[Scope EXCEPT !.runs = OneRun, !.posts = 1], [Scope EXCEPT !.posts = 2]}

\* Reads that fail.
UnreadScopes == {[Scope EXCEPT !.runs = OneRun, !.unread = SUBSET {"suites", "runs", "statuses"}]}

\* Two verdicts of judged rounds beside the reviewer's run, at the merge or before,
\* recorded then or later; and one of any kind and time, that may not be read.
ReviewScopes == {[Scope EXCEPT !.runs = ReviewerRuns, !.receipts = 2,
                               !.verdicts = {v \in Verdicts({Merged - 1, Merged}) : v.judged}],
                 [Scope EXCEPT !.runs = ReviewerRuns, !.receipts = 1, !.verdicts = Verdicts(Ticks),
                               !.unread = {{}, {"ledger"}}]}

FlowScopes == OverlapScopes \cup LateScopes \cup JudgeScopes \cup UnreadScopes \cup ReviewScopes
=============================================================================
