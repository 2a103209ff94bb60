# red-rail in TLA+

red-rail is the delivery rail of a set of repositories: it deploys released
artefacts to hosts under a target lock, drills the rollback, has an independent
reviewer of headless agents judge every pull request, and leaves one attestation
for each of these facts in a shared ledger (`brain`), with write-ahead receipts on
the host when the ledger does not answer. Its commands are short-lived processes
that share a target, a host, a ledger and GitHub, and each of them may die or lose
an answer at any call. This directory models those parts, model-checks them with
TLC and proves the central facts with TLAPS.

- [Inventory](#inventory)
- [The modules and the code](#the-modules-and-the-code)
- [The runs](#the-runs)
- [Fairness](#fairness)
- [The proofs](#the-proofs)
- [Where the code and its documents disagree](#where-the-code-and-its-documents-disagree)
- [What is assumed, and what is not modelled](#what-is-assumed-and-what-is-not-modelled)
- [Plan](#plan)

## Inventory

Paths are under `src/src/rail/`.

| Component | State | Operations | What is hard | What makes it correct |
|---|---|---|---|---|
| Deployment flows: `deploy/flow.py`, `commands/deploy.py`, `commands/drill.py`, `incidents.py` | none of their own: the target, the ledger, a flow's locals | `forward`, `rollback`, `drill`, `Attester.attest` | failures and deaths between a change of the target and its record; two operators; receipts that wait | exit 0 and the newest `deployed` name what is live; every change is accounted for; recoveries name recorded incidents |
| Remote targets: `deploy/remote.py`, `compose.py`, `vps_traefik.py`, `private_compose.py`, `private_systemd.py`, `private_timers.py` | `.deploy.lock`, release directories, `current`, the units systemd loaded, what runs | `apply`: one bash script under the lock, then the verification from outside | an ssh session that dies inside a script, timers that fire beside it, units people edit | scripts never overlap; exit 0 means that the artefact is what runs; no run sees two releases |
| Restore drill: `deploy/restore.py` | disposable containers and a network | one script under the same lock | a command that fails with containers up | nothing is left behind, a result only after removal |
| Ledger and spool: `ledger/brain.py`, `file.py`, `spool.py`, `commands/ledger.py`, `attest.py` | receipt files; brain's rows | `attest`, `replay`, `lookup`, `_settle` | several processes without a lock, lost answers, deaths, keys used again | a receipt for every row, no receipt leaves early, what a command reports stays true, the spool drains |
| File and committed ledgers, sweep: `ledger/file.py`, `committed.py`, `sweep.py` | receipt files in a checkout | `attest`, `mirror`, `sweep` | a sweep cut in two | nothing is lost between checkout and spool |
| Brain client: `brain/client.py`, `settings.py` | a lock, a loop on a thread of its own, one session per label | `call`, `_abandon`, `close`, the finalizer | timeouts, interrupts, abandoned calls, a loop that stops under a caller | no session is shared after a failure, brain is told of every session, every call ends |
| Reviewer passes: `reviewer/service.py`, `github.py`, `carry_verdict.py`, `commands/reviewer.py`, `commands/verdict.py` | `reviewer.lock`, check runs, reviews and labels on GitHub | `run_once`, `once --pr`, `verdict carry`, reconciliation, publication | a pass that dies at any call, two passes on one head, a carry without the lock | GitHub shows nothing the ledger lacks; every head is answered; no verdict is lost |
| Review loop: `reviewer/rounds.py`, `carry.py`, `verdict.py`, `_review_started` and `_finish` of `service.py`, `rail reviewer rule` | the receipts of a pull request | three rounds, rulings, closure, carry-forwards | replays, carried verdicts, moved heads, edited bodies, stale prompts | ids name one finding; blockers are fixed or owed; no judge before the rulings |
| Judges: `reviewer/judges.py`, `policy.py`, `split.py`, `headers.py`, `records.py`, `delegation.py`, the chain and the merge of `service.py` | the quota memory of a host | the walk of a chain, disputes and arbitration, pieces, merge, receipt | judges that fail one by one, that disagree, that saw different parts of a change; a quota that runs out | a verdict speaks for what was read; earlier findings move on sight only; a spent provider is asked again in time |
| Release: `release.py`, `commands/release.py`, `gitrepo.py` | tags of each clone, of origin and of the mirror, images, one record a version | `release`, run again until it is done | failures after the tag is pushed, two clones, rebuilt images, a docker daemon they share | what is attested is what was published; a tag ends in a release |
| Gates: `gates/*.py`, `commands/check.py` | none | predicates over checkout, ledger, monitor | stale evidence | green only on evidence |
| Delivery metrics: `metrics.py`, `metrics_contract.py`, `autonomy.py`, `publish.py`, `monitor.py`, `serve.py` | none | aggregations over the ledger | records of several flows, killed, waiting, replayed late | what failed is counted, once and truly; drills count for nothing but themselves |
| Flow timelines: `flow.py`, `flow_cache.py`, `flow_publish.py`, `flow_sources.py` | a file cache | intervals from events, a publication a run | overlapping runs, runs over the merge, late reports, reads that fail | a complete entry is the truth; what was published from one is never taken back |
| Contracts and acceptance: `commands/contract.py`, `bind.py`, `accept.py`, `contract_guard.py` | the ticket on brain: revisions, bindings, integrations, acceptance | `contract set`, `bind`, `accept` | lost answers, repeated commands, two operators, two pull requests in flight | each command records its request once; the integration counted is of the contract that holds |
| Scaffolding, configuration: the rest | none | one call each | | |

They meet in four places. A deployment flow and the reviewer write through the
ledger; the ledger falls back on the spool every checkout of a project shares on a
host; the metrics, the gates and the next flow read the ledger back; the reviewer
decides the next step of a pull request from nothing but the receipts of its
earlier verdicts and rulings; all of them reach brain through one session pool. So most of what can go wrong is one process acting on
what it read while another one, or a replay, changes it. The hazards are listed in
`PROJECT.json`, each at the line where it bites, with the properties that cover it.

## The modules and the code

### DeployFlow

`forward`, `rollback` and `drill` against one target and one ledger, by any number
of operators. Each operator walks through *stages*, which are the consecutive
`apply` and `attest` calls of the flow: `OnSuccess`, `OnFailure` and `Emissions`
are the table of what follows what and of which record is written, so a reader can
compare them with `flow.py` call by call. Inside an apply stage, `phase` separates
what `remote.py` does: try the lock (`TakeLock`, `FindLocked`), run the script that
changes the target (`Switch`), end it (`ScriptEnds`, the lock goes with the ssh
session), verify from outside without the lock (`Verified`). `ApplyFails` is a
`DeployError` at any of these points: what the script changed stays changed.

`Attester.attest` is four actions: recorded; refused or answered too late, and the
receipt waits (`AttestWaits`); refused with no receipt (`AttestFails`); and the
first attestation of a flow whose read of the ledger fails outside the handler
(`AttestAborts`). `OpenIncidents` is `match_recoveries` of `incidents.py`, which
both the flows and the metrics use, written as a recursive function over the
stamps. `Report` is the exit code of the command. The restore drill is a flow of its
own: its guards on the ledger (`RestoreRefuses`), the script under the same lock, one
`restored` with mode `restore`; its script is in `RemoteScripts`.

### EvidenceLedger and SpoolLedger

`EvidenceLedger` is the promise: a receipt is owed from the moment it is written
until the shared ledger holds its key and kind; the ledger holds nothing that was
not owed first, one row per key, and forgets nothing. `SpoolLedger` is
`BrainLedger.attest` and `replay` over the files of `FileLedger`, one file
operation or one call to brain a step, with any number of commands and no lock:
`CheckFinds*` and `Write` are the read-then-write of `FileLedger._append`, `Call*`
is `brain_delivery_attest`, `Lookup*` is the listing before a replay and after a
reused key, `Settle` and `Unlink` take the receipt out. It implements the promise
under `owed <- spool, held <- brain` (property `EvidenceIsKept`, theorem
`EvidenceRefined`). brain is external and modelled as the code and
`tests/fake_brain.py` use it.

### ReviewerPass

The passes of the reviewer over one pull request. A process walks through `step`:
take the host lock and list the ledger (`Poll`, `Ask`), publish verdicts whose
completion was lost (`Reconcile`), select (`NeedsReview` is `needs_review`), load,
decide to carry or to judge, close interrupted checks (`Close`, `Interrupt`), skip
a covered head (`Covered` is `_skip_covered_head`), start a check, judge, attest,
and only then complete the check, post the review, drop the label. Every one of
those is a call that may fail before or after its effect (`PassFails`,
`ReviewFails`, through `Effect`), and the process may die between any two.
`rail verdict carry` takes no host lock (`Carriers`). What the judges say is a
free choice here. A poll that selects a head whose rerun label is already there walks
on as one that was asked for (`mode`): a label posted between two reads of a poll is
a judgement somebody wanted, which `RetriesAreOwed` does not count.

### ReviewLoop

What the receipts of a pull request decide. `receipts` is the sequence of verdicts
and rulings by instant of emission, `listed` those the ledger lists. The operators
`Rounds`, `Latest`, `RulingsOn`, `Awaiting`, `ConfirmedIn`, `HighestId`, `Unruled`
and `NextStep` are `loop_state` and `next_step`, each over a set of receipts, so
that a pass evaluates them on what it read (`pass.seen`) and a ruler on what is
listed at the prompt. `Assigned`, `NewClass`, `Reconciled`, `NumberedGaps`,
`Capped`, `Ruled` and `Finished` are `assign`, `enforce_class` with
`demote_outside`, `carry.reconcile`, `append_new`, `_capped`, `apply_rulings` and
`_finish`. One action per way a pass ends: `JudgeForm`, `Await`,
`CloseWithoutJudge`, `JudgeRound`, `EndWithoutVerdict`; `Carry` copies an approval
to a new head. Between the read and the publication of a pass come pushes, edits
of the body, replays, carry-forwards that other pull requests open, and rulings whose
prompt was shown earlier (`ShowFinding`, then `Rule`). The gate
`review.carry_forward` reads the receipts the loop leaves.

`bounds` is a variable chosen at the start and never changed: it holds the bounds of the
behaviour and what its world may do. It lets one run cover several small worlds in place
of one large product. `scope` is the same in `DeployFlow`, `Release`, `RemoteScripts`,
`JudgeChain`, `Delivery`, `BrainSession`, `FlowTimeline` and `DeliveryTicket`.

What the loop promises has exceptions, which the properties name. A verdict that waited in
the spool (`late`) was not known to the passes before its replay: `InTime` and
`GivenToAGap` leave out what such a verdict can still upset. `CarriedOver` is an older
approval that an operator's own pass carried over a judgement. Each was met as a
counterexample (below).

### JudgeChain

What `ReviewLoop` takes as one reply: one judging of a change. `Chain` is `chain_for`
of the policy, `Pieces` is `split_diff`, `Shown` the prefix of a piece that fits the
prompt of a provider. What is in an order in the code (the chain, the files of a
piece) is a set here and the order is the `Position` in the policy or in the diff, so
that the walk and the prompt can be reasoned about: `Turn` is the first of those who
wait, `tried` who was asked. `ScopeAssumption` says which scopes are changes at all. A walk of the chain (`Unaskable`, `Judge`, `PrimaryFails`) asks
providers in order until it has the replies it wants; `PieceEnds`, `LightEnds` and
`DeepEnds` are `_review_started` between walks: the next piece, the arbitration of two
light judges that disagree, or nothing more to ask. `Admissible` drops what a judge
says of places it was not shown, `Merged` is `_merge`, `Conclude` writes the receipt.
An earlier finding has a class: a change has those that block (`blocking`) and those that
are notes or carry-forwards, and only an open blocker stops an approval, as in
`rounds.approves`.
The quota memory of the metered provider outlives a review: `until` is its file,
`Tick` the host's clock, `Again` the next review. A diff is a sequence of files, a file
a number of hunks; what a judge was really shown is kept beside what it says, so that
a property can compare the two.

### Delivery

`Delivery` extends `DeployFlow`: the same flows, and beside their ledger the history
of what really happened (`went`, `fell`, `began`, `drilled`, noted by `Witness` as the
flows step). `DeliveryWindow` and `DeliveryWindowV2` are the two windows of
`metrics.py`, `DrillRecoveries` its measure of drills, `DrillGate` the gate
`observe.drill`, each an operator on a set of records. So the properties compare what
is computed from the ledger with what happened, over every ledger the flows can leave.
`Settled` is a state in which they can be compared: one operator, whose commands have
ended and whose receipts have all arrived.

### BrainSession

The session pool. Threads call or close (`Ask`, `Call`, `Returns`, `GivesUp`,
`Interrupt`, `Close`, `Stops`, `Joins`) under one lock; the loop runs its handles in
order, each up to the next await (`RunHandle`: `StartCall`, `Cancel`, `Discard`,
`CloseSessions`, `Stop`); a task that awaits brain is `parked` until brain answers
(`Opened`, `Answers`, `Closed`), if it ever does. `Collected` is the finalizer of a
private pool's client, run on the thread of the loop. `used` records what was sent
on which session, `open` what brain holds, `cut` what it will hold for ever.

### FlowTimeline

`Timeline` is `compute_timeline` with the union of intervals (sorted, then merged in turn
by the recursive function of `UnionMinutes`), the judge's statuses and the facts of the
ledger; `GitHubEvidence` is what was read of the head, a source that could not be read
being empty and named in `unread`; `IsComplete` is the cache's rule, and `Begin`, `Publish` and
`Lose` are publications with reads that fail and a cache that is lost. `Receive` records
a verdict with the instant of its emission, so one that waited in the spool appears in the
ledger later, at the earlier instant; `read` is what the last publication read of them.
Around them is
the truth: when the runs of the final head really started and ended, and what GitHub
has reported of them so far (`Tells`). `IdleTicks`, `TrueCi` and `TrueReview` are the
reference the timeline of a complete entry is compared with.

### DeliveryTicket

`rail contract set`, `bind` and `accept`, call by call: the listing, the head GitHub
reports, the view of the ticket, then the write. `Sets`, `Binds` and `Accepts` are what
brain does with a write, which is external and follows `tests/fake_brain.py` and the
docstrings of `ledger/brain.py`; `AnswerLost` is a write whose answer never comes,
`Fails` a call that fails before it. `Listed` is `_milestone_records` over the one page of
the history that is read (`OnThePage`, the constant `HISTORY`), and `IntegrateGate` the
gate `integrate.receipt` in a checkout: it walks what is listed newest first, passes over
commits of another line, and stops at a proof that names no commit. Beside the receipts
is the history of the merges themselves (`merges`), with which a property compares the
gate.

### Release

`rail release` in several clones, on one host or several. A command walks through
`pc`: `Start` and `AskOrigin` are what preflight measures (the commit, the local tag,
the tag on origin, one read after the other), then one step for each command that
changes something: `Built`, `Pushed`, `Tagged`, `OriginPushed`, `MirrorPushed`,
`Spooled`, `Call`, with `Inspect` between the push and the tag. `Effect` is what a
step does outside its process and `StepFails` is a failure or a death before it or
after it; the refusals of git (`OriginRefuses`, `MirrorRefuses`), of the spool
(`KeyIsTaken`) and of brain (inside `Call`) end the command with exit 1. `RunAgain` is
the operator who follows the error message. A digest is the manifest it names, and a
manifest remembers its commit, so a property can compare what is attested with what
was built. git's part is external: tags are objects of the clone that made them, a
push never replaces one, and `git fetch origin main` brings none.

### RemoteScripts

The bash scripts of `deploy/compose.py`, `private_systemd.py`, `private_timers.py` and
`restore.py`, one command a step. `Scripts` is the table of the commands of each shape
in order, so a reader can lay it beside `remote_script`; each command that does
something to the host is an action (`Write`, `Create`, `Copy`, `Aside`, `Place`,
`Switch`, `Reload`, `Loaded`, `Restart`, `Active`, `Up`, `Check` at both its places,
`Restores`, `Clean`), `CommandFails` is `set -e`, `Trap` and `Exit` are the EXIT trap on
either way out, `Kill` is a session that dies. The host has its own actions between
two commands: timers that fire, runs that end, a service that dies, units with a
drop-in (`Override`), a reboot. `loaded` is what systemd read at the last reload,
`switches` how often a script moved `current`, `left` what ended scripts have left on the
host: the traps ignore the failure of `docker rm` and `docker network rm`, and `docker
create` may fail once its container is made, each in the scopes that say so (`docker`);
`releases` what each release directory holds, `current` the link; a run remembers the
release it started from, the command a script was at (`during`), and whether a second
release came under its paths (`mixed`).

The flows are those of `DeployFlow` reduced to what a script needs: which artefact it
applies, what comes after it ends, and the mode of the `deployed` record. `Visible` is
the gate `observe.visible` for private-timers over that ledger and that host.
`LiveChangesUnderTheLock` is the link back: what answers from outside changes only
under the lock and only to what the script applies, which is how `DeployFlow` takes it.

### Proofs, instances and mutants

`DeployFlow_proofs` (which holds those of `Delivery` too), `Records_proofs` (of
`SpoolLedger` and `FlowTimeline`), `Release_proofs`, `DeliveryTicket_proofs`, `ReviewerPass_proofs`, `BrainSession_proofs`,
`RemoteScripts_proofs` and `Review_proofs` (of `JudgeChain` and `ReviewLoop`) hold the
theorems. The `MC` modules extend the specifications for TLC. A definition named `Faulty...` is a plausible
mistake in the definition that follows it; no specification uses one, each is there
to show that a property notices the mistake.

## The runs

All passing runs are exhaustive.

| Run | Asks | Distinct states |
|---|---|---|
| `deployments` | Seven scopes: deaths with four flows; refused and lost attestations; outages, unreadable ledgers and deaths, two by two and all three; restore drills; two operators at the lock. Is every change recorded that the code means to record, is every `deployed` and `rolled_back` true when it is written, does exit 0 mean that the ledger names what is live, does every `restored` name a recorded incident, does a release close every incident? | 1.3 million |
| `delivery` | The flows with the metrics and the drill gate read from their ledger: two operators who race; one whose releases fail or whose receipts wait; one whose drills die, with releases and restore drills between. Do scripts stay apart and commands end, are failures counted once and truly, is a drill measured alone, is the gate green exactly when it is earned? | 339 thousand |
| `spool` | Two commands, two kinds, two payloads and two instants under one key, two failures: truth of outcomes, refinement of the promise, and draining | 470 thousand |
| `reviewer_passes` | A pass and an unlocked carry, two heads, a label, two silent judgements; two failures anywhere, or one beside a request: does GitHub show the ledger, do carries rest on a judgement, are retries owed, is every head answered where no two steps failed on it, is no verdict lost? | 1.9 million |
| `review_loop` | Nine scopes of one pull request: rounds and closures with moving heads; specifications; carry-forwards of others with an edited body, and opened meanwhile; waiting receipts; heads of records only; a change from specification to code; passes over judged heads. Do ids keep their finding, do blockers stay on the books, does no judge read before the rulings, is every approval accounted for? | 1.1 million |
| `judges` | Disputes with and without a third judge; earlier findings and new claims at places that are shown, cut, elsewhere, ambiguous or under unreadable headers, in pieces or in one prompt; three reviews over a quota that runs out. Do earlier findings move on sight only and blockers stop an approval, are dissents answered, do receipts name what was not read, do limits expire? | 1.4 million |
| `release` | Two clones of one version in four scopes: two hosts while main moves; a mirror and two failures; one host and its docker, while main stands and while it moves. Is what is attested what was published, does exit 0 stay true, and does a tag on origin end in a release? | 1.6 million |
| `remote_scripts` | Thirteen scopes of one host: two operators and dying sessions; a reboot; edited units; an edited manifest; every flow on timers; systemd with all of it; compose; restore drills; each removal of docker that a trap lets fail, and a failing `docker create` that made its container. Is what a script that exits 0 applied what runs, can an earlier run see two releases, is anything left but what docker kept, is the gate green on a run that a delivery found or overtook? | 4.4 million |
| `brain_session` | Two threads and two labels in three scopes: interrupted callers; a private pool whose client is collected; a thread that does not start. Is a session shared after a failure, is one cut off, does every call end? | 1.0 million |
| `flow_timelines` | One merged pull request published again and again in eight scopes: overlapping runs, late reports, the judge's statuses, failed reads, receipts of the review, also those that reach the ledger late. Is a complete entry the truth, is what it said ever taken back but for a verdict that came late? | 2.2 million |
| `tickets` | One operator whose calls fail, with one pull request in flight, and with two and proofs that name no commit; two operators at once; three pull requests, more than a page of the history holds. Does each command record its request once, is the integration the gate counts of the contract that holds, and does the gate know one no further back than a page? | 1.6 million |

One more run, `unread_piece_divergence`, shows a disagreement (below).

Why the bounds are enough for what they ask:

- *Artefacts*: two. The flows compare a digest with one other digest only (live and
  previous). *Flows*: two to four, so that a third flow meets incidents left by
  two earlier ones, which is where named and unnamed recoveries differ; two where
  outages, errors and deaths all occur in one behaviour.
  `DeploymentsAreRecorded` is the part of `EveryChangeIsRecorded` the code keeps:
  deployments and rollbacks that die nowhere and read their ledger.
- *Delivery*: the same, and every window that starts at a stamp. The exact counts are
  claimed of one operator whose receipts have all arrived (`Settled`), since two
  operators can record in the other order than they ran.
- *Spool*: one key, since keys do not interact; two of each other attribute, which
  is all that an equality test tells apart. Two attestations and two failures put a
  lost answer and a death in one behaviour.
- *Reviewer*: two heads for a carry, one of every request; `MaxFaults` 2 so that a step
  fails while the work of an earlier failure is made good, `MaxEvents` 2 so that the
  failures and the requests together are two. A head that keeps an interrupted check
  after a second failure may never be answered (below): `HeadsAreAnswered` names that
  case (`TwiceFailed`) and leaves it out, and `EveryHeadIsAnswered`, in no run, is the
  statement without it, which TLC refutes. The three safety properties are proved for
  every bound.
- *Loop*: four or five verdicts, so that round 3, a ruling and the closure (and in
  the first scope a second closure) all occur. `MaxFindings` is 2 where the code has
  100, so that a full list drops closed findings; `MaxIds` (4) bounds the
  findings numbered: a verdict that would number a fifth ends the behaviour.
- *Judges*: four providers, one of them metered, so that an arbitration may or may not
  find a judge that has not taken side; one to three files of one or two hunks, so that
  a place is in the prompt, beyond a cut, in another piece or in no file of the diff.
  The reply is any of the sayings of the scope, about places it was shown or not.
- *Sessions*: two threads, so that one waits for the lock another holds; three
  requests, so that one follows an abandoned one on the same label; two labels, so that
  a close has a second session to close while it awaits the first.
- *Timelines*: a clock of five ticks around the merge, two CI runs and one of the
  reviewer, two suites, two statuses and two receipts, each set in the scopes that can
  tell them apart. A receipt is emitted at any tick (where there are two, at the merge or
  the tick before it), on the final head or an earlier one, of a judged round or not,
  carried or not, and recorded at its tick or at any later one.
- *Ticket*: two contracts, so that an amendment may go back to a former one; two pull
  requests; five or six commands and up to two failures, enough for a set, an
  amendment, a bind and a merge with a repeated command between them. A page of the
  history holds two receipts (`HISTORY`) where the code has 50, so that a third merge, or
  a second and an acceptance, pushes one off it; in one scope a proof may name no commit.
- *Release*: one version, since versions share nothing the model keeps; two clones;
  two commits, so that one clone is a commit behind; two builds, so that a rebuilt
  image can differ; one or two failures, runs repeated without bound. The clones have a
  host each or share one, and main stands or moves in both cases.
- *Scripts*: two artefacts, the second of which adds a unit, so that a rollback drops
  one and a put-back can be refused; two or three flows, so that a script meets what
  an earlier one left, also in its own release directory. One or two operators: a
  second one matters only for the lock and for a script that died. What docker may refuse
  to remove is one object a scope, so that the removals after it are seen to go on.

Every property of a passing run has a mutant in `PROJECT.json`: the definition and
the faulty form that makes TLC find the property violated.

Deadlock is not checked in any run: commands are started by people and timers, and
bounded behaviours end.

## Fairness

- `DeployFlow`: weak fairness of `Progress(o)`, the steps of a running command. The
  code bounds every wait: the ssh session (`remote_timeout`), the health check
  (`healthcheck_timeout`), each HTTP request, each call to brain
  (`CALL_TIMEOUT_SECONDS`); the lock is tried with `flock -n`, never waited for.
- `SpoolLedger`: the same for a command, and weak fairness of starting a replay:
  `Unattested` tells the operator to run it, and `hygiene.mirrors` stays red while
  receipts wait. `SpoolDrains` is a statement about operators who do so.
- `ReviewerPass`: the timer starts a pass after each pass, every call is bounded,
  and time passes (`Age`: a check nobody works on becomes stale). No fairness is
  assumed of pushes, labels, replays or people.
- `Release`: the same for a running command (each is a subprocess that ends), and weak
  fairness of running a release again while its tag is on origin at the head of main
  and no receipt of it exists, as the command's errors ask for.
- `Delivery`: that of `DeployFlow`, over the flows and the history together.
- `BrainSession`: weak fairness of the loop's next handle and of each thread, since the
  operating system runs both. None of brain, which may stay silent for ever: that every
  call still ends is the point of its timeouts. Nobody owes an interrupt, a call or the
  collection of a client.
- The other modules state safety only. That a script ends rests on the timeout of its
  session, which is `EveryCommandEnds`; a judging, a publication and a command of the
  ticket are finite sequences of calls with timeouts.

## The proofs

`tlapm` checks every step of the eight proof modules. The theorems hold
for every set of operators, artefacts, processes, keys, kinds and payloads, and for
every bound. The assumptions are `ConstantsAssumption` and `OperatorAssumption`
(`Nothing` and `Down` are no artefact and no operator), `SpoolAssumption`
(instants are numbers, `NoReceipt` is no receipt), `AbsentAssumption` of `Release`
(`Absent` is no tag, image, plan or receipt) and of `FlowTimeline` (it is no number, no
interval, no run and no truth value), `TimesAssumption` (a pull request is created before
it is merged, and the maturity is at least a tick), `VerdictsAssumption` (what the verdicts
of a scope are made of), `ScopesAssumption` of `Release` (the same of a scope: clones, hosts
and bounds, whichever they are), `ScopesAssumption` of `DeliveryTicket` (the operators and
pull requests of a scope are among those there are, and a proof names its commit or none),
its `HistoryAssumption` (a page holds something), `PassesAssumption` of `ReviewerPass` (the bounds are
numbers, the holder of a free lock is no pass), the three of `BrainSession` (the
threads are finitely many and the holder of a free lock is none of them, there is a
label, the bound is a number), `HostAssumption` of `RemoteScripts` (a manifest
declares jobs of the host, `Nothing` is no operator and no artefact), `LoopAssumption` of
`ReviewLoop` (agents are rulers, the carry-forwards of others are finitely many, a pull
request has a head, the limits are numbers), and `ChainAssumption` and `ScopeAssumption` of `JudgeChain` (the policy is a sequence of
providers, the metered one among them, and delays are numbers; a change is a sequence of
distinct files of at least one hunk each, and the place of an earlier finding in a file of
the change is one of its hunks or none). None restricts what the world may do: where a
property holds in a part of the worlds only, the property says so (`NamesAreOwn` in those
of `Release`, the edits of the manifest in the gate of `RemoteScripts`).

| Theorem | Says |
|---|---|
| `DeployFlow_proofs!TypeCorrect` | `Spec => []TypeOK` |
| `DeployFlow_proofs!MutualExclusion` | `Spec => []OneScriptAtATime` |
| `DeployFlow_proofs!RecoveriesAreEvidenced` | `Spec => []RestoredNamesARecordedIncident` |
| `DeployFlow_proofs!ChangesAreRecorded` | `Spec => []DeploymentsAreRecorded` |
| `DeployFlow_proofs!ExitOkIsEarned` | `Spec => []ExitOkNamesLive` |
| `DeployFlow_proofs!RecordsAreTrue` | `Spec => RecordsAreTrueWhenWritten` |
| `DeployFlow_proofs!ReleasesClose` | `Spec => ReleaseClosesEveryIncident` |
| `DeployFlow_proofs!DeliveryExcludes` | `DeliverySpec => []OneScriptAtATime` |
| `DeployFlow_proofs!DrillGateEarned` | `DeliverySpec => []DrillGateIsEarned` |
| `DeployFlow_proofs!RollbackDrillsMeasured` | `DeliverySpec => []RollbackDrillsAreMeasuredAlone` |
| `DeployFlow_proofs!FailuresCounted` | `DeliverySpec => []FailuresAreCounted` |
| `Records_proofs!TypeCorrect` | `Spec => []TypeOK` |
| `Records_proofs!OutcomesStayTrue` | `Spec => []OutcomesAreTrue` |
| `Records_proofs!EvidenceRefined` | `Spec => EvidenceIsKept` |
| `Records_proofs!SettledStays` | `FlowSpec => SettledSegmentsNeverChange` |
| `Records_proofs!FinalTimelines` | `FlowSpec => []FinalTimelinesAreTrue` |
| `Release_proofs!TypeCorrect` | `Spec => []TypeOK` |
| `Release_proofs!WhatIsAttestedIsPublished` | `Spec => []ReleasesAreTrue` |
| `Release_proofs!MirrorIsBehind` | `Spec => []MirrorFollowsOrigin` |
| `Release_proofs!ImageBeforeTag` | `Spec => []TaggedHasAnImage` |
| `Release_proofs!ExitStaysTrue` | `Spec => []ExitTellsTheRelease` |
| `DeliveryTicket_proofs!TypeCorrect` | `Spec => []TypeOK` |
| `DeliveryTicket_proofs!GateIsOfTheContract` | `Spec => []IntegrationIsOfTheContract` |
| `DeliveryTicket_proofs!CommandsAreRecordedOnce` | `Spec => []CommandsRecordOnce` |
| `ReviewerPass_proofs!TypeCorrect` | `Spec => []TypeOK` |
| `ReviewerPass_proofs!LedgerFirst` | `Spec => []GitHubShowsTheLedger` |
| `ReviewerPass_proofs!CarriesAreJudged` | `Spec => []CarriedRestsOnAJudgement` |
| `ReviewerPass_proofs!NoEndlessRetries` | `Spec => []RetriesAreOwed` |
| `BrainSession_proofs!TypeCorrect` | `Spec => []TypeOK` |
| `BrainSession_proofs!AbandonedIsNotShared` | `Spec => []SessionsAreNotShared` |
| `BrainSession_proofs!LoopsLeaveNoSession` | `Spec => [](~scope.exits => SessionsAreReleased)` |
| `Review_proofs!TypeCorrect` | `Spec => []TypeOK` |
| `Review_proofs!QuotaMemoryExpires` | `Spec => []LimitsExpire` |
| `Review_proofs!NoDissentIsLost` | `Spec => []DissentsAreAnswered` |
| `Review_proofs!UnreadIsNamed` | `Spec => []ReceiptsNameWhatWasNotRead` |
| `Review_proofs!FindingsMoveOnSight` | `Spec => []EarlierFindingsMoveOnSight` |
| `Review_proofs!LoopTypeCorrect` | `LoopSpec => []LoopTypeOK` |
| `Review_proofs!IdsAreStable` | `LoopSpec => []IdsNameOneFinding` |
| `Review_proofs!RulingsComeFirst` | `LoopSpec => []NoJudgeBeforeTheRulings` |
| `Review_proofs!BlockersStayOnTheBooks` | `LoopSpec => []BlockersAreFixedOrOwed` |
| `Review_proofs!ApprovalsAccount` | `LoopSpec => []ApprovalsAccountForCarryForwards` |
| `RemoteScripts_proofs!TypeCorrect` | `Spec => []TypeOK` |
| `RemoteScripts_proofs!ExitMeansLive` | `Spec => []AppliedIsLive` |
| `RemoteScripts_proofs!TrapsClean` | `Spec => []NothingIsLeftBehind` |
| `RemoteScripts_proofs!ChecksSeeEarlierRuns` | `Spec => EarlierRunsAreNeverMixed` |
| `RemoteScripts_proofs!GreenRunsAreOfTheDelivery` | `Spec => []VisibleRunsAreOfTheDelivery` |

The type invariants are proved and in no run; `MirrorIsBehind` and `ImageBeforeTag`
are steps of the argument for `Release` and are in no run either. The `TypeOK` of the
modules without proofs says what their variables hold, and is no property of a run.

**DeployFlow.** `OneScriptAtATime` is inductive together with `TypeOK`: the lock is
taken only when free, and each way out of a script gives it back.
`RestoredNamesARecordedIncident` is not. A `restored` names a stamp the flow has
carried since it started or since its own incident, so the invariant must say that
these stamps were already incidents of the ledger (`NamesKnown`), that every stamp
lies before the clock so that the order of records is that of emission
(`StampsPast`), and that a stage which puts an artefact back has one
(`ArtefactsAtHand`), without which the record written would have no type. `IInv` is
their conjunction; each action has a step, the actions of one shape share a lemma
(`FlowChange`, `FlowEnds`, `AttestKeeps`).

What one operator may count on is a second invariant over the first, `SoleInv`, which
follows a flow through its stages: `Serves` (a stage that records a digest is reached with
that digest live), `Tracks` (where the newest `deployed`, waiting ones included, names what
is live, or an incident is newer than it: what `DeploymentsAreRecorded` needs) and
`Settles` (where exit 0 is still possible, the `deployed` that earns it is in the ledger and
newer than every other, so that no replay overtakes it). `EmissionsTable`,
`NextsTable` and `NextStageIs` lay the walk out once, so that each action argues about its
own stage only. `ExitOkNamesLive` leaves restore drills out: their exit code says nothing of
the deployment before them, and TLC finds one that ends well over a deployment that did not.

`ReleaseClosesEveryIncident` is about `OpenIncidents`, a recursive function over the whole
ledger. Its values are reasoned about without an induction over data: a *run* of the
recursion is a function that agrees with its equation on a prefix of the ledger. That a run
exists for every prefix, that two agree and that one rests on earlier records only are each
proved by the least counterexample (`RunExists`, `RunsAgree`, `RunRests`), and
`OpenAfterARecord` says what a record in last place does to the open incidents. `OpenInv` is
then short: what a forward still has to close is what the ledger holds open, since a brain
that answers leaves nothing waiting.

**FlowTimeline.** The invariant `FlowInv` says what a complete entry knows. Once the
clock is past `Merged + Maturity` and every run begun before the merge is told completed
(`EarlyDone`), nothing that counts of the head can happen any more (`PastStays`): no push, status
or run can appear before the merge. A receipt can, when it waited in the spool. The
invariant therefore keeps the ledger apart: what is published is the timeline of the truth
with the facts of what was `read` of it, or of a ledger that was not read, and what was
read is still held. Two readings of the same receipts agree on the segments of the review;
after one that came late they need not, which is the exception `CameLate` of
`SettledSegmentsNeverChange`, for the three segments of the review only. A complete entry was read then, every source
of it (`Whole`), and it `Agrees` with `TrueEvidence`, the reading that tells all that
began before the merge, though the two may differ on what was run again after it. That a
*late* start or end cannot be missing from a complete entry is `CompleteIsDone`; it needs
`AllTold`, GitHub's promise at the maturity. `TimelinesAgree` says that readings that
agree give the same segments, or one that was not read gives `Absent`: `SettledStays` is
that, between what was published and the truth. `FinalTimelines` compares the timeline of
the truth with the history. Its hard segment is `idle`: that a sorted sequence of the
intervals exists (`SortExists`), that the recursive function of the merge is defined
along it (`MergeExists`), and that after each interval what it counted is the number of
ticks covered so far (`MergesHold`), each by the least counterexample, so that
`UnionCounts` holds without an induction over data. Nothing bounds the runs: the
intervals between a push and the merge are finitely many whatever the runs are.

**Delivery.** A behaviour of `Delivery` is one of `DeployFlow` (`DeliveryIsDeployFlow`), so
its invariants hold there as well. Each property compares the ledger with the history, and
its invariant says where the two differ while a flow runs. `GateInv`: the drills noted since
the newest release are the ones the records prove; it needs that nothing is drilled or put
back before a first release (`Founded`). `DrillInv`: between the beginning of a drill and its
recovery stands its incident. `CountInv`: what went live and what fell stands in the
records, but for the event a flow is about to attest (`Pending`), and what a failure blames
fell before it. That two records never share a stamp (`StampsDiffer`) makes counting records
and counting events the same, over a finite history (`FiniteWent`).

**SpoolLedger.** What one command told its caller is at the mercy of all the others.
The argument has two layers. `LedgerStep` lists the four things any step may do to
the spool and to brain; `LedgerKeeps` shows that under them brain forgets nothing,
one row per key is kept, and a receipt that is safe (it waits, or brain holds its
key) stays safe. `ReceiptsKnown` says what a command knows at each step about the
receipt in its hands, and `ToldTrue` restates the outcomes in terms that only a
`LedgerStep` can disturb; both are stable because they speak of safe receipts and
held rows. The refinement of `EvidenceLedger` is then `LedgerStep` read step by step.

**Release.** Nothing published is taken back: `WorldKeeps` is all a step may do to
tags, registry and ledger. `Knows` is what a running command knows at each step (its
plan names tags that exist, the daemon still names its image, its digest is
published, origin names its commit), `ToldTrue` what its exit code said, both in
terms that `WorldKeeps` leaves true (`KnowsStays`, `ToldStays`). `IInv` adds that
every receipt is true. Each action then owes only what it adds (`Assemble`). The one
fact that is not monotone is docker's name, which another clone of the host may take over
between a build and its push. That a daemon still names an image of the commit of the plan
needs `NamesAreOwn` (`BuildKeeps`); that it names an image of the version, that what is
attested is in the registry, and its commit behind the tag on origin, does not, and is
proved for clones on one host while main moves as well.

**DeliveryTicket.** The gate speaks of what brain lists, the property of the merges
that happened. The invariant ties them: the merges and the receipts are two sequences in
step, each receipt of the merge at its place, under its revision, and of its commit where it
names one (`MergesAreObserved`), a receipt tells of its revision
what brain holds of it (`ReceiptsTellTheContract`), the receipt not superseded is of the
contract that holds (`CurrentIsOfTheContract`), and nothing is bound before there is a
contract (`BoundUnderAContract`), which has to look into the calls on their way.
Then a listed receipt on the history of a checkout is of a merge that is (`ListedIsMerged`),
and a merge that is `Traced` is on the page and hidden by no later proof.
`CommandsRecordOnce` adds the commands. `WatchInv` says of each what it is about to
record and what it told its caller, as far as the other operators cannot change it: a
ticket once accepted is neither amended nor accepted again, and a version brain has
passed stays passed (`LedgerSteps` is all a step may do to the ticket). `AloneInv` is the
rest, for an operator who is alone with the ticket: what a command read still holds when
it records, since nothing moves between its calls but what GitHub does, and the merge it
accepts on stays one of the contract that holds (`MergeGoesOn`).

**ReviewerPass.** What GitHub shows is at the mercy of every pass, carry and replay, and
a pass acts on what it read steps earlier. `Knows` says what a pass may still count on
at each step: its receipts are rows of the ledger; the check it works on is young; what
it is about to deny is not confirmed; what it is about to show is in the ledger; the
approval it carries rests on a judgement of the patch of its head. `Apart` says that no
two passes work on one check (two may both be retiring one stale check, which is why
`Knows` says more of that step than of the others). `StepKeeps` is all a step may do to
what the passes share, `Concludes` and `Records` being its parts about check runs and
rows, and `OthersKnow` shows that under it everyone else's knowledge stays; each step
then owes only what its own pass knows. That a row another pass confirms cannot be the
one this pass denies is `Apart` for young checks, and the age of the check for stale
ones. `CarriesAreJudged` follows the chain of carries one link a step, so that its
length needs no induction; that the greatest of a bounded set exists is taken from the
well-foundedness of the natural numbers (`GreatestIn`).

`RetriesAreOwed` counts. `OwedInv` is the account: the checks that nobody works on and that
are not done are owed to failed calls and deaths, one each (`Orphans`), and a pass that is to
open a check by itself still has room for it (`Room`): the head it selected has at most one
check more than there were failures. The pass holds the lock from its selection on
(`Holds`), so no second one spends the same room.

**BrainSession.** The property looks back at what was sent; what keeps it is the order of
the loop's queue. Requests are numbered under the lock and queued in that order
(`QueueInOrder`), so a queued call is newer than all that was stored or sent
(`CallsAreNew`). `CallsAreOwned` is the core: a call that is neither answered nor refused,
wherever it is (queued, in a task, or sent on a session the pool still stores), has its
caller waiting with the lock, or a discard of its session on the queue, behind the cancel
while it can still act. A later call is queued behind that discard, so it never finds the
session. `SessionsAreOwn` keeps sessions of two labels apart, and `StopsAreLast` says that
nothing of a call is queued behind what stops the loop, which empties the queue. Each
action appends to the queue (`TakesKeeps`, `AbandonKeeps`, `StopsKeeps`), pops it
(`ShrinksKeep`, for all that starts or sends nothing) or leaves it alone (`QuietKeeps`).

`SessionsAreReleased` rests on another fact: with no interrupt and no exit handler, one actor
at a time has business with the loop. `OneActor` says what is on the queue and what is
parked for each place that actor may be at, the collected client included, and
`SessionsAreKept` that whatever brain holds is stored by the pool or in the hands of the
task that closes it. With an exit handler two actors close one pool, and TLC shows what is
lost then (below).
That numbers never run out (`Counted`) is needed for the types alone.

**JudgeChain.** The four properties are four invariants over the types. A limit that is
remembered was announced, for its own delay (`Remembers`). What is published is the merge of
the replies retained, and nothing changes them after (`PublishedIsMerged`). A dissent is
answered because who arbitrates took no side, or there is nobody else (`Disputes`,
`ArbitersTookNoSide`). What a judge was shown lies in its piece, and is all of it when
nothing was cut (`Sighted`, `RoomShowsAll`), which makes the coverage lists true and lets a
finding move only on the word of who saw its place (`AdmittedIsShown`, `FixedOnSight`,
`ReopenedOnSight`). An approval leaves no blocker open because `Merged` approves over none;
a note or a carry-forward may stay open under it.

**ReviewLoop.** The properties compare verdicts far apart, and each verdict is computed from
a list alone. Two facts bridge them. What a pass read holds every verdict attested in time
(`ReadInv`): no pass runs beside another, and what is missing from the listing is late. And
a verdict is `Faithful` to the list its pass started from (`AwaitFaithful`, `CloseFaithful`,
`RoundFaithful`): it holds the findings of that list with their ids, gaps and births, and
new ones numbered above every id read (`Follows`); an open blocker of a judge is fixed by
this verdict, ruled carry_forward or open in it still (`Fates`); and where it approves,
what was owed is addressed, deferred, or under a ruling no one could have given
(`Accounts`).

`LoopInv` says of all verdicts what `Faithful` says of one. `IdInv`: an id is the same
finding in each two lists, the earlier one in time. `FateInv`: between a verdict and every
later one a blocker was fixed, or was ruled, or is open. `RoundsInv`: after the last round
each later verdict waits with the blocker open, or a ruling stands between. `AccountInv`:
approvals cover what was open before them. The invariant needs four more: a ruling is on a
finding that was shown and no gap the body fills (`ShownInv`), so that no such gap is ever
ruled while verdicts are in time (`RuledInv`, without which an approval could leave a gap
open and covered by nothing); verdicts follow the heads (`HeadsInv`), so that a poll carries
the newest verdict of all (`CarriedIsNewest`); and a verdict says what its list says
(`SaysInv`). `AddedKeeps` is the step: a receipt that `Fits` keeps the invariant, whoever
writes it, and each action that writes owes only that its receipt fits. The steps that write
nothing share `QuietKeeps`. The numbers of the gaps come from `SetToSeq`, of which the proof
uses no more than that it lists each member once (`GapsInOrder`). Over the scopes of
`review_loop` TLC finds `LoopInv` to hold.

**RemoteScripts.** What a script has done when it comes to a command is `Done`: it has
a conjunct for each fact the exit promises, from the command that establishes it on.
`AppliesInOrder` holds only because no other script is between two commands
(`OneScript`), no manifest moves under a flow and no unit is edited behind the
read-back. `SandboxesAreOwn` says whose the disposable objects are, and that ended scripts left
only what docker would not remove where none was cut off; `RunsFiredSince`
which runs of the declared services the checks have left. A step has one of four
shapes (the host goes on, a flow goes on outside of a script, a script takes the lock or
goes on to a command or into its trap, a script ends), each with a lemma that leaves to
the command what it alone changes; the order of the commands is the table `Steps`,
shown to be what `Following` computes from the scripts. `ChecksSeeEarlierRuns` is the
action property, from the same invariant before the step. `VisibleRunsAreOfTheDelivery`
needs one invariant more, `RunsAreRecent`: since the checks leave no earlier run at the
moves of `current`, a run has every move so far behind it, and a service that ended well
did so in a run that no recorded delivery overtook. `RecentStep` is its step.

Only model-checked: the liveness properties, which are out of the prover's reach
(`EveryCallEnds`, `EveryCommandEnds`, `TaggedIsReleased`, `HeadsAreAnswered`,
`NoVerdictIsLost`, `SpoolDrains`), and `SessionsAreReleased` where an exit handler may
run (it fails there in `ExitScopes`).

## Where the code and its documents disagree

`unread_piece_divergence` is a run that TLC ends with a counterexample, and a finding in
`PROJECT.json` with the quotations. When a change is judged in pieces and every judge of
one piece fails, the verdict is merged from the others. It can approve, without the mark
of a truncated diff that the gate `review.verdict` refuses (`gates/evidence.py:118-120`);
what nobody read is named in the coverage lists, which no gate reads.

Seen while modelling. The scopes named here are in the `MC` modules and in no run: TLC
finds the counterexample when a `.cfg` chooses them with the property named.

- *An unreadable brain.* The first attestation of a flow lists the ledger before the
  handler of a refusal: a brain that cannot be read ends the flow after the switch, with
  no record, no receipt and no put-back (`MCDeployFlow`, `UnreadableScopes`,
  `EveryChangeIsRecorded`).
- *Records in another order.* The lock covers a script and not its record. Two
  deployments that both exit 0 can leave the newest `deployed` naming the artefact that
  is not live (`RecordRaceScopes`, `NewestDeployedNamesLive`).
- *An interrupted head.* An interrupted check is completed before its replacement
  starts; if the replacement fails to start, the head looks judged and no later poll
  selects it (`MCReviewerPass` under the bounds of the run, `EveryHeadIsAnswered`).
- *An approval carried over a judgement.* `rail reviewer once --pr` on a head whose own
  review asked for changes can carry an earlier head's approval over it
  (`MCReviewLoop`, `AskedScopes`, `CarryCrossesNoJudgment`).
- *A carried approval the gate refuses.* A carried receipt repeats the accounting of its
  source (`service.py:927-939`), and the gate `review.carry_forward` holds it against
  the carry-forwards open when it was written (`gates/evidence.py:519-521, 548-570`): if
  another pull request opened one between the judgement and the carry, the gate is red on
  a receipt the reviewer wrote itself (`CarriedScopes`, `ReviewsPassTheGate`). The same
  gate turns red on a review when a verdict of another pull request that waited in the
  spool is replayed with an earlier instant.
- *A restore drill measured as a rollback drill.* `metrics.py:224-226` promises that "an
  aborted drill never borrows the restore of a later one"; a restore drill records a
  `restored` and no incident (`deploy/restore.py:264-275`), so one that follows an
  aborted rollback drill gives it its seconds (`MCDelivery`, `DrillScopes`,
  `DrillsAreMeasuredAlone`), also when a second rollback drill began and died between the
  two. A rollback drill's own recovery is never borrowed, which is the part that is proved.
- *The gate `observe.visible` after an operator's rollback.* `_newest_live_change` takes a
  rollback that is followed by a drill's roll-forward for the drill's own, so the gate
  can be green on runs older than the rollback (`MCRemoteScripts`, `GateScopes`,
  `VisibleAfterALiveChange`).
- *The session pool at exit.* The exit handler may close a pool whose client is being
  collected: the sessions of the one are cut off, or the second closer waits for a loop
  that has stopped (`MCBrainSession`, `ExitScopes`, `SessionsAreReleased`). A close that
  comes right after an interrupt cuts off the abandoned session before brain is told of
  it. Where the thread of the loop cannot be started, the error path waits for that
  loop with the lock held, and every later caller waits for the lock: `EveryCallEnds`
  leaves that scope out.
- *Two operators on one ticket.* Two `rail contract set` with different contracts at the
  same time compute the same key, since both number it from the listing they read
  (`next_contract_key` is there "so an amendment never reuses a key"): the second gets
  the first's revision with exit 0. Two `rail bind` around a push bind one pull request
  under two heads. `AloneIsTold` is said of one operator for these reasons. `rail accept`
  looks for any integration on the history of the checkout and accepts the current
  receipt, which may be of a commit that is not on it.
- *The page of the ticket's history.* One page of 50 records is read and none after it
  (`ledger/brain.py:44, 327`): in a checkout whose only integration of the contract is older
  the gate `integrate.receipt` is red though the merge was observed. It is red as well where
  a later proof names no commit, since the walk stops at it (`gates/evidence.py:83-84`).
  `IntegrationIsOfTheContract` says up to where the gate is owed (`Traced`);
  `MCDeliveryTicket` has the statement without the limits, `NoMergeIsForgotten`.
- *A settled timeline that moves.* A verdict that waited in the spool over the merge is
  recorded with its own instant (`ledger/brain.py:99, 289`) and counted from then on
  (`flow_sources.py:31`): `rounds`, `review` and `review_start` of a published timeline
  change after it was complete and its ledger read. Nothing else of it does.
- *A rollback drill that dies between its switch and its record.* The gate `observe.drill`
  reads records, so it stays green on the drill before although the target was last moved by
  one that never came back. `DrillGateIsEarned` is about recorded drills.

- Two clones on one host share docker's name `repository:version`. If main moves
  between their preflights, one can push and read back the image the other built: the
  release then attests, and its tag names, a commit the digest was not built from. The
  fourth scope of the run `release` is that world: `CommitsAreTrue` of `MCRelease`, in no
  run, is violated there, and the properties of the run claim all but the commit of the
  image (`NamesAreOwn`). A clone that resumes another
  clone's release makes a tag object of its own; if the mirror already has the first
  one, its push is refused every time, where `tag_and_push` counts on an identical
  tag being a no-op, and only the first clone can finish. After main has moved,
  preflight refuses the version for ever, although the errors of `rail release` say
  to run it again: `TaggedIsReleased` is stated up to that move.
- A drill whose roll-forward fails records the previous artefact as live, whatever the
  failed script had already changed: `EveryChangeIsRecorded` fails there too, and
  `OnFailure` of `DeployFlow` shows why.
- Remote scripts. A redelivery of the live version moves its `app` aside before the
  second running check, so a run that fired during the pull loses its payload for a
  moment, and a script that dies between the two renames leaves `current` without one
  until the next delivery; `EarlierRunsAreNeverMixed` is therefore about the window
  after the check that comes before each step. A drop-in is found after `current` has
  moved: a service that then starts again by its `Restart=` runs the new release under
  the old unit (the exception in `LiveChangesUnderTheLock`), and the put-back finds the
  same drop-in. A unit dropped from the manifest is no longer checked for runs. Since
  the unit list is today's manifest, a rollback across the addition of a unit is
  refused, and so is the put-back of a failed delivery that adds one. A run of the
  previous release inside a drill counts for `observe.visible`. A unit that leaves the
  manifest and comes back with an edit of it brings its old run along, so the gate is judged
  while the manifest stays; a drop-in made after a deployment goes unnoticed by the gate.
  What docker fails to remove stays on the host with exit 0, since the traps ignore it; so
  does the container of a `docker create` that fails after making it, the trap being set on
  the next line (`private_timers.py:462-463`).
- The repository's README still speaks of `docs/receipts/`, where the code keeps the
  spool. A receipt whose key brain holds under another kind waits for ever, as
  `SpoolDrains` says in so many words. A `Locked` that follows an unattested
  incident ends the command without the replay report.
- `rail verdict carry` can overlap a pass, so one head can have two reviews. After
  an unattested verdict the rerun label stays and each poll judges again. A verdict
  that brain recorded without answering leaves a failed check over an approval until
  someone looks (`ConfirmedIsNeverDenied` leaves `late` verdicts out for this reason).
- A verdict that waits in the spool has its ids given again, and its new blockers are
  not known to a review that runs before the replay: the loop's properties speak of
  verdicts attested in time. Its ids reach further. A late verdict gives id 1 to a gap, a
  review that runs before the replay gives it to a blocker of a judge; ruled
  carry_forward and dropped from a full list, that blocker is taken by
  `open_carry_forwards` (`rounds.py:340-376`) for mechanical and owed by nobody
  (`GivenToAGap`). And a ruling that was shown on a finding of the late verdict applies to
  the gap that has its id now: an approval can then leave a carry-forward of others
  unaccounted (`InTime`). Both take one outage and five verdicts, more than the scopes of
  the run have; they came up while the invariants were proved, and TLC shows them with a
  `MaxFindings` of 1 and of 2. A ruling confirmed after its finding was closed can open
  a carry-forward for it. A carry-forward of an approving verdict stays open even if
  a later judge calls it fixed. An id can be both `addressed` and `deferred` when a
  judge confirms a gap the operator had ruled.
- An approval carried over a judgement is a way past the loop's own properties as well:
  a blocker the older approval did not know is dropped by the next review, and round 3 can
  be judged again without its rulings (`CarriedOver`).

## What is assumed, and what is not modelled

- **Emission stamps are strictly increasing across flows.** The code takes the newest
  stamp it read and the clock, at a resolution of one second; two flows that read the
  same newest record within a second would share stamps. Listings are sorted by
  instant, so a replayed receipt takes its place by emission.
- **The lock dies with the ssh session**, as the comment at `deploy/remote.py:294`
  says. A flow's reads of the ledger at its start are one step. All artefacts are
  released. A refusal before the first side effect changes nothing and is no action.
- **The issuer of a receipt** is folded into its instant: brain compares both, and a
  command that repeats a fact repeats or changes them together.
- **The clone of a release is left alone while it runs**: the image is built from the
  working tree, measured before the confirmation. The spool's own races are in
  `SpoolLedger`; in `Release` its read and write are one step, and a replay never fails.
- **A check grows stale only when nobody works on it**: a pass lives four hours at
  most (`TimeoutStartSec`), the cutoff is 300 minutes.
- **The conditions of `carry_decision` on statuses and CI are a free choice** in both
  reviewer modules; the merge of two judges is one nondeterministic reply.
- Verdicts recorded before findings had a list are not modelled; in `ReviewLoop` an
  answer about code the judge did not see counts as no answer, which is what
  `JudgeChain` makes of it.
- Operators confirm what they were shown: the confirmation of `rail deploy` is not
  modelled, that of `rail reviewer rule` is.

- **brain's ticket**: receipts are issued in the order of the merges, no two at one
  instant; an explicit `--key` of the contract commands is not modelled; it supersedes the integration receipt when the contract is amended
  (docstring of `_milestone_records`), closes the ticket on acceptance and then records
  nothing more, answers a key used again with what it recorded or refuses it, and keeps
  bindings over amendments (`tests/fake_brain.py`).
- **A call of the session pool** has one answer; a cancellation and the first step of a
  task take the same two turns of the loop, which keeps the order asyncio gives them.
- **GitHub's reports of a run** come late, in any order and at last truly; how it pages
  them is not modelled (`flow_merged_pulls`, `reviewer/github.py:416-477`).

- **Units are edited on the host at any time except between the read-back and the end
  of a script**, where nothing reads them again (`Override`), and the operators'
  checkout moves between flows only (`Checkout`). Every unit of the host is linked to
  `current`, as the migration leaves it; the boot links of timers are part of "a
  command fails".

Not modelled at all: the refusal rules of `private_systemd` and `private_timers` over
the text of a unit; the text of prompts, replies and diffs and the subprocesses of the
judges; scaffolding, configuration and parsing; the mirror and the sweep of old committed
receipts; lead times, autonomy, publication and the HTTP server of the metrics; the
merge queue's holder segment of a timeline. The other gates are predicates over a
checkout and its tools, read once: nothing of them interleaves with anything.

## Plan

Done: all the modules above, and the proofs of every invariant and every action property
the runs check. What is left, in order of what matters most:

1. `Sweep`: old committed receipts into the spool, cut at any file, under the same
   promise (`EvidenceLedger`).
2. The stamps and idempotency keys of the ledger (`ledger/__init__.py`) with one
   second's resolution.
