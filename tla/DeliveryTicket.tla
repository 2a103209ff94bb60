--------------------------- MODULE DeliveryTicket ---------------------------
(***************************************************************************)
(* The delivery ticket of a project on the shared ledger: its contract     *)
(* (`rail contract set`), the pull requests bound to it (`rail bind`), the *)
(* integrations brain observes, and its acceptance (`rail accept`), with   *)
(* the gate integrate.receipt that reads it (ledger/brain.py, commands/    *)
(* contract.py, bind.py, accept.py, gates/evidence.py).                    *)
(*                                                                         *)
(* A command reads the ticket more than once, and brain compares what it   *)
(* is sent with what it holds.  Revisions, pull requests, their heads and  *)
(* the commits of main are numbered; a checkout is the last commit of main *)
(* it has, so that a commit is on its history when it is not later.        *)
(***************************************************************************)
EXTENDS Naturals, Sequences, FiniteSets

CONSTANTS
    Operators,  \* who runs the commands, each in a checkout of its own
    Contents,   \* the contracts one may ask for, numbered
    Pulls,      \* the pull requests of the repository, numbered
    HISTORY,    \* the receipts a page of the ticket's history holds
    Scopes      \* worlds: [operators, pulls, heads, unnamed, commands,
                \* faults], `unnamed` {0} where a proof may name no commit

ASSUME HistoryAssumption == HISTORY \in Nat \ {0}

\* A world's operators and pull requests are among those there are.
ASSUME ScopesAssumption ==
    \A s \in Scopes :
        s.operators \subseteq Operators /\ s.pulls \subseteq Pulls /\ s.unnamed \subseteq {0}

VARIABLES
    scope,
    revisions,  \* brain: the contract, every revision of it
    bindings,   \* brain: the pull requests bound, [pull, head]
    receipts,   \* brain: the integrations it observed, [sha, revision, content],
                \* `sha` 0 for a proof that names no commit
    current,    \* brain: the integration receipt not superseded, 0 for none
    accepted,   \* brain: the integration receipt accepted, 0 for none
    heads,      \* GitHub: the head of each pull request
    open,       \* GitHub: the pull requests to merge
    main,       \* GitHub: the newest commit of main
    merges,     \* history: the merges brain observed, in order, [sha, under]
    checkout,   \* the commit of main each operator has
    cmd,        \* the command each operator runs, or ran last
    commands, faults    \* counters of the bounds

ticket == <<revisions, bindings, receipts, current, accepted>>
github == <<heads, open, main, merges>>
vars == <<scope, ticket, github, checkout, cmd, commands, faults>>

\* What a command reads of the ticket.
NoView == [revision |-> 0, version |-> 0, receipt |-> 0]

\* `key`: what the idempotency key of the call is made of; `told`: what exit 0
\* reports.
NoCommand == [at |-> "idle", what |-> "none", arg |-> 0, key |-> 0, view |-> NoView,
              exit |-> "none", told |-> 0]

Version == Len(revisions) + Cardinality(bindings) + Len(receipts)

Closed == accepted # 0

Bound(n) == \E b \in bindings : b.pull = n

Init ==
    /\ scope \in Scopes
    /\ revisions = <<>> /\ bindings = {} /\ receipts = <<>> /\ current = 0 /\ accepted = 0
    /\ heads = [n \in Pulls |-> 1] /\ open = scope.pulls /\ main = 0 /\ merges = <<>>
    /\ checkout = [o \in Operators |-> 0]
    /\ cmd = [o \in Operators |-> NoCommand]
    /\ commands = 0 /\ faults = 0

-----------------------------------------------------------------------------
(***************************************************************************)
(* What the ledger lists of the ticket's integrations.                     *)
(***************************************************************************)

\* _proves: a superseded receipt speaks for the revision that holds now, and
\* for its content.
Proves(r) ==
    /\ r.revision = Len(revisions)
    /\ r.content = revisions[Len(revisions)]

\* Receipts are paged newest first; the acceptance of a ticket is one of them.
\* Revisions are on the page too: a receipt with one above it proves nothing.
OnThePage(i) == (Len(receipts) - i) + (IF Closed THEN 1 ELSE 0) < HISTORY

\* Only the current receipt.
FaultyListed == {i \in DOMAIN receipts : i = current}

\* _milestone_records: the current receipt, and the superseded of the one page
\* that prove.
Listed ==
    {i \in DOMAIN receipts : i = current \/ (OnThePage(i) /\ Proves(receipts[i]))}

OnHistory(i, head) == receipts[i].sha # 0 /\ receipts[i].sha <= head

\* _on_history: those of another line are passed over; one that names no commit
\* is on no line, and ends the walk.
IntegrateGate(head) ==
    \E i \in Listed :
        /\ OnHistory(i, head)
        /\ \A j \in Listed : j > i => receipts[j].sha # 0

-----------------------------------------------------------------------------
(***************************************************************************)
(* The commands, one call at a time.                                       *)
(***************************************************************************)

Step(o, at) == cmd[o].at = at

Runs(o, what, at) == cmd[o].what = what /\ Step(o, at)

Goes(o, at) == cmd' = [cmd EXCEPT ![o].at = at]

Exits(o, exit, told) ==
    cmd' = [cmd EXCEPT ![o].at = "idle", ![o].exit = exit, ![o].told = told]

World == <<scope, github, checkout, commands>>

Start(o, what, arg) ==
    /\ o \in scope.operators /\ Step(o, "idle") /\ commands < scope.commands
    /\ commands' = commands + 1
    /\ cmd' = [cmd EXCEPT ![o] = [NoCommand EXCEPT !.at = "list", !.what = what, !.arg = arg]]
    /\ UNCHANGED <<scope, ticket, github, checkout, faults>>

FaultyNextKey == IF revisions = <<>> THEN 1 ELSE Len(revisions)

\* next_contract_key: one above the revision the ledger lists.
NextKey == Len(revisions) + 1

NumbersTheKey(o) ==
    /\ Runs(o, "set", "list")
    /\ cmd' = [cmd EXCEPT ![o].at = "view", ![o].key = NextKey]
    /\ UNCHANGED <<World, ticket, faults>>

AlreadyBound(o) ==
    /\ Runs(o, "bind", "list") /\ Bound(cmd[o].arg)
    /\ Exits(o, "ok", cmd[o].arg)
    /\ UNCHANGED <<World, ticket, faults>>

FindsUnbound(o) ==
    /\ Runs(o, "bind", "list") /\ ~Bound(cmd[o].arg)
    /\ Goes(o, "head")
    /\ UNCHANGED <<World, ticket, faults>>

\* head_sha_of: the head GitHub reports makes the key.
AsksTheHead(o) ==
    /\ Runs(o, "bind", "head")
    /\ cmd' = [cmd EXCEPT ![o].at = "view", ![o].key = heads[cmd[o].arg]]
    /\ UNCHANGED <<World, ticket, faults>>

\* An integration on the history of the checkout, whichever, past those that name
\* no commit.
FindsIntegrated(o) ==
    /\ Runs(o, "accept", "list")
    /\ IF \E i \in Listed : OnHistory(i, checkout[o])
       THEN Goes(o, "view")
       ELSE Exits(o, "error", 0)
    /\ UNCHANGED <<World, ticket, faults>>

TheView == [revision |-> Len(revisions), version |-> Version, receipt |-> current]

\* contract_set: the same contract as the revision that holds makes no other.
SameContract(o) ==
    /\ Runs(o, "set", "view") /\ revisions # <<>>
    /\ revisions[Len(revisions)] = cmd[o].arg
    /\ Exits(o, "ok", Len(revisions))
    /\ UNCHANGED <<World, ticket, faults>>

Refused(o) ==
    \/ cmd[o].what = "bind" /\ revisions = <<>>
    \/ cmd[o].what = "accept" /\ current = 0

ViewRefuses(o) ==
    /\ Step(o, "view") /\ Refused(o)
    /\ Exits(o, "error", 0)
    /\ UNCHANGED <<World, ticket, faults>>

Views(o) ==
    /\ Step(o, "view") /\ ~Refused(o)
    /\ ((cmd[o].what = "set" /\ revisions # <<>>) => revisions[Len(revisions)] # cmd[o].arg)
    /\ cmd' = [cmd EXCEPT ![o].at = "call", ![o].view = TheView]
    /\ UNCHANGED <<World, ticket, faults>>

-----------------------------------------------------------------------------
(***************************************************************************)
(* brain's side of the calls: compare, record, answer.                     *)
(***************************************************************************)

\* A used key is answered with the revision it made; a new revision supersedes
\* the integration of the one before.
Sets(o, expected, key, content) ==
    \/ /\ key \in DOMAIN revisions
       /\ Exits(o, "ok", key) /\ UNCHANGED ticket
    \/ /\ key \notin DOMAIN revisions /\ expected = Len(revisions) /\ ~Closed
       /\ revisions' = Append(revisions, content) /\ current' = 0
       /\ Exits(o, "ok", Len(revisions) + 1)
       /\ UNCHANGED <<bindings, receipts, accepted>>
    \/ /\ key \notin DOMAIN revisions /\ (expected # Len(revisions) \/ Closed)
       /\ Exits(o, "error", 0) /\ UNCHANGED ticket

\* A used key is answered with its binding, or not at all.
Binds(o, view, n, head) ==
    \/ /\ [pull |-> n, head |-> head] \in bindings
       /\ \E exit \in {"ok", "error"} : Exits(o, exit, IF exit = "ok" THEN n ELSE 0)
       /\ UNCHANGED ticket
    \/ /\ [pull |-> n, head |-> head] \notin bindings
       /\ view.revision = Len(revisions) /\ view.version = Version /\ ~Closed
       /\ bindings' = bindings \cup {[pull |-> n, head |-> head]}
       /\ Exits(o, "ok", n)
       /\ UNCHANGED <<revisions, receipts, current, accepted>>
    \/ /\ [pull |-> n, head |-> head] \notin bindings
       /\ (view.revision # Len(revisions) \/ view.version # Version \/ Closed)
       /\ Exits(o, "error", 0) /\ UNCHANGED ticket

\* Against the evidence of the view; once accepted, the same receipt again.
Accepts(o, expected) ==
    \/ /\ expected = current
       /\ accepted' = IF accepted = 0 THEN current ELSE accepted
       /\ Exits(o, "ok", accepted')
       /\ UNCHANGED <<revisions, bindings, receipts, current>>
    \/ /\ expected # current
       /\ Exits(o, "error", 0) /\ UNCHANGED ticket

Recorded(o) ==
    \/ cmd[o].what = "set" /\ Sets(o, cmd[o].view.revision, cmd[o].key, cmd[o].arg)
    \/ cmd[o].what = "bind" /\ Binds(o, cmd[o].view, cmd[o].arg, cmd[o].key)
    \/ cmd[o].what = "accept" /\ Accepts(o, cmd[o].view.receipt)

Call(o) ==
    /\ Step(o, "call") /\ Recorded(o)
    /\ UNCHANGED <<World, faults>>

Fault == faults < scope.faults /\ faults' = faults + 1

\* Brain records, and its answer is lost.
AnswerLost(o) ==
    /\ Step(o, "call") /\ Fault
    /\ \/ /\ cmd[o].what = "set"
          /\ cmd[o].view.revision = Len(revisions) /\ cmd[o].key \notin DOMAIN revisions /\ ~Closed
          /\ revisions' = Append(revisions, cmd[o].arg) /\ current' = 0
          /\ UNCHANGED <<bindings, receipts, accepted>>
       \/ /\ cmd[o].what = "bind"
          /\ cmd[o].view.revision = Len(revisions) /\ cmd[o].view.version = Version /\ ~Closed
          /\ bindings' = bindings \cup {[pull |-> cmd[o].arg, head |-> cmd[o].key]}
          /\ UNCHANGED <<revisions, receipts, current, accepted>>
       \/ /\ cmd[o].what = "accept"
          /\ cmd[o].view.receipt = current /\ accepted = 0
          /\ accepted' = current
          /\ UNCHANGED <<revisions, bindings, receipts, current>>
    /\ Exits(o, "error", 0)
    /\ UNCHANGED World

\* A read or a call fails, or the process dies.
Fails(o) ==
    /\ ~Step(o, "idle") /\ Fault
    /\ Exits(o, "error", 0)
    /\ UNCHANGED <<World, ticket>>

-----------------------------------------------------------------------------
(***************************************************************************)
(* The world.                                                              *)
(***************************************************************************)

Push(n) ==
    /\ n \in open /\ heads[n] < scope.heads
    /\ heads' = [heads EXCEPT ![n] = @ + 1]
    /\ UNCHANGED <<scope, ticket, open, main, merges, checkout, cmd, commands, faults>>

\* Brain observes the merge of a bound pull request, for the contract of now; its
\* proof may name no commit.
Merge(n) ==
    /\ n \in open /\ open' = open \ {n}
    /\ main' = main + 1
    /\ IF Bound(n) /\ ~Closed
       THEN /\ \E sha \in {main + 1} \cup scope.unnamed :
                   receipts' = Append(receipts, [sha |-> sha, revision |-> Len(revisions),
                                                 content |-> revisions[Len(revisions)]])
            /\ current' = Len(receipts) + 1
            /\ merges' = Append(merges, [sha |-> main + 1, under |-> Len(revisions)])
       ELSE UNCHANGED <<receipts, current, merges>>
    /\ UNCHANGED <<scope, revisions, bindings, accepted, heads, checkout, cmd, commands, faults>>

Pull(o) ==
    /\ Step(o, "idle") /\ checkout[o] < main
    /\ checkout' = [checkout EXCEPT ![o] = main]
    /\ UNCHANGED <<scope, ticket, github, cmd, commands, faults>>

-----------------------------------------------------------------------------

Next ==
    \/ \E o \in Operators :
        \/ \E c \in Contents : Start(o, "set", c)
        \/ \E n \in scope.pulls : Start(o, "bind", n)
        \/ Start(o, "accept", 0)
        \/ NumbersTheKey(o) \/ SameContract(o)
        \/ AlreadyBound(o) \/ FindsUnbound(o) \/ AsksTheHead(o)
        \/ FindsIntegrated(o)
        \/ ViewRefuses(o) \/ Views(o) \/ Call(o)
        \/ AnswerLost(o) \/ Fails(o) \/ Pull(o)
    \/ \E n \in scope.pulls : Push(n) \/ Merge(n)

Spec == Init /\ [][Next]_vars

-----------------------------------------------------------------------------

\* The commands: `arg` is a contract or a pull request, `told` a revision, a
\* pull request or a receipt.
Commands ==
    [at : {"idle", "list", "head", "view", "call"}, what : {"none", "set", "bind", "accept"},
     arg : Contents \cup Pulls \cup {0}, key : Nat,
     view : [revision : Nat, version : Nat, receipt : Nat],
     exit : {"none", "ok", "error"}, told : Nat \cup Pulls]

\* The variables hold what their comments say.
TypeOK ==
    /\ scope \in Scopes
    /\ revisions \in Seq(Contents)
    /\ bindings \subseteq [pull : Pulls, head : Nat] /\ IsFiniteSet(bindings)
    /\ receipts \in Seq([sha : Nat, revision : Nat, content : Contents])
    /\ current \in {0} \cup DOMAIN receipts /\ accepted \in {0} \cup DOMAIN receipts
    /\ heads \in [Pulls -> Nat] /\ open \subseteq Pulls /\ main \in Nat
    /\ merges \in Seq([sha : Nat, under : Nat])
    /\ checkout \in [Operators -> Nat]
    /\ cmd \in [Operators -> Commands]
    /\ \A o \in Operators :
           /\ cmd[o].what = "set" => cmd[o].arg \in Contents
           /\ cmd[o].what = "bind" => cmd[o].arg \in Pulls
    /\ commands \in Nat /\ faults \in Nat

Said(o, what) == cmd[o].what = what /\ Step(o, "idle") /\ cmd[o].exit = "ok"

\* A repeated command amends nothing.
AmendmentsAmend == \A i \in 2..Len(revisions) : revisions[i] # revisions[i - 1]

\* Exit 0 of `rail accept`: the ticket is closed on an integration of the
\* contract that holds.
AcceptedIsTheContract ==
    \A o \in Operators :
        Said(o, "accept") => /\ accepted # 0 /\ cmd[o].told = accepted
                             /\ receipts[accepted].revision = Len(revisions)

\* The merge of a bound pull request is on the history of `head`, and the contract
\* that holds is the one it was merged under.
MergedFor(i, head) == merges[i].sha <= head /\ merges[i].under = Len(revisions)

Integrated(head) == \E i \in DOMAIN merges : MergedFor(i, head)

\* An operator alone is told of what the ticket holds: the contract asked for,
\* the pull request bound once, an integration in the checkout.
AloneIsTold ==
    \A o \in scope.operators : scope.operators = {o} =>
        /\ Said(o, "set") => /\ cmd[o].told = Len(revisions)
                             /\ revisions[cmd[o].told] = cmd[o].arg
        /\ Said(o, "bind") => Cardinality({b \in bindings : b.pull = cmd[o].arg}) = 1
        /\ Said(o, "accept") => Integrated(checkout[o])

\* Whatever answers are lost, pull requests pushed to or merged, and commands
\* repeated: each command records its own request, once.
CommandsRecordOnce == AmendmentsAmend /\ AcceptedIsTheContract /\ AloneIsTold

\* Fewer than HISTORY receipts were issued since a merge, and its proof and theirs
\* name their commits.
Traced(i) ==
    /\ (Len(merges) - i) + (IF Closed THEN 1 ELSE 0) < HISTORY
    /\ \A j \in i..Len(merges) : receipts[j].sha # 0

\* With pull requests in flight and contracts amended, integrate.receipt holds
\* in a checkout only if its history has the merge of a bound pull request under
\* the contract that holds: an amendment takes it from every checkout, and going
\* back to a former contract brings nothing back.  Where it has such a merge the
\* gate holds, and an integration that follows takes nothing from an earlier
\* checkout, as long as fewer than HISTORY receipts were issued since and each of
\* them names its commit; past either limit the gate may be red.
IntegrationIsOfTheContract ==
    \A head \in 0..main :
        /\ IntegrateGate(head) => Integrated(head)
        /\ (\E i \in DOMAIN merges : MergedFor(i, head) /\ Traced(i)) => IntegrateGate(head)

=============================================================================
