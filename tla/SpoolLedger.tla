---------------------------- MODULE SpoolLedger -----------------------------
(***************************************************************************)
(* Attesting to a shared ledger through a spool: BrainLedger.attest and    *)
(* replay (src/rail/ledger/brain.py) over the files of FileLedger          *)
(* (ledger/file.py), and `rail ledger replay` (commands/ledger.py).        *)
(*                                                                         *)
(* Every checkout and worktree of a project on a host shares one spool.    *)
(* The processes that attest and replay take no lock: each step below is   *)
(* one read of the spool, one file operation or one call to brain, and the *)
(* processes interleave between any two of them.                           *)
(***************************************************************************)
EXTENDS Naturals

CONSTANTS
    Processes,      \* rail commands of one project on one host
    Keys,           \* idempotency keys
    Kinds,          \* attestation kinds
    Payloads,       \* attestation data, told apart by brain_digest
    Instants,       \* emission instants
    NoReceipt,      \* a command that handles no receipt
    MaxAttests,     \* bound: attest commands in a behaviour
    MaxFailures     \* bound: calls without an answer and deaths

\* A receipt as the spool stores it; as a row, what brain holds of it.
Receipts == [key : Keys, kind : Kinds, data : Payloads, at : Instants]

ASSUME SpoolAssumption ==
    /\ Instants \subseteq Nat
    /\ NoReceipt \notin Receipts
    /\ MaxAttests \in Nat /\ MaxFailures \in Nat

VARIABLES
    spool,      \* receipt files of the project, by content
    brain,      \* rows of the ticket, as brain stores them
    pc,         \* what each process does next
    wanted,     \* the attestation a process was asked to write or to replay
    receipt,    \* the receipt file it works with
    todo,       \* the receipts its `rail ledger replay` has yet to send
    outcome,    \* the last thing it told its caller: how, and of which receipt
    attests,    \* number of attest commands, for the bound
    failures    \* number of failures, for the bound

vars == <<spool, brain, pc, wanted, receipt, todo, outcome, attests, failures>>

\* "conflict" is brain's, "key_taken" the spool's own IdempotencyConflict.
Outcomes == {"none", "recorded", "conflict", "key_taken", "unattested"}

NothingTold == [how |-> "none", of |-> NoReceipt]

SameFact(r, s) == r.key = s.key /\ r.kind = s.kind /\ r.data = s.data

RowsOf(k) == {row \in brain : row.key = k}

Init ==
    /\ spool = {}
    /\ brain = {}
    /\ pc = [p \in Processes |-> "idle"]
    /\ wanted = [p \in Processes |-> NoReceipt]
    /\ receipt = [p \in Processes |-> NoReceipt]
    /\ todo = [p \in Processes |-> {}]
    /\ outcome = [p \in Processes |-> NothingTold]
    /\ attests = 0
    /\ failures = 0

-----------------------------------------------------------------------------
(***************************************************************************)
(* How a receipt's turn ends.  A replay goes on with the next receipt,     *)
(* whatever the outcome of this one; an attest command is done.            *)
(***************************************************************************)

GoTo(p, step) == pc' = [pc EXCEPT ![p] = step]

Tell(p, how) ==
    /\ outcome' = [outcome EXCEPT ![p] = [how |-> how, of |-> wanted[p]]]
    /\ wanted' = [wanted EXCEPT ![p] = NoReceipt]
    /\ receipt' = [receipt EXCEPT ![p] = NoReceipt]
    /\ GoTo(p, IF todo[p] = {} THEN "idle" ELSE "next")

Fails == failures < MaxFailures /\ failures' = failures + 1

-----------------------------------------------------------------------------
(***************************************************************************)
(* The commands.                                                           *)
(***************************************************************************)

\* The order of a listing: by instant, and always the same among equals (the
\* code takes the digest).
Oldest(S) == CHOOSE s \in S : \A t \in S : s.at <= t.at

\* `rail attest`, with any payload and key, or --from any receipt; a release,
\* a flow or the reviewer attesting.
Attest(p) ==
    /\ pc[p] = "idle"
    /\ attests < MaxAttests
    /\ attests' = attests + 1
    /\ \E r \in Receipts : wanted' = [wanted EXCEPT ![p] = r]
    /\ GoTo(p, "check")
    /\ UNCHANGED <<spool, brain, receipt, todo, outcome, failures>>

\* `rail ledger replay` lists the spool once, then works through the list.
StartReplay(p) ==
    /\ pc[p] = "idle"
    /\ spool # {}
    /\ todo' = [todo EXCEPT ![p] = spool]
    /\ GoTo(p, "next")
    /\ UNCHANGED <<spool, brain, wanted, receipt, outcome, attests, failures>>

\* Oldest first.
NextReceipt(p) ==
    /\ pc[p] = "next"
    /\ \E r \in todo[p] :
        /\ r = Oldest(todo[p])
        /\ wanted' = [wanted EXCEPT ![p] = r]
        /\ todo' = [todo EXCEPT ![p] = @ \ {r}]
    /\ GoTo(p, "find")
    /\ UNCHANGED <<spool, brain, receipt, outcome, attests, failures>>

-----------------------------------------------------------------------------
(***************************************************************************)
(* FileLedger._append: read every receipt, then write.                     *)
(***************************************************************************)

Pending(k) == {s \in spool : s.key = k}

\* The attestation is sent before its receipt is written.
FaultyCheckFindsNone(p) ==
    /\ pc[p] = "check"
    /\ Pending(wanted[p].key) = {}
    /\ receipt' = [receipt EXCEPT ![p] = wanted[p]]
    /\ GoTo(p, "call")
    /\ UNCHANGED <<spool, brain, wanted, todo, outcome, attests, failures>>

\* No receipt of the key waits: a new one is to be written.
CheckFindsNone(p) ==
    /\ pc[p] = "check"
    /\ Pending(wanted[p].key) = {}
    /\ receipt' = [receipt EXCEPT ![p] = wanted[p]]
    /\ GoTo(p, "write")
    /\ UNCHANGED <<spool, brain, wanted, todo, outcome, attests, failures>>

\* The same fact waits: its receipt, and its instant, are used again.
CheckFindsFact(p) ==
    /\ pc[p] = "check"
    /\ \E s \in Pending(wanted[p].key) :
        /\ s = Oldest(Pending(wanted[p].key))
        /\ SameFact(s, wanted[p])
        /\ receipt' = [receipt EXCEPT ![p] = s]
    /\ GoTo(p, "call")
    /\ UNCHANGED <<spool, brain, wanted, todo, outcome, attests, failures>>

\* IdempotencyConflict: another fact waits under the key.
CheckFindsOther(p) ==
    /\ pc[p] = "check"
    /\ Pending(wanted[p].key) # {}
    /\ ~SameFact(Oldest(Pending(wanted[p].key)), wanted[p])
    /\ Tell(p, "key_taken")
    /\ UNCHANGED <<spool, brain, todo, attests, failures>>

Write(p) ==
    /\ pc[p] = "write"
    /\ spool' = spool \cup {receipt[p]}
    /\ GoTo(p, "call")
    /\ UNCHANGED <<brain, wanted, receipt, todo, outcome, attests, failures>>

-----------------------------------------------------------------------------
(***************************************************************************)
(* brain_delivery_attest.  brain compares kind, digest, instant and issuer *)
(* with the row of the key: an equal row is the answer of a replay, any    *)
(* other is refused as idempotency_key_reused.                             *)
(***************************************************************************)

Takes(r) == IF RowsOf(r.key) = {} THEN brain \cup {r} ELSE brain

CallRecords(p) ==
    /\ pc[p] = "call"
    /\ RowsOf(receipt[p].key) \subseteq {receipt[p]}
    /\ brain' = Takes(receipt[p])
    /\ GoTo(p, "unlink")
    /\ UNCHANGED <<spool, wanted, receipt, todo, outcome, attests, failures>>

CallFindsKeyReused(p) ==
    /\ pc[p] = "call"
    /\ ~(RowsOf(receipt[p].key) \subseteq {receipt[p]})
    /\ GoTo(p, "lookup")
    /\ UNCHANGED <<spool, brain, wanted, receipt, todo, outcome, attests, failures>>

\* Refused, unreachable, or recorded and the answer lost: the receipt waits.
CallFails(p) ==
    /\ pc[p] = "call"
    /\ Fails
    /\ brain' \in {brain, Takes(receipt[p])}
    /\ Tell(p, "unattested")
    /\ UNCHANGED <<spool, todo, attests>>

Unlink(p) ==
    /\ pc[p] = "unlink"
    /\ spool' = spool \ {receipt[p]}
    /\ Tell(p, "recorded")
    /\ UNCHANGED <<brain, todo, attests, failures>>

-----------------------------------------------------------------------------
(***************************************************************************)
(* brain_delivery_attestation_list, filtered by ticket and kind: before a  *)
(* replay sends anything ("find"), and after a reused key ("lookup").      *)
(***************************************************************************)

Subject(p) == IF pc[p] = "find" THEN wanted[p] ELSE receipt[p]

\* The lookup compares payloads too.
FaultyHoldsKind(r) == \E row \in RowsOf(r.key) : SameFact(row, r)

HoldsKind(r) == \E row \in RowsOf(r.key) : row.kind = r.kind

\* The receipt to settle is not kept.
LookupFindsRow(p) ==
    /\ pc[p] \in {"find", "lookup"}
    /\ HoldsKind(Subject(p))
    /\ receipt' = [receipt EXCEPT ![p] = Subject(p)]
    /\ GoTo(p, "settle")
    /\ UNCHANGED <<spool, brain, wanted, todo, outcome, attests, failures>>

\* Nothing under the key and kind: a replay attests again with the key and
\* the instant of the receipt; a reused key leaves the receipt waiting.
FindFindsNone(p) ==
    /\ pc[p] = "find"
    /\ ~HoldsKind(wanted[p])
    /\ GoTo(p, "check")
    /\ UNCHANGED <<spool, brain, wanted, receipt, todo, outcome, attests, failures>>

LookupFindsNone(p) ==
    /\ pc[p] = "lookup"
    /\ ~HoldsKind(receipt[p])
    /\ Tell(p, "unattested")
    /\ UNCHANGED <<spool, brain, todo, attests, failures>>

LookupFails(p) ==
    /\ pc[p] \in {"find", "lookup"}
    /\ Fails
    /\ Tell(p, "unattested")
    /\ UNCHANGED <<spool, brain, todo, attests>>

\* Whatever brain holds under the key counts as recorded.
FaultySettle(p) ==
    /\ pc[p] = "settle"
    /\ spool' = spool \ {receipt[p]}
    /\ Tell(p, "recorded")
    /\ UNCHANGED <<brain, todo, attests, failures>>

\* _settle: only the payload digest decides; the receipt leaves either way.
Settle(p) ==
    /\ pc[p] = "settle"
    /\ spool' = spool \ {receipt[p]}
    /\ Tell(p, IF \E row \in RowsOf(receipt[p].key) : SameFact(row, receipt[p])
               THEN "recorded" ELSE "conflict")
    /\ UNCHANGED <<brain, todo, attests, failures>>

\* The process dies; the files and brain stay as they are.
Crash(p) ==
    /\ pc[p] # "idle"
    /\ Fails
    /\ GoTo(p, "idle")
    /\ wanted' = [wanted EXCEPT ![p] = NoReceipt]
    /\ receipt' = [receipt EXCEPT ![p] = NoReceipt]
    /\ todo' = [todo EXCEPT ![p] = {}]
    /\ outcome' = [outcome EXCEPT ![p] = NothingTold]
    /\ UNCHANGED <<spool, brain, attests>>

-----------------------------------------------------------------------------
\* The steps a command takes once brain answers it.
Progress(p) ==
    \/ NextReceipt(p)
    \/ CheckFindsNone(p) \/ CheckFindsFact(p) \/ CheckFindsOther(p) \/ Write(p)
    \/ CallRecords(p) \/ CallFindsKeyReused(p) \/ Unlink(p)
    \/ LookupFindsRow(p) \/ FindFindsNone(p) \/ LookupFindsNone(p) \/ Settle(p)

Next == \E p \in Processes :
    \/ Attest(p) \/ StartReplay(p)
    \/ Progress(p)
    \/ CallFails(p) \/ LookupFails(p) \/ Crash(p)

Spec == Init /\ [][Next]_vars

\* Every call to brain ends (CALL_TIMEOUT_SECONDS), and someone runs the
\* replay that an Unattested names while receipts wait.
Fairness ==
    /\ \A p \in Processes : WF_vars(Progress(p))
    /\ WF_vars(\E p \in Processes : StartReplay(p))

FairSpec == Spec /\ Fairness

-----------------------------------------------------------------------------
(***************************************************************************)
(* Properties.                                                             *)
(***************************************************************************)

Steps == {"idle", "next", "find", "check", "write", "call", "unlink",
          "lookup", "settle"}

\* Every variable has its type, and a command past its check has a receipt.
TypeOK ==
    /\ spool \subseteq Receipts
    /\ brain \subseteq Receipts
    /\ pc \in [Processes -> Steps]
    /\ wanted \in [Processes -> Receipts \cup {NoReceipt}]
    /\ receipt \in [Processes -> Receipts \cup {NoReceipt}]
    /\ todo \in [Processes -> SUBSET Receipts]
    /\ outcome \in [Processes -> [how : Outcomes, of : Receipts \cup {NoReceipt}]]
    /\ attests \in 0..MaxAttests
    /\ failures \in 0..MaxFailures
    /\ \A p \in Processes :
        /\ pc[p] \notin {"idle", "next"} => wanted[p] \in Receipts
        /\ pc[p] \in {"write", "call", "unlink", "lookup", "settle"}
             => receipt[p] \in Receipts

\* What a command tells its caller stays true whatever the other commands and
\* brain do next.  "recorded": brain holds the fact.  "conflict": brain holds
\* another fact under its key, and never this one.  "unattested": a receipt of
\* the fact waits in the spool, or brain already holds its key.
OutcomesAreTrue ==
    \A p \in Processes :
        LET r == outcome[p].of
            waiting == \E s \in spool : SameFact(s, r)
        IN  /\ outcome[p].how = "recorded" => \E row \in brain : SameFact(row, r)
            /\ outcome[p].how = "conflict" =>
                 \E row \in RowsOf(r.key) : ~SameFact(row, r) /\ RowsOf(r.key) = {row}
            /\ outcome[p].how = "unattested" => waiting \/ RowsOf(r.key) # {}

\* The spool implements the promise of EvidenceLedger: a write-ahead receipt
\* for every row, and no receipt leaves before brain holds its key and kind.
Evidence == INSTANCE EvidenceLedger WITH owed <- spool, held <- brain

EvidenceIsKept == Evidence!Spec

\* Once attestations and failures stop, replaying drains the spool.  What can
\* wait for ever is a receipt whose key brain holds under another kind.
SpoolDrains ==
    <>[](\A r \in spool : /\ RowsOf(r.key) # {}
                          /\ \A row \in RowsOf(r.key) : row.kind # r.kind)

=============================================================================
