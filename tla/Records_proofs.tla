--------------------------- MODULE Records_proofs ---------------------------
(***************************************************************************)
(* Theorems of SpoolLedger, which implements EvidenceLedger, for any       *)
(* number of processes, keys, kinds, payloads, failures and interleavings; *)
(* and of FlowTimeline, for any runs, suites, verdicts, reads and times.   *)
(***************************************************************************)
EXTENDS SpoolLedger, FlowTimeline, FiniteSetTheorems, WellFoundedInduction, TLAPS

-----------------------------------------------------------------------------
(* The inductive invariant.                                                *)

\* Brain has one row per key.
OneRowPerKey == \A r \in brain, s \in brain : r.key = s.key => r = s

KeyIn(rows, r) == \E row \in rows : row.key = r.key

KindIn(rows, r) == \E row \in rows : row.key = r.key /\ row.kind = r.kind

\* A receipt that left the spool left because brain holds its key and kind.
Safe(r, files, rows) == r \in files \/ KindIn(rows, r)

\* What a command at step `at` knows of the receipt it works with.
Knows(at, w, r, list, files, rows) ==
    /\ \A s \in list : Safe(s, files, rows)
    /\ at = "find" => Safe(w, files, rows)
    /\ at \in {"write", "call", "unlink", "lookup", "settle"} => SameFact(r, w)
    /\ at = "call" => Safe(r, files, rows)
    /\ at = "unlink" => r \in rows
    /\ at = "lookup" => KeyIn(rows, r)
    /\ at = "settle" => KindIn(rows, r)

ReceiptsKnown ==
    \A p \in Processes : Knows(pc[p], wanted[p], receipt[p], todo[p], spool, brain)

\* What a command told is true of these files and rows.
TrueOf(out, files, rows) ==
    /\ out.how = "recorded" => \E row \in rows : SameFact(row, out.of)
    /\ out.how = "conflict" =>
         \E row \in rows : row.key = out.of.key /\ ~SameFact(row, out.of)
    /\ out.how = "unattested" =>
         KeyIn(rows, out.of) \/ \E s \in files : SameFact(s, out.of)

ToldTrue == \A p \in Processes : TrueOf(outcome[p], spool, brain)

IInv == TypeOK /\ OneRowPerKey /\ ReceiptsKnown /\ ToldTrue

-----------------------------------------------------------------------------
(* What a step may do to the spool and to brain.                           *)

\* The four changes, which are those of EvidenceLedger and a stutter.
LedgerStep ==
    \/ UNCHANGED <<spool, brain>>
    \/ \E r \in Receipts :
        \/ spool' = spool \cup {r} /\ UNCHANGED brain
        \/ Safe(r, spool, brain) /\ brain' = Takes(r) /\ UNCHANGED spool
        \/ KindIn(brain, r) /\ spool' = spool \ {r} /\ UNCHANGED brain

\* Brain forgets nothing, keeps one row per key, and what was safe stays so.
LEMMA LedgerKeeps ==
    ASSUME spool \subseteq Receipts, brain \subseteq Receipts, OneRowPerKey, LedgerStep
    PROVE  /\ spool' \subseteq Receipts /\ brain' \subseteq Receipts
           /\ OneRowPerKey'
           /\ brain \subseteq brain'
           /\ \A r : Safe(r, spool, brain) => Safe(r, spool', brain')
<1>1. CASE UNCHANGED <<spool, brain>>
  BY <1>1 DEF OneRowPerKey
<1>2. ASSUME NEW r \in Receipts, spool' = spool \cup {r}, UNCHANGED brain
      PROVE  /\ spool' \subseteq Receipts /\ brain' \subseteq Receipts
             /\ OneRowPerKey' /\ brain \subseteq brain'
             /\ \A s : Safe(s, spool, brain) => Safe(s, spool', brain')
  BY <1>2 DEF OneRowPerKey, Safe
<1>3. ASSUME NEW r \in Receipts, brain' = Takes(r), UNCHANGED spool
      PROVE  /\ spool' \subseteq Receipts /\ brain' \subseteq Receipts
             /\ OneRowPerKey' /\ brain \subseteq brain'
             /\ \A s : Safe(s, spool, brain) => Safe(s, spool', brain')
  <2>1. brain \subseteq brain' /\ brain' \subseteq Receipts
    BY <1>3 DEF Takes
  <2>2. OneRowPerKey'
    BY <1>3 DEF OneRowPerKey, Takes, RowsOf
  <2> QED
    BY <1>3, <2>1, <2>2 DEF Safe, KindIn
<1>4. ASSUME NEW r \in Receipts, KindIn(brain, r), spool' = spool \ {r}, UNCHANGED brain
      PROVE  /\ spool' \subseteq Receipts /\ brain' \subseteq Receipts
             /\ OneRowPerKey' /\ brain \subseteq brain'
             /\ \A s : Safe(s, spool, brain) => Safe(s, spool', brain')
  BY <1>4 DEF OneRowPerKey, Safe
<1> QED
  BY <1>1, <1>2, <1>3, <1>4 DEF LedgerStep

\* What a command knows stays known while the ledger moves on.
LEMMA KnowledgeStays ==
    ASSUME spool \subseteq Receipts, brain \subseteq Receipts, OneRowPerKey, LedgerStep,
           NEW at, NEW w, NEW r, NEW list, Knows(at, w, r, list, spool, brain)
    PROVE  Knows(at, w, r, list, spool', brain')
<1>1. /\ brain \subseteq brain'
      /\ \A s : Safe(s, spool, brain) => Safe(s, spool', brain')
  BY LedgerKeeps
<1> QED
  BY <1>1 DEF Knows, KeyIn, KindIn

\* What a command told stays true while the ledger moves on.
LEMMA TruthStays ==
    ASSUME spool \subseteq Receipts, brain \subseteq Receipts, OneRowPerKey, LedgerStep,
           NEW out, TrueOf(out, spool, brain)
    PROVE  TrueOf(out, spool', brain')
<1>1. /\ brain \subseteq brain'
      /\ \A s : Safe(s, spool, brain) => Safe(s, spool', brain')
  BY LedgerKeeps
<1>2. ASSUME NEW s \in spool, SameFact(s, out.of)
      PROVE  KeyIn(brain', out.of) \/ \E t \in spool' : SameFact(t, out.of)
  BY <1>1, <1>2 DEF Safe, KindIn, KeyIn, SameFact
<1> QED
  BY <1>1, <1>2 DEF TrueOf, KeyIn

-----------------------------------------------------------------------------
(* Each step preserves the invariant.                                      *)

\* One command moves to a state in which it knows what it must.
LEMMA CommandMoves ==
    ASSUME IInv, LedgerStep, NEW p \in Processes,
           NEW at \in Steps, NEW w \in Receipts \cup {NoReceipt},
           NEW r \in Receipts \cup {NoReceipt}, NEW list \in SUBSET Receipts,
           NEW out \in [how : Outcomes, of : Receipts \cup {NoReceipt}],
           pc' = [pc EXCEPT ![p] = at], wanted' = [wanted EXCEPT ![p] = w],
           receipt' = [receipt EXCEPT ![p] = r], todo' = [todo EXCEPT ![p] = list],
           outcome' = [outcome EXCEPT ![p] = out],
           attests' \in 0..MaxAttests, failures' \in 0..MaxFailures,
           at \notin {"idle", "next"} => w \in Receipts,
           at \in {"write", "call", "unlink", "lookup", "settle"} => r \in Receipts,
           Knows(at, w, r, list, spool', brain'), TrueOf(out, spool', brain')
    PROVE  IInv'
<1>1. /\ spool \subseteq Receipts /\ brain \subseteq Receipts /\ OneRowPerKey
      /\ \A q \in Processes : Knows(pc[q], wanted[q], receipt[q], todo[q], spool, brain)
      /\ \A q \in Processes : TrueOf(outcome[q], spool, brain)
  BY DEF IInv, TypeOK, ReceiptsKnown, ToldTrue
<1>2. /\ spool' \subseteq Receipts /\ brain' \subseteq Receipts /\ OneRowPerKey'
  BY <1>1, LedgerKeeps
<1>3. TypeOK'
  BY <1>2 DEF IInv, TypeOK
<1>4. ReceiptsKnown'
  <2> SUFFICES ASSUME NEW q \in Processes
               PROVE  Knows(pc'[q], wanted'[q], receipt'[q], todo'[q], spool', brain')
    BY DEF ReceiptsKnown
  <2>1. CASE q = p
    BY <2>1 DEF IInv, TypeOK
  <2>2. CASE q # p
    <3>1. /\ pc'[q] = pc[q] /\ wanted'[q] = wanted[q] /\ receipt'[q] = receipt[q]
          /\ todo'[q] = todo[q]
      BY <2>2 DEF IInv, TypeOK
    <3> QED
      BY <1>1, <3>1, KnowledgeStays
  <2> QED
    BY <2>1, <2>2
<1>5. ToldTrue'
  <2> SUFFICES ASSUME NEW q \in Processes PROVE TrueOf(outcome'[q], spool', brain')
    BY DEF ToldTrue
  <2>1. CASE q = p
    BY <2>1 DEF IInv, TypeOK
  <2>2. CASE q # p
    <3>1. outcome'[q] = outcome[q]
      BY <2>2 DEF IInv, TypeOK
    <3> QED
      BY <1>1, <3>1, TruthStays
  <2> QED
    BY <2>1, <2>2
<1> QED
  BY <1>2, <1>3, <1>4, <1>5 DEF IInv

\* A command that ends its turn keeps the invariant if what it tells is true.
LEMMA TellKeeps ==
    ASSUME IInv, LedgerStep, NEW p \in Processes, NEW how \in Outcomes,
           Tell(p, how), UNCHANGED <<todo, attests>>, failures' \in 0..MaxFailures,
           TrueOf([how |-> how, of |-> wanted[p]], spool', brain')
    PROVE  IInv'
<1> DEFINE at == IF todo[p] = {} THEN "idle" ELSE "next"
<1>1. /\ todo \in [Processes -> SUBSET Receipts]
      /\ wanted[p] \in Receipts \cup {NoReceipt} /\ attests \in 0..MaxAttests
      /\ spool \subseteq Receipts /\ brain \subseteq Receipts /\ OneRowPerKey
      /\ Knows(pc[p], wanted[p], receipt[p], todo[p], spool, brain)
  BY DEF IInv, TypeOK, ReceiptsKnown
<1>2. todo' = [todo EXCEPT ![p] = todo[p]] /\ todo[p] \in SUBSET Receipts
  BY <1>1
<1>3. \A s \in todo[p] : Safe(s, spool', brain')
  BY <1>1, LedgerKeeps DEF Knows
<1>4. at \in {"idle", "next"} /\ at \in Steps
  BY DEF Steps
<1>5. Knows(at, NoReceipt, NoReceipt, todo[p], spool', brain')
  BY <1>3, <1>4 DEF Knows
<1>6. /\ outcome' = [outcome EXCEPT ![p] = [how |-> how, of |-> wanted[p]]]
      /\ wanted' = [wanted EXCEPT ![p] = NoReceipt]
      /\ receipt' = [receipt EXCEPT ![p] = NoReceipt]
      /\ pc' = [pc EXCEPT ![p] = at]
  BY DEF Tell, GoTo
<1>7. [how |-> how, of |-> wanted[p]] \in [how : Outcomes, of : Receipts \cup {NoReceipt}]
  BY <1>1
<1> HIDE DEF at
<1> QED
  BY <1>1, <1>2, <1>4, <1>5, <1>6, <1>7, CommandMoves

\* The commands that start, and a replay that takes its next receipt.
LEMMA StartsKeep ==
    ASSUME IInv, NEW p \in Processes, Attest(p) \/ StartReplay(p) \/ NextReceipt(p)
    PROVE  LedgerStep /\ IInv'
<1>1. /\ pc[p] \in Steps /\ wanted[p] \in Receipts \cup {NoReceipt}
      /\ receipt[p] \in Receipts \cup {NoReceipt} /\ todo[p] \in SUBSET Receipts
      /\ outcome[p] \in [how : Outcomes, of : Receipts \cup {NoReceipt}]
      /\ spool \subseteq Receipts /\ wanted \in [Processes -> Receipts \cup {NoReceipt}]
      /\ receipt' = receipt => receipt' = [receipt EXCEPT ![p] = receipt[p]]
      /\ wanted' = wanted => wanted' = [wanted EXCEPT ![p] = wanted[p]]
      /\ todo' = todo => todo' = [todo EXCEPT ![p] = todo[p]]
      /\ outcome' = outcome => outcome' = [outcome EXCEPT ![p] = outcome[p]]
      /\ attests \in 0..MaxAttests /\ failures \in 0..MaxFailures
      /\ MaxAttests \in Nat
  BY SpoolAssumption DEF IInv, TypeOK
<1>2. /\ Knows(pc[p], wanted[p], receipt[p], todo[p], spool, brain)
      /\ TrueOf(outcome[p], spool, brain)
  BY DEF IInv, ReceiptsKnown, ToldTrue
<1>3. UNCHANGED <<spool, brain, receipt, outcome>> /\ LedgerStep
  BY DEF Attest, StartReplay, NextReceipt, LedgerStep
<1>4. {"next", "find", "check"} \subseteq Steps
  BY DEF Steps
<1>5. CASE Attest(p)
  <2>1. PICK w \in Receipts : wanted' = [wanted EXCEPT ![p] = w]
    BY <1>5 DEF Attest
  <2>2. attests' \in 0..MaxAttests
    BY <1>1, <1>5 DEF Attest
  <2>3. Knows("check", w, receipt[p], todo[p], spool', brain')
    BY <1>2, <1>3 DEF Knows
  <2> QED
    <3>1. /\ pc' = [pc EXCEPT ![p] = "check"] /\ "check" \in Steps
          /\ receipt' = [receipt EXCEPT ![p] = receipt[p]]
          /\ todo' = [todo EXCEPT ![p] = todo[p]]
          /\ outcome' = [outcome EXCEPT ![p] = outcome[p]]
          /\ failures' \in 0..MaxFailures
          /\ TrueOf(outcome[p], spool', brain')
      BY <1>1, <1>2, <1>3, <1>4, <1>5 DEF Attest, GoTo
    <3> QED
      BY <1>1, <1>3, <2>1, <2>2, <2>3, <3>1, CommandMoves
<1>6. CASE StartReplay(p)
  <2>1. Knows("next", wanted[p], receipt[p], spool, spool', brain')
    BY <1>3 DEF Knows, Safe
  <2> QED
    <3>1. /\ pc' = [pc EXCEPT ![p] = "next"] /\ "next" \in Steps
          /\ wanted' = [wanted EXCEPT ![p] = wanted[p]]
          /\ receipt' = [receipt EXCEPT ![p] = receipt[p]]
          /\ todo' = [todo EXCEPT ![p] = spool]
          /\ outcome' = [outcome EXCEPT ![p] = outcome[p]]
          /\ attests' \in 0..MaxAttests /\ failures' \in 0..MaxFailures
          /\ TrueOf(outcome[p], spool', brain')
      BY <1>1, <1>2, <1>3, <1>4, <1>6 DEF StartReplay, GoTo
    <3> QED
      BY <1>1, <1>3, <2>1, <3>1, CommandMoves
<1>7. CASE NextReceipt(p)
  <2>1. PICK w \in todo[p] : /\ wanted' = [wanted EXCEPT ![p] = w]
                             /\ todo' = [todo EXCEPT ![p] = todo[p] \ {w}]
    BY <1>7 DEF NextReceipt
  <2>2. Knows("find", w, receipt[p], todo[p] \ {w}, spool', brain')
    BY <1>2, <1>3 DEF Knows
  <2>3. w \in Receipts /\ todo[p] \ {w} \in SUBSET Receipts
    BY <1>1
  <2> QED
    <3>1. /\ pc' = [pc EXCEPT ![p] = "find"] /\ "find" \in Steps
          /\ receipt' = [receipt EXCEPT ![p] = receipt[p]]
          /\ outcome' = [outcome EXCEPT ![p] = outcome[p]]
          /\ attests' \in 0..MaxAttests /\ failures' \in 0..MaxFailures
          /\ TrueOf(outcome[p], spool', brain')
      BY <1>1, <1>2, <1>3, <1>4, <1>7 DEF NextReceipt, GoTo
    <3> QED
      BY <1>1, <1>3, <2>1, <2>2, <2>3, <3>1, CommandMoves
<1> QED
  BY <1>3, <1>5, <1>6, <1>7

\* The steps that go on with a receipt and tell nothing yet.
LEMMA StepsKeep ==
    ASSUME IInv, NEW p \in Processes,
           \/ CheckFindsNone(p) \/ CheckFindsFact(p) \/ Write(p)
           \/ CallRecords(p) \/ CallFindsKeyReused(p)
           \/ LookupFindsRow(p) \/ FindFindsNone(p)
    PROVE  LedgerStep /\ IInv'
<1> DEFINE w == wanted[p]
<1> DEFINE r == receipt[p]
<1>1. /\ pc[p] \in Steps /\ w \in Receipts \cup {NoReceipt}
      /\ r \in Receipts \cup {NoReceipt} /\ todo[p] \in SUBSET Receipts
      /\ outcome[p] \in [how : Outcomes, of : Receipts \cup {NoReceipt}]
      /\ spool \subseteq Receipts /\ brain \subseteq Receipts /\ OneRowPerKey
      /\ receipt' = receipt => receipt' = [receipt EXCEPT ![p] = r]
      /\ wanted' = wanted => wanted' = [wanted EXCEPT ![p] = w]
      /\ todo' = todo => todo' = [todo EXCEPT ![p] = todo[p]]
      /\ outcome' = outcome => outcome' = [outcome EXCEPT ![p] = outcome[p]]
      /\ attests \in 0..MaxAttests /\ failures \in 0..MaxFailures
      /\ pc[p] \notin {"idle", "next"} => w \in Receipts
      /\ pc[p] \in {"write", "call", "unlink", "lookup", "settle"} => r \in Receipts
  BY DEF IInv, TypeOK
<1>2. /\ Knows(pc[p], w, r, todo[p], spool, brain)
      /\ TrueOf(outcome[p], spool, brain)
  BY DEF IInv, ReceiptsKnown, ToldTrue
<1>3. /\ UNCHANGED <<wanted, todo, outcome, attests, failures>>
      /\ w \in Receipts
  BY <1>1 DEF CheckFindsNone, CheckFindsFact, Write, CallRecords, CallFindsKeyReused,
     LookupFindsRow, FindFindsNone
<1>4. {"check", "write", "call", "unlink", "lookup", "settle"} \subseteq Steps
  BY DEF Steps
<1> HIDE DEF w, r
<1>5. ASSUME NEW at \in {"check", "write", "call", "unlink", "lookup", "settle"},
             NEW s \in Receipts \cup {NoReceipt}, at # "check" => s \in Receipts,
             pc' = [pc EXCEPT ![p] = at], receipt' = [receipt EXCEPT ![p] = s],
             LedgerStep, Knows(at, w, s, todo[p], spool', brain')
      PROVE  IInv'
  <2>1. TrueOf(outcome[p], spool', brain')
    BY <1>1, <1>2, <1>5, TruthStays
  <2>2. /\ wanted' = [wanted EXCEPT ![p] = w]
        /\ todo' = [todo EXCEPT ![p] = todo[p]]
        /\ outcome' = [outcome EXCEPT ![p] = outcome[p]]
        /\ attests' \in 0..MaxAttests /\ failures' \in 0..MaxFailures
        /\ at \in Steps
    BY <1>1, <1>3, <1>4, <1>5
  <2>3. at = "check" \/ s \in Receipts
    BY <1>5
  <2>4. at \in {"write", "call", "unlink", "lookup", "settle"} => s \in Receipts
    BY <2>3
  <2>5. /\ pc' = [pc EXCEPT ![p] = at] /\ receipt' = [receipt EXCEPT ![p] = s]
        /\ LedgerStep /\ Knows(at, w, s, todo[p], spool', brain')
        /\ todo[p] \in SUBSET Receipts /\ w \in Receipts
        /\ outcome[p] \in [how : Outcomes, of : Receipts \cup {NoReceipt}]
    BY <1>1, <1>3, <1>5
  <2> QED
    BY <2>1, <2>2, <2>4, <2>5, CommandMoves
<1>6. CASE CheckFindsNone(p)
  <2>1. /\ LedgerStep /\ UNCHANGED <<spool, brain>>
        /\ pc' = [pc EXCEPT ![p] = "write"] /\ receipt' = [receipt EXCEPT ![p] = w]
    BY <1>6 DEF CheckFindsNone, LedgerStep, GoTo, w
  <2>2. Knows("write", w, w, todo[p], spool', brain')
    BY <1>2, <2>1 DEF Knows, SameFact
  <2> QED
    BY <1>3, <1>5, <2>1, <2>2
<1>7. CASE CheckFindsFact(p)
  <2>1. PICK s \in spool : SameFact(s, w) /\ receipt' = [receipt EXCEPT ![p] = s]
    BY <1>7 DEF CheckFindsFact, Pending, w
  <2>2. /\ LedgerStep /\ UNCHANGED <<spool, brain>> /\ pc' = [pc EXCEPT ![p] = "call"]
    BY <1>7 DEF CheckFindsFact, LedgerStep, GoTo
  <2>3. Knows("call", w, s, todo[p], spool', brain')
    BY <1>2, <2>1, <2>2 DEF Knows, Safe
  <2>4. s \in Receipts
    BY <1>1, <2>1
  <2> QED
    BY <1>5, <2>1, <2>2, <2>3, <2>4
<1>8. CASE Write(p)
  <2>1. /\ r \in Receipts /\ spool' = spool \cup {r} /\ UNCHANGED brain
        /\ pc' = [pc EXCEPT ![p] = "call"] /\ receipt' = [receipt EXCEPT ![p] = r]
        /\ pc[p] = "write"
    BY <1>1, <1>8 DEF Write, GoTo, r
  <2>2. LedgerStep
    BY <2>1 DEF LedgerStep
  <2>3. Knows("call", w, r, todo[p], spool', brain')
    BY <1>2, <2>1 DEF Knows, Safe
  <2> QED
    BY <1>5, <2>1, <2>2, <2>3
<1>9. CASE CallRecords(p)
  <2>1. /\ r \in Receipts /\ brain' = Takes(r) /\ UNCHANGED spool
        /\ pc' = [pc EXCEPT ![p] = "unlink"] /\ receipt' = [receipt EXCEPT ![p] = r]
        /\ pc[p] = "call" /\ RowsOf(r.key) \subseteq {r}
    BY <1>1, <1>9 DEF CallRecords, GoTo, r
  <2>2. LedgerStep
    BY <1>2, <2>1 DEF LedgerStep, Knows
  <2>3. r \in brain'
    BY <2>1 DEF Takes, RowsOf
  <2>4. Knows(pc[p], w, r, todo[p], spool', brain')
    BY <1>1, <1>2, <2>2, KnowledgeStays
  <2>5. Knows("unlink", w, r, todo[p], spool', brain')
    BY <2>1, <2>3, <2>4 DEF Knows
  <2> QED
    BY <1>5, <2>1, <2>2, <2>5
<1>10. CASE CallFindsKeyReused(p)
  <2>1. /\ r \in Receipts /\ LedgerStep /\ UNCHANGED <<spool, brain>>
        /\ pc' = [pc EXCEPT ![p] = "lookup"] /\ receipt' = [receipt EXCEPT ![p] = r]
        /\ pc[p] = "call" /\ KeyIn(brain, r)
    BY <1>1, <1>10 DEF CallFindsKeyReused, GoTo, r, LedgerStep, KeyIn, RowsOf
  <2>2. Knows("lookup", w, r, todo[p], spool', brain')
    BY <1>2, <2>1 DEF Knows
  <2> QED
    BY <1>5, <2>1, <2>2
<1>11. CASE LookupFindsRow(p)
  <2> DEFINE s == Subject(p)
  <2>1. /\ LedgerStep /\ UNCHANGED <<spool, brain>> /\ pc[p] \in {"find", "lookup"}
        /\ pc' = [pc EXCEPT ![p] = "settle"] /\ receipt' = [receipt EXCEPT ![p] = s]
        /\ KindIn(brain, s)
    BY <1>11 DEF LookupFindsRow, GoTo, LedgerStep, KindIn, HoldsKind, RowsOf
  <2>2. s \in Receipts /\ SameFact(s, w)
    BY <1>1, <1>2, <1>3, <2>1 DEF Subject, Knows, SameFact, w, r
  <2> HIDE DEF s
  <2>3. Knows("settle", w, s, todo[p], spool', brain')
    BY <1>2, <2>1, <2>2 DEF Knows
  <2> QED
    BY <1>5, <2>1, <2>2, <2>3
<1>12. CASE FindFindsNone(p)
  <2>1. /\ LedgerStep /\ UNCHANGED <<spool, brain>>
        /\ pc' = [pc EXCEPT ![p] = "check"] /\ receipt' = [receipt EXCEPT ![p] = r]
    BY <1>1, <1>12 DEF FindFindsNone, GoTo, LedgerStep
  <2>2. Knows("check", w, r, todo[p], spool', brain')
    BY <1>2, <2>1 DEF Knows
  <2> QED
    BY <1>1, <1>5, <2>1, <2>2
<1> QED
  BY <1>6, <1>7, <1>8, <1>9, <1>10, <1>11, <1>12, <1>5
  DEF CheckFindsNone, CheckFindsFact, Write, CallRecords, CallFindsKeyReused,
      LookupFindsRow, FindFindsNone, LedgerStep

\* The steps that end a receipt's turn tell the truth.
LEMMA EndsKeep ==
    ASSUME IInv, NEW p \in Processes,
           \/ CheckFindsOther(p) \/ CallFails(p) \/ Unlink(p)
           \/ LookupFindsNone(p) \/ LookupFails(p) \/ Settle(p)
    PROVE  LedgerStep /\ IInv'
<1> DEFINE w == wanted[p]
<1> DEFINE r == receipt[p]
<1>1. /\ spool \subseteq Receipts /\ brain \subseteq Receipts /\ OneRowPerKey
      /\ failures \in 0..MaxFailures /\ MaxFailures \in Nat
      /\ pc[p] \in {"write", "call", "unlink", "lookup", "settle"} => r \in Receipts
      /\ Knows(pc[p], w, r, todo[p], spool, brain)
  BY SpoolAssumption DEF IInv, TypeOK, ReceiptsKnown
<1>2. UNCHANGED <<todo, attests>> /\ failures' \in 0..MaxFailures
  BY <1>1 DEF CheckFindsOther, CallFails, Unlink, LookupFindsNone, LookupFails, Settle, Fails
<1> HIDE DEF w, r
<1>3. ASSUME NEW how \in Outcomes, Tell(p, how), LedgerStep,
             TrueOf([how |-> how, of |-> w], spool', brain')
      PROVE  IInv'
  BY <1>2, <1>3, TellKeeps DEF w
<1>4. CASE CheckFindsOther(p)
  <2>1. Tell(p, "key_taken") /\ LedgerStep /\ "key_taken" \in Outcomes
    BY <1>4 DEF CheckFindsOther, LedgerStep, Outcomes
  <2>2. TrueOf([how |-> "key_taken", of |-> w], spool', brain')
    BY DEF TrueOf
  <2> QED
    BY <1>3, <2>1, <2>2
<1>5. CASE CallFails(p)
  <2>1. /\ r \in Receipts /\ Tell(p, "unattested") /\ UNCHANGED spool
        /\ brain' \in {brain, Takes(r)} /\ pc[p] = "call" /\ "unattested" \in Outcomes
    BY <1>1, <1>5 DEF CallFails, Outcomes, r
  <2>2. Safe(r, spool, brain) /\ SameFact(r, w)
    BY <1>1, <2>1 DEF Knows
  <2>3. LedgerStep
    BY <2>1, <2>2 DEF LedgerStep
  <2>4. Safe(r, spool', brain')
    BY <1>1, <2>2, <2>3, LedgerKeeps
  <2>5. TrueOf([how |-> "unattested", of |-> w], spool', brain')
    BY <2>2, <2>4 DEF TrueOf, Safe, KindIn, KeyIn, SameFact
  <2> QED
    BY <1>3, <2>1, <2>3, <2>5
<1>6. CASE Unlink(p)
  <2>1. /\ r \in Receipts /\ Tell(p, "recorded") /\ spool' = spool \ {r}
        /\ UNCHANGED brain /\ pc[p] = "unlink" /\ "recorded" \in Outcomes
    BY <1>1, <1>6 DEF Unlink, Outcomes, r
  <2>2. r \in brain /\ SameFact(r, w)
    BY <1>1, <2>1 DEF Knows
  <2>3. LedgerStep
    BY <2>1, <2>2 DEF LedgerStep, KindIn
  <2>4. TrueOf([how |-> "recorded", of |-> w], spool', brain')
    BY <2>1, <2>2 DEF TrueOf
  <2> QED
    BY <1>3, <2>1, <2>3, <2>4
<1>7. CASE LookupFindsNone(p)
  <2>1. /\ Tell(p, "unattested") /\ LedgerStep /\ UNCHANGED <<spool, brain>>
        /\ pc[p] = "lookup" /\ "unattested" \in Outcomes
    BY <1>7 DEF LookupFindsNone, LedgerStep, Outcomes
  <2>2. KeyIn(brain, r) /\ SameFact(r, w)
    BY <1>1, <2>1 DEF Knows
  <2>3. TrueOf([how |-> "unattested", of |-> w], spool', brain')
    BY <2>1, <2>2 DEF TrueOf, KeyIn, SameFact
  <2> QED
    BY <1>3, <2>1, <2>3
<1>8. CASE LookupFails(p)
  <2>1. /\ Tell(p, "unattested") /\ LedgerStep /\ UNCHANGED <<spool, brain>>
        /\ pc[p] \in {"find", "lookup"} /\ "unattested" \in Outcomes
    BY <1>8 DEF LookupFails, LedgerStep, Outcomes
  <2>2. Safe(w, spool, brain) \/ (KeyIn(brain, r) /\ SameFact(r, w))
    BY <1>1, <2>1 DEF Knows
  <2>3. TrueOf([how |-> "unattested", of |-> w], spool', brain')
    BY <2>1, <2>2 DEF TrueOf, Safe, KeyIn, KindIn, SameFact
  <2> QED
    BY <1>3, <2>1, <2>3
<1>9. CASE Settle(p)
  <2>1. /\ r \in Receipts /\ spool' = spool \ {r} /\ UNCHANGED brain
        /\ pc[p] = "settle" /\ {"recorded", "conflict"} \subseteq Outcomes
    BY <1>1, <1>9 DEF Settle, Outcomes, r
  <2>2. KindIn(brain, r) /\ SameFact(r, w)
    BY <1>1, <2>1 DEF Knows
  <2>3. LedgerStep
    BY <2>1, <2>2 DEF LedgerStep
  <2>4. CASE \E row \in RowsOf(r.key) : SameFact(row, r)
    <3>1. Tell(p, "recorded")
      BY <1>9, <2>4 DEF Settle, r
    <3>2. TrueOf([how |-> "recorded", of |-> w], spool', brain')
      BY <2>1, <2>2, <2>4 DEF TrueOf, RowsOf, SameFact
    <3> QED
      BY <1>3, <2>1, <2>3, <3>1, <3>2
  <2>5. CASE ~ \E row \in RowsOf(r.key) : SameFact(row, r)
    <3>1. Tell(p, "conflict")
      BY <1>9, <2>5 DEF Settle, r
    <3>2. TrueOf([how |-> "conflict", of |-> w], spool', brain')
      BY <2>1, <2>2, <2>5 DEF TrueOf, RowsOf, SameFact, KindIn
    <3> QED
      BY <1>3, <2>1, <2>3, <3>1, <3>2
  <2> QED
    BY <2>4, <2>5
<1> QED
  BY <1>4, <1>5, <1>6, <1>7, <1>8, <1>9, TellKeeps, <1>1
  DEF CheckFindsOther, CallFails, Unlink, LookupFindsNone, LookupFails, Settle

\* A death leaves the files, the rows and the other commands as they are.
LEMMA CrashKeeps ==
    ASSUME IInv, NEW p \in Processes, Crash(p)
    PROVE  LedgerStep /\ IInv'
<1>1. LedgerStep /\ UNCHANGED <<spool, brain, attests>>
  BY DEF Crash, LedgerStep
<1>2. /\ pc' = [pc EXCEPT ![p] = "idle"]
      /\ wanted' = [wanted EXCEPT ![p] = NoReceipt]
      /\ receipt' = [receipt EXCEPT ![p] = NoReceipt]
      /\ todo' = [todo EXCEPT ![p] = {}]
      /\ outcome' = [outcome EXCEPT ![p] = NothingTold]
      /\ failures' = failures + 1 /\ failures < MaxFailures
  BY DEF Crash, GoTo, Fails
<1>3. /\ attests' \in 0..MaxAttests /\ failures' \in 0..MaxFailures
      /\ "idle" \in Steps
      /\ NothingTold \in [how : Outcomes, of : Receipts \cup {NoReceipt}]
  BY <1>1, <1>2, SpoolAssumption DEF IInv, TypeOK, Steps, NothingTold, Outcomes
<1>4. Knows("idle", NoReceipt, NoReceipt, {}, spool', brain')
  BY DEF Knows
<1>5. TrueOf(NothingTold, spool', brain')
  BY DEF TrueOf, NothingTold
<1> QED
  BY <1>1, <1>2, <1>3, <1>4, <1>5, CommandMoves

\* Every step is a step of the abstract ledger and preserves the invariant.
LEMMA NextKeeps == IInv /\ Next => LedgerStep /\ IInv'
BY StartsKeep, StepsKeep, EndsKeep, CrashKeeps DEF Next, Progress

\* Standing still preserves the invariant.
LEMMA StutterKeeps == IInv /\ UNCHANGED vars => IInv'
<1> SUFFICES ASSUME IInv, UNCHANGED vars PROVE IInv'
  OBVIOUS
<1>1. TypeOK' /\ OneRowPerKey'
  BY DEF vars, IInv, TypeOK, OneRowPerKey
<1>2. ReceiptsKnown' /\ ToldTrue'
  BY DEF vars, IInv, ReceiptsKnown, ToldTrue, Knows, TrueOf, Safe, KeyIn, KindIn
<1> QED
  BY <1>1, <1>2 DEF IInv

\* No receipts, no rows and idle commands satisfy the invariant.
LEMMA InitHolds == Init => IInv
<1> SUFFICES ASSUME Init PROVE IInv
  OBVIOUS
<1>1. TypeOK
  BY SpoolAssumption DEF Init, TypeOK, Steps, NothingTold, Outcomes
<1>2. OneRowPerKey /\ ReceiptsKnown /\ ToldTrue
  BY DEF Init, OneRowPerKey, ReceiptsKnown, ToldTrue, Knows, TrueOf, NothingTold
<1> QED
  BY <1>1, <1>2 DEF IInv

-----------------------------------------------------------------------------
(* The theorems.                                                           *)

\* The inductive invariant holds in every reachable state.
THEOREM Invariance == Spec => []IInv
<1>1. IInv /\ [Next]_vars => IInv'
  BY NextKeeps, StutterKeeps
<1> QED
  BY <1>1, InitHolds, PTL DEF Spec

\* The spool, brain and every command keep their types, and no command works
\* with a receipt it does not have.
THEOREM TypeCorrect == Spec => []TypeOK
<1>1. IInv => TypeOK
  BY DEF IInv
<1> QED
  BY <1>1, Invariance, PTL

\* What a command told its caller stays true for ever, for any number of
\* concurrent commands, facts, failures and deaths.
THEOREM OutcomesStayTrue == Spec => []OutcomesAreTrue
<1>1. IInv => OutcomesAreTrue
  <2> SUFFICES ASSUME IInv, NEW p \in Processes
               PROVE  LET r == outcome[p].of
                          waiting == \E s \in spool : SameFact(s, r)
                      IN  /\ outcome[p].how = "recorded" =>
                               \E row \in brain : SameFact(row, r)
                          /\ outcome[p].how = "conflict" =>
                               \E row \in RowsOf(r.key) :
                                 ~SameFact(row, r) /\ RowsOf(r.key) = {row}
                          /\ outcome[p].how = "unattested" =>
                               waiting \/ RowsOf(r.key) # {}
    BY DEF OutcomesAreTrue
  <2>1. TrueOf(outcome[p], spool, brain) /\ OneRowPerKey
    BY DEF IInv, ToldTrue
  <2> QED
    BY <2>1 DEF TrueOf, OneRowPerKey, RowsOf, KeyIn
<1> QED
  BY <1>1, Invariance, PTL

\* The files, the calls and the replays implement the promise of
\* EvidenceLedger: every row of brain was a receipt first, and a receipt
\* leaves the spool only behind a row of its key and kind.
THEOREM EvidenceRefined == Spec => EvidenceIsKept
<1>1. Init => Evidence!Init
  BY DEF Init, Evidence!Init
<1>2. LedgerStep /\ TypeOK => [Evidence!Next]_<<spool, brain>>
  <2> SUFFICES ASSUME LedgerStep, TypeOK PROVE [Evidence!Next]_<<spool, brain>>
    OBVIOUS
  <2>0. Receipts = Evidence!Receipts
    BY DEF Receipts, Evidence!Receipts
  <2>1. ASSUME NEW r \in Receipts, spool' = spool \cup {r}, UNCHANGED brain
        PROVE  Evidence!Next
    BY <2>0, <2>1 DEF Evidence!Next, Evidence!Owe
  <2>2. ASSUME NEW r \in Receipts, Safe(r, spool, brain), brain' = Takes(r), UNCHANGED spool
        PROVE  [Evidence!Next]_<<spool, brain>>
    <3>1. CASE RowsOf(r.key) = {}
      <4>1. r \in spool /\ ~Evidence!HeldKey(r.key) /\ brain' = brain \cup {r}
        BY <2>2, <3>1 DEF Takes, Safe, KindIn, RowsOf, Evidence!HeldKey
      <4> QED
        BY <2>0, <2>2, <4>1 DEF Evidence!Next, Evidence!Hold
    <3>2. CASE RowsOf(r.key) # {}
      BY <2>2, <3>2 DEF Takes
    <3> QED
      BY <3>1, <3>2
  <2>3. ASSUME NEW r \in Receipts, KindIn(brain, r), spool' = spool \ {r}, UNCHANGED brain
        PROVE  Evidence!Next
    BY <2>0, <2>3 DEF Evidence!Next, Evidence!Discharge, KindIn
  <2> QED
    BY <2>1, <2>2, <2>3 DEF LedgerStep
<1>3. IInv /\ [Next]_vars => [Evidence!Next]_Evidence!vars
  <2> SUFFICES ASSUME IInv, [Next]_vars PROVE [Evidence!Next]_<<spool, brain>>
    BY DEF Evidence!vars
  <2>1. CASE UNCHANGED vars
    BY <2>1 DEF vars
  <2>2. CASE Next
    BY <1>2, <2>2, NextKeeps DEF IInv
  <2> QED
    BY <2>1, <2>2
<1> QED
  BY <1>1, <1>3, Invariance, PTL DEF Spec, EvidenceIsKept, Evidence!Spec

-----------------------------------------------------------------------------
(***************************************************************************)
(* FlowTimeline: the inductive invariant.                                  *)
(***************************************************************************)

\* What began before the merge is all that ever counts.
Early == {r \in Runs : began[r] # Absent /\ began[r] < Merged}

\* What GitHub tells of a run once it tells everything.
Truth(r) == [run |-> r, started |-> began[r], completed |-> ended[r]]

\* The reading that tells all that counts.
TrueEvidence == GitHubEvidence(suites, {Truth(r) : r \in Early}, statuses, {})

\* A run begins before it ends, and is told to have begun, or ended, if it did.
RunsKnown ==
    /\ began \in [Runs -> Nat \cup {Absent}]
    /\ ended \in [Runs -> Nat \cup {Absent}]
    /\ told \in [Runs -> {"nothing", "queued", "in_progress", "completed"}]
    /\ \A r \in Runs :
        /\ began[r] # Absent => began[r] <= now
        /\ ended[r] # Absent => began[r] # Absent /\ began[r] <= ended[r] /\ ended[r] <= now
        /\ told[r] = "in_progress" => began[r] # Absent
        /\ told[r] = "completed" => ended[r] # Absent

Statuses == [id : Nat, at : Nat, kind : {"run", "carried"}, start : Nat]

VerdictReceipts ==
    [id : Nat, at : Nat, final : BOOLEAN, judged : BOOLEAN, carried : BOOLEAN,
     run : ReviewerRuns]

\* What is posted, or recorded, is numbered in turn, and is of no time later than now.
Numbered(S, n) ==
    /\ IsFiniteSet(S)
    /\ \A s \in S : s.at \in Nat /\ s.at <= n /\ s.id \in Nat /\ s.id <= Cardinality(S)
    /\ \A s, o \in S : s.id = o.id => s = o

EventsKnown ==
    /\ now \in Nat
    /\ suites \in SUBSET Nat /\ \A s \in suites : s <= now
    /\ statuses \in SUBSET Statuses /\ Numbered(statuses, now)
    /\ \A s \in statuses : s.start <= s.at
    /\ receipts \in SUBSET VerdictReceipts /\ Numbered(receipts, now)

ReadingKnown == reading # Absent => reading \in Nat /\ Merged <= reading /\ reading <= now

\* What GitHub is late with is told when a reading may be complete.
AllTold == now > Merged + Maturity => \A r \in Early : told[r] \in {"in_progress", "completed"}

\* Nothing that counts can happen any more.
EarlyDone == now > Merged + Maturity /\ \A r \in Early : told[r] = "completed"

\* What a reading tells of runs that started before the merge.
StartedEarly(rs) == {x \in rs : x.started # Absent /\ ~(x.started >= Merged)}

\* What one reading tells that another tells too, as far as it was read.
Agrees(e, d) ==
    /\ "suites" \in e.unread => e.suites = {}
    /\ "suites" \notin e.unread => {s \in e.suites : s <= Merged} = {s \in d.suites : s <= Merged}
    /\ "runs" \in e.unread => e.runs = {}
    /\ "runs" \notin e.unread => StartedEarly(e.runs) = StartedEarly(d.runs)
    /\ "statuses" \in e.unread => e.statuses = {}
    /\ "statuses" \notin e.unread =>
          {s \in e.statuses : s.at <= Merged} = {s \in d.statuses : s.at <= Merged}

\* Every source was read, and every run it tells of started.
Whole(e) == e.unread = {} /\ \A x \in e.runs : x.started # Absent

\* A complete entry tells what is over, and tells it all.
CacheTrue ==
    (IF cache = Absent THEN FALSE ELSE cache.complete) =>
        EarlyDone /\ Whole(cache.evidence) /\ Agrees(cache.evidence, TrueEvidence)

\* What was published from one is what the truth tells, of the ledger it read or of none.
SettledTrue ==
    settled => /\ EarlyDone
               /\ \E f \in {NoFacts, ReviewFacts(read)} : published = Timeline(TrueEvidence, f)

ReadKnown == scope \in Scopes /\ read \subseteq receipts

FlowInv ==
    /\ EventsKnown /\ RunsKnown /\ ReadingKnown /\ AllTold /\ CacheTrue /\ SettledTrue
    /\ ReadKnown

-----------------------------------------------------------------------------
(* What two readings that agree tell.                                      *)

\* The intervals of some runs.
IntervalsIn(rs, R, push) == IntervalsOf({r \in rs : r.run \in R}, push)

\* Only the runs that started before the merge have intervals.
LEMMA EarlyIntervals ==
    ASSUME NEW rs, NEW qs, NEW R, NEW push, StartedEarly(rs) = StartedEarly(qs)
    PROVE  IntervalsIn(rs, R, push) = IntervalsIn(qs, R, push)
<1>1. \A r : r.started = Absent \/ r.started >= Merged => RunInterval(r, push) = Absent
  BY DEF RunInterval
<1>2. \A r : r \in StartedEarly(rs) <=> r \in rs /\ ~(r.started = Absent \/ r.started >= Merged)
  BY DEF StartedEarly
<1>3. \A r : r \in StartedEarly(qs) <=> r \in qs /\ ~(r.started = Absent \/ r.started >= Merged)
  BY DEF StartedEarly
<1>4. ASSUME NEW i, i \in IntervalsOf({r \in rs : r.run \in R}, push)
      PROVE  i \in IntervalsOf({r \in qs : r.run \in R}, push)
  BY <1>1, <1>2, <1>3, <1>4 DEF IntervalsOf
<1>5. ASSUME NEW i, i \in IntervalsOf({r \in qs : r.run \in R}, push)
      PROVE  i \in IntervalsOf({r \in rs : r.run \in R}, push)
  BY <1>1, <1>2, <1>3, <1>5 DEF IntervalsOf
<1> QED BY <1>4, <1>5 DEF IntervalsIn

\* A timeline with its parts named.
CiOf(e, push) == IntervalsIn(e.runs, CiRuns, push)

ReviewerOf(e, push) == IntervalsIn(e.runs, ReviewerRuns, push)

ReviewOf(e, push, run) == IntervalsIn(e.runs, ReviewerRuns \cap {run}, push)

JudgedAt(j, push) == IF j.verdict = Absent THEN FALSE ELSE j.verdict >= push

JudgingAt(j, push) ==
    IF JudgedAt(j, push) /\ j.start # Absent THEN {<<Later(j.start, push), j.verdict>>} ELSE {}

QueuedOf(e, R) == \E r \in {q \in e.runs : q.run \in R} : r.started = Absent

Measured(push, ciKnown, ci, review, judge, free, facts) ==
    LET first == First({i[1] : i \in ci})
        judged == JudgedAt(judge, push)
        judging == JudgingAt(judge, push)
    IN  [flow |-> Merged - push,
         ciStart |-> IF ciKnown THEN first - push ELSE Absent,
         ci |-> IF ciKnown THEN Last1({i[2] : i \in ci}) - first ELSE Absent,
         longest |-> IF ciKnown THEN Last1({i[2] - i[1] : i \in ci}) ELSE Absent,
         reviewStart |-> IF review # {} THEN First({i[1] : i \in review}) - push ELSE Absent,
         review |-> IF facts.carried = TRUE THEN 0
                    ELSE IF review # {} THEN Last1({i[2] - i[1] : i \in review}) ELSE Absent,
         rounds |-> facts.rounds,
         judgeWait |-> IF judged THEN judge.verdict - push ELSE Absent,
         judge |-> IF judging # {} THEN judge.verdict - Later(judge.start, push) ELSE Absent,
         idle |-> free]

IdleOf(e, push) ==
    IF /\ {"runs", "statuses"} \cap e.unread = {}
       /\ ~ \E r \in {q \in e.runs : q.run \in CiRuns} \cup {q \in e.runs : q.run \in ReviewerRuns} :
              r.started = Absent
    THEN Merged - push -
           UnionMinutes(CiOf(e, push) \cup ReviewerOf(e, push) \cup JudgingAt(JudgeFacts(e.statuses), push),
                        push, Merged)
    ELSE Absent

LEMMA TimelineParts ==
    ASSUME NEW e, NEW facts
    PROVE  LET push == PushProxy(e.suites) IN
           Timeline(e, facts) =
             IF push = Absent THEN Absent
             ELSE Measured(push, CiOf(e, push) # {} /\ ~QueuedOf(e, CiRuns), CiOf(e, push),
                           ReviewOf(e, push, facts.run), JudgeFacts(e.statuses),
                           IdleOf(e, push), facts)
<1>1. \A run : {r \in {q \in e.runs : q.run \in ReviewerRuns} : r.run = run}
                 = {r \in e.runs : r.run \in ReviewerRuns \cap {run}}
  OBVIOUS
<1> QED
  BY <1>1 DEF Timeline, Measured, CiOf, ReviewOf, IntervalsIn, QueuedOf, IdleOf, ReviewerOf, JudgedAt,
              JudgingAt

LEMMA SegmentsAre ==
    ASSUME NEW T, NEW U, Segments = DOMAIN T,
           T.flow \in U.flow, T.ciStart \in U.ciStart, T.ci \in U.ci, T.longest \in U.longest,
           T.reviewStart \in U.reviewStart, T.review \in U.review, T.rounds \in U.rounds,
           T.judgeWait \in U.judgeWait, T.judge \in U.judge, T.idle \in U.idle
    PROVE  \A s \in Segments : T[s] \in U[s]
BY DEF Segments

\* A reading that agrees with a whole one says the same of a segment, or nothing.
LEMMA TimelinesAgree ==
    ASSUME NEW e, NEW d, NEW facts, Whole(d), Agrees(e, d)
    PROVE  /\ \/ Timeline(e, facts) = Absent
              \/ \A s \in Segments :
                    Timeline(e, facts)[s] \in {Timeline(d, facts)[s], Absent}
           /\ Whole(e) => Timeline(e, facts) = Timeline(d, facts)
<1> DEFINE push == PushProxy(d.suites)
<1>1. CASE "suites" \in e.unread
  <2>1. PushProxy(e.suites) = Absent BY <1>1 DEF Agrees, PushProxy
  <2>2. Timeline(e, facts) = Absent BY <2>1, TimelineParts
  <2> QED BY <1>1, <2>2 DEF Whole
<1>2. CASE "suites" \notin e.unread /\ push = Absent
  <2>1. PushProxy(e.suites) = push BY <1>2 DEF Agrees, PushProxy
  <2>2. Timeline(e, facts) = Absent /\ Timeline(d, facts) = Absent
    BY <1>2, <2>1, TimelineParts
  <2> QED BY <2>2
<1>3. CASE "suites" \notin e.unread /\ push # Absent
  <2>1. PushProxy(e.suites) = push BY <1>3 DEF Agrees, PushProxy
  <2> HIDE DEF push
  <2>2. Timeline(e, facts) =
          Measured(push, CiOf(e, push) # {} /\ ~QueuedOf(e, CiRuns), CiOf(e, push),
                   ReviewOf(e, push, facts.run), JudgeFacts(e.statuses), IdleOf(e, push), facts)
    BY <1>3, <2>1, TimelineParts
  <2>3. Timeline(d, facts) =
          Measured(push, CiOf(d, push) # {} /\ ~QueuedOf(d, CiRuns), CiOf(d, push),
                   ReviewOf(d, push, facts.run), JudgeFacts(d.statuses), IdleOf(d, push), facts)
    BY <1>3, TimelineParts DEF push
  <2>4. /\ ~QueuedOf(d, CiRuns) /\ {"runs", "statuses"} \cap d.unread = {}
        /\ ~ \E r \in {q \in d.runs : q.run \in CiRuns} \cup {q \in d.runs : q.run \in ReviewerRuns} :
               r.started = Absent
    BY DEF Whole, QueuedOf
  <2>5. "runs" \in e.unread => /\ CiOf(e, push) = {} /\ ReviewOf(e, push, facts.run) = {}
                               /\ IdleOf(e, push) = Absent
    <3>1. \A R : IntervalsIn({}, R, push) = {} BY DEF IntervalsIn, IntervalsOf
    <3> QED BY <3>1 DEF Agrees, CiOf, ReviewOf, IdleOf
  <2>6. "runs" \notin e.unread => /\ CiOf(e, push) = CiOf(d, push)
                                  /\ ReviewerOf(e, push) = ReviewerOf(d, push)
                                  /\ ReviewOf(e, push, facts.run) = ReviewOf(d, push, facts.run)
    <3> SUFFICES ASSUME "runs" \notin e.unread
                 PROVE  /\ CiOf(e, push) = CiOf(d, push)
                        /\ ReviewerOf(e, push) = ReviewerOf(d, push)
                        /\ ReviewOf(e, push, facts.run) = ReviewOf(d, push, facts.run)
      OBVIOUS
    <3>1. StartedEarly(e.runs) = StartedEarly(d.runs) BY DEF Agrees
    <3>2. CiOf(e, push) = CiOf(d, push) BY <3>1, EarlyIntervals DEF CiOf
    <3>3. ReviewerOf(e, push) = ReviewerOf(d, push) BY <3>1, EarlyIntervals DEF ReviewerOf
    <3>5. ReviewOf(e, push, facts.run) = ReviewOf(d, push, facts.run)
      BY <3>1, EarlyIntervals DEF ReviewOf
    <3> QED BY <3>2, <3>3, <3>5
  <2>7. "statuses" \in e.unread => /\ JudgeFacts(e.statuses).verdict = Absent
                                   /\ IdleOf(e, push) = Absent
    BY DEF Agrees, JudgeFacts, NoVerdict, IdleOf
  <2>8. "statuses" \notin e.unread => JudgeFacts(e.statuses) = JudgeFacts(d.statuses)
    BY DEF Agrees, JudgeFacts
  <2>9. IdleOf(e, push) \in {IdleOf(d, push), Absent}
    <3>1. CASE "runs" \in e.unread BY <3>1, <2>5
    <3>2. CASE "statuses" \in e.unread BY <3>2, <2>7
    <3>3. CASE "runs" \notin e.unread /\ "statuses" \notin e.unread
      BY <3>3, <2>4, <2>6, <2>8 DEF IdleOf
    <3> QED BY <3>1, <3>2, <3>3
  <2>10. ASSUME Whole(e)  PROVE Timeline(e, facts) = Timeline(d, facts)
    <3>1. /\ "runs" \notin e.unread /\ "statuses" \notin e.unread
          /\ ~QueuedOf(e, CiRuns) /\ {"runs", "statuses"} \cap e.unread = {}
          /\ ~ \E r \in {q \in e.runs : q.run \in CiRuns} \cup {q \in e.runs : q.run \in ReviewerRuns} :
                 r.started = Absent
      BY <2>10 DEF Whole, QueuedOf
    <3>2. IdleOf(e, push) = IdleOf(d, push) BY <3>1, <2>4, <2>6, <2>8 DEF IdleOf
    <3>3. /\ (CiOf(e, push) # {} /\ ~QueuedOf(e, CiRuns)) = (CiOf(d, push) # {} /\ ~QueuedOf(d, CiRuns))
      BY <3>1, <2>4, <2>6
    <3> QED BY <2>2, <2>3, <2>6, <2>8, <3>1, <3>2, <3>3
  <2> DEFINE T == Timeline(e, facts)
             U == Timeline(d, facts)
             V == [s \in Segments |-> {U[s], Absent}]
  <2>11. \A s \in Segments : T[s] \in V[s]
    <3>0. V.flow = {U.flow, Absent} /\ V.ciStart = {U.ciStart, Absent} /\ V.ci = {U.ci, Absent}
          /\ V.longest = {U.longest, Absent} /\ V.reviewStart = {U.reviewStart, Absent}
          /\ V.review = {U.review, Absent} /\ V.rounds = {U.rounds, Absent}
          /\ V.judgeWait = {U.judgeWait, Absent} /\ V.judge = {U.judge, Absent}
          /\ V.idle = {U.idle, Absent}
      BY DEF Segments
    <3> HIDE DEF V
    <3>1. T.flow \in V.flow /\ T.rounds \in V.rounds BY <2>2, <2>3, <3>0 DEF Measured
    <3>2. T.ciStart \in V.ciStart /\ T.ci \in V.ci /\ T.longest \in V.longest
      <4>1. CASE "runs" \in e.unread BY <4>1, <2>2, <2>5, <3>0 DEF Measured
      <4>2. CASE "runs" \notin e.unread BY <4>2, <2>2, <2>3, <2>4, <2>6, <3>0 DEF Measured
      <4> QED BY <4>1, <4>2
    <3>3. T.reviewStart \in V.reviewStart /\ T.review \in V.review
      <4>1. CASE "runs" \in e.unread BY <4>1, <2>2, <2>3, <2>5, <3>0 DEF Measured
      <4>2. CASE "runs" \notin e.unread
        <5>1. ReviewOf(e, push, facts.run) = ReviewOf(d, push, facts.run) BY <4>2, <2>6
        <5>2. T.reviewStart = U.reviewStart /\ T.review = U.review BY <5>1, <2>2, <2>3 DEF Measured
        <5> QED BY <5>2, <3>0
      <4> QED BY <4>1, <4>2
    <3>4. T.judgeWait \in V.judgeWait /\ T.judge \in V.judge
      <4>1. CASE "statuses" \in e.unread BY <4>1, <2>2, <2>7, <3>0 DEF Measured, JudgedAt, JudgingAt
      <4>2. CASE "statuses" \notin e.unread BY <4>2, <2>2, <2>3, <2>8, <3>0 DEF Measured
      <4> QED BY <4>1, <4>2
    <3>5. T.idle \in V.idle BY <2>2, <2>3, <2>9, <3>0 DEF Measured
    <3>6. Segments = DOMAIN T BY <2>2 DEF Measured, Segments
    <3> HIDE DEF T
    <3> QED BY <3>1, <3>2, <3>3, <3>4, <3>5, <3>6, SegmentsAre
  <2>12. \A s \in Segments : T[s] \in {U[s], Absent} BY <2>11
  <2> QED BY <2>10, <2>12
<1> QED BY <1>1, <1>2, <1>3

\* What the ledger tells changes only what it tells of.
LEMMA FactsAgree ==
    ASSUME NEW e, NEW facts, NEW s \in Segments, PushProxy(e.suites) # Absent
    PROVE  /\ Timeline(e, NoFacts).rounds = Absent
           /\ Timeline(e, NoFacts)[s] \in {Timeline(e, facts)[s], Absent}
           /\ s \notin {"reviewStart", "review", "rounds"}
                => Timeline(e, NoFacts)[s] = Timeline(e, facts)[s]
<1> DEFINE push == PushProxy(e.suites)
           ci == CiOf(e, push)
           known == ci # {} /\ ~QueuedOf(e, CiRuns)
           T == Timeline(e, NoFacts)
           U == Timeline(e, facts)
<1>2. /\ T = Measured(push, known, ci, ReviewOf(e, push, NoFacts.run), JudgeFacts(e.statuses),
                     IdleOf(e, push), NoFacts)
      /\ U = Measured(push, known, ci, ReviewOf(e, push, facts.run), JudgeFacts(e.statuses),
                     IdleOf(e, push), facts)
  BY TimelineParts
<1>3. ReviewOf(e, push, NoFacts.run) = {}
  <2>1. NoFacts.run \notin ReviewerRuns BY AbsentAssumption DEF NoFacts, Runs
  <2>2. ReviewerRuns \cap {NoFacts.run} = {} BY <2>1
  <2> QED BY <2>2 DEF ReviewOf, IntervalsIn, IntervalsOf
<1> HIDE DEF push, ci, known, T, U
<1>4. /\ T.reviewStart = Absent /\ T.review = Absent /\ T.rounds = Absent
  BY <1>2, <1>3, AbsentAssumption DEF Measured, NoFacts
<1>5. /\ T.flow = U.flow /\ T.ciStart = U.ciStart /\ T.ci = U.ci /\ T.longest = U.longest
      /\ T.judgeWait = U.judgeWait /\ T.judge = U.judge /\ T.idle = U.idle
  BY <1>2 DEF Measured
<1>6. T.rounds = Absent /\ T[s] \in {U[s], Absent}
      /\ (s \notin {"reviewStart", "review", "rounds"} => T[s] = U[s])
  <2>1. CASE s \in {"reviewStart", "review", "rounds"} BY <2>1, <1>4
  <2>2. CASE s \in {"flow", "ciStart", "ci", "longest"} BY <2>2, <1>4, <1>5
  <2>3. CASE s \in {"judgeWait", "judge", "idle"} BY <2>3, <1>4, <1>5
  <2> QED BY <2>1, <2>2, <2>3 DEF Segments
<1> QED BY <1>6 DEF T, U
-----------------------------------------------------------------------------
(* The inductive invariant: every step.                                    *)

\* The next one posted has the next number.
LEMMA NumberedAfter ==
    ASSUME NEW S, NEW x, NEW n \in Nat, Numbered(S, n), x.id = Cardinality(S) + 1,
           x.at \in 0..n
    PROVE  Numbered(S \cup {x}, n)
<1> USE DEF Numbered
<1>1. Cardinality(S) \in Nat BY FS_CardinalityType
<1>2. x \notin S BY <1>1
<1>3. IsFiniteSet(S \cup {x}) /\ Cardinality(S \cup {x}) = Cardinality(S) + 1
  BY <1>2, FS_AddElement
<1>4. ASSUME NEW s \in S \cup {x} PROVE s.at \in Nat /\ s.at <= n /\ s.id \in Nat /\ s.id <= Cardinality(S \cup {x})
  BY <1>1, <1>3
<1>5. ASSUME NEW s \in S \cup {x}, NEW o \in S \cup {x}, s.id = o.id PROVE s = o
  BY <1>1, <1>5
<1> QED BY <1>3, <1>4, <1>5

EventsSame == UNCHANGED <<now, suites, statuses, receipts>>

LEMMA EventsStay ==
    ASSUME FlowInv, EventsSame
    PROVE  EventsKnown'
BY DEF FlowInv, EventsKnown, Numbered, EventsSame

\* What happened, and when, is known at every step.
LEMMA EventsKeep ==
    ASSUME FlowInv, FlowNext
    PROVE  EventsKnown'
<1> USE DEF FlowInv
<1>1. CASE Tick
  <2>1. now' = now + 1 /\ suites' = suites /\ statuses' = statuses /\ receipts' = receipts
    BY <1>1 DEF Tick
  <2>2. \A s \in statuses : s.at \in Nat BY DEF EventsKnown, Statuses
  <2>3. \A s \in receipts : s.at \in Nat BY DEF EventsKnown, VerdictReceipts
  <2> QED BY <2>1, <2>2, <2>3 DEF EventsKnown, Numbered
<1>2. CASE CreateSuite
  <2>1. suites' = suites \cup {now} /\ now' = now /\ statuses' = statuses /\ receipts' = receipts
    BY <1>2 DEF CreateSuite
  <2> QED BY <2>1 DEF EventsKnown, Numbered
<1>3. ASSUME NEW r \in Runs, Queue(r) \/ Starts(r) \/ Ends(r) \/ Tells(r) PROVE EventsKnown'
  <2>1. EventsSame BY <1>3 DEF Queue, Starts, Ends, Tells, EventsSame
  <2> QED BY <2>1, EventsStay
<1>4. ASSUME NEW kind \in {"run", "carried"}, NEW start \in 0..now, Post(kind, start)
      PROVE  EventsKnown'
  <2> DEFINE x == [id |-> Cardinality(statuses) + 1, at |-> now, kind |-> kind, start |-> start]
  <2>1. statuses' = statuses \cup {x} /\ now' = now /\ suites' = suites /\ receipts' = receipts
    BY <1>4 DEF Post
  <2>2. IsFiniteSet(statuses) /\ Cardinality(statuses) \in Nat /\ now \in Nat
    BY FS_CardinalityType DEF EventsKnown, Numbered
  <2>3. x \in Statuses /\ x.id = Cardinality(statuses) + 1 /\ x.at = now /\ x.start <= x.at
    BY <2>2 DEF Statuses
  <2>4. Numbered(statuses, now) BY DEF EventsKnown
  <2> HIDE DEF x
  <2>6. Numbered(statuses \cup {x}, now) BY <2>2, <2>3, <2>4, NumberedAfter
  <2> QED BY <2>1, <2>3, <2>6 DEF EventsKnown
<1>5. ASSUME NEW v \in scope.verdicts, Receive(v) PROVE EventsKnown'
  <2> DEFINE x == [id |-> Cardinality(receipts) + 1, at |-> v.at, final |-> v.final,
                   judged |-> v.judged, carried |-> v.carried, run |-> v.run]
  <2>1. receipts' = receipts \cup {x} /\ now' = now /\ suites' = suites /\ statuses' = statuses
    BY <1>5 DEF Receive
  <2>2. IsFiniteSet(receipts) /\ Cardinality(receipts) \in Nat /\ now \in Nat
    BY FS_CardinalityType DEF EventsKnown, Numbered
  <2>3. v \in [at : Nat, final : BOOLEAN, judged : BOOLEAN, carried : BOOLEAN, run : ReviewerRuns]
    BY VerdictsAssumption DEF ReadKnown
  <2>4. x \in VerdictReceipts /\ x.id = Cardinality(receipts) + 1 /\ x.at \in 0..now
    BY <1>5, <2>2, <2>3 DEF VerdictReceipts, Receive
  <2>5. Numbered(receipts, now) BY DEF EventsKnown
  <2> HIDE DEF x
  <2>6. Numbered(receipts \cup {x}, now) BY <2>2, <2>4, <2>5, NumberedAfter
  <2> QED BY <2>1, <2>4, <2>6 DEF EventsKnown
<1>6. CASE Begin
  <2>1. EventsSame BY <1>6 DEF Begin, EventsSame
  <2> QED BY <2>1, EventsStay
<1>7. ASSUME NEW unread, NEW written, Publish(unread, written) PROVE EventsKnown'
  <2>1. EventsSame BY <1>7 DEF Publish, EventsSame
  <2> QED BY <2>1, EventsStay
<1>8. CASE Lose
  <2>1. EventsSame BY <1>8 DEF Lose, EventsSame
  <2> QED BY <2>1, EventsStay
<1>9. \A start \in 0..now : Post("run", start) => EventsKnown' BY <1>4
<1>10. Post("carried", 0) => EventsKnown'
  <2>1. 0 \in 0..now BY DEF EventsKnown
  <2> QED BY <2>1, <1>4
<1> QED BY <1>1, <1>2, <1>3, <1>5, <1>6, <1>7, <1>8, <1>9, <1>10 DEF FlowNext

RunsSame == now' \in Nat /\ now <= now' /\ UNCHANGED OfRuns

LEMMA RunsStay ==
    ASSUME FlowInv, RunsSame
    PROVE  RunsKnown' /\ Early' = Early
<1>1. /\ began' = began /\ ended' = ended /\ told' = told
      /\ now \in Nat /\ now' \in Nat /\ now <= now'
  BY DEF RunsSame, OfRuns, FlowInv, EventsKnown
<1>2. ASSUME NEW r \in Runs
      PROVE  /\ began[r] # Absent => began[r] <= now'
             /\ ended[r] # Absent => began[r] # Absent /\ began[r] <= ended[r] /\ ended[r] <= now'
  <2>1. (began[r] # Absent => began[r] \in Nat) /\ (ended[r] # Absent => ended[r] \in Nat)
    BY DEF FlowInv, RunsKnown
  <2> QED BY <1>1, <2>1 DEF FlowInv, RunsKnown
<1> QED BY <1>1, <1>2 DEF RunsKnown, Early, FlowInv

\* A step of one run, which began no earlier than the step if it was told nothing.
LEMMA RunsKeep ==
    ASSUME FlowInv, NEW r \in Runs, Queue(r) \/ Starts(r) \/ Ends(r) \/ Tells(r)
    PROVE  RunsKnown' /\ AllTold'
           /\ (EarlyDone => /\ Early' = Early /\ EarlyDone'
                            /\ \A q \in Early : began'[q] = began[q] /\ ended'[q] = ended[q])
<1> USE DEF FlowInv
<1>0. now' = now /\ now \in Nat /\ Merged \in Nat /\ Maturity \in Nat
  BY TimesAssumption DEF Queue, Starts, Ends, Tells, EventsKnown
<1>1. CASE Queue(r)
  <2>1. told' = [told EXCEPT ![r] = "queued"] /\ began' = began /\ ended' = ended
        /\ told[r] = "nothing" /\ began[r] = Absent
    BY <1>1 DEF Queue
  <2>2. RunsKnown' BY <1>0, <2>1 DEF RunsKnown
  <2>3. Early' = Early /\ r \notin Early BY <2>1 DEF Early
  <2>4. \A q \in Runs : q # r => told'[q] = told[q] BY <2>1 DEF RunsKnown
  <2>5. \A q \in Early : q \in Runs /\ told'[q] = told[q] BY <2>3, <2>4 DEF Early
  <2> QED BY <1>0, <2>1, <2>2, <2>3, <2>5 DEF AllTold, EarlyDone
<1>2. CASE Starts(r)
  <2>1. began' = [began EXCEPT ![r] = now] /\ ended' = ended /\ began[r] = Absent
        /\ (told' = [told EXCEPT ![r] = "in_progress"] \/ told' = told)
    BY <1>2 DEF Starts
  <2>2. \A q \in Runs : q # r => told'[q] = told[q] /\ began'[q] = began[q]
    BY <2>1 DEF RunsKnown
  <2>3. began'[r] = now /\ now # Absent /\ (told'[r] = "in_progress" \/ told'[r] = told[r])
        /\ ended[r] = Absent /\ told[r] \in {"nothing", "queued"}
        /\ told' \in [Runs -> {"nothing", "queued", "in_progress", "completed"}]
    BY <1>0, <2>1, AbsentAssumption DEF RunsKnown
  <2>4. RunsKnown'
    <3>1. began' \in [Runs -> Nat \cup {Absent}] /\ ended' \in [Runs -> Nat \cup {Absent}]
      BY <1>0, <2>1 DEF RunsKnown
    <3>2. ASSUME NEW q \in Runs
          PROVE  /\ began'[q] # Absent => began'[q] <= now
                 /\ ended'[q] # Absent => began'[q] # Absent /\ began'[q] <= ended'[q] /\ ended'[q] <= now
                 /\ told'[q] = "in_progress" => began'[q] # Absent
                 /\ told'[q] = "completed" => ended'[q] # Absent
      <4>1. CASE q = r BY <4>1, <1>0, <2>1, <2>3
      <4>2. CASE q # r BY <4>2, <2>1, <2>2 DEF RunsKnown
      <4> QED BY <4>1, <4>2
    <3> QED BY <1>0, <2>3, <3>1, <3>2 DEF RunsKnown
  <2>5. \A q \in Early : q \in Runs /\ q # r /\ told'[q] = told[q] /\ began'[q] = began[q]
    BY <2>1, <2>2 DEF Early
  <2>6. now > Merged + Maturity => Early' = Early BY <1>0, <2>2, <2>3, <2>5 DEF Early
  <2> QED BY <1>0, <2>1, <2>4, <2>5, <2>6 DEF AllTold, EarlyDone
<1>3. CASE Ends(r)
  <2>1. ended' = [ended EXCEPT ![r] = now] /\ began' = began /\ ended[r] = Absent /\ began[r] # Absent
        /\ (told' = [told EXCEPT ![r] = "completed"] \/ told' = told)
    BY <1>3 DEF Ends
  <2>2. \A q \in Runs : q # r => told'[q] = told[q] /\ ended'[q] = ended[q]
    BY <2>1 DEF RunsKnown
  <2>3. ended'[r] = now /\ now # Absent /\ (told'[r] = "completed" \/ told'[r] = told[r])
        /\ told[r] # "completed" /\ began[r] \in Nat /\ began[r] <= now
        /\ told' \in [Runs -> {"nothing", "queued", "in_progress", "completed"}]
    BY <1>0, <2>1, AbsentAssumption DEF RunsKnown
  <2>4. RunsKnown'
    <3>1. began' \in [Runs -> Nat \cup {Absent}] /\ ended' \in [Runs -> Nat \cup {Absent}]
      BY <1>0, <2>1 DEF RunsKnown
    <3>2. ASSUME NEW q \in Runs
          PROVE  /\ began'[q] # Absent => began'[q] <= now
                 /\ ended'[q] # Absent => began'[q] # Absent /\ began'[q] <= ended'[q] /\ ended'[q] <= now
                 /\ told'[q] = "in_progress" => began'[q] # Absent
                 /\ told'[q] = "completed" => ended'[q] # Absent
      <4>1. CASE q = r BY <4>1, <1>0, <2>1, <2>3
      <4>2. CASE q # r BY <4>2, <2>1, <2>2 DEF RunsKnown
      <4> QED BY <4>1, <4>2
    <3> QED BY <1>0, <2>3, <3>1, <3>2 DEF RunsKnown
  <2>5. Early' = Early BY <2>1 DEF Early
  <2>6. \A q \in Early : q \in Runs /\ (told'[q] = told[q] \/ told'[q] = "completed")
    BY <2>2, <2>3 DEF Early
  <2>7. AllTold' BY <1>0, <2>5, <2>6 DEF AllTold
  <2>8. EarlyDone => EarlyDone' /\ \A q \in Early : ended'[q] = ended[q]
    <3>1. EarlyDone => \A q \in Early : q # r /\ q \in Runs BY <2>3 DEF EarlyDone, Early
    <3> QED BY <1>0, <2>2, <2>5, <3>1 DEF EarlyDone
  <2> QED BY <2>1, <2>4, <2>5, <2>7, <2>8
<1>4. CASE Tells(r)
  <2> DEFINE what == IF ended[r] = Absent THEN "in_progress" ELSE "completed"
  <2>1. began' = began /\ ended' = ended /\ told' = [told EXCEPT ![r] = what] /\ began[r] # Absent
    BY <1>4 DEF Tells
  <2>2. \A q \in Runs : q # r => told'[q] = told[q] BY <2>1 DEF RunsKnown
  <2>3. told'[r] = what /\ told' \in [Runs -> {"nothing", "queued", "in_progress", "completed"}]
    BY <2>1 DEF RunsKnown
  <2>4. RunsKnown' BY <1>0, <2>1, <2>2, <2>3 DEF RunsKnown
  <2>5. Early' = Early BY <2>1 DEF Early
  <2>6. \A q \in Early : q \in Runs /\ (told'[q] = told[q] \/ told'[q] \in {"in_progress", "completed"})
                         /\ (told[q] = "completed" => told'[q] = "completed")
    <3>1. ASSUME NEW q \in Early
          PROVE  q \in Runs /\ (told'[q] = told[q] \/ told'[q] \in {"in_progress", "completed"})
                 /\ (told[q] = "completed" => told'[q] = "completed")
      <4>1. q \in Runs BY DEF Early
      <4>2. told[q] = "completed" => ended[q] # Absent BY <4>1 DEF RunsKnown
      <4> QED BY <2>2, <2>3, <4>1, <4>2
    <3> QED BY <3>1
  <2> QED BY <1>0, <2>1, <2>4, <2>5, <2>6 DEF AllTold, EarlyDone
<1> QED BY <1>1, <1>2, <1>3, <1>4
\* Every step keeps what is known, and what is over stays as it was.
LEMMA KnownKeeps ==
    ASSUME FlowInv, FlowNext \/ UNCHANGED fvars
    PROVE  /\ EventsKnown' /\ RunsKnown' /\ ReadingKnown' /\ AllTold'
           /\ (EarlyDone => /\ Early' = Early /\ EarlyDone'
                            /\ \A q \in Early : began'[q] = began[q] /\ ended'[q] = ended[q])
<1> USE DEF FlowInv
<1>0. now \in Nat /\ Merged \in Nat /\ Maturity \in Nat /\ Maturity # 0
  BY TimesAssumption DEF EventsKnown
<1>1. CASE Tick
  <2>1. now' = now + 1 /\ UNCHANGED OfRuns /\ reading' = reading BY <1>1 DEF Tick, OfRail
  <2>2. RunsKnown' /\ Early' = Early BY <1>0, <2>1, RunsStay DEF RunsSame
  <2>3. EventsKnown' BY <1>1, EventsKeep DEF FlowNext
  <2>4. ReadingKnown' BY <1>0, <2>1 DEF ReadingKnown
  <2>5. now = Merged + Maturity => \A r \in Early : told[r] \in {"in_progress", "completed"}
    BY <1>1 DEF Tick, Early
  <2>6. now' > Merged + Maturity => now > Merged + Maturity \/ now = Merged + Maturity
    BY <1>0, <2>1
  <2>7. told' = told /\ began' = began /\ ended' = ended BY <2>1 DEF OfRuns
  <2>8. AllTold' BY <2>2, <2>5, <2>6, <2>7 DEF AllTold
  <2> QED BY <1>0, <2>1, <2>2, <2>3, <2>4, <2>7, <2>8 DEF EarlyDone
<1>2. ASSUME NEW r \in Runs, Queue(r) \/ Starts(r) \/ Ends(r) \/ Tells(r)
      PROVE  /\ EventsKnown' /\ RunsKnown' /\ ReadingKnown' /\ AllTold'
             /\ (EarlyDone => /\ Early' = Early /\ EarlyDone'
                              /\ \A q \in Early : began'[q] = began[q] /\ ended'[q] = ended[q])
  <2>1. EventsKnown' BY <1>2, EventsKeep DEF FlowNext
  <2>2. reading' = reading /\ now' = now BY <1>2 DEF Queue, Starts, Ends, Tells, OfRail
  <2>3. ReadingKnown' BY <2>2 DEF ReadingKnown
  <2> QED BY <1>2, <2>1, <2>3, RunsKeep
<1>3. ASSUME UNCHANGED <<now, began, ended, told>>, EventsKnown', ReadingKnown'
      PROVE  /\ EventsKnown' /\ RunsKnown' /\ ReadingKnown' /\ AllTold'
             /\ (EarlyDone => /\ Early' = Early /\ EarlyDone'
                              /\ \A q \in Early : began'[q] = began[q] /\ ended'[q] = ended[q])
  <2>1. RunsKnown' /\ Early' = Early BY <1>0, <1>3, RunsStay DEF RunsSame, OfRuns
  <2> QED BY <1>0, <1>3, <2>1 DEF AllTold, EarlyDone
<1>4. CASE CreateSuite
  <2>1. EventsKnown' BY <1>4, EventsKeep DEF FlowNext
  <2>2. UNCHANGED <<now, began, ended, told>> /\ reading' = reading
    BY <1>4 DEF CreateSuite, OfRuns, OfRail
  <2> QED BY <1>3, <2>1, <2>2 DEF ReadingKnown
<1>5. ASSUME NEW kind \in {"run", "carried"}, NEW start \in 0..now, Post(kind, start), EventsKnown'
      PROVE  UNCHANGED <<now, began, ended, told>> /\ ReadingKnown'
  BY <1>5 DEF Post, OfRuns, OfRail, ReadingKnown
<1>6. ASSUME NEW v \in scope.verdicts, Receive(v)
      PROVE  UNCHANGED <<now, began, ended, told>> /\ ReadingKnown'
  BY <1>6 DEF Receive, OfRuns, OfRail, ReadingKnown
<1>7. CASE Begin
  <2>1. EventsKnown' BY <1>7, EventsKeep DEF FlowNext
  <2>2. UNCHANGED <<now, began, ended, told>> /\ reading' = now /\ now >= Merged
    BY <1>7 DEF Begin, OfRuns
  <2> QED BY <1>0, <1>3, <2>1, <2>2 DEF ReadingKnown
<1>8. ASSUME NEW unread, NEW written, Publish(unread, written)
      PROVE  UNCHANGED <<now, began, ended, told>> /\ ReadingKnown'
  BY <1>8 DEF Publish, OfRuns, ReadingKnown
<1>9. CASE Lose
  <2>1. EventsKnown' BY <1>9, EventsKeep DEF FlowNext
  <2>2. UNCHANGED <<now, began, ended, told>> /\ reading' = reading BY <1>9 DEF Lose, OfRuns
  <2> QED BY <1>3, <2>1, <2>2 DEF ReadingKnown
<1>10. CASE UNCHANGED fvars
  <2>1. EventsKnown' BY <1>10, EventsStay DEF fvars, EventsSame
  <2>2. UNCHANGED <<now, began, ended, told>> /\ reading' = reading BY <1>10 DEF fvars
  <2> QED BY <1>3, <2>1, <2>2 DEF ReadingKnown
<1>11. ASSUME NEW start \in 0..now, Post("run", start)
       PROVE  UNCHANGED <<now, began, ended, told>> /\ ReadingKnown' /\ EventsKnown'
  <2>1. EventsKnown' BY <1>11, EventsKeep DEF FlowNext
  <2> QED BY <2>1, <1>5, <1>11
<1>12. ASSUME Post("carried", 0)
       PROVE  UNCHANGED <<now, began, ended, told>> /\ ReadingKnown' /\ EventsKnown'
  <2>1. EventsKnown' /\ 0 \in 0..now BY <1>0, <1>12, EventsKeep DEF FlowNext
  <2> QED BY <2>1, <1>5, <1>12
<1>13. ASSUME FlowNext PROVE EventsKnown' BY <1>13, EventsKeep
<1> QED
  <2>1. CASE FlowNext
    <3>1. CASE \E start \in 0..now : Post("run", start) BY <3>1, <1>3, <1>11
    <3>2. CASE Post("carried", 0) BY <3>2, <1>3, <1>12
    <3>3. CASE \E v \in scope.verdicts : Receive(v)
      BY <2>1, <3>3, <1>3, <1>6, <1>13
    <3>4. CASE \E unread \in scope.unread, written \in BOOLEAN : Publish(unread, written)
      BY <2>1, <3>4, <1>3, <1>8, <1>13
    <3>5. CASE \E r \in Runs : Queue(r) \/ Starts(r) \/ Ends(r) \/ Tells(r) BY <3>5, <1>2
    <3> QED BY <2>1, <3>1, <3>2, <3>3, <3>4, <3>5, <1>1, <1>4, <1>7, <1>9 DEF FlowNext
  <2> QED BY <2>1, <1>10

\* What GitHub has of the time up to the merge.
Past(S) == {s \in S : s.at <= Merged}

PastSame ==
    /\ {s \in suites' : s <= Merged} = {s \in suites : s <= Merged}
    /\ Past(statuses') = Past(statuses)

\* After the merge the past stays; a receipt of it may still come.
LEMMA PastStays ==
    ASSUME FlowInv, FlowNext \/ UNCHANGED fvars, now > Merged
    PROVE  PastSame
<1>0. now \in Nat /\ Merged \in Nat /\ ~(now <= Merged)
  BY TimesAssumption DEF FlowInv, EventsKnown
<1>1. CASE UNCHANGED <<suites, statuses>> BY <1>1 DEF PastSame
<1>2. CASE CreateSuite
  <2>1. suites' = suites \cup {now} /\ statuses' = statuses BY <1>2 DEF CreateSuite
  <2> QED BY <1>0, <2>1 DEF PastSame
<1>3. ASSUME NEW kind, NEW start, Post(kind, start) PROVE PastSame
  <2> DEFINE x == [id |-> Cardinality(statuses) + 1, at |-> now, kind |-> kind, start |-> start]
  <2>1. statuses' = statuses \cup {x} /\ suites' = suites /\ x.at = now BY <1>3 DEF Post
  <2> HIDE DEF x
  <2> QED BY <1>0, <2>1 DEF PastSame, Past
<1>4. Tick \/ Begin \/ Lose \/ UNCHANGED fvars => UNCHANGED <<suites, statuses>>
  BY DEF Tick, Begin, Lose, fvars
<1>5. \A r \in Runs : Queue(r) \/ Starts(r) \/ Ends(r) \/ Tells(r) => UNCHANGED <<suites, statuses>>
  BY DEF Queue, Starts, Ends, Tells
<1>6. \A v : Receive(v) => UNCHANGED <<suites, statuses>> BY DEF Receive
<1>7. \A unread, written : Publish(unread, written) => UNCHANGED <<suites, statuses>>
  BY DEF Publish
<1> QED BY <1>1, <1>2, <1>3, <1>4, <1>5, <1>6, <1>7 DEF FlowNext

LEMMA TrueEvidenceIsWhole ==
    /\ Whole(TrueEvidence)
    /\ TrueEvidence.suites = suites /\ TrueEvidence.statuses = statuses
    /\ TrueEvidence.runs = {Truth(r) : r \in Early}
    /\ TrueEvidence.unread = {}
<1>1. \A r \in Early : Truth(r).started # Absent BY DEF Early, Truth
<1> QED BY <1>1 DEF Whole, TrueEvidence, GitHubEvidence

\* Once the past is over, what agreed with the truth agrees with it for good.
LEMMA TruthIsKept ==
    ASSUME FlowInv, FlowNext \/ UNCHANGED fvars, EarlyDone
    PROVE  /\ EarlyDone'
           /\ \A e : Agrees(e, TrueEvidence) => Agrees(e, TrueEvidence')
           /\ \A f : Timeline(TrueEvidence', f) = Timeline(TrueEvidence, f)
<1>1. /\ Early' = Early /\ EarlyDone'
      /\ \A q \in Early : began'[q] = began[q] /\ ended'[q] = ended[q]
  BY KnownKeeps
<1>2. PastSame
  <2>1. now > Merged BY TimesAssumption DEF EarlyDone, FlowInv, EventsKnown
  <2> QED BY <2>1, PastStays
<1>3. {Truth(r)' : r \in Early'} = {Truth(r) : r \in Early} BY <1>1 DEF Truth
<1>4. /\ TrueEvidence'.suites = suites' /\ TrueEvidence'.statuses = statuses'
      /\ TrueEvidence'.runs = {Truth(r) : r \in Early} /\ TrueEvidence'.unread = {}
  BY <1>3 DEF TrueEvidence, GitHubEvidence
<1>5. /\ {s \in TrueEvidence'.suites : s <= Merged} = {s \in TrueEvidence.suites : s <= Merged}
      /\ TrueEvidence'.runs = TrueEvidence.runs
      /\ {s \in TrueEvidence'.statuses : s.at <= Merged} = {s \in TrueEvidence.statuses : s.at <= Merged}
  BY <1>2, <1>4, TrueEvidenceIsWhole DEF PastSame, Past
<1> DEFINE d == TrueEvidence
           n == TrueEvidence'
<1>6. Whole(n) /\ n.unread = {} BY <1>4, <1>5, TrueEvidenceIsWhole DEF Whole
<1>7. Whole(d) BY TrueEvidenceIsWhole
<1>8. /\ {s \in n.suites : s <= Merged} = {s \in d.suites : s <= Merged}
      /\ n.runs = d.runs
      /\ {s \in n.statuses : s.at <= Merged} = {s \in d.statuses : s.at <= Merged}
  BY <1>5
<1> HIDE DEF d, n
<1>9. Agrees(n, d) BY <1>6, <1>8 DEF Agrees
<1>10. \A f : Timeline(n, f) = Timeline(d, f) BY <1>6, <1>7, <1>9, TimelinesAgree
<1>11. \A e : Agrees(e, d) => Agrees(e, n) BY <1>8 DEF Agrees
<1> QED BY <1>1, <1>10, <1>11 DEF d, n
\* What a publication reads now.
Fresh(unread) == GitHubEvidence(suites, ReportedRuns, statuses, unread)

LEMMA FreshParts ==
    ASSUME NEW unread
    PROVE  /\ Fresh(unread).suites = IF "suites" \in unread THEN {} ELSE suites
           /\ Fresh(unread).runs = IF "runs" \in unread THEN {} ELSE ReportedRuns
           /\ Fresh(unread).statuses = IF "statuses" \in unread THEN {} ELSE statuses
           /\ Fresh(unread).unread = unread \cap Sources
BY DEF Fresh, GitHubEvidence

\* What GitHub reports of the runs that count is the truth once they are over.
LEMMA ReportsAreTrue ==
    ASSUME FlowInv, EarlyDone
    PROVE  StartedEarly(ReportedRuns) = StartedEarly({Truth(r) : r \in Early})
<1>1. ASSUME NEW x \in StartedEarly(ReportedRuns) PROVE x \in {Truth(r) : r \in Early}
  <2>1. PICK r \in Runs : told[r] # "nothing" /\ x = Reported(r)
    BY DEF ReportedRuns, StartedEarly
  <2>2. x.started # Absent /\ ~(x.started >= Merged) BY DEF StartedEarly
  <2>3. x.started = IF told[r] = "queued" THEN Absent ELSE began[r] BY <2>1 DEF Reported
  <2>4. began[r] # Absent /\ began[r] \in Nat /\ ~(began[r] >= Merged)
    BY <2>2, <2>3 DEF FlowInv, RunsKnown
  <2>5. r \in Early BY <2>4, TimesAssumption DEF Early
  <2>6. told[r] = "completed" BY <2>5 DEF EarlyDone
  <2>7. x = Truth(r) BY <2>1, <2>6 DEF Reported, Truth
  <2> QED BY <2>5, <2>7
<1>2. ASSUME NEW x \in StartedEarly({Truth(r) : r \in Early}) PROVE x \in ReportedRuns
  <2>1. PICK r \in Early : x = Truth(r) BY DEF StartedEarly
  <2>2. r \in Runs /\ told[r] = "completed" BY DEF EarlyDone, Early
  <2>3. x = Reported(r) BY <2>1, <2>2 DEF Reported, Truth
  <2> QED BY <2>2, <2>3 DEF ReportedRuns
<1> QED BY <1>1, <1>2 DEF StartedEarly

\* Once every early run is told to have ended, what is read agrees with the truth.
LEMMA FreshAgrees ==
    ASSUME FlowInv, EarlyDone, NEW unread
    PROVE  Agrees(Fresh(unread), TrueEvidence)
BY ReportsAreTrue, FreshParts, TrueEvidenceIsWhole DEF Agrees, Sources

\* A complete reading: every early run is told to have ended.
LEMMA CompleteIsDone ==
    ASSUME FlowInv, NEW unread, reading # Absent, IsComplete(Fresh(unread), reading)
    PROVE  EarlyDone /\ Whole(Fresh(unread))
<1> DEFINE e == Fresh(unread)
<1>1. /\ e.unread = {} /\ reading - Merged > Maturity
      /\ \A x \in e.runs : x.started # Absent /\ (x.started < Merged => x.completed # Absent)
  BY DEF IsComplete
<1>2. now > Merged + Maturity
  <2>1. reading \in Nat /\ reading <= now /\ now \in Nat /\ Merged \in Nat /\ Maturity \in Nat
    BY TimesAssumption DEF FlowInv, ReadingKnown, EventsKnown
  <2> QED BY <1>1, <2>1
<1>3. e.runs = ReportedRuns BY <1>1, FreshParts DEF Sources
<1>4. ASSUME NEW r \in Early PROVE told[r] = "completed"
  <2>1. r \in Runs /\ began[r] # Absent /\ began[r] < Merged BY DEF Early
  <2>2. told[r] \in {"in_progress", "completed"} BY <1>2 DEF FlowInv, AllTold
  <2>3. Reported(r) \in e.runs BY <1>3, <2>1, <2>2 DEF ReportedRuns
  <2>4. Reported(r).started = began[r]
        /\ Reported(r).completed = IF told[r] = "completed" THEN ended[r] ELSE Absent
    BY <2>2 DEF Reported
  <2> QED BY <1>1, <2>1, <2>3, <2>4
<1> QED BY <1>1, <1>2, <1>4 DEF EarlyDone, Whole

\* What a publication publishes, of a reading that agrees with the truth.
LEMMA PublishTells ==
    ASSUME FlowInv, NEW unread, NEW written \in BOOLEAN, Publish(unread, written)
    PROVE  \E e, f :
             /\ published' = Timeline(e, f) /\ read' \in {{}, receipts}
             /\ f = NoFacts \/ (f = ReviewFacts(receipts) /\ read' = receipts)
             /\ EarlyDone => Agrees(e, TrueEvidence)
             /\ settled' => EarlyDone /\ Whole(e)
             /\ cache' # cache => /\ cache' # Absent => cache'.evidence = e
                                  /\ cache' # Absent /\ cache'.complete => EarlyDone /\ Whole(e)
<1> DEFINE kept == Load(reading)
           f == IF "ledger" \in unread THEN NoFacts ELSE ReviewFacts(receipts)
           complete == IsComplete(Fresh(unread), reading)
           entry == [evidence |-> Fresh(unread), fetched_at |-> reading, complete |-> complete]
<1>1. /\ reading # Absent
      /\ kept # Absent => /\ published' = Timeline(kept.evidence, f) /\ settled' = TRUE
                          /\ cache' = cache
      /\ kept = Absent => /\ published' = Timeline(Fresh(unread), f) /\ settled' = entry.complete
                          /\ cache' = IF written THEN entry ELSE cache
      /\ read' = IF "ledger" \in unread THEN {} ELSE receipts
  BY DEF Publish, Fresh
<1>2. complete => EarlyDone /\ Whole(Fresh(unread)) BY <1>1, CompleteIsDone
<1>3. EarlyDone => Agrees(Fresh(unread), TrueEvidence) BY FreshAgrees
<1>4. /\ f = NoFacts \/ (f = ReviewFacts(receipts) /\ read' = receipts)
      /\ read' \in {{}, receipts}
  BY <1>1
<1>5. CASE kept # Absent
  <2>1. kept = cache /\ cache # Absent /\ cache.complete BY <1>5 DEF Load
  <2>2. EarlyDone /\ Whole(cache.evidence) /\ Agrees(cache.evidence, TrueEvidence)
    BY <2>1 DEF FlowInv, CacheTrue
  <2> QED BY <1>1, <1>4, <1>5, <2>1, <2>2
<1>6. CASE kept = Absent
  <2>1. entry.complete = complete /\ entry.evidence = Fresh(unread) OBVIOUS
  <2>2. settled' = complete /\ (cache' = entry \/ cache' = cache) BY <1>1, <1>6, <2>1
  <2>3. published' = Timeline(Fresh(unread), f) BY <1>1, <1>6
  <2> HIDE DEF kept, f, complete, entry
  <2> QED BY <1>2, <1>3, <1>4, <2>1, <2>2, <2>3
<1> QED BY <1>5, <1>6

\* Every step keeps the cache and the publication true.
LEMMA RecordsKeep ==
    ASSUME FlowInv, FlowNext \/ UNCHANGED fvars
    PROVE  CacheTrue' /\ SettledTrue'
<1> DEFINE Told == published' = published /\ settled' = settled /\ read' = read
<1>1. ASSUME cache' = cache \/ cache' = Absent PROVE CacheTrue'
  <2>1. SUFFICES ASSUME cache' # Absent, cache'.complete
                 PROVE  /\ EarlyDone' /\ Whole(cache'.evidence)
                        /\ Agrees(cache'.evidence, TrueEvidence')
    BY DEF CacheTrue
  <2>2. cache' = cache BY <1>1, <2>1
  <2>3. EarlyDone /\ Whole(cache.evidence) /\ Agrees(cache.evidence, TrueEvidence)
    BY <2>1, <2>2 DEF FlowInv, CacheTrue
  <2> QED BY <2>2, <2>3, TruthIsKept
<1>2. ASSUME published' = published, settled' = settled, read' = read PROVE SettledTrue'
  <2>1. SUFFICES ASSUME settled
                 PROVE  /\ EarlyDone'
                        /\ \E f \in {NoFacts, ReviewFacts(read)} :
                              published = Timeline(TrueEvidence', f)
    <3>1. ReviewFacts(read)' = ReviewFacts(read) BY <1>2 DEF ReviewFacts
    <3> QED BY <1>2, <3>1 DEF SettledTrue
  <2>2. EarlyDone /\ \E f \in {NoFacts, ReviewFacts(read)} : published = Timeline(TrueEvidence, f)
    BY <2>1 DEF FlowInv, SettledTrue
  <2> QED BY <2>2, TruthIsKept
<1>3. ASSUME NEW unread, NEW written \in BOOLEAN, Publish(unread, written)
      PROVE  CacheTrue' /\ SettledTrue'
  <2>1. PICK e, f :
             /\ published' = Timeline(e, f) /\ read' \in {{}, receipts}
             /\ f = NoFacts \/ (f = ReviewFacts(receipts) /\ read' = receipts)
             /\ EarlyDone => Agrees(e, TrueEvidence)
             /\ settled' => EarlyDone /\ Whole(e)
             /\ cache' # cache => /\ cache' # Absent => cache'.evidence = e
                                  /\ cache' # Absent /\ cache'.complete => EarlyDone /\ Whole(e)
    BY <1>3, PublishTells
  <2>2. /\ UNCHANGED <<now, suites, statuses, receipts, began, ended, told>>
    BY <1>3 DEF Publish, OfRuns
  <2>3. Early' = Early /\ EarlyDone' = EarlyDone /\ TrueEvidence' = TrueEvidence
    <3>1. Early' = Early BY <2>2 DEF Early
    <3>2. {Truth(r)' : r \in Early'} = {Truth(r) : r \in Early} BY <2>2, <3>1 DEF Truth
    <3> QED BY <2>2, <3>1, <3>2 DEF EarlyDone, TrueEvidence, GitHubEvidence
  <2>4. settled' => published' = Timeline(TrueEvidence, f)
    BY <2>1, TimelinesAgree, TrueEvidenceIsWhole
  <2>5. SettledTrue'
    <3>1. f \in {NoFacts, ReviewFacts(read')} BY <2>1
    <3>2. ReviewFacts(read)' = ReviewFacts(read') BY DEF ReviewFacts
    <3> QED BY <2>1, <2>3, <2>4, <3>1, <3>2 DEF SettledTrue
  <2>6. CacheTrue'
    <3>1. CASE cache' = cache BY <3>1, <2>3 DEF FlowInv, CacheTrue
    <3>2. CASE cache' # cache BY <3>2, <2>1, <2>3 DEF CacheTrue
    <3> QED BY <3>1, <3>2
  <2> QED BY <2>5, <2>6
<1>4. CASE \E unread \in scope.unread, written \in BOOLEAN : Publish(unread, written)
  BY <1>3, <1>4
<1>5. Tick \/ CreateSuite \/ Begin \/ Lose \/ UNCHANGED fvars
        => Told /\ (cache' = cache \/ cache' = Absent)
  BY DEF Tick, CreateSuite, Begin, Lose, OfRail, fvars
<1>6. \A r \in Runs : Queue(r) \/ Starts(r) \/ Ends(r) \/ Tells(r)
        => Told /\ cache' = cache
  BY DEF Queue, Starts, Ends, Tells, OfRail
<1>7. \A k, start : Post(k, start) => Told /\ cache' = cache
  BY DEF Post, OfRail
<1>8. \A v : Receive(v) => Told /\ cache' = cache
  BY DEF Receive, OfRail
<1>9. CASE Told /\ (cache' = cache \/ cache' = Absent)
  BY <1>1, <1>2, <1>9
<1> QED BY <1>4, <1>5, <1>6, <1>7, <1>8, <1>9 DEF FlowNext
LEMMA FlowInitHolds == FlowInit => FlowInv
<1> SUFFICES ASSUME FlowInit PROVE FlowInv
  OBVIOUS
<1>1. now = 0 /\ suites = {} /\ statuses = {} /\ receipts = {}
      /\ began = [r \in Runs |-> Absent] /\ ended = [r \in Runs |-> Absent]
      /\ told = [r \in Runs |-> "nothing"] /\ reading = Absent /\ cache = Absent /\ settled = FALSE
      /\ scope \in Scopes /\ read = {}
  BY DEF FlowInit
<1>2. IsFiniteSet({}) BY FS_EmptySet
<1>3. EventsKnown BY <1>1, <1>2 DEF EventsKnown, Numbered
<1>4. RunsKnown BY <1>1 DEF RunsKnown
<1>5. ReadingKnown /\ CacheTrue /\ SettledTrue BY <1>1 DEF ReadingKnown, CacheTrue, SettledTrue
<1>6. AllTold BY <1>1 DEF AllTold, Early
<1>7. ReadKnown BY <1>1 DEF ReadKnown
<1> QED BY <1>3, <1>4, <1>5, <1>6, <1>7 DEF FlowInv

\* A publication reads receipts of the ledger, which keeps them.
LEMMA ReadKeeps ==
    ASSUME FlowInv, FlowNext \/ UNCHANGED fvars
    PROVE  ReadKnown'
<1>1. scope \in Scopes /\ read \subseteq receipts BY DEF FlowInv, ReadKnown
<1>2. ASSUME NEW unread, NEW written, Publish(unread, written) PROVE ReadKnown'
  BY <1>1, <1>2 DEF Publish, ReadKnown
<1>3. Tick \/ CreateSuite \/ Begin \/ Lose \/ UNCHANGED fvars
        => UNCHANGED <<scope, receipts, read>>
  BY DEF Tick, CreateSuite, Begin, Lose, OfRail, fvars
<1>4. \A r \in Runs : Queue(r) \/ Starts(r) \/ Ends(r) \/ Tells(r)
        => UNCHANGED <<scope, receipts, read>>
  BY DEF Queue, Starts, Ends, Tells, OfRail
<1>5. \A k, start : Post(k, start) => UNCHANGED <<scope, receipts, read>>
  BY DEF Post, OfRail
<1>6. \A v : Receive(v) => UNCHANGED <<scope, read>> /\ receipts \subseteq receipts'
  BY DEF Receive, OfRail
<1>7. CASE UNCHANGED <<scope, read>> /\ receipts \subseteq receipts' BY <1>1, <1>7 DEF ReadKnown
<1> QED BY <1>2, <1>3, <1>4, <1>5, <1>6, <1>7 DEF FlowNext

\* The inductive invariant of FlowTimeline holds.
THEOREM FlowInvariance == FlowSpec => []FlowInv
<1>1. ASSUME FlowInv, [FlowNext]_fvars PROVE FlowInv'
  <2>1. FlowNext \/ UNCHANGED fvars BY <1>1
  <2> QED BY <1>1, <2>1, KnownKeeps, RecordsKeep, ReadKeeps DEF FlowInv
<1> QED BY <1>1, FlowInitHolds, PTL DEF FlowSpec

\* What the same receipts up to the merge tell.
LEMMA SameFacts ==
    ASSUME FlowInv, ~CameLate
    PROVE  ReviewFacts(read) = ReviewFacts(receipts)
<1>1. {r \in read : r.at <= Merged} = {r \in receipts : r.at <= Merged}
  BY DEF FlowInv, ReadKnown, CameLate
<1> QED BY <1>1 DEF ReviewFacts

\* A step never takes back what was published from a complete entry.
LEMMA SettledStep ==
    ASSUME FlowInv, FlowNext \/ UNCHANGED fvars, settled, published # Absent, published' # Absent,
           NEW s \in Segments
    PROVE  \/ published'[s] \in {published[s], Absent}
           \/ s \in OfReview /\ (published.rounds = Absent \/ CameLate)
<1>1. CASE published' = published BY <1>1
<1>2. ASSUME NEW unread, NEW written \in BOOLEAN, Publish(unread, written)
      PROVE  \/ published'[s] \in {published[s], Absent}
             \/ s \in OfReview /\ (published.rounds = Absent \/ CameLate)
  <2> DEFINE d == TrueEvidence
             all == ReviewFacts(receipts)
             old == ReviewFacts(read)
  <2>1. EarlyDone /\ \E f \in {NoFacts, old} : published = Timeline(d, f)
    BY DEF FlowInv, SettledTrue
  <2>2. PICK g \in {NoFacts, old} : published = Timeline(d, g) BY <2>1
  <2>3. PICK e, f : published' = Timeline(e, f) /\ f \in {NoFacts, all} /\ Agrees(e, d)
    BY <1>2, <2>1, PublishTells
  <2>4. published'[s] \in {Timeline(d, f)[s], Absent}
    BY <2>3, TimelinesAgree, TrueEvidenceIsWhole
  <2>5. PushProxy(d.suites) # Absent BY <2>2, TimelineParts
  <2>6. CameLate \/ old = all BY SameFacts
  <2> HIDE DEF d, all, old
  <2>7. ASSUME NEW h
        PROVE  /\ Timeline(d, NoFacts).rounds = Absent
               /\ Timeline(d, NoFacts)[s] \in {Timeline(d, h)[s], Absent}
               /\ s \notin {"reviewStart", "review", "rounds"}
                    => Timeline(d, NoFacts)[s] = Timeline(d, h)[s]
    BY <2>5, FactsAgree
  <2>8. CASE f = g BY <2>8, <2>2, <2>4
  <2>9. CASE f = NoFacts /\ g = old BY <2>9, <2>2, <2>4, <2>7
  <2>10. CASE f = all /\ g = NoFacts
    <3>1. s \notin OfReview => Timeline(d, NoFacts)[s] = Timeline(d, all)[s] BY <2>7 DEF OfReview
    <3>2. published.rounds = Absent BY <2>2, <2>7, <2>10
    <3> QED BY <2>2, <2>4, <2>10, <3>1, <3>2
  <2>11. CASE f = all /\ g = old /\ old # all
    <3>1. s \notin OfReview => Timeline(d, old)[s] = Timeline(d, all)[s]
      <4>1. s \notin OfReview => /\ Timeline(d, NoFacts)[s] = Timeline(d, all)[s]
                                /\ Timeline(d, NoFacts)[s] = Timeline(d, old)[s]
        BY <2>7 DEF OfReview
      <4> QED BY <4>1
    <3> QED BY <2>2, <2>4, <2>6, <2>11, <3>1
  <2> QED BY <2>2, <2>3, <2>8, <2>9, <2>10, <2>11
<1>3. Tick \/ CreateSuite \/ Begin \/ Lose \/ UNCHANGED fvars => published' = published
  BY DEF Tick, CreateSuite, Begin, Lose, OfRail, fvars
<1>4. \A r \in Runs : Queue(r) \/ Starts(r) \/ Ends(r) \/ Tells(r) => published' = published
  BY DEF Queue, Starts, Ends, Tells, OfRail
<1>5. \A k, start : Post(k, start) => published' = published BY DEF Post, OfRail
<1>6. \A v : Receive(v) => published' = published BY DEF Receive, OfRail
<1>7. CASE \E unread \in scope.unread, written \in BOOLEAN : Publish(unread, written)
  BY <1>2, <1>7
<1> QED BY <1>1, <1>3, <1>4, <1>5, <1>6, <1>7 DEF FlowNext

\* What was published from a complete entry of GitHub is never taken back, whatever
\* is run again, reported late, lost or not read (flow_cache.py: get_or_read); the
\* segments of the review change only where the ledger was not read, or where a
\* verdict emitted before the merge came late (ledger/brain.py: replay).
THEOREM SettledStays == FlowSpec => SettledSegmentsNeverChange
<1>1. ASSUME FlowInv, [FlowNext]_fvars
      PROVE  [(settled /\ published # Absent /\ published' # Absent) =>
                \A s \in Segments :
                    \/ published'[s] \in {published[s], Absent}
                    \/ s \in OfReview /\ (published.rounds = Absent \/ CameLate)]_fvars
  <2>1. FlowNext \/ UNCHANGED fvars BY <1>1
  <2> QED BY <1>1, <2>1, SettledStep
<1> QED BY <1>1, FlowInvariance, PTL DEF FlowSpec, SettledSegmentsNeverChange
-----------------------------------------------------------------------------
(* The union of intervals: sorted, merged in turn, it counts ticks.        *)

LEMMA LeastOf ==
    ASSUME NEW S \in SUBSET Nat, S # {}
    PROVE  \E x \in S : \A y \in S : x <= y
<1> DEFINE R == {p \in Nat \X Nat : p[1] < p[2]}
<1>1. IsWellFoundedOn(R, Nat)
  BY NatLessThanWellFounded DEF OpToRel
<1>2. PICK x \in S : \A y \in S : ~(<<y, x>> \in R)
  <2> HIDE DEF R
  <2> QED BY <1>1, WFMin
<1>3. ASSUME NEW y \in S  PROVE x <= y
  <2>1. x \in Nat /\ y \in Nat /\ ~(<<y, x>> \in R)
    BY <1>2
  <2>2. y < x => <<y, x>> \in R
    BY <2>1
  <2> QED
    BY <2>1, <2>2
<1> QED
  BY <1>3

LEMMA GreatestOf ==
    ASSUME NEW b \in Nat, NEW S \in SUBSET (0..b), S # {}
    PROVE  \E x \in S : \A y \in S : y <= x
<1> DEFINE D == {b - x : x \in S}
<1>1. D \in SUBSET Nat /\ D # {}
  <2>1. \A x \in S : b - x \in Nat OBVIOUS
  <2> QED BY <2>1
<1>2. PICK n \in D : \A m \in D : n <= m
  <2> HIDE DEF D
  <2> QED BY <1>1, LeastOf
<1>3. PICK x \in S : n = b - x BY <1>2
<1>4. ASSUME NEW y \in S PROVE y <= x
  <2>1. b - y \in D OBVIOUS
  <2>2. b - x <= b - y BY <1>2, <1>3, <2>1
  <2>3. x \in Int /\ y \in Int OBVIOUS
  <2> QED BY <2>2, <2>3
<1> QED BY <1>4

LEMMA GreatestInterval ==
    ASSUME NEW b \in Nat, NEW S \in SUBSET ((0..b) \X (0..b)), S # {}
    PROVE  \E x \in S : \A y \in S : Before(y, x)
<1> DEFINE L == {i[1] : i \in S}
<1>1. L \in SUBSET (0..b) /\ L # {} OBVIOUS
<1>2. PICK l \in L : \A k \in L : k <= l
  <2> HIDE DEF L
  <2> QED BY <1>1, GreatestOf
<1> DEFINE T == {i \in S : i[1] = l}
           U == {i[2] : i \in T}
<1>3. U \in SUBSET (0..b) /\ U # {} BY <1>2
<1>4. PICK r \in U : \A k \in U : k <= r
  <2> HIDE DEF U
  <2> QED BY <1>3, GreatestOf
<1>5. PICK x \in T : x[2] = r BY <1>4
<1>6. ASSUME NEW y \in S PROVE Before(y, x)
  <2>1. y[1] <= x[1] /\ y[1] \in Int /\ x[1] \in Int BY <1>2, <1>5
  <2>2. CASE y[1] = x[1]
    <3>1. y[2] \in U BY <2>2, <1>5
    <3>2. y[2] <= x[2] BY <3>1, <1>4, <1>5
    <3> QED BY <2>2, <3>2 DEF Before
  <2>3. CASE y[1] # x[1] BY <2>1, <2>3 DEF Before
  <2> QED BY <2>2, <2>3
<1> QED BY <1>6

IsSorted(s, S) ==
    /\ s \in [1..Cardinality(S) -> S]
    /\ \A k, l \in 1..Cardinality(S) : k < l => s[k] # s[l] /\ Before(s[k], s[l])

\* A finite set of intervals can be sorted.
LEMMA SortExists ==
    ASSUME NEW b \in Nat, NEW S \in SUBSET ((0..b) \X (0..b))
    PROVE  /\ IsFiniteSet(S) /\ Cardinality(S) \in Nat
           /\ IsSorted(Sorted(S), S)
<1> DEFINE Square == (0..b) \X (0..b)
           Bad == {n \in Nat : \E T \in SUBSET Square : Cardinality(T) = n /\ ~ \E s : IsSorted(s, T)}
<1>1. IsFiniteSet(Square)
  <2>1. IsFiniteSet(0..b) BY FS_Interval
  <2> QED BY <2>1, FS_Product
<1> HIDE DEF Square
<1>2. ASSUME NEW T \in SUBSET Square PROVE IsFiniteSet(T) /\ Cardinality(T) \in Nat
  BY <1>1, FS_Subset, FS_CardinalityType
<1>3. ASSUME Bad # {} PROVE FALSE
  <2>1. Bad \in SUBSET Nat OBVIOUS
  <2>2. PICK n \in Bad : \A m \in Bad : n <= m
    <3> HIDE DEF Bad
    <3> QED BY <1>3, <2>1, LeastOf
  <2>3. PICK T \in SUBSET Square : Cardinality(T) = n /\ ~ \E s : IsSorted(s, T) BY <2>2
  <2>4. CASE T = {}
    <3>1. Cardinality(T) = 0 BY <2>4, FS_EmptySet
    <3>2. [k \in 1..0 |-> 0] \in [1..0 -> T] OBVIOUS
    <3>3. IsSorted([k \in 1..0 |-> 0], T) BY <3>1, <3>2 DEF IsSorted
    <3> QED BY <2>3, <3>3
  <2>5. CASE T # {}
    <3>1. PICK x \in T : \A y \in T : Before(y, x) BY <2>5, GreatestInterval DEF Square
    <3> DEFINE U == T \ {x}
    <3>2. IsFiniteSet(U) /\ Cardinality(U) = n - 1 /\ n \in Nat /\ n # 0
      <4>1. IsFiniteSet(T) BY <1>2
      <4>2. Cardinality(U) = Cardinality(T) - 1 BY <4>1, FS_RemoveElement
      <4>3. U \in SUBSET Square OBVIOUS
      <4> HIDE DEF U
      <4>4. Cardinality(U) \in Nat /\ IsFiniteSet(U) BY <4>3, <1>2
      <4> QED BY <2>3, <4>2, <4>4, <1>2
    <3>3. n - 1 \in Nat /\ n - 1 \notin Bad BY <2>2, <3>2
    <3>4. PICK s : IsSorted(s, U)
      <4>1. U \in SUBSET Square OBVIOUS
      <4> HIDE DEF U
      <4> QED BY <3>2, <3>3, <4>1
    <3> DEFINE q == [k \in 1..n |-> IF k = n THEN x ELSE s[k]]
    <3>5. s \in [1..(n - 1) -> U]
          /\ \A k, l \in 1..(n - 1) : k < l => s[k] # s[l] /\ Before(s[k], s[l])
      BY <3>2, <3>4 DEF IsSorted
    <3>6. \A k \in 1..(n - 1) : s[k] \in T /\ s[k] # x BY <3>5
    <3>7. \A k \in 1..n : k # n => k \in 1..(n - 1) BY <3>2
    <3>8. q \in [1..n -> T] BY <3>6, <3>7
    <3>9. ASSUME NEW k \in 1..n, NEW l \in 1..n, k < l PROVE q[k] # q[l] /\ Before(q[k], q[l])
      <4>1. k # n /\ k \in 1..(n - 1) /\ q[k] = s[k] BY <3>2, <3>7, <3>9
      <4>2. CASE l = n BY <4>1, <4>2, <3>1, <3>6
      <4>3. CASE l # n BY <4>1, <4>3, <3>5, <3>7, <3>9
      <4> QED BY <4>2, <4>3
    <3> HIDE DEF q
    <3>10. IsSorted(q, T) BY <2>3, <3>8, <3>9 DEF IsSorted
    <3> QED BY <2>3, <3>10
  <2> QED BY <2>4, <2>5
<1>4. S \in SUBSET Square BY DEF Square
<1>5. \E s : IsSorted(s, S) BY <1>2, <1>3, <1>4
<1>6. IsSorted(Sorted(S), S) BY <1>5 DEF Sorted, IsSorted
<1> QED BY <1>2, <1>4, <1>6

\* A sorted sequence meets every interval.
LEMMA SortedMeets ==
    ASSUME NEW S, IsFiniteSet(S), NEW s, IsSorted(s, S), NEW i \in S
    PROVE  \E k \in 1..Cardinality(S) : s[k] = i
<1> DEFINE n == Cardinality(S)
<1>1. n \in Nat BY FS_CardinalityType
<1>2. s \in [1..n -> S] /\ \A k, l \in 1..n : k < l => s[k] # s[l] BY DEF IsSorted
<1>3. IsFiniteSet(1..n) /\ Cardinality(1..n) = n BY <1>1, FS_Interval
<1> HIDE DEF n
<1>4. ASSUME NEW k \in 1..n, NEW l \in 1..n, s[k] = s[l] PROVE k = l
  <2>1. k \in Int /\ l \in Int BY <1>1
  <2>2. ~(k < l) /\ ~(l < k) BY <1>2, <1>4
  <2> QED BY <2>1, <2>2
<1>5. s \in Injection(1..n, S) BY <1>2, <1>4 DEF Injection, IsInjective
<1>6. s \in Surjection(1..n, S) BY <1>3, <1>5, FS_Injection DEF n
<1> QED BY <1>6 DEF Surjection, n

\* The merges of a sorted sequence, in turn.
IsMerge(s, g, n) ==
    g = [k \in 1..n |-> IF k = 1 THEN [left |-> s[1][1], right |-> s[1][2], total |-> 0]
                        ELSE MergeNext(g[k - 1], s[k])]

LEMMA MergeExists ==
    ASSUME NEW s, NEW n \in Nat
    PROVE  \E g : IsMerge(s, g, n)
<1> DEFINE First1 == [left |-> s[1][1], right |-> s[1][2], total |-> 0]
           Bad == {m \in Nat : ~ \E g : IsMerge(s, g, m)}
<1>1. ASSUME Bad # {} PROVE FALSE
  <2>1. Bad \in SUBSET Nat OBVIOUS
  <2>2. PICK m \in Bad : \A j \in Bad : m <= j
    <3> HIDE DEF Bad
    <3> QED BY <1>1, <2>1, LeastOf
  <2>3. CASE m = 0
    <3> DEFINE g == [k \in 1..0 |-> First1]
    <3>1. IsMerge(s, g, 0) BY DEF IsMerge
    <3> QED BY <2>2, <2>3, <3>1
  <2>4. CASE m # 0
    <3>1. m \in Nat /\ m - 1 \in Nat /\ m - 1 \notin Bad BY <2>2, <2>4
    <3>2. PICK g : IsMerge(s, g, m - 1) BY <3>1
    <3> DEFINE h == [k \in 1..m |-> IF k = m THEN IF m = 1 THEN First1 ELSE MergeNext(g[m - 1], s[m])
                                    ELSE g[k]]
    <3>3. \A k \in 1..(m - 1) : g[k] = IF k = 1 THEN First1 ELSE MergeNext(g[k - 1], s[k])
      BY <3>2 DEF IsMerge
    <3>4. ASSUME NEW k \in 1..m
          PROVE  h[k] = IF k = 1 THEN First1 ELSE MergeNext(h[k - 1], s[k])
      <4> HIDE DEF First1
      <4>1. CASE k = m
        <5>1. m # 1 => h[m - 1] = g[m - 1] BY <3>1
        <5> QED BY <3>1, <4>1, <5>1
      <4>2. CASE k # m
        <5>1. k \in 1..(m - 1) /\ h[k] = g[k] BY <3>1, <4>2
        <5>2. k # 1 => h[k - 1] = g[k - 1] BY <3>1, <4>2
        <5> QED BY <3>3, <5>1, <5>2
      <4> QED BY <4>1, <4>2
    <3>5. h = [k \in 1..m |-> h[k]] OBVIOUS
    <3> HIDE DEF h
    <3>6. IsMerge(s, h, m) BY <3>4, <3>5 DEF IsMerge
    <3> QED BY <2>2, <3>6
  <2> QED BY <2>3, <2>4
<1> QED BY <1>1

\* The ticks the first k intervals of a sequence occupy.
CoveredBy(s, k) == {m \in Nat : \E l \in 1..k : s[l][1] <= m /\ m < s[l][2]}

\* What a merge has: the ticks of the closed part counted, the open part whole.
Merges(acc, s, k) ==
    LET closed == {m \in CoveredBy(s, k) : m < acc.left} IN
    /\ acc \in [left : Nat, right : Nat, total : Nat]
    /\ acc.left <= s[k][1] /\ acc.left <= acc.right
    /\ CoveredBy(s, k) = closed \cup acc.left..(acc.right - 1)
    /\ IsFiniteSet(closed) /\ Cardinality(closed) = acc.total

LEMMA IntervalSize ==
    ASSUME NEW a \in Nat, NEW b \in Nat, a <= b
    PROVE  IsFiniteSet(a..(b - 1)) /\ Cardinality(a..(b - 1)) = b - a
<1>1. a \in Int /\ b - 1 \in Int OBVIOUS
<1>2. IsFiniteSet(a..(b - 1)) /\ Cardinality(a..(b - 1)) = IF a > b - 1 THEN 0 ELSE (b - 1) - a + 1
  BY <1>1, FS_Interval
<1> QED BY <1>2

\* A closed part and the ticks of an open one beyond it.
LEMMA ClosedAndOpen ==
    ASSUME NEW C \in SUBSET Nat, IsFiniteSet(C), NEW a \in Nat, NEW b \in Nat, a <= b,
           \A m \in C : m < a
    PROVE  /\ IsFiniteSet(C \cup a..(b - 1))
           /\ Cardinality(C \cup a..(b - 1)) = Cardinality(C) + b - a
<1> DEFINE O == a..(b - 1)
<1>1. IsFiniteSet(O) /\ Cardinality(O) = b - a BY IntervalSize
<1>2. C \cap O = {} OBVIOUS
<1> HIDE DEF O
<1>3. /\ IsFiniteSet(C \cup O)
      /\ Cardinality(C \cup O) = Cardinality(C) + Cardinality(O) - Cardinality(C \cap O)
  BY <1>1, FS_Union
<1>4. Cardinality(C \cap O) = 0 BY <1>2, FS_EmptySet
<1>5. Cardinality(C) \in Nat BY FS_CardinalityType
<1> QED BY <1>1, <1>3, <1>4, <1>5 DEF O

\* Merging the next interval of a sorted sequence counts its ticks once.
LEMMA MergeStep ==
    ASSUME NEW s, NEW k \in Nat, k >= 1, NEW acc, Merges(acc, s, k),
           s[k + 1] \in Nat \X Nat, s[k + 1][1] <= s[k + 1][2],
           s[k][1] \in Nat, s[k][1] <= s[k + 1][1]
    PROVE  Merges(MergeNext(acc, s[k + 1]), s, k + 1)
<1> DEFINE a == s[k + 1][1]
           b == s[k + 1][2]
           closed == {m \in CoveredBy(s, k) : m < acc.left}
           next == MergeNext(acc, s[k + 1])
           old == CoveredBy(s, k)
           new == CoveredBy(s, k + 1)
<1>1. /\ a \in Nat /\ b \in Nat /\ a <= b /\ acc.left \in Nat /\ acc.right \in Nat /\ acc.total \in Nat
      /\ acc.left <= a /\ acc.left <= acc.right
      /\ old = closed \cup acc.left..(acc.right - 1)
      /\ IsFiniteSet(closed) /\ Cardinality(closed) = acc.total
  BY DEF Merges
<1>0. acc \in [left : Nat, right : Nat, total : Nat] BY DEF Merges
<1>2. new = old \cup a..(b - 1)
  <2>1. \A l : l \in 1..(k + 1) <=> l \in 1..k \/ l = k + 1 OBVIOUS
  <2>2. ASSUME NEW m PROVE m \in new <=> m \in old \/ m \in a..(b - 1)
    <3>1. m \in a..(b - 1) <=> m \in Nat /\ a <= m /\ m < b BY <1>1
    <3> QED BY <2>1, <3>1 DEF CoveredBy
  <2> QED BY <2>2
<1>3. closed \in SUBSET Nat /\ \A m \in closed : m < acc.left BY DEF CoveredBy
<1>4. /\ a <= acc.right => next = [acc EXCEPT !.right = Later(acc.right, b)]
      /\ ~(a <= acc.right) => next = [left |-> a, right |-> b, total |-> acc.total + acc.right - acc.left]
  BY DEF MergeNext
<1> HIDE DEF a, b, next, new, old, closed
<1>5. \A m : m \in a..(b - 1) <=> m \in Nat /\ a <= m /\ m < b BY <1>1
<1>6. \A m : m \in acc.left..(acc.right - 1) <=> m \in Nat /\ acc.left <= m /\ m < acc.right BY <1>1
<1>7. a <= s[k + 1][1] BY <1>1 DEF a
<1>8. CASE a <= acc.right
  <2> DEFINE top == Later(acc.right, b)
  <2>1. next = [acc EXCEPT !.right = top] BY <1>4, <1>8
  <2>2. top \in Nat /\ acc.right <= top /\ b <= top /\ (top = acc.right \/ top = b)
    BY <1>1 DEF Later
  <2> HIDE DEF top
  <2>3. next \in [left : Nat, right : Nat, total : Nat]
        /\ next.left = acc.left /\ next.right = top /\ next.total = acc.total
    BY <1>0, <2>1, <2>2
  <2>4. {m \in new : m < next.left} = closed
    <3>1. \A m \in a..(b - 1) : ~(m < acc.left) BY <1>1, <1>5
    <3> QED BY <1>2, <2>3, <3>1 DEF closed, old
  <2>5. new = closed \cup next.left..(next.right - 1)
    <3>1. \A m : m \in next.left..(next.right - 1) <=> m \in Nat /\ acc.left <= m /\ m < top
      BY <1>1, <2>2, <2>3
    <3>2. \A m : m \in next.left..(next.right - 1)
                   <=> m \in acc.left..(acc.right - 1) \/ m \in a..(b - 1)
      BY <1>1, <1>5, <1>6, <1>8, <2>2, <3>1
    <3> QED BY <1>1, <1>2, <3>2
  <2>6. next.left <= s[k + 1][1] /\ next.left <= next.right BY <1>1, <2>2, <2>3 DEF a
  <2> QED BY <1>1, <2>3, <2>4, <2>5, <2>6 DEF Merges, next, new
<1>9. CASE ~(a <= acc.right)
  <2>1. next = [left |-> a, right |-> b, total |-> acc.total + acc.right - acc.left]
    BY <1>4, <1>9
  <2>2. IsFiniteSet(old) /\ Cardinality(old) = acc.total + acc.right - acc.left
    BY <1>1, <1>3, ClosedAndOpen
  <2>3. acc.total + acc.right - acc.left \in Nat BY <1>1
  <2>4. next \in [left : Nat, right : Nat, total : Nat]
        /\ next.left = a /\ next.right = b /\ next.total = acc.total + acc.right - acc.left
    BY <1>1, <2>1, <2>3
  <2>5. \A m \in old : m < a
    <3>1. \A m \in closed : m \in Nat /\ m < a BY <1>1, <1>3
    <3>2. \A m \in acc.left..(acc.right - 1) : m < a BY <1>1, <1>6, <1>9
    <3> QED BY <1>1, <3>1, <3>2
  <2>6. {m \in new : m < next.left} = old
    <3>1. \A m \in a..(b - 1) : ~(m < a) BY <1>1, <1>5
    <3> QED BY <1>2, <2>4, <2>5, <3>1
  <2>7. new = old \cup next.left..(next.right - 1) BY <1>2, <2>4
  <2>8. next.left <= s[k + 1][1] /\ next.left <= next.right BY <1>1, <1>7, <2>4
  <2> QED BY <2>2, <2>4, <2>6, <2>7, <2>8 DEF Merges, next, new
<1> QED BY <1>8, <1>9

\* Every merge of a sorted sequence is one.
LEMMA MergesHold ==
    ASSUME NEW b \in Nat, NEW S \in SUBSET ((0..b) \X (0..b)), NEW s, IsSorted(s, S),
           \A i \in S : i[1] <= i[2],
           NEW g, IsMerge(s, g, Cardinality(S)), NEW k \in 1..Cardinality(S)
    PROVE  Merges(g[k], s, k)
<1> DEFINE n == Cardinality(S)
           Bad == {j \in 1..n : ~Merges(g[j], s, j)}
<1>1. n \in Nat BY SortExists
<1>2. /\ \A j \in 1..n : s[j] \in Nat \X Nat /\ s[j][1] <= s[j][2] /\ s[j] \in S
      /\ \A j, l \in 1..n : j < l => Before(s[j], s[l])
  BY DEF IsSorted
<1>3. \A j \in 1..n : g[j] = IF j = 1 THEN [left |-> s[1][1], right |-> s[1][2], total |-> 0]
                             ELSE MergeNext(g[j - 1], s[j])
  BY DEF IsMerge
<1> HIDE DEF n
<1>4. ASSUME Bad # {} PROVE FALSE
  <2>1. Bad \in SUBSET Nat BY <1>1
  <2>2. PICK j \in Bad : \A l \in Bad : j <= l
    <3> HIDE DEF Bad
    <3> QED BY <1>4, <2>1, LeastOf
  <2>3. j \in 1..n /\ j \in Nat /\ ~Merges(g[j], s, j) BY <2>2, <1>1
  <2>4. CASE j = 1
    <3> DEFINE x == s[1][1]
               y == s[1][2]
               acc == [left |-> x, right |-> y, total |-> 0]
    <3>1. x \in Nat /\ y \in Nat /\ x <= y /\ g[1] = acc BY <1>2, <1>3, <2>3, <2>4
    <3>2. CoveredBy(s, 1) = x..(y - 1)
      <4>1. \A m : m \in x..(y - 1) <=> m \in Nat /\ x <= m /\ m < y BY <3>1
      <4>2. \A l : l \in 1..1 <=> l = 1 OBVIOUS
      <4> HIDE DEF x, y
      <4>3. \A m : m \in CoveredBy(s, 1) <=> m \in Nat /\ x <= m /\ m < y
        BY <4>2 DEF CoveredBy, x, y
      <4> QED BY <4>1, <4>3
    <3>3. acc \in [left : Nat, right : Nat, total : Nat] /\ acc.left = x /\ acc.right = y /\ acc.total = 0
      BY <3>1
    <3>4. x <= s[1][1] BY <3>1
    <3> HIDE DEF x, y, acc
    <3>5. {m \in CoveredBy(s, 1) : m < x} = {} BY <3>1, <3>2
    <3>6. IsFiniteSet({}) /\ Cardinality({}) = 0 BY FS_EmptySet
    <3>7. Merges(acc, s, 1) BY <3>1, <3>2, <3>3, <3>4, <3>5, <3>6 DEF Merges
    <3> QED BY <2>3, <2>4, <3>1, <3>7
  <2>5. CASE j # 1
    <3> DEFINE i == j - 1
    <3>1. i \in Nat /\ i >= 1 /\ i + 1 = j /\ i \in 1..n /\ i < j /\ ~(j <= i)
      BY <1>1, <2>3, <2>5
    <3> HIDE DEF i
    <3>2. Merges(g[i], s, i) BY <2>2, <3>1
    <3>3. g[i + 1] = MergeNext(g[i], s[i + 1]) BY <1>3, <2>3, <2>5, <3>1 DEF i
    <3>4. Before(s[i], s[i + 1]) BY <1>2, <2>3, <3>1
    <3>5. s[i][1] \in Nat /\ s[i][1] <= s[i + 1][1]
          /\ s[i + 1] \in Nat \X Nat /\ s[i + 1][1] <= s[i + 1][2]
      BY <1>2, <2>3, <3>1, <3>4 DEF Before
    <3>6. Merges(g[i + 1], s, i + 1) BY <3>1, <3>2, <3>3, <3>5, MergeStep
    <3> QED BY <2>3, <3>1, <3>6
  <2> QED BY <2>4, <2>5
<1> QED BY <1>4 DEF n

\* The ticks some intervals occupy between two.
Occupied(intervals, start, end) ==
    {m \in start..(end - 1) : \E i \in intervals : i[1] <= m /\ m < i[2]}

\* union_minutes counts the ticks its intervals occupy, each once.
LEMMA UnionCounts ==
    ASSUME NEW intervals \in SUBSET (Nat \X Nat), NEW start \in Nat, NEW end \in Nat
    PROVE  UnionMinutes(intervals, start, end) = Cardinality(Occupied(intervals, start, end))
<1> DEFINE S == Clipped(intervals, start, end)
           s == Sorted(S)
           n == Cardinality(S)
           O == Occupied(intervals, start, end)
           g == CHOOSE g : IsMerge(s, g, n)
<1>1. ASSUME NEW x \in S
      PROVE  x \in (0..end) \X (0..end) /\ x[1] <= x[2]
  <2>1. PICK i \in intervals : /\ Later(i[1], start) <= Earlier(i[2], end)
                               /\ x = <<Later(i[1], start), Earlier(i[2], end)>>
    BY DEF Clipped
  <2>2. /\ Later(i[1], start) \in Nat /\ Earlier(i[2], end) \in Nat
        /\ Earlier(i[2], end) <= end
    BY DEF Later, Earlier
  <2> QED BY <2>1, <2>2
<1>2. S \in SUBSET ((0..end) \X (0..end)) /\ \A x \in S : x[1] <= x[2] BY <1>1
<1>3. IsFiniteSet(S) /\ n \in Nat /\ IsSorted(s, S) BY <1>2, SortExists
<1>4. IsMerge(s, g, n) BY <1>3, MergeExists
<1>5. UnionMinutes(intervals, start, end) = IF n = 0 THEN 0 ELSE g[n].total + g[n].right - g[n].left
  BY DEF UnionMinutes, IsMerge
<1>6. O = CoveredBy(s, n)
  <2>1. ASSUME NEW m \in O PROVE m \in CoveredBy(s, n)
    <3>1. PICK i \in intervals : i[1] <= m /\ m < i[2] BY DEF Occupied
    <3>2. m \in Nat /\ start <= m /\ m < end BY DEF Occupied
    <3>3. /\ Later(i[1], start) <= m /\ m < Earlier(i[2], end)
          /\ Later(i[1], start) <= Earlier(i[2], end)
      BY <3>1, <3>2 DEF Later, Earlier
    <3> DEFINE x == <<Later(i[1], start), Earlier(i[2], end)>>
    <3>4. x \in S /\ x[1] <= m /\ m < x[2] BY <3>3 DEF Clipped
    <3> HIDE DEF S, s, n, x
    <3>5. PICK k \in 1..Cardinality(S) : s[k] = x BY <1>3, <3>4, SortedMeets
    <3> QED BY <3>2, <3>4, <3>5 DEF CoveredBy, n
  <2>2. ASSUME NEW m \in CoveredBy(s, n) PROVE m \in O
    <3>1. PICK k \in 1..n : s[k][1] <= m /\ m < s[k][2] BY DEF CoveredBy
    <3>2. s[k] \in S BY <1>3 DEF IsSorted
    <3>3. PICK i \in intervals : s[k] = <<Later(i[1], start), Earlier(i[2], end)>>
      BY <3>2 DEF Clipped
    <3>4. m \in Nat BY DEF CoveredBy
    <3>5. Later(i[1], start) <= m /\ m < Earlier(i[2], end) BY <3>1, <3>3
    <3>6. i[1] <= m /\ m < i[2] /\ m \in start..(end - 1) BY <3>4, <3>5 DEF Later, Earlier
    <3> QED BY <3>6 DEF Occupied
  <2> QED BY <2>1, <2>2
<1> HIDE DEF S, s, n, O, g
<1>7. CASE n = 0
  <2>1. CoveredBy(s, n) = {} BY <1>7 DEF CoveredBy
  <2>2. Cardinality(O) = 0 BY <1>6, <2>1, FS_EmptySet
  <2> QED BY <1>5, <1>7, <2>2 DEF O
<1>8. CASE n # 0
  <2>1. n \in 1..n BY <1>3, <1>8
  <2>2. Merges(g[n], s, n) BY <1>2, <1>3, <1>4, <2>1, MergesHold DEF n
  <2> DEFINE acc == g[n]
             closed == {m \in CoveredBy(s, n) : m < acc.left}
  <2>3. /\ acc.left \in Nat /\ acc.right \in Nat /\ acc.total \in Nat /\ acc.left <= acc.right
        /\ O = closed \cup acc.left..(acc.right - 1)
        /\ IsFiniteSet(closed) /\ Cardinality(closed) = acc.total
    BY <1>6, <2>2 DEF Merges
  <2>4. closed \in SUBSET Nat /\ \A m \in closed : m < acc.left BY DEF CoveredBy
  <2> HIDE DEF acc, closed
  <2> DEFINE a == acc.left
             b == acc.right
  <2>5. a \in Nat /\ b \in Nat /\ a <= b /\ IsFiniteSet(closed) /\ \A m \in closed : m < a
    BY <2>3, <2>4
  <2> HIDE DEF a, b
  <2>6. Cardinality(closed \cup a..(b - 1)) = Cardinality(closed) + b - a
    BY <2>4, <2>5, ClosedAndOpen
  <2>7. Cardinality(O) = acc.total + acc.right - acc.left BY <2>3, <2>6 DEF a, b
  <2> QED BY <1>5, <1>8, <2>7 DEF acc, O
<1> QED BY <1>7, <1>8
-----------------------------------------------------------------------------
(* A complete timeline is true.                                            *)

\* The newest of some numbered posts is one of them, and the only one.
LEMMA NewestIs ==
    ASSUME NEW S, NEW n \in Nat, Numbered(S, n), NEW T \in SUBSET S, T # {}
    PROVE  /\ Newest(T) \in T
           /\ \A o \in T : o.at < Newest(T).at \/ (o.at = Newest(T).at /\ o.id <= Newest(T).id)
           /\ \A x \in T : (\A o \in T : o.at < x.at \/ (o.at = x.at /\ o.id <= x.id)) => x = Newest(T)
<1>1. /\ \A s \in S : s.at \in Nat /\ s.at <= n /\ s.id \in Nat /\ s.id <= Cardinality(S)
      /\ \A s, o \in S : s.id = o.id => s = o
      /\ Cardinality(S) \in Nat
  BY FS_CardinalityType DEF Numbered
<1> DEFINE A == {s.at : s \in T}
<1>2. A \in SUBSET (0..n) /\ A # {} BY <1>1
<1>3. PICK a \in A : \A x \in A : x <= a
  <2> HIDE DEF A
  <2> QED BY <1>2, GreatestOf
<1> DEFINE I == {s.id : s \in {q \in T : q.at = a}}
<1>4. I \in SUBSET (0..Cardinality(S)) /\ I # {} BY <1>1, <1>3
<1>5. PICK i \in I : \A x \in I : x <= i
  <2> HIDE DEF I
  <2> QED BY <1>1, <1>4, GreatestOf
<1>6. PICK s \in T : s.at = a /\ s.id = i BY <1>5
<1>7. ASSUME NEW o \in T PROVE o.at < s.at \/ (o.at = s.at /\ o.id <= s.id)
  <2>1. o.at <= a /\ o.at \in Nat /\ a \in Nat BY <1>1, <1>3
  <2>2. o.at = a => o.id <= i BY <1>5
  <2> QED BY <1>6, <2>1, <2>2
<1>8. /\ Newest(T) \in T
      /\ \A o \in T : o.at < Newest(T).at \/ (o.at = Newest(T).at /\ o.id <= Newest(T).id)
  BY <1>7 DEF Newest
<1>9. ASSUME NEW x \in T, \A o \in T : o.at < x.at \/ (o.at = x.at /\ o.id <= x.id)
      PROVE  x = Newest(T)
  <2> DEFINE y == Newest(T)
  <2>1. y \in T /\ (x.at < y.at \/ (x.at = y.at /\ x.id <= y.id)) BY <1>8
  <2>2. y.at < x.at \/ (y.at = x.at /\ y.id <= x.id) BY <1>9, <2>1
  <2> HIDE DEF y
  <2>3. x \in S /\ y \in S /\ x.at \in Nat /\ y.at \in Nat /\ x.id \in Nat /\ y.id \in Nat
    BY <1>1, <2>1
  <2>4. x.id = y.id BY <2>1, <2>2, <2>3
  <2>5. x = y BY <1>1, <2>3, <2>4
  <2> QED BY <2>5 DEF y
<1> QED BY <1>8, <1>9

LEMMA PushIs ==
    ASSUME FlowInv, Push # Absent
    PROVE  Push \in Nat /\ Push <= Merged /\ Merged \in Nat
<1> DEFINE C == {s \in suites : s <= Merged}
<1>1. Merged \in Nat /\ Created \in Nat /\ Created <= Merged /\ suites \in SUBSET Nat
  BY TimesAssumption DEF FlowInv, EventsKnown
<1>2. C # {} /\ Push = Later(First(C), Created) BY DEF Push, PushProxy
<1>3. C \in SUBSET Nat BY <1>1
<1>4. PICK x \in C : \A y \in C : x <= y
  <2> HIDE DEF C
  <2> QED BY <1>2, <1>3, LeastOf
<1>5. First(C) \in C BY <1>4 DEF First
<1>6. First(C) \in Nat /\ First(C) <= Merged BY <1>1, <1>5
<1> HIDE DEF C
<1> QED BY <1>1, <1>2, <1>6 DEF Later

\* A run as it really occupied the delivery.
RanFor(r) == <<Later(began[r], Push), RunEnd(r)>>

LEMMA RanWithin ==
    ASSUME FlowInv, Push # Absent, NEW r \in Ran(Runs)
    PROVE  /\ RanFor(r)[1] \in Nat /\ RanFor(r)[2] \in Nat
           /\ Push <= RanFor(r)[1] /\ RanFor(r)[1] <= RanFor(r)[2] /\ RanFor(r)[2] <= Merged
           /\ \A m \in Push..(Merged - 1) :
                 RanFor(r)[1] <= m /\ m < RanFor(r)[2]
                   <=> ~(m < began[r] \/ (ended[r] # Absent /\ ended[r] <= m))
<1>1. Push \in Nat /\ Merged \in Nat /\ Push <= Merged BY PushIs
<1>2. /\ r \in Runs /\ began[r] \in Nat /\ began[r] < Merged
      /\ ended[r] # Absent => ended[r] \in Nat /\ began[r] <= ended[r] /\ Push <= ended[r]
  BY <1>1 DEF Ran, FlowInv, RunsKnown
<1>3. RunEnd(r) = IF ended[r] = Absent THEN Merged ELSE Earlier(ended[r], Merged) BY DEF RunEnd
<1>4. /\ RunEnd(r) \in Nat /\ RunEnd(r) <= Merged /\ Push <= RunEnd(r) /\ began[r] <= RunEnd(r)
  BY <1>1, <1>2, <1>3 DEF Earlier
<1>5. RanFor(r)[1] = Later(began[r], Push) /\ RanFor(r)[2] = RunEnd(r) BY DEF RanFor
<1>6. ASSUME NEW m \in Push..(Merged - 1)
      PROVE  RanFor(r)[1] <= m /\ m < RanFor(r)[2]
                   <=> ~(m < began[r] \/ (ended[r] # Absent /\ ended[r] <= m))
  <2>1. m \in Nat /\ Push <= m /\ m < Merged BY <1>1
  <2>2. Later(began[r], Push) <= m <=> ~(m < began[r]) BY <1>1, <1>2, <2>1 DEF Later
  <2>3. m < RunEnd(r) <=> ~(ended[r] # Absent /\ ended[r] <= m)
    BY <1>1, <1>2, <1>3, <2>1 DEF Earlier
  <2> QED BY <1>5, <2>2, <2>3
<1>7. Later(began[r], Push) \in Nat /\ Push <= Later(began[r], Push)
      /\ Later(began[r], Push) <= RunEnd(r)
  BY <1>1, <1>2, <1>4 DEF Later
<1> QED BY <1>4, <1>5, <1>6, <1>7

\* The intervals of the truth are those of the runs that ran.
LEMMA TrueIntervals ==
    ASSUME FlowInv, EarlyDone, Push # Absent, NEW R \in SUBSET Runs
    PROVE  IntervalsIn({Truth(r) : r \in Early}, R, Push) = {RanFor(r) : r \in Ran(R)}
<1>1. Push \in Nat /\ Merged \in Nat /\ Push <= Merged BY PushIs
<1>2. ASSUME NEW r \in Early
      PROVE  /\ r \in Runs /\ began[r] \in Nat /\ began[r] < Merged /\ began[r] # Absent
             /\ ended[r] \in Nat /\ ended[r] # Absent /\ began[r] <= ended[r]
             /\ Truth(r).run = r
             /\ RunInterval(Truth(r), Push) = IF Push <= ended[r] THEN RanFor(r) ELSE Absent
  <2>1. r \in Runs /\ began[r] \in Nat /\ began[r] < Merged /\ told[r] = "completed" /\ began[r] # Absent
    BY <1>1 DEF Early, EarlyDone, FlowInv, RunsKnown
  <2>2. ended[r] # Absent /\ ended[r] \in Nat /\ began[r] <= ended[r]
    BY <2>1 DEF FlowInv, RunsKnown
  <2> DEFINE i == <<Later(began[r], Push), Earlier(ended[r], Merged)>>
  <2>3. Truth(r).started = began[r] /\ Truth(r).completed = ended[r] /\ Truth(r).run = r
    BY DEF Truth
  <2>4. RunInterval(Truth(r), Push) = IF i[1] <= i[2] THEN i ELSE Absent
    BY <1>1, <2>1, <2>2, <2>3 DEF RunInterval
  <2>5. i = RanFor(r) BY <2>2 DEF RanFor, RunEnd
  <2>6. i[1] <= i[2] <=> Push <= ended[r] BY <1>1, <2>1, <2>2 DEF Later, Earlier
  <2> HIDE DEF i
  <2> QED BY <2>1, <2>2, <2>3, <2>4, <2>5, <2>6
<1>3. ASSUME NEW x \in IntervalsIn({Truth(r) : r \in Early}, R, Push)
      PROVE  x \in {RanFor(r) : r \in Ran(R)}
  <2>1. PICK r \in Early : Truth(r).run \in R /\ x = RunInterval(Truth(r), Push) /\ x # Absent
    BY DEF IntervalsIn, IntervalsOf
  <2>2. r \in R /\ Push <= ended[r] /\ x = RanFor(r) BY <1>2, <2>1
  <2>3. r \in Ran(R) BY <1>1, <1>2, <2>2 DEF Ran
  <2> QED BY <2>2, <2>3
<1>4. ASSUME NEW r \in Ran(R) PROVE RanFor(r) \in IntervalsIn({Truth(q) : q \in Early}, R, Push)
  <2>1. r \in Early /\ r \in R BY DEF Ran, Early
  <2>2. r \in Ran(Runs) BY DEF Ran
  <2>3. Push <= ended[r] BY <1>1, <1>2, <2>1 DEF Ran
  <2>4. RunInterval(Truth(r), Push) = RanFor(r) BY <1>2, <2>1, <2>3
  <2>5. RanFor(r) # Absent
    <3>1. RanFor(r) \in Int \X Int BY <2>2, RanWithin DEF RanFor
    <3> QED BY <3>1, AbsentAssumption
  <2> QED BY <1>2, <2>1, <2>4, <2>5 DEF IntervalsIn, IntervalsOf
<1> QED BY <1>3, <1>4

\* The judge's latest verdict is the only one that counts.
LEMMA JudgeIs ==
    ASSUME FlowInv, Push # Absent
    PROVE  LET candidates == {s \in statuses : s.at <= Merged}
               latest == Newest(candidates)
               judge == JudgeFacts(statuses)
           IN  /\ Judged = IF candidates # {} /\ latest.at >= Push THEN {latest} ELSE {}
               /\ candidates = {} => judge.verdict = Absent
               /\ candidates # {} =>
                    /\ latest.at \in Nat /\ latest.at <= Merged /\ latest.start \in Nat
                    /\ judge.verdict = latest.at /\ judge.verdict # Absent
                    /\ judge.start = IF latest.kind = "run" THEN latest.start ELSE Absent
                    /\ latest.start <= latest.at /\ latest.start # Absent
<1> DEFINE candidates == {s \in statuses : s.at <= Merged}
           latest == Newest(candidates)
           judge == JudgeFacts(statuses)
<1>1. now \in Nat /\ Numbered(statuses, now) /\ statuses \in SUBSET Statuses
      /\ \A s \in statuses : s.start <= s.at
  BY DEF FlowInv, EventsKnown
<1>2. Push \in Nat /\ Merged \in Nat /\ Push <= Merged BY PushIs
<1>3. CASE candidates = {}
  <2>1. Judged = {} BY <1>3 DEF Judged
  <2>2. judge.verdict = Absent BY <1>3 DEF JudgeFacts, NoVerdict
  <2> QED BY <1>3, <2>1, <2>2
<1>4. CASE candidates # {}
  <2>1. candidates \in SUBSET statuses OBVIOUS
  <2>2. /\ latest \in candidates
        /\ \A o \in candidates : o.at < latest.at \/ (o.at = latest.at /\ o.id <= latest.id)
        /\ \A x \in candidates : (\A o \in candidates : o.at < x.at \/ (o.at = x.at /\ o.id <= x.id))
                                   => x = latest
    <3> HIDE DEF candidates
    <3> QED BY <1>1, <1>4, <2>1, NewestIs
  <2>3. /\ latest.at \in Nat /\ latest.at <= Merged /\ latest.start \in Nat
        /\ latest.start <= latest.at
    BY <1>1, <2>2 DEF Statuses
  <2>4. latest.at # Absent /\ latest.start # Absent BY <2>3, AbsentAssumption
  <2>5. judge = [verdict |-> latest.at,
                 start |-> IF latest.kind = "run" /\ latest.start <= latest.at
                           THEN latest.start ELSE Absent]
    BY <1>4 DEF JudgeFacts
  <2>6. Judged = IF latest.at >= Push THEN {latest} ELSE {}
    <3>1. ASSUME NEW s \in Judged PROVE s = latest /\ latest.at >= Push
      <4>1. s \in candidates /\ Push <= s.at
            /\ \A o \in candidates : o.at < s.at \/ (o.at = s.at /\ o.id <= s.id)
        BY DEF Judged
      <4>2. s = latest BY <2>2, <4>1
      <4> HIDE DEF latest
      <4> QED BY <4>1, <4>2, <1>2, <2>3
    <3>2. ASSUME latest.at >= Push PROVE latest \in Judged
      <4>1. latest \in statuses /\ Push <= latest.at /\ latest.at <= Merged
        BY <1>2, <2>2, <2>3, <3>2
      <4>2. \A o \in statuses : o.at <= Merged => o.at < latest.at \/ (o.at = latest.at /\ o.id <= latest.id)
        BY <2>2
      <4> HIDE DEF latest
      <4> QED BY <4>1, <4>2 DEF Judged
    <3> QED BY <3>1, <3>2
  <2> HIDE DEF latest
  <2>7. judge.verdict = latest.at /\ judge.start = IF latest.kind = "run" THEN latest.start ELSE Absent
    BY <2>3, <2>5
  <2> QED BY <1>4, <2>3, <2>4, <2>6, <2>7 DEF latest
<1> QED BY <1>3, <1>4
\* The timeline of the truth, in its parts.
TrueTimeline == Timeline(TrueEvidence, ReviewFacts(receipts))

\* It is measured from the runs that really ran.
LEMMA TrueParts ==
    ASSUME FlowInv, EarlyDone, TrueTimeline # Absent
    PROVE  /\ Push # Absent
           /\ LET ci == {RanFor(r) : r \in Ran(CiRuns)}
                  run == ReviewFacts(receipts).run
                  judging == JudgingAt(JudgeFacts(statuses), Push)
                  occupied == {RanFor(r) : r \in Ran(Runs)} \cup judging
              IN  TrueTimeline =
                    Measured(Push, ci # {}, ci, {RanFor(r) : r \in Ran(ReviewerRuns \cap {run})},
                             JudgeFacts(statuses),
                             Merged - Push - UnionMinutes(occupied, Push, Merged),
                             ReviewFacts(receipts))
<1> DEFINE d == TrueEvidence
           facts == ReviewFacts(receipts)
           ci == {RanFor(r) : r \in Ran(CiRuns)}
           reviewer == {RanFor(r) : r \in Ran(ReviewerRuns)}
           review == {RanFor(r) : r \in Ran(ReviewerRuns \cap {facts.run})}
           judging == JudgingAt(JudgeFacts(statuses), Push)
<1>1. /\ d.suites = suites /\ d.statuses = statuses /\ d.unread = {}
      /\ d.runs = {Truth(r) : r \in Early} /\ \A x \in d.runs : x.started # Absent
  BY TrueEvidenceIsWhole DEF Whole
<1> HIDE DEF d
<1>2. PushProxy(d.suites) = Push BY <1>1 DEF Push
<1>3. Push # Absent BY <1>2, TimelineParts DEF TrueTimeline, d
<1>4. CiOf(d, Push) = ci
  <2>1. CiRuns \in SUBSET Runs BY DEF Runs
  <2> QED BY <1>1, <1>3, <2>1, TrueIntervals DEF CiOf
<1>5. ReviewerOf(d, Push) = reviewer
  <2>1. ReviewerRuns \in SUBSET Runs BY DEF Runs
  <2> QED BY <1>1, <1>3, <2>1, TrueIntervals DEF ReviewerOf
<1>6. ReviewOf(d, Push, facts.run) = review
  <2> HIDE DEF facts
  <2>1. ReviewerRuns \cap {facts.run} \in SUBSET Runs BY DEF Runs
  <2> QED BY <1>1, <1>3, <2>1, TrueIntervals DEF ReviewOf
<1>7. ci \cup reviewer = {RanFor(r) : r \in Ran(Runs)}
  <2>1. Ran(Runs) = Ran(CiRuns) \cup Ran(ReviewerRuns) BY DEF Ran, Runs
  <2> QED BY <2>1
<1>8. ~QueuedOf(d, CiRuns) BY <1>1 DEF QueuedOf
<1>9. IdleOf(d, Push) = Merged - Push
                          - UnionMinutes({RanFor(r) : r \in Ran(Runs)} \cup judging, Push, Merged)
  <2> HIDE DEF ci, reviewer
  <2>1. ci \cup reviewer \cup judging = {RanFor(r) : r \in Ran(Runs)} \cup judging BY <1>7
  <2> QED BY <1>1, <1>4, <1>5, <2>1 DEF IdleOf
<1>10. TrueTimeline = Measured(Push, CiOf(d, Push) # {} /\ ~QueuedOf(d, CiRuns), CiOf(d, Push),
                               ReviewOf(d, Push, facts.run), JudgeFacts(d.statuses),
                               IdleOf(d, Push), facts)
  BY <1>2, <1>3, TimelineParts DEF TrueTimeline, d
<1> HIDE DEF ci, review, facts
<1>11. TrueTimeline = Measured(Push, ci # {}, ci, review, JudgeFacts(statuses), IdleOf(d, Push), facts)
  BY <1>1, <1>4, <1>6, <1>8, <1>10
<1> QED BY <1>3, <1>9, <1>11 DEF ci, review, facts

LEMMA CiIsTrue ==
    ASSUME FlowInv, EarlyDone, TrueTimeline # Absent
    PROVE  TrueTimeline.ci = IF Ran(CiRuns) = {} THEN Absent ELSE TrueCi
<1> DEFINE ci == {RanFor(r) : r \in Ran(CiRuns)}
<1>1. TrueTimeline.ci = IF ci # {} THEN Last1({i[2] : i \in ci}) - First({i[1] : i \in ci}) ELSE Absent
  BY TrueParts DEF Measured
<1>0. \A r : RanFor(r)[1] = Later(began[r], Push) /\ RanFor(r)[2] = RunEnd(r) BY DEF RanFor
<1>2. {i[2] : i \in ci} = {RunEnd(r) : r \in Ran(CiRuns)}
  <2>1. {i[2] : i \in ci} = {RanFor(r)[2] : r \in Ran(CiRuns)} OBVIOUS
  <2> QED BY <1>0, <2>1
<1>3. {i[1] : i \in ci} = {Later(began[r], Push) : r \in Ran(CiRuns)}
  <2>1. {i[1] : i \in ci} = {RanFor(r)[1] : r \in Ran(CiRuns)} OBVIOUS
  <2> QED BY <1>0, <2>1
<1>4. ci = {} <=> Ran(CiRuns) = {} OBVIOUS
<1> HIDE DEF ci
<1> QED BY <1>1, <1>2, <1>3, <1>4 DEF TrueCi

LEMMA ReviewIsTrue ==
    ASSUME FlowInv, EarlyDone, TrueTimeline # Absent
    PROVE  TrueTimeline.review = IF Reviews = {} THEN Absent ELSE TrueReview
<1> DEFINE facts == ReviewFacts(receipts)
           last == Newest(Reviews)
           review == {RanFor(r) : r \in Ran(ReviewerRuns \cap {facts.run})}
<1>1. TrueTimeline.review = IF facts.carried = TRUE THEN 0
                            ELSE IF review # {} THEN Last1({i[2] - i[1] : i \in review}) ELSE Absent
  <2> DEFINE ci == {RanFor(r) : r \in Ran(CiRuns)}
             idle == Merged - Push
                      - UnionMinutes({RanFor(r) : r \in Ran(Runs)} \cup JudgingAt(JudgeFacts(statuses), Push),
                                     Push, Merged)
  <2>1. TrueTimeline = Measured(Push, ci # {}, ci, review, JudgeFacts(statuses), idle, facts)
    BY TrueParts
  <2> HIDE DEF ci, idle, review, facts
  <2> QED BY <2>1 DEF Measured
<1>2. Reviews = {r \in {q \in receipts : q.at <= Merged} : r.final} BY DEF Reviews
<1>3. /\ facts.carried = IF Reviews = {} THEN Absent ELSE last.carried
      /\ facts.run = IF Reviews = {} THEN Absent ELSE last.run
  BY <1>2 DEF ReviewFacts
<1>4. CASE Reviews = {}
  <2>1. ReviewerRuns \cap {facts.run} = {} BY <1>3, <1>4, AbsentAssumption DEF Runs
  <2>2. review = {} BY <2>1 DEF Ran
  <2>3. facts.carried # TRUE BY <1>3, <1>4, AbsentAssumption
  <2> HIDE DEF facts, review
  <2> QED BY <1>1, <1>4, <2>2, <2>3
<1>5. CASE Reviews # {}
  <2>1. last \in VerdictReceipts
    <3>1. now \in Nat /\ Numbered(receipts, now) /\ receipts \in SUBSET VerdictReceipts
      BY DEF FlowInv, EventsKnown
    <3>2. Reviews \in SUBSET receipts BY DEF Reviews
    <3>3. last \in Reviews BY <1>5, <3>1, <3>2, NewestIs
    <3> QED BY <3>1, <3>2, <3>3
  <2>2. last.carried \in BOOLEAN /\ last.run \in ReviewerRuns BY <2>1 DEF VerdictReceipts
  <2>3. facts.carried = last.carried /\ facts.run = last.run BY <1>3, <1>5
  <2>4. TrueReview = IF last.carried THEN 0
                     ELSE IF last.run \in Ran(ReviewerRuns)
                          THEN RunEnd(last.run) - Later(began[last.run], Push) ELSE Absent
    BY DEF TrueReview
  <2>5. ReviewerRuns \cap {last.run} = {last.run} BY <2>2
  <2>6. review = IF last.run \in Ran(ReviewerRuns) THEN {RanFor(last.run)} ELSE {}
    <3>1. review = {RanFor(r) : r \in Ran({last.run})} BY <2>3, <2>5
    <3>2. Ran({last.run}) = IF last.run \in Ran(ReviewerRuns) THEN {last.run} ELSE {}
      BY <2>2 DEF Ran
    <3> QED BY <3>1, <3>2
  <2> HIDE DEF facts, review, last
  <2>7. CASE last.carried
    <3>1. last.carried = TRUE BY <2>2, <2>7
    <3> QED BY <1>1, <1>5, <2>3, <2>4, <2>7, <3>1
  <2>8. CASE ~last.carried /\ last.run \in Ran(ReviewerRuns)
    <3>1. facts.carried # TRUE BY <2>3, <2>8
    <3>2. {i[2] - i[1] : i \in review} = {RunEnd(last.run) - Later(began[last.run], Push)}
      BY <2>6, <2>8 DEF RanFor
    <3> DEFINE x == RunEnd(last.run) - Later(began[last.run], Push)
    <3>3. x \in Int
      <4>1. last.run \in Ran(Runs) BY <2>8 DEF Ran, Runs
      <4>2. Push # Absent BY TrueParts
      <4> QED BY <4>1, <4>2, RanWithin DEF RanFor
    <3> HIDE DEF x
    <3>4. Last1({x}) = x BY <3>3 DEF Last1
    <3>5. review # {} BY <2>6, <2>8
    <3> QED BY <1>1, <1>5, <2>4, <2>8, <3>1, <3>2, <3>4, <3>5 DEF x
  <2>9. CASE ~last.carried /\ last.run \notin Ran(ReviewerRuns)
    <3>1. facts.carried # TRUE BY <2>3, <2>9
    <3> QED BY <1>1, <1>5, <2>4, <2>6, <2>9, <3>1
  <2> QED BY <2>7, <2>8, <2>9
<1> QED BY <1>4, <1>5

LEMMA JudgeWaitIsTrue ==
    ASSUME FlowInv, EarlyDone, TrueTimeline # Absent
    PROVE  TrueTimeline.judgeWait =
             IF Judged = {} THEN Absent ELSE First({s.at : s \in Judged}) - Push
<1> DEFINE candidates == {s \in statuses : s.at <= Merged}
           latest == Newest(candidates)
           judge == JudgeFacts(statuses)
<1>1. Push # Absent BY TrueParts
<1>2. TrueTimeline.judgeWait = IF JudgedAt(judge, Push) THEN judge.verdict - Push ELSE Absent
  BY TrueParts DEF Measured
<1>3. /\ Judged = IF candidates # {} /\ latest.at >= Push THEN {latest} ELSE {}
      /\ candidates = {} => judge.verdict = Absent
      /\ candidates # {} => /\ latest.at \in Nat /\ judge.verdict = latest.at
                            /\ judge.verdict # Absent
  BY <1>1, JudgeIs
<1> HIDE DEF candidates, latest, judge
<1>4. JudgedAt(judge, Push) <=> candidates # {} /\ latest.at >= Push BY <1>3 DEF JudgedAt
<1>5. CASE candidates # {} /\ latest.at >= Push
  <2>1. {s.at : s \in Judged} = {latest.at} BY <1>3, <1>5
  <2>2. First({latest.at}) = latest.at BY <1>3, <1>5 DEF First
  <2> QED BY <1>2, <1>3, <1>4, <1>5, <2>1, <2>2
<1>6. CASE ~(candidates # {} /\ latest.at >= Push) BY <1>2, <1>3, <1>4, <1>6
<1> QED BY <1>5, <1>6

LEMMA IdleIsTrue ==
    ASSUME FlowInv, EarlyDone, TrueTimeline # Absent
    PROVE  TrueTimeline.idle = Cardinality(IdleTicks)
<1> DEFINE candidates == {s \in statuses : s.at <= Merged}
           latest == Newest(candidates)
           judge == JudgeFacts(statuses)
           ran == {RanFor(r) : r \in Ran(Runs)}
           judging == JudgingAt(judge, Push)
           all == ran \cup judging
           span == Push..(Merged - 1)
<1>1. Push # Absent BY TrueParts
<1>2. Push \in Nat /\ Merged \in Nat /\ Push <= Merged BY <1>1, PushIs
<1>3. TrueTimeline.idle = Merged - Push - UnionMinutes(all, Push, Merged)
  BY TrueParts DEF Measured
<1>4. /\ Judged = IF candidates # {} /\ latest.at >= Push THEN {latest} ELSE {}
      /\ candidates = {} => judge.verdict = Absent
      /\ candidates # {} =>
           /\ latest.at \in Nat /\ latest.at <= Merged /\ latest.start \in Nat
           /\ judge.verdict = latest.at /\ judge.verdict # Absent
           /\ judge.start = IF latest.kind = "run" THEN latest.start ELSE Absent
           /\ latest.start <= latest.at /\ latest.start # Absent
  BY <1>1, JudgeIs
<1> HIDE DEF candidates, latest, judge
<1>5. judging = IF Judged = {latest} /\ Judged # {} /\ latest.kind = "run"
                THEN {<<Later(latest.start, Push), latest.at>>} ELSE {}
  <2>1. JudgedAt(judge, Push) <=> candidates # {} /\ latest.at >= Push BY <1>4 DEF JudgedAt
  <2>2. CASE candidates # {} /\ latest.at >= Push /\ latest.kind = "run"
    BY <1>4, <2>1, <2>2 DEF JudgingAt
  <2>3. CASE candidates # {} /\ latest.at >= Push /\ latest.kind # "run"
    BY <1>4, <2>1, <2>3 DEF JudgingAt
  <2>4. CASE ~(candidates # {} /\ latest.at >= Push)
    BY <1>4, <2>1, <2>4 DEF JudgingAt
  <2> QED BY <2>2, <2>3, <2>4
<1>6. ASSUME Judged # {}
      PROVE  Judged = {latest} /\ latest.at \in Nat /\ latest.start \in Nat
             /\ latest.start <= latest.at /\ latest.at <= Merged
  BY <1>4, <1>6
<1>7. all \in SUBSET (Nat \X Nat)
  <2>1. \A r \in Ran(Runs) : RanFor(r) \in Nat \X Nat BY <1>1, RanWithin DEF RanFor
  <2>2. judging \in SUBSET (Nat \X Nat) BY <1>2, <1>5, <1>6 DEF Later
  <2> HIDE DEF judging
  <2> QED BY <2>1, <2>2
<1>8. ASSUME NEW m \in span
      PROVE  m \in IdleTicks <=> m \notin Occupied(all, Push, Merged)
  <2>1. m \in Nat /\ Push <= m /\ m < Merged BY <1>2
  <2>2. m \in IdleTicks <=>
          /\ \A r \in Ran(Runs) : m < began[r] \/ (ended[r] # Absent /\ ended[r] <= m)
          /\ \A s \in Judged : s.kind = "run" => m < s.start \/ s.at <= m
    BY DEF IdleTicks
  <2>3. m \in Occupied(all, Push, Merged) <=>
          \/ \E r \in Ran(Runs) : RanFor(r)[1] <= m /\ m < RanFor(r)[2]
          \/ \E i \in judging : i[1] <= m /\ m < i[2]
    <3> HIDE DEF judging
    <3> QED BY DEF Occupied
  <2>4. \A r \in Ran(Runs) : RanFor(r)[1] <= m /\ m < RanFor(r)[2]
                               <=> ~(m < began[r] \/ (ended[r] # Absent /\ ended[r] <= m))
    BY <1>1, RanWithin
  <2>5. (\E i \in judging : i[1] <= m /\ m < i[2])
          <=> \E s \in Judged : s.kind = "run" /\ ~(m < s.start \/ s.at <= m)
    <3>1. CASE Judged = {} BY <1>5, <3>1
    <3>2. CASE Judged # {}
      <4>1. Judged = {latest} /\ latest.at \in Nat /\ latest.start \in Nat BY <1>6, <3>2
      <4>2. CASE latest.kind = "run"
        <5>1. judging = {<<Later(latest.start, Push), latest.at>>} BY <1>5, <3>2, <4>1, <4>2
        <5>2. Later(latest.start, Push) <= m <=> ~(m < latest.start)
          BY <1>2, <2>1, <4>1 DEF Later
        <5>3. m < latest.at <=> ~(latest.at <= m) BY <2>1, <4>1
        <5> HIDE DEF judging
        <5> QED BY <4>1, <4>2, <5>1, <5>2, <5>3
      <4>3. CASE latest.kind # "run"
        <5>1. judging = {} BY <1>5, <4>3
        <5> HIDE DEF judging
        <5> QED BY <4>1, <4>3, <5>1
      <4> QED BY <4>2, <4>3
    <3> QED BY <3>1, <3>2
  <2> HIDE DEF judging, all
  <2> QED BY <2>2, <2>3, <2>4, <2>5
<1>9. IdleTicks = span \ Occupied(all, Push, Merged)
  <2>1. IdleTicks \in SUBSET span BY DEF IdleTicks
  <2> HIDE DEF span, all
  <2> QED BY <1>8, <2>1
<1>10. Occupied(all, Push, Merged) \in SUBSET span BY DEF Occupied
<1>11. IsFiniteSet(span) /\ Cardinality(span) = Merged - Push BY <1>2, IntervalSize
<1>12. UnionMinutes(all, Push, Merged) = Cardinality(Occupied(all, Push, Merged))
  <2> HIDE DEF all
  <2> QED BY <1>2, <1>7, UnionCounts
<1> DEFINE O == Occupied(all, Push, Merged)
<1> HIDE DEF span, O, all
<1>13. Cardinality(span \ O) = Cardinality(span) - Cardinality(span \cap O)
  BY <1>11, FS_Difference
<1>14. span \cap O = O BY <1>10 DEF O
<1>15. IsFiniteSet(O) /\ Cardinality(O) \in Nat
  BY <1>10, <1>11, FS_Subset, FS_CardinalityType DEF O
<1> QED BY <1>2, <1>3, <1>9, <1>11, <1>12, <1>13, <1>14, <1>15 DEF O

\* A complete entry is the whole truth: the timeline it gives counts as idle
\* exactly the ticks nobody worked, and the CI, the review and the judge as they
\* were (flow.py: compute_timeline; flow_cache.py: is_complete).
THEOREM FinalTimelines == FlowSpec => []FinalTimelinesAreTrue
<1>1. ASSUME FlowInv PROVE FinalTimelinesAreTrue
  <2>1. SUFFICES ASSUME cache # Absent, cache.complete,
                        Timeline(cache.evidence, ReviewFacts(receipts)) # Absent
                 PROVE  LET t == Timeline(cache.evidence, ReviewFacts(receipts)) IN
                        /\ t.flow = Merged - Push
                        /\ t.idle = Cardinality(IdleTicks)
                        /\ t.ci = IF Ran(CiRuns) = {} THEN Absent ELSE TrueCi
                        /\ t.review = IF Reviews = {} THEN Absent ELSE TrueReview
                        /\ t.judgeWait = IF Judged = {} THEN Absent
                                         ELSE First({s.at : s \in Judged}) - Push
    BY DEF FinalTimelinesAreTrue
  <2>2. EarlyDone /\ Whole(cache.evidence) /\ Agrees(cache.evidence, TrueEvidence)
    BY <1>1, <2>1 DEF FlowInv, CacheTrue
  <2>3. Timeline(cache.evidence, ReviewFacts(receipts)) = TrueTimeline
    BY <2>2, TimelinesAgree, TrueEvidenceIsWhole DEF TrueTimeline
  <2>4. TrueTimeline # Absent BY <2>1, <2>3
  <2>5. TrueTimeline.flow = Merged - Push BY <1>1, <2>2, <2>4, TrueParts DEF Measured
  <2> QED BY <1>1, <2>2, <2>3, <2>4, <2>5, IdleIsTrue, CiIsTrue, ReviewIsTrue, JudgeWaitIsTrue
<1> QED BY <1>1, FlowInvariance, PTL
=============================================================================
