--------------------------- MODULE EvidenceLedger ---------------------------
(***************************************************************************)
(* What attesting promises, whoever attests and whatever fails: a receipt  *)
(* is owed from the moment it is written until the shared ledger holds its *)
(* key, the ledger holds nothing that was not owed first, one row per key, *)
(* and it never forgets a row.                                             *)
(***************************************************************************)
EXTENDS Naturals

CONSTANTS Keys, Kinds, Payloads, Instants

VARIABLES
    owed,       \* receipts written and not yet discharged
    held        \* rows of the shared ledger

vars == <<owed, held>>

Receipts == [key : Keys, kind : Kinds, data : Payloads, at : Instants]

HeldKey(k) == \E row \in held : row.key = k

Init == owed = {} /\ held = {}

\* A receipt is written before anything is sent.
Owe(r) ==
    /\ owed' = owed \cup {r}
    /\ UNCHANGED held

\* The ledger takes a receipt that is owed, the first of its key.
Hold(r) ==
    /\ r \in owed
    /\ ~HeldKey(r.key)
    /\ held' = held \cup {r}
    /\ UNCHANGED owed

\* A receipt is discharged once the ledger holds a row of its key and kind:
\* its own fact, or another that makes it impossible to record.
Discharge(r) ==
    /\ \E row \in held : row.key = r.key /\ row.kind = r.kind
    /\ owed' = owed \ {r}
    /\ UNCHANGED held

Next == \E r \in Receipts : Owe(r) \/ Hold(r) \/ Discharge(r)

Spec == Init /\ [][Next]_vars

=============================================================================
