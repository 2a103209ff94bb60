----------------------- MODULE DeliveryTicket_proofs -----------------------
(***************************************************************************)
(* The gate integrate.receipt speaks of the contract that holds, for any   *)
(* number of operators, contracts, pull requests, commands and failures.   *)
(***************************************************************************)
EXTENDS DeliveryTicket, FiniteSetTheorems, TLAPS

-----------------------------------------------------------------------------
(* The inductive invariant.                                                *)

CommandsType ==
    /\ cmd \in [Operators -> Commands]
    /\ \A o \in Operators :
           /\ cmd[o].what = "set" => cmd[o].arg \in Contents
           /\ cmd[o].what = "bind" => cmd[o].arg \in Pulls

\* A pull request is bound under a contract, or about to be.
BoundUnderAContract ==
    /\ bindings # {} => revisions # <<>>
    /\ \A o \in Operators : Runs(o, "bind", "call") => cmd[o].view.revision # 0

\* A receipt tells of its revision what brain holds of it.
ReceiptsTellTheContract ==
    \A i \in DOMAIN receipts :
        /\ receipts[i].revision \in DOMAIN revisions
        /\ receipts[i].content = revisions[receipts[i].revision]

\* The receipt not superseded is of the contract that holds.
CurrentIsOfTheContract == current # 0 => receipts[current].revision = Len(revisions)

\* A receipt is of the merge that was observed in its turn.
MergesAreObserved ==
    /\ Len(merges) = Len(receipts)
    /\ \A i \in DOMAIN receipts :
           receipts[i].sha \in {0, merges[i].sha} /\ receipts[i].revision = merges[i].under

SpeaksInv == ReceiptsTellTheContract /\ CurrentIsOfTheContract /\ MergesAreObserved

-----------------------------------------------------------------------------
(* The commands.                                                           *)

LEMMA VersionType ==
    ASSUME TypeOK
    PROVE  Version \in Nat
BY FS_CardinalityType DEF TypeOK, Version

\* The view a command is given.
LEMMA ViewType ==
    ASSUME TypeOK
    PROVE  TheView \in [revision : Nat, version : Nat, receipt : Nat]
BY VersionType DEF TypeOK, TheView

\* One command changes, and keeps its request.
LEMMA OneCommand ==
    ASSUME TypeOK, NEW o \in Operators, NEW c \in Commands, cmd' = [cmd EXCEPT ![o] = c],
           c.what = "set" => c.arg \in Contents, c.what = "bind" => c.arg \in Pulls
    PROVE  CommandsType'
BY DEF TypeOK, CommandsType

\* A command that ends keeps its request.
LEMMA ExitsType ==
    ASSUME TypeOK, NEW o \in Operators, NEW exit \in {"ok", "error"},
           NEW told \in Nat \cup Pulls, Exits(o, exit, told)
    PROVE  CommandsType'
<1> DEFINE c == [cmd[o] EXCEPT !.at = "idle", !.exit = exit, !.told = told]
<1>1. cmd[o] \in Commands BY DEF TypeOK
<1>2. c \in Commands BY <1>1 DEF Commands
<1>3. c.what = cmd[o].what /\ c.arg = cmd[o].arg BY <1>1 DEF Commands
<1>4. cmd' = [cmd EXCEPT ![o] = c] BY DEF Exits
<1> HIDE DEF c
<1> QED BY <1>2, <1>3, <1>4, OneCommand DEF TypeOK

\* So does one that goes on.
LEMMA GoesType ==
    ASSUME TypeOK, NEW o \in Operators, NEW at \in {"list", "head", "view", "call"}, Goes(o, at)
    PROVE  CommandsType'
<1> DEFINE c == [cmd[o] EXCEPT !.at = at]
<1>1. cmd[o] \in Commands BY DEF TypeOK
<1>2. c \in Commands BY <1>1 DEF Commands
<1>3. c.what = cmd[o].what /\ c.arg = cmd[o].arg BY <1>1 DEF Commands
<1>4. cmd' = [cmd EXCEPT ![o] = c] BY DEF Goes
<1> HIDE DEF c
<1> QED BY <1>2, <1>3, <1>4, OneCommand DEF TypeOK

-----------------------------------------------------------------------------
(* Types.                                                                  *)

\* A step changes the ticket and GitHub as their types allow.
LedgerType ==
    /\ revisions \in Seq(Contents)
    /\ bindings \subseteq [pull : Pulls, head : Nat] /\ IsFiniteSet(bindings)
    /\ receipts \in Seq([sha : Nat, revision : Nat, content : Contents])
    /\ current \in {0} \cup DOMAIN receipts /\ accepted \in {0} \cup DOMAIN receipts

\* What brain records.
LEMMA SetsType ==
    ASSUME TypeOK, NEW o \in Operators, NEW expected \in Nat, NEW key \in Nat,
           NEW content \in Contents, Sets(o, expected, key, content)
    PROVE  LedgerType' /\ CommandsType'
<1>1. CASE UNCHANGED ticket
  <2>1. LedgerType' BY <1>1 DEF TypeOK, LedgerType, ticket
  <2>2. \E exit \in {"ok", "error"}, told \in Nat \cup Pulls : Exits(o, exit, told)
    <3>1. CASE Exits(o, "ok", key) BY <3>1
    <3>2. CASE Exits(o, "error", 0) BY <3>2
    <3>3. CASE Exits(o, "ok", Len(revisions) + 1) BY <3>3 DEF TypeOK
    <3> QED BY <3>1, <3>2, <3>3 DEF Sets
  <2> QED BY <2>1, <2>2, ExitsType
<1>2. CASE /\ revisions' = Append(revisions, content) /\ current' = 0
           /\ Exits(o, "ok", Len(revisions) + 1)
           /\ UNCHANGED <<bindings, receipts, accepted>>
  <2>1. LedgerType' BY <1>2 DEF TypeOK, LedgerType
  <2>2. Len(revisions) + 1 \in Nat \cup Pulls BY DEF TypeOK
  <2> QED BY <1>2, <2>1, <2>2, ExitsType
<1> QED BY <1>1, <1>2 DEF Sets

LEMMA BindsType ==
    ASSUME TypeOK, NEW o \in Operators, NEW view, NEW n \in Pulls, NEW head \in Nat,
           Binds(o, view, n, head)
    PROVE  LedgerType' /\ CommandsType'
<1>1. CASE UNCHANGED ticket
  <2>1. LedgerType' BY <1>1 DEF TypeOK, LedgerType, ticket
  <2>2. \E exit \in {"ok", "error"}, told \in Nat \cup Pulls : Exits(o, exit, told)
    BY DEF Binds
  <2> QED BY <2>1, <2>2, ExitsType
<1>2. CASE /\ bindings' = bindings \cup {[pull |-> n, head |-> head]}
           /\ Exits(o, "ok", n)
           /\ UNCHANGED <<revisions, receipts, current, accepted>>
  <2>1. IsFiniteSet(bindings') BY <1>2, FS_AddElement DEF TypeOK
  <2>2. LedgerType' BY <1>2, <2>1 DEF TypeOK, LedgerType
  <2> QED BY <1>2, <2>2, ExitsType
<1> QED BY <1>1, <1>2 DEF Binds

LEMMA AcceptsType ==
    ASSUME TypeOK, NEW o \in Operators, NEW expected, Accepts(o, expected)
    PROVE  LedgerType' /\ CommandsType'
<1>1. CASE /\ accepted' = IF accepted = 0 THEN current ELSE accepted
           /\ Exits(o, "ok", accepted')
           /\ UNCHANGED <<revisions, bindings, receipts, current>>
  <2>1. LedgerType' BY <1>1 DEF TypeOK, LedgerType
  <2>2. accepted' \in Nat BY <1>1 DEF TypeOK
  <2> QED BY <1>1, <2>1, <2>2, ExitsType
<1>2. CASE Exits(o, "error", 0) /\ UNCHANGED ticket
  <2>1. LedgerType' BY <1>2 DEF TypeOK, LedgerType, ticket
  <2> QED BY <1>2, <2>1, ExitsType
<1> QED BY <1>1, <1>2 DEF Accepts

\* GitHub and the checkouts stay.
LEMMA WorldKeepsType ==
    ASSUME TypeOK, LedgerType', CommandsType', UNCHANGED World, faults' \in Nat
    PROVE  TypeOK'
BY DEF TypeOK, LedgerType, CommandsType, World, github

LEMMA CommandStepType ==
    ASSUME TypeOK, NEW o \in Operators, UNCHANGED ticket, CommandsType', UNCHANGED World,
           UNCHANGED faults
    PROVE  TypeOK'
<1>1. LedgerType' BY DEF TypeOK, LedgerType, ticket
<1>2. faults' \in Nat BY DEF TypeOK
<1> QED BY <1>1, <1>2, WorldKeepsType

\* A command that is given something of the ticket keeps its request.
LEMMA ViewsType ==
    ASSUME TypeOK, NEW o \in Operators, Views(o)
    PROVE  CommandsType'
<1> DEFINE c == [cmd[o] EXCEPT !.at = "call", !.view = TheView]
<1>1. cmd[o] \in Commands BY DEF TypeOK
<1>2. c \in Commands BY <1>1, ViewType DEF Commands
<1>3. c.what = cmd[o].what /\ c.arg = cmd[o].arg BY <1>1 DEF Commands
<1>4. cmd' = [cmd EXCEPT ![o] = c] BY DEF Views
<1> HIDE DEF c
<1> QED BY <1>2, <1>3, <1>4, OneCommand DEF TypeOK

LEMMA KeyType ==
    ASSUME TypeOK, NEW o \in Operators, NEW key \in Nat,
           cmd' = [cmd EXCEPT ![o].at = "view", ![o].key = key]
    PROVE  CommandsType'
<1> DEFINE c == [cmd[o] EXCEPT !.at = "view", !.key = key]
<1>1. cmd[o] \in Commands BY DEF TypeOK
<1>2. c \in Commands BY <1>1 DEF Commands
<1>3. c.what = cmd[o].what /\ c.arg = cmd[o].arg BY <1>1 DEF Commands
<1>4. cmd' = [cmd EXCEPT ![o] = c] OBVIOUS
<1> HIDE DEF c
<1> QED BY <1>2, <1>3, <1>4, OneCommand DEF TypeOK

LEMMA StartType ==
    ASSUME TypeOK, NEW o \in Operators, NEW what \in {"set", "bind", "accept"}, NEW arg,
           what = "set" => arg \in Contents, what = "bind" => arg \in Pulls,
           what = "accept" => arg = 0, Start(o, what, arg)
    PROVE  TypeOK'
<1> DEFINE c == [NoCommand EXCEPT !.at = "list", !.what = what, !.arg = arg]
<1>1. c \in Commands BY DEF NoCommand, NoView, Commands
<1>2. c.what = what /\ c.arg = arg BY DEF NoCommand
<1>3. cmd' = [cmd EXCEPT ![o] = c] BY DEF Start
<1>4. CommandsType'
  <2> HIDE DEF c
  <2> QED BY <1>1, <1>2, <1>3, OneCommand
<1> QED BY <1>4 DEF TypeOK, CommandsType, Start, ticket, github

\* A call, and one whose answer is lost.
LEMMA CallType ==
    ASSUME TypeOK, NEW o \in Operators, Call(o)
    PROVE  TypeOK'
<1>1. /\ cmd[o].view.revision \in Nat /\ cmd[o].key \in Nat
      /\ cmd[o].what = "set" => cmd[o].arg \in Contents
      /\ cmd[o].what = "bind" => cmd[o].arg \in Pulls
  BY DEF TypeOK, Commands
<1>2. CASE cmd[o].what = "set" /\ Sets(o, cmd[o].view.revision, cmd[o].key, cmd[o].arg)
  <2>1. LedgerType' /\ CommandsType' BY <1>1, <1>2, SetsType
  <2> QED BY <2>1, WorldKeepsType DEF Call, TypeOK
<1>3. CASE cmd[o].what = "bind" /\ Binds(o, cmd[o].view, cmd[o].arg, cmd[o].key)
  <2>1. LedgerType' /\ CommandsType' BY <1>1, <1>3, BindsType
  <2> QED BY <2>1, WorldKeepsType DEF Call, TypeOK
<1>4. CASE cmd[o].what = "accept" /\ Accepts(o, cmd[o].view.receipt)
  <2>1. LedgerType' /\ CommandsType' BY <1>4, AcceptsType
  <2> QED BY <2>1, WorldKeepsType DEF Call, TypeOK
<1> QED BY <1>2, <1>3, <1>4 DEF Call, Recorded

LEMMA AnswerLostType ==
    ASSUME TypeOK, NEW o \in Operators, AnswerLost(o)
    PROVE  TypeOK'
<1>1. /\ cmd[o].key \in Nat
      /\ cmd[o].what = "set" => cmd[o].arg \in Contents
      /\ cmd[o].what = "bind" => cmd[o].arg \in Pulls
  BY DEF TypeOK, Commands
<1>2. LedgerType'
  <2>1. CASE /\ cmd[o].what = "set"
             /\ revisions' = Append(revisions, cmd[o].arg) /\ current' = 0
             /\ UNCHANGED <<bindings, receipts, accepted>>
    BY <1>1, <2>1 DEF TypeOK, LedgerType
  <2>2. CASE /\ cmd[o].what = "bind"
             /\ bindings' = bindings \cup {[pull |-> cmd[o].arg, head |-> cmd[o].key]}
             /\ UNCHANGED <<revisions, receipts, current, accepted>>
    <3>1. IsFiniteSet(bindings') BY <2>2, FS_AddElement DEF TypeOK
    <3> QED BY <1>1, <2>2, <3>1 DEF TypeOK, LedgerType
  <2>3. CASE accepted' = current /\ UNCHANGED <<revisions, bindings, receipts, current>>
    BY <2>3 DEF TypeOK, LedgerType
  <2> QED BY <2>1, <2>2, <2>3 DEF AnswerLost
<1>3. CommandsType' BY ExitsType DEF AnswerLost
<1>4. faults' \in Nat BY DEF AnswerLost, Fault, TypeOK
<1> QED BY <1>2, <1>3, <1>4, WorldKeepsType DEF AnswerLost

LEMMA MergeType ==
    ASSUME TypeOK, BoundUnderAContract, NEW n \in Pulls, Merge(n)
    PROVE  TypeOK'
<1>1. main' \in Nat /\ open' \subseteq Pulls BY DEF TypeOK, Merge
<1>2. CASE Bound(n) /\ ~Closed
  <2>1. revisions # <<>> BY <1>2 DEF Bound, BoundUnderAContract
  <2>2. revisions[Len(revisions)] \in Contents BY <2>1 DEF TypeOK
  <2>3. PICK sha \in {main + 1} \cup scope.unnamed :
          receipts' = Append(receipts, [sha |-> sha, revision |-> Len(revisions),
                                        content |-> revisions[Len(revisions)]])
    BY <1>2 DEF Merge
  <2>4. /\ receipts' \in Seq([sha : Nat, revision : Nat, content : Contents])
        /\ DOMAIN receipts' = 1..(Len(receipts) + 1) /\ DOMAIN receipts = 1..Len(receipts)
        /\ current' = Len(receipts) + 1 /\ Len(receipts) \in Nat
    <3> DEFINE r == [sha |-> sha, revision |-> Len(revisions),
                     content |-> revisions[Len(revisions)]]
               R == [sha : Nat, revision : Nat, content : Contents]
    <3>1. sha \in Nat BY ScopesAssumption DEF TypeOK
    <3>2. r \in R BY <2>2, <3>1 DEF TypeOK
    <3>3. receipts' = Append(receipts, r) /\ current' = Len(receipts) + 1
      BY <1>2, <2>3 DEF Merge
    <3>4. receipts \in Seq(R) BY DEF TypeOK
    <3> HIDE DEF r, R
    <3>5. receipts' \in Seq(R) BY <3>2, <3>3, <3>4
    <3>6. DOMAIN receipts' = 1..(Len(receipts) + 1) BY <3>2, <3>3, <3>4
    <3> QED BY <3>3, <3>4, <3>5, <3>6 DEF R
  <2>5. merges' \in Seq([sha : Nat, under : Nat])
    <3> DEFINE m == [sha |-> main + 1, under |-> Len(revisions)]
               M == [sha : Nat, under : Nat]
    <3>1. m \in M /\ merges \in Seq(M) BY DEF TypeOK
    <3>2. merges' = Append(merges, m) BY <1>2 DEF Merge
    <3> HIDE DEF m, M
    <3>3. merges' \in Seq(M) BY <3>1, <3>2
    <3> QED BY <3>3 DEF M
  <2>6. current' \in {0} \cup DOMAIN receipts' /\ accepted' \in {0} \cup DOMAIN receipts'
    <3>1. accepted' = accepted BY DEF Merge
    <3>2. accepted \in {0} \cup DOMAIN receipts BY DEF TypeOK
    <3> QED BY <2>4, <3>1, <3>2
  <2> QED BY <1>1, <2>4, <2>5, <2>6 DEF Merge, TypeOK
<1>3. CASE ~(Bound(n) /\ ~Closed)
  <2>1. UNCHANGED <<receipts, current, merges>> BY <1>3 DEF Merge
  <2> QED BY <1>1, <2>1 DEF Merge, TypeOK
<1> QED BY <1>2, <1>3

LEMMA TypeStep ==
    ASSUME TypeOK, BoundUnderAContract, [Next]_vars
    PROVE  TypeOK'
<1>1. scope.pulls \subseteq Pulls BY ScopesAssumption DEF TypeOK
<1>2. ASSUME NEW o \in Operators, NEW c \in Contents, Start(o, "set", c) PROVE TypeOK'
  BY <1>2, StartType
<1>3. ASSUME NEW o \in Operators, NEW n \in scope.pulls, Start(o, "bind", n) PROVE TypeOK'
  BY <1>1, <1>3, StartType
<1>4. ASSUME NEW o \in Operators, Start(o, "accept", 0) PROVE TypeOK'
  BY <1>4, StartType
<1>5. ASSUME NEW o \in Operators, NumbersTheKey(o) PROVE TypeOK'
  <2>1. NextKey \in Nat BY DEF NextKey, TypeOK
  <2>2. CommandsType' BY <1>5, <2>1, KeyType DEF NumbersTheKey
  <2> QED BY <1>5, <2>2, CommandStepType DEF NumbersTheKey
<1>6. ASSUME NEW o \in Operators, AsksTheHead(o) PROVE TypeOK'
  <2>1. heads[cmd[o].arg] \in Nat BY <1>6 DEF AsksTheHead, Runs, TypeOK
  <2>2. CommandsType' BY <1>6, <2>1, KeyType DEF AsksTheHead
  <2> QED BY <1>6, <2>2, CommandStepType DEF AsksTheHead
<1>7. ASSUME NEW o \in Operators, AlreadyBound(o) PROVE TypeOK'
  <2>1. cmd[o].arg \in Nat \cup Pulls BY <1>7 DEF AlreadyBound, Runs, TypeOK
  <2>2. CommandsType' BY <1>7, <2>1, ExitsType DEF AlreadyBound
  <2> QED BY <1>7, <2>2, CommandStepType DEF AlreadyBound
<1>8. ASSUME NEW o \in Operators, FindsUnbound(o) PROVE TypeOK'
  <2>1. CommandsType' BY <1>8, GoesType DEF FindsUnbound
  <2> QED BY <1>8, <2>1, CommandStepType DEF FindsUnbound
<1>9. ASSUME NEW o \in Operators, FindsIntegrated(o) PROVE TypeOK'
  <2>1. CASE Goes(o, "view")
    <3>1. CommandsType' BY <2>1, GoesType
    <3> QED BY <1>9, <3>1, CommandStepType DEF FindsIntegrated
  <2>2. CASE Exits(o, "error", 0)
    <3>1. CommandsType' BY <2>2, ExitsType
    <3> QED BY <1>9, <3>1, CommandStepType DEF FindsIntegrated
  <2> QED BY <1>9, <2>1, <2>2 DEF FindsIntegrated
<1>10. ASSUME NEW o \in Operators, SameContract(o) PROVE TypeOK'
  <2>1. Len(revisions) \in Nat \cup Pulls BY DEF TypeOK
  <2>2. CommandsType' BY <1>10, <2>1, ExitsType DEF SameContract
  <2> QED BY <1>10, <2>2, CommandStepType DEF SameContract
<1>11. ASSUME NEW o \in Operators, ViewRefuses(o) PROVE TypeOK'
  <2>1. CommandsType' BY <1>11, ExitsType DEF ViewRefuses
  <2> QED BY <1>11, <2>1, CommandStepType DEF ViewRefuses
<1>12. ASSUME NEW o \in Operators, Views(o) PROVE TypeOK'
  <2>1. CommandsType' BY <1>12, ViewsType
  <2> QED BY <1>12, <2>1, CommandStepType DEF Views
<1>13. ASSUME NEW o \in Operators, Fails(o) PROVE TypeOK'
  <2>1. CommandsType' BY <1>13, ExitsType DEF Fails
  <2>2. LedgerType' BY <1>13 DEF Fails, TypeOK, LedgerType, ticket
  <2>3. faults' \in Nat BY <1>13 DEF Fails, Fault, TypeOK
  <2> QED BY <1>13, <2>1, <2>2, <2>3, WorldKeepsType DEF Fails
<1>14. ASSUME NEW o \in Operators, Pull(o) PROVE TypeOK'
  BY <1>14 DEF Pull, TypeOK, ticket, github
<1>15. ASSUME NEW n \in scope.pulls, Push(n) PROVE TypeOK'
  BY <1>1, <1>15 DEF Push, TypeOK, ticket
<1>16. ASSUME NEW n \in scope.pulls, Merge(n) PROVE TypeOK'
  BY <1>1, <1>16, MergeType
<1>17. CASE UNCHANGED vars
  BY <1>17 DEF vars, ticket, github, TypeOK
<1> QED BY <1>2, <1>3, <1>4, <1>5, <1>6, <1>7, <1>8, <1>9, <1>10, <1>11, <1>12, <1>13,
         <1>14, <1>15, <1>16, <1>17, CallType, AnswerLostType DEF Next

-----------------------------------------------------------------------------
(* Bindings are made under a contract.                                     *)

LEMMA BoundStep ==
    ASSUME TypeOK, BoundUnderAContract, [Next]_vars
    PROVE  BoundUnderAContract'
<1> USE DEF BoundUnderAContract, Runs, Step
\* A command that ends, starts or goes elsewhere is not about to bind.
<1>1. ASSUME NEW o \in Operators, NEW exit, NEW told, Exits(o, exit, told),
             bindings' = bindings, revisions' = revisions \/ revisions' # <<>>
      PROVE  BoundUnderAContract'
  BY <1>1 DEF Exits, TypeOK
<1>2. ASSUME NEW o \in Operators, NEW what, NEW arg, Start(o, what, arg)
      PROVE  BoundUnderAContract'
  BY <1>2 DEF Start, TypeOK, ticket, NoCommand
<1>3. ASSUME NEW o \in Operators, NumbersTheKey(o) \/ AsksTheHead(o)
      PROVE  BoundUnderAContract'
  <2>1. cmd \in [Operators -> Commands] /\ UNCHANGED <<revisions, bindings>>
        /\ \E key : cmd' = [cmd EXCEPT ![o].at = "view", ![o].key = key]
    BY <1>3 DEF NumbersTheKey, AsksTheHead, TypeOK, ticket
  <2>2. cmd'[o].at = "view" /\ \A p \in Operators : p # o => cmd'[p] = cmd[p]
    BY <2>1 DEF Commands
  <2> QED BY <2>1, <2>2
<1>4. ASSUME NEW o \in Operators, FindsUnbound(o) PROVE BoundUnderAContract'
  BY <1>4 DEF FindsUnbound, Goes, TypeOK, ticket
<1>5. ASSUME NEW o \in Operators, FindsIntegrated(o) PROVE BoundUnderAContract'
  <2>1. UNCHANGED <<revisions, bindings>> BY <1>5 DEF FindsIntegrated, ticket
  <2>2. CASE Exits(o, "error", 0) BY <1>1, <2>1, <2>2
  <2>3. CASE Goes(o, "view") BY <2>1, <2>3 DEF Goes, TypeOK
  <2> QED BY <1>5, <2>2, <2>3 DEF FindsIntegrated
<1>6. ASSUME NEW o \in Operators,
             AlreadyBound(o) \/ SameContract(o) \/ ViewRefuses(o) \/ Fails(o)
      PROVE  BoundUnderAContract'
  BY <1>1, <1>6 DEF AlreadyBound, SameContract, ViewRefuses, Fails, ticket
<1>7. ASSUME NEW o \in Operators, Views(o) PROVE BoundUnderAContract'
  <2>1. cmd[o].what = "bind" => revisions # <<>> BY <1>7 DEF Views, Refused
  <2>2. cmd[o].what = "bind" => Len(revisions) # 0 BY <2>1 DEF TypeOK
  <2> QED BY <1>7, <2>2 DEF Views, TheView, TypeOK, ticket
<1>8. ASSUME NEW content \in Contents, revisions' = Append(revisions, content)
      PROVE  revisions' # <<>>
  <2>1. revisions \in Seq(Contents) /\ Len(revisions) \in Nat BY DEF TypeOK
  <2>2. Len(revisions') = Len(revisions) + 1 BY <1>8, <2>1
  <2>3. Len(revisions') # 0 BY <2>1, <2>2
  <2> QED BY <2>3
<1>9. ASSUME NEW o \in Operators, Step(o, "call"), cmd[o].what = "bind",
             cmd[o].view.revision = Len(revisions)
      PROVE  revisions # <<>>
  BY <1>9 DEF TypeOK
<1>10. ASSUME NEW o \in Operators, Call(o) PROVE BoundUnderAContract'
  <2>1. CASE cmd[o].what = "set" /\ Sets(o, cmd[o].view.revision, cmd[o].key, cmd[o].arg)
    BY <1>1, <1>8, <2>1 DEF Sets, ticket, TypeOK
  <2>2. CASE cmd[o].what = "bind" /\ Binds(o, cmd[o].view, cmd[o].arg, cmd[o].key)
    <3>1. CASE UNCHANGED ticket BY <1>1, <2>2, <3>1 DEF Binds, ticket
    <3>2. CASE cmd[o].view.revision = Len(revisions) /\ Exits(o, "ok", cmd[o].arg)
               /\ UNCHANGED revisions
      BY <1>9, <1>10, <2>2, <3>2 DEF Call, Exits, TypeOK
    <3> QED BY <2>2, <3>1, <3>2 DEF Binds
  <2>3. CASE cmd[o].what = "accept" /\ Accepts(o, cmd[o].view.receipt)
    BY <1>1, <2>3 DEF Accepts, ticket
  <2> QED BY <1>10, <2>1, <2>2, <2>3 DEF Call, Recorded
<1>11. ASSUME NEW o \in Operators, AnswerLost(o) PROVE BoundUnderAContract'
  <2>1. CASE cmd[o].what = "set" /\ revisions' = Append(revisions, cmd[o].arg)
             /\ UNCHANGED bindings
    BY <1>1, <1>8, <1>11, <2>1 DEF AnswerLost, TypeOK
  <2>2. CASE cmd[o].what = "bind" /\ cmd[o].view.revision = Len(revisions)
             /\ UNCHANGED revisions
    BY <1>9, <1>11, <2>2 DEF AnswerLost, Exits, TypeOK
  <2>3. CASE UNCHANGED <<revisions, bindings>>
    BY <1>1, <1>11, <2>3 DEF AnswerLost
  <2> QED BY <1>11, <2>1, <2>2, <2>3 DEF AnswerLost
<1>12. ASSUME NEW n, Push(n) \/ Merge(n) PROVE BoundUnderAContract'
  BY <1>12 DEF Push, Merge, ticket
<1>13. ASSUME NEW o \in Operators, Pull(o) PROVE BoundUnderAContract'
  BY <1>13 DEF Pull, ticket
<1>14. CASE UNCHANGED vars BY <1>14 DEF vars, ticket
<1> QED BY <1>2, <1>3, <1>4, <1>5, <1>6, <1>7, <1>10, <1>11, <1>12, <1>13, <1>14 DEF Next

-----------------------------------------------------------------------------
(* What brain says of the integrations.                                    *)

\* A new revision leaves what was said of the former ones, and supersedes.
LEMMA AmendedSpeaks ==
    ASSUME TypeOK, SpeaksInv, NEW content \in Contents,
           revisions' = Append(revisions, content), current' = 0, UNCHANGED <<receipts, merges>>
    PROVE  SpeaksInv'
<1>1. \A i \in DOMAIN revisions : i \in DOMAIN revisions' /\ revisions'[i] = revisions[i]
  BY DEF TypeOK
<1> QED BY <1>1 DEF SpeaksInv, ReceiptsTellTheContract, CurrentIsOfTheContract, MergesAreObserved

\* An integration is of the contract that holds.
LEMMA MergedSpeaks ==
    ASSUME TypeOK, BoundUnderAContract, SpeaksInv, NEW n \in Pulls, Merge(n)
    PROVE  SpeaksInv'
<1>1. CASE Bound(n) /\ ~Closed
  <2> DEFINE m == [sha |-> main + 1, under |-> Len(revisions)]
             R == [sha : Nat, revision : Nat, content : Contents]
             M == [sha : Nat, under : Nat]
  <2>1. revisions # <<>> BY <1>1 DEF Bound, BoundUnderAContract
  <2>2. Len(revisions) \in DOMAIN revisions BY <2>1 DEF TypeOK
  <2>3. PICK sha \in {main + 1} \cup scope.unnamed :
          receipts' = Append(receipts, [sha |-> sha, revision |-> Len(revisions),
                                        content |-> revisions[Len(revisions)]])
    BY <1>1 DEF Merge
  <2>4. sha \in {0, main + 1} /\ sha \in Nat BY ScopesAssumption DEF TypeOK
  <2> DEFINE r == [sha |-> sha, revision |-> Len(revisions),
                   content |-> revisions[Len(revisions)]]
  <2>5. /\ receipts' = Append(receipts, r) /\ current' = Len(receipts) + 1
        /\ merges' = Append(merges, m) /\ revisions' = revisions
    BY <1>1, <2>3 DEF Merge
  <2>6. r \in R /\ m \in M BY <2>2, <2>4 DEF TypeOK
  <2>7. receipts \in Seq(R) /\ merges \in Seq(M) BY DEF TypeOK
  <2>8. r.sha \in {0, m.sha} /\ r.revision = Len(revisions) /\ m.under = Len(revisions)
        /\ r.content = revisions[Len(revisions)]
    BY <2>4
  <2> HIDE DEF r, m, R, M
  <2>9. /\ DOMAIN receipts' = DOMAIN receipts \cup {Len(receipts) + 1}
        /\ receipts'[Len(receipts) + 1] = r
        /\ \A i \in DOMAIN receipts : receipts'[i] = receipts[i]
        /\ Len(receipts') = Len(receipts) + 1
    BY <2>5, <2>6, <2>7
  <2>10. /\ merges'[Len(merges) + 1] = m
         /\ \A i \in DOMAIN merges : merges'[i] = merges[i]
         /\ Len(merges') = Len(merges) + 1
    BY <2>5, <2>6, <2>7
  <2>11. ReceiptsTellTheContract'
    BY <2>2, <2>5, <2>8, <2>9 DEF SpeaksInv, ReceiptsTellTheContract
  <2>12. CurrentIsOfTheContract' BY <2>5, <2>8, <2>9 DEF CurrentIsOfTheContract
  <2>13. MergesAreObserved'
    <3>1. MergesAreObserved BY DEF SpeaksInv
    <3>2. DOMAIN merges = DOMAIN receipts /\ Len(merges) = Len(receipts)
      BY <2>7, <3>1 DEF MergesAreObserved
    <3> HIDE DEF SpeaksInv
    <3> QED BY <2>8, <2>9, <2>10, <3>1, <3>2 DEF MergesAreObserved
  <2> QED BY <2>11, <2>12, <2>13 DEF SpeaksInv
<1>2. CASE ~(Bound(n) /\ ~Closed)
  BY <1>2 DEF Merge, SpeaksInv, ReceiptsTellTheContract, CurrentIsOfTheContract, MergesAreObserved
<1> QED BY <1>1, <1>2

LEMMA SpeaksStep ==
    ASSUME TypeOK, BoundUnderAContract, SpeaksInv, [Next]_vars
    PROVE  SpeaksInv'
<1>1. ASSUME UNCHANGED <<revisions, receipts, current, merges>> PROVE SpeaksInv'
  BY <1>1 DEF SpeaksInv, ReceiptsTellTheContract, CurrentIsOfTheContract, MergesAreObserved
<1>2. ASSUME NEW o \in Operators, Call(o) PROVE SpeaksInv'
  <2>1. CASE cmd[o].what = "set" /\ Sets(o, cmd[o].view.revision, cmd[o].key, cmd[o].arg)
    <3>1. cmd[o].arg \in Contents /\ UNCHANGED merges
      BY <1>2, <2>1 DEF TypeOK, Call, World, github
    <3>2. CASE UNCHANGED ticket BY <1>1, <3>1, <3>2 DEF ticket
    <3>3. CASE /\ revisions' = Append(revisions, cmd[o].arg) /\ current' = 0
               /\ UNCHANGED receipts
      BY <3>1, <3>3, AmendedSpeaks
    <3> QED BY <2>1, <3>2, <3>3 DEF Sets
  <2>2. CASE Binds(o, cmd[o].view, cmd[o].arg, cmd[o].key)
    BY <1>1, <1>2, <2>2 DEF Binds, Call, World, github, ticket
  <2>3. CASE Accepts(o, cmd[o].view.receipt)
    BY <1>1, <1>2, <2>3 DEF Accepts, Call, World, github, ticket
  <2> QED BY <1>2, <2>1, <2>2, <2>3 DEF Call, Recorded
<1>3. ASSUME NEW o \in Operators, AnswerLost(o) PROVE SpeaksInv'
  <2>1. UNCHANGED merges BY <1>3 DEF AnswerLost, World, github
  <2>2. CASE /\ cmd[o].what = "set" /\ UNCHANGED receipts
             /\ revisions' = Append(revisions, cmd[o].arg) /\ current' = 0
    BY <2>1, <2>2, AmendedSpeaks DEF TypeOK
  <2>3. CASE UNCHANGED <<revisions, receipts, current>> BY <1>1, <2>1, <2>3
  <2> QED BY <1>3, <2>2, <2>3 DEF AnswerLost
<1>4. ASSUME NEW n \in scope.pulls, Merge(n) PROVE SpeaksInv'
  BY <1>4, ScopesAssumption, MergedSpeaks DEF TypeOK
<1>5. ASSUME NEW n, Push(n) PROVE SpeaksInv'
  BY <1>1, <1>5 DEF Push, ticket
<1>6. ASSUME NEW o \in Operators, NEW what, NEW arg, Start(o, what, arg) PROVE SpeaksInv'
  BY <1>1, <1>6 DEF Start, ticket, github
<1>7. ASSUME NEW o \in Operators,
             \/ NumbersTheKey(o) \/ SameContract(o) \/ AlreadyBound(o) \/ FindsUnbound(o)
             \/ AsksTheHead(o) \/ FindsIntegrated(o) \/ ViewRefuses(o) \/ Views(o)
             \/ Fails(o) \/ Pull(o)
      PROVE  SpeaksInv'
  <2>1. UNCHANGED ticket /\ UNCHANGED github
    BY <1>7 DEF NumbersTheKey, SameContract, AlreadyBound, FindsUnbound, AsksTheHead,
                FindsIntegrated, ViewRefuses, Views, Fails, Pull, World
  <2> QED BY <1>1, <2>1 DEF ticket, github
<1>8. CASE UNCHANGED vars BY <1>1, <1>8 DEF vars, ticket, github
<1> QED BY <1>2, <1>3, <1>4, <1>5, <1>6, <1>7, <1>8 DEF Next

-----------------------------------------------------------------------------
(* What a command is about to record, and what it reported.                *)

\* Operator o's contract differs from the revision it was shown, its
\* acceptance rests on a receipt, and the receipt it was told of is accepted.
Watches(o) ==
    /\ Runs(o, "set", "call") =>
          /\ cmd[o].view.revision <= Len(revisions)
          /\ (cmd[o].view.revision = Len(revisions) /\ revisions # <<>>)
                => revisions[Len(revisions)] # cmd[o].arg
    /\ Runs(o, "accept", "call") => cmd[o].view.receipt # 0
    /\ Said(o, "accept") => accepted # 0 /\ cmd[o].told = accepted

\* What is accepted is of the contract that holds: none is amended after.
ClosedOnTheContract == accepted # 0 => receipts[accepted].revision = Len(revisions)

WatchInv == (\A o \in Operators : Watches(o)) /\ ClosedOnTheContract /\ AmendmentsAmend

\* Who may not start a command runs none.
OnlyOursRun == \A o \in Operators : o \notin scope.operators => Step(o, "idle")

BoundOnce == \A b, c \in bindings : b.pull = c.pull => b = c

\* With no other operator, what o read still holds when it records.
ReadsHold(o) ==
    /\ BoundOnce
    /\ (cmd[o].what = "set" /\ cmd[o].at \in {"view", "call"}) => cmd[o].key = Len(revisions) + 1
    /\ (cmd[o].what = "bind" /\ cmd[o].at \in {"head", "view", "call"}) => ~Bound(cmd[o].arg)
    /\ (cmd[o].what = "accept" /\ cmd[o].at \in {"view", "call"}) => Integrated(checkout[o])
    /\ Said(o, "set") => /\ revisions # <<>> /\ cmd[o].told = Len(revisions)
                         /\ revisions[Len(revisions)] = cmd[o].arg
    /\ Said(o, "bind") => Bound(cmd[o].arg)
    /\ Said(o, "accept") => Integrated(checkout[o])

AloneInv == OnlyOursRun /\ \A o \in scope.operators : scope.operators = {o} => ReadsHold(o)

\* Once accepted, the ticket is neither amended nor accepted again; before, it
\* is amended with another contract, or accepted on the current receipt.
LedgerSteps ==
    \/ /\ UNCHANGED <<revisions, accepted>>
       /\ \A i \in DOMAIN receipts : i \in DOMAIN receipts' /\ receipts'[i] = receipts[i]
    \/ /\ accepted = 0 /\ accepted' = current
       /\ UNCHANGED <<revisions, receipts>>
    \/ /\ accepted = 0 /\ UNCHANGED <<accepted, receipts>>
       /\ \E c \in Contents : /\ revisions' = Append(revisions, c)
                              /\ revisions # <<>> => revisions[Len(revisions)] # c

LEMMA LedgerWatched ==
    ASSUME TypeOK, CurrentIsOfTheContract, ClosedOnTheContract, AmendmentsAmend, LedgerSteps
    PROVE  ClosedOnTheContract' /\ AmendmentsAmend'
<1>1. CASE /\ UNCHANGED <<revisions, accepted>>
           /\ \A i \in DOMAIN receipts : i \in DOMAIN receipts' /\ receipts'[i] = receipts[i]
  BY <1>1 DEF TypeOK, ClosedOnTheContract, AmendmentsAmend
<1>2. CASE /\ accepted = 0 /\ accepted' = current
           /\ UNCHANGED <<revisions, receipts>>
  BY <1>2 DEF CurrentIsOfTheContract, ClosedOnTheContract, AmendmentsAmend
<1>3. CASE /\ accepted = 0 /\ UNCHANGED <<accepted, receipts>>
           /\ \E c \in Contents : /\ revisions' = Append(revisions, c)
                                  /\ revisions # <<>> => revisions[Len(revisions)] # c
  <2>1. PICK c \in Contents : /\ revisions' = Append(revisions, c)
                              /\ revisions # <<>> => revisions[Len(revisions)] # c
    BY <1>3
  <2>2. revisions \in Seq(Contents) /\ Len(revisions) \in Nat BY DEF TypeOK
  <2>3. /\ Len(revisions') = Len(revisions) + 1 /\ revisions'[Len(revisions) + 1] = c
        /\ \A i \in 1..Len(revisions) : revisions'[i] = revisions[i]
    BY <2>1, <2>2
  <2>4. ASSUME NEW i \in 2..Len(revisions') PROVE revisions'[i] # revisions'[i - 1]
    <3>1. CASE i \in 2..Len(revisions) BY <2>2, <2>3, <3>1 DEF AmendmentsAmend
    <3>2. CASE i = Len(revisions) + 1
      <4>1. revisions # <<>> BY <2>2, <2>3, <3>2
      <4> QED BY <2>1, <2>2, <2>3, <3>2, <4>1
    <3> QED BY <2>2, <2>3, <3>1, <3>2
  <2> QED BY <1>3, <2>4 DEF AmendmentsAmend, ClosedOnTheContract
<1> QED BY <1>1, <1>2, <1>3 DEF LedgerSteps

\* What a command was shown and told stands while another records.
LEMMA OthersWatch ==
    ASSUME TypeOK, LedgerSteps, NEW p \in Operators, Watches(p), cmd'[p] = cmd[p]
    PROVE  Watches(p)'
<1>1. cmd[p].view.revision \in Nat /\ Len(revisions) \in Nat BY DEF TypeOK, Commands
<1>2. CASE UNCHANGED revisions
  <2>1. Said(p, "accept") => accepted' = accepted BY DEF LedgerSteps, Watches
  <2> QED BY <1>2, <2>1 DEF Watches, Runs, Step, Said
<1>3. CASE /\ UNCHANGED accepted
           /\ \E c \in Contents : revisions' = Append(revisions, c)
  <2>1. Len(revisions') = Len(revisions) + 1 BY <1>3 DEF TypeOK
  <2> QED BY <1>1, <1>3, <2>1 DEF Watches, Runs, Step, Said
<1> QED BY <1>2, <1>3 DEF LedgerSteps

LEMMA CommandWatched ==
    ASSUME TypeOK, CurrentIsOfTheContract, WatchInv, LedgerSteps, NEW o \in Operators,
           \A p \in Operators \ {o} : cmd'[p] = cmd[p], Watches(o)'
    PROVE  WatchInv'
BY LedgerWatched, OthersWatch DEF WatchInv

\* A command that is neither about to record nor accepted has nothing to watch.
LEMMA QuietWatches ==
    ASSUME NEW o \in Operators, cmd'[o].at # "call",
           ~(cmd'[o].at = "idle" /\ cmd'[o].what = "accept" /\ cmd'[o].exit = "ok")
    PROVE  Watches(o)'
BY DEF Watches, Runs, Step, Said

\* What a command that ends, or goes on, becomes.
LEMMA ExitsTo ==
    ASSUME TypeOK, NEW o \in Operators, NEW exit, NEW told, Exits(o, exit, told)
    PROVE  /\ \A p \in Operators \ {o} : cmd'[p] = cmd[p]
           /\ cmd'[o].at = "idle" /\ cmd'[o].exit = exit /\ cmd'[o].told = told
           /\ cmd'[o].what = cmd[o].what /\ cmd'[o].arg = cmd[o].arg
BY DEF Exits, TypeOK, Commands

LEMMA GoesTo ==
    ASSUME TypeOK, NEW o \in Operators, NEW at, Goes(o, at)
    PROVE  /\ \A p \in Operators \ {o} : cmd'[p] = cmd[p]
           /\ cmd'[o].at = at
           /\ cmd'[o].what = cmd[o].what /\ cmd'[o].arg = cmd[o].arg
BY DEF Goes, TypeOK, Commands

LEMMA ViewsTo ==
    ASSUME TypeOK, NEW o \in Operators, Views(o)
    PROVE  /\ \A p \in Operators \ {o} : cmd'[p] = cmd[p]
           /\ cmd'[o].at = "call" /\ cmd'[o].view = TheView /\ cmd'[o].key = cmd[o].key
           /\ cmd'[o].what = cmd[o].what /\ cmd'[o].arg = cmd[o].arg
BY DEF Views, TypeOK, Commands

LEMMA KeyTo ==
    ASSUME TypeOK, NEW o \in Operators, NEW key,
           cmd' = [cmd EXCEPT ![o].at = "view", ![o].key = key]
    PROVE  /\ \A p \in Operators \ {o} : cmd'[p] = cmd[p]
           /\ cmd'[o].at = "view" /\ cmd'[o].key = key
           /\ cmd'[o].what = cmd[o].what /\ cmd'[o].arg = cmd[o].arg
BY DEF TypeOK, Commands

LEMMA StartTo ==
    ASSUME TypeOK, NEW o \in Operators, NEW what, NEW arg, Start(o, what, arg)
    PROVE  /\ \A p \in Operators \ {o} : cmd'[p] = cmd[p]
           /\ cmd'[o].at = "list"
BY DEF Start, TypeOK, Commands, NoCommand

\* What the calls record.
LEMMA SetsSteps ==
    ASSUME TypeOK, NEW o \in Operators, Watches(o), Step(o, "call"), cmd[o].what = "set",
           Sets(o, cmd[o].view.revision, cmd[o].key, cmd[o].arg)
    PROVE  /\ LedgerSteps
           /\ \E exit, told : Exits(o, exit, told)
<1>1. cmd[o].arg \in Contents BY DEF TypeOK
<1>2. CASE UNCHANGED ticket BY <1>2 DEF ticket, LedgerSteps, Sets
<1>3. CASE /\ cmd[o].view.revision = Len(revisions) /\ ~Closed
           /\ revisions' = Append(revisions, cmd[o].arg)
           /\ Exits(o, "ok", Len(revisions) + 1)
           /\ UNCHANGED <<bindings, receipts, accepted>>
  <2>1. revisions # <<>> => revisions[Len(revisions)] # cmd[o].arg
    BY <1>3 DEF Watches, Runs
  <2> QED BY <1>1, <1>3, <2>1 DEF LedgerSteps, Closed
<1> QED BY <1>2, <1>3 DEF Sets

LEMMA LostSteps ==
    ASSUME TypeOK, NEW o \in Operators, Watches(o), AnswerLost(o)
    PROVE  LedgerSteps
<1>1. CASE /\ cmd[o].what = "set" /\ cmd[o].view.revision = Len(revisions) /\ ~Closed
           /\ revisions' = Append(revisions, cmd[o].arg)
           /\ UNCHANGED <<bindings, receipts, accepted>>
  <2>1. revisions # <<>> => revisions[Len(revisions)] # cmd[o].arg
    BY <1>1 DEF Watches, Runs, AnswerLost
  <2>2. cmd[o].arg \in Contents BY <1>1 DEF TypeOK
  <2> QED BY <1>1, <2>1, <2>2 DEF LedgerSteps, Closed
<1>2. CASE UNCHANGED <<revisions, receipts, accepted>> BY <1>2 DEF LedgerSteps
<1>3. CASE accepted = 0 /\ accepted' = current /\ UNCHANGED <<revisions, receipts>>
  BY <1>3 DEF LedgerSteps
<1> QED BY <1>1, <1>2, <1>3 DEF AnswerLost

LEMMA MergeSteps ==
    ASSUME TypeOK, TypeOK', NEW n, Merge(n)
    PROVE  LedgerSteps
<1>1. UNCHANGED <<revisions, accepted>> BY DEF Merge
<1>2. \A i \in DOMAIN receipts : i \in DOMAIN receipts' /\ receipts'[i] = receipts[i]
  <2>1. CASE receipts' = receipts BY <2>1
  <2>2. ASSUME NEW r, receipts' = Append(receipts, r)
        PROVE  \A i \in DOMAIN receipts : i \in DOMAIN receipts' /\ receipts'[i] = receipts[i]
    <3> DEFINE R == [sha : Nat, revision : Nat, content : Contents]
    <3>1. receipts \in Seq(R) /\ receipts' \in Seq(R) BY DEF TypeOK
    <3> HIDE DEF R
    <3> QED BY <2>2, <3>1
  <2> QED BY <2>1, <2>2 DEF Merge
<1> QED BY <1>1, <1>2 DEF LedgerSteps

LEMMA WatchStep ==
    ASSUME TypeOK, TypeOK', SpeaksInv, WatchInv, [Next]_vars
    PROVE  WatchInv'
<1>1. CurrentIsOfTheContract BY DEF SpeaksInv
<1>2. ASSUME UNCHANGED <<revisions, receipts, accepted>> PROVE LedgerSteps
  BY <1>2 DEF LedgerSteps
\* Commands that end without an acceptance, or are not about to record.
<1>3. ASSUME NEW o \in Operators, LedgerSteps, NEW exit, NEW told, Exits(o, exit, told),
             cmd[o].what # "accept" \/ exit # "ok"
      PROVE  WatchInv'
  BY <1>1, <1>3, ExitsTo, QuietWatches, CommandWatched
<1>4. ASSUME NEW o \in Operators, LedgerSteps, NEW at \in {"head", "view"}, Goes(o, at)
      PROVE  WatchInv'
  BY <1>1, <1>4, GoesTo, QuietWatches, CommandWatched
<1>5. ASSUME NEW o \in Operators, LedgerSteps, NEW key,
             cmd' = [cmd EXCEPT ![o].at = "view", ![o].key = key]
      PROVE  WatchInv'
  BY <1>1, <1>5, KeyTo, QuietWatches, CommandWatched
<1>6. ASSUME NEW o \in Operators, NEW what, NEW arg, Start(o, what, arg) PROVE WatchInv'
  <2>1. LedgerSteps BY <1>2, <1>6 DEF Start, ticket
  <2> QED BY <1>1, <1>6, <2>1, StartTo, QuietWatches, CommandWatched
<1>7. ASSUME NEW o \in Operators,
             \/ NumbersTheKey(o) \/ AsksTheHead(o) \/ AlreadyBound(o) \/ FindsUnbound(o)
             \/ FindsIntegrated(o) \/ SameContract(o) \/ ViewRefuses(o) \/ Fails(o)
      PROVE  WatchInv'
  <2>1. LedgerSteps
    BY <1>2, <1>7 DEF NumbersTheKey, AsksTheHead, AlreadyBound, FindsUnbound,
                      FindsIntegrated, SameContract, ViewRefuses, Fails, ticket
  <2>2. CASE NumbersTheKey(o) \/ AsksTheHead(o)
    BY <1>5, <2>1, <2>2 DEF NumbersTheKey, AsksTheHead
  <2>3. CASE AlreadyBound(o) \/ SameContract(o)
    BY <1>3, <2>1, <2>3 DEF AlreadyBound, SameContract, Runs
  <2>4. CASE ViewRefuses(o) \/ Fails(o)
    BY <1>3, <2>1, <2>4 DEF ViewRefuses, Fails
  <2>5. CASE FindsUnbound(o) BY <1>4, <2>1, <2>5 DEF FindsUnbound
  <2>6. CASE FindsIntegrated(o)
    <3>1. Goes(o, "view") \/ Exits(o, "error", 0) BY <2>6 DEF FindsIntegrated
    <3> QED BY <1>3, <1>4, <2>1, <3>1
  <2> QED BY <1>7, <2>2, <2>3, <2>4, <2>5, <2>6
<1>8. ASSUME NEW o \in Operators, Views(o) PROVE WatchInv'
  <2>1. LedgerSteps /\ revisions' = revisions BY <1>2, <1>8 DEF Views, ticket
  <2>2. Len(revisions) \in Nat BY DEF TypeOK
  <2>3. Watches(o)'
    <3>1. /\ cmd[o].what = "set" /\ revisions # <<>> => revisions[Len(revisions)] # cmd[o].arg
          /\ cmd[o].what = "accept" => current # 0
      BY <1>8 DEF Views, Refused
    <3>2. TheView.revision = Len(revisions) /\ TheView.receipt = current BY DEF TheView
    <3> QED BY <1>8, <2>1, <2>2, <3>1, <3>2, ViewsTo DEF Watches, Runs, Step, Said
  <2> QED BY <1>1, <1>8, <2>1, <2>3, ViewsTo, CommandWatched
<1>9. ASSUME NEW o \in Operators, Call(o) PROVE WatchInv'
  <2>1. Watches(o) /\ Step(o, "call") BY <1>9 DEF WatchInv, Call
  <2>2. CASE cmd[o].what = "set" /\ Sets(o, cmd[o].view.revision, cmd[o].key, cmd[o].arg)
    <3>1. LedgerSteps /\ \E exit, told : Exits(o, exit, told) BY <2>1, <2>2, SetsSteps
    <3> QED BY <1>3, <2>2, <3>1
  <2>3. CASE cmd[o].what = "bind" /\ Binds(o, cmd[o].view, cmd[o].arg, cmd[o].key)
    <3>1. LedgerSteps BY <1>2, <2>3 DEF Binds, ticket
    <3>2. \E exit, told : Exits(o, exit, told) BY <2>3 DEF Binds
    <3> QED BY <1>3, <2>3, <3>1, <3>2
  <2>4. CASE cmd[o].what = "accept" /\ Accepts(o, cmd[o].view.receipt)
    <3>1. CASE Exits(o, "error", 0) /\ UNCHANGED ticket
      BY <1>2, <1>3, <3>1 DEF ticket
    <3>2. CASE /\ cmd[o].view.receipt = current
               /\ accepted' = IF accepted = 0 THEN current ELSE accepted
               /\ Exits(o, "ok", accepted')
               /\ UNCHANGED <<revisions, bindings, receipts, current>>
      <4>1. LedgerSteps BY <3>2 DEF LedgerSteps
      <4>2. current # 0 BY <2>1, <2>4, <3>2 DEF Watches, Runs
      <4>3. accepted' # 0 BY <3>2, <4>2
      <4>4. /\ \A p \in Operators \ {o} : cmd'[p] = cmd[p]
            /\ cmd'[o].at = "idle" /\ cmd'[o].told = accepted' /\ cmd'[o].what = cmd[o].what
        BY <3>2, ExitsTo
      <4>5. Watches(o)' BY <2>4, <4>3, <4>4 DEF Watches, Runs, Step, Said
      <4> QED BY <1>1, <4>1, <4>4, <4>5, CommandWatched
    <3> QED BY <2>4, <3>1, <3>2 DEF Accepts
  <2> QED BY <1>9, <2>2, <2>3, <2>4 DEF Call, Recorded
<1>10. ASSUME NEW o \in Operators, AnswerLost(o) PROVE WatchInv'
  <2>1. LedgerSteps BY <1>10, LostSteps DEF WatchInv
  <2>2. Exits(o, "error", 0) BY <1>10 DEF AnswerLost
  <2> QED BY <1>3, <2>1, <2>2
<1>11. ASSUME LedgerSteps, cmd' = cmd PROVE WatchInv'
  BY <1>1, <1>11, LedgerWatched, OthersWatch DEF WatchInv
<1>12. ASSUME NEW n, Push(n) \/ Merge(n) PROVE WatchInv'
  <2>1. LedgerSteps BY <1>2, <1>12, MergeSteps DEF Push, ticket
  <2> QED BY <1>11, <1>12, <2>1 DEF Push, Merge
<1>13. ASSUME NEW o \in Operators, Pull(o) PROVE WatchInv'
  BY <1>2, <1>11, <1>13 DEF Pull, ticket
<1>14. CASE UNCHANGED vars BY <1>2, <1>11, <1>14 DEF vars, ticket
<1> QED BY <1>6, <1>7, <1>8, <1>9, <1>10, <1>12, <1>13, <1>14 DEF Next

-----------------------------------------------------------------------------
(* An operator alone.                                                      *)

\* What the ledger lists on the history of a checkout was merged for the contract.
LEMMA ListedIsMerged ==
    ASSUME TypeOK, SpeaksInv, NEW i \in Listed, NEW head, OnHistory(i, head)
    PROVE  i \in DOMAIN merges /\ MergedFor(i, head)
<1>1. i \in DOMAIN receipts /\ (i = current \/ Proves(receipts[i])) BY DEF Listed
<1>2. receipts[i].revision = Len(revisions)
  BY <1>1 DEF TypeOK, SpeaksInv, CurrentIsOfTheContract, Proves
<1>3. i \in DOMAIN merges BY <1>1 DEF TypeOK, SpeaksInv, MergesAreObserved
<1>4. receipts[i].sha = merges[i].sha /\ merges[i].under = Len(revisions)
  BY <1>1, <1>2 DEF SpeaksInv, MergesAreObserved, OnHistory
<1> QED BY <1>3, <1>4 DEF MergedFor, OnHistory

\* A merge stays one while the contract holds, in a later checkout too.
LEMMA MergeGoesOn ==
    ASSUME TypeOK, UNCHANGED revisions,
           \A i \in DOMAIN merges : i \in DOMAIN merges' /\ merges'[i] = merges[i],
           NEW head \in Nat, NEW later \in Nat, head <= later, Integrated(head)
    PROVE  \E i \in DOMAIN merges' : merges'[i].sha <= later /\ merges'[i].under = Len(revisions')
<1>1. PICK i \in DOMAIN merges : MergedFor(i, head) BY DEF Integrated
<1>2. merges[i].sha \in Nat
  <2> DEFINE M == [sha : Nat, under : Nat]
  <2>1. merges \in Seq(M) BY DEF TypeOK
  <2>2. merges[i] \in M
    <3> HIDE DEF M
    <3> QED BY <2>1
  <2> QED BY <2>2
<1> QED BY <1>1, <1>2 DEF MergedFor

\* The world moves, and what o read and was told holds.
LEMMA ReadsGoOn ==
    ASSUME TypeOK, TypeOK', NEW o \in Operators, ReadsHold(o),
           UNCHANGED <<revisions, bindings>>, cmd'[o] = cmd[o], checkout[o] <= checkout'[o],
           \A i \in DOMAIN merges : i \in DOMAIN merges' /\ merges'[i] = merges[i]
    PROVE  ReadsHold(o)'
<1>1. checkout[o] \in Nat /\ checkout'[o] \in Nat BY DEF TypeOK
<1>2. Integrated(checkout[o]) => Integrated(checkout[o])'
  BY <1>1, MergeGoesOn DEF Integrated, MergedFor
<1> QED BY <1>2 DEF ReadsHold, Said, Step, Bound, BoundOnce

\* A command that ends in an error leaves nothing to hold.
LEMMA ErrorHolds ==
    ASSUME TypeOK, NEW o \in Operators, BoundOnce', NEW told, Exits(o, "error", told)
    PROVE  ReadsHold(o)'
BY ExitsTo DEF ReadsHold, Said, Step

\* A pull request bound for the first time is bound once.
LEMMA FirstBinding ==
    ASSUME TypeOK, BoundOnce, NEW n, NEW head, ~Bound(n),
           bindings' = bindings \cup {[pull |-> n, head |-> head]}
    PROVE  BoundOnce' /\ \E b \in bindings' : b.pull = n
<1> DEFINE b == [pull |-> n, head |-> head]
<1>1. b.pull = n OBVIOUS
<1>2. bindings' = bindings \cup {b} OBVIOUS
<1> HIDE DEF b
<1> QED BY <1>1, <1>2 DEF BoundOnce, Bound

LEMMA CallHolds ==
    ASSUME TypeOK, NEW o \in Operators, ReadsHold(o), Call(o)
    PROVE  ReadsHold(o)'
<1>1. Step(o, "call") BY DEF Call
<1>2. UNCHANGED ticket => BoundOnce' BY DEF ReadsHold, BoundOnce, ticket
<1>3. CASE cmd[o].what = "set" /\ Sets(o, cmd[o].view.revision, cmd[o].key, cmd[o].arg)
  <2>1. cmd[o].key = Len(revisions) + 1 BY <1>1, <1>3 DEF ReadsHold, Step
  <2>2. cmd[o].key \notin DOMAIN revisions BY <2>1 DEF TypeOK
  <2>3. CASE Exits(o, "error", 0) /\ UNCHANGED ticket BY <1>2, <2>3, ErrorHolds
  <2>4. CASE /\ revisions' = Append(revisions, cmd[o].arg)
             /\ Exits(o, "ok", Len(revisions) + 1)
             /\ UNCHANGED <<bindings, receipts, accepted>>
    <3>1. cmd[o].arg \in Contents BY <1>3 DEF TypeOK
    <3>2. /\ Len(revisions') = Len(revisions) + 1 /\ Len(revisions) \in Nat
          /\ revisions'[Len(revisions) + 1] = cmd[o].arg
      BY <2>4, <3>1 DEF TypeOK
    <3>3. revisions' # <<>> BY <3>2
    <3> QED BY <1>3, <2>4, <3>2, <3>3, ExitsTo DEF ReadsHold, BoundOnce, Said, Step
  <2> QED BY <1>3, <2>2, <2>3, <2>4 DEF Sets
<1>4. CASE cmd[o].what = "bind" /\ Binds(o, cmd[o].view, cmd[o].arg, cmd[o].key)
  <2>1. ~Bound(cmd[o].arg) BY <1>1, <1>4 DEF ReadsHold, Step
  <2>2. [pull |-> cmd[o].arg, head |-> cmd[o].key] \notin bindings BY <2>1 DEF Bound
  <2>3. CASE Exits(o, "error", 0) /\ UNCHANGED ticket BY <1>2, <2>3, ErrorHolds
  <2>4. CASE /\ bindings' = bindings \cup {[pull |-> cmd[o].arg, head |-> cmd[o].key]}
             /\ Exits(o, "ok", cmd[o].arg)
    <3>1. BoundOnce' /\ Bound(cmd[o].arg)'
      <4>1. BoundOnce' /\ \E b \in bindings' : b.pull = cmd[o].arg
        BY <2>1, <2>4, FirstBinding DEF ReadsHold
      <4> QED BY <2>4, <4>1, ExitsTo DEF Bound
    <3> QED BY <1>4, <2>4, <3>1, ExitsTo DEF ReadsHold, Said, Step
  <2> QED BY <1>4, <2>2, <2>3, <2>4 DEF Binds
<1>5. CASE cmd[o].what = "accept" /\ Accepts(o, cmd[o].view.receipt)
  <2>1. CASE Exits(o, "error", 0) /\ UNCHANGED ticket BY <1>2, <2>1, ErrorHolds
  <2>2. CASE /\ \E told : Exits(o, "ok", told)
             /\ UNCHANGED <<revisions, bindings, receipts, current>>
    <3>1. Integrated(checkout[o]) BY <1>1, <1>5 DEF ReadsHold, Step
    <3>2. Integrated(checkout[o])'
      BY <2>2, <3>1 DEF Call, World, github, Integrated, MergedFor
    <3> QED BY <1>5, <2>2, <3>2, ExitsTo DEF ReadsHold, BoundOnce, Said, Step
  <2> QED BY <1>5, <2>1, <2>2 DEF Accepts
<1> QED BY <1>3, <1>4, <1>5 DEF Call, Recorded

LEMMA LostHolds ==
    ASSUME TypeOK, NEW o \in Operators, ReadsHold(o), AnswerLost(o)
    PROVE  ReadsHold(o)'
<1>1. BoundOnce'
  <2>1. CASE UNCHANGED bindings BY <2>1 DEF ReadsHold, BoundOnce
  <2>2. CASE /\ cmd[o].what = "bind"
             /\ bindings' = bindings \cup {[pull |-> cmd[o].arg, head |-> cmd[o].key]}
    <3>1. ~Bound(cmd[o].arg) BY <2>2 DEF ReadsHold, Step, AnswerLost
    <3> QED BY <2>2, <3>1, FirstBinding DEF ReadsHold
  <2> QED BY <2>1, <2>2 DEF AnswerLost
<1> QED BY <1>1, ErrorHolds DEF AnswerLost

\* The reads of o, and what it does with them.
LEMMA ReadHolds ==
    ASSUME TypeOK, SpeaksInv, NEW o \in Operators, ReadsHold(o),
           \/ NumbersTheKey(o) \/ AsksTheHead(o) \/ AlreadyBound(o) \/ FindsUnbound(o)
           \/ FindsIntegrated(o) \/ SameContract(o) \/ ViewRefuses(o) \/ Fails(o) \/ Views(o)
    PROVE  ReadsHold(o)'
<1>1. UNCHANGED <<revisions, bindings, receipts, current, merges, checkout>>
  BY DEF NumbersTheKey, AsksTheHead, AlreadyBound, FindsUnbound, FindsIntegrated,
         SameContract, ViewRefuses, Fails, Views, World, ticket, github
<1>2. BoundOnce' BY <1>1 DEF ReadsHold, BoundOnce
<1>3. Integrated(checkout[o]) => Integrated(checkout[o])'
  BY <1>1 DEF Integrated, MergedFor
<1>4. CASE NumbersTheKey(o)
  <2>1. cmd'[o].at = "view" /\ cmd'[o].what = "set" /\ cmd'[o].key = Len(revisions) + 1
    BY <1>4, KeyTo DEF NumbersTheKey, NextKey, Runs
  <2> QED BY <1>1, <1>2, <2>1 DEF ReadsHold, Said, Step
<1>5. CASE AsksTheHead(o)
  <2>1. /\ cmd'[o].at = "view" /\ cmd'[o].what = "bind" /\ cmd'[o].arg = cmd[o].arg
        /\ ~Bound(cmd[o].arg)
    BY <1>5, KeyTo DEF AsksTheHead, Runs, Step, ReadsHold
  <2> QED BY <1>1, <1>2, <2>1 DEF ReadsHold, Said, Step, Bound
<1>6. CASE AlreadyBound(o)
  <2>1. /\ cmd'[o].at = "idle" /\ cmd'[o].what = "bind" /\ cmd'[o].arg = cmd[o].arg
        /\ Bound(cmd[o].arg)
    BY <1>6, ExitsTo DEF AlreadyBound, Runs
  <2> QED BY <1>1, <1>2, <2>1 DEF ReadsHold, Said, Step, Bound
<1>7. CASE FindsUnbound(o)
  <2>1. /\ cmd'[o].at = "head" /\ cmd'[o].what = "bind" /\ cmd'[o].arg = cmd[o].arg
        /\ ~Bound(cmd[o].arg)
    BY <1>7, GoesTo DEF FindsUnbound, Runs
  <2> QED BY <1>1, <1>2, <2>1 DEF ReadsHold, Said, Step, Bound
<1>8. CASE FindsIntegrated(o)
  <2>1. CASE Exits(o, "error", 0) BY <1>2, <2>1, ErrorHolds
  <2>2. CASE (\E i \in Listed : OnHistory(i, checkout[o])) /\ Goes(o, "view")
    <3>1. cmd'[o].at = "view" /\ cmd'[o].what = "accept"
      BY <1>8, <2>2, GoesTo DEF FindsIntegrated, Runs
    <3>2. Integrated(checkout[o]) BY <2>2, ListedIsMerged DEF Integrated
    <3> QED BY <1>2, <1>3, <3>1, <3>2 DEF ReadsHold, Said, Step
  <2> QED BY <1>8, <2>1, <2>2 DEF FindsIntegrated
<1>9. CASE SameContract(o)
  <2>1. /\ cmd'[o].at = "idle" /\ cmd'[o].what = "set" /\ cmd'[o].told = Len(revisions)
        /\ cmd'[o].arg = cmd[o].arg
        /\ revisions # <<>> /\ revisions[Len(revisions)] = cmd[o].arg
    BY <1>9, ExitsTo DEF SameContract, Runs
  <2> QED BY <1>1, <1>2, <2>1 DEF ReadsHold, Said, Step
<1>10. CASE ViewRefuses(o) \/ Fails(o)
  BY <1>2, <1>10, ErrorHolds DEF ViewRefuses, Fails
<1>11. CASE Views(o)
  <2>1. /\ cmd[o].at = "view" /\ cmd'[o].at = "call" /\ cmd'[o].what = cmd[o].what
        /\ cmd'[o].arg = cmd[o].arg /\ cmd'[o].key = cmd[o].key
    BY <1>11, ViewsTo DEF Views, Step
  <2> QED BY <1>1, <1>2, <1>3, <2>1 DEF ReadsHold, Said, Step, Bound
<1> QED BY <1>4, <1>5, <1>6, <1>7, <1>8, <1>9, <1>10, <1>11

LEMMA AloneStep ==
    ASSUME TypeOK, TypeOK', SpeaksInv, OnlyOursRun, NEW o \in Operators,
           scope.operators = {o}, ReadsHold(o), [Next]_vars
    PROVE  ReadsHold(o)'
<1>1. \A p \in Operators : p # o => Step(p, "idle") BY DEF OnlyOursRun
<1>2. ASSUME NEW p \in Operators, NEW what, NEW arg, Start(p, what, arg)
      PROVE  ReadsHold(o)'
  <2>1. p = o /\ UNCHANGED bindings BY <1>2 DEF Start, ticket
  <2>2. cmd'[o].at = "list" BY <1>2, <2>1, StartTo
  <2> QED BY <2>1, <2>2 DEF ReadsHold, BoundOnce, Said, Step
<1>3. ASSUME NEW p \in Operators,
             \/ NumbersTheKey(p) \/ AsksTheHead(p) \/ AlreadyBound(p) \/ FindsUnbound(p)
             \/ FindsIntegrated(p) \/ SameContract(p) \/ ViewRefuses(p) \/ Fails(p) \/ Views(p)
      PROVE  ReadsHold(o)'
  <2>1. ~Step(p, "idle")
    BY <1>3 DEF NumbersTheKey, AsksTheHead, AlreadyBound, FindsUnbound, FindsIntegrated,
                SameContract, ViewRefuses, Fails, Views, Runs, Step
  <2>2. p = o BY <1>1, <2>1
  <2> QED BY <1>3, <2>2, ReadHolds
<1>4. ASSUME NEW p \in Operators, Call(p) \/ AnswerLost(p) PROVE ReadsHold(o)'
  <2>1. ~Step(p, "idle") BY <1>4 DEF Call, AnswerLost, Step
  <2>2. p = o BY <1>1, <2>1
  <2> QED BY <1>4, <2>2, CallHolds, LostHolds
<1>5. ASSUME NEW p \in Operators, Pull(p) PROVE ReadsHold(o)'
  <2>1. checkout[o] <= checkout'[o] BY <1>5 DEF Pull, TypeOK
  <2> QED BY <1>5, <2>1, ReadsGoOn DEF Pull, ticket, github
<1>6. checkout[o] <= checkout[o] BY DEF TypeOK
<1>7. ASSUME NEW n, Push(n) PROVE ReadsHold(o)'
  BY <1>6, <1>7, ReadsGoOn DEF Push, ticket, github
<1>8. ASSUME NEW n, Merge(n) PROVE ReadsHold(o)'
  <2>1. \A i \in DOMAIN merges : i \in DOMAIN merges' /\ merges'[i] = merges[i]
    <3> DEFINE m == [sha |-> main + 1, under |-> Len(revisions)]
               M == [sha : Nat, under : Nat]
    <3>1. m \in M /\ merges \in Seq(M) BY DEF TypeOK
    <3>2. merges' = Append(merges, m) \/ merges' = merges BY <1>8 DEF Merge
    <3> HIDE DEF m, M
    <3> QED BY <3>1, <3>2
  <2> QED BY <1>6, <1>8, <2>1, ReadsGoOn DEF Merge
<1>9. CASE UNCHANGED vars BY <1>6, <1>9, ReadsGoOn DEF vars, ticket, github
<1> QED BY <1>2, <1>3, <1>4, <1>5, <1>7, <1>8, <1>9 DEF Next

LEMMA OnlyOursStep ==
    ASSUME TypeOK, OnlyOursRun, [Next]_vars
    PROVE  OnlyOursRun' /\ scope' = scope
<1>1. ASSUME scope' = scope, cmd' = cmd PROVE OnlyOursRun'
  BY <1>1 DEF OnlyOursRun, Step
<1>2. ASSUME NEW o \in Operators, ~Step(o, "idle") \/ o \in scope.operators, scope' = scope,
             \A p \in Operators \ {o} : cmd'[p] = cmd[p]
      PROVE  OnlyOursRun'
  BY <1>2 DEF OnlyOursRun, Step
<1>3. ASSUME NEW o \in Operators, NEW what, NEW arg, Start(o, what, arg)
      PROVE  OnlyOursRun' /\ scope' = scope
  BY <1>2, <1>3, StartTo DEF Start
<1>4. ASSUME NEW o \in Operators,
             \/ NumbersTheKey(o) \/ AsksTheHead(o) \/ AlreadyBound(o) \/ FindsUnbound(o)
             \/ FindsIntegrated(o) \/ SameContract(o) \/ ViewRefuses(o) \/ Fails(o) \/ Views(o)
             \/ Call(o) \/ AnswerLost(o)
      PROVE  OnlyOursRun' /\ scope' = scope
  <2>1. ~Step(o, "idle") /\ scope' = scope
    BY <1>4 DEF NumbersTheKey, AsksTheHead, AlreadyBound, FindsUnbound, FindsIntegrated,
                SameContract, ViewRefuses, Fails, Views, Call, AnswerLost, Runs, Step, World
  <2>2. \A p \in Operators \ {o} : cmd'[p] = cmd[p]
    BY <1>4 DEF NumbersTheKey, AsksTheHead, AlreadyBound, FindsUnbound, FindsIntegrated,
                SameContract, ViewRefuses, Fails, Views, Call, AnswerLost, Recorded, Sets,
                Binds, Accepts, Exits, Goes, TypeOK
  <2> QED BY <1>2, <2>1, <2>2
<1>5. ASSUME NEW n, Push(n) \/ Merge(n) PROVE OnlyOursRun' /\ scope' = scope
  BY <1>1, <1>5 DEF Push, Merge
<1>6. ASSUME NEW o \in Operators, Pull(o) PROVE OnlyOursRun' /\ scope' = scope
  BY <1>1, <1>6 DEF Pull
<1>7. CASE UNCHANGED vars BY <1>1, <1>7 DEF vars
<1> QED BY <1>3, <1>4, <1>5, <1>6, <1>7 DEF Next

LEMMA AloneInvStep ==
    ASSUME TypeOK, TypeOK', SpeaksInv, SpeaksInv', AloneInv, [Next]_vars
    PROVE  AloneInv'
<1>1. OnlyOursRun' /\ scope' = scope BY OnlyOursStep DEF AloneInv
<1>2. scope.operators \subseteq Operators BY ScopesAssumption DEF TypeOK
<1>3. \A o \in scope.operators : scope.operators = {o} => ReadsHold(o)'
  BY <1>2, AloneStep DEF AloneInv
<1> QED BY <1>1, <1>3 DEF AloneInv

\* What holds of the commands is what they are to do.
LEMMA HeldIsRecordedOnce ==
    ASSUME TypeOK, WatchInv, AloneInv
    PROVE  CommandsRecordOnce
<1>1. AcceptedIsTheContract
  BY DEF WatchInv, Watches, ClosedOnTheContract, AcceptedIsTheContract
<1>2. ASSUME NEW o \in scope.operators, scope.operators = {o}, Said(o, "bind")
      PROVE  Cardinality({b \in bindings : b.pull = cmd[o].arg}) = 1
  <2>1. BoundOnce /\ Bound(cmd[o].arg) BY <1>2 DEF AloneInv, ReadsHold
  <2>2. PICK b \in bindings : b.pull = cmd[o].arg BY <2>1 DEF Bound
  <2>3. {c \in bindings : c.pull = cmd[o].arg} = {b} BY <2>1, <2>2 DEF BoundOnce
  <2> QED BY <2>3, FS_Singleton
<1>3. AloneIsTold BY <1>2 DEF AloneInv, ReadsHold, AloneIsTold
<1> QED BY <1>1, <1>3 DEF WatchInv, CommandsRecordOnce

LEMMA CommandsInitially ==
    ASSUME Init
    PROVE  WatchInv /\ AloneInv
<1>1. /\ \A o \in Operators : cmd[o] = NoCommand
      /\ revisions = <<>> /\ bindings = {} /\ accepted = 0
  BY DEF Init
<1>2. NoCommand.at = "idle" /\ NoCommand.exit = "none" BY DEF NoCommand
<1>3. WatchInv
  BY <1>1, <1>2 DEF WatchInv, Watches, Runs, Step, Said, ClosedOnTheContract, AmendmentsAmend
<1>4. scope.operators \subseteq Operators BY ScopesAssumption DEF Init
<1>5. AloneInv
  BY <1>1, <1>2, <1>4 DEF AloneInv, OnlyOursRun, ReadsHold, BoundOnce, Step, Said
<1> QED BY <1>3, <1>5

-----------------------------------------------------------------------------
(* The theorems.                                                           *)

LEMMA Initially ==
    ASSUME Init
    PROVE  TypeOK /\ BoundUnderAContract /\ SpeaksInv
<1>1. cmd \in [Operators -> Commands] /\ \A o \in Operators : cmd[o] = NoCommand
  BY DEF Init, NoCommand, NoView, Commands
<1>2. scope.pulls \subseteq Pulls BY ScopesAssumption DEF Init
<1>3. IsFiniteSet({}) BY FS_EmptySet
<1>4. TypeOK BY <1>1, <1>2, <1>3 DEF Init, TypeOK, NoCommand
<1>5. BoundUnderAContract BY <1>1 DEF Init, BoundUnderAContract, Runs, Step, NoCommand
<1>6. SpeaksInv
  BY DEF Init, SpeaksInv, ReceiptsTellTheContract, CurrentIsOfTheContract, MergesAreObserved
<1> QED BY <1>4, <1>5, <1>6

\* The gate and the merges say the same where brain speaks truly.
LEMMA SpeaksIsIntegration ==
    ASSUME TypeOK, SpeaksInv
    PROVE  IntegrationIsOfTheContract
<1>1. /\ Len(merges) = Len(receipts) /\ Len(receipts) \in Nat
      /\ DOMAIN merges = 1..Len(merges) /\ DOMAIN receipts = 1..Len(receipts)
  BY DEF TypeOK, SpeaksInv, MergesAreObserved
<1>2. ASSUME NEW head \in 0..main, IntegrateGate(head) PROVE Integrated(head)
  BY <1>2, ListedIsMerged DEF IntegrateGate, Integrated
<1>3. ASSUME NEW head \in 0..main, NEW i \in DOMAIN merges, MergedFor(i, head), Traced(i)
      PROVE  IntegrateGate(head)
  <2>1. i \in DOMAIN receipts /\ i \in i..Len(merges) BY <1>1
  <2>2. receipts[i].revision = Len(revisions)
    BY <1>3, <2>1 DEF SpeaksInv, MergesAreObserved, MergedFor
  <2>3. Proves(receipts[i])
    BY <2>1, <2>2 DEF SpeaksInv, ReceiptsTellTheContract, Proves
  <2>4. OnThePage(i) BY <1>1, <1>3 DEF Traced, OnThePage
  <2>5. i \in Listed BY <2>1, <2>3, <2>4 DEF Listed
  <2>6. receipts[i].sha # 0 BY <1>3, <2>1 DEF Traced
  <2>7. OnHistory(i, head)
    BY <1>3, <2>1, <2>6 DEF SpeaksInv, MergesAreObserved, MergedFor, OnHistory
  <2>8. \A j \in Listed : j > i => receipts[j].sha # 0
    BY <1>1, <1>3 DEF Listed, Traced
  <2> QED BY <2>5, <2>7, <2>8 DEF IntegrateGate
<1> QED BY <1>2, <1>3 DEF IntegrationIsOfTheContract

LEMMA Inductive == Spec => [](TypeOK /\ BoundUnderAContract /\ SpeaksInv)
<1>1. Init => TypeOK /\ BoundUnderAContract /\ SpeaksInv BY Initially
<1>2. TypeOK /\ BoundUnderAContract /\ SpeaksInv /\ [Next]_vars
        => (TypeOK /\ BoundUnderAContract /\ SpeaksInv)'
  BY TypeStep, BoundStep, SpeaksStep
<1> QED BY <1>1, <1>2, PTL DEF Spec

\* The variables hold what their comments say.
THEOREM TypeCorrect == Spec => []TypeOK
<1> QED BY Inductive, PTL

\* However many pull requests are in flight, contracts amended, answers lost
\* and operators at work: integrate.receipt holds in a checkout only if its
\* history has the merge of a bound pull request under the contract that holds,
\* and it does hold where fewer than HISTORY receipts were issued since and each
\* of them names its commit (BrainLedger._milestone_records, _proves, _on_history).
THEOREM GateIsOfTheContract == Spec => []IntegrationIsOfTheContract
<1>1. TypeOK /\ BoundUnderAContract /\ SpeaksInv => IntegrationIsOfTheContract
  BY SpeaksIsIntegration
<1> QED BY <1>1, Inductive, PTL

\* However many operators amend, bind and accept one ticket, and whatever
\* answers are lost: no amendment repeats the contract it amends, exit 0 of
\* `rail accept` closed the ticket on an integration of the contract that
\* holds, and an operator alone is told of what the ticket holds
\* (next_contract_key, contract_set, bind_pr, accept).
THEOREM CommandsAreRecordedOnce == Spec => []CommandsRecordOnce
<1> DEFINE Inv == TypeOK /\ BoundUnderAContract /\ SpeaksInv /\ WatchInv /\ AloneInv
<1>1. Init => Inv BY Initially, CommandsInitially
<1>2. Inv /\ [Next]_vars => Inv'
  BY TypeStep, BoundStep, SpeaksStep, WatchStep, AloneInvStep
<1>3. Inv => CommandsRecordOnce BY HeldIsRecordedOnce
<1> QED BY <1>1, <1>2, <1>3, PTL DEF Spec

=============================================================================
