------------------------ MODULE RemoteScripts_proofs ------------------------
(***************************************************************************)
(* What the scripts of a target guarantee, for any operators, artefacts,   *)
(* jobs and units, and every scope: whoever fires, edits, kills or reboots *)
(* between two of their commands.                                          *)
(***************************************************************************)
EXTENDS RemoteScripts, WellFoundedInduction, TLAPS

-----------------------------------------------------------------------------
(* The inductive invariant.                                                *)

\* The script of an operator's flow, its commands, and what comes after each.
Key(o) == IF flow[o].stage = "restore" THEN "restore" ELSE scope.shape

CommandsOf == [
  compose |-> {"write", "up", "switch"},
  systemd |-> {"write", "create", "copy", "place", "switch", "reload", "loaded",
               "restart", "active"},
  timers  |-> {"check", "write", "create", "copy", "aside", "place", "recheck",
               "switch", "reload", "loaded", "restart", "active"},
  restore |-> {"prove", "network", "database", "load", "app", "read", "clean"}]

\* The lock has the script that runs, one at a time, and its command is its own.
OneScript ==
    /\ \A o \in Operators : InScript(o) <=> lock = o
    /\ \A o \in Operators : InScript(o) => pc[o] \in CommandsOf[Key(o)] \cup {"trap", "exit"}

\* A flow knows what it applies; restore drills are of compose targets.
FlowsKnow ==
    \A o \in Operators :
        /\ pc[o] = "idle" <=> flow[o].stage = "idle"
        /\ pc[o] # "idle" => Subject(o) \in Artefacts
        /\ flow[o].stage \in {"roll_back", "drill_back", "drill_forward", "restore"} =>
               flow[o].artefact \in Artefacts /\ flow[o].previous \in Artefacts
        /\ flow[o].stage = "restore" => scope.shape = "compose"

Switched == {"reload", "loaded", "restart", "active", "exit"}

\* What an apply has done once it is at a command.
Done(o) ==
    /\ scope.shape = "compose" =>
         /\ pc[o] \in {"up", "switch", "exit"} => releases[Subject(o)].payload
         /\ pc[o] \in {"switch", "exit"} => runs[Service].release \in {Subject(o), Nothing}
         /\ pc[o] = "exit" => current = Subject(o)
    /\ scope.shape # "compose" =>
         /\ pc[o] \in Switched \cup {"recheck", "switch"} => releases[Subject(o)].payload
         /\ pc[o] \in Switched => current = Subject(o)
         /\ pc[o] \in {"restart", "active", "exit"} =>
                \A j \in declared : loaded[j] = Subject(o) /\ j \notin overridden
    /\ scope.shape = "systemd" /\ pc[o] \in {"active", "exit"} =>
           runs[Service].release \in {Subject(o), Nothing}
    /\ scope.shape = "timers" /\ pc[o] = "exit" => declared \subseteq armed

AppliesInOrder ==
    \A o \in Operators : InScript(o) /\ flow[o].stage # "restore" => Done(o)

\* Only a restore drill has disposable objects, only another script a carrier,
\* and only while it runs; what stays is what docker did not remove.
SandboxesAreOwn ==
    /\ \A o \in Operators :
          /\ ~InScript(o) \/ flow[o].stage = "restore" => o \notin carriers
          /\ ~InScript(o) \/ flow[o].stage # "restore" \/ pc[o] = "exit" => sandbox[o] = {}
    /\ ~scope.kills /\ ~scope.reboots => left \subseteq Stuck

\* Between the first check and the rename, and between the second and the
\* switch, a run of a declared service has fired since the check.
RunsFiredSince ==
    scope.shape = "timers" =>
        \A o \in Operators, j \in declared : InScript(o) /\ Running(j) =>
            /\ pc[o] \in {"write", "create", "copy", "aside"} =>
                   runs[j].during \in {"write", "create", "copy", "aside"}
            /\ pc[o] = "switch" => runs[j].during = "switch"

ScriptInv ==
    /\ TypeOK /\ OneScript /\ FlowsKnow
    /\ AppliesInOrder /\ SandboxesAreOwn /\ RunsFiredSince

-----------------------------------------------------------------------------
(* The commands of the scripts.                                            *)

Steps == [
  compose |-> [write |-> "up", up |-> "switch", switch |-> "exit"],
  systemd |-> [write |-> "create", create |-> "copy", copy |-> "place", place |-> "switch",
               switch |-> "reload", reload |-> "loaded", loaded |-> "restart",
               restart |-> "active", active |-> "exit"],
  timers  |-> [check |-> "write", write |-> "create", create |-> "copy", copy |-> "aside",
               aside |-> "place", place |-> "recheck", recheck |-> "switch",
               switch |-> "reload", reload |-> "loaded", loaded |-> "restart",
               restart |-> "active", active |-> "exit"],
  restore |-> [prove |-> "network", network |-> "database", database |-> "load",
               load |-> "app", app |-> "read", read |-> "clean", clean |-> "exit"]]

Keys == {"compose", "systemd", "timers", "restore"}

LEMMA CommandsAre ==
    Commands = CommandsOf.compose \cup CommandsOf.systemd \cup CommandsOf.timers
                 \cup CommandsOf.restore
<1>1. DOMAIN Scripts = Keys BY DEF Scripts, Keys
<1>2. {Scripts.compose[i] : i \in 1..Len(Scripts.compose)} = CommandsOf.compose
  BY DEF Scripts, CommandsOf
<1>3. {Scripts.systemd[i] : i \in 1..Len(Scripts.systemd)} = CommandsOf.systemd
  BY DEF Scripts, CommandsOf
<1>4. {Scripts.timers[i] : i \in 1..Len(Scripts.timers)} = CommandsOf.timers
  BY DEF Scripts, CommandsOf
<1>5. {Scripts.restore[i] : i \in 1..Len(Scripts.restore)} = CommandsOf.restore
  BY DEF Scripts, CommandsOf
<1> QED BY <1>1, <1>2, <1>3, <1>4, <1>5 DEF Commands, Keys

\* The place of a command of a script is its index.
LEMMA PlaceOf ==
    ASSUME NEW s, NEW i \in 1..Len(s), \A k \in 1..Len(s) : s[k] = s[i] => k = i,
           NEW c, c = s[i]
    PROVE  (CHOOSE n \in 1..Len(s) : s[n] = c) = i
OBVIOUS

LEMMA NoCommandTwice ==
    ASSUME NEW key \in Keys
    PROVE  \A i, k \in 1..Len(Scripts[key]) : Scripts[key][i] = Scripts[key][k] => i = k
<1>1. CASE key = "compose" BY <1>1 DEF Scripts
<1>2. CASE key = "systemd" BY <1>2 DEF Scripts
<1>3. CASE key = "timers" BY <1>3 DEF Scripts
<1>4. CASE key = "restore" BY <1>4 DEF Scripts
<1> QED BY <1>1, <1>2, <1>3, <1>4 DEF Keys

\* Following is the table Steps.
LEMMA FollowingIs ==
    ASSUME NEW o \in Operators, Key(o) \in Keys, pc[o] \in CommandsOf[Key(o)]
    PROVE  Following(o) = Steps[Key(o)][pc[o]]
<1> DEFINE s == Scripts[Key(o)]
<1>2. ASSUME NEW i \in 1..Len(s), pc[o] = s[i]
      PROVE  Following(o) = IF i = Len(s) THEN "exit" ELSE s[i + 1]
  <2>1. (CHOOSE n \in 1..Len(s) : s[n] = pc[o]) = i
    BY <1>2, NoCommandTwice, PlaceOf
  <2> QED BY <1>2, <2>1 DEF Following, ScriptOf, Key
<1>3. CASE Key(o) = "compose"
  <2>1. \E i \in 1..Len(s) : pc[o] = s[i] BY <1>3 DEF Scripts, CommandsOf
  <2>2. \A i \in 1..Len(s) : pc[o] = s[i] =>
            (IF i = Len(s) THEN "exit" ELSE s[i + 1]) = Steps.compose[pc[o]]
    BY <1>3 DEF Scripts, Steps
  <2> QED BY <1>2, <1>3, <2>1, <2>2
<1>4. CASE Key(o) = "systemd"
  <2>1. \E i \in 1..Len(s) : pc[o] = s[i] BY <1>4 DEF Scripts, CommandsOf
  <2>2. \A i \in 1..Len(s) : pc[o] = s[i] =>
            (IF i = Len(s) THEN "exit" ELSE s[i + 1]) = Steps.systemd[pc[o]]
    BY <1>4 DEF Scripts, Steps
  <2> QED BY <1>2, <1>4, <2>1, <2>2
<1>5. CASE Key(o) = "timers"
  <2>1. \E i \in 1..Len(s) : pc[o] = s[i] BY <1>5 DEF Scripts, CommandsOf
  <2>2. \A i \in 1..Len(s) : pc[o] = s[i] =>
            (IF i = Len(s) THEN "exit" ELSE s[i + 1]) = Steps.timers[pc[o]]
    BY <1>5 DEF Scripts, Steps
  <2> QED BY <1>2, <1>5, <2>1, <2>2
<1>6. CASE Key(o) = "restore"
  <2>1. \E i \in 1..Len(s) : pc[o] = s[i] BY <1>6 DEF Scripts, CommandsOf
  <2>2. \A i \in 1..Len(s) : pc[o] = s[i] =>
            (IF i = Len(s) THEN "exit" ELSE s[i + 1]) = Steps.restore[pc[o]]
    BY <1>6 DEF Scripts, Steps
  <2> QED BY <1>2, <1>6, <2>1, <2>2
<1> QED BY <1>3, <1>4, <1>5, <1>6 DEF Keys

-----------------------------------------------------------------------------
(* Flows, and what the ledger tells them.                                  *)

Flows == [stage : Stages, artefact : Releases, previous : Releases]

Records == [artefact : Artefacts, mode : {"release", "rollback", "drill"}, by : Nat]

RunRecords == [release : Releases, mixed : BOOLEAN, after : Nat,
               during : Commands \cup {"none", "trap", "exit"}]

\* The types of the host, and of the flows.
HostOK ==
    /\ declared \subseteq Jobs
    /\ releases \in [Artefacts -> [units : SUBSET Jobs, payload : BOOLEAN]]
    /\ current \in Releases
    /\ switches \in Nat
    /\ loaded \in [Jobs -> Releases]
    /\ overridden \subseteq Jobs
    /\ armed \subseteq Jobs
    /\ runs \in [Jobs -> RunRecords]
    /\ exited \in [Jobs -> [at : Nat, after : Nat]]

FlowOK ==
    /\ scope \in Scopes
    /\ lock \in Operators \cup {Nothing}
    /\ carriers \subseteq Operators
    /\ sandbox \in [Operators -> SUBSET Objects]
    /\ left \subseteq Left
    /\ flow \in [Operators -> Flows]
    /\ pc \in [Operators -> Commands \cup {"idle", "ready", "trap", "exit", "verify"}]
    /\ ledger \in Seq(Records)
    /\ started \in 0..MaxFlows

LEMMA TypesAre == TypeOK <=> HostOK /\ FlowOK /\ \A o \in Operators : InScript(o) => lock = o
BY DEF TypeOK, HostOK, FlowOK, Flows, Records, RunRecords

LEMMA ScopeTypes ==
    ASSUME FlowOK
    PROVE  /\ scope.shape \in Shapes /\ scope.crew \subseteq Operators
           /\ scope.kills \in BOOLEAN /\ scope.reboots \in BOOLEAN
           /\ scope.started \in 0..MaxFlows
           /\ \A o \in Operators : Key(o) \in Keys
<1>1. /\ scope.shape \in Shapes /\ scope.crew \subseteq Operators
      /\ scope.kills \in BOOLEAN /\ scope.reboots \in BOOLEAN
      /\ scope.started \in 0..MaxFlows
  BY HostAssumption DEF FlowOK
<1> QED BY <1>1 DEF Key, Keys, Shapes

LEMMA CommandNames ==
    /\ \A key \in Keys : CommandsOf[key] \subseteq Commands
    /\ \A c \in Commands : c \notin {"idle", "ready", "verify", "trap", "exit"}
    /\ CommandsOf.restore \cap (CommandsOf.compose \cup CommandsOf.systemd \cup CommandsOf.timers) = {}
BY CommandsAre DEF CommandsOf, Keys

\* The greatest of some numbers up to a bound is one of them.
LEMMA GreatestOf ==
    ASSUME NEW n \in Nat, NEW S \in SUBSET (1..n), S # {}
    PROVE  \E x \in S : \A y \in S : y <= x
<1> DEFINE R == {ss \in Nat \X Nat : ss[1] < ss[2]}
           T == {n - x : x \in S}
<1>1. IsWellFoundedOn(R, Nat) BY NatLessThanWellFounded DEF OpToRel
<1>2. T \subseteq Nat /\ T # {}
  <2>1. \A x \in S : x \in Nat /\ n - x \in Nat OBVIOUS
  <2> QED BY <2>1
<1>3. PICK t \in T : \A u \in T : <<u, t>> \notin R
  <2> HIDE DEF T, R
  <2> QED BY <1>1, <1>2, WFMin
<1>4. PICK x \in S : t = n - x OBVIOUS
<1>5. ASSUME NEW y \in S PROVE y <= x
  <2>1. n - y \in T OBVIOUS
  <2>2. x \in Nat /\ y \in Nat /\ n - y \in Nat /\ n - x \in Nat OBVIOUS
  <2>3. ~(n - y < n - x) BY <1>3, <1>4, <2>1, <2>2
  <2> QED BY <2>2, <2>3
<1> QED BY <1>5

LEMMA LedgerNames ==
    ASSUME FlowOK
    PROVE  /\ LiveArtefact \in Releases
           /\ \A a : PreviousArtefact(a) \in Releases
<1>1. ledger \in Seq(Records) /\ Len(ledger) \in Nat BY DEF FlowOK
<1>2. \A i \in 1..Len(ledger) : ledger[i].artefact \in Artefacts
  <2>1. \A i \in 1..Len(ledger) : ledger[i] \in Records BY <1>1
  <2>2. \A r \in Records : r.artefact \in Artefacts BY DEF Records
  <2> QED BY <2>1, <2>2
<1>3. LiveArtefact \in Releases
  <2>1. CASE ledger = <<>> BY <2>1 DEF LiveArtefact, Releases
  <2>2. CASE ledger # <<>>
    <3>1. Len(ledger) \in 1..Len(ledger) BY <1>1, <2>2
    <3> QED BY <1>2, <2>2, <3>1 DEF LiveArtefact, Releases
  <2> QED BY <2>1, <2>2
<1>4. ASSUME NEW a PROVE PreviousArtefact(a) \in Releases
  <2> DEFINE others == {i \in 1..Len(ledger) : ledger[i].artefact # a}
             last == CHOOSE i \in others : \A k \in others : k <= i
  <2>1. CASE others = {} BY <2>1 DEF PreviousArtefact, Releases
  <2>2. CASE others # {}
    <3>1. others \in SUBSET (1..Len(ledger)) OBVIOUS
    <3>2. \E x \in others : \A y \in others : y <= x
      <4> HIDE DEF others
      <4> QED BY <1>1, <2>2, <3>1, GreatestOf
    <3>3. last \in others BY <3>2
    <3>4. ledger[last].artefact \in Artefacts BY <1>2, <3>1, <3>3
    <3> QED BY <2>2, <3>4 DEF PreviousArtefact, Releases
  <2> QED BY <2>1, <2>2
<1> QED BY <1>3, <1>4

\* A flow takes its next stage, or ends.
FlowMoves(o) ==
    /\ UNCHANGED scope /\ started' \in 0..MaxFlows /\ ledger' \in Seq(Records)
    /\ flow' \in [Operators -> Flows] /\ pc' \in [Operators -> Commands \cup {"idle", "ready", "trap", "exit", "verify"}]
    /\ pc'[o] \in {"idle", "ready", "verify"}
    /\ \A p \in Operators : p # o => flow'[p] = flow[p] /\ pc'[p] = pc[p]
    /\ FlowsKnow'

LEMMA MovesKnow ==
    ASSUME FlowOK, FlowsKnow, NEW o \in Operators, NEW f \in Flows, NEW w \in {"idle", "ready", "verify"},
           flow' = [flow EXCEPT ![o] = f], pc' = [pc EXCEPT ![o] = w],
           UNCHANGED scope, started' \in 0..MaxFlows, ledger' \in Seq(Records),
           w = "idle" <=> f.stage = "idle",
           w # "idle" => IF f.stage \in {"deploy", "drill_forward"}
                          THEN f.artefact \in Artefacts ELSE f.previous \in Artefacts,
           f.stage \in {"roll_back", "drill_back", "drill_forward", "restore"} =>
               f.artefact \in Artefacts /\ f.previous \in Artefacts,
           f.stage = "restore" => scope.shape = "compose"
    PROVE  FlowMoves(o)
<1>1. flow' \in [Operators -> Flows] /\ flow'[o] = f /\ pc'[o] = w
      /\ pc' \in [Operators -> Commands \cup {"idle", "ready", "trap", "exit", "verify"}]
  BY DEF FlowOK
<1>2. \A p \in Operators : p # o => flow'[p] = flow[p] /\ pc'[p] = pc[p]
  BY DEF FlowOK
<1>3. FlowsKnow' BY <1>1, <1>2 DEF FlowsKnow, Subject
<1> QED BY <1>1, <1>2, <1>3 DEF FlowMoves

LEMMA FlowEnds ==
    ASSUME FlowOK, HostOK, FlowsKnow, NEW o \in Operators, pc[o] # "idle", Succeed(o) \/ Fail(o)
    PROVE  FlowMoves(o)
<1>1. /\ flow[o] \in Flows /\ NoFlow \in Flows /\ NoFlow.stage = "idle"
      /\ flow[o].stage # "idle"
  BY DEF FlowOK, Flows, NoFlow, Stages, Releases, FlowsKnow
<1>2. \A a \in Artefacts, m \in {"release", "rollback", "drill"} :
          Append(ledger, [artefact |-> a, mode |-> m, by |-> switches]) \in Seq(Records)
  BY DEF FlowOK, HostOK, Records
<1>3. ledger \in Seq(Records) BY DEF FlowOK
<1>4. UNCHANGED scope /\ started' \in 0..MaxFlows BY DEF Succeed, Fail, FlowOK
<1>5. ASSUME EndFlow(o), ledger' \in Seq(Records) PROVE FlowMoves(o)
  BY <1>1, <1>4, <1>5, MovesKnow DEF EndFlow, NoFlow
<1>6. ASSUME Continue(o, "put_back"), UNCHANGED ledger, flow[o].previous # Nothing
      PROVE  FlowMoves(o)
  <2> DEFINE f == [flow[o] EXCEPT !.stage = "put_back"]
  <2>1. f \in Flows /\ f.stage = "put_back" /\ f.previous \in Artefacts
    BY <1>1, <1>6 DEF Flows, Stages, Releases
  <2>2. flow' = [flow EXCEPT ![o] = f] BY <1>6 DEF Continue, FlowOK
  <2> HIDE DEF f
  <2> QED BY <1>3, <1>4, <1>6, <2>1, <2>2, MovesKnow DEF Continue
<1>7. ASSUME Continue(o, "drill_forward"), UNCHANGED ledger, flow[o].stage = "drill_back"
      PROVE  FlowMoves(o)
  <2> DEFINE f == [flow[o] EXCEPT !.stage = "drill_forward"]
  <2>1. /\ f \in Flows /\ f.stage = "drill_forward"
        /\ f.artefact \in Artefacts /\ f.previous \in Artefacts
    BY <1>1, <1>7 DEF Flows, Stages, FlowsKnow
  <2>2. flow' = [flow EXCEPT ![o] = f] BY <1>7 DEF Continue, FlowOK
  <2> HIDE DEF f
  <2> QED BY <1>3, <1>4, <1>7, <2>1, <2>2, MovesKnow DEF Continue
<1>8. Subject(o) \in Artefacts
      /\ (flow[o].stage \in {"drill_forward", "drill_back"} => flow[o].previous \in Artefacts)
  BY DEF FlowsKnow
<1>9. CASE Succeed(o)
  <2>1. CASE flow[o].stage = "deploy"
    <3>1. flow[o].artefact \in Artefacts BY <1>8, <2>1 DEF Subject
    <3> QED BY <1>2, <1>5, <1>9, <2>1, <3>1 DEF Succeed, Record
  <2>2. CASE flow[o].stage = "drill_forward"
    <3>1. flow[o].artefact \in Artefacts BY <1>8, <2>2 DEF Subject
    <3> QED BY <1>2, <1>5, <1>9, <2>2, <3>1 DEF Succeed, Record
  <2>3. CASE flow[o].stage \in {"put_back", "roll_back"}
    <3>1. flow[o].previous \in Artefacts BY <1>8, <2>3 DEF Subject
    <3>2. EndFlow(o) /\ ledger' = Append(ledger, [artefact |-> flow[o].previous, mode |-> "rollback",
                                                        by |-> switches])
      BY <1>9, <2>3 DEF Succeed, Record
    <3> QED BY <1>2, <1>5, <3>1, <3>2
  <2>4. CASE flow[o].stage = "drill_back" BY <1>7, <1>9, <2>4 DEF Succeed
  <2>5. CASE flow[o].stage = "restore" BY <1>3, <1>5, <1>9, <2>5 DEF Succeed
  <2> QED BY <1>1, <2>1, <2>2, <2>3, <2>4, <2>5 DEF Flows, Stages
<1>10. CASE Fail(o)
  <2>1. CASE flow[o].stage = "deploy" /\ flow[o].previous # Nothing
    BY <1>6, <1>10, <2>1 DEF Fail
  <2>2. CASE flow[o].stage = "drill_forward"
    BY <1>2, <1>5, <1>8, <1>10, <2>2 DEF Fail, Record
  <2>3. CASE ~(flow[o].stage = "deploy" /\ flow[o].previous # Nothing)
             /\ flow[o].stage # "drill_forward"
    BY <1>3, <1>5, <1>10, <2>3 DEF Fail
  <2> QED BY <2>1, <2>2, <2>3
<1> QED BY <1>9, <1>10

-----------------------------------------------------------------------------
(* The shapes of a step.                                                   *)

LEMMA InvIs ==
    ScriptInv <=> /\ HostOK /\ FlowOK /\ OneScript /\ FlowsKnow
                  /\ AppliesInOrder /\ SandboxesAreOwn /\ RunsFiredSince
BY TypesAre DEF ScriptInv, OneScript

LEMMA InvThen ==
    ASSUME HostOK', FlowOK', OneScript', FlowsKnow', AppliesInOrder', SandboxesAreOwn',
           RunsFiredSince'
    PROVE  ScriptInv'
BY DEF ScriptInv, TypeOK, HostOK, FlowOK, Flows, Records, RunRecords, OneScript

LEMMA Alone ==
    ASSUME ScriptInv, NEW o \in Operators, InScript(o)
    PROVE  lock = o /\ \A p \in Operators : p # o => ~InScript(p)
BY DEF ScriptInv, OneScript

\* A script ends, and nobody runs one; some of its objects stay on the host.
LEMMA ScriptEnds ==
    ASSUME ScriptInv, NEW o \in Operators, InScript(o), FlowMoves(o), HostOK',
           NEW S \in SUBSET Left, Abandons(o, S),
           ~scope.kills /\ ~scope.reboots => S \subseteq Stuck
    PROVE  ScriptInv'
<1>1. \A p \in Operators : pc'[p] \in {"idle", "ready", "verify"}
  BY Alone DEF InScript, FlowMoves
<1>2. FlowOK
  BY InvIs
<1>3. /\ lock' = Nothing /\ left' = left \cup S /\ carriers' = carriers \ {o}
      /\ sandbox' \in [Operators -> SUBSET Objects] /\ sandbox'[o] = {}
      /\ \A p \in Operators : p # o => sandbox'[p] = sandbox[p]
  BY <1>2 DEF Abandons, FlowOK
<1>4. FlowOK' BY <1>2, <1>3 DEF FlowOK, FlowMoves
<1>5. OneScript' BY <1>1, <1>3, HostAssumption DEF OneScript, InScript
<1>6. FlowsKnow' BY DEF FlowMoves
<1>7. AppliesInOrder' BY <1>1 DEF AppliesInOrder, InScript
<1>8. RunsFiredSince' BY <1>1 DEF RunsFiredSince, InScript
<1>9. SandboxesAreOwn'
  <2>1. ASSUME NEW p \in Operators PROVE p \notin carriers' /\ sandbox'[p] = {}
    <3>1. CASE p = o BY <1>3, <3>1
    <3>2. CASE p # o BY <1>3, <3>2, Alone DEF ScriptInv, SandboxesAreOwn
    <3> QED BY <3>1, <3>2
  <2>2. scope' = scope BY DEF FlowMoves
  <2>3. ~scope.kills /\ ~scope.reboots => left' \subseteq Stuck
    BY <1>3 DEF ScriptInv, SandboxesAreOwn
  <2>4. Stuck' = Stuck BY <2>2 DEF Stuck
  <2> QED BY <2>1, <2>2, <2>3, <2>4 DEF SandboxesAreOwn
<1> QED BY <1>4, <1>5, <1>6, <1>7, <1>8, <1>9, InvThen

\* A flow goes on outside of the scripts.
LEMMA FlowStep ==
    ASSUME ScriptInv, NEW o \in Operators, ~InScript(o), FlowMoves(o),
           UNCHANGED <<host, lock, carriers, sandbox, left>>
    PROVE  ScriptInv'
<1> USE DEF host
<1>1. /\ \A p \in Operators : InScript(p)' = InScript(p)
      /\ \A p \in Operators : InScript(p) => pc'[p] = pc[p] /\ flow'[p] = flow[p]
  BY DEF InScript, FlowMoves
<1>2. FlowOK' BY DEF FlowOK, FlowMoves, ScriptInv, TypeOK
<1>3. HostOK' BY DEF HostOK, RunRecords, ScriptInv, TypeOK
<1>4. scope' = scope /\ FlowsKnow' BY DEF FlowMoves
<1>5. OneScript' BY <1>1, <1>4 DEF OneScript, Key, ScriptInv
<1>6. AppliesInOrder'
  <2>1. \A p \in Operators : InScript(p) => Subject(p)' = Subject(p) BY <1>1 DEF Subject
  <2> QED BY <1>1, <1>4, <2>1 DEF AppliesInOrder, Done, ScriptInv
<1>7. RunsFiredSince' BY <1>1, <1>4 DEF RunsFiredSince, Running, ScriptInv
<1>8. SandboxesAreOwn'
  <2>1. ASSUME NEW p \in Operators
        PROVE  /\ ~InScript(p)' \/ flow'[p].stage = "restore" => p \notin carriers'
               /\ (~InScript(p)' \/ flow'[p].stage # "restore" \/ pc'[p] = "exit") => sandbox'[p] = {}
    BY <1>1 DEF SandboxesAreOwn, ScriptInv
  <2>2. ~scope.kills /\ ~scope.reboots => left' \subseteq Stuck
    BY DEF SandboxesAreOwn, ScriptInv
  <2>3. Stuck' = Stuck BY <1>4 DEF Stuck
  <2> QED BY <1>4, <2>1, <2>2, <2>3 DEF SandboxesAreOwn
<1> QED BY <1>2, <1>3, <1>4, <1>5, <1>6, <1>7, <1>8, InvThen

\* The script that holds the lock comes to its next command, or into its trap.
LEMMA ScriptGoesOn ==
    ASSUME ScriptInv, NEW o \in Operators, pc[o] # "idle",
           lock' = o, \A p \in Operators : p # o => ~InScript(p),
           NEW w \in CommandsOf[Key(o)] \cup {"trap", "exit"}, pc' = [pc EXCEPT ![o] = w],
           UNCHANGED <<scope, flow, ledger, started>>,
           HostOK', carriers' \subseteq Operators, sandbox' \in [Operators -> SUBSET Objects],
           flow[o].stage # "restore" => Done(o)',
           \A p \in Operators : p # o =>
               (p \in carriers' => p \in carriers) /\ sandbox'[p] = sandbox[p],
           flow[o].stage # "restore" \/ w = "exit" => sandbox'[o] = {},
           flow[o].stage = "restore" => o \notin carriers',
           left' \subseteq Left, ~scope.kills /\ ~scope.reboots => left' \subseteq Stuck,
           scope.shape = "timers" =>
               \A j \in declared' : Running(j)' =>
                   /\ w \in {"write", "create", "copy", "aside"} =>
                          runs'[j].during \in {"write", "create", "copy", "aside"}
                   /\ w = "switch" => runs'[j].during = "switch"
    PROVE  ScriptInv'
<1>1. FlowOK BY InvIs
<1>2. w \in Commands \cup {"trap", "exit"} /\ w \notin {"idle", "ready", "verify"}
  BY <1>1, ScopeTypes, CommandNames
<1>3. /\ pc'[o] = w /\ \A p \in Operators : p # o => pc'[p] = pc[p]
      /\ pc' \in [Operators -> Commands \cup {"idle", "ready", "trap", "exit", "verify"}]
  BY <1>1, <1>2 DEF FlowOK
<1>4. InScript(o)' /\ \A p \in Operators : p # o => ~InScript(p)'
  BY <1>2, <1>3 DEF InScript
<1>5. FlowOK' BY <1>1, <1>3 DEF FlowOK
<1>6. OneScript'
  <2>1. \A p \in Operators : InScript(p)' <=> lock' = p BY <1>4
  <2>2. Key(o)' = Key(o) BY DEF Key
  <2> QED BY <1>3, <1>4, <2>1, <2>2 DEF OneScript
<1>7. FlowsKnow' BY <1>2, <1>3 DEF FlowsKnow, Subject, ScriptInv
<1>8. AppliesInOrder' BY <1>4 DEF AppliesInOrder
<1>9. RunsFiredSince' BY <1>3, <1>4 DEF RunsFiredSince
<1>10. SandboxesAreOwn'
  <2>1. ASSUME NEW p \in Operators
        PROVE  /\ ~InScript(p)' \/ flow'[p].stage = "restore" => p \notin carriers'
               /\ (~InScript(p)' \/ flow'[p].stage # "restore" \/ pc'[p] = "exit") => sandbox'[p] = {}
    <3>1. CASE p = o BY <1>3, <1>4, <3>1
    <3>2. CASE p # o BY <1>3, <1>4, <3>2 DEF SandboxesAreOwn, ScriptInv
    <3> QED BY <3>1, <3>2
  <2>2. Stuck' = Stuck BY DEF Stuck
  <2> QED BY <2>1, <2>2 DEF SandboxesAreOwn
<1> QED BY <1>5, <1>6, <1>7, <1>8, <1>9, <1>10, InvThen

\* Something happens on the host between two commands.
LEMMA HostGoesOn ==
    ASSUME ScriptInv, HostOK',
           UNCHANGED <<scope, releases, current, switches, loaded, armed, lock, carriers, sandbox, left, flow, pc,
                       ledger, started>>,
           declared' = declared \/ \A o \in Operators : ~InScript(o),
           overridden' = overridden
             \/ \A o \in Operators : pc[o] \notin {"restart", "active", "exit"},
           \/ scope.shape = "timers"
           \/ runs'[Service].release \in {runs[Service].release, Nothing}
           \/ scope.shape = "systemd" /\ runs'[Service].release = current,
           scope.shape = "timers" =>
               \A j \in Jobs : \/ runs'[j] = runs[j] \/ runs'[j] = NoRun
                               \/ runs'[j].during = AtCommand
    PROVE  ScriptInv'
<1>1. FlowOK' /\ FlowsKnow'
  <2>1. FlowOK' BY InvIs DEF FlowOK
  <2>2. FlowsKnow' BY DEF FlowsKnow, Subject, ScriptInv
  <2> QED BY <2>1, <2>2
<1>2. OneScript' BY DEF OneScript, InScript, Key, ScriptInv
<1>3. \A o \in Operators : InScript(o)' = InScript(o) /\ Subject(o)' = Subject(o)
  BY DEF InScript, Subject
<1>4. AppliesInOrder'
  <2>1. ASSUME NEW o \in Operators, InScript(o), flow[o].stage # "restore" PROVE Done(o)'
    <3>1. declared' = declared BY <2>1
    <3>2. Done(o) BY <2>1 DEF ScriptInv, AppliesInOrder
    <3>3. scope.shape = "compose" => Done(o)' BY <1>3, <3>1, <3>2 DEF Done
    <3>4. scope.shape = "timers" => Done(o)' BY <1>3, <3>1, <3>2 DEF Done
    <3>5. scope.shape = "systemd" => Done(o)'
      BY <1>3, <3>1, <3>2 DEF Done, Switched
    <3>6. scope.shape \in Shapes BY InvIs, ScopeTypes
    <3> QED BY <3>3, <3>4, <3>5, <3>6 DEF Shapes
  <2> QED BY <1>3, <2>1 DEF AppliesInOrder
<1>5. SandboxesAreOwn' BY DEF SandboxesAreOwn, InScript, Stuck, ScriptInv
<1>6. RunsFiredSince'
  <2>1. ASSUME scope.shape = "timers", NEW o \in Operators, InScript(o)
        PROVE  \A j \in declared' : runs'[j] # NoRun =>
                 /\ pc[o] \in {"write", "create", "copy", "aside"} =>
                      runs'[j].during \in {"write", "create", "copy", "aside"}
                 /\ pc[o] = "switch" => runs'[j].during = "switch"
    <3>1. declared' = declared /\ declared \subseteq Jobs BY <2>1 DEF ScriptInv, TypeOK
    <3>2. AtCommand = pc[o] BY <2>1, Alone, HostAssumption DEF AtCommand
    <3> QED BY <2>1, <3>1, <3>2 DEF ScriptInv, RunsFiredSince, Running
  <2> QED BY <1>3, <2>1 DEF RunsFiredSince, Running
<1> QED BY <1>1, <1>2, <1>4, <1>5, <1>6, InvThen

-----------------------------------------------------------------------------
(* The host between two commands, and the flows outside of the scripts.    *)

LEMMA AtCommandType ==
    ASSUME ScriptInv
    PROVE  AtCommand \in Commands \cup {"none", "trap", "exit"}
<1>1. CASE lock = Nothing BY <1>1 DEF AtCommand
<1>2. CASE lock # Nothing
  <2>1. lock \in Operators /\ InScript(lock) BY <1>2 DEF ScriptInv, TypeOK, OneScript
  <2>2. pc[lock] \in Commands \cup {"trap", "exit"} BY <2>1 DEF InScript, ScriptInv, TypeOK
  <2> QED BY <1>2, <2>2 DEF AtCommand
<1> QED BY <1>1, <1>2

LEMMA HostKeeps ==
    ASSUME ScriptInv,
           \/ \E j \in Jobs : Fire(j) \/ RunEnds(j) \/ Override(j)
           \/ ServiceDies
           \/ \E a \in Artefacts : Checkout(a)
    PROVE  ScriptInv'
<1> USE DEF host
<1>1. HostOK /\ FlowOK BY InvIs
<1>2. NoRun \in RunRecords /\ NotWell \in [at : Nat, after : Nat]
  BY DEF NoRun, NotWell, Releases, RunRecords
<1>3. ASSUME NEW j \in Jobs, Fire(j) PROVE ScriptInv'
  <2>1. HostOK'
    <3>1. CASE current # Nothing /\ releases[current].payload
      <4> DEFINE r == [release |-> current, mixed |-> FALSE, after |-> Behind,
                       during |-> AtCommand]
      <4>1. r \in RunRecords
        <5>1. Behind \in Nat BY <1>1 DEF Behind, HostOK
        <5> QED BY <1>1, <5>1, AtCommandType DEF HostOK, RunRecords
      <4>2. runs' = [runs EXCEPT ![j] = r] /\ UNCHANGED exited BY <1>3, <3>1 DEF Fire
      <4> HIDE DEF r
      <4> QED BY <1>1, <1>3, <4>1, <4>2 DEF Fire, HostOK
    <3>2. CASE ~(current # Nothing /\ releases[current].payload)
      BY <1>1, <1>2, <1>3, <3>2 DEF Fire, HostOK
    <3> QED BY <3>1, <3>2
  <2>2. \A k \in Jobs : runs'[k] = runs[k] \/ runs'[k].during = AtCommand
    BY <1>1, <1>3 DEF Fire, HostOK
  <2> QED BY <1>3, <2>1, <2>2, HostGoesOn DEF Fire
<1>4. ASSUME NEW j \in Jobs, RunEnds(j) PROVE ScriptInv'
  <2>1. HostOK'
    <3>1. Len(ledger) \in Nat /\ runs[j].after \in Nat
      BY <1>1 DEF FlowOK, HostOK, RunRecords
    <3>2. [at |-> Len(ledger), after |-> runs[j].after] \in [at : Nat, after : Nat] BY <3>1
    <3> QED BY <1>1, <1>2, <1>4, <3>2 DEF RunEnds, HostOK
  <2>2. \A k \in Jobs : runs'[k] = runs[k] \/ runs'[k] = NoRun
    BY <1>1, <1>4 DEF RunEnds, HostOK
  <2> QED BY <1>4, <2>1, <2>2, HostGoesOn DEF RunEnds
<1>5. ASSUME NEW j \in Jobs, Override(j) PROVE ScriptInv'
  <2>1. HostOK' BY <1>1, <1>5 DEF Override, HostOK
  <2> QED BY <1>5, <2>1, HostGoesOn DEF Override
<1>6. ASSUME ServiceDies PROVE ScriptInv'
  <2>1. PICK r \in {Nothing, current} :
            /\ runs' = [runs EXCEPT ![Service] = [NoRun EXCEPT !.release = r]]
            /\ scope.shape = "systemd" \/ r = Nothing
    BY <1>6 DEF ServiceDies
  <2>2. [NoRun EXCEPT !.release = r] \in RunRecords
    BY <1>1 DEF NoRun, Releases, HostOK, RunRecords
  <2>3. HostOK' BY <1>1, <1>6, <2>1, <2>2 DEF ServiceDies, HostOK
  <2>4. runs'[Service].release = r
    BY <1>1, <2>1, HostAssumption DEF HostOK, NoRun
  <2> QED BY <1>6, <2>1, <2>3, <2>4, HostGoesOn DEF ServiceDies
<1>7. ASSUME NEW a \in Artefacts, Checkout(a) PROVE ScriptInv'
  <2>1. Manifest(a) \subseteq Jobs BY HostAssumption DEF Manifest
  <2>2. HostOK' BY <1>1, <1>7, <2>1 DEF Checkout, HostOK
  <2>3. \A o \in Operators : ~InScript(o)
    BY <1>7 DEF Checkout, InScript, ScriptInv, FlowsKnow
  <2> QED BY <1>7, <2>2, <2>3, HostGoesOn DEF Checkout
<1> QED BY <1>3, <1>4, <1>5, <1>6, <1>7

LEMMA StartKeeps ==
    ASSUME ScriptInv, NEW o \in Operators, Start(o)
    PROVE  ScriptInv'
<1>1. FlowOK /\ FlowsKnow BY InvIs
<1>2. ASSUME NEW f \in Flows, Begin(o, f.stage, f.artefact, f.previous), f.stage # "idle",
             IF f.stage \in {"deploy", "drill_forward"}
             THEN f.artefact \in Artefacts ELSE f.previous \in Artefacts,
             f.stage \in {"roll_back", "drill_back", "drill_forward", "restore"} =>
                 f.artefact \in Artefacts /\ f.previous \in Artefacts,
             f.stage = "restore" => scope.shape = "compose"
      PROVE  ScriptInv'
  <2>1. ~InScript(o) BY <1>1, <1>2 DEF Begin, FlowsKnow, InScript
  <2>2. [stage |-> f.stage, artefact |-> f.artefact, previous |-> f.previous] = f BY DEF Flows
  <2>3. flow' = [flow EXCEPT ![o] = f] /\ pc' = [pc EXCEPT ![o] = "ready"]
    BY <1>2, <2>2 DEF Begin
  <2>4. started' \in 0..MaxFlows
    <3>1. scope.started \in 0..MaxFlows /\ started \in 0..MaxFlows
      BY <1>1, ScopeTypes DEF FlowOK
    <3> QED BY <1>2, <3>1, HostAssumption DEF Begin
  <2>5. UNCHANGED scope /\ ledger' \in Seq(Records) BY <1>1, <1>2 DEF Begin, FlowOK
  <2>6. FlowMoves(o) BY <1>1, <1>2, <2>3, <2>4, <2>5, MovesKnow
  <2> QED BY <1>2, <2>1, <2>6, FlowStep DEF Begin
<1>3. ASSUME StartForward(o) PROVE ScriptInv'
  <2>1. PICK a \in Artefacts : Begin(o, "deploy", a, PreviousArtefact(a))
    BY <1>3 DEF StartForward
  <2> DEFINE f == [stage |-> "deploy", artefact |-> a, previous |-> PreviousArtefact(a)]
  <2>2. f \in Flows BY <1>1, LedgerNames DEF Flows, Stages, Releases
  <2>3. f.stage = "deploy" /\ f.artefact = a /\ f.previous = PreviousArtefact(a) OBVIOUS
  <2> HIDE DEF f
  <2> QED BY <1>2, <2>1, <2>2, <2>3
<1>4. ASSUME NEW kind, NEW stage \in {"roll_back", "drill_back", "restore"},
             StartBack(o, kind, stage), stage = "restore" => scope.shape = "compose"
      PROVE  ScriptInv'
  <2> DEFINE a == LiveArtefact
             b == PreviousArtefact(LiveArtefact)
             f == [stage |-> stage, artefact |-> a, previous |-> b]
  <2>1. a \in Artefacts /\ b \in Artefacts
    BY <1>1, <1>4, LedgerNames DEF StartBack, Releases
  <2>2. Begin(o, stage, a, b) BY <1>4 DEF StartBack
  <2> HIDE DEF a, b
  <2>3. f \in Flows BY <2>1 DEF Flows, Stages, Releases
  <2>4. f.stage = stage /\ f.artefact = a /\ f.previous = b OBVIOUS
  <2> HIDE DEF f
  <2> QED BY <1>2, <1>4, <2>1, <2>2, <2>3, <2>4
<1> QED BY <1>3, <1>4 DEF Start

LEMMA OutsideKeeps ==
    ASSUME ScriptInv, NEW o \in Operators, Refused(o) \/ FindLocked(o) \/ Verify(o)
    PROVE  ScriptInv'
<1>1. FlowOK /\ HostOK /\ FlowsKnow BY InvIs
<1>2. pc[o] \in {"ready", "verify"} /\ UNCHANGED <<host, lock, carriers, sandbox, left>>
  BY DEF Refused, FindLocked, Verify
<1>3. ~InScript(o) /\ pc[o] # "idle" BY <1>2 DEF InScript
<1>4. CASE Succeed(o) \/ Fail(o) BY <1>1, <1>2, <1>3, <1>4, FlowEnds, FlowStep
<1>5. CASE EndFlow(o) /\ UNCHANGED <<scope, ledger, started>>
  <2>1. NoFlow \in Flows /\ NoFlow.stage = "idle"
    BY DEF Flows, NoFlow, Stages, Releases
  <2>2. started' \in 0..MaxFlows /\ ledger' \in Seq(Records) BY <1>1, <1>5 DEF FlowOK
  <2>3. FlowMoves(o) BY <1>1, <1>5, <2>1, <2>2, MovesKnow DEF EndFlow, NoFlow
  <2> QED BY <1>2, <1>3, <2>3, FlowStep
<1> QED BY <1>4, <1>5 DEF Refused, FindLocked, Verify

LEMMA EndsKeep ==
    ASSUME ScriptInv, NEW o \in Operators, Trap(o) \/ Exit(o) \/ Kill(o)
    PROVE  ScriptInv'
<1>1. FlowOK /\ FlowsKnow /\ HostOK BY InvIs
<1>2. InScript(o) /\ pc[o] # "idle" BY DEF Trap, Exit, Kill, InScript
<1>3. UNCHANGED host BY DEF Trap, Exit, Kill
<1>4. HostOK' BY <1>1, <1>3 DEF HostOK, host
<1>5. Own(o) \in SUBSET Left BY <1>1 DEF Own, Left, FlowOK
<1>6. PICK S \in SUBSET Left :
          Abandons(o, S) /\ (~scope.kills /\ ~scope.reboots => S \subseteq Stuck)
  <2>1. CASE Leaves(o) BY <1>5, <2>1 DEF Leaves
  <2>2. CASE Kill(o) BY <1>5, <2>2 DEF Kill
  <2> QED BY <2>1, <2>2 DEF Trap, Exit
<1>7. CASE Succeed(o) \/ Fail(o)
  <2>1. FlowMoves(o) BY <1>1, <1>2, <1>7, FlowEnds
  <2> QED BY <1>2, <1>4, <1>6, <2>1, ScriptEnds
<1>8. CASE /\ pc' = [pc EXCEPT ![o] = "verify"]
           /\ UNCHANGED <<scope, flow, ledger, started>>
  <2>1. /\ flow[o] \in Flows /\ flow' = [flow EXCEPT ![o] = flow[o]]
        /\ started' \in 0..MaxFlows /\ ledger' \in Seq(Records)
    BY <1>1, <1>8 DEF FlowOK
  <2>2. FlowMoves(o)
    <3>1. IF flow[o].stage \in {"deploy", "drill_forward"}
          THEN flow[o].artefact \in Artefacts ELSE flow[o].previous \in Artefacts
      BY <1>1, <1>2 DEF FlowsKnow, Subject
    <3>2. flow[o].stage # "idle" /\ (flow[o].stage = "restore" => scope.shape = "compose")
      BY <1>1, <1>2 DEF FlowsKnow
    <3>3. flow[o].stage \in {"roll_back", "drill_back", "drill_forward", "restore"} =>
              flow[o].artefact \in Artefacts /\ flow[o].previous \in Artefacts
      BY <1>1 DEF FlowsKnow
    <3> QED BY <1>1, <1>8, <2>1, <3>1, <3>2, <3>3, MovesKnow
  <2> QED BY <1>2, <1>4, <1>6, <2>2, ScriptEnds
<1> QED BY <1>7, <1>8 DEF Trap, Exit, Kill

LEMMA RebootKeeps ==
    ASSUME ScriptInv, Reboot
    PROVE  ScriptInv'
<1>1. FlowOK /\ FlowsKnow /\ HostOK BY InvIs
<1>2. PICK o \in Operators : InScript(o) /\ Fail(o) /\ Abandons(o, Own(o)) BY DEF Reboot
<1>3. FlowMoves(o) BY <1>1, <1>2, FlowEnds DEF InScript
<1>4. Linked \in [Jobs -> Releases] BY <1>1 DEF Linked, HostOK, Releases
<1>5. HostOK'
  <2>1. PICK r \in {Nothing, current, runs[Service].release} :
            runs' = [j \in Jobs |-> IF j = Service THEN [NoRun EXCEPT !.release = r] ELSE NoRun]
    <3>1. CASE scope.shape = "timers" BY <3>1 DEF Reboot
    <3>2. CASE scope.shape = "systemd" BY <3>2 DEF Reboot
    <3>3. CASE scope.shape \notin {"timers", "systemd"} BY <3>3 DEF Reboot
    <3> QED BY <3>1, <3>2, <3>3
  <2>2. r \in Releases
    <3>1. runs[Service] \in RunRecords BY <1>1, HostAssumption DEF HostOK
    <3> QED BY <1>1, <3>1 DEF HostOK, Releases, RunRecords
  <2>3. runs' \in [Jobs -> RunRecords]
    BY <2>1, <2>2 DEF NoRun, Releases, RunRecords
  <2>4. armed' \subseteq Jobs BY <1>1 DEF Reboot, HostOK
  <2>5. /\ UNCHANGED <<declared, releases, current, switches, overridden>>
        /\ loaded' = Linked /\ exited' = [j \in Jobs |-> NotWell]
    BY DEF Reboot
  <2>6. NotWell \in [at : Nat, after : Nat] BY DEF NotWell
  <2> QED BY <1>1, <1>4, <2>3, <2>4, <2>5, <2>6 DEF HostOK
<1>6. scope.reboots /\ Own(o) \in SUBSET Left BY <1>1 DEF Reboot, Own, Left, FlowOK
<1> QED BY <1>2, <1>3, <1>5, <1>6, ScriptEnds

-----------------------------------------------------------------------------
(* The commands.                                                           *)

\* A script at a command has the lock, and goes on as its table says.
LEMMA AtACommand ==
    ASSUME ScriptInv, NEW o \in Operators, pc[o] \in Commands
    PROVE  /\ lock = o /\ pc[o] # "idle" /\ InScript(o) /\ Subject(o) \in Artefacts
           /\ \A p \in Operators : p # o => ~InScript(p)
           /\ Key(o) \in Keys /\ pc[o] \in CommandsOf[Key(o)]
           /\ Key(o) = "restore" <=> flow[o].stage = "restore"
           /\ Key(o) # "restore" => Key(o) = scope.shape
           /\ Following(o) = Steps[Key(o)][pc[o]]
           /\ Following(o) \in CommandsOf[Key(o)] \cup {"exit"}
           /\ sandbox[o] # {} => flow[o].stage = "restore"
           /\ flow[o].stage = "restore" => o \notin carriers
           /\ left \subseteq Left /\ (~scope.kills /\ ~scope.reboots => left \subseteq Stuck)
<1>1. FlowOK /\ OneScript /\ FlowsKnow /\ SandboxesAreOwn BY InvIs
<1>2. pc[o] \notin {"idle", "ready", "verify", "trap", "exit"} BY CommandNames
<1>3. InScript(o) /\ lock = o /\ Subject(o) \in Artefacts
  BY <1>1, <1>2 DEF InScript, OneScript, FlowsKnow
<1>4. \A p \in Operators : p # o => ~InScript(p) BY <1>3, Alone
<1>5. Key(o) \in Keys /\ pc[o] \in CommandsOf[Key(o)]
  BY <1>1, <1>2, <1>3, ScopeTypes DEF OneScript
<1>6. Following(o) = Steps[Key(o)][pc[o]] BY <1>5, FollowingIs
<1>7. \A key \in Keys : \A c \in CommandsOf[key] : Steps[key][c] \in CommandsOf[key] \cup {"exit"}
  BY DEF Keys, CommandsOf, Steps
<1>8. /\ Key(o) = "restore" <=> flow[o].stage = "restore"
      /\ Key(o) # "restore" => Key(o) = scope.shape
  <2>1. scope.shape # "restore" BY <1>1, ScopeTypes DEF Shapes
  <2> QED BY <2>1 DEF Key
<1>9. /\ sandbox[o] # {} => flow[o].stage = "restore"
      /\ flow[o].stage = "restore" => o \notin carriers
      /\ left \subseteq Left /\ (~scope.kills /\ ~scope.reboots => left \subseteq Stuck)
  BY <1>1 DEF SandboxesAreOwn, FlowOK
<1> QED BY <1>2, <1>3, <1>4, <1>5, <1>6, <1>7, <1>8, <1>9

\* A command of an apply runs.
LEMMA ApplyRuns ==
    ASSUME ScriptInv, NEW o \in Operators, NEW c \in Commands, Runs(o, c),
           flow[o].stage # "restore", HostOK',
           carriers' \subseteq carriers \cup {o}, UNCHANGED <<sandbox, left>>, Done(o)',
           scope.shape = "timers" =>
               \A j \in declared : Running(j)' =>
                   /\ Following(o) \in {"write", "create", "copy", "aside"} =>
                          runs'[j].during \in {"write", "create", "copy", "aside"}
                   /\ Following(o) = "switch" => runs'[j].during = "switch"
    PROVE  ScriptInv'
<1>1. pc[o] = c /\ pc' = [pc EXCEPT ![o] = Following(o)]
      /\ UNCHANGED <<scope, declared, overridden, exited, lock, flow, ledger, started>>
  BY DEF Runs
<1>2. FlowOK BY InvIs
<1>3. carriers' \subseteq Operators /\ sandbox' \in [Operators -> SUBSET Objects]
      /\ \A p \in Operators : p # o => (p \in carriers' => p \in carriers) /\ sandbox'[p] = sandbox[p]
  BY <1>2 DEF FlowOK
<1>4. /\ sandbox'[o] = {} /\ left' \subseteq Left
      /\ ~scope.kills /\ ~scope.reboots => left' \subseteq Stuck
  BY <1>1, AtACommand
<1>5. Following(o) \in CommandsOf[Key(o)] \cup {"trap", "exit"} BY <1>1, AtACommand
<1>6. lock' = o /\ pc[o] # "idle" /\ \A p \in Operators : p # o => ~InScript(p)
  BY <1>1, AtACommand
<1> QED BY <1>1, <1>3, <1>4, <1>5, <1>6, ScriptGoesOn

\* A command does not succeed.
LEMMA TrapsKeep ==
    ASSUME ScriptInv, NEW o \in Operators, pc[o] \in Commands, pc' = [pc EXCEPT ![o] = "trap"],
           UNCHANGED <<scope, declared, overridden, lock, carriers, flow, ledger, started>>,
           HostOK', sandbox' = [sandbox EXCEPT ![o] = sandbox'[o]],
           sandbox'[o] \subseteq sandbox[o] \cup ({pc[o]} \cap Objects),
           left' = left \/ (left' = left \cup {"created"} /\ "created" \in scope.docker),
           \A j \in declared : runs'[j] = runs[j] \/ runs'[j] = NoRun \/ scope.shape # "timers"
    PROVE  ScriptInv'
<1>1. FlowOK BY InvIs
<1>2. sandbox' \in [Operators -> SUBSET Objects]
      /\ \A p \in Operators : p # o => sandbox'[p] = sandbox[p]
  <2>1. sandbox'[o] \in SUBSET Objects BY <1>1 DEF FlowOK, Objects
  <2> QED BY <1>1, <2>1 DEF FlowOK
<1>3. carriers' \subseteq Operators BY <1>1 DEF FlowOK
<1>4. Done(o)'
  <2>1. pc'[o] = "trap" BY <1>1 DEF FlowOK
  <2> QED BY <2>1 DEF Done, Switched
<1>5. flow[o].stage # "restore" => sandbox'[o] = {}
  <2>1. ASSUME flow[o].stage # "restore" PROVE pc[o] \notin Objects
    <3>1. Key(o) \in Keys /\ Key(o) # "restore" /\ pc[o] \in CommandsOf[Key(o)]
      BY <2>1, AtACommand
    <3> QED BY <3>1 DEF Keys, CommandsOf, Objects
  <2> QED BY <2>1, AtACommand
<1>6. /\ lock' = o /\ pc[o] # "idle" /\ \A p \in Operators : p # o => ~InScript(p)
      /\ flow[o].stage = "restore" => o \notin carriers'
  BY AtACommand
<1>7. left' \subseteq Left /\ (~scope.kills /\ ~scope.reboots => left' \subseteq Stuck)
  BY AtACommand DEF Left, Stuck
<1> QED BY <1>2, <1>3, <1>4, <1>5, <1>6, <1>7, ScriptGoesOn

LEMMA Exits1Keeps ==
    ASSUME ScriptInv, NEW o \in Operators, NEW c \in Commands, Exits1(o, c)
    PROVE  ScriptInv'
<1>1. HostOK /\ FlowOK BY InvIs
<1>2. HostOK' BY <1>1 DEF Exits1, host, HostOK
<1>3. sandbox' = sandbox /\ sandbox = [sandbox EXCEPT ![o] = sandbox[o]]
  BY <1>1 DEF Exits1, FlowOK
<1> QED BY <1>2, <1>3, TrapsKeep DEF Exits1, host

LEMMA FailsKeep ==
    ASSUME ScriptInv, NEW o \in Operators, CommandFails(o)
    PROVE  ScriptInv'
<1>1. HostOK /\ FlowOK BY InvIs
<1>2. NoRun \in RunRecords BY DEF NoRun, Releases, RunRecords
<1>3. armed' \subseteq Jobs BY <1>1 DEF CommandFails, HostOK
<1>4. runs' = runs \/ (scope.shape # "timers" /\ runs' = [runs EXCEPT ![Service] = NoRun])
  BY DEF CommandFails
<1>5. HostOK'
  <2>1. runs' \in [Jobs -> RunRecords]
    BY <1>1, <1>2, <1>4 DEF HostOK
  <2> QED BY <1>1, <1>3, <2>1 DEF CommandFails, HostOK
<1>6. sandbox' = [sandbox EXCEPT ![o] = sandbox'[o]]
      /\ sandbox'[o] \subseteq sandbox[o] \cup ({pc[o]} \cap Objects)
  BY <1>1 DEF CommandFails, FlowOK
<1> QED BY <1>4, <1>5, <1>6, TrapsKeep DEF CommandFails

\* The commands of an apply, and what follows each.
LEMMA ApplyAt ==
    ASSUME ScriptInv, NEW o \in Operators, NEW c \in Commands \ CommandsOf.restore, pc[o] = c
    PROVE  /\ flow[o].stage # "restore" /\ Subject(o) \in Artefacts
           /\ scope.shape \in Shapes /\ c \in CommandsOf[scope.shape]
           /\ Following(o) = Steps[scope.shape][c] /\ Done(o)
           /\ Runs(o, c) => /\ pc'[o] = Following(o) /\ Subject(o)' = Subject(o)
                            /\ UNCHANGED <<scope, declared, overridden, exited>>
<1>1. FlowOK /\ AppliesInOrder BY InvIs
<1>2. Key(o) # "restore"
  <2>1. Key(o) \in Keys /\ c \in CommandsOf[Key(o)] BY AtACommand
  <2> QED BY <2>1
<1>3. flow[o].stage # "restore" /\ Key(o) = scope.shape BY <1>2, AtACommand
<1>4. scope.shape \in Shapes BY <1>1, ScopeTypes
<1>5. Done(o) BY <1>1, <1>3, AtACommand DEF AppliesInOrder
<1>6. Runs(o, c) => /\ pc'[o] = Following(o) /\ Subject(o)' = Subject(o)
                    /\ UNCHANGED <<scope, declared, overridden, exited>>
  BY <1>1 DEF Runs, Subject, FlowOK
<1> QED BY <1>3, <1>4, <1>5, <1>6, AtACommand

LEMMA ApplyNames ==
    {"write", "up", "switch", "create", "copy", "place", "reload", "loaded", "restart", "active",
     "check", "aside", "recheck"} = Commands \ CommandsOf.restore
BY CommandsAre DEF CommandsOf

\* What the commands leave alone is still what was done.
LEMMA QuietRuns ==
    ASSUME ScriptInv, NEW o \in Operators,
           NEW c \in {"create", "copy", "check", "recheck", "loaded", "active"},
           Runs(o, c), UNCHANGED <<releases, current, switches, loaded, armed, runs, sandbox, left>>,
           carriers' \subseteq carriers \cup {o},
           c \in {"check", "recheck"} => \A j \in declared : ~Running(j),
           c = "loaded" => \A j \in declared : j \notin overridden /\ loaded[j] = Subject(o),
           c = "active" /\ scope.shape = "timers" => declared \subseteq armed
    PROVE  ScriptInv'
<1>1. HostOK BY InvIs
<1>2. pc[o] = c /\ c \in Commands \ CommandsOf.restore BY ApplyNames DEF Runs
<1>3. /\ flow[o].stage # "restore" /\ scope.shape \in Shapes /\ c \in CommandsOf[scope.shape]
      /\ Following(o) = Steps[scope.shape][c] /\ Done(o)
      /\ pc'[o] = Following(o) /\ Subject(o)' = Subject(o)
      /\ UNCHANGED <<scope, declared, overridden, exited>>
  BY <1>2, ApplyAt
<1>4. HostOK' BY <1>1, <1>3 DEF HostOK
<1>5. Done(o)'
  <2>1. CASE scope.shape = "timers"
    <3>1. pc'[o] = Steps.timers[c] BY <1>3, <2>1
    <3> QED BY <1>2, <1>3, <2>1, <3>1 DEF Done, Switched, Steps
  <2>2. CASE scope.shape = "systemd"
    <3>1. pc'[o] = Steps.systemd[c] /\ c \in CommandsOf.systemd BY <1>3, <2>2
    <3> QED BY <1>2, <1>3, <2>2, <3>1 DEF Done, Switched, Steps, CommandsOf
  <2>3. CASE scope.shape = "compose" BY <1>3, <2>3 DEF CommandsOf
  <2> QED BY <1>3, <2>1, <2>2, <2>3 DEF Shapes
<1>6. ASSUME scope.shape = "timers", NEW j \in declared, Running(j)'
      PROVE  /\ Following(o) \in {"write", "create", "copy", "aside"} =>
                    runs'[j].during \in {"write", "create", "copy", "aside"}
             /\ Following(o) = "switch" => runs'[j].during = "switch"
  <2>1. Running(j) /\ c \notin {"check", "recheck"} BY <1>6 DEF Running
  <2>2. Following(o) = Steps.timers[c] BY <1>3, <1>6
  <2>3. c \in {"write", "create", "copy", "aside"} =>
            runs[j].during \in {"write", "create", "copy", "aside"}
    <3>1. RunsFiredSince /\ InScript(o) BY <1>2, InvIs, AtACommand
    <3> QED BY <1>2, <1>6, <2>1, <3>1 DEF RunsFiredSince
  <2> QED BY <2>1, <2>2, <2>3 DEF Steps
<1> QED BY <1>2, <1>3, <1>4, <1>5, <1>6, ApplyRuns

\* The commands that change what the host has.
LEMMA HostRuns ==
    ASSUME ScriptInv, NEW o \in Operators,
           NEW c \in {"write", "aside", "place", "switch", "reload", "restart", "up"},
           Runs(o, c), UNCHANGED <<carriers, sandbox, left>>, HostOK',
           \A a \in Artefacts : c \in {"write", "place"} => (releases[a].payload => releases'[a].payload),
           c = "write" /\ scope.shape = "compose" => releases'[Subject(o)].payload,
           c = "place" => releases'[Subject(o)].payload,
           c \notin {"write", "aside", "place"} => releases' = releases,
           IF c = "switch" THEN current' = Subject(o) ELSE current' = current,
           IF c = "reload" THEN loaded' = Linked ELSE loaded' = loaded,
           armed \subseteq armed',
           c = "restart" => runs'[Service].release \in {current} \/ scope.shape = "timers",
           c = "up" => runs'[Service].release = Subject(o),
           c = "switch" => runs' = runs \/ scope.shape = "timers",
           c = "write" => runs' = runs
    PROVE  ScriptInv'
<1>1. HostOK BY InvIs
<1>2. pc[o] = c /\ c \in Commands \ CommandsOf.restore BY ApplyNames DEF Runs
<1>3. /\ flow[o].stage # "restore" /\ Subject(o) \in Artefacts
      /\ scope.shape \in Shapes /\ c \in CommandsOf[scope.shape]
      /\ Following(o) = Steps[scope.shape][c] /\ Done(o)
      /\ pc'[o] = Following(o) /\ Subject(o)' = Subject(o)
      /\ UNCHANGED <<scope, declared, overridden, exited>>
  BY <1>2, ApplyAt
<1>4. Done(o)'
  <2>1. CASE scope.shape = "timers"
    <3>1. pc'[o] = Steps.timers[c] /\ c \in CommandsOf.timers BY <1>3, <2>1
    <3> QED BY <1>2, <1>3, <2>1, <3>1 DEF Done, Switched, Steps, CommandsOf
  <2>2. CASE scope.shape = "systemd"
    <3>1. pc'[o] = Steps.systemd[c] /\ c \in CommandsOf.systemd BY <1>3, <2>2
    <3> QED BY <1>2, <1>3, <2>2, <3>1 DEF Done, Switched, Steps, CommandsOf
  <2>3. CASE scope.shape = "compose"
    <3>1. pc'[o] = Steps.compose[c] /\ c \in CommandsOf.compose BY <1>3, <2>3
    <3> QED BY <1>2, <1>3, <2>3, <3>1 DEF Done, Steps, CommandsOf
  <2> QED BY <1>3, <2>1, <2>2, <2>3 DEF Shapes
<1>5. ASSUME scope.shape = "timers", NEW j \in declared, Running(j)'
      PROVE  /\ Following(o) \in {"write", "create", "copy", "aside"} =>
                    runs'[j].during \in {"write", "create", "copy", "aside"}
             /\ Following(o) = "switch" => runs'[j].during = "switch"
  <2>1. Following(o) = Steps.timers[c] /\ c \in CommandsOf.timers BY <1>3, <1>5
  <2>2. c = "write" => runs[j].during \in {"write", "create", "copy", "aside"}
    <3>1. RunsFiredSince /\ InScript(o) BY <1>2, InvIs, AtACommand
    <3> QED BY <1>2, <1>5, <3>1 DEF RunsFiredSince, Running
  <2> QED BY <1>5, <2>1, <2>2 DEF Steps, CommandsOf
<1> QED BY <1>2, <1>3, <1>4, <1>5, ApplyRuns

LEMMA RunTypes ==
    ASSUME HostOK
    PROVE  /\ \A j \in Jobs : runs[j] \in RunRecords
           /\ \A S : MixedFrom(S) \in [Jobs -> RunRecords]
<1>1. \A j \in Jobs : runs[j] \in RunRecords
  BY DEF HostOK
<1> QED BY <1>1 DEF MixedFrom, RunRecords

LEMMA CommandsKeep ==
    ASSUME ScriptInv, NEW o \in Operators,
           \/ Check(o, "check") \/ Write(o) \/ Create(o) \/ Copy(o) \/ Aside(o) \/ Place(o)
           \/ Check(o, "recheck") \/ Switch(o) \/ Reload(o) \/ Loaded(o) \/ Restart(o)
           \/ Active(o) \/ Up(o)
    PROVE  ScriptInv'
<1>1. HostOK /\ FlowOK BY InvIs
<1>2. \A c \in {"write", "up", "switch", "create", "copy", "place", "reload", "loaded", "restart",
                "active", "check", "aside", "recheck"} :
          pc[o] = c => /\ c \in Commands /\ Subject(o) \in Artefacts
                       /\ scope.shape \in Shapes /\ c \in CommandsOf[scope.shape]
  BY ApplyNames, ApplyAt
<1>3. ASSUME NEW c, Runs(o, c) PROVE pc[o] = c /\ UNCHANGED <<declared, overridden, exited>>
  BY <1>3 DEF Runs
<1>4. ASSUME NEW c \in {"check", "recheck"}, Check(o, c) PROVE ScriptInv'
  <2>1. CASE \E j \in declared : Running(j)
    <3>1. Exits1(o, c) BY <1>4, <2>1 DEF Check
    <3>2. c \in Commands BY <1>2, <3>1 DEF Exits1
    <3> QED BY <3>1, <3>2, Exits1Keeps
  <2>2. CASE ~\E j \in declared : Running(j)
    <3>1. Runs(o, c)
          /\ UNCHANGED <<releases, current, switches, loaded, armed, runs, carriers, sandbox, left>>
      BY <1>4, <2>2 DEF Check
    <3> QED BY <2>2, <3>1, QuietRuns
  <2> QED BY <2>1, <2>2
<1>5. ASSUME Create(o) PROVE ScriptInv'
  <2>1. carriers' \subseteq carriers \cup {o} /\ Runs(o, "create")
        /\ UNCHANGED <<releases, current, switches, loaded, armed, runs, sandbox, left>>
    BY <1>5 DEF Create
  <2> QED BY <2>1, QuietRuns
<1>6. ASSUME Copy(o) PROVE ScriptInv' BY <1>6, QuietRuns DEF Copy
<1>7. ASSUME Loaded(o) PROVE ScriptInv'
  <2>1. CASE \E j \in declared : j \in overridden \/ loaded[j] # Subject(o)
    <3>1. Exits1(o, "loaded") BY <1>7, <2>1 DEF Loaded
    <3>2. "loaded" \in Commands BY <1>2, <3>1 DEF Exits1
    <3> QED BY <3>1, <3>2, Exits1Keeps
  <2>2. CASE ~\E j \in declared : j \in overridden \/ loaded[j] # Subject(o)
    <3>1. Runs(o, "loaded")
          /\ UNCHANGED <<releases, current, switches, loaded, armed, runs, carriers, sandbox, left>>
      BY <1>7, <2>2 DEF Loaded
    <3> QED BY <2>2, <3>1, QuietRuns
  <2> QED BY <2>1, <2>2
<1>8. ASSUME Active(o) PROVE ScriptInv'
  <2>1. CASE Exits1(o, "active")
    <3>1. "active" \in Commands BY <1>2, <2>1 DEF Exits1
    <3> QED BY <2>1, <3>1, Exits1Keeps
  <2>2. CASE ~Exits1(o, "active")
    <3>1. /\ Runs(o, "active")
          /\ UNCHANGED <<releases, current, switches, loaded, armed, runs, carriers, sandbox, left>>
          /\ scope.shape = "timers" => declared \subseteq armed
      BY <1>8, <2>2 DEF Active
    <3> QED BY <3>1, QuietRuns
  <2> QED BY <2>1, <2>2
<1>9. ASSUME Write(o) PROVE ScriptInv'
  <2>1. Runs(o, "write") /\ Subject(o) \in Artefacts
        /\ UNCHANGED <<current, switches, loaded, armed, runs, carriers, sandbox, left>>
    BY <1>2, <1>3, <1>9 DEF Write
  <2>2. /\ \A a \in Artefacts : a # Subject(o) => releases'[a] = releases[a]
        /\ releases'[Subject(o)].payload = (releases[Subject(o)].payload \/ scope.shape = "compose")
    BY <1>1, <1>9, <2>1 DEF Write, HostOK
  <2>3. releases' \in [Artefacts -> [units : SUBSET Jobs, payload : BOOLEAN]]
    <3> DEFINE r == [releases[Subject(o)] EXCEPT !.units = @ \cup declared,
                                                !.payload = @ \/ scope.shape = "compose"]
    <3>1. /\ releases \in [Artefacts -> [units : SUBSET Jobs, payload : BOOLEAN]]
          /\ declared \subseteq Jobs
      BY <1>1 DEF HostOK
    <3>2. releases[Subject(o)] \in [units : SUBSET Jobs, payload : BOOLEAN]
      BY <2>1, <3>1
    <3>3. r \in [units : SUBSET Jobs, payload : BOOLEAN] BY <3>1, <3>2
    <3>4. releases' = [releases EXCEPT ![Subject(o)] = r] BY <1>9, <2>1, <3>1 DEF Write
    <3> HIDE DEF r
    <3> QED BY <3>1, <3>3, <3>4
  <2>4. HostOK' BY <1>1, <1>3, <2>1, <2>3 DEF HostOK
  <2>5. \A a \in Artefacts : releases[a].payload => releases'[a].payload BY <2>2
  <2>6. scope.shape = "compose" => releases'[Subject(o)].payload BY <2>1, <2>2
  <2> QED BY <2>1, <2>4, <2>5, <2>6, HostRuns
<1>10. ASSUME Aside(o) PROVE ScriptInv'
  <2>1. Runs(o, "aside") /\ UNCHANGED <<current, switches, loaded, armed, carriers, sandbox, left>>
    BY <1>10 DEF Aside
  <2>2. releases' \in [Artefacts -> [units : SUBSET Jobs, payload : BOOLEAN]]
    BY <1>1, <1>10 DEF Aside, HostOK
  <2>3. runs' \in [Jobs -> RunRecords]
    BY <1>1, <1>10, RunTypes DEF Aside
  <2>4. HostOK' BY <1>1, <1>3, <2>1, <2>2, <2>3 DEF HostOK
  <2> QED BY <2>1, <2>4, HostRuns
<1>11. ASSUME Place(o) PROVE ScriptInv'
  <2>1. Runs(o, "place") /\ Subject(o) \in Artefacts
        /\ UNCHANGED <<current, switches, loaded, armed, runs, carriers, sandbox, left>>
    BY <1>2, <1>3, <1>11 DEF Place
  <2>2. /\ releases' \in [Artefacts -> [units : SUBSET Jobs, payload : BOOLEAN]]
        /\ releases'[Subject(o)].payload
        /\ \A a \in Artefacts : releases[a].payload => releases'[a].payload
    BY <1>1, <1>11, <2>1 DEF Place, HostOK
  <2>3. HostOK' BY <1>1, <1>3, <2>1, <2>2 DEF HostOK
  <2> QED BY <2>1, <2>2, <2>3, HostRuns
<1>12. ASSUME Switch(o) PROVE ScriptInv'
  <2>1. Runs(o, "switch") /\ Subject(o) \in Artefacts /\ current' = Subject(o)
        /\ UNCHANGED <<releases, loaded, armed, carriers, sandbox, left>>
    BY <1>2, <1>3, <1>12 DEF Switch
  <2>2. runs' = runs \/ (scope.shape = "timers" /\ \E S : runs' = MixedFrom(S))
    BY <1>12 DEF Switch
  <2>3. switches' \in Nat BY <1>1, <1>12 DEF Switch, HostOK
  <2>4. HostOK' BY <1>1, <1>3, <2>1, <2>2, <2>3, RunTypes DEF HostOK, Releases
  <2> QED BY <2>1, <2>2, <2>4, HostRuns
<1>13. ASSUME Reload(o) PROVE ScriptInv'
  <2>1. Runs(o, "reload") /\ loaded' = Linked
        /\ UNCHANGED <<releases, current, switches, armed, runs, carriers, sandbox, left>>
    BY <1>13 DEF Reload
  <2>2. Linked \in [Jobs -> Releases] BY <1>1 DEF Linked, HostOK, Releases
  <2>3. HostOK' BY <1>1, <1>3, <2>1, <2>2 DEF HostOK
  <2> QED BY <2>1, <2>3, HostRuns
<1>14. \A r \in Releases : [NoRun EXCEPT !.release = r] \in RunRecords BY DEF NoRun, RunRecords
<1>15. ASSUME Restart(o) PROVE ScriptInv'
  <2>1. Runs(o, "restart") /\ UNCHANGED <<releases, current, switches, loaded, carriers, sandbox, left>>
    BY <1>15 DEF Restart
  <2>2. CASE scope.shape = "timers"
    <3>1. armed' = armed \cup declared /\ runs' = runs BY <1>15, <2>2 DEF Restart
    <3>2. HostOK' BY <1>1, <1>3, <2>1, <3>1 DEF HostOK
    <3> QED BY <2>1, <2>2, <3>1, <3>2, HostRuns
  <2>3. CASE scope.shape # "timers"
    <3>1. runs' = [runs EXCEPT ![Service] = [NoRun EXCEPT !.release = current]] /\ armed' = armed
      BY <1>15, <2>3 DEF Restart
    <3>2. HostOK' BY <1>1, <1>3, <1>14, <2>1, <3>1 DEF HostOK
    <3>3. runs'[Service].release = current
      BY <1>1, <3>1, HostAssumption DEF HostOK, NoRun
    <3> QED BY <2>1, <3>1, <3>2, <3>3, HostRuns
  <2> QED BY <2>2, <2>3
<1>16. ASSUME Up(o) PROVE ScriptInv'
  <2>1. Runs(o, "up") /\ UNCHANGED <<releases, current, switches, loaded, armed, carriers, sandbox, left>>
        /\ runs' = [runs EXCEPT ![Service] = [NoRun EXCEPT !.release = Subject(o)]]
    BY <1>16 DEF Up
  <2>2. Subject(o) \in Releases BY <1>2, <1>3, <2>1 DEF Releases
  <2>3. HostOK' BY <1>1, <1>3, <1>14, <2>1, <2>2 DEF HostOK
  <2>4. runs'[Service].release = Subject(o)
    BY <1>1, <2>1, HostAssumption DEF HostOK, NoRun
  <2> QED BY <2>1, <2>3, <2>4, HostRuns
<1> QED BY <1>4, <1>5, <1>6, <1>7, <1>8, <1>9, <1>10, <1>11, <1>12, <1>13, <1>15, <1>16

LEMMA RestoresKeep ==
    ASSUME ScriptInv, NEW o \in Operators, Restores(o) \/ Clean(o)
    PROVE  ScriptInv'
<1>1. HostOK /\ FlowOK BY InvIs
<1>2. PICK c \in CommandsOf.restore :
          /\ Runs(o, c)
          /\ UNCHANGED <<releases, current, switches, loaded, armed, runs, carriers, left>>
          /\ sandbox' = [sandbox EXCEPT ![o] = IF c = "clean" THEN {} ELSE @ \cup ({c} \cap Objects)]
  BY DEF Restores, Clean, CommandsOf
<1>3. pc[o] = c /\ pc' = [pc EXCEPT ![o] = Following(o)]
      /\ UNCHANGED <<scope, declared, overridden, exited, lock, flow, ledger, started>>
  BY <1>2 DEF Runs
<1>4. c \in Commands BY CommandNames DEF Keys
<1>5. flow[o].stage = "restore" /\ Key(o) = "restore"
  <2>1. Key(o) \in Keys /\ c \in CommandsOf[Key(o)] /\ (Key(o) = "restore" <=> flow[o].stage = "restore")
    BY <1>3, <1>4, AtACommand
  <2> QED BY <2>1, CommandNames DEF Keys
<1>6. scope.shape = "compose" BY <1>3, <1>4, <1>5, InvIs DEF FlowsKnow
<1>7. Following(o) = Steps.restore[c] /\ Following(o) \in CommandsOf[Key(o)] \cup {"trap", "exit"}
  BY <1>3, <1>4, <1>5, AtACommand
<1>8. HostOK' BY <1>1, <1>2, <1>3 DEF HostOK
<1>9. sandbox' \in [Operators -> SUBSET Objects]
      /\ \A p \in Operators : p # o => sandbox'[p] = sandbox[p]
  BY <1>1, <1>2 DEF FlowOK, Objects
<1>10. Following(o) = "exit" => sandbox'[o] = {}
  BY <1>1, <1>2, <1>7 DEF Steps, CommandsOf, FlowOK
<1>11. lock' = o /\ pc[o] # "idle" /\ \A p \in Operators : p # o => ~InScript(p)
  BY <1>3, <1>4, AtACommand
<1>12. /\ carriers' \subseteq Operators /\ o \notin carriers' /\ left' \subseteq Left
       /\ ~scope.kills /\ ~scope.reboots => left' \subseteq Stuck
  BY <1>1, <1>2, <1>3, <1>4, <1>5, AtACommand DEF FlowOK
<1> QED BY <1>2, <1>3, <1>5, <1>6, <1>7, <1>8, <1>9, <1>10, <1>11, <1>12, ScriptGoesOn

LEMMA TakeLockKeeps ==
    ASSUME ScriptInv, NEW o \in Operators, TakeLock(o)
    PROVE  ScriptInv'
<1>1. HostOK /\ FlowOK /\ OneScript BY InvIs
<1>2. \A p \in Operators : ~InScript(p)
  BY <1>1, HostAssumption DEF TakeLock, OneScript
<1>3. pc[o] = "ready" /\ lock' = o /\ pc' = [pc EXCEPT ![o] = ScriptOf(o)[1]]
      /\ UNCHANGED <<scope, host, carriers, sandbox, left, flow, ledger, started>>
  BY DEF TakeLock
<1>4. ScriptOf(o)[1] = IF Key(o) = "restore" THEN "prove"
                       ELSE IF Key(o) = "timers" THEN "check" ELSE "write"
  <2>1. Key(o) \in Keys BY <1>1, ScopeTypes
  <2>2. ScriptOf(o) = Scripts[Key(o)] BY DEF ScriptOf, Key
  <2> QED BY <2>1, <2>2 DEF Keys, Scripts
<1>5. ScriptOf(o)[1] \in CommandsOf[Key(o)]
  <2>1. Key(o) \in Keys BY <1>1, ScopeTypes
  <2> QED BY <1>4, <2>1 DEF Keys, CommandsOf
<1>6. HostOK' BY <1>1, <1>3 DEF HostOK, host
<1>7. pc'[o] \in {"prove", "check", "write"} BY <1>1, <1>3, <1>4 DEF FlowOK
<1>8. Done(o)' BY <1>7 DEF Done, Switched
<1>9. /\ sandbox'[o] = {} /\ o \notin carriers' /\ left' \subseteq Left
      /\ ~scope.kills /\ ~scope.reboots => left' \subseteq Stuck
  BY <1>1, <1>2, <1>3, InvIs DEF SandboxesAreOwn, FlowOK
<1>10. scope.shape = "timers" => ScriptOf(o)[1] \in {"prove", "check"}
  BY <1>4 DEF Key
<1>11. carriers' \subseteq Operators /\ sandbox' \in [Operators -> SUBSET Objects]
       /\ \A p \in Operators : p # o => sandbox'[p] = sandbox[p]
  BY <1>1, <1>3 DEF FlowOK
<1> QED BY <1>2, <1>3, <1>5, <1>6, <1>8, <1>9, <1>10, <1>11, ScriptGoesOn

-----------------------------------------------------------------------------
(* The steps together.                                                     *)

LEMMA Initially ==
    ASSUME Init
    PROVE  ScriptInv
<1>1. \A a \in Artefacts : Manifest(a) \subseteq Jobs BY HostAssumption DEF Manifest
<1>2. NoRun \in RunRecords /\ NotWell \in [at : Nat, after : Nat]
  BY DEF NoRun, NotWell, Releases, RunRecords
<1>3. HostOK BY <1>1, <1>2 DEF Init, HostOK, Releases
<1>4. NoFlow \in Flows /\ NoFlow.stage = "idle" BY DEF NoFlow, Flows, Stages, Releases
<1>5. /\ scope \in Scopes /\ lock = Nothing /\ carriers = {} /\ left = {}
      /\ ledger = <<>> /\ started = 0
      /\ sandbox = [o \in Operators |-> {}] /\ flow = [o \in Operators |-> NoFlow]
      /\ pc = [o \in Operators |-> "idle"]
  BY DEF Init
<1>6. FlowOK BY <1>4, <1>5, HostAssumption DEF FlowOK
<1>7. \A o \in Operators : pc[o] = "idle" /\ ~InScript(o) /\ flow[o] = NoFlow /\ sandbox[o] = {}
  BY <1>5 DEF InScript
<1>8. OneScript BY <1>5, <1>7, HostAssumption DEF OneScript
<1>9. FlowsKnow BY <1>4, <1>7 DEF FlowsKnow
<1>10. AppliesInOrder /\ RunsFiredSince BY <1>7 DEF AppliesInOrder, RunsFiredSince
<1>11. SandboxesAreOwn BY <1>5, <1>7 DEF SandboxesAreOwn
<1> QED BY <1>3, <1>6, <1>8, <1>9, <1>10, <1>11, InvIs

LEMMA ScriptStep ==
    ASSUME ScriptInv, [Next]_vars
    PROVE  ScriptInv'
<1>1. CASE UNCHANGED vars
  <2>1. HostOK' BY <1>1, InvIs DEF vars, host, HostOK
  <2>2. FlowOK' BY <1>1, InvIs DEF vars, FlowOK
  <2>3. OneScript' BY <1>1, InvIs DEF vars, OneScript, InScript, Key
  <2>4. FlowsKnow' BY <1>1, InvIs DEF vars, FlowsKnow, Subject
  <2>5. AppliesInOrder'
    BY <1>1, InvIs DEF vars, host, AppliesInOrder, Done, InScript, Subject
  <2>6. SandboxesAreOwn' BY <1>1, InvIs DEF vars, SandboxesAreOwn, Stuck, InScript
  <2>7. RunsFiredSince' BY <1>1, InvIs DEF vars, host, RunsFiredSince, InScript, Running
  <2> QED BY <2>1, <2>2, <2>3, <2>4, <2>5, <2>6, <2>7, InvThen
<1>2. ASSUME NEW o \in Operators, Progress(o) PROVE ScriptInv'
  BY <1>2, OutsideKeeps, TakeLockKeeps, CommandsKeep, RestoresKeep, FailsKeep, EndsKeep
     DEF Progress
<1>3. CASE \/ \E j \in Jobs : Fire(j) \/ RunEnds(j) \/ Override(j)
           \/ ServiceDies
           \/ \E a \in Artefacts : Checkout(a)
  BY <1>3, HostKeeps
<1>4. CASE Reboot BY <1>4, RebootKeeps
<1>5. ASSUME NEW o \in Operators, Start(o) PROVE ScriptInv' BY <1>5, StartKeeps
<1>6. ASSUME NEW o \in Operators, Kill(o) PROVE ScriptInv' BY <1>6, EndsKeep
<1> QED BY <1>1, <1>2, <1>3, <1>4, <1>5, <1>6 DEF Next

LEMMA Inductive == Spec => []ScriptInv
<1> QED BY Initially, ScriptStep, PTL DEF Spec

\* Runs that see two releases are those Aside and Switch disturb.
Disturbs ==
    \E o \in Operators :
        \/ pc[o] = "aside" /\ Aside(o)
        \/ pc[o] = "switch" /\ scope.shape = "timers" /\ runs' = MixedFrom(Artefacts \ {Subject(o)})

LEMMA OthersDisturbNothing ==
    ASSUME ScriptInv, [Next]_vars, ~Disturbs
    PROVE  \A j \in Jobs : runs'[j] = runs[j] \/ runs'[j].mixed = FALSE
<1>1. HostOK BY InvIs
<1>2. ASSUME UNCHANGED runs PROVE \A j \in Jobs : runs'[j] = runs[j] BY <1>2
<1>3. ASSUME NEW r, runs' = [runs EXCEPT ![Service] = [NoRun EXCEPT !.release = r]]
      PROVE  \A j \in Jobs : runs'[j] = runs[j] \/ runs'[j].mixed = FALSE
  BY <1>1, <1>3 DEF HostOK, NoRun
<1>4. ASSUME NEW j \in Jobs, Fire(j) \/ RunEnds(j) \/ Override(j)
      PROVE  \A k \in Jobs : runs'[k] = runs[k] \/ runs'[k].mixed = FALSE
  <2>1. CASE Fire(j) BY <1>1, <2>1 DEF Fire, HostOK
  <2>2. CASE RunEnds(j) BY <1>1, <2>2 DEF RunEnds, HostOK, NoRun
  <2>3. CASE Override(j) BY <2>3 DEF Override
  <2> QED BY <1>4, <2>1, <2>2, <2>3
<1>5. CASE ServiceDies BY <1>3, <1>5 DEF ServiceDies
<1>6. CASE Reboot
  <2>1. PICK r : runs' = [j \in Jobs |-> IF j = Service THEN [NoRun EXCEPT !.release = r] ELSE NoRun]
    BY <1>6 DEF Reboot
  <2> QED BY <2>1 DEF NoRun
<1>7. ASSUME NEW a \in Artefacts, Checkout(a) PROVE UNCHANGED runs BY <1>7 DEF Checkout
<1>8. ASSUME NEW o \in Operators, Start(o) \/ Kill(o) PROVE UNCHANGED runs
  BY <1>8 DEF Start, StartForward, StartBack, Begin, Kill, host
<1>9. ASSUME NEW o \in Operators, Progress(o)
      PROVE  \A j \in Jobs : runs'[j] = runs[j] \/ runs'[j].mixed = FALSE
  <2>1. CASE Refused(o) \/ TakeLock(o) \/ FindLocked(o) \/ Trap(o) \/ Exit(o) \/ Verify(o)
    BY <2>1 DEF Refused, TakeLock, FindLocked, Trap, Exit, Verify, host
  <2>2. CASE \/ Check(o, "check") \/ Check(o, "recheck") \/ Loaded(o) \/ Active(o)
    BY <2>2 DEF Check, Loaded, Active, Exits1, host
  <2>3. CASE \/ Write(o) \/ Create(o) \/ Copy(o) \/ Place(o) \/ Reload(o) \/ Restores(o) \/ Clean(o)
    BY <2>3 DEF Write, Create, Copy, Place, Reload, Restores, Clean
  <2>4. CASE Aside(o) BY <2>4 DEF Aside, Runs, Disturbs
  <2>5. CASE Switch(o) BY <2>5 DEF Switch, Runs, Disturbs
  <2>6. CASE Restart(o) BY <1>3, <2>6 DEF Restart
  <2>7. CASE Up(o) BY <1>3, <2>7 DEF Up
  <2>8. CASE CommandFails(o)
    <3>1. runs' = runs \/ runs' = [runs EXCEPT ![Service] = NoRun] BY <2>8 DEF CommandFails
    <3> QED BY <1>1, <3>1 DEF HostOK, NoRun
  <2> QED BY <1>9, <2>1, <2>2, <2>3, <2>4, <2>5, <2>6, <2>7, <2>8 DEF Progress
<1>10. CASE UNCHANGED vars BY <1>10 DEF vars, host
<1> QED BY <1>4, <1>5, <1>6, <1>7, <1>8, <1>9, <1>10 DEF Next

LEMMA MixedStep ==
    ASSUME ScriptInv, [Next]_vars, NEW j \in declared, ~runs[j].mixed, runs'[j].mixed
    PROVE  runs[j].during \in (IF AtCommand = "switch" THEN {"switch"}
                               ELSE {"write", "create", "copy", "aside"})
<1>1. HostOK /\ j \in Jobs BY InvIs DEF HostOK
<1>2. runs'[j] # runs[j] /\ runs'[j].mixed # FALSE OBVIOUS
<1>3. Disturbs BY <1>1, <1>2, OthersDisturbNothing
<1>4. PICK o \in Operators :
          \/ pc[o] = "aside" /\ Aside(o)
          \/ pc[o] = "switch" /\ scope.shape = "timers" /\ runs' = MixedFrom(Artefacts \ {Subject(o)})
  BY <1>3 DEF Disturbs
<1>5. pc[o] \in {"aside", "switch"} /\ pc[o] \in Commands BY <1>4, ApplyNames
<1>6. InScript(o) /\ lock = o /\ Subject(o) \in Artefacts BY <1>5, AtACommand
<1>7. AtCommand = pc[o] BY <1>6, HostAssumption DEF AtCommand
<1>8. scope.shape = "timers"
  <2>1. CASE pc[o] = "aside"
    <3>1. scope.shape \in Shapes /\ "aside" \in CommandsOf[scope.shape] BY <2>1, ApplyNames, ApplyAt
    <3> QED BY <3>1 DEF Shapes, CommandsOf
  <2> QED BY <1>4, <2>1
<1>9. Running(j)
  <2>1. PICK S \in SUBSET Artefacts : runs' = MixedFrom(S) BY <1>4, <1>6 DEF Aside
  <2>2. runs[j].release \in S BY <1>1, <1>2, <2>1 DEF MixedFrom
  <2> QED BY <2>2, HostAssumption DEF Running, NoRun
<1>10. RunsFiredSince BY InvIs
<1> QED BY <1>5, <1>6, <1>7, <1>8, <1>9, <1>10 DEF RunsFiredSince

-----------------------------------------------------------------------------
(* What the gate reads of the runs.                                        *)

\* While the manifest stays: a run of a declared service has every switch behind
\* it, at the command `switch` the next one too; a service that ended well did
\* so after what was recorded then, and every record knows of no later switch.
RunsAreRecent ==
    scope.shape = "timers" /\ "manifest" \notin scope.edits =>
        /\ \A j \in declared : Running(j) => switches <= runs[j].after
        /\ \A j \in declared, o \in Operators :
               Running(j) /\ pc[o] = "switch" => switches + 1 <= runs[j].after
        /\ \A j \in declared :
               /\ exited[j].at <= Len(ledger)
               /\ \A i \in 1..exited[j].at : ledger[i].by <= exited[j].after
        /\ \A i \in 1..Len(ledger) : ledger[i].by <= switches

\* The ledger of a step: the same, or with one record of the present switches.
LedgerGrows ==
    \/ ledger' = ledger
    \/ \E a, m : ledger' = Append(ledger, [artefact |-> a, mode |-> m, by |-> switches])

LEMMA LedgerBy ==
    ASSUME FlowOK
    PROVE  Len(ledger) \in Nat /\ \A i \in 1..Len(ledger) : ledger[i].by \in Nat
<1>1. ledger \in Seq(Records) BY DEF FlowOK
<1>2. \A i \in 1..Len(ledger) : ledger[i] \in Records BY <1>1
<1>3. \A x \in Records : x.by \in Nat BY DEF Records
<1> QED BY <1>1, <1>2, <1>3

LEMMA GrownLedger ==
    ASSUME FlowOK, HostOK, LedgerGrows
    PROVE  /\ Len(ledger) \in Nat /\ Len(ledger') \in Nat /\ Len(ledger) <= Len(ledger')
           /\ \A i \in 1..Len(ledger) : ledger'[i] = ledger[i] /\ ledger[i].by \in Nat
           /\ \A i \in 1..Len(ledger') : i > Len(ledger) => ledger'[i].by = switches
<1>1. /\ ledger \in Seq(Records) /\ Len(ledger) \in Nat
      /\ \A i \in 1..Len(ledger) : ledger[i].by \in Nat
  BY LedgerBy DEF FlowOK
<1>2. CASE ledger' = ledger BY <1>1, <1>2
<1>3. CASE ledger' # ledger
  <2>1. PICK a, m : ledger' = Append(ledger, [artefact |-> a, mode |-> m, by |-> switches])
    BY <1>3 DEF LedgerGrows
  <2> DEFINE new == [artefact |-> a, mode |-> m, by |-> switches]
  <2>2. ledger' = Append(ledger, new) /\ new.by = switches BY <2>1
  <2> HIDE DEF new
  <2>3. /\ Len(ledger') = Len(ledger) + 1 /\ ledger'[Len(ledger) + 1] = new
        /\ \A i \in 1..Len(ledger) : ledger'[i] = ledger[i]
    BY <1>1, <2>2
  <2> QED BY <1>1, <2>2, <2>3
<1> QED BY <1>2, <1>3

\* How a flow goes on when its script has ended.
LEMMA FlowsRecord ==
    ASSUME ScriptInv, NEW o \in Operators, pc[o] # "idle", Succeed(o) \/ Fail(o)
    PROVE  LedgerGrows /\ (EndFlow(o) \/ \E stage : Continue(o, stage))
<1>1. flow[o].stage \in Stages \ {"idle"} BY InvIs DEF FlowOK, Flows, FlowsKnow
<1>2. CASE Fail(o) BY <1>2 DEF Fail, Record, LedgerGrows
<1>3. CASE Succeed(o)
  <2>1. CASE flow[o].stage = "deploy" BY <1>3, <2>1 DEF Succeed, Record, LedgerGrows
  <2>2. CASE flow[o].stage = "drill_forward" BY <1>3, <2>2 DEF Succeed, Record, LedgerGrows
  <2>3. CASE flow[o].stage \in {"put_back", "roll_back"}
    BY <1>3, <2>3 DEF Succeed, Record, LedgerGrows
  <2>4. CASE flow[o].stage = "drill_back" BY <1>3, <2>4 DEF Succeed, LedgerGrows
  <2>5. CASE flow[o].stage = "restore" BY <1>3, <2>5 DEF Succeed, LedgerGrows
  <2> QED BY <1>1, <2>1, <2>2, <2>3, <2>4, <2>5 DEF Stages
<1> QED BY <1>2, <1>3

\* A step that moves nothing under `current` and brings no script to `switch`.
LEMMA RecentStays ==
    ASSUME ScriptInv, RunsAreRecent, LedgerGrows, UNCHANGED <<scope, declared, switches>>,
           \A j \in declared : ~Running(j)' \/ (Running(j) /\ runs'[j].after = runs[j].after),
           \A j \in declared : exited'[j] = exited[j] \/ exited'[j] = NotWell,
           \A o \in Operators, j \in declared :
               pc'[o] = "switch" /\ Running(j)' => pc[o] = "switch"
    PROVE  RunsAreRecent'
<1>1. HostOK /\ FlowOK BY InvIs
<1>2. /\ Len(ledger) \in Nat /\ Len(ledger') \in Nat /\ Len(ledger) <= Len(ledger')
      /\ \A i \in 1..Len(ledger) : ledger'[i] = ledger[i] /\ ledger[i].by \in Nat
      /\ \A i \in 1..Len(ledger') : i > Len(ledger) => ledger'[i].by = switches
  BY <1>1, GrownLedger
<1>3. SUFFICES ASSUME scope.shape = "timers", "manifest" \notin scope.edits
      PROVE /\ \A j \in declared : Running(j)' => switches <= runs'[j].after
            /\ \A j \in declared, o \in Operators :
                   Running(j)' /\ pc'[o] = "switch" => switches + 1 <= runs'[j].after
            /\ \A j \in declared :
                   /\ exited'[j].at <= Len(ledger')
                   /\ \A i \in 1..exited'[j].at : ledger'[i].by <= exited'[j].after
            /\ \A i \in 1..Len(ledger') : ledger'[i].by <= switches
  BY DEF RunsAreRecent
<1>4. /\ \A j \in declared : Running(j) => switches <= runs[j].after
      /\ \A j \in declared, o \in Operators :
             Running(j) /\ pc[o] = "switch" => switches + 1 <= runs[j].after
      /\ \A j \in declared :
             /\ exited[j].at <= Len(ledger)
             /\ \A i \in 1..exited[j].at : ledger[i].by <= exited[j].after
      /\ \A i \in 1..Len(ledger) : ledger[i].by <= switches
  BY <1>3 DEF RunsAreRecent
<1>5. switches \in Nat /\ \A j \in declared : exited[j].at \in Nat BY <1>1 DEF HostOK
<1>6. ASSUME NEW j \in declared
      PROVE  /\ exited'[j].at <= Len(ledger')
             /\ \A i \in 1..exited'[j].at : ledger'[i].by <= exited'[j].after
  <2>1. CASE exited'[j] = NotWell BY <1>2, <2>1 DEF NotWell
  <2>2. CASE exited'[j] = exited[j] BY <1>2, <1>4, <1>5, <2>2
  <2> QED BY <2>1, <2>2
<1>7. \A i \in 1..Len(ledger') : ledger'[i].by <= switches BY <1>2, <1>4, <1>5
<1> QED BY <1>4, <1>6, <1>7

\* A step that leaves the runs and the flows alone.
LEMMA RecentHost ==
    ASSUME ScriptInv, RunsAreRecent, NEW j \in Jobs, Fire(j) \/ RunEnds(j) \/ Override(j)
    PROVE  RunsAreRecent'
<1>1. HostOK /\ FlowOK BY InvIs
<1>2. UNCHANGED <<scope, declared, switches, ledger, pc>> /\ LedgerGrows
  BY DEF Fire, RunEnds, Override, LedgerGrows
<1>3. switches \in Nat /\ declared \subseteq Jobs /\ Len(ledger) \in Nat
  BY <1>1 DEF HostOK, FlowOK
<1>4. CASE Override(j) BY <1>2, <1>4, RecentStays DEF Override, Running
<1>5. CASE Fire(j) /\ runs' = runs
  <2>1. \A k \in declared : exited'[k] = exited[k] \/ exited'[k] = NotWell
    BY <1>1, <1>3, <1>5 DEF Fire, HostOK
  <2> QED BY <1>2, <1>5, <2>1, RecentStays DEF Running
<1>6. CASE Fire(j) /\ runs' # runs
  <2>1. /\ runs' = [runs EXCEPT ![j] = [release |-> current, mixed |-> FALSE,
                                         after |-> Behind, during |-> AtCommand]]
        /\ exited' = exited
    BY <1>6 DEF Fire
  <2>2. Behind \in Nat /\ switches <= Behind BY <1>3 DEF Behind
  <2>3. \A o \in Operators : pc[o] = "switch" => Behind = switches + 1
    <3>1. ASSUME NEW o \in Operators, pc[o] = "switch" PROVE AtCommand = "switch"
      <4>1. lock = o BY <3>1, Alone DEF InScript
      <4> QED BY <3>1, <4>1, HostAssumption DEF AtCommand
    <3> QED BY <3>1 DEF Behind
  <2>4. runs'[j].after = Behind /\ \A k \in Jobs : k # j => runs'[k] = runs[k]
    BY <1>1, <2>1 DEF HostOK
  <2>5. \A k \in declared : Running(k)' => k = j \/ Running(k) BY <1>3, <2>4 DEF Running
  <2> QED BY <1>2, <1>3, <2>1, <2>2, <2>3, <2>4, <2>5 DEF RunsAreRecent
<1>7. CASE RunEnds(j)
  <2>1. runs' = [runs EXCEPT ![j] = NoRun] BY <1>7 DEF RunEnds
  <2>2. \A k \in declared : ~Running(k)' \/ (Running(k) /\ runs'[k] = runs[k])
    BY <1>1, <1>3, <2>1 DEF HostOK, Running
  <2>3. PICK result \in {NotWell, [at |-> Len(ledger), after |-> runs[j].after]} :
            exited' = [exited EXCEPT ![j] = result]
    BY <1>7 DEF RunEnds
  <2>4. \A k \in Jobs : exited'[k] = IF k = j THEN result ELSE exited[k]
    BY <1>1, <2>3 DEF HostOK
  <2>5. CASE result = NotWell
    BY <1>2, <1>3, <2>2, <2>4, <2>5, RecentStays
  <2>6. CASE result = [at |-> Len(ledger), after |-> runs[j].after]
    <3>1. SUFFICES ASSUME scope.shape = "timers", "manifest" \notin scope.edits, NEW k \in declared
                   PROVE  /\ exited'[k].at <= Len(ledger)
                          /\ \A i \in 1..exited'[k].at : ledger[i].by <= exited'[k].after
      BY <1>2, <2>2 DEF RunsAreRecent
    <3>2. CASE k # j BY <1>3, <2>4, <3>1, <3>2 DEF RunsAreRecent
    <3>3. CASE k = j
      <4>1. exited'[k].at = Len(ledger) /\ exited'[k].after = runs[j].after
        BY <1>3, <2>4, <2>6, <3>3
      <4>2. switches <= runs[j].after BY <1>7, <3>1, <3>3 DEF RunsAreRecent, RunEnds
      <4>3. runs[j].after \in Nat /\ \A i \in 1..Len(ledger) : ledger[i].by \in Nat
        BY <1>1, LedgerBy DEF HostOK, RunRecords
      <4>4. \A i \in 1..Len(ledger) : ledger[i].by <= switches BY <3>1 DEF RunsAreRecent
      <4> QED BY <1>3, <4>1, <4>2, <4>3, <4>4
    <3> QED BY <3>2, <3>3
  <2> QED BY <2>5, <2>6
<1> QED BY <1>4, <1>5, <1>6, <1>7

\* The second check saw no run of a declared service before a script comes to
\* `switch`.
LEMMA ToTheSwitch ==
    ASSUME ScriptInv, NEW o \in Operators, NEW c \in Commands, Runs(o, c),
           Following(o) = "switch", scope.shape = "timers"
    PROVE  c = "recheck"
<1>1. pc[o] = c BY DEF Runs
<1>2. /\ Key(o) \in Keys /\ c \in CommandsOf[Key(o)] /\ Following(o) = Steps[Key(o)][c]
      /\ Key(o) # "restore" => Key(o) = "timers"
  BY <1>1, AtACommand
<1>3. CASE Key(o) = "restore" BY <1>2, <1>3 DEF Steps, CommandsOf
<1>4. CASE Key(o) = "timers" BY <1>2, <1>4 DEF Steps, CommandsOf
<1> QED BY <1>2, <1>3, <1>4

\* One that runs a command and moves no release.
LEMMA RecentCommand ==
    ASSUME ScriptInv, RunsAreRecent, NEW o \in Operators, NEW c \in Commands, Runs(o, c),
           switches' = switches,
           scope.shape = "timers" =>
               /\ c = "recheck" => \A j \in declared : ~Running(j)
               /\ \A j \in declared :
                      runs'[j] = runs[j] \/ (Running(j) /\ runs'[j].after = runs[j].after)
    PROVE  RunsAreRecent'
<1>1. FlowOK BY InvIs
<1>2. UNCHANGED <<scope, declared, exited, ledger>> /\ pc' = [pc EXCEPT ![o] = Following(o)]
  BY DEF Runs
<1>3. CASE scope.shape # "timers" BY <1>2, <1>3 DEF RunsAreRecent
<1>4. CASE scope.shape = "timers"
  <2>1. \A p \in Operators, j \in declared :
            pc'[p] = "switch" /\ Running(j)' => pc[p] = "switch"
    <3>1. ASSUME NEW p \in Operators, NEW j \in declared, pc'[p] = "switch", Running(j)',
                 pc[p] # "switch"
          PROVE  FALSE
      <4>1. p = o /\ Following(o) = "switch" BY <1>1, <1>2, <3>1 DEF FlowOK
      <4>2. c = "recheck" BY <1>4, <4>1, ToTheSwitch
      <4> QED BY <1>4, <3>1, <4>2 DEF Running
    <3> QED BY <3>1
  <2>2. \A j \in declared : ~Running(j)' \/ (Running(j) /\ runs'[j].after = runs[j].after)
    BY <1>4 DEF Running
  <2>3. LedgerGrows BY <1>2 DEF LedgerGrows
  <2> QED BY <1>2, <2>1, <2>2, <2>3, RecentStays
<1> QED BY <1>3, <1>4

\* The switch itself: the runs of declared services have fired since.
LEMMA RecentSwitch ==
    ASSUME ScriptInv, RunsAreRecent, NEW o \in Operators, Switch(o)
    PROVE  RunsAreRecent'
<1>1. HostOK /\ FlowOK BY InvIs
<1>2. /\ pc[o] = "switch" /\ pc' = [pc EXCEPT ![o] = Following(o)]
      /\ UNCHANGED <<scope, declared, exited, ledger>>
  BY DEF Switch, Runs
<1>3. SUFFICES ASSUME scope.shape = "timers", "manifest" \notin scope.edits PROVE RunsAreRecent'
  BY <1>2 DEF RunsAreRecent
<1>4. switches' = switches + 1 /\ switches \in Nat /\ declared \subseteq Jobs
  BY <1>1, <1>3 DEF Switch, HostOK
<1>5. \A j \in declared :
         (Running(j)' => Running(j)) /\ (Running(j) => runs'[j].after = runs[j].after)
  <2>1. runs' = MixedFrom(Artefacts \ {Subject(o)}) BY <1>3 DEF Switch
  <2>2. \A j \in declared : runs[j] \in RunRecords BY <1>1, <1>4 DEF HostOK
  <2>3. ASSUME NEW j \in declared
        PROVE  runs'[j] = runs[j] \/ (Running(j) /\ runs'[j] = [runs[j] EXCEPT !.mixed = TRUE])
    BY <1>4, <2>1, HostAssumption DEF MixedFrom, Running, NoRun
  <2> QED BY <2>2, <2>3 DEF RunRecords, Running
<1>6. \A p \in Operators : pc'[p] # "switch"
  <2>1. "switch" \in Commands /\ Runs(o, "switch") BY ApplyNames DEF Switch
  <2>2. Following(o) # "switch" BY <1>3, <2>1, ToTheSwitch
  <2>3. \A p \in Operators : p # o => pc[p] # "switch"
    BY <1>2, <2>1, AtACommand DEF InScript
  <2> QED BY <1>1, <1>2, <2>2, <2>3 DEF FlowOK
<1>7. \A j \in declared : Running(j) => switches + 1 <= runs[j].after
  BY <1>2, <1>3 DEF RunsAreRecent
<1>8. \A i \in 1..Len(ledger) : ledger[i].by <= switches /\ ledger[i].by \in Nat
  BY <1>1, <1>3, LedgerBy DEF RunsAreRecent
<1> QED BY <1>2, <1>3, <1>4, <1>5, <1>6, <1>7, <1>8 DEF RunsAreRecent

LEMMA RecentStep ==
    ASSUME ScriptInv, RunsAreRecent, [Next]_vars
    PROVE  RunsAreRecent'
<1>1. HostOK /\ FlowOK BY InvIs
<1>2. ASSUME UNCHANGED <<scope, declared, switches, runs, exited>>, LedgerGrows,
             \A o \in Operators : pc'[o] = "switch" => pc[o] = "switch"
      PROVE  RunsAreRecent'
  BY <1>2, RecentStays DEF Running
<1>3. CASE UNCHANGED vars BY <1>2, <1>3 DEF vars, host, LedgerGrows
<1>4. ASSUME NEW j \in Jobs, Fire(j) \/ RunEnds(j) \/ Override(j) PROVE RunsAreRecent'
  BY <1>4, RecentHost
<1>5. CASE ServiceDies BY <1>5 DEF ServiceDies, RunsAreRecent
<1>6. ASSUME NEW a \in Artefacts, Checkout(a) PROVE RunsAreRecent'
  BY <1>6 DEF Checkout, RunsAreRecent
<1>7. ASSUME NEW o \in Operators, pc[o] # "idle", Succeed(o) \/ Fail(o)
      PROVE  LedgerGrows /\ \A p \in Operators : pc'[p] = "switch" => pc[p] = "switch"
  <2>1. pc' = [pc EXCEPT ![o] = "idle"] \/ pc' = [pc EXCEPT ![o] = "ready"]
    BY <1>7, FlowsRecord DEF EndFlow, Continue
  <2> QED BY <1>1, <1>7, <2>1, FlowsRecord DEF FlowOK
<1>8. CASE Reboot
  <2>1. UNCHANGED <<scope, declared, switches>> /\ LedgerGrows
        /\ \A p \in Operators : pc'[p] = "switch" => pc[p] = "switch"
    BY <1>7, <1>8 DEF Reboot, Fail, InScript
  <2>2. CASE scope.shape # "timers" BY <2>1, <2>2 DEF RunsAreRecent
  <2>3. CASE scope.shape = "timers"
    <3>1. runs' = [j \in Jobs |-> IF j = Service THEN [NoRun EXCEPT !.release = Nothing] ELSE NoRun]
      BY <1>8, <2>3 DEF Reboot
    <3>2. declared \subseteq Jobs /\ \A j \in declared : ~Running(j)'
      BY <1>1, <3>1 DEF HostOK, Running, NoRun
    <3>3. \A j \in declared : exited'[j] = NotWell BY <1>8, <3>2 DEF Reboot
    <3> QED BY <2>1, <3>2, <3>3, RecentStays
  <2> QED BY <2>2, <2>3
<1>9. ASSUME NEW o \in Operators, Start(o) PROVE RunsAreRecent'
  <2>1. PICK stage, a, b : Begin(o, stage, a, b)
    BY <1>9 DEF Start, StartForward, StartBack
  <2>2. UNCHANGED <<scope, host, ledger>> /\ pc' = [pc EXCEPT ![o] = "ready"]
    BY <2>1 DEF Begin
  <2> QED BY <1>1, <1>2, <2>2 DEF host, LedgerGrows, FlowOK
<1>10. ASSUME NEW o \in Operators, Kill(o) PROVE RunsAreRecent'
  <2>1. pc[o] # "idle" /\ Fail(o) /\ UNCHANGED <<scope, host>>
    BY <1>10 DEF Kill, Fail, InScript
  <2> QED BY <1>2, <1>7, <2>1 DEF host
<1>11. ASSUME NEW o \in Operators, Progress(o) PROVE RunsAreRecent'
  <2>1. ASSUME pc[o] # "idle", UNCHANGED <<scope, host>>, Succeed(o) \/ Fail(o) PROVE RunsAreRecent'
    BY <1>2, <1>7, <2>1 DEF host
  <2>2. ASSUME NEW w, w # "switch", pc' = [pc EXCEPT ![o] = w], UNCHANGED <<scope, host, ledger>>
        PROVE  RunsAreRecent'
    BY <1>1, <1>2, <2>2 DEF host, LedgerGrows, FlowOK
  <2>3. CASE Refused(o) \/ FindLocked(o) \/ Trap(o) \/ Exit(o) \/ Verify(o)
    <3>1. pc[o] # "idle" /\ UNCHANGED <<scope, host>>
      BY <2>3 DEF Refused, FindLocked, Trap, Exit, Verify, Succeed, Fail
    <3>2. \/ Succeed(o) \/ Fail(o)
          \/ UNCHANGED ledger /\ \E w \in {"idle", "verify"} : pc' = [pc EXCEPT ![o] = w]
      BY <2>3 DEF Refused, FindLocked, Trap, Exit, Verify, EndFlow
    <3> QED BY <2>1, <2>2, <3>1, <3>2
  <2>4. CASE TakeLock(o)
    <3>1. ScriptOf(o)[1] # "switch"
      <4>1. Key(o) \in Keys /\ ScriptOf(o) = Scripts[Key(o)]
        BY <1>1, ScopeTypes DEF ScriptOf, Key
      <4> QED BY <4>1 DEF Keys, Scripts
    <3> QED BY <2>2, <2>4, <3>1 DEF TakeLock
  <2>5. ASSUME NEW c, Exits1(o, c) PROVE RunsAreRecent'
    BY <2>2, <2>5 DEF Exits1
  <2>6. {"write", "up", "create", "copy", "place", "reload", "loaded", "restart", "active",
         "check", "aside", "recheck"} \cup CommandsOf.restore \subseteq Commands
    BY CommandsAre DEF CommandsOf
  <2>7. ASSUME NEW c \in {"check", "recheck"}, Check(o, c) PROVE RunsAreRecent'
    BY <2>5, <2>6, <2>7, RecentCommand DEF Check
  <2>8. CASE Write(o) \/ Create(o) \/ Copy(o) \/ Place(o) \/ Reload(o)
    BY <2>6, <2>8, RecentCommand DEF Write, Create, Copy, Place, Reload
  <2>9. CASE Loaded(o) \/ Active(o)
    <3>1. \/ Exits1(o, "loaded") \/ Exits1(o, "active")
          \/ /\ Runs(o, "loaded") \/ Runs(o, "active")
             /\ UNCHANGED <<switches, runs>>
      BY <2>9 DEF Loaded, Active
    <3> QED BY <2>5, <2>6, <3>1, RecentCommand
  <2>10. CASE Restores(o) \/ Clean(o)
    <3>1. \E c \in CommandsOf.restore : Runs(o, c) /\ UNCHANGED <<switches, runs>>
      BY <2>10 DEF Restores, Clean, CommandsOf
    <3>2. "recheck" \notin CommandsOf.restore BY DEF CommandsOf
    <3> QED BY <2>6, <3>1, <3>2, RecentCommand
  <2>11. CASE Aside(o)
    <3>1. Runs(o, "aside") /\ UNCHANGED switches /\ runs' = MixedFrom({Subject(o)})
      BY <2>11 DEF Aside
    <3>2. Subject(o) \in Artefacts /\ declared \subseteq Jobs
      BY <1>1, <2>6, <3>1, AtACommand DEF HostOK, Runs
    <3>3. \A j \in declared :
        runs'[j] = runs[j] \/ (Running(j) /\ runs'[j].after = runs[j].after)
      <4>1. \A j \in declared : runs[j] \in RunRecords BY <1>1, <3>2 DEF HostOK
      <4>2. ASSUME NEW j \in declared
            PROVE  runs'[j] = runs[j] \/ (Running(j) /\ runs'[j] = [runs[j] EXCEPT !.mixed = TRUE])
        BY <3>1, <3>2, HostAssumption DEF MixedFrom, Running, NoRun
      <4> QED BY <4>1, <4>2 DEF RunRecords
    <3> QED BY <2>6, <3>1, <3>3, RecentCommand
  <2>12. CASE Switch(o) BY <2>12, RecentSwitch
  <2>13. CASE Restart(o)
    <3>1. Runs(o, "restart") /\ UNCHANGED switches /\ (scope.shape = "timers" => runs' = runs)
      BY <2>13 DEF Restart
    <3> QED BY <2>6, <3>1, RecentCommand
  <2>14. CASE Up(o)
    <3>1. Runs(o, "up") /\ UNCHANGED switches BY <2>14 DEF Up
    <3>2. scope.shape # "timers"
      <4>1. pc[o] = "up" /\ "up" \in Commands \ CommandsOf.restore BY <3>1, ApplyNames DEF Runs
      <4>2. "up" \in CommandsOf[scope.shape] BY <4>1, ApplyAt
      <4> QED BY <4>2 DEF CommandsOf
    <3> QED BY <2>6, <3>1, <3>2, RecentCommand
  <2>15. CASE CommandFails(o)
    <3>1. /\ UNCHANGED <<scope, declared, switches, exited, ledger>>
          /\ pc' = [pc EXCEPT ![o] = "trap"]
          /\ runs' = runs \/ scope.shape # "timers"
      BY <2>15 DEF CommandFails
    <3>2. CASE scope.shape # "timers" BY <3>1, <3>2 DEF RunsAreRecent
    <3>3. CASE scope.shape = "timers"
      BY <1>1, <1>2, <3>1, <3>3 DEF LedgerGrows, FlowOK
    <3> QED BY <3>2, <3>3
  <2> QED BY <1>11, <2>3, <2>4, <2>7, <2>8, <2>9, <2>10, <2>11, <2>12, <2>13, <2>14, <2>15
          DEF Progress
<1> QED BY <1>3, <1>4, <1>5, <1>6, <1>8, <1>9, <1>10, <1>11 DEF Next

LEMMA RunsRecent == Spec => []RunsAreRecent
<1>1. Init => RunsAreRecent
  <2>1. SUFFICES ASSUME Init PROVE RunsAreRecent OBVIOUS
  <2>2. declared \subseteq Jobs BY <2>1, Initially, InvIs DEF HostOK
  <2>3. \A j \in declared : runs[j] = NoRun /\ exited[j].at = 0 BY <2>1, <2>2 DEF Init, NotWell
  <2>4. Len(ledger) = 0 BY <2>1 DEF Init
  <2> QED BY <2>3, <2>4 DEF RunsAreRecent, Running
<1>2. ScriptInv /\ RunsAreRecent /\ [Next]_vars => RunsAreRecent' BY RecentStep
<1> QED BY <1>1, <1>2, Inductive, PTL DEF Spec

-----------------------------------------------------------------------------
(* The theorems.                                                           *)

\* The variables hold what their comments say, and no command of a script runs
\* without the lock of the target (lock_preamble, deploy/remote.py).
THEOREM TypeCorrect == Spec => []TypeOK
<1>1. ScriptInv => TypeOK BY DEF ScriptInv
<1> QED BY <1>1, Inductive, PTL

\* Whoever fires, edits, kills or reboots in between: a script that exits 0 has
\* made its artefact what runs, on each of the three shapes.
THEOREM ExitMeansLive == Spec => []AppliedIsLive
<1>1. ScriptInv => AppliedIsLive
  <2>1. SUFFICES ASSUME ScriptInv, NEW o \in Operators, pc[o] = "exit", flow[o].stage # "restore"
                 PROVE  /\ current = Subject(o)
                        /\ releases[current].payload
                        /\ scope.shape = "compose" => runs[Service].release \in {Subject(o), Nothing}
                        /\ scope.shape = "systemd" => runs[Service].release \in {Subject(o), Nothing}
                        /\ scope.shape # "compose" =>
                               \A j \in declared : loaded[j] = current /\ j \notin overridden
                        /\ scope.shape = "timers" => declared \subseteq armed
    BY DEF AppliedIsLive
  <2>2. Done(o) BY <2>1, InvIs DEF AppliesInOrder, InScript
  <2> QED BY <2>1, <2>2 DEF Done, Switched
<1> QED BY <1>1, Inductive, PTL

\* Whichever command or removal fails: the host keeps only what docker failed to
\* remove, and what a failing `docker create` made; a restore drill that prints
\* its result has removed its own (the EXIT traps of the scripts).
THEOREM TrapsClean == Spec => []NothingIsLeftBehind
<1>1. ScriptInv => NothingIsLeftBehind
  BY InvIs DEF SandboxesAreOwn, NothingIsLeftBehind, Own
<1> QED BY <1>1, Inductive, PTL

\* The running checks work: a run of a declared service comes to see two
\* releases only when it fired after the check that precedes the rename of
\* `app` or the move of `current` (deploy/private_timers.py).
THEOREM ChecksSeeEarlierRuns == Spec => EarlierRunsAreNeverMixed
<1>1. ScriptInv /\ [Next]_vars =>
          [\A j \in declared : ~runs[j].mixed /\ runs'[j].mixed =>
              runs[j].during \in (IF AtCommand = "switch" THEN {"switch"}
                                  ELSE {"write", "create", "copy", "aside"})]_vars
  BY MixedStep
<1> QED BY <1>1, Inductive, PTL DEF Spec, EarlierRunsAreNeverMixed

\* While the manifest stays, observe.visible is green only on runs of the newest
\* delivery: recorded before they ended, and fired after the last look for runs
\* before it moved `current` (gates/evidence.py, deploy/private_timers.py).
THEOREM GreenRunsAreOfTheDelivery == Spec => []VisibleRunsAreOfTheDelivery
<1>1. ScriptInv /\ RunsAreRecent => VisibleRunsAreOfTheDelivery
  <2>1. SUFFICES ASSUME ScriptInv, RunsAreRecent, "manifest" \notin scope.edits, Visible,
                        NEW i \in 1..Len(ledger), ledger[i].mode = "release", NEW j \in declared
                 PROVE  exited[j].at >= i /\ exited[j].after >= ledger[i].by
    BY DEF VisibleRunsAreOfTheDelivery
  <2>2. HostOK /\ FlowOK BY <2>1, InvIs
  <2>3. Len(ledger) \in Nat /\ LiveChanges \in SUBSET (1..Len(ledger)) /\ i \in LiveChanges
    BY <2>1, <2>2 DEF FlowOK, LiveChanges
  <2>4. Newest(LiveChanges) \in LiveChanges /\ i <= Newest(LiveChanges)
    BY <2>3, GreatestOf DEF Newest
  <2>5. exited[j].at >= Newest(LiveChanges) BY <2>1, <2>3 DEF Visible, Since
  <2>6. exited[j] \in [at : Nat, after : Nat] /\ ledger[i].by \in Nat
    BY <2>1, <2>2, LedgerBy DEF HostOK
  <2>7. Newest(LiveChanges) \in Nat /\ i \in Nat
    <3> DEFINE S == LiveChanges
    <3>1. S \subseteq 1..Len(ledger) BY <2>3
    <3> HIDE DEF S
    <3>2. \A k \in S : k \in Nat BY <3>1
    <3> QED BY <2>3, <2>4, <3>2 DEF S
  <2>8. exited[j].at >= i /\ exited[j].at \in Nat BY <2>4, <2>5, <2>6, <2>7
  <2>9. \A k \in 1..exited[j].at : ledger[k].by <= exited[j].after
    BY <2>1 DEF RunsAreRecent, Visible
  <2> QED BY <2>6, <2>7, <2>8, <2>9
<1> QED BY <1>1, Inductive, RunsRecent, PTL

=============================================================================
