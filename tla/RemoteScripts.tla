---------------------------- MODULE RemoteScripts ----------------------------
(***************************************************************************)
(* The bash scripts `rail deploy`, `rail drill` and the restore drill run  *)
(* on a target's host, one command at a time: deploy/remote.py and the     *)
(* shapes deploy/compose.py, private_systemd.py, private_timers.py and     *)
(* restore.py.  The host lives on between two commands: timers fire, runs  *)
(* end, administrators edit, sessions are killed and the machine reboots.  *)
(*                                                                         *)
(* DeployFlow takes the apply of an artefact as three steps; here each     *)
(* command of it is one, and the flows around it are reduced to which      *)
(* artefact they apply next and which `deployed` record they write.        *)
(***************************************************************************)
EXTENDS Naturals, Sequences, FiniteSets

CONSTANTS
    Operators,      \* processes running `rail deploy` or `rail drill`
    Artefacts,      \* released artefacts; each has its own release directory
    Jobs,           \* systemd services; on private-timers each has its timer
    Nothing,        \* no artefact, no operator
    UnitsOf,        \* the units in the repository at each artefact's commit
    Service,        \* the one service of a compose stack or of private-systemd
    Scopes,         \* the scopes a behaviour may have
    MaxFlows        \* bound: flows started in a behaviour

FlowKinds == {"forward", "rollback", "drill", "restore"}

Shapes == {"compose", "systemd", "timers"}

\* What a restore drill makes to throw away; what a script can leave on the host
\* for good: these, the container it copies a payload from, and one a failing
\* `docker create` made before the trap for it was set.
Objects == {"network", "database", "app"}

Left == Objects \cup {"carrier", "created"}

ASSUME HostAssumption ==
    /\ Nothing \notin Operators \cup Artefacts
    /\ UnitsOf \in [Artefacts -> SUBSET Jobs]
    /\ Service \in Jobs /\ MaxFlows \in Nat
    /\ Scopes \subseteq [shape : Shapes, flows : SUBSET FlowKinds, crew : SUBSET Operators,
                         kills : BOOLEAN, reboots : BOOLEAN,
                         edits : SUBSET {"units", "manifest"}, docker : SUBSET Left,
                         started : 0..MaxFlows]

VARIABLES
    scope,      \* what may happen: the shape, the flows and who starts them; whether
                \* sessions are killed, the host reboots, people edit the units on
                \* the host or the manifest; which removals of docker's may fail, and
                \* whether a failing `docker create` may have made its container
    declared,   \* deploy.units (or deploy.unit) in the operators' manifest
    releases,   \* what $root/releases/<version> holds of each artefact
    current,    \* the release $root/current points at
    switches,   \* how often a script moved it on private-timers (history)
    loaded,     \* the release whose unit file systemd has loaded, per job
    overridden, \* units with a drop-in, or loaded from another file
    armed,      \* timers that are active
    runs,       \* the process of each job
    exited,     \* the last run that ended, if well: the length of the ledger then, and
                \* the switches it had behind it
    lock,       \* who holds $root/.deploy.lock
    carriers,   \* the operators whose script has a carrier container
    sandbox,    \* the disposable objects of a restore drill, per operator
    left,       \* what ended scripts have left on the host
    flow,       \* each operator's flow
    pc,         \* the next command of its script
    ledger,     \* the `deployed` records
    started     \* number of flows started, for the bound

host == <<declared, releases, current, switches, loaded, overridden, armed, runs, exited>>
vars == <<scope, host, lock, carriers, sandbox, left, flow, pc, ledger, started>>

-----------------------------------------------------------------------------
(***************************************************************************)
(* The scripts.                                                            *)
(***************************************************************************)

\* `current` moves before the binary is in place.
Scripts == [
  compose |-> <<"write", "up", "switch">>,
  systemd |-> <<"write", "create", "copy", "place", "switch", "reload", "loaded",
                "restart", "active">>,
  timers  |-> <<"check", "write", "create", "copy", "aside", "place", "recheck",
                "switch", "reload", "loaded", "restart", "active">>,
  restore |-> <<"prove", "network", "database", "load", "app", "read", "clean">>]

Commands == UNION {{Scripts[k][i] : i \in 1..Len(Scripts[k])} : k \in DOMAIN Scripts}

Stages == {"idle", "deploy", "put_back", "roll_back", "drill_back", "drill_forward", "restore"}

NoFlow == [stage |-> "idle", artefact |-> Nothing, previous |-> Nothing]

\* The release a run started from; the command the target's script was at, if
\* one ran; the switches behind it; whether a second release, or a missing one,
\* came under its paths.
NoRun == [release |-> Nothing, during |-> "none", after |-> 0, mixed |-> FALSE]

NotWell == [at |-> 0, after |-> 0]

Subject(o) == IF flow[o].stage \in {"deploy", "drill_forward"}
              THEN flow[o].artefact ELSE flow[o].previous

ScriptOf(o) == Scripts[IF flow[o].stage = "restore" THEN "restore" ELSE scope.shape]

\* After the last command the script exits 0.
Following(o) ==
    LET s == ScriptOf(o)
        i == CHOOSE n \in 1..Len(s) : s[n] = pc[o]
    IN  IF i = Len(s) THEN "exit" ELSE s[i + 1]

\* What the manifest beside an artefact's commit declares.
Manifest(a) == IF scope.shape = "timers" THEN UnitsOf[a] ELSE {Service}

Running(j) == runs[j] # NoRun

\* Live and previous artefact as the `deployed` records name them.
LiveArtefact == IF ledger = <<>> THEN Nothing ELSE ledger[Len(ledger)].artefact

PreviousArtefact(a) ==
    LET others == {i \in 1..Len(ledger) : ledger[i].artefact # a}
    IN  IF others = {} THEN Nothing
        ELSE ledger[CHOOSE i \in others : \A k \in others : k <= i].artefact

Init ==
    /\ scope \in Scopes
    /\ \E a \in Artefacts : declared = Manifest(a)
    /\ releases = [a \in Artefacts |-> [units |-> {}, payload |-> FALSE]]
    /\ current = Nothing
    /\ switches = 0
    /\ loaded = [j \in Jobs |-> Nothing]
    /\ overridden = {}
    /\ armed = {}
    /\ runs = [j \in Jobs |-> NoRun]
    /\ exited = [j \in Jobs |-> NotWell]
    /\ lock = Nothing
    /\ carriers = {}
    /\ sandbox = [o \in Operators |-> {}]
    /\ left = {}
    /\ flow = [o \in Operators |-> NoFlow]
    /\ pc = [o \in Operators |-> "idle"]
    /\ ledger = <<>>
    /\ started = 0

-----------------------------------------------------------------------------
(***************************************************************************)
(* The host between two commands.                                          *)
(***************************************************************************)

AtCommand == IF lock = Nothing THEN "none" ELSE pc[lock]

\* At `ln -sfn` the last look for runs is over: what fires then counts as fired
\* after the switch.
Behind == IF AtCommand = "switch" THEN switches + 1 ELSE switches

\* A timer elapses.  systemd starts the unit it has loaded; its program is
\* under `current`, and without a payload there the run fails at once.
Fire(j) ==
    /\ scope.shape = "timers"
    /\ j \in armed
    /\ ~Running(j)
    /\ loaded[j] # Nothing
    /\ IF current # Nothing /\ releases[current].payload
       THEN /\ runs' = [runs EXCEPT ![j] = [release |-> current, mixed |-> FALSE,
                                            after |-> Behind, during |-> AtCommand]]
            /\ UNCHANGED exited
       ELSE /\ exited' = [exited EXCEPT ![j] = NotWell]
            /\ UNCHANGED runs
    /\ UNCHANGED <<scope, declared, releases, current, switches, loaded, overridden, armed,
                   lock, carriers, sandbox, left, flow, pc, ledger, started>>

\* A run ends, well or not, or at its TimeoutStartSec.
RunEnds(j) ==
    /\ scope.shape = "timers"
    /\ Running(j)
    /\ runs' = [runs EXCEPT ![j] = NoRun]
    /\ \E result \in {NotWell, [at |-> Len(ledger), after |-> runs[j].after]} :
           exited' = [exited EXCEPT ![j] = result]
    /\ UNCHANGED <<scope, declared, releases, current, switches, loaded, overridden, armed,
                   lock, carriers, sandbox, left, flow, pc, ledger, started>>

\* A service dies, and may start again by its Restart=.
ServiceDies ==
    /\ scope.shape # "timers"
    /\ scope.kills
    /\ Running(Service)
    /\ \E r \in IF scope.shape = "systemd" THEN {Nothing, current} ELSE {Nothing} :
           runs' = [runs EXCEPT ![Service] = [NoRun EXCEPT !.release = r]]
    /\ UNCHANGED <<scope, declared, releases, current, switches, loaded, overridden, armed, exited,
                   lock, carriers, sandbox, left, flow, pc, ledger, started>>

\* `systemctl edit` or `set-property` on a unit, or its undoing; never between
\* the read-back of what systemd loaded and the end of the script, where
\* nothing reads it again.
Override(j) ==
    /\ "units" \in scope.edits
    /\ \A o \in Operators : pc[o] \notin {"restart", "active", "exit"}
    /\ overridden' = IF j \in overridden THEN overridden \ {j} ELSE overridden \cup {j}
    /\ UNCHANGED <<scope, declared, releases, current, switches, loaded, armed, runs, exited,
                   lock, carriers, sandbox, left, flow, pc, ledger, started>>

\* The operators' checkout moves to another commit, and its manifest with it.
Checkout(a) ==
    /\ "manifest" \in scope.edits
    /\ \A o \in Operators : flow[o].stage = "idle"
    /\ declared # Manifest(a)
    /\ declared' = Manifest(a)
    /\ UNCHANGED <<scope, releases, current, switches, loaded, overridden, armed, runs, exited,
                   lock, carriers, sandbox, left, flow, pc, ledger, started>>

\* What systemd loads of each linked unit: the file under `current`.
Linked == [j \in Jobs |-> IF current # Nothing /\ j \in releases[current].units
                         THEN current ELSE Nothing]

-----------------------------------------------------------------------------
(***************************************************************************)
(* A flow begins: what the ledger says, and a script built for it.         *)
(***************************************************************************)

Begin(o, stage, artefact, previous) ==
    /\ o \in scope.crew
    /\ flow[o].stage = "idle"
    /\ started < scope.started
    /\ started' = started + 1
    /\ flow' = [flow EXCEPT ![o] = [stage |-> stage, artefact |-> artefact,
                                     previous |-> previous]]
    /\ pc' = [pc EXCEPT ![o] = "ready"]
    /\ UNCHANGED <<scope, host, lock, carriers, sandbox, left, ledger>>

\* script_for reads every declared unit at the artefact's commit.  A flow builds
\* what it is about to apply first, and a refusal then changes nothing.
Builds(a) == declared \subseteq Manifest(a)

\* The previous artefact is not built here.
StartForward(o) ==
    /\ "forward" \in scope.flows
    /\ \E a \in Artefacts : Builds(a) /\ Begin(o, "deploy", a, PreviousArtefact(a))

\* A rollback, a drill and a restore drill need two deployed artefacts.
StartBack(o, kind, stage) ==
    /\ kind \in scope.flows
    /\ LiveArtefact # Nothing
    /\ PreviousArtefact(LiveArtefact) # Nothing
    /\ kind # "restore" => Builds(PreviousArtefact(LiveArtefact))
    /\ kind = "drill" => Builds(LiveArtefact)
    /\ Begin(o, stage, LiveArtefact, PreviousArtefact(LiveArtefact))

Start(o) ==
    \/ StartForward(o)
    \/ StartBack(o, "rollback", "roll_back")
    \/ StartBack(o, "drill", "drill_back")
    \/ scope.shape = "compose" /\ StartBack(o, "restore", "restore")

(***************************************************************************)
(* How an apply ends.                                                      *)
(***************************************************************************)

Record(a, mode) ==
    ledger' = Append(ledger, [artefact |-> a, mode |-> mode, by |-> switches])

EndFlow(o) == /\ flow' = [flow EXCEPT ![o] = NoFlow]
              /\ pc' = [pc EXCEPT ![o] = "idle"]

Continue(o, stage) == /\ flow' = [flow EXCEPT ![o].stage = stage]
                      /\ pc' = [pc EXCEPT ![o] = "ready"]

\* Verified: forward and rollback write `deployed`, a drill rolls forward.
Succeed(o) ==
    LET f == flow[o]
    IN  /\ CASE f.stage = "deploy" -> Record(f.artefact, "release") /\ EndFlow(o)
             [] f.stage = "drill_forward" -> Record(f.artefact, "drill") /\ EndFlow(o)
             [] f.stage \in {"put_back", "roll_back"} ->
                    Record(f.previous, "rollback") /\ EndFlow(o)
             [] f.stage = "drill_back" -> UNCHANGED ledger /\ Continue(o, "drill_forward")
             [] f.stage = "restore" -> UNCHANGED ledger /\ EndFlow(o)
        /\ UNCHANGED <<scope, started>>

\* A failed forward puts the previous artefact back; a drill that cannot roll
\* forward records the previous artefact as the live one.
Fail(o) ==
    LET f == flow[o]
    IN  /\ CASE f.stage = "deploy" /\ f.previous # Nothing ->
                    UNCHANGED ledger /\ Continue(o, "put_back")
             [] f.stage = "drill_forward" -> Record(f.previous, "rollback") /\ EndFlow(o)
             [] OTHER -> UNCHANGED ledger /\ EndFlow(o)
        /\ UNCHANGED <<scope, started>>

\* The previous artefact is built only when it is put back: a unit added since
\* is not in the repository at its commit.
Refused(o) ==
    /\ pc[o] = "ready"
    /\ flow[o].stage = "put_back"
    /\ ~Builds(flow[o].previous)
    /\ Fail(o)
    /\ UNCHANGED <<host, lock, carriers, sandbox, left>>

-----------------------------------------------------------------------------
(***************************************************************************)
(* The commands of a script.  `set -e`: the one that fails is the last.    *)
(***************************************************************************)

\* No lock.
FaultyTakeLock(o) ==
    /\ pc[o] = "ready"
    /\ flow[o].stage = "put_back" => Builds(flow[o].previous)
    /\ lock' = o
    /\ pc' = [pc EXCEPT ![o] = ScriptOf(o)[1]]
    /\ UNCHANGED <<scope, host, carriers, sandbox, left, flow, ledger, started>>

\* flock -n.  The release directory is made before it, and changes nothing.
TakeLock(o) ==
    /\ pc[o] = "ready"
    /\ flow[o].stage = "put_back" => Builds(flow[o].previous)
    /\ lock = Nothing
    /\ lock' = o
    /\ pc' = [pc EXCEPT ![o] = ScriptOf(o)[1]]
    /\ UNCHANGED <<scope, host, carriers, sandbox, left, flow, ledger, started>>

\* Exit code 75.  Locked ends the flow; the roll-forward of a drill handles it
\* as any other failure.
FindLocked(o) ==
    /\ pc[o] = "ready"
    /\ lock # Nothing
    /\ IF flow[o].stage = "drill_forward"
       THEN Fail(o)
       ELSE EndFlow(o) /\ UNCHANGED <<scope, ledger, started>>
    /\ UNCHANGED <<host, lock, carriers, sandbox, left>>

\* Command c succeeds and the next one is due; a command that finds something
\* wrong exits 1 instead.
Runs(o, c) ==
    /\ pc[o] = c
    /\ pc' = [pc EXCEPT ![o] = Following(o)]
    /\ UNCHANGED <<scope, declared, overridden, exited, lock, flow, ledger, started>>

Exits1(o, c) ==
    /\ pc[o] = c
    /\ pc' = [pc EXCEPT ![o] = "trap"]
    /\ UNCHANGED <<scope, host, lock, carriers, sandbox, left, flow, ledger, started>>

\* Only `active` counts as running, and a oneshot service is `activating`.
FaultyCheck(o, c) ==
    /\ Runs(o, c)
    /\ UNCHANGED <<releases, current, switches, loaded, armed, runs, carriers, sandbox, left>>

\* A run in progress refuses the deployment; it is never waited for.
Check(o, c) ==
    IF \E j \in declared : Running(j)
    THEN Exits1(o, c)
    ELSE /\ Runs(o, c)
         /\ UNCHANGED <<releases, current, switches, loaded, armed, runs, carriers, sandbox, left>>

\* The unit files or the compose file, release.env, and the pull by digest.
Write(o) ==
    /\ Runs(o, "write")
    /\ releases' = [releases EXCEPT ![Subject(o)].units = @ \cup declared,
                                    ![Subject(o)].payload = @ \/ scope.shape = "compose"]
    /\ UNCHANGED <<current, switches, loaded, armed, runs, carriers, sandbox, left>>

\* docker create of the container the payload is copied from.
Create(o) ==
    /\ Runs(o, "create")
    /\ carriers' = carriers \cup {o}
    /\ UNCHANGED <<releases, current, switches, loaded, armed, runs, sandbox, left>>

\* docker cp into .app.new or .<binary>.new: nobody reads it there.
Copy(o) ==
    /\ Runs(o, "copy")
    /\ UNCHANGED <<releases, current, switches, loaded, armed, runs, carriers, sandbox, left>>

\* A run reads its release by path: what is taken away or swapped under it
\* makes it a run of two releases.
MixedFrom(disturbed) ==
    [j \in Jobs |-> IF runs[j].release \in disturbed
                    THEN [runs[j] EXCEPT !.mixed = TRUE] ELSE runs[j]]

\* `app` of an earlier delivery of the same version is moved aside.
Aside(o) ==
    /\ Runs(o, "aside")
    /\ runs' = MixedFrom({Subject(o)})
    /\ releases' = [releases EXCEPT ![Subject(o)].payload = FALSE]
    /\ UNCHANGED <<current, switches, loaded, armed, carriers, sandbox, left>>

\* The rename of the payload.  A binary that runs keeps its file.
Place(o) ==
    /\ Runs(o, "place")
    /\ releases' = [releases EXCEPT ![Subject(o)].payload = TRUE]
    /\ UNCHANGED <<current, switches, loaded, armed, runs, carriers, sandbox, left>>

\* ln -sfn "$release" "$root/current".
Switch(o) ==
    /\ Runs(o, "switch")
    /\ current' = Subject(o)
    /\ switches' = IF scope.shape = "timers" THEN switches + 1 ELSE switches
    /\ runs' = IF scope.shape = "timers"
               THEN MixedFrom(Artefacts \ {Subject(o)})
               ELSE runs
    /\ UNCHANGED <<releases, loaded, armed, carriers, sandbox, left>>

\* systemctl daemon-reload.
Reload(o) ==
    /\ Runs(o, "reload")
    /\ loaded' = Linked
    /\ UNCHANGED <<releases, current, switches, armed, runs, carriers, sandbox, left>>

\* The read-back does not look for drop-ins.
FaultyLoaded(o) ==
    IF \E j \in declared : loaded[j] # Subject(o)
    THEN Exits1(o, "loaded")
    ELSE /\ Runs(o, "loaded")
         /\ UNCHANGED <<releases, current, switches, loaded, armed, runs, carriers, sandbox, left>>

\* What systemd loaded is read back: a drop-in, or a unit from another file.
Loaded(o) ==
    IF \E j \in declared : j \in overridden \/ loaded[j] # Subject(o)
    THEN Exits1(o, "loaded")
    ELSE /\ Runs(o, "loaded")
         /\ UNCHANGED <<releases, current, switches, loaded, armed, runs, carriers, sandbox, left>>

\* systemctl restart of the service, or of each timer.
Restart(o) ==
    /\ Runs(o, "restart")
    /\ IF scope.shape = "timers"
       THEN armed' = armed \cup declared /\ UNCHANGED runs
       ELSE /\ runs' = [runs EXCEPT ![Service] = [NoRun EXCEPT !.release = current]]
            /\ UNCHANGED armed
    /\ UNCHANGED <<releases, current, switches, loaded, carriers, sandbox, left>>

\* systemctl is-active, and a next elapse of each timer.
Active(o) ==
    IF IF scope.shape = "timers" THEN declared \subseteq armed ELSE Running(Service)
    THEN /\ Runs(o, "active")
         /\ UNCHANGED <<releases, current, switches, loaded, armed, runs, carriers, sandbox, left>>
    ELSE Exits1(o, "active")

\* docker compose up --wait: the container is replaced and healthy.
Up(o) ==
    /\ Runs(o, "up")
    /\ runs' = [runs EXCEPT ![Service] = [NoRun EXCEPT !.release = Subject(o)]]
    /\ UNCHANGED <<releases, current, switches, loaded, armed, carriers, sandbox, left>>

(***************************************************************************)
(* The restore drill: a disposable network, a database loaded from the     *)
(* backup, the previous image over it, one read, and their removal.        *)
(***************************************************************************)

Restores(o) ==
    /\ \E c \in {"prove", "network", "database", "load", "app", "read"} :
           /\ Runs(o, c)
           /\ sandbox' = [sandbox EXCEPT ![o] = @ \cup ({c} \cap Objects)]
    /\ UNCHANGED <<releases, current, switches, loaded, armed, runs, carriers, left>>

Clean(o) ==
    /\ Runs(o, "clean")
    /\ sandbox' = [sandbox EXCEPT ![o] = {}]
    /\ UNCHANGED <<releases, current, switches, loaded, armed, runs, carriers, left>>

(***************************************************************************)
(* How a script ends.                                                      *)
(***************************************************************************)

InScript(o) == pc[o] \notin {"idle", "ready", "verify"}

\* What the script of an operator has made and not yet removed.
Own(o) == sandbox[o] \cup IF o \in carriers THEN {"carrier"} ELSE {}

\* The session ends, and with it the lock; the objects of S stay on the host.
Abandons(o, S) ==
    /\ left' = left \cup S
    /\ carriers' = carriers \ {o}
    /\ sandbox' = [sandbox EXCEPT ![o] = {}]
    /\ lock' = Nothing

\* Without `|| true`, a first removal that fails ends the trap.
FaultyLeaves(o) ==
    \E kept \in SUBSET (Own(o) \cap scope.docker) :
        Abandons(o, IF "app" \in kept THEN Own(o) ELSE kept)

\* What docker may fail to remove: a network still has what is left on it.
Stuck == scope.docker \cup IF scope.docker \cap {"database", "app"} # {}
                           THEN {"network"} ELSE {}

\* The EXIT trap, then the end of the session and of its lock.  Each removal is
\* tried, whatever became of the others, and its failure is passed over.
Leaves(o) ==
    \E kept \in SUBSET (Own(o) \cap Stuck) :
        /\ "network" \in kept \ scope.docker => kept \cap {"database", "app"} # {}
        /\ Abandons(o, kept)

\* A command fails.  `docker create` and `docker run` may have made their
\* container, of which only the second is in the trap; the removals of a restore
\* drill may have done part of their work, the network last; `docker compose up`
\* and `systemctl restart` may have taken down what they were to start.
CommandFails(o) ==
    /\ pc[o] \in Commands
    /\ pc' = [pc EXCEPT ![o] = "trap"]
    /\ \E kept \in IF pc[o] = "clean" THEN {S \in SUBSET sandbox[o] : "network" \in S}
                    ELSE {sandbox[o] \cup ({pc[o]} \cap Objects)} :
           sandbox' = [sandbox EXCEPT ![o] = kept]
    /\ \/ UNCHANGED left
       \/ /\ pc[o] = "create" /\ "created" \in scope.docker
          /\ left' = left \cup {"created"}
    /\ \/ UNCHANGED <<armed, runs>>
       \/ /\ pc[o] = "restart" /\ scope.shape = "timers"
          /\ \E up \in SUBSET (armed \cup declared) :
                 armed \ declared \subseteq up /\ armed' = up
          /\ UNCHANGED runs
       \/ /\ pc[o] \in {"restart", "up"} /\ scope.shape # "timers"
          /\ runs' = [runs EXCEPT ![Service] = NoRun]
          /\ UNCHANGED armed
    /\ UNCHANGED <<scope, declared, releases, current, switches, loaded, overridden, exited,
                   lock, carriers, flow, ledger, started>>

\* Any other exit code.
Trap(o) ==
    /\ pc[o] = "trap"
    /\ Leaves(o)
    /\ Fail(o)
    /\ UNCHANGED <<host>>

\* Exit code 0.  A restore drill is attested from what the script printed (its
\* records are in the ledger of DeployFlow); an apply is verified.
Exit(o) ==
    /\ pc[o] = "exit"
    /\ Leaves(o)
    /\ IF flow[o].stage = "restore"
       THEN Succeed(o)
       ELSE /\ pc' = [pc EXCEPT ![o] = "verify"]
            /\ UNCHANGED <<scope, flow, ledger, started>>
    /\ UNCHANGED host

\* The ssh session is killed at remote_timeout, or dies: the script stops where
\* it is, its trap may be cut off, and the lock goes with the session.
Kill(o) ==
    /\ scope.kills
    /\ InScript(o)
    /\ \E lost \in SUBSET Own(o) : Abandons(o, lost)
    /\ Fail(o)
    /\ UNCHANGED <<host>>

\* The host reboots: sessions and processes end, systemd loads its units from
\* the disk, and what is enabled starts.
Reboot ==
    /\ scope.reboots
    /\ \E o \in Operators : InScript(o) /\ Fail(o) /\ Abandons(o, Own(o))
    /\ loaded' = Linked
    /\ \E r \in CASE scope.shape = "timers" -> {Nothing}
                  [] scope.shape = "systemd" -> {Nothing, current}
                  [] OTHER -> {Nothing, runs[Service].release} :
           runs' = [j \in Jobs |-> IF j = Service THEN [NoRun EXCEPT !.release = r] ELSE NoRun]
    /\ exited' = [j \in Jobs |-> NotWell]
    /\ IF scope.shape = "timers"
       THEN armed' \in SUBSET {j \in Jobs : Linked[j] # Nothing}
       ELSE UNCHANGED armed
    /\ UNCHANGED <<declared, releases, current, switches, overridden>>

\* What answers from outside: the identity under `current` on private-timers,
\* GET /version of the service elsewhere.
Identity == IF scope.shape = "timers"
            THEN IF current # Nothing /\ releases[current].payload THEN current ELSE Nothing
            ELSE runs[Service].release

Verify(o) ==
    /\ pc[o] = "verify"
    /\ \/ Identity = Subject(o) /\ Succeed(o)
       \/ Fail(o)
    /\ UNCHANGED <<host, lock, carriers, sandbox, left>>

-----------------------------------------------------------------------------
(***************************************************************************)
(* The gate observe.visible on private-timers.                             *)
(***************************************************************************)

\* The newest change of the live release that is not a drill's: a rollback
\* followed by a drill's roll-forward is taken for the drill's own.
LiveChanges ==
    {i \in 1..Len(ledger) :
        /\ ledger[i].mode # "drill"
        /\ ~ /\ ledger[i].mode = "rollback"
             /\ i < Len(ledger)
             /\ ledger[i + 1].mode = "drill"}

Newest(S) == CHOOSE i \in S : \A k \in S : k <= i

Since == IF LiveChanges = {} THEN Len(ledger) ELSE Newest(LiveChanges)

\* Every declared timer waits, and its service ended well since then.
Visible ==
    /\ scope.shape = "timers"
    /\ ledger # <<>>
    /\ \A j \in declared : j \in armed /\ ~Running(j) /\ exited[j].at >= Since

-----------------------------------------------------------------------------
Progress(o) ==
    \/ Refused(o)
    \/ TakeLock(o)
    \/ FindLocked(o)
    \/ Check(o, "check")
    \/ Write(o)
    \/ Create(o)
    \/ Copy(o)
    \/ Aside(o)
    \/ Place(o)
    \/ Check(o, "recheck")
    \/ Switch(o)
    \/ Reload(o)
    \/ Loaded(o)
    \/ Restart(o)
    \/ Active(o)
    \/ Up(o)
    \/ Restores(o)
    \/ Clean(o)
    \/ CommandFails(o)
    \/ Trap(o)
    \/ Exit(o)
    \/ Verify(o)

Next ==
    \/ \E j \in Jobs : Fire(j) \/ RunEnds(j) \/ Override(j)
    \/ ServiceDies
    \/ Reboot
    \/ \E a \in Artefacts : Checkout(a)
    \/ \E o \in Operators : Start(o) \/ Kill(o) \/ Progress(o)

Spec == Init /\ [][Next]_vars

-----------------------------------------------------------------------------
Releases == Artefacts \cup {Nothing}

(* Every variable has its type: in particular, no command past the first runs *)
(* without the lock of the target (lock_preamble, deploy/remote.py).          *)
TypeOK ==
    /\ scope \in Scopes
    /\ declared \subseteq Jobs
    /\ releases \in [Artefacts -> [units : SUBSET Jobs, payload : BOOLEAN]]
    /\ current \in Releases
    /\ switches \in Nat
    /\ loaded \in [Jobs -> Releases]
    /\ overridden \subseteq Jobs
    /\ armed \subseteq Jobs
    /\ runs \in [Jobs -> [release : Releases, mixed : BOOLEAN, after : Nat,
                          during : Commands \cup {"none", "trap", "exit"}]]
    /\ exited \in [Jobs -> [at : Nat, after : Nat]]
    /\ lock \in Operators \cup {Nothing}
    /\ carriers \subseteq Operators
    /\ sandbox \in [Operators -> SUBSET Objects]
    /\ left \subseteq Left
    /\ flow \in [Operators -> [stage : Stages, artefact : Releases, previous : Releases]]
    /\ pc \in [Operators -> Commands \cup {"idle", "ready", "trap", "exit", "verify"}]
    /\ \A o \in Operators : InScript(o) => lock = o
    /\ ledger \in Seq([artefact : Artefacts, mode : {"release", "rollback", "drill"}, by : Nat])
    /\ started \in 0..MaxFlows

(* A script that exits 0 has made its artefact what runs: `current` and every *)
(* declared unit are its own and nothing overrides them, its payload is       *)
(* whole, and its timers wait or its service runs it, unless that died since. *)
AppliedIsLive ==
    \A o \in Operators : pc[o] = "exit" /\ flow[o].stage # "restore" =>
        /\ current = Subject(o)
        /\ releases[current].payload
        /\ scope.shape = "compose" => runs[Service].release \in {Subject(o), Nothing}
        /\ scope.shape = "systemd" => runs[Service].release \in {Subject(o), Nothing}
        /\ scope.shape # "compose" =>
               \A j \in declared : loaded[j] = current /\ j \notin overridden
        /\ scope.shape = "timers" => declared \subseteq armed

(* The running checks work: a run of a declared service comes to see two      *)
(* releases only when it fired after the check that precedes the rename of    *)
(* `app` or the move of `current` (deploy/private_timers.py).                 *)
EarlierRunsAreNeverMixed ==
    [][\A j \in declared : ~runs[j].mixed /\ runs'[j].mixed =>
           runs[j].during \in (IF AtCommand = "switch" THEN {"switch"}
                               ELSE {"write", "create", "copy", "aside"})]_vars

(* Where no script is cut off, the host keeps only what docker failed to      *)
(* remove, and what a failing `docker create` made before the trap was set:   *)
(* no failure of a command leaves anything else, and no failing removal keeps *)
(* the trap from the others.  A restore drill that is attested has removed    *)
(* all of its own, whatever fails or is cut off (private_timers.py,           *)
(* private_systemd.py, restore.py).                                           *)
NothingIsLeftBehind ==
    /\ ~scope.kills /\ ~scope.reboots => left \subseteq Stuck
    /\ \A o \in Operators : pc[o] = "exit" /\ flow[o].stage = "restore" => Own(o) = {}

(* While the manifest stays, observe.visible is green only on runs of the     *)
(* newest delivery: each triggered service ended well after it was recorded,  *)
(* in a run that fired after the last look for runs before that delivery      *)
(* moved `current`, never in one the deployment found or overtook.            *)
VisibleRunsAreOfTheDelivery ==
    "manifest" \notin scope.edits /\ Visible =>
        \A i \in 1..Len(ledger) : ledger[i].mode = "release" =>
            \A j \in declared : exited[j].at >= i /\ exited[j].after >= ledger[i].by

(* observe.visible is green only when every triggered service ended well      *)
(* since the newest change of the live release that is not a drill's          *)
(* roll-forward: a delivery, or a rollback the operator asked for.            *)
VisibleAfterALiveChange ==
    Visible => \A i \in 1..Len(ledger) : ledger[i].mode # "drill" =>
        \A j \in declared : exited[j].at >= i
=============================================================================
