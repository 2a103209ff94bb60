------------------------------ MODULE Release -------------------------------
(***************************************************************************)
(* `rail release` (src/rail/release.py, commands/release.py): build and    *)
(* push the image of a version, tag its commit on origin and on the        *)
(* mirror, attest `released` -- by several releasers, each in a clone of   *)
(* its own, with failures between any two commands and releases run again. *)
(*                                                                         *)
(* git, the docker daemon of a host, the registry and brain are external:  *)
(* modelled as release.py uses them.  A tag is annotated, so two clones    *)
(* that tag the same commit make two objects, and git refuses to replace   *)
(* one by the other.  `git fetch origin main` brings no tags.  What a      *)
(* digest identifies is the manifest itself, a build of a commit; building *)
(* the same commit again may or may not give the same manifest.            *)
(***************************************************************************)
EXTENDS Naturals

CONSTANTS
    Releasers,      \* operators, each with a clone
    Hosts,          \* hosts: one docker daemon and one spool each
    Versions,
    Builds,         \* what tells two images of one commit apart
    Absent,         \* no tag, no image, no plan, no receipt
    Scopes          \* the worlds a run explores

\* commits: how far main goes.  host: where each releaser works.  mirror: the
\* manifest declares one.  failures: bound on failures and deaths.
ASSUME ScopesAssumption ==
    Scopes \subseteq [commits : Nat \ {0}, host : [Releasers -> Hosts],
                     mirror : BOOLEAN, failures : Nat]

\* Clones on one host share docker's name repository:version, so that the build of
\* one may take the name from another: no two of them release one version from two
\* commits, for each has a host of its own or main stands.
NamesAreOwn(s) ==
    \A p, q \in Releasers : s.host[p] = s.host[q] => p = q \/ s.commits = 1

\* `Absent` is none of the things it stands in for.
ASSUME AbsentAssumption ==
    /\ Absent \notin [commit : Nat, maker : Releasers]
    /\ Absent \notin [version : Versions, commit : Nat, build : Builds]
    /\ Absent \notin [version : Versions, sha : Nat, tagLocal : BOOLEAN, tagOnOrigin : BOOLEAN]
    /\ Absent \notin [version : Versions, sha : Nat,
                      digest : [version : Versions, commit : Nat, build : Builds]]

VARIABLES
    scope,
    main,           \* origin/main: commits are numbered along it
    local,          \* tags of each clone
    origin,         \* tags on GitHub
    mirror,         \* tags on the mirror
    daemon,         \* what each host's docker names repository:version
    published,      \* manifests in the registry
    spool,          \* receipts waiting on each host
    brain,          \* the `released` row of each version
    pc,
    plan,           \* what preflight measured
    digest,         \* what build_and_push returned
    exit,           \* how each releaser's last command ended, and of which release
    failures

vars == <<scope, main, local, origin, mirror, daemon, published, spool, brain,
          pc, plan, digest, exit, failures>>

remotes == <<origin, mirror>>
evidence == <<spool, brain>>
images == <<daemon, published>>

Commits == 1..scope.commits

Tags == [commit : Commits, maker : Releasers]

Manifests == [version : Versions, commit : Commits, build : Builds]

\* Of attestation_data, what its idempotency key and its digest tell apart.
Receipts == [version : Versions, sha : Commits, digest : Manifests]

Plans == [version : Versions, sha : Commits, tagLocal : BOOLEAN, tagOnOrigin : BOOLEAN]

Steps == {"ask", "build", "push", "inspect", "tag", "origin", "mirror", "spool", "call"}

Maybe(S) == S \cup {Absent}

TypeOK ==
    /\ scope \in Scopes
    /\ main \in Commits
    /\ local \in [Releasers -> [Versions -> Maybe(Tags)]]
    /\ origin \in [Versions -> Maybe(Tags)]
    /\ mirror \in [Versions -> Maybe(Tags)]
    /\ daemon \in [Hosts -> [Versions -> Maybe(Manifests)]]
    /\ published \subseteq Manifests
    /\ spool \in [Hosts -> SUBSET Receipts]
    /\ brain \in [Versions -> Maybe(Receipts)]
    /\ pc \in [Releasers -> Steps \cup {"idle"}]
    /\ plan \in [Releasers -> Maybe(Plans)]
    /\ digest \in [Releasers -> Maybe(Manifests)]
    /\ exit \in [Releasers -> [code : {0, 1, 2}, of : Maybe(Receipts)]]
    /\ failures \in 0..scope.failures

Host(p) == scope.host[p]

Init ==
    /\ scope \in Scopes
    /\ main = 1
    /\ local = [p \in Releasers |-> [v \in Versions |-> Absent]]
    /\ origin = [v \in Versions |-> Absent]
    /\ mirror = [v \in Versions |-> Absent]
    /\ daemon = [h \in Hosts |-> [v \in Versions |-> Absent]]
    /\ published = {}
    /\ spool = [h \in Hosts |-> {}]
    /\ brain = [v \in Versions |-> Absent]
    /\ pc = [p \in Releasers |-> "idle"]
    /\ plan = [p \in Releasers |-> Absent]
    /\ digest = [p \in Releasers |-> Absent]
    /\ exit = [p \in Releasers |-> [code |-> 1, of |-> Absent]]
    /\ failures = 0

-----------------------------------------------------------------------------
(***************************************************************************)
(* How a command goes on, and how it ends.                                 *)
(***************************************************************************)

GoTo(p, step) ==
    /\ pc' = [pc EXCEPT ![p] = step]
    /\ UNCHANGED <<plan, digest, exit, failures>>

FaultyReceipt(p) == [version |-> plan[p].version, sha |-> main, digest |-> digest[p]]

\* Exit 0 and 2 come after the attestation was written and name it.
Receipt(p) == [version |-> plan[p].version, sha |-> plan[p].sha, digest |-> digest[p]]

Ends(p, code) ==
    /\ pc' = [pc EXCEPT ![p] = "idle"]
    /\ plan' = [plan EXCEPT ![p] = Absent]
    /\ digest' = [digest EXCEPT ![p] = Absent]
    /\ exit' = [exit EXCEPT ![p] =
                    [code |-> code, of |-> IF code = 1 THEN Absent ELSE Receipt(p)]]

Exit(p, code) == Ends(p, code) /\ UNCHANGED failures

\* A failure after which the command is over: an error it reports, or its death.
Breaks(p, code) ==
    /\ failures < scope.failures
    /\ failures' = failures + 1
    /\ Ends(p, code)

-----------------------------------------------------------------------------
(***************************************************************************)
(* preflight.  The clone is on main, clean and pulled: anything else ends  *)
(* the command before it did something.                                    *)
(***************************************************************************)

FaultyFree(tag, sha) == tag = Absent

Free(tag, sha) == tag # Absent => tag.commit = sha

\* The local tag is free or names HEAD.
Start(p) ==
    /\ pc[p] = "idle"
    /\ \E v \in Versions :
        /\ Free(local[p][v], main)
        /\ plan' = [plan EXCEPT ![p] =
                        [version |-> v, sha |-> main,
                         tagLocal |-> local[p][v] # Absent, tagOnOrigin |-> FALSE]]
    /\ pc' = [pc EXCEPT ![p] = "ask"]
    /\ UNCHANGED <<scope, main, local, remotes, images, evidence, digest, exit, failures>>

\* ls-remote: the tag on origin is free or names HEAD.
AskOrigin(p) ==
    LET there == origin[plan[p].version]
    IN
    /\ pc[p] = "ask"
    /\ \/ /\ Free(there, plan[p].sha)
          /\ plan' = [plan EXCEPT ![p].tagOnOrigin = (there # Absent)]
          /\ pc' = [pc EXCEPT ![p] = "build"]
          /\ UNCHANGED <<digest, exit, failures>>
       \/ /\ ~ Free(there, plan[p].sha)
          /\ Exit(p, 1)
    /\ UNCHANGED <<scope, main, local, remotes, images, evidence>>

-----------------------------------------------------------------------------
(***************************************************************************)
(* login and build_and_push.                                               *)
(***************************************************************************)

\* docker build --tag: the daemon's name moves to the new image.
Built(p) ==
    /\ \E b \in Builds :
        daemon' = [daemon EXCEPT ![Host(p)][plan[p].version] =
                        [version |-> plan[p].version, commit |-> plan[p].sha, build |-> b]]
    /\ UNCHANGED <<published, local, remotes, evidence>>

\* docker push: whatever the daemon names by now.
Pushed(p) ==
    /\ published' = published \cup {daemon[Host(p)][plan[p].version]}
    /\ UNCHANGED <<daemon, local, remotes, evidence>>

\* docker image inspect: the digest exists once the image was pushed.
Inspect(p) ==
    LET image == daemon[Host(p)][plan[p].version]
    IN
    /\ pc[p] = "inspect"
    /\ \/ /\ image \in published
          /\ digest' = [digest EXCEPT ![p] = image]
          /\ pc' = [pc EXCEPT ![p] = "tag"]
          /\ UNCHANGED <<plan, exit, failures>>
       \/ image \notin published /\ Exit(p, 1)
    /\ UNCHANGED <<scope, main, local, remotes, images, evidence>>

-----------------------------------------------------------------------------
(***************************************************************************)
(* tag_and_push: what an earlier run did is skipped, the mirror is pushed  *)
(* always.                                                                 *)
(***************************************************************************)

\* git tag -a refuses a tag that exists; nobody else tags in this clone.
Tagged(p) ==
    /\ IF plan[p].tagLocal
       THEN UNCHANGED local
       ELSE /\ local[p][plan[p].version] = Absent
            /\ local' = [local EXCEPT ![p][plan[p].version] =
                            [commit |-> plan[p].sha, maker |-> p]]
    /\ UNCHANGED <<remotes, images, evidence>>

\* git push of a tag: a no-op for the same object, refused for another one.
Accepts(remote, p) == remote[plan[p].version] \in {Absent, local[p][plan[p].version]}

With(remote, p) == [remote EXCEPT ![plan[p].version] = local[p][plan[p].version]]

OriginPushed(p) ==
    /\ IF plan[p].tagOnOrigin
       THEN UNCHANGED origin
       ELSE Accepts(origin, p) /\ origin' = With(origin, p)
    /\ UNCHANGED <<mirror, local, images, evidence>>

OriginRefuses(p) ==
    /\ pc[p] = "origin"
    /\ ~ plan[p].tagOnOrigin /\ ~ Accepts(origin, p)
    /\ Exit(p, 1)
    /\ UNCHANGED <<scope, main, local, remotes, images, evidence>>

MirrorPushed(p) ==
    /\ IF scope.mirror
       THEN Accepts(mirror, p) /\ mirror' = With(mirror, p)
       ELSE UNCHANGED mirror
    /\ UNCHANGED <<origin, local, images, evidence>>

MirrorRefuses(p) ==
    /\ pc[p] = "mirror"
    /\ scope.mirror /\ ~ Accepts(mirror, p)
    /\ Exit(p, 1)
    /\ UNCHANGED <<scope, main, local, remotes, images, evidence>>

-----------------------------------------------------------------------------
(***************************************************************************)
(* attest, under the key released:<version>.  First the receipt, then the  *)
(* call (SpoolLedger has their steps in detail).                           *)
(***************************************************************************)

WaitingFor(h, v) == {r \in spool[h] : r.version = v}

Spooled(p) ==
    /\ WaitingFor(Host(p), plan[p].version) \subseteq {Receipt(p)}
    /\ spool' = [spool EXCEPT ![Host(p)] = @ \cup {Receipt(p)}]
    /\ UNCHANGED <<local, remotes, images, brain>>

\* A receipt of another build waits under the key: IdempotencyConflict.
KeyIsTaken(p) ==
    /\ pc[p] = "spool"
    /\ ~ WaitingFor(Host(p), plan[p].version) \subseteq {Receipt(p)}
    /\ Exit(p, 1)
    /\ UNCHANGED <<scope, main, local, remotes, images, evidence>>

\* brain keeps the first row of a key; a receipt whose key it holds leaves.
Recorded(h, r) ==
    /\ brain' = [brain EXCEPT ![r.version] = IF @ = Absent THEN r ELSE @]
    /\ spool' = [spool EXCEPT ![h] = @ \ {r}]

FaultyCall(p) ==
    /\ pc[p] = "call"
    /\ Recorded(Host(p), Receipt(p))
    /\ Exit(p, 0)
    /\ UNCHANGED <<scope, main, local, remotes, images>>

\* Another payload under the key is an IdempotencyConflict.
Call(p) ==
    /\ pc[p] = "call"
    /\ Recorded(Host(p), Receipt(p))
    /\ Exit(p, IF brain[plan[p].version] \in {Absent, Receipt(p)} THEN 0 ELSE 1)
    /\ UNCHANGED <<scope, main, local, remotes, images>>

\* No answer, or a refusal: Unattested, the receipt waits; the row may exist.
CallFails(p) ==
    /\ pc[p] = "call"
    /\ brain' \in {brain, [brain EXCEPT ![plan[p].version] =
                                IF @ = Absent THEN Receipt(p) ELSE @]}
    /\ Breaks(p, 2)
    /\ UNCHANGED <<scope, main, local, remotes, images, spool>>

\* `rail ledger replay` on a host.
Replay(h) ==
    /\ \E r \in spool[h] : Recorded(h, r)
    /\ UNCHANGED <<scope, main, local, remotes, images, pc, plan, digest, exit, failures>>

-----------------------------------------------------------------------------
\* What a step does outside its process, and the step after it.
Effect(p) ==
    \/ pc[p] = "build" /\ Built(p)
    \/ pc[p] = "push" /\ Pushed(p)
    \/ pc[p] = "tag" /\ Tagged(p)
    \/ pc[p] = "origin" /\ OriginPushed(p)
    \/ pc[p] = "mirror" /\ MirrorPushed(p)
    \/ pc[p] = "spool" /\ Spooled(p)

After == [build |-> "push", push |-> "inspect", tag |-> "origin", origin |-> "mirror",
          mirror |-> "spool", spool |-> "call"]

Step(p) ==
    /\ Effect(p)
    /\ GoTo(p, After[pc[p]])
    /\ UNCHANGED <<scope, main>>

\* A command fails or dies before a step, or after what the step does.
StepFails(p) ==
    /\ pc[p] \notin {"idle", "call"}
    /\ Breaks(p, 1)
    /\ \/ UNCHANGED <<local, remotes, images, evidence>>
       \/ Effect(p)
    /\ UNCHANGED <<scope, main>>

Progress(p) ==
    \/ AskOrigin(p)
    \/ Inspect(p)
    \/ Step(p)
    \/ OriginRefuses(p)
    \/ MirrorRefuses(p)
    \/ KeyIsTaken(p)
    \/ Call(p)

\* A pull request is merged.
Integrate ==
    /\ main < scope.commits
    /\ main' = main + 1
    /\ UNCHANGED <<scope, local, remotes, images, evidence, pc, plan, digest, exit, failures>>

Next ==
    \/ \E p \in Releasers : Start(p) \/ Progress(p) \/ StepFails(p) \/ CallFails(p)
    \/ \E h \in Hosts : Replay(h)
    \/ Integrate

Held(v) ==
    {r \in (UNION {spool[h] : h \in Hosts}) \cup {brain[w] : w \in Versions} :
        r # Absent /\ r.version = v}

\* A version is tagged at the head of main, and no receipt of it exists.
Owed(v) == origin[v] # Absent /\ origin[v].commit = main /\ Held(v) = {}

\* A release whose tag is on origin is run again until a receipt of it exists,
\* as the errors of `rail release` ask for.
RunAgain(p) ==
    /\ Start(p)
    /\ Owed(plan'[p].version)

Spec ==
    /\ Init
    /\ [][Next]_vars
    /\ \A p \in Releasers : WF_vars(Progress(p)) /\ WF_vars(RunAgain(p))

-----------------------------------------------------------------------------
(***************************************************************************)
(* Properties.                                                             *)
(***************************************************************************)

\* What is attested is what was published: the digest of a receipt is in the
\* registry under its version, and origin's tag of the version -- and the mirror's,
\* where one is declared -- name the receipt's commit.  Unless clones share a host
\* while main moves, the digest was built from that commit: releases from two
\* clones at two commits, and releases that resume another one's work, do not mix
\* their images and tags.
ReleasesAreTrue ==
    \A v \in Versions : \A r \in Held(v) :
        /\ r.digest \in published /\ r.digest.version = v
        /\ NamesAreOwn(scope) => r.digest.commit = r.sha
        /\ origin[v] # Absent /\ origin[v].commit = r.sha
        /\ scope.mirror => mirror[v] # Absent /\ mirror[v].commit = r.sha

\* The mirror never names a commit for a version that GitHub does not name:
\* the push to the mirror follows an accepted push to origin, or a tag found
\* there at the same commit.
MirrorFollowsOrigin ==
    \A v \in Versions :
        mirror[v] # Absent => /\ origin[v] # Absent
                              /\ origin[v].commit = mirror[v].commit

\* A tag on origin has an image of its version in the registry: a tag that could
\* not be taken back is never published first.  Unless clones share a host while
\* main moves, the image was built from the tag's commit.
TaggedHasAnImage ==
    \A v \in Versions : origin[v] # Absent =>
        \E m \in published :
            /\ m.version = v
            /\ NamesAreOwn(scope) => m.commit = origin[v].commit

\* Exit 0 means that brain holds this release, with this digest, for good.
\* Exit 2 means that a receipt of this version and commit waits or is held,
\* whichever clone's build wins the key in the end.
ExitTellsTheRelease ==
    \A p \in Releasers :
        LET r == exit[p].of
        IN
        /\ exit[p].code = 0 => brain[r.version] = r
        /\ exit[p].code = 2 => \E s \in Held(r.version) : s.sha = r.sha

\* A tag pushed to origin ends in a receipt of its release, whatever failed on
\* the way and whichever clone goes on, unless main moves first: from then on
\* preflight refuses the version for ever.
TaggedIsReleased == \A v \in Versions : Owed(v) ~> ~ Owed(v)
=============================================================================
