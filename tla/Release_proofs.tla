--------------------------- MODULE Release_proofs ---------------------------
(***************************************************************************)
(* What releases keep true, for every set of releasers, hosts, versions    *)
(* and builds.                                                             *)
(*                                                                         *)
(* Nothing published is ever taken back: WorldKeeps is all that a step may *)
(* do to the tags, the registry and the ledger.  Knows says what a running *)
(* command knows of them at each of its steps, in terms that WorldKeeps    *)
(* leaves true.                                                            *)
(***************************************************************************)
EXTENDS Release, TLAPS

Names(tag, sha) == tag # Absent /\ tag.commit = sha

ImageOf(image, v, sha) ==
    /\ image \in Manifests
    /\ image.version = v
    /\ NamesAreOwn(scope) => image.commit = sha

PlanKnown(p) ==
    pc[p] # "idle" => plan[p] \in Plans

TagsKnown(p) ==
    pc[p] # "idle" =>
        /\ plan[p].tagLocal => Names(local[p][plan[p].version], plan[p].sha)
        /\ plan[p].tagOnOrigin => Names(origin[plan[p].version], plan[p].sha)
        /\ pc[p] \in {"origin", "mirror", "spool", "call"} =>
            Names(local[p][plan[p].version], plan[p].sha)
        /\ pc[p] \in {"mirror", "spool", "call"} =>
            Names(origin[plan[p].version], plan[p].sha)
        /\ pc[p] \in {"spool", "call"} /\ scope.mirror =>
            Names(mirror[plan[p].version], plan[p].sha)

ImageKnown(p) ==
    /\ pc[p] \in {"push", "inspect"} =>
        ImageOf(daemon[Host(p)][plan[p].version], plan[p].version, plan[p].sha)
    /\ pc[p] \in {"tag", "origin", "mirror", "spool", "call"} =>
        /\ ImageOf(digest[p], plan[p].version, plan[p].sha)
        /\ digest[p] \in published

Knows(p) ==
    /\ PlanKnown(p)
    /\ TagsKnown(p)
    /\ ImageKnown(p)
    /\ pc[p] = "call" => Held(plan[p].version) # {}

\* What a command told its operator, in terms of what is never taken back.
ToldTrue(p) ==
    exit[p].code # 1 =>
        /\ exit[p].of \in Receipts
        /\ Names(origin[exit[p].of.version], exit[p].of.sha)
        /\ Held(exit[p].of.version) # {}
        /\ exit[p].code = 0 => brain[exit[p].of.version] = exit[p].of

TrueReceipt(r) ==
    /\ r.digest \in published
    /\ r.digest.version = r.version
    /\ NamesAreOwn(scope) => r.digest.commit = r.sha
    /\ Names(origin[r.version], r.sha)
    /\ scope.mirror => Names(mirror[r.version], r.sha)

ReceiptsTrue ==
    /\ \A h \in Hosts : \A r \in spool[h] : TrueReceipt(r)
    /\ \A v \in Versions : brain[v] # Absent => brain[v].version = v /\ TrueReceipt(brain[v])

IInv ==
    /\ TypeOK
    /\ \A p \in Releasers : Knows(p) /\ ToldTrue(p)
    /\ MirrorFollowsOrigin
    /\ TaggedHasAnImage
    /\ ReceiptsTrue

\* What a step may do to what is shared: tags, rows and manifests stay, and a
\* release that has a receipt keeps one.
WorldKeeps ==
    /\ scope' = scope
    /\ \A p \in Releasers, v \in Versions :
        local[p][v] # Absent => local'[p][v] = local[p][v]
    /\ \A v \in Versions :
        /\ origin[v] # Absent => origin'[v] = origin[v]
        /\ mirror[v] # Absent => mirror'[v] = mirror[v]
        /\ brain[v] # Absent => brain'[v] = brain[v]
        /\ Held(v) # {} => Held(v)' # {}
    /\ published \subseteq published'

\* What a step leaves to another command.
Untouched(q) ==
    /\ pc'[q] = pc[q]
    /\ plan'[q] = plan[q]
    /\ digest'[q] = digest[q]

-----------------------------------------------------------------------------
(***************************************************************************)
(* Types.                                                                  *)
(***************************************************************************)

LEMMA AbsentIsNothing ==
    ASSUME TypeOK
    PROVE  /\ Absent \notin Tags
           /\ Absent \notin Manifests
           /\ Absent \notin Plans
           /\ Absent \notin Receipts
<1>1. scope.commits \in Nat
    BY ScopesAssumption DEF TypeOK
<1>2. Commits \subseteq Nat
    BY <1>1 DEF Commits
<1>3. Absent \notin Tags
    BY <1>2, AbsentAssumption DEF Tags
<1>4. Absent \notin Manifests
    BY <1>2, AbsentAssumption DEF Manifests
<1>5. Absent \notin Plans
    BY <1>2, AbsentAssumption DEF Plans
<1>6. Manifests \subseteq [version : Versions, commit : Nat, build : Builds]
    BY <1>2 DEF Manifests
<1>7. Absent \notin Receipts
    BY <1>2, <1>6, AbsentAssumption DEF Receipts
<1> QED
    BY <1>3, <1>4, <1>5, <1>7

\* The sets of values depend on the scope alone.
LEMMA SameValues ==
    ASSUME scope' = scope
    PROVE  /\ Commits' = Commits
           /\ Tags' = Tags
           /\ Manifests' = Manifests
           /\ Receipts' = Receipts
           /\ Plans' = Plans
           /\ \A p \in Releasers : Host(p)' = Host(p)
BY DEF Commits, Tags, Manifests, Receipts, Plans, Host

\* A receipt is about a running command's plan.
LEMMA ReceiptTyped ==
    ASSUME TypeOK, NEW p \in Releasers, Knows(p),
           pc[p] \in {"spool", "call"}
    PROVE  /\ Receipt(p) \in Receipts
           /\ TrueReceipt(Receipt(p))
           /\ Receipt(p).version = plan[p].version
           /\ Receipt(p).sha = plan[p].sha
           /\ plan[p] \in Plans
<1>1. plan[p] \in Plans /\ digest[p] \in Manifests
    BY DEF Knows, PlanKnown, ImageKnown, ImageOf
<1>2. Receipt(p) \in Receipts
    BY <1>1 DEF Receipt, Receipts, Plans
<1>3. TrueReceipt(Receipt(p))
    BY DEF Knows, ImageKnown, ImageOf, TagsKnown, TrueReceipt, Receipt
<1> QED
    BY <1>1, <1>2, <1>3 DEF Receipt

\* A command that ends stays typed.
LEMMA EndsTyped ==
    ASSUME TypeOK, NEW p \in Releasers, NEW code \in {0, 1, 2}, Ends(p, code),
           code # 1 => Receipt(p) \in Receipts
    PROVE  /\ pc' \in [Releasers -> Steps \cup {"idle"}]
           /\ plan' \in [Releasers -> Maybe(Plans)]
           /\ digest' \in [Releasers -> Maybe(Manifests)]
           /\ exit' \in [Releasers -> [code : {0, 1, 2}, of : Maybe(Receipts)]]
           /\ pc'[p] = "idle"
           /\ exit'[p].code = code
           /\ code # 1 => exit'[p].of = Receipt(p)
           /\ \A q \in Releasers : q # p => Untouched(q) /\ exit'[q] = exit[q]
BY DEF TypeOK, Ends, Maybe, Untouched

-----------------------------------------------------------------------------
(***************************************************************************)
(* What holds under WorldKeeps whatever step was taken.                    *)
(***************************************************************************)

\* The daemon's name still stands for the image a command built.
DaemonKept(q) ==
    pc[q] \in {"push", "inspect"} =>
        ImageOf(daemon'[Host(q)][plan[q].version], plan[q].version, plan[q].sha)

Kept(q) == Untouched(q) /\ exit'[q] = exit[q] /\ DaemonKept(q)

\* New receipts are true, new tags on origin have an image, new tags on the
\* mirror are origin's.
OnlyTrueReceipts ==
    /\ \A h \in Hosts : \A r \in spool'[h] : r \in spool[h] \/ TrueReceipt(r)
    /\ \A v \in Versions :
        \/ brain'[v] = brain[v]
        \/ brain'[v].version = v /\ TrueReceipt(brain'[v])

OnlyImaged ==
    \A v \in Versions :
        origin'[v] = origin[v] \/ \E m \in published : ImageOf(m, v, origin'[v].commit)

OnlyFollowing ==
    \A v \in Versions :
        mirror'[v] = mirror[v] \/ Names(origin[v], mirror'[v].commit)

LEMMA TrueReceiptsStay ==
    ASSUME WorldKeeps, NEW r, r.version \in Versions, TrueReceipt(r)
    PROVE  TrueReceipt(r)'
BY DEF WorldKeeps, TrueReceipt, Names

LEMMA KnowsStays ==
    ASSUME TypeOK, WorldKeeps, NEW q \in Releasers, Knows(q), Untouched(q), DaemonKept(q)
    PROVE  Knows(q)'
<1>1. CASE pc[q] = "idle"
    BY <1>1 DEF Untouched, Knows, PlanKnown, TagsKnown, ImageKnown
<1>2. CASE pc[q] # "idle"
    <2>1. plan[q] \in Plans /\ plan[q].version \in Versions
        BY <1>2 DEF Knows, PlanKnown, Plans
    <2>2. PlanKnown(q)'
        BY <2>1, SameValues DEF WorldKeeps, Untouched, PlanKnown
    <2>3. TagsKnown(q)'
        BY <1>2, <2>1 DEF Knows, TagsKnown, WorldKeeps, Untouched, Names
    <2>4. ImageKnown(q)'
        BY <2>1, SameValues DEF Knows, ImageKnown, ImageOf, WorldKeeps, Untouched, DaemonKept
    <2>5. (pc[q] = "call" => Held(plan[q].version) # {})'
        BY <2>1 DEF Knows, WorldKeeps, Untouched
    <2> QED
        BY <2>2, <2>3, <2>4, <2>5 DEF Knows
<1> QED
    BY <1>1, <1>2

LEMMA ToldStays ==
    ASSUME WorldKeeps, NEW q \in Releasers, ToldTrue(q), exit'[q] = exit[q],
           Absent \notin Receipts
    PROVE  ToldTrue(q)'
<1> SUFFICES ASSUME exit[q].code # 1
             PROVE  ToldTrue(q)'
    BY DEF ToldTrue
<1>1. exit[q].of \in Receipts /\ exit[q].of.version \in Versions
    BY DEF ToldTrue, Receipts
<1>2. exit[q].code = 0 => brain[exit[q].of.version] # Absent
    BY <1>1 DEF ToldTrue
<1> QED
    BY <1>1, <1>2, SameValues DEF ToldTrue, WorldKeeps, Names

LEMMA Assemble ==
    ASSUME IInv, TypeOK', WorldKeeps,
           \A q \in Releasers : Kept(q) \/ (Knows(q)' /\ ToldTrue(q)'),
           OnlyTrueReceipts, OnlyImaged, OnlyFollowing
    PROVE  IInv'
<1>1. \A q \in Releasers : Knows(q)' /\ ToldTrue(q)'
    BY KnowsStays, ToldStays, AbsentIsNothing DEF IInv, Kept
<1>2. MirrorFollowsOrigin'
    BY DEF IInv, MirrorFollowsOrigin, OnlyFollowing, WorldKeeps, Names
<1>3. TaggedHasAnImage'
    <2> SUFFICES ASSUME NEW v \in Versions, origin'[v] # Absent
                 PROVE  \E m \in published' :
                            /\ m.version = v
                            /\ NamesAreOwn(scope) => m.commit = origin'[v].commit
        BY DEF TaggedHasAnImage, WorldKeeps
    <2>1. CASE origin'[v] = origin[v]
        BY <2>1 DEF IInv, TaggedHasAnImage, WorldKeeps
    <2>2. CASE \E m \in published : ImageOf(m, v, origin'[v].commit)
        BY <2>2 DEF ImageOf, WorldKeeps
    <2> QED
        BY <2>1, <2>2 DEF OnlyImaged
<1>4. ReceiptsTrue'
    <2>1. ASSUME NEW h \in Hosts, NEW r \in spool'[h]
          PROVE  TrueReceipt(r)'
        <3>1. r.version \in Versions
            BY SameValues, <2>1 DEF TypeOK, Receipts, WorldKeeps
        <3>2. TrueReceipt(r)
            BY <2>1 DEF OnlyTrueReceipts, IInv, ReceiptsTrue
        <3> QED
            BY <3>1, <3>2, TrueReceiptsStay
    <2>2. ASSUME NEW v \in Versions, brain'[v] # Absent
          PROVE  brain'[v].version = v /\ TrueReceipt(brain[v])'
        <3> DEFINE r == brain'[v]
        <3>1. r.version = v /\ TrueReceipt(r)
            BY <2>2 DEF OnlyTrueReceipts, IInv, ReceiptsTrue
        <3>2. TrueReceipt(brain[v])'
            BY <3>1 DEF WorldKeeps, TrueReceipt, Names
        <3> QED
            BY <3>1, <3>2
    <2> QED
        BY <2>1, <2>2 DEF ReceiptsTrue
<1> QED
    BY <1>1, <1>2, <1>3, <1>4 DEF IInv

-----------------------------------------------------------------------------
(***************************************************************************)
(* What the effect of a step does.                                         *)
(***************************************************************************)

WorldTyped ==
    /\ local \in [Releasers -> [Versions -> Maybe(Tags)]]
    /\ origin \in [Versions -> Maybe(Tags)]
    /\ mirror \in [Versions -> Maybe(Tags)]
    /\ daemon \in [Hosts -> [Versions -> Maybe(Manifests)]]
    /\ published \subseteq Manifests
    /\ spool \in [Hosts -> SUBSET Receipts]
    /\ brain \in [Versions -> Maybe(Receipts)]

\* The shared state stays as IInv needs it, but for the actor's own daemon.
Harmless ==
    /\ WorldTyped'
    /\ WorldKeeps
    /\ OnlyTrueReceipts
    /\ OnlyImaged
    /\ OnlyFollowing

LEMMA HeldGrows ==
    ASSUME TypeOK,
           \A h \in Hosts : spool[h] \subseteq spool'[h],
           \A w \in Versions : brain[w] # Absent => brain'[w] = brain[w]
    PROVE  \A v \in Versions : Held(v) # {} => Held(v)' # {}
<1> SUFFICES ASSUME NEW v \in Versions, Held(v) # {}
             PROVE  Held(v)' # {}
    OBVIOUS
<1>1. PICK r \in Held(v) : TRUE
    OBVIOUS
<1>2. r # Absent /\ r.version = v
    BY <1>1 DEF Held
<1>3. CASE \E h \in Hosts : r \in spool[h]
    BY <1>2, <1>3 DEF Held
<1>4. CASE \E w \in Versions : r = brain[w]
    <2>1. PICK w \in Versions : r = brain'[w]
        BY <1>2, <1>4
    <2> QED
        BY <1>2, <2>1 DEF Held
<1> QED
    BY <1>1, <1>3, <1>4 DEF Held

\* With the evidence unchanged, tags and manifests only added.
LEMMA QuietEvidence ==
    ASSUME TypeOK, scope' = scope, UNCHANGED evidence,
           \A p \in Releasers, v \in Versions :
                local[p][v] # Absent => local'[p][v] = local[p][v],
           \A v \in Versions :
                /\ origin[v] # Absent => origin'[v] = origin[v]
                /\ mirror[v] # Absent => mirror'[v] = mirror[v],
           published \subseteq published'
    PROVE  WorldKeeps /\ OnlyTrueReceipts
<1>1. \A v \in Versions : Held(v)' = Held(v)
    BY DEF Held, evidence
<1> QED
    BY <1>1 DEF WorldKeeps, OnlyTrueReceipts, evidence

LEMMA NothingDone ==
    ASSUME TypeOK, scope' = scope, UNCHANGED <<local, remotes, images, evidence>>
    PROVE  Harmless /\ \A q \in Releasers : Knows(q) => DaemonKept(q)
<1>1. WorldKeeps /\ OnlyTrueReceipts
    BY QuietEvidence DEF remotes, images
<1>2. OnlyImaged /\ OnlyFollowing
    BY DEF remotes, OnlyImaged, OnlyFollowing
<1>3. WorldTyped'
    BY SameValues DEF TypeOK, WorldTyped, remotes, images, evidence, Maybe
<1>4. \A q \in Releasers : Knows(q) => DaemonKept(q)
    BY DEF Knows, ImageKnown, DaemonKept, images
<1> QED
    BY <1>1, <1>2, <1>3, <1>4 DEF Harmless

\* The build moves the daemon's name, and not under another clone's release.
LEMMA BuildKeeps ==
    ASSUME IInv, scope' = scope, NEW p \in Releasers, pc[p] = "build", Built(p)
    PROVE  /\ Harmless
           /\ \A q \in Releasers : q # p => DaemonKept(q)
           /\ ImageOf(daemon'[Host(p)][plan[p].version], plan[p].version, plan[p].sha)
<1> USE DEF IInv
<1>1. plan[p] \in Plans /\ plan[p].version \in Versions /\ plan[p].sha \in Commits
    BY DEF Knows, PlanKnown, Plans
<1>2. Host(p) \in Hosts
    BY ScopesAssumption DEF TypeOK, Host
<1>3. PICK b \in Builds :
        daemon' = [daemon EXCEPT ![Host(p)][plan[p].version] =
                    [version |-> plan[p].version, commit |-> plan[p].sha, build |-> b]]
    BY DEF Built
<1> DEFINE image == [version |-> plan[p].version, commit |-> plan[p].sha, build |-> b]
<1>4. image \in Manifests
    BY <1>1 DEF Manifests
<1>5. daemon' \in [Hosts -> [Versions -> Maybe(Manifests)]]
    BY <1>1, <1>2, <1>3, <1>4 DEF TypeOK, Maybe
<1>6. daemon'[Host(p)][plan[p].version] = image
    BY <1>1, <1>2, <1>3 DEF TypeOK
<1>7. UNCHANGED <<published, local, remotes, evidence>>
    BY DEF Built
<1>8. WorldKeeps /\ OnlyTrueReceipts
    BY <1>7, QuietEvidence DEF remotes
<1>9. OnlyImaged /\ OnlyFollowing
    BY <1>7 DEF remotes, OnlyImaged, OnlyFollowing
<1>10. WorldTyped'
    BY <1>5, <1>7, SameValues DEF TypeOK, WorldTyped, remotes, evidence, Maybe
<1>11. ASSUME NEW q \in Releasers, q # p, pc[q] \in {"push", "inspect"}
       PROVE  ImageOf(daemon'[Host(q)][plan[q].version], plan[q].version, plan[q].sha)
    <2>1. /\ plan[q].version \in Versions /\ plan[q].sha \in Commits
          /\ ImageOf(daemon[Host(q)][plan[q].version], plan[q].version, plan[q].sha)
        BY <1>11 DEF Knows, PlanKnown, Plans, ImageKnown
    <2>2. Host(q) \in Hosts
        BY ScopesAssumption DEF TypeOK, Host
    <2>3. CASE Host(q) # Host(p) \/ plan[q].version # plan[p].version
        <3>1. daemon'[Host(q)][plan[q].version] = daemon[Host(q)][plan[q].version]
            BY <1>1, <1>2, <1>3, <2>1, <2>2, <2>3 DEF TypeOK
        <3> QED
            BY <2>1, <3>1
    <2>4. CASE Host(q) = Host(p) /\ plan[q].version = plan[p].version
        <3>1. NamesAreOwn(scope) => scope.commits = 1
            BY <1>11, <2>4 DEF NamesAreOwn, Host
        <3>2. NamesAreOwn(scope) => plan[q].sha = plan[p].sha
            BY <1>1, <2>1, <3>1 DEF Commits
        <3> QED
            BY <1>4, <1>6, <2>4, <3>2 DEF ImageOf
    <2> QED
        BY <2>3, <2>4
<1> QED
    BY <1>4, <1>6, <1>8, <1>9, <1>10, <1>11 DEF Harmless, DaemonKept, ImageOf

LEMMA PushKeeps ==
    ASSUME IInv, scope' = scope, NEW p \in Releasers, pc[p] = "push", Pushed(p)
    PROVE  Harmless /\ \A q \in Releasers : DaemonKept(q)
<1> USE DEF IInv
<1> DEFINE image == daemon[Host(p)][plan[p].version]
<1>1. image \in Manifests
    BY DEF Knows, ImageKnown, ImageOf
<1>2. /\ published' = published \cup {image}
      /\ UNCHANGED <<daemon, local, remotes, evidence>>
    BY DEF Pushed
<1>3. WorldKeeps /\ OnlyTrueReceipts
    BY <1>2, QuietEvidence DEF remotes
<1>4. OnlyImaged /\ OnlyFollowing
    BY <1>2 DEF remotes, OnlyImaged, OnlyFollowing
<1>5. WorldTyped'
    BY <1>1, <1>2, SameValues DEF TypeOK, WorldTyped, remotes, evidence, Maybe
<1>6. \A q \in Releasers : DaemonKept(q)
    BY <1>2 DEF Knows, ImageKnown, DaemonKept
<1> QED
    BY <1>3, <1>4, <1>5, <1>6 DEF Harmless

LEMMA TagKeeps ==
    ASSUME IInv, scope' = scope, NEW p \in Releasers, pc[p] = "tag", Tagged(p)
    PROVE  /\ Harmless
           /\ \A q \in Releasers : DaemonKept(q)
           /\ Names(local'[p][plan[p].version], plan[p].sha)
<1> USE DEF IInv
<1> DEFINE tag == [commit |-> plan[p].sha, maker |-> p]
<1>1. plan[p].version \in Versions /\ plan[p].sha \in Commits /\ plan[p].tagLocal \in BOOLEAN
    BY DEF Knows, PlanKnown, Plans
<1>2. tag \in Tags /\ tag # Absent
    BY <1>1, AbsentIsNothing DEF Tags
<1>3. UNCHANGED <<remotes, images, evidence>>
    BY DEF Tagged
<1>4. /\ local' \in [Releasers -> [Versions -> Maybe(Tags)]]
      /\ \A q \in Releasers, v \in Versions :
            local[q][v] # Absent => local'[q][v] = local[q][v]
      /\ Names(local'[p][plan[p].version], plan[p].sha)
    <2>1. CASE plan[p].tagLocal
        BY <2>1 DEF Tagged, TypeOK, Knows, TagsKnown
    <2>2. CASE ~ plan[p].tagLocal
        <3>1. local[p][plan[p].version] = Absent
              /\ local' = [local EXCEPT ![p][plan[p].version] = tag]
            BY <2>2 DEF Tagged
        <3> QED
            BY <1>1, <1>2, <3>1 DEF TypeOK, Maybe, Names
    <2> QED
        BY <1>1, <2>1, <2>2
<1>5. WorldKeeps /\ OnlyTrueReceipts
    BY <1>3, <1>4, QuietEvidence DEF remotes, images
<1>6. OnlyImaged /\ OnlyFollowing
    BY <1>3 DEF remotes, OnlyImaged, OnlyFollowing
<1>7. WorldTyped'
    BY <1>3, <1>4, SameValues DEF TypeOK, WorldTyped, remotes, images, evidence, Maybe
<1>8. \A q \in Releasers : DaemonKept(q)
    BY <1>3 DEF Knows, ImageKnown, DaemonKept, images
<1> QED
    BY <1>4, <1>5, <1>6, <1>7, <1>8 DEF Harmless

\* A push of a tag adds it or leaves the remote alone.
LEMMA PushedTag ==
    ASSUME TypeOK, NEW p \in Releasers, plan[p].version \in Versions,
           Names(local[p][plan[p].version], plan[p].sha),
           NEW remote \in [Versions -> Maybe(Tags)], Accepts(remote, p)
    PROVE  /\ With(remote, p) \in [Versions -> Maybe(Tags)]
           /\ \A v \in Versions : remote[v] # Absent => With(remote, p)[v] = remote[v]
           /\ \A v \in Versions : v # plan[p].version => With(remote, p)[v] = remote[v]
           /\ Names(With(remote, p)[plan[p].version], plan[p].sha)
<1>1. local[p][plan[p].version] \in Maybe(Tags)
    BY DEF TypeOK
<1> QED
    BY <1>1 DEF With, Accepts, Names

LEMMA OriginKeeps ==
    ASSUME IInv, scope' = scope, NEW p \in Releasers, pc[p] = "origin", OriginPushed(p)
    PROVE  /\ Harmless
           /\ \A q \in Releasers : DaemonKept(q)
           /\ Names(origin'[plan[p].version], plan[p].sha)
<1> USE DEF IInv
<1>1. /\ plan[p].version \in Versions /\ plan[p].tagOnOrigin \in BOOLEAN
      /\ Names(local[p][plan[p].version], plan[p].sha)
      /\ plan[p].tagOnOrigin => Names(origin[plan[p].version], plan[p].sha)
      /\ digest[p] \in published
      /\ ImageOf(digest[p], plan[p].version, plan[p].sha)
    BY DEF Knows, PlanKnown, Plans, TagsKnown, ImageKnown
<1>2. UNCHANGED <<mirror, local, images, evidence>>
    BY DEF OriginPushed
<1>3. /\ origin' \in [Versions -> Maybe(Tags)]
      /\ \A v \in Versions : origin[v] # Absent => origin'[v] = origin[v]
      /\ \A v \in Versions : v # plan[p].version => origin'[v] = origin[v]
      /\ Names(origin'[plan[p].version], plan[p].sha)
    <2>1. CASE plan[p].tagOnOrigin
        BY <1>1, <2>1 DEF OriginPushed, TypeOK
    <2>2. CASE ~ plan[p].tagOnOrigin
        <3>1. Accepts(origin, p) /\ origin' = With(origin, p)
            BY <2>2 DEF OriginPushed
        <3>2. origin \in [Versions -> Maybe(Tags)]
            BY DEF TypeOK
        <3> QED
            BY <1>1, <3>1, <3>2, PushedTag
    <2> QED
        BY <1>1, <2>1, <2>2
<1>4. WorldKeeps /\ OnlyTrueReceipts
    BY <1>2, <1>3, QuietEvidence DEF images
<1>5. OnlyImaged
    BY <1>1, <1>3 DEF OnlyImaged, Names
<1>6. OnlyFollowing
    BY <1>2 DEF OnlyFollowing
<1>7. WorldTyped'
    BY <1>2, <1>3, SameValues DEF TypeOK, WorldTyped, images, evidence, Maybe
<1>8. \A q \in Releasers : DaemonKept(q)
    BY <1>2 DEF Knows, ImageKnown, DaemonKept, images
<1> QED
    BY <1>3, <1>4, <1>5, <1>6, <1>7, <1>8 DEF Harmless

LEMMA MirrorKeeps ==
    ASSUME IInv, scope' = scope, NEW p \in Releasers, pc[p] = "mirror", MirrorPushed(p)
    PROVE  /\ Harmless
           /\ \A q \in Releasers : DaemonKept(q)
           /\ scope.mirror => Names(mirror'[plan[p].version], plan[p].sha)
<1> USE DEF IInv
<1>1. /\ plan[p].version \in Versions
      /\ Names(local[p][plan[p].version], plan[p].sha)
      /\ Names(origin[plan[p].version], plan[p].sha)
    BY DEF Knows, PlanKnown, Plans, TagsKnown
<1>2. UNCHANGED <<origin, local, images, evidence>>
    BY DEF MirrorPushed
<1>3. /\ mirror' \in [Versions -> Maybe(Tags)]
      /\ \A v \in Versions : mirror[v] # Absent => mirror'[v] = mirror[v]
      /\ \A v \in Versions : v # plan[p].version => mirror'[v] = mirror[v]
      /\ scope.mirror => Names(mirror'[plan[p].version], plan[p].sha)
      /\ mirror' = mirror \/ Names(mirror'[plan[p].version], plan[p].sha)
    <2>1. CASE ~ scope.mirror
        BY <2>1 DEF MirrorPushed, TypeOK
    <2>2. CASE scope.mirror
        <3>1. Accepts(mirror, p) /\ mirror' = With(mirror, p)
            BY <2>2 DEF MirrorPushed
        <3>2. mirror \in [Versions -> Maybe(Tags)]
            BY DEF TypeOK
        <3> QED
            BY <1>1, <3>1, <3>2, PushedTag
    <2> QED
        BY <2>1, <2>2
<1>4. WorldKeeps /\ OnlyTrueReceipts
    BY <1>2, <1>3, QuietEvidence DEF images
<1>5. OnlyFollowing
    BY <1>1, <1>3 DEF OnlyFollowing, Names
<1>6. OnlyImaged
    BY <1>2 DEF OnlyImaged
<1>7. WorldTyped'
    BY <1>2, <1>3, SameValues DEF TypeOK, WorldTyped, images, evidence, Maybe
<1>8. \A q \in Releasers : DaemonKept(q)
    BY <1>2 DEF Knows, ImageKnown, DaemonKept, images
<1> QED
    BY <1>3, <1>4, <1>5, <1>6, <1>7, <1>8 DEF Harmless

LEMMA SpoolKeeps ==
    ASSUME IInv, scope' = scope, NEW p \in Releasers, pc[p] = "spool", Spooled(p)
    PROVE  /\ Harmless
           /\ \A q \in Releasers : DaemonKept(q)
           /\ \A v \in Versions : v = plan[p].version => Held(v)' # {}
<1> USE DEF IInv
<1>1. /\ Receipt(p) \in Receipts /\ TrueReceipt(Receipt(p))
      /\ Receipt(p).version = plan[p].version
    BY ReceiptTyped
<1>2. Host(p) \in Hosts
    BY ScopesAssumption DEF TypeOK, Host
<1>3. /\ spool' = [spool EXCEPT ![Host(p)] = @ \cup {Receipt(p)}]
      /\ UNCHANGED <<local, remotes, images, brain>>
    BY DEF Spooled
<1>4. /\ spool' \in [Hosts -> SUBSET Receipts]
      /\ Receipt(p) \in spool'[Host(p)]
      /\ \A h \in Hosts : /\ spool[h] \subseteq spool'[h]
                          /\ spool'[h] \subseteq spool[h] \cup {Receipt(p)}
    BY <1>1, <1>2, <1>3 DEF TypeOK
<1>5. \A v \in Versions : Held(v) # {} => Held(v)' # {}
    BY <1>3, <1>4, HeldGrows
<1>6. WorldKeeps
    BY <1>3, <1>5 DEF WorldKeeps, remotes, images
<1>7. OnlyTrueReceipts
    BY <1>1, <1>3, <1>4 DEF OnlyTrueReceipts
<1>8. OnlyImaged /\ OnlyFollowing
    BY <1>3 DEF remotes, OnlyImaged, OnlyFollowing
<1>9. WorldTyped'
    BY <1>3, <1>4, SameValues DEF TypeOK, WorldTyped, remotes, images, Maybe
<1>10. \A q \in Releasers : DaemonKept(q)
    BY <1>3 DEF Knows, ImageKnown, DaemonKept, images
<1>11. \A v \in Versions : v = plan[p].version => Receipt(p) \in Held(v)'
    BY <1>1, <1>2, <1>4, AbsentIsNothing DEF Held
<1> QED
    BY <1>6, <1>7, <1>8, <1>9, <1>10, <1>11 DEF Harmless

\* brain takes a true receipt, or keeps the row it has of the version.
LEMMA RowKeeps ==
    ASSUME IInv, NEW r \in Receipts, TrueReceipt(r),
           brain' = [brain EXCEPT ![r.version] = IF @ = Absent THEN r ELSE @]
    PROVE  /\ brain' \in [Versions -> Maybe(Receipts)]
           /\ \A v \in Versions : brain[v] # Absent => brain'[v] = brain[v]
           /\ \A v \in Versions : \/ brain'[v] = brain[v]
                                  \/ brain'[v].version = v /\ TrueReceipt(brain'[v])
           /\ brain'[r.version] # Absent
           /\ brain'[r.version].version = r.version
           /\ brain[r.version] \in {Absent, r} => brain'[r.version] = r
<1>1. r.version \in Versions /\ r # Absent
    BY AbsentIsNothing DEF Receipts, IInv
<1>2. brain \in [Versions -> Maybe(Receipts)]
    BY DEF IInv, TypeOK
<1>3. brain[r.version] # Absent => brain[r.version].version = r.version
    BY <1>1 DEF IInv, ReceiptsTrue
<1> QED
    BY <1>1, <1>2, <1>3 DEF Maybe

LEMMA RecordKeeps ==
    ASSUME IInv, scope' = scope, NEW h \in Hosts, NEW r \in Receipts, TrueReceipt(r),
           Recorded(h, r), UNCHANGED <<local, remotes, images>>
    PROVE  /\ Harmless
           /\ \A q \in Releasers : DaemonKept(q)
           /\ Held(r.version)' # {}
           /\ brain[r.version] \in {Absent, r} => brain'[r.version] = r
<1> USE DEF IInv
<1>1. /\ brain' = [brain EXCEPT ![r.version] = IF @ = Absent THEN r ELSE @]
      /\ spool' = [spool EXCEPT ![h] = @ \ {r}]
    BY DEF Recorded
<1>2. /\ brain' \in [Versions -> Maybe(Receipts)]
      /\ \A v \in Versions : brain[v] # Absent => brain'[v] = brain[v]
      /\ \A v \in Versions : \/ brain'[v] = brain[v]
                             \/ brain'[v].version = v /\ TrueReceipt(brain'[v])
      /\ brain'[r.version] # Absent
      /\ brain'[r.version].version = r.version
      /\ brain[r.version] \in {Absent, r} => brain'[r.version] = r
    BY <1>1, RowKeeps
<1>3. /\ spool' \in [Hosts -> SUBSET Receipts]
      /\ \A g \in Hosts : /\ spool'[g] \subseteq spool[g]
                          /\ \A s \in spool[g] : s \in spool'[g] \/ s = r
    BY <1>1 DEF TypeOK
<1>4. r.version \in Versions
    BY DEF Receipts
<1>5. brain'[r.version] \in Held(r.version)'
    BY <1>2, <1>4 DEF Held
<1>6. ASSUME NEW v \in Versions, Held(v) # {}
      PROVE  Held(v)' # {}
    <2>1. PICK s \in Held(v) : s # Absent /\ s.version = v
        BY <1>6 DEF Held
    <2>2. CASE s = r
        BY <1>5, <2>1, <2>2
    <2>3. CASE s # r /\ \E g \in Hosts : s \in spool[g]
        BY <1>3, <2>1, <2>3 DEF Held
    <2>4. CASE \E w \in Versions : s = brain[w]
        <3>1. PICK w \in Versions : s = brain'[w]
            BY <1>2, <2>1, <2>4
        <3> QED
            BY <2>1, <3>1 DEF Held
    <2> QED
        BY <2>1, <2>2, <2>3, <2>4 DEF Held
<1>7. WorldKeeps
    BY <1>2, <1>6 DEF WorldKeeps, remotes, images
<1>8. OnlyTrueReceipts
    BY <1>2, <1>3 DEF OnlyTrueReceipts
<1>9. OnlyImaged /\ OnlyFollowing
    BY DEF remotes, OnlyImaged, OnlyFollowing
<1>10. WorldTyped'
    BY <1>2, <1>3, SameValues DEF TypeOK, WorldTyped, remotes, images, Maybe
<1>11. \A q \in Releasers : DaemonKept(q)
    BY DEF Knows, ImageKnown, DaemonKept, images
<1> QED
    BY <1>2, <1>5, <1>7, <1>8, <1>9, <1>10, <1>11 DEF Harmless

\* The effect of any step.
LEMMA EffectKeeps ==
    ASSUME IInv, scope' = scope, NEW p \in Releasers, Effect(p)
    PROVE  Harmless /\ \A q \in Releasers : q # p => DaemonKept(q)
<1>1. CASE pc[p] = "build" /\ Built(p)
    BY <1>1, BuildKeeps
<1>2. CASE pc[p] = "push" /\ Pushed(p)
    BY <1>2, PushKeeps
<1>3. CASE pc[p] = "tag" /\ Tagged(p)
    BY <1>3, TagKeeps
<1>4. CASE pc[p] = "origin" /\ OriginPushed(p)
    BY <1>4, OriginKeeps
<1>5. CASE pc[p] = "mirror" /\ MirrorPushed(p)
    BY <1>5, MirrorKeeps
<1>6. CASE pc[p] = "spool" /\ Spooled(p)
    BY <1>6, SpoolKeeps
<1> QED
    BY <1>1, <1>2, <1>3, <1>4, <1>5, <1>6 DEF Effect

-----------------------------------------------------------------------------
(***************************************************************************)
(* How a command goes on, and how it ends.                                 *)
(***************************************************************************)

LEMMA TypesAssemble ==
    ASSUME TypeOK, Harmless, main' \in Commits, failures' \in 0..scope.failures,
           pc' \in [Releasers -> Steps \cup {"idle"}],
           plan' \in [Releasers -> Maybe(Plans)],
           digest' \in [Releasers -> Maybe(Manifests)],
           exit' \in [Releasers -> [code : {0, 1, 2}, of : Maybe(Receipts)]]
    PROVE  TypeOK'
<1>1. scope' = scope
    BY DEF Harmless, WorldKeeps
<1> QED
    BY <1>1, SameValues DEF TypeOK, Harmless, WorldTyped, Maybe

LEMMA Moves ==
    ASSUME IInv, NEW p \in Releasers, Harmless, main' = main, failures' = failures,
           \A q \in Releasers : q # p => Untouched(q) /\ DaemonKept(q),
           pc' \in [Releasers -> Steps \cup {"idle"}],
           plan' \in [Releasers -> Maybe(Plans)],
           digest' \in [Releasers -> Maybe(Manifests)],
           exit' = exit,
           Knows(p)'
    PROVE  IInv'
<1>1. TypeOK'
    BY TypesAssemble DEF IInv, TypeOK
<1>2. WorldKeeps /\ OnlyTrueReceipts /\ OnlyImaged /\ OnlyFollowing
    BY DEF Harmless
<1>3. ToldTrue(p)'
    BY <1>2, ToldStays, AbsentIsNothing DEF IInv
<1>4. \A q \in Releasers : Kept(q) \/ (Knows(q)' /\ ToldTrue(q)')
    BY <1>3 DEF Kept
<1> QED
    BY <1>1, <1>2, <1>4, Assemble

LEMMA Finishes ==
    ASSUME IInv, NEW p \in Releasers, NEW code \in {0, 1, 2}, Ends(p, code),
           Harmless, main' = main, failures' \in 0..scope.failures,
           \A q \in Releasers : q # p => DaemonKept(q),
           code # 1 => /\ pc[p] = "call"
                       /\ \A v \in Versions : v = plan[p].version => Held(v)' # {},
           code = 0 => brain'[plan[p].version] = Receipt(p)
    PROVE  IInv'
<1>1. WorldKeeps /\ OnlyTrueReceipts /\ OnlyImaged /\ OnlyFollowing /\ scope' = scope
    BY DEF Harmless, WorldKeeps
<1>2. code # 1 => /\ Receipt(p) \in Receipts /\ TrueReceipt(Receipt(p))
                  /\ Receipt(p).version = plan[p].version
    BY ReceiptTyped DEF IInv
<1>3. /\ pc' \in [Releasers -> Steps \cup {"idle"}]
      /\ plan' \in [Releasers -> Maybe(Plans)]
      /\ digest' \in [Releasers -> Maybe(Manifests)]
      /\ exit' \in [Releasers -> [code : {0, 1, 2}, of : Maybe(Receipts)]]
      /\ pc'[p] = "idle"
      /\ exit'[p].code = code
      /\ code # 1 => exit'[p].of = Receipt(p)
      /\ \A q \in Releasers : q # p => Untouched(q) /\ exit'[q] = exit[q]
    BY <1>2, EndsTyped DEF IInv
<1>4. TypeOK'
    BY <1>3, TypesAssemble DEF IInv, TypeOK
<1>5. Knows(p)'
    BY <1>3 DEF Knows, PlanKnown, TagsKnown, ImageKnown
<1>6. ToldTrue(p)'
    <2>1. CASE code = 1
        BY <1>3, <2>1 DEF ToldTrue
    <2>2. CASE code # 1
        <3> DEFINE r == exit'[p].of
        <3>1. r = Receipt(p) /\ r \in Receipts /\ TrueReceipt(r) /\ r.version \in Versions
            BY <1>2, <1>3, <2>2 DEF Receipts
        <3>2. Names(origin'[r.version], r.sha)
            BY <1>1, <3>1 DEF TrueReceipt, WorldKeeps, Names
        <3>3. Held(exit[p].of.version)' # {}
            BY <1>2, <2>2, <3>1
        <3>4. code = 0 => brain'[r.version] = r
            BY <1>2, <2>2, <3>1
        <3> QED
            BY <1>1, <1>3, <3>1, <3>2, <3>3, <3>4, SameValues DEF ToldTrue, Names
    <2> QED
        BY <2>1, <2>2
<1>7. \A q \in Releasers : Kept(q) \/ (Knows(q)' /\ ToldTrue(q)')
    BY <1>3, <1>5, <1>6 DEF Kept
<1> QED
    BY <1>1, <1>4, <1>7, Assemble

-----------------------------------------------------------------------------
(***************************************************************************)
(* The actions.                                                            *)
(***************************************************************************)

LEMMA StartKeeps ==
    ASSUME IInv, NEW p \in Releasers, Start(p)
    PROVE  IInv'
<1> USE DEF IInv
<1>1. PICK v \in Versions :
        /\ Free(local[p][v], main)
        /\ plan' = [plan EXCEPT ![p] =
                        [version |-> v, sha |-> main,
                         tagLocal |-> local[p][v] # Absent, tagOnOrigin |-> FALSE]]
    BY DEF Start
<1>2. /\ pc' = [pc EXCEPT ![p] = "ask"]
      /\ UNCHANGED <<scope, main, local, remotes, images, evidence, digest, exit, failures>>
    BY DEF Start
<1>3. [version |-> v, sha |-> main, tagLocal |-> local[p][v] # Absent,
       tagOnOrigin |-> FALSE] \in Plans
    BY DEF TypeOK, Plans
<1>4. Harmless /\ \A q \in Releasers : DaemonKept(q)
    BY <1>2, NothingDone
<1>5. /\ pc' \in [Releasers -> Steps \cup {"idle"}]
      /\ plan' \in [Releasers -> Maybe(Plans)]
      /\ digest' \in [Releasers -> Maybe(Manifests)]
    BY <1>1, <1>2, <1>3 DEF TypeOK, Maybe, Steps
<1>6. Knows(p)'
    <2>1. pc'[p] = "ask" /\ plan'[p] = [version |-> v, sha |-> main,
            tagLocal |-> local[p][v] # Absent, tagOnOrigin |-> FALSE]
        BY <1>1, <1>2 DEF TypeOK
    <2>2. PlanKnown(p)'
        BY <1>2, <1>3, <2>1, SameValues DEF PlanKnown
    <2>3. TagsKnown(p)'
        <3> DEFINE here == local[p][v] # Absent
        <3>1. plan'[p] = [version |-> v, sha |-> main, tagLocal |-> here,
                          tagOnOrigin |-> FALSE]
            BY <2>1
        <3> HIDE DEF here
        <3>2. plan'[p].version = v /\ plan'[p].sha = main
            BY <3>1
        <3>3. plan'[p].tagLocal = here
            BY <3>1
        <3>4. plan'[p].tagOnOrigin = FALSE
            BY <3>1
        <3>5. plan'[p].tagLocal => Names(local'[p][v], main)
            BY <1>1, <1>2, <3>3 DEF Names, Free, here
        <3> QED
            BY <2>1, <3>2, <3>4, <3>5 DEF TagsKnown, Names
    <2> QED
        BY <2>1, <2>2, <2>3 DEF Knows, ImageKnown
<1>7. \A q \in Releasers : q # p => Untouched(q)
    BY <1>1, <1>2 DEF TypeOK, Untouched
<1> QED
    BY <1>2, <1>4, <1>5, <1>6, <1>7, Moves

\* A command that ends with exit 1 and did nothing in this step.
LEMMA RefusalKeeps ==
    ASSUME IInv, NEW p \in Releasers, Exit(p, 1),
           UNCHANGED <<scope, main, local, remotes, images, evidence>>
    PROVE  IInv'
<1>1. Harmless /\ \A q \in Releasers : DaemonKept(q)
    BY NothingDone DEF IInv
<1>2. Ends(p, 1) /\ failures' \in 0..scope.failures
    BY DEF Exit, IInv, TypeOK
<1> QED
    BY <1>1, <1>2, Finishes

LEMMA AskOriginKeeps ==
    ASSUME IInv, NEW p \in Releasers, AskOrigin(p)
    PROVE  IInv'
<1> USE DEF IInv
<1>1. CASE Exit(p, 1)
    BY <1>1, RefusalKeeps DEF AskOrigin
<1>2. CASE ~ Exit(p, 1)
    <2> DEFINE there == origin[plan[p].version]
    <2>1. /\ pc[p] = "ask"
          /\ Free(there, plan[p].sha)
          /\ plan' = [plan EXCEPT ![p].tagOnOrigin = (there # Absent)]
          /\ pc' = [pc EXCEPT ![p] = "build"]
          /\ UNCHANGED <<scope, main, local, remotes, images, evidence, digest, exit, failures>>
        BY <1>2 DEF AskOrigin
    <2>2. plan[p] \in Plans
        BY <2>1 DEF Knows, PlanKnown
    <2>3. /\ plan'[p] \in Plans
          /\ plan'[p] = [plan[p] EXCEPT !.tagOnOrigin = (there # Absent)]
          /\ plan' \in [Releasers -> Maybe(Plans)]
          /\ pc' \in [Releasers -> Steps \cup {"idle"}]
          /\ digest' \in [Releasers -> Maybe(Manifests)]
          /\ pc'[p] = "build"
        BY <2>1, <2>2 DEF TypeOK, Maybe, Plans, Steps
    <2>4. Harmless /\ \A q \in Releasers : DaemonKept(q)
        BY <2>1, NothingDone
    <2>5. Knows(p)'
        <3>1. PlanKnown(p)'
            BY <2>1, <2>3, SameValues DEF PlanKnown
        <3>2. /\ plan'[p].version = plan[p].version /\ plan'[p].sha = plan[p].sha
              /\ plan'[p].tagLocal = plan[p].tagLocal
              /\ plan'[p].tagOnOrigin = (there # Absent)
            BY <2>2, <2>3 DEF Plans
        <3>3. TagsKnown(p)'
            <4>1. /\ pc'[p] = "build" /\ UNCHANGED <<local, origin, mirror, scope>>
                  /\ there = origin[plan[p].version] /\ Free(there, plan[p].sha)
                  /\ pc[p] # "idle"
                BY <2>1, <2>3 DEF remotes
            <4>2. plan[p].tagLocal => Names(local[p][plan[p].version], plan[p].sha)
                BY <4>1 DEF Knows, TagsKnown
            <4>3. there # Absent => Names(origin[plan[p].version], plan[p].sha)
                BY <4>1 DEF Names, Free
            <4> QED
                BY <3>2, <4>1, <4>2, <4>3 DEF TagsKnown, Names
        <3> QED
            BY <2>3, <3>1, <3>3 DEF Knows, ImageKnown
    <2>6. \A q \in Releasers : q # p => Untouched(q)
        BY <2>1 DEF TypeOK, Untouched
    <2> QED
        BY <2>1, <2>3, <2>4, <2>5, <2>6, Moves
<1> QED
    BY <1>1, <1>2

LEMMA InspectKeeps ==
    ASSUME IInv, NEW p \in Releasers, Inspect(p)
    PROVE  IInv'
<1> USE DEF IInv
<1>1. CASE Exit(p, 1)
    BY <1>1, RefusalKeeps DEF Inspect
<1>2. CASE ~ Exit(p, 1)
    <2> DEFINE image == daemon[Host(p)][plan[p].version]
    <2>1. /\ pc[p] = "inspect"
          /\ image \in published
          /\ digest' = [digest EXCEPT ![p] = image]
          /\ pc' = [pc EXCEPT ![p] = "tag"]
          /\ UNCHANGED <<scope, main, local, remotes, images, evidence, plan, exit, failures>>
        BY <1>2 DEF Inspect
    <2>2. ImageOf(image, plan[p].version, plan[p].sha)
        BY <2>1 DEF Knows, ImageKnown
    <2>3. /\ digest' \in [Releasers -> Maybe(Manifests)]
          /\ plan' \in [Releasers -> Maybe(Plans)]
          /\ pc' \in [Releasers -> Steps \cup {"idle"}]
          /\ digest'[p] = image
          /\ pc'[p] = "tag"
        BY <2>1, <2>2 DEF TypeOK, Maybe, Steps, ImageOf
    <2>4. Harmless /\ \A q \in Releasers : DaemonKept(q)
        BY <2>1, NothingDone
    <2>5. Knows(p)'
        <3>1. PlanKnown(p)'
            BY <2>1, SameValues DEF Knows, PlanKnown
        <3>2. TagsKnown(p)'
            BY <2>1, <2>3 DEF Knows, TagsKnown, Names, remotes
        <3>3. ImageKnown(p)'
            BY <2>1, <2>2, <2>3, SameValues DEF ImageKnown, ImageOf, images
        <3> QED
            BY <2>3, <3>1, <3>2, <3>3 DEF Knows
    <2>6. \A q \in Releasers : q # p => Untouched(q)
        BY <2>1 DEF TypeOK, Untouched
    <2> QED
        BY <2>1, <2>3, <2>4, <2>5, <2>6, Moves
<1> QED
    BY <1>1, <1>2

\* A step that is done leaves the command knowing what the step did.
LEMMA StepKeeps ==
    ASSUME IInv, NEW p \in Releasers, Step(p)
    PROVE  IInv'
<1> USE DEF IInv
<1>1. /\ Effect(p) /\ pc' = [pc EXCEPT ![p] = After[pc[p]]]
      /\ UNCHANGED <<scope, main, plan, digest, exit, failures>>
    BY DEF Step, GoTo
<1>2. Harmless /\ \A q \in Releasers : q # p => DaemonKept(q)
    BY <1>1, EffectKeeps
<1>3. pc[p] \in {"build", "push", "tag", "origin", "mirror", "spool"}
    BY <1>1 DEF Effect
<1>4. After[pc[p]] \in Steps /\ pc'[p] = After[pc[p]]
    BY <1>1, <1>3 DEF After, Steps, TypeOK
<1>5. plan[p] \in Plans /\ plan[p].version \in Versions
    BY <1>3 DEF Knows, PlanKnown, Plans
<1>6. WorldKeeps
    BY <1>2 DEF Harmless
<1>7. PlanKnown(p)'
    BY <1>1, <1>5, SameValues DEF PlanKnown
<1>8. Knows(p)'
    <2> DEFINE Steady == /\ plan[p].tagLocal => Names(local'[p][plan[p].version], plan[p].sha)
                         /\ plan[p].tagOnOrigin => Names(origin'[plan[p].version], plan[p].sha)
    <2>1. Steady
        BY <1>3, <1>5, <1>6 DEF Knows, TagsKnown, WorldKeeps, Names
    <2>2. CASE pc[p] = "build"
        <3>1. pc'[p] = "push" /\ Built(p)
            BY <1>1, <1>4, <2>2 DEF After, Effect
        <3>2. TagsKnown(p)'
            BY <1>1, <2>1, <3>1 DEF TagsKnown, Names
        <3>3. ImageKnown(p)'
            BY <1>1, <2>2, <3>1, BuildKeeps, SameValues DEF ImageKnown, ImageOf
        <3> QED
            BY <1>7, <3>1, <3>2, <3>3 DEF Knows
    <2>3. CASE pc[p] = "push"
        <3>1. pc'[p] = "inspect" /\ Pushed(p)
            BY <1>1, <1>4, <2>3 DEF After, Effect
        <3>2. TagsKnown(p)'
            BY <1>1, <2>1, <3>1 DEF TagsKnown, Names
        <3>3. ImageKnown(p)'
            BY <1>1, <2>3, <3>1, SameValues DEF Pushed, Knows, ImageKnown, ImageOf
        <3> QED
            BY <1>7, <3>1, <3>2, <3>3 DEF Knows
    <2>4. CASE pc[p] = "tag"
        <3>1. pc'[p] = "origin" /\ Tagged(p)
            BY <1>1, <1>4, <2>4 DEF After, Effect
        <3>2. TagsKnown(p)'
            BY <1>1, <2>1, <2>4, <3>1, TagKeeps DEF TagsKnown, Names
        <3>3. ImageKnown(p)'
            BY <1>1, <1>6, <2>4, <3>1, SameValues DEF Knows, ImageKnown, ImageOf, WorldKeeps
        <3> QED
            BY <1>7, <3>1, <3>2, <3>3 DEF Knows
    <2>5. CASE pc[p] = "origin"
        <3>1. pc'[p] = "mirror" /\ OriginPushed(p)
            BY <1>1, <1>4, <2>5 DEF After, Effect
        <3>2. Names(local'[p][plan[p].version], plan[p].sha)
            BY <1>5, <1>6, <2>5 DEF Knows, TagsKnown, WorldKeeps, Names
        <3>3. TagsKnown(p)'
            BY <1>1, <2>1, <2>5, <3>1, <3>2, OriginKeeps DEF TagsKnown, Names
        <3>4. ImageKnown(p)'
            BY <1>1, <1>6, <2>5, <3>1, SameValues DEF Knows, ImageKnown, ImageOf, WorldKeeps
        <3> QED
            BY <1>7, <3>1, <3>3, <3>4 DEF Knows
    <2>6. CASE pc[p] = "mirror"
        <3>1. pc'[p] = "spool" /\ MirrorPushed(p)
            BY <1>1, <1>4, <2>6 DEF After, Effect
        <3>2. /\ Names(local'[p][plan[p].version], plan[p].sha)
              /\ Names(origin'[plan[p].version], plan[p].sha)
            BY <1>5, <1>6, <2>6 DEF Knows, TagsKnown, WorldKeeps, Names
        <3>3. TagsKnown(p)'
            BY <1>1, <2>1, <2>6, <3>1, <3>2, MirrorKeeps DEF TagsKnown, Names
        <3>4. ImageKnown(p)'
            BY <1>1, <1>6, <2>6, <3>1, SameValues DEF Knows, ImageKnown, ImageOf, WorldKeeps
        <3> QED
            BY <1>7, <3>1, <3>3, <3>4 DEF Knows
    <2>7. CASE pc[p] = "spool"
        <3>1. pc'[p] = "call" /\ Spooled(p)
            BY <1>1, <1>4, <2>7 DEF After, Effect
        <3>2. TagsKnown(p)'
            BY <1>1, <2>7, <3>1 DEF Spooled, remotes, Knows, TagsKnown, Names
        <3>3. ImageKnown(p)'
            BY <1>1, <1>6, <2>7, <3>1, SameValues DEF Knows, ImageKnown, ImageOf, WorldKeeps
        <3>4. Held(plan[p].version)' # {}
            BY <1>1, <1>5, <2>7, <3>1, SpoolKeeps
        <3> QED
            BY <1>7, <3>2, <3>3, <3>4 DEF Knows
    <2> QED
        BY <1>3, <2>2, <2>3, <2>4, <2>5, <2>6, <2>7
<1>9. /\ pc' \in [Releasers -> Steps \cup {"idle"}]
      /\ plan' \in [Releasers -> Maybe(Plans)]
      /\ digest' \in [Releasers -> Maybe(Manifests)]
      /\ \A q \in Releasers : q # p => Untouched(q)
    BY <1>1, <1>4 DEF TypeOK, Untouched
<1> QED
    BY <1>1, <1>2, <1>8, <1>9, Moves

LEMMA CallKeeps ==
    ASSUME IInv, NEW p \in Releasers, Call(p)
    PROVE  IInv'
<1> USE DEF IInv
<1>1. /\ pc[p] = "call"
      /\ Recorded(Host(p), Receipt(p))
      /\ UNCHANGED <<scope, main, local, remotes, images>>
    BY DEF Call
<1>2. /\ Receipt(p) \in Receipts /\ TrueReceipt(Receipt(p))
      /\ Receipt(p).version = plan[p].version
    BY <1>1, ReceiptTyped
<1>3. Host(p) \in Hosts
    BY ScopesAssumption DEF TypeOK, Host
<1>4. /\ Harmless /\ \A q \in Releasers : DaemonKept(q)
      /\ \A v \in Versions : v = plan[p].version => Held(v)' # {}
      /\ brain[plan[p].version] \in {Absent, Receipt(p)} =>
            brain'[plan[p].version] = Receipt(p)
    <2>1. \A h \in Hosts, r \in Receipts : TrueReceipt(r) /\ Recorded(h, r) =>
            /\ Harmless /\ \A q \in Releasers : DaemonKept(q)
            /\ Held(r.version)' # {}
            /\ brain[r.version] \in {Absent, r} => brain'[r.version] = r
        BY <1>1, RecordKeeps
    <2>2. PICK r \in Receipts : r = Receipt(p)
        BY <1>2
    <2>3. TrueReceipt(r) /\ Recorded(Host(p), r) /\ r.version = plan[p].version
        BY <1>1, <1>2, <2>2
    <2> QED
        BY <1>3, <2>1, <2>2, <2>3
<1>5. Ends(p, IF brain[plan[p].version] \in {Absent, Receipt(p)} THEN 0 ELSE 1)
      /\ failures' = failures
    BY DEF Call, Exit
<1>6. CASE brain[plan[p].version] \in {Absent, Receipt(p)}
    BY <1>1, <1>4, <1>5, <1>6, Finishes DEF TypeOK
<1>7. CASE brain[plan[p].version] \notin {Absent, Receipt(p)}
    BY <1>1, <1>4, <1>5, <1>7, Finishes DEF TypeOK
<1> QED
    BY <1>6, <1>7

\* A command stopped by a failure.
LEMMA BreaksBound ==
    ASSUME TypeOK, NEW p \in Releasers, NEW code, Breaks(p, code)
    PROVE  failures' \in 0..scope.failures /\ Ends(p, code)
<1>1. scope.failures \in Nat
    BY ScopesAssumption DEF TypeOK
<1> QED
    BY <1>1 DEF TypeOK, Breaks

LEMMA StepFailsKeeps ==
    ASSUME IInv, NEW p \in Releasers, StepFails(p)
    PROVE  IInv'
<1>1. UNCHANGED <<scope, main>> /\ Breaks(p, 1)
    BY DEF StepFails
<1>2. Harmless /\ \A q \in Releasers : q # p => DaemonKept(q)
    <2>1. CASE UNCHANGED <<local, remotes, images, evidence>>
        BY <1>1, <2>1, NothingDone DEF IInv
    <2>2. CASE Effect(p)
        BY <1>1, <2>2, EffectKeeps
    <2> QED
        BY <2>1, <2>2 DEF StepFails
<1> QED
    BY <1>1, <1>2, BreaksBound, Finishes DEF IInv

LEMMA CallFailsKeeps ==
    ASSUME IInv, NEW p \in Releasers, CallFails(p)
    PROVE  IInv'
<1> USE DEF IInv
<1>1. /\ pc[p] = "call" /\ Breaks(p, 2)
      /\ UNCHANGED <<scope, main, local, remotes, images, spool>>
    BY DEF CallFails
<1>2. /\ Receipt(p) \in Receipts /\ TrueReceipt(Receipt(p))
      /\ Receipt(p).version = plan[p].version
      /\ plan[p].version \in Versions
    BY <1>1, ReceiptTyped DEF Plans
<1>3. /\ brain' \in [Versions -> Maybe(Receipts)]
      /\ \A v \in Versions : brain[v] # Absent => brain'[v] = brain[v]
      /\ \A v \in Versions : \/ brain'[v] = brain[v]
                             \/ brain'[v].version = v /\ TrueReceipt(brain'[v])
    <2>1. CASE brain' = brain
        BY <2>1 DEF TypeOK
    <2>2. CASE brain' # brain
        <3>1. brain' = [brain EXCEPT ![Receipt(p).version] =
                            IF @ = Absent THEN Receipt(p) ELSE @]
            BY <1>2, <2>2 DEF CallFails
        <3>2. \A r \in Receipts :
                TrueReceipt(r) /\ brain' = [brain EXCEPT ![r.version] =
                                                IF @ = Absent THEN r ELSE @]
                => /\ brain' \in [Versions -> Maybe(Receipts)]
                   /\ \A v \in Versions : brain[v] # Absent => brain'[v] = brain[v]
                   /\ \A v \in Versions : \/ brain'[v] = brain[v]
                                          \/ brain'[v].version = v /\ TrueReceipt(brain'[v])
            BY RowKeeps
        <3> QED
            BY <1>2, <3>1, <3>2
    <2> QED
        BY <2>1, <2>2
<1>4. \A v \in Versions : Held(v) # {} => Held(v)' # {}
    BY <1>1, <1>3, HeldGrows
<1>5. Harmless
    <2>1. WorldKeeps
        BY <1>1, <1>3, <1>4 DEF WorldKeeps, remotes, images
    <2>2. OnlyTrueReceipts /\ OnlyImaged /\ OnlyFollowing
        BY <1>1, <1>3 DEF OnlyTrueReceipts, OnlyImaged, OnlyFollowing, remotes
    <2>3. WorldTyped'
        BY <1>1, <1>3, SameValues DEF TypeOK, WorldTyped, remotes, images, Maybe
    <2> QED
        BY <2>1, <2>2, <2>3 DEF Harmless
<1>6. \A q \in Releasers : DaemonKept(q)
    BY <1>1 DEF Knows, ImageKnown, DaemonKept, images
<1>7. \A v \in Versions : v = plan[p].version => Held(v)' # {}
    BY <1>1, <1>4 DEF Knows
<1> QED
    BY <1>1, <1>5, <1>6, <1>7, BreaksBound, Finishes

\* A step of nobody's command.
LEMMA OutsideKeeps ==
    ASSUME IInv, Harmless, main' \in Commits, \A q \in Releasers : DaemonKept(q),
           UNCHANGED <<pc, plan, digest, exit, failures>>
    PROVE  IInv'
<1>1. TypeOK'
    BY TypesAssemble DEF IInv, TypeOK
<1>2. \A q \in Releasers : Kept(q)
    BY DEF Kept, Untouched
<1> QED
    BY <1>1, <1>2, Assemble DEF Harmless

LEMMA ReplayKeeps ==
    ASSUME IInv, NEW h \in Hosts, Replay(h)
    PROVE  IInv'
<1> USE DEF IInv
<1>1. PICK r \in spool[h] : Recorded(h, r)
    BY DEF Replay
<1>2. UNCHANGED <<scope, main, local, remotes, images, pc, plan, digest, exit, failures>>
    BY DEF Replay
<1>3. r \in Receipts /\ TrueReceipt(r)
    BY DEF TypeOK, ReceiptsTrue
<1>4. Harmless /\ \A q \in Releasers : DaemonKept(q)
    BY <1>1, <1>2, <1>3, RecordKeeps
<1> QED
    BY <1>2, <1>4, OutsideKeeps DEF TypeOK

LEMMA IntegrateKeeps ==
    ASSUME IInv, Integrate
    PROVE  IInv'
<1>1. Harmless /\ \A q \in Releasers : Knows(q) => DaemonKept(q)
    BY NothingDone DEF IInv, Integrate
<1>2. main' \in Commits
    <2>1. scope.commits \in Nat
        BY ScopesAssumption DEF IInv, TypeOK
    <2> QED
        BY <2>1 DEF IInv, TypeOK, Commits, Integrate
<1> QED
    BY <1>1, <1>2, OutsideKeeps DEF IInv, Integrate

-----------------------------------------------------------------------------
LEMMA InitHolds == Init => IInv
<1> SUFFICES ASSUME Init
             PROVE  IInv
    OBVIOUS
<1>1. scope \in Scopes /\ scope.commits \in Nat \ {0} /\ scope.failures \in Nat
    BY ScopesAssumption DEF Init
<1>2. TypeOK
    BY <1>1 DEF Init, TypeOK, Maybe, Commits
<1>3. \A p \in Releasers : Knows(p) /\ ToldTrue(p)
    BY DEF Init, Knows, PlanKnown, TagsKnown, ImageKnown, ToldTrue
<1>4. MirrorFollowsOrigin /\ TaggedHasAnImage /\ ReceiptsTrue
    BY DEF Init, MirrorFollowsOrigin, TaggedHasAnImage, ReceiptsTrue
<1> QED
    BY <1>2, <1>3, <1>4 DEF IInv

LEMMA NextKeeps == IInv /\ [Next]_vars => IInv'
<1> SUFFICES ASSUME IInv, [Next]_vars
             PROVE  IInv'
    OBVIOUS
<1>1. ASSUME NEW p \in Releasers, Start(p)
      PROVE  IInv'
    BY <1>1, StartKeeps
<1>2. ASSUME NEW p \in Releasers, Progress(p)
      PROVE  IInv'
    <2>1. CASE AskOrigin(p)
        BY <2>1, AskOriginKeeps
    <2>2. CASE Inspect(p)
        BY <2>2, InspectKeeps
    <2>3. CASE Step(p)
        BY <2>3, StepKeeps
    <2>4. CASE OriginRefuses(p) \/ MirrorRefuses(p) \/ KeyIsTaken(p)
        BY <2>4, RefusalKeeps DEF OriginRefuses, MirrorRefuses, KeyIsTaken
    <2>5. CASE Call(p)
        BY <2>5, CallKeeps
    <2> QED
        BY <1>2, <2>1, <2>2, <2>3, <2>4, <2>5 DEF Progress
<1>3. ASSUME NEW p \in Releasers, StepFails(p) \/ CallFails(p)
      PROVE  IInv'
    BY <1>3, StepFailsKeeps, CallFailsKeeps
<1>4. ASSUME NEW h \in Hosts, Replay(h)
      PROVE  IInv'
    BY <1>4, ReplayKeeps
<1>5. CASE Integrate
    BY <1>5, IntegrateKeeps
<1>6. CASE UNCHANGED vars
    <2>1. /\ UNCHANGED <<scope, local, remotes, images, evidence>>
          /\ UNCHANGED <<pc, plan, digest, exit, failures>> /\ main' = main
        BY <1>6 DEF vars, remotes, images, evidence
    <2>2. Harmless /\ \A q \in Releasers : DaemonKept(q)
        BY <2>1, NothingDone DEF IInv
    <2> QED
        BY <2>1, <2>2, OutsideKeeps DEF IInv, TypeOK
<1> QED
    BY <1>1, <1>2, <1>3, <1>4, <1>5, <1>6 DEF Next

LEMMA Invariance == Spec => []IInv
BY InitHolds, NextKeeps, PTL DEF Spec

\* Every value of Release stays in its set.
THEOREM TypeCorrect == Spec => []TypeOK
<1>1. IInv => TypeOK
    BY DEF IInv
<1> QED
    BY <1>1, Invariance, PTL

\* What `rail release` attests is in the registry under its version, and origin and
\* the mirror tag the commit it names, whichever clones work on the version and
\* whatever fails; it was built from that commit unless clones share a host while
\* main moves.
THEOREM WhatIsAttestedIsPublished == Spec => []ReleasesAreTrue
<1>1. IInv => ReleasesAreTrue
    <2> SUFFICES ASSUME IInv, NEW v \in Versions, NEW r \in Held(v)
                 PROVE  /\ TrueReceipt(r)
                        /\ r.version = v
        BY DEF ReleasesAreTrue, TrueReceipt, Names
    <2>1. r # Absent /\ r.version = v
        BY DEF Held
    <2>2. CASE \E h \in Hosts : r \in spool[h]
        BY <2>1, <2>2 DEF IInv, ReceiptsTrue
    <2>3. CASE \E w \in Versions : r = brain[w]
        BY <2>1, <2>3 DEF IInv, ReceiptsTrue
    <2> QED
        BY <2>1, <2>2, <2>3 DEF Held
<1> QED
    BY <1>1, Invariance, PTL

\* Nothing reaches the mirror that origin does not name.
THEOREM MirrorIsBehind == Spec => []MirrorFollowsOrigin
<1>1. IInv => MirrorFollowsOrigin
    BY DEF IInv
<1> QED
    BY <1>1, Invariance, PTL

\* An image of a version is in the registry before its tag is on origin; it was
\* built from the tagged commit unless clones share a host while main moves.
THEOREM ImageBeforeTag == Spec => []TaggedHasAnImage
<1>1. IInv => TaggedHasAnImage
    BY DEF IInv
<1> QED
    BY <1>1, Invariance, PTL

\* What the exit code of a release told its operator stays true, whatever other
\* clones, replays and later runs do.
THEOREM ExitStaysTrue == Spec => []ExitTellsTheRelease
<1>1. IInv => ExitTellsTheRelease
    <2> SUFFICES ASSUME IInv, NEW p \in Releasers, exit[p].code # 1
                 PROVE  /\ exit[p].code = 0 => brain[exit[p].of.version] = exit[p].of
                        /\ \E s \in Held(exit[p].of.version) : s.sha = exit[p].of.sha
        <3>1. 0 # 1 /\ 2 # 1
            OBVIOUS
        <3> QED
            BY <3>1, Zenon DEF ExitTellsTheRelease
    <2> DEFINE r == exit[p].of
    <2>1. /\ r \in Receipts /\ r.version \in Versions
          /\ Names(origin[r.version], r.sha)
          /\ Held(r.version) # {}
          /\ exit[p].code = 0 => brain[r.version] = r
        BY DEF IInv, ToldTrue, Receipts
    <2>2. PICK s \in Held(r.version) : s # Absent /\ s.version = r.version
        BY <2>1 DEF Held
    <2>3. TrueReceipt(s)
        <3>1. CASE \E h \in Hosts : s \in spool[h]
            BY <3>1 DEF IInv, ReceiptsTrue
        <3>2. CASE \E w \in Versions : s = brain[w]
            BY <2>2, <3>2 DEF IInv, ReceiptsTrue
        <3> QED
            BY <3>1, <3>2 DEF Held
    <2>4. s.sha = r.sha
        BY <2>1, <2>2, <2>3 DEF TrueReceipt, Names
    <2> QED
        BY <2>1, <2>4
<1> QED
    BY <1>1, Invariance, PTL
=============================================================================
