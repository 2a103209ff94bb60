---------------------------- MODULE Review_proofs ----------------------------
(***************************************************************************)
(* Theorems of the review of one pull request.                             *)
(* JudgeChain: for every policy, every change and every answer of the      *)
(* judges.  ReviewLoop: for any number of verdicts, rulings, pushes, edits *)
(* and outages, and any carry-forwards of others.                          *)
(***************************************************************************)
EXTENDS JudgeChain, ReviewLoop, FiniteSetTheorems, WellFoundedInduction, TLAPS

-----------------------------------------------------------------------------
(* Helpers on numbers, orders and finite sets.                             *)

\* A non-empty set of numbers has a least one.
LEMMA LeastNumber ==
    ASSUME NEW S \in SUBSET Nat, S # {}
    PROVE  \E x \in S : \A y \in S : x <= y
<1> DEFINE R == {p \in Nat \X Nat : p[1] < p[2]}
<1>1. IsWellFoundedOn(R, Nat)
  BY NatLessThanWellFounded DEF OpToRel
<1>2. PICK x \in S : \A y \in S : ~(<<y, x>> \in R)
  <2> HIDE DEF R
  <2> QED BY <1>1, WFMin
<1>3. ASSUME NEW y \in S  PROVE x <= y
  <2>1. x \in Nat /\ y \in Nat /\ ~(<<y, x>> \in R)
    BY <1>2
  <2>2. y < x => <<y, x>> \in R
    BY <2>1
  <2> QED BY <2>1, <2>2
<1> QED BY <1>3

\* The lesser of two numbers: the delay announced, capped at a day.
LEMMA LesserOfTwo ==
    ASSUME NEW a \in Nat, NEW b \in Nat
    PROVE  Min({a, b}) \in Nat /\ Min({a, b}) <= a /\ Min({a, b}) <= b
<1>1. \E x \in {a, b} : \A y \in {a, b} : x <= y
  OBVIOUS
<1>2. Min({a, b}) \in {a, b} /\ \A y \in {a, b} : Min({a, b}) <= y
  BY <1>1 DEF Min
<1> QED BY <1>2

\* The greater of one and a number: the room of a judge is never nothing.
LEMMA GreaterOfTwo ==
    ASSUME NEW b \in Nat
    PROVE  Max({1, b}) \in Nat
<1>1. \E x \in {1, b} : \A y \in {1, b} : x >= y
  OBVIOUS
<1>2. Max({1, b}) \in {1, b}
  BY <1>1 DEF Max
<1> QED BY <1>2

\* Every provider of the policy has a position in it.
LEMMA ProvidersHavePositions ==
    ASSUME NEW p \in Range(Providers)
    PROVE  Position(Providers, p) \in Nat
<1>1. PICK n \in DOMAIN Providers : Providers[n] = p
  BY DEF Range
<1>2. Position(Providers, p) \in DOMAIN Providers
  BY <1>1 DEF Position
<1>3. DOMAIN Providers \subseteq Nat
  BY ChainAssumption
<1> QED BY <1>2, <1>3

\* While somebody waits to be asked, it is the turn of one who waits.
LEMMA TurnWaits ==
    ASSUME Waiting # {}, Waiting \subseteq Range(Providers)
    PROVE  Turn \in Waiting
<1> DEFINE S == {Position(Providers, p) : p \in Waiting}
<1>1. S \in SUBSET Nat /\ S # {}
  BY ProvidersHavePositions
<1>2. PICK x \in S : \A y \in S : x <= y
  BY <1>1, LeastNumber
<1>3. PICK p \in Waiting : x = Position(Providers, p)
  BY <1>2
<1>4. \A q \in Waiting : Position(Providers, p) <= Position(Providers, q)
  BY <1>2, <1>3
<1> QED BY <1>4 DEF Turn

\* The chain is taken from the policy, and so is every walk along it.
LEMMA AskedAreInTheChain ==
    /\ Chain \subseteq Range(Providers)
    /\ Arbiters \subseteq Chain /\ Asked \subseteq Chain
<1>1. Chain \subseteq Range(Providers)
  BY DEF Chain
<1>2. Arbiters \subseteq Chain
  BY DEF Arbiters, Fresh
<1>3. Asked \subseteq Chain
  BY <1>2 DEF Asked
<1> QED BY <1>1, <1>2, <1>3

LEMMA TurnIsAsked ==
    ASSUME Walking
    PROVE  Turn \in Asked /\ Turn \in Chain
<1>1. Waiting # {} /\ Waiting \subseteq Asked
  BY DEF Walking, Waiting
<1>2. Turn \in Waiting
  BY <1>1, TurnWaits, AskedAreInTheChain
<1> QED BY <1>1, <1>2, AskedAreInTheChain

-----------------------------------------------------------------------------
(* The world of a behaviour does not change: nor what is read from it.     *)

\* Init picks the world, and no action touches it.
LEMMA WorldStays ==
    ASSUME [Next]_vars
    PROVE  scope' = scope
<1>1. CASE Unaskable BY <1>1 DEF Unaskable, Answered
<1>2. CASE Judge BY <1>2 DEF Judge, Answered
<1>3. CASE PrimaryFails BY <1>3 DEF PrimaryFails
<1>4. CASE Tick BY <1>4 DEF Tick
<1>5. CASE PieceEnds BY <1>5 DEF PieceEnds, Goto
<1>6. CASE LightEnds BY <1>6 DEF LightEnds, Goto
<1>7. CASE DeepEnds BY <1>7 DEF DeepEnds, Goto
<1>8. CASE Conclude BY <1>8 DEF Conclude
<1>9. CASE Again BY <1>9 DEF Again
<1>10. CASE UNCHANGED vars BY <1>10 DEF vars
<1> QED BY <1>1, <1>2, <1>3, <1>4, <1>5, <1>6, <1>7, <1>8, <1>9, <1>10 DEF Next

LEMMA SameWorld ==
    ASSUME scope' = scope
    PROVE  /\ Ids' = Ids /\ Chain' = Chain /\ JudgedDiff' = JudgedDiff /\ Judged' = Judged
           /\ Outcomes' = Outcomes /\ Remarks' = Remarks
           /\ \A part : Places(part)' = Places(part)
<1>1. Ids' = Ids /\ Outcomes' = Outcomes /\ Remarks' = Remarks
  BY DEF Ids, Outcomes, Remarks
<1>2. Chain' = Chain
  BY DEF Chain, Excluded
<1>3. JudgedDiff' = JudgedDiff
  BY DEF JudgedDiff
<1>4. Judged' = Judged
  BY <1>3 DEF Judged
<1>5. \A part : Places(part)' = Places(part)
  BY DEF Places, Whole
<1> QED BY <1>1, <1>2, <1>3, <1>4, <1>5

LEMMA SameReplies ==
    ASSUME scope' = scope
    PROVE  Replies' = Replies
<1>1. Places(JudgedDiff)' = Places(JudgedDiff)
  BY SameWorld DEF Places, Whole
<1> QED BY <1>1, SameWorld DEF Replies

-----------------------------------------------------------------------------
(* Types.                                                                  *)

Phases == {"pieces", "light", "deep", "judged", "published"}

\* The parts of TypeOK about time, the walk and the replies.
Clocked ==
    /\ scope \in Scopes
    /\ now \in 0..scope.horizon /\ until \in Nat
    /\ limits \subseteq [at : 0..scope.horizon, announced : scope.resets]

Walks ==
    /\ review \in 1..scope.reviews /\ fallback \in BOOLEAN
    /\ phase \in Phases
    /\ piece \subseteq JudgedDiff /\ tried \subseteq Chain
    /\ \A a \in attempts : a.provider \in Chain /\ a.outcome \in Outcomes

Replied == got \subseteq Replies /\ light \subseteq Replies /\ replies \subseteq Replies

LEMMA TypeIsItsParts == TypeOK <=> Clocked /\ Walks /\ Replied
BY DEF TypeOK, Clocked, Walks, Replied, Phases

\* What the world promises about one scope.
LEMMA ScopeFacts ==
    ASSUME scope \in Scopes
    PROVE  /\ scope.files \in Seq(Range(scope.files))
           /\ Vague \notin Range(scope.files)
           /\ Range(scope.files) \subseteq DOMAIN scope.hunks
           /\ \A f \in DOMAIN scope.hunks : scope.hunks[f] \in Nat \ {0}
           /\ scope.closed \subseteq Ids /\ scope.blocking \subseteq Ids
           /\ scope.claims \subseteq Remarks
           /\ scope.decisions \subseteq {"approve", "request_changes"}
           /\ scope.max \in Nat \ {0} /\ \A p \in Limited : scope.room[p] \in Nat
           /\ scope.resets \subseteq Nat /\ scope.horizon \in Nat /\ scope.reviews \in Nat \ {0}
BY ScopeAssumption DEF Ids, Remarks, Limited

\* The hunk of an earlier finding is one of its file, or 0.
LEMMA PlaceFacts ==
    ASSUME scope \in Scopes, NEW id \in Ids
    PROVE  /\ scope.earlier[id].hunk \in Nat
           /\ scope.earlier[id].file \in Range(scope.files)
                => scope.earlier[id].hunk <= scope.hunks[scope.earlier[id].file]
<1>1. \A i \in DOMAIN scope.earlier :
        LET place == scope.earlier[i]
        IN  /\ place.hunk \in Nat
            /\ place.file \in Range(scope.files) => place.hunk <= scope.hunks[place.file]
  BY ScopeAssumption
<1> QED BY <1>1 DEF Ids

LEMMA PiecesAreOfTheDiff ==
    ASSUME NEW part, part \subseteq JudgedDiff
    PROVE  FirstPiece(part) \subseteq JudgedDiff /\ Places(part) \subseteq Places(JudgedDiff)
BY DEF FirstPiece, Places

\* A claim graded down is still a remark on the change.
LEMMA GradedDown ==
    ASSUME NEW c \in Remarks, NEW v \in Severity, NEW P \in BOOLEAN
    PROVE  [c EXCEPT !.severity = IF P THEN v ELSE @] \in Remarks
BY DEF Remarks

LEMMA DiscountedAreRemarks ==
    ASSUME NEW C \in SUBSET Remarks
    PROVE  Discounted(C) \in SUBSET Remarks
<1>1. "minor" \in Severity
  BY DEF Severity
<1>2. \A c \in C : [c EXCEPT !.severity = IF c.file \in scope.dated THEN "minor" ELSE @] \in Remarks
  BY <1>1, GradedDown
<1> QED BY <1>2 DEF Discounted

LEMMA DecisionType ==
    ASSUME scope \in Scopes, NEW s, s.said \in scope.decisions
    PROVE  Decision(s) \in {"approve", "request_changes"}
<1>1. s.said \in {"approve", "request_changes"}
  BY ScopeFacts
<1> QED BY <1>1 DEF Decision

\* A judge's answer, as it is kept.
LEMMA ReplyType ==
    ASSUME scope \in Scopes, NEW p \in Chain, NEW tier \in {"light", "deep"},
           NEW part, part \subseteq JudgedDiff, NEW s \in Sayings
    PROVE  Reply(p, tier, part, s) \in Replies
<1>1. /\ s.claims \in SUBSET scope.claims /\ s.said \in scope.decisions
      /\ s.fixed \in SUBSET Ids /\ s.open \in SUBSET Ids /\ s.again \in SUBSET Ids
  BY DEF Sayings
<1>2. Discounted(s.claims) \in SUBSET Remarks
  BY <1>1, ScopeFacts, DiscountedAreRemarks
<1>3. Decision(s) \in {"approve", "request_changes"}
  BY <1>1, DecisionType
<1>4. Shown(p, part) \in SUBSET Places(JudgedDiff)
  BY PiecesAreOfTheDiff DEF Shown
<1>5. /\ part \in SUBSET JudgedDiff /\ (Size(part) <= Capacity(p)) \in BOOLEAN
      /\ (Discount(s) \cap {"blocking", "important"} # {}) \in BOOLEAN
  OBVIOUS
<1> QED BY <1>1, <1>2, <1>3, <1>4, <1>5 DEF Reply, Replies

\* The filter on what a judge did not see changes its claims alone.
LEMMA WithinPartKeeps ==
    ASSUME NEW r \in Replies
    PROVE  /\ WithinPart(r) \in Replies
           /\ WithinPart(r).provider = r.provider /\ WithinPart(r).decision = r.decision
           /\ WithinPart(r).piece = r.piece /\ WithinPart(r).shown = r.shown
           /\ WithinPart(r).whole = r.whole
<1> DEFINE Hidden(c) == \/ c.file = Vague
                        \/ c.file \in Judged /\ ~SeesPlace(r, c.file, c.hunk)
                        \/ c.file \notin Judged /\ InPieces
           C == {[c EXCEPT !.severity = IF Hidden(c) THEN "important" ELSE @] : c \in r.claims}
<1>1. WithinPart(r) = IF Readable(r.piece) THEN [r EXCEPT !.claims = C] ELSE r
  BY DEF WithinPart
<1>2. C \in SUBSET Remarks
  <2>1. r.claims \subseteq Remarks /\ "important" \in Severity
    BY DEF Replies, Severity
  <2>2. \A c \in r.claims : Hidden(c) \in BOOLEAN
    BY DEF SeesPlace
  <2> HIDE DEF Hidden
  <2>3. \A c \in r.claims : [c EXCEPT !.severity = IF Hidden(c) THEN "important" ELSE @] \in Remarks
    BY <2>1, <2>2, GradedDown
  <2> QED BY <2>3
<1> HIDE DEF C
<1>3. /\ [r EXCEPT !.claims = C] \in Replies
      /\ [r EXCEPT !.claims = C].provider = r.provider /\ [r EXCEPT !.claims = C].decision = r.decision
      /\ [r EXCEPT !.claims = C].piece = r.piece /\ [r EXCEPT !.claims = C].shown = r.shown
      /\ [r EXCEPT !.claims = C].whole = r.whole
  BY <1>2 DEF Replies
<1> QED BY <1>1, <1>3

\* Nothing of the world moves: what was a type stays one.
LEMMA ClockedStays ==
    ASSUME Clocked, scope' = scope, UNCHANGED mind
    PROVE  Clocked'
BY DEF Clocked, mind

LEMMA AnsweredTypes ==
    ASSUME TypeOK, Walking, scope' = scope, NEW outcome \in Outcomes, NEW new \in SUBSET Replies,
           NEW skipped, Answered(outcome, new, skipped)
    PROVE  Walks' /\ Replied'
<1>1. Walks /\ Replied
  BY TypeIsItsParts
<1>2. /\ attempts' = attempts \cup {Attempt(outcome, skipped)} /\ tried' = tried \cup {Turn}
      /\ got' = got \cup new /\ fallback' = FALSE
      /\ UNCHANGED <<review, phase, piece, light, replies>>
  BY DEF Answered
<1>3. Turn \in Chain
  BY TurnIsAsked
<1>4. \A a \in attempts' : a.provider \in Chain /\ a.outcome \in Outcomes
  BY <1>1, <1>2, <1>3 DEF Walks, Attempt
<1>5. Walks'
  BY <1>1, <1>2, <1>3, <1>4, SameWorld DEF Walks
<1>6. Replied'
  BY <1>1, <1>2, SameReplies DEF Replied
<1> QED BY <1>5, <1>6

LEMMA UnaskableTypes ==
    ASSUME TypeOK, Unaskable
    PROVE  TypeOK'
<1>1. \E outcome \in {"empty", "too large"} : Answered(outcome, {}, FALSE)
  BY DEF Unaskable
<1>2. PICK outcome \in {"empty", "too large"} : Answered(outcome, {}, FALSE)
  BY <1>1
<1>3. scope' = scope /\ UNCHANGED mind /\ Walking
  BY <1>2 DEF Unaskable, Answered, mind
<1>4. outcome \in Outcomes /\ {} \in SUBSET Replies
  BY DEF Outcomes
<1>5. Walks' /\ Replied'
  BY <1>2, <1>3, <1>4, AnsweredTypes
<1>6. Clocked'
  BY <1>3, ClockedStays, TypeIsItsParts
<1> QED BY <1>5, <1>6, TypeIsItsParts, PTL

LEMMA TierType ==
    ASSUME Walking
    PROVE  Tier \in {"light", "deep"}
BY DEF Walking, Tier, Depth

LEMMA JudgeTypes ==
    ASSUME TypeOK, Judge
    PROVE  TypeOK'
<1>1. Walking /\ Turn \in Chain /\ Tier \in {"light", "deep"}
  BY TurnIsAsked, TierType DEF Judge, Askable
<1>2. scope' = scope /\ UNCHANGED mind
  BY DEF Judge, Answered, mind
<1>3. piece \subseteq JudgedDiff /\ scope \in Scopes
  BY DEF TypeOK
<1>4. \A s \in Sayings : Reply(Turn, Tier, piece, s) \in Replies
  BY <1>1, <1>3, ReplyType
<1>5. Walks' /\ Replied'
  <2>1. CASE \E s \in Sayings : Answered("verdict", {Reply(Turn, Tier, piece, s)}, ByFallback /\ ~fallback)
    <3>1. PICK s \in Sayings : Answered("verdict", {Reply(Turn, Tier, piece, s)}, ByFallback /\ ~fallback)
      BY <2>1
    <3>2. {Reply(Turn, Tier, piece, s)} \in SUBSET Replies /\ "verdict" \in Outcomes
      BY <1>4 DEF Outcomes
    <3> QED BY <1>1, <1>2, <3>1, <3>2, AnsweredTypes
  <2>2. CASE \E outcome \in scope.faults : Answered(outcome, {}, ByFallback /\ ~fallback)
    <3>1. PICK outcome \in scope.faults : Answered(outcome, {}, ByFallback /\ ~fallback)
      BY <2>2
    <3>2. outcome \in Outcomes /\ {} \in SUBSET Replies
      BY DEF Outcomes
    <3> QED BY <1>1, <1>2, <3>1, <3>2, AnsweredTypes
  <2> QED BY <2>1, <2>2 DEF Judge
<1>6. Clocked'
  BY <1>2, ClockedStays, TypeIsItsParts
<1> QED BY <1>5, <1>6, TypeIsItsParts, PTL

\* What a spent quota parks the subscription for.
LEMMA DelayType ==
    ASSUME NEW n \in Nat
    PROVE  Delay(n) \in Nat
BY ChainAssumption, LesserOfTwo DEF Delay

LEMMA PrimaryFailsTypes ==
    ASSUME TypeOK, PrimaryFails
    PROVE  TypeOK'
<1>1. Clocked /\ Walks /\ Replied
  BY TypeIsItsParts
<1>2. /\ scope' = scope /\ now' = now /\ fallback' = TRUE
      /\ UNCHANGED <<review, phase, piece, tried, got, light, replies, attempts>>
  BY DEF PrimaryFails
<1>3. Walks' /\ Replied'
  BY <1>1, <1>2, SameWorld, SameReplies DEF Walks, Replied
<1>4. \A n \in scope.resets : n \in Nat /\ Delay(n) \in Nat
  BY <1>1, ScopeFacts, DelayType DEF Clocked
<1>5. until' \in Nat /\ limits' \subseteq [at : 0..scope.horizon, announced : scope.resets]
  <2>1. PICK announced \in scope.resets :
          \/ UNCHANGED <<until, limits>>
          \/ /\ until' \in Memories(announced)
             /\ limits' = limits \cup {[at |-> now, announced |-> announced]}
    BY DEF PrimaryFails
  <2>2. now \in Nat /\ until \in Nat /\ now \in 0..scope.horizon
    BY <1>1, ScopeFacts DEF Clocked
  <2>3. Memories(announced) \subseteq Nat
    BY <1>4, <2>2 DEF Memories
  <2> QED BY <1>1, <2>1, <2>2, <2>3 DEF Clocked
<1>6. Clocked'
  BY <1>1, <1>2, <1>5 DEF Clocked
<1> QED BY <1>3, <1>6, TypeIsItsParts, PTL

LEMMA TickTypes ==
    ASSUME TypeOK, Tick
    PROVE  TypeOK'
<1>1. Clocked /\ Walks /\ Replied
  BY TypeIsItsParts
<1>2. scope' = scope
  BY DEF Tick
<1>3. Walks' /\ Replied'
  BY <1>1, <1>2, SameWorld, SameReplies DEF Walks, Replied, Tick
<1>4. Clocked'
  BY <1>1, <1>2, ScopeFacts DEF Clocked, Tick
<1> QED BY <1>3, <1>4, TypeIsItsParts, PTL

\* From one walk to the next: the replies filtered on what their judge saw.
LEMMA GotoTypes ==
    ASSUME TypeOK, scope' = scope, NEW to \in Phases, NEW part, part \subseteq JudgedDiff, Goto(to, part),
           light' \subseteq Replies,
           NEW rs \in SUBSET Replies, replies' \subseteq replies \cup {WithinPart(r) : r \in rs}
    PROVE  TypeOK'
<1>1. Clocked /\ Walks /\ Replied
  BY TypeIsItsParts
<1>2. /\ UNCHANGED <<review, fallback, attempts>> /\ UNCHANGED mind
      /\ phase' = to /\ piece' = part /\ tried' = {} /\ got' = {}
  BY DEF Goto
<1>3. Walks'
  BY <1>1, <1>2, SameWorld DEF Walks
<1>4. replies' \subseteq Replies
  BY <1>1, WithinPartKeeps DEF Replied
<1>5. Replied'
  BY <1>1, <1>2, <1>4, SameReplies DEF Replied
<1>6. Clocked'
  BY <1>1, <1>2, ClockedStays
<1> QED BY <1>3, <1>5, <1>6, TypeIsItsParts, PTL

LEMMA RetainedType ==
    ASSUME Replied
    PROVE  Retained \in SUBSET Replies
BY DEF Replied, Retained

LEMMA WalkEndTypes ==
    ASSUME TypeOK, PieceEnds \/ LightEnds \/ DeepEnds
    PROVE  TypeOK'
<1>1. Clocked /\ Walks /\ Replied
  BY TypeIsItsParts
<1>2. got \in SUBSET Replies /\ Retained \in SUBSET Replies /\ light \subseteq Replies
  BY <1>1, RetainedType DEF Replied
<1>3. {"pieces", "light", "deep", "judged"} \subseteq Phases /\ piece \subseteq JudgedDiff
      /\ FirstPiece(Left) \subseteq JudgedDiff
  BY <1>1, PiecesAreOfTheDiff DEF Phases, Walks, Left
<1>4. CASE PieceEnds
  <2>1. \E to \in Phases, part \in SUBSET JudgedDiff : Goto(to, part)
    BY <1>3, <1>4 DEF PieceEnds
  <2>2. scope' = scope /\ light' = light /\ replies' = replies \cup {WithinPart(r) : r \in got}
    BY <1>4 DEF PieceEnds, Goto
  <2> QED BY <1>2, <2>1, <2>2, GotoTypes
<1>5. CASE LightEnds
  <2>1. \E to \in Phases, part \in SUBSET JudgedDiff : Goto(to, part)
    BY <1>3, <1>5 DEF LightEnds
  <2>2. scope' = scope /\ light' \in {light, got} /\ replies' \subseteq replies \cup {WithinPart(r) : r \in got}
    BY <1>5 DEF LightEnds, Goto
  <2> QED BY <1>2, <2>1, <2>2, GotoTypes
<1>6. CASE DeepEnds
  <2>1. \E to \in Phases, part \in SUBSET JudgedDiff : Goto(to, part)
    BY <1>3, <1>6 DEF DeepEnds
  <2>2. scope' = scope /\ light' = light /\ replies' \subseteq replies \cup {WithinPart(r) : r \in Retained}
    BY <1>6 DEF DeepEnds, Goto
  <2> QED BY <1>2, <2>1, <2>2, GotoTypes
<1> QED BY <1>4, <1>5, <1>6

LEMMA ConcludeTypes ==
    ASSUME TypeOK, Conclude
    PROVE  TypeOK'
<1>1. Clocked /\ Walks /\ Replied
  BY TypeIsItsParts
<1>2. /\ scope' = scope /\ phase' = "published" /\ UNCHANGED mind
      /\ UNCHANGED <<review, piece, tried, fallback, got, light, replies, attempts>>
  BY DEF Conclude
<1>3. Walks' /\ Replied'
  BY <1>1, <1>2, SameWorld, SameReplies DEF Walks, Replied, Phases
<1>4. Clocked'
  BY <1>1, <1>2, ClockedStays
<1> QED BY <1>3, <1>4, TypeIsItsParts, PTL

LEMMA AgainTypes ==
    ASSUME TypeOK, Again
    PROVE  TypeOK'
<1>1. Clocked /\ Walks /\ Replied
  BY TypeIsItsParts
<1>2. /\ scope' = scope /\ UNCHANGED mind /\ review' = review + 1 /\ review < scope.reviews
      /\ phase' = First /\ piece' = FirstPiece(JudgedDiff) /\ tried' = {} /\ fallback' = FALSE
      /\ got' = {} /\ light' = {} /\ replies' = {} /\ attempts' = {}
  BY DEF Again
<1>3. First \in Phases /\ FirstPiece(JudgedDiff) \subseteq JudgedDiff
  BY PiecesAreOfTheDiff DEF First, Phases
<1>4. review' \in 1..scope.reviews
  BY <1>1, <1>2, ScopeFacts DEF Walks, Clocked
<1>5. Walks' /\ Replied'
  BY <1>1, <1>2, <1>3, <1>4, SameWorld, SameReplies DEF Walks, Replied
<1>6. Clocked'
  BY <1>1, <1>2, ClockedStays
<1> QED BY <1>5, <1>6, TypeIsItsParts, PTL

LEMMA StepTypes ==
    ASSUME TypeOK, [Next]_vars
    PROVE  TypeOK'
<1>1. CASE UNCHANGED vars
  <2>1. Clocked /\ Walks /\ Replied /\ scope' = scope /\ UNCHANGED mind
    BY <1>1, TypeIsItsParts DEF vars
  <2>2. Walks' /\ Replied'
    BY <1>1, <2>1, SameWorld, SameReplies DEF Walks, Replied, vars
  <2>3. Clocked'
    BY <2>1, ClockedStays
  <2> QED BY <2>2, <2>3, TypeIsItsParts, PTL
<1> QED BY <1>1, UnaskableTypes, JudgeTypes, PrimaryFailsTypes, TickTypes, WalkEndTypes,
           ConcludeTypes, AgainTypes DEF Next

\* A review starts with an empty memory and nothing asked.
LEMMA InitTypes == Init => TypeOK
<1> SUFFICES ASSUME Init PROVE TypeOK
  OBVIOUS
<1>1. scope \in Scopes /\ scope.horizon \in Nat /\ scope.reviews \in Nat \ {0}
  BY ScopeFacts DEF Init
<1>2. First \in Phases /\ FirstPiece(JudgedDiff) \subseteq JudgedDiff
  BY PiecesAreOfTheDiff DEF First, Phases
<1>3. Clocked
  BY <1>1 DEF Init, Clocked
<1>4. review \in 1..scope.reviews
  BY <1>1 DEF Init
<1>5. Walks
  BY <1>2, <1>4 DEF Init, Walks
<1>6. Replied
  BY DEF Init, Replied
<1> QED BY <1>3, <1>5, <1>6, TypeIsItsParts

\* Every variable has its type: of the chain, the pieces, the replies and the
\* memory of the quota.
THEOREM TypeCorrect == Spec => []TypeOK
<1>1. TypeOK /\ [Next]_vars => TypeOK'
  BY StepTypes
<1> QED BY <1>1, InitTypes, PTL DEF Spec

-----------------------------------------------------------------------------
(* The memory of a spent quota.                                            *)

\* What is remembered is a limit that was announced, for its own delay.
Remembers == until = 0 \/ \E l \in limits : l.at <= now /\ until = l.at + Delay(l.announced)

MemoryInv == TypeOK /\ Remembers /\ LimitsExpire

\* The delay is what was announced, a day at most, or what is configured.
LEMMA DelayBounds ==
    ASSUME NEW n \in Nat
    PROVE  /\ n = 0 => Delay(n) = Skip
           /\ n # 0 => Delay(n) <= n /\ Delay(n) <= MaxSkip
<1>1. n = 0 => Delay(n) = Skip
  BY DEF Delay
<1>2. n # 0 => Delay(n) = Min({n, MaxSkip})
  BY DEF Delay
<1> QED BY <1>1, <1>2, LesserOfTwo, ChainAssumption

\* An attempt is marked as skipping the subscription while a limit is over it.
LEMMA SkippingIsRemembered ==
    ASSUME MemoryInv, until > now
    PROVE  \E l \in limits :
              /\ l.at <= now
              /\ IF l.announced = 0 THEN now < l.at + Skip
                 ELSE now < l.at + l.announced /\ now < l.at + MaxSkip
<1>1. scope.horizon \in Nat /\ scope.resets \subseteq Nat
  BY ScopeFacts DEF MemoryInv, TypeOK
<1>2. now \in Nat /\ limits \subseteq [at : 0..scope.horizon, announced : scope.resets]
  BY <1>1 DEF MemoryInv, TypeOK
<1>3. PICK l \in limits : l.at <= now /\ until = l.at + Delay(l.announced)
  BY <1>2 DEF MemoryInv, Remembers
<1>4. l.at \in Nat /\ l.announced \in Nat
  BY <1>1, <1>2
<1>5. Delay(l.announced) \in Nat
  BY <1>4, DelayType
<1>6. Skip \in Nat /\ MaxSkip \in Nat
  BY ChainAssumption
<1>7. now < l.at + Delay(l.announced)
  BY <1>3
<1>8. IF l.announced = 0 THEN now < l.at + Skip
      ELSE now < l.at + l.announced /\ now < l.at + MaxSkip
  BY <1>2, <1>4, <1>5, <1>6, <1>7, DelayBounds
<1> QED BY <1>3, <1>8

LEMMA AnsweredLimits ==
    ASSUME MemoryInv, NEW outcome, NEW new, NEW skipped, Answered(outcome, new, skipped),
           skipped => until > now, UNCHANGED limits
    PROVE  Remembers' /\ LimitsExpire'
<1>1. /\ UNCHANGED <<until, now, limits>>
      /\ attempts' = attempts \cup {Attempt(outcome, skipped)}
  BY DEF Answered
<1>2. Remembers'
  BY <1>1 DEF MemoryInv, Remembers
<1>3. Attempt(outcome, skipped).at = now /\ Attempt(outcome, skipped).skipped = skipped
  BY DEF Attempt
<1>4. ASSUME NEW a \in attempts', a.skipped
      PROVE  \E l \in limits :
                /\ l.at <= a.at
                /\ IF l.announced = 0 THEN a.at < l.at + Skip
                   ELSE a.at < l.at + l.announced /\ a.at < l.at + MaxSkip
  <2>1. CASE a \in attempts
    BY <1>4, <2>1 DEF MemoryInv, LimitsExpire
  <2>2. CASE a = Attempt(outcome, skipped)
    <3>1. a.at = now /\ until > now
      BY <1>3, <1>4, <2>2
    <3> QED BY <3>1, SkippingIsRemembered
  <2> QED BY <1>1, <2>1, <2>2
<1>5. LimitsExpire'
  BY <1>1, <1>4 DEF LimitsExpire
<1> QED BY <1>2, <1>5

LEMMA PrimaryFailsLimits ==
    ASSUME MemoryInv, PrimaryFails
    PROVE  Remembers' /\ LimitsExpire'
<1>1. now' = now /\ attempts' = attempts
  BY DEF PrimaryFails
<1>2. limits \subseteq limits'
  BY DEF PrimaryFails
<1>3. LimitsExpire'
  BY <1>1, <1>2 DEF MemoryInv, LimitsExpire
<1>4. now \in Nat
  BY ScopeFacts DEF MemoryInv, TypeOK
<1>5. Remembers'
  <2>1. CASE until' = until
    BY <1>1, <1>2, <2>1 DEF MemoryInv, Remembers
  <2>2. CASE until' # until
    <3>1. PICK announced \in scope.resets :
            /\ until' \in Memories(announced)
            /\ limits' = limits \cup {[at |-> now, announced |-> announced]}
      BY <2>2 DEF PrimaryFails
    <3>2. until' = now + Delay(announced)
      BY <2>2, <3>1 DEF Memories
    <3> DEFINE l == [at |-> now, announced |-> announced]
    <3>3. l \in limits' /\ l.at = now /\ l.announced = announced
      BY <3>1
    <3> HIDE DEF l
    <3>4. l.at <= now /\ until' = l.at + Delay(l.announced)
      BY <1>4, <3>2, <3>3
    <3> QED BY <1>1, <3>3, <3>4 DEF Remembers, Delay
  <2> QED BY <2>1, <2>2
<1> QED BY <1>3, <1>5

LEMMA MemoryStep ==
    ASSUME MemoryInv, [Next]_vars
    PROVE  Remembers' /\ LimitsExpire'
<1>1. now \in Nat /\ limits \subseteq [at : Nat, announced : Nat]
  <2>1. scope.horizon \in Nat /\ scope.resets \subseteq Nat
    BY ScopeFacts DEF MemoryInv, TypeOK
  <2> QED BY <2>1 DEF MemoryInv, TypeOK
<1>2. CASE Unaskable
  BY <1>2, AnsweredLimits DEF Unaskable
<1>3. CASE Judge
  <2>1. \E outcome, new : Answered(outcome, new, ByFallback /\ ~fallback)
    BY <1>3 DEF Judge
  <2>2. (ByFallback /\ ~fallback) => until > now
    BY DEF ByFallback, Remembered
  <2>3. UNCHANGED limits
    BY <1>3 DEF Judge
  <2> QED BY <2>1, <2>2, <2>3, AnsweredLimits
<1>4. CASE PrimaryFails
  BY <1>4, PrimaryFailsLimits
<1>5. CASE Tick
  <2>1. now' = now + 1 /\ UNCHANGED <<until, limits, attempts>>
    BY <1>5 DEF Tick
  <2>2. LimitsExpire'
    BY <2>1 DEF MemoryInv, LimitsExpire
  <2>3. \A l \in limits : l.at <= now => l.at <= now + 1
    BY <1>1
  <2>4. Remembers'
    BY <2>1, <2>3 DEF MemoryInv, Remembers
  <2> QED BY <2>2, <2>4
<1>6. CASE PieceEnds \/ LightEnds \/ DeepEnds \/ Conclude \/ Again \/ UNCHANGED vars
  <2>1. UNCHANGED <<now, until, limits>> /\ attempts' \subseteq attempts
    <3>1. CASE PieceEnds BY <3>1 DEF PieceEnds, Goto, mind
    <3>2. CASE LightEnds BY <3>2 DEF LightEnds, Goto, mind
    <3>3. CASE DeepEnds BY <3>3 DEF DeepEnds, Goto, mind
    <3>4. CASE Conclude BY <3>4 DEF Conclude, mind
    <3>5. CASE Again BY <3>5 DEF Again, mind
    <3>6. CASE UNCHANGED vars BY <3>6 DEF vars, mind
    <3> QED BY <1>6, <3>1, <3>2, <3>3, <3>4, <3>5, <3>6
  <2> QED BY <2>1 DEF MemoryInv, Remembers, LimitsExpire
<1> QED BY <1>2, <1>3, <1>4, <1>5, <1>6 DEF Next

LEMMA MemoryStays == Spec => []MemoryInv
<1>1. Init => MemoryInv
  BY InitTypes DEF Init, MemoryInv, Remembers, LimitsExpire
<1>2. MemoryInv /\ [Next]_vars => MemoryInv'
  <2> SUFFICES ASSUME MemoryInv, [Next]_vars PROVE MemoryInv'
    OBVIOUS
  <2>1. TypeOK'
    BY StepTypes DEF MemoryInv
  <2> QED BY <2>1, MemoryStep DEF MemoryInv
<1> QED BY <1>1, <1>2, PTL DEF Spec

\* However often the subscription fails and whatever it announces, a judge is
\* asked elsewhere only within the time a limit parks it: the time announced,
\* a day at most, or the time configured.
THEOREM QuotaMemoryExpires == Spec => []LimitsExpire
<1>1. MemoryInv => LimitsExpire
  BY DEF MemoryInv
<1> QED BY <1>1, MemoryStays, PTL

-----------------------------------------------------------------------------
(* The verdict: what is published is the merge of the replies retained.    *)

PublishedIsMerged ==
    /\ phase # "published" => ~Concluded
    /\ Concluded => verdict = Merged

\* The merge depends on the world and the replies alone.
LEMMA SameMerged ==
    ASSUME scope' = scope, replies' = replies
    PROVE  Merged' = Merged
<1>1. /\ Ids' = Ids /\ Chain' = Chain /\ JudgedDiff' = JudgedDiff /\ Judged' = Judged
  BY SameWorld
<1>2. \A r, f, h : SeesPlace(r, f, h)' = SeesPlace(r, f, h)
  BY DEF SeesPlace, Readable, Whole
<1>3. Excerpted' = Excerpted /\ Readable(JudgedDiff)' = Readable(JudgedDiff)
  BY <1>1 DEF Excerpted, Readable
<1>4. \A r, id : Admits(r, id)' = Admits(r, id)
  BY <1>1, <1>2, <1>3 DEF Admits
<1>5. \A r : Admissible(r)' = Admissible(r)
  BY <1>1, <1>4 DEF Admissible
<1>6. {Admissible(r) : r \in replies}' = {Admissible(r) : r \in replies}
  BY <1>5
<1>7. \A F : Fixed(F)' = Fixed(F)
  BY <1>1 DEF Fixed
<1>8. Unseen(replies)' = Unseen(replies)
  BY <1>1, <1>2 DEF Unseen
<1>9. Budget' = Budget
  BY <1>1 DEF Budget, Limited
<1>10. Oversized' = Oversized
  BY <1>1, <1>9 DEF Oversized
<1>11. Truncated(replies)' = Truncated(replies)
  BY <1>10 DEF Truncated
<1> QED BY <1>1, <1>6, <1>7, <1>8, <1>11 DEF Merged, Words

LEMMA PublishedStep ==
    ASSUME PublishedIsMerged, [Next]_vars
    PROVE  PublishedIsMerged'
<1>1. scope' = scope
  BY WorldStays
<1>2. CASE Conclude
  <2>1. /\ phase' = "published" /\ replies' = replies
        /\ verdict' = IF replies = {} THEN [NoVerdict EXCEPT !.cause = Cause] ELSE Merged
    BY <1>2 DEF Conclude
  <2>2. [NoVerdict EXCEPT !.cause = Cause].decision = "none"
    BY DEF NoVerdict
  <2>3. Merged' = Merged
    BY <1>1, <2>1, SameMerged
  <2> QED BY <2>1, <2>2, <2>3 DEF PublishedIsMerged, Concluded
<1>3. CASE Again
  <2>1. verdict' = NoVerdict
    BY <1>3 DEF Again
  <2> QED BY <2>1 DEF PublishedIsMerged, Concluded, NoVerdict
<1>4. CASE verdict' = verdict /\ phase' = phase /\ replies' = replies
  <2>1. Merged' = Merged
    BY <1>1, <1>4, SameMerged
  <2> QED BY <1>4, <2>1 DEF PublishedIsMerged, Concluded
<1>5. CASE phase # "published" /\ verdict' = verdict
  BY <1>5 DEF PublishedIsMerged, Concluded
<1>6. ASSUME Unaskable \/ Judge \/ PrimaryFails \/ Tick \/ UNCHANGED vars
      PROVE  verdict' = verdict /\ phase' = phase /\ replies' = replies
  <2>1. CASE Unaskable BY <2>1 DEF Unaskable, Answered
  <2>2. CASE Judge BY <2>2 DEF Judge, Answered
  <2>3. CASE PrimaryFails BY <2>3 DEF PrimaryFails
  <2>4. CASE Tick BY <2>4 DEF Tick
  <2>5. CASE UNCHANGED vars BY <2>5 DEF vars
  <2> QED BY <1>6, <2>1, <2>2, <2>3, <2>4, <2>5
<1>7. ASSUME PieceEnds \/ LightEnds \/ DeepEnds
      PROVE  phase # "published" /\ verdict' = verdict
  <2>1. CASE PieceEnds BY <2>1 DEF PieceEnds, Goto
  <2>2. CASE LightEnds BY <2>2 DEF LightEnds, Goto
  <2>3. CASE DeepEnds BY <2>3 DEF DeepEnds, Goto
  <2> QED BY <1>7, <2>1, <2>2, <2>3
<1> QED BY <1>2, <1>3, <1>4, <1>5, <1>6, <1>7 DEF Next

-----------------------------------------------------------------------------
(* Disputes.                                                               *)

\* A light judge's request for changes, in the verdict or replaced by its own
\* author or by a judge that had not taken side.
Settled ==
    \A r \in light : r.decision = "request_changes" =>
        \/ \E q \in replies : q.provider = r.provider
        \/ \E q \in replies : q.provider \notin {d.provider : d \in light}

Disputes ==
    /\ phase \in {"pieces", "light"} => light = {}
    /\ phase = "deep" => \A r \in got : r.provider \in Arbiters
    /\ phase \in {"judged", "published"} => Settled

DisputeInv == TypeOK /\ PublishedIsMerged /\ Disputes

LEMMA SameArbiters ==
    ASSUME scope' = scope, light' = light
    PROVE  Arbiters' = Arbiters
BY SameWorld DEF Arbiters, Fresh

\* The arbiters either took no side, or are all the judges there are.
LEMMA ArbitersTookNoSide ==
    ASSUME Arbiters # Chain, NEW p \in Arbiters
    PROVE  p \notin {d.provider : d \in light}
BY DEF Arbiters, Fresh

\* The merge after an arbitration answers every dissent.
LEMMA RetainedSettle ==
    ASSUME TypeOK, \A r \in got : r.provider \in Arbiters,
           replies' = {WithinPart(r) : r \in Retained}, light' = light
    PROVE  Settled'
<1>1. got \subseteq Replies /\ light \subseteq Replies /\ Retained \subseteq Replies
  BY RetainedType, TypeIsItsParts DEF Replied
<1>2. \A r \in Retained : \E q \in replies' : q.provider = r.provider
  BY <1>1, WithinPartKeeps
<1>3. ASSUME NEW r \in light, r.decision = "request_changes"
      PROVE  \/ \E q \in replies' : q.provider = r.provider
             \/ \E q \in replies' : q.provider \notin {d.provider : d \in light}
  <2>1. CASE got = {}
    <3>1. r \in Retained
      BY <2>1 DEF Retained
    <3> QED BY <1>2, <3>1
  <2>2. CASE got # {} /\ r.provider \in {d.provider : d \in got}
    <3>1. PICK d \in got : d.provider = r.provider
      BY <2>2
    <3>2. d \in Retained
      BY <2>2 DEF Retained
    <3> QED BY <1>2, <3>1, <3>2
  <2>3. CASE got # {} /\ r.provider \notin {d.provider : d \in got} /\ r.provider \in Arbiters
    <3>1. r \in Retained
      BY <1>3, <2>3 DEF Retained
    <3> QED BY <1>2, <3>1
  <2>4. CASE got # {} /\ r.provider \notin Arbiters
    <3>1. PICK d \in got : d.provider \in Arbiters
      BY <2>4
    <3>2. r.provider \in Chain
      BY <1>1 DEF Replies
    <3>3. d.provider \notin {e.provider : e \in light}
      BY <2>4, <3>1, <3>2, ArbitersTookNoSide
    <3>4. d \in Retained
      BY <2>4 DEF Retained
    <3> QED BY <1>2, <3>3, <3>4
  <2> QED BY <2>1, <2>2, <2>3, <2>4
<1> QED BY <1>3 DEF Settled

LEMMA DisputeStep ==
    ASSUME DisputeInv, [Next]_vars
    PROVE  Disputes'
<1>1. scope' = scope
  BY WorldStays
<1>2. ASSUME UNCHANGED <<phase, light, replies>>,
             phase = "deep" => \A r \in got' : r \in got \/ r.provider \in Arbiters
      PROVE  Disputes'
  <2>1. Arbiters' = Arbiters
    BY <1>1, <1>2, SameArbiters
  <2> QED BY <1>2, <2>1 DEF DisputeInv, Disputes, Settled
<1>3. CASE Unaskable
  <2>1. got' = got /\ UNCHANGED <<phase, light, replies>>
    BY <1>3 DEF Unaskable, Answered
  <2> QED BY <1>2, <2>1
<1>4. CASE Judge
  <2>1. Walking
    BY <1>4 DEF Judge, Askable
  <2>2. Turn \in Asked /\ (phase = "deep" => Asked = Arbiters)
    BY <2>1, TurnIsAsked DEF Asked
  <2>3. UNCHANGED <<phase, light, replies>>
    BY <1>4 DEF Judge, Answered
  <2>4. \A r \in got' : r \in got \/ r.provider = Turn
    <3>1. \A s : Reply(Turn, Tier, piece, s).provider = Turn
      BY DEF Reply
    <3> QED BY <1>4, <3>1 DEF Judge, Answered
  <2> QED BY <1>2, <2>2, <2>3, <2>4
<1>5. CASE PrimaryFails \/ Tick \/ UNCHANGED vars
  <2>1. got' = got /\ UNCHANGED <<phase, light, replies>>
    BY <1>5 DEF PrimaryFails, Tick, vars
  <2> QED BY <1>2, <2>1
<1>6. CASE PieceEnds
  <2>1. light = {} /\ light' = {} /\ phase' \in {"pieces", "judged"}
    BY <1>6 DEF PieceEnds, Goto, DisputeInv, Disputes
  <2> QED BY <2>1 DEF Disputes, Settled
<1>7. CASE LightEnds
  <2>1. CASE phase' = "deep" /\ got' = {}
    BY <2>1 DEF Disputes
  <2>2. CASE phase' = "judged" /\ light' = light
    <3>1. light = {}
      BY <1>7 DEF LightEnds, DisputeInv, Disputes
    <3> QED BY <2>2, <3>1 DEF Disputes, Settled
  <2> QED BY <1>7, <2>1, <2>2 DEF LightEnds, Goto
<1>8. CASE DeepEnds
  <2>1. /\ phase' = "judged" /\ light' = light /\ replies' = {WithinPart(r) : r \in Retained}
        /\ phase = "deep"
    BY <1>8 DEF DeepEnds, Goto
  <2>2. TypeOK /\ \A r \in got : r.provider \in Arbiters
    BY <2>1 DEF DisputeInv, Disputes
  <2>3. Settled'
    BY <2>1, <2>2, RetainedSettle
  <2> QED BY <2>1, <2>3 DEF Disputes
<1>9. CASE Conclude
  <2>1. phase = "judged" /\ phase' = "published" /\ UNCHANGED <<light, replies>>
    BY <1>9 DEF Conclude
  <2> QED BY <2>1 DEF DisputeInv, Disputes, Settled
<1>10. CASE Again
  <2>1. light' = {} /\ phase' \in {"pieces", "light"}
    BY <1>10 DEF Again, First
  <2> QED BY <2>1 DEF Disputes
<1> QED BY <1>3, <1>4, <1>5, <1>6, <1>7, <1>8, <1>9, <1>10 DEF Next

LEMMA DisputesStay == Spec => []DisputeInv
<1>1. Init => DisputeInv
  <2> SUFFICES ASSUME Init PROVE DisputeInv
    OBVIOUS
  <2>1. light = {} /\ phase \in {"pieces", "light"} /\ verdict = NoVerdict
    BY DEF Init, First
  <2> QED BY <2>1, InitTypes DEF DisputeInv, Disputes, PublishedIsMerged, Concluded, NoVerdict
<1>2. DisputeInv /\ [Next]_vars => DisputeInv'
  <2> SUFFICES ASSUME DisputeInv, [Next]_vars PROVE DisputeInv'
    OBVIOUS
  <2>1. TypeOK'
    BY StepTypes DEF DisputeInv
  <2>2. PublishedIsMerged'
    BY PublishedStep DEF DisputeInv
  <2> QED BY <2>1, <2>2, DisputeStep DEF DisputeInv
<1> QED BY <1>1, <1>2, PTL DEF Spec

\* Of light judges that disagree, none decides alone, whoever fails in the
\* arbitration and however few judges the chain has: a request for changes that
\* is not in the verdict was replaced by its author's deep reply or by a judge
\* that had taken no side.
THEOREM NoDissentIsLost == Spec => []DissentsAreAnswered
<1>1. DisputeInv => DissentsAreAnswered
  BY DEF DisputeInv, Disputes, PublishedIsMerged, DissentsAreAnswered, Settled
<1> QED BY <1>1, DisputesStay, PTL

-----------------------------------------------------------------------------
(* What a judge was shown.                                                 *)

LEMMA FilesAreFinite ==
    ASSUME scope \in Scopes, NEW part, part \subseteq JudgedDiff
    PROVE  IsFiniteSet(part)
<1>1. scope.files \in Seq(Range(scope.files))
  BY ScopeFacts
<1>2. scope.files \in Surjection(1..Len(scope.files), Range(scope.files))
  BY <1>1 DEF Surjection, Range
<1>3. IsFiniteSet(1..Len(scope.files))
  BY <1>1, FS_Interval
<1>4. IsFiniteSet(Range(scope.files))
  BY <1>2, <1>3, FS_Surjection
<1>5. part \in SUBSET Range(scope.files)
  BY DEF JudgedDiff
<1> QED BY <1>4, <1>5, FS_Subset

LEMMA HunksOfAFile ==
    ASSUME scope \in Scopes, NEW f \in JudgedDiff
    PROVE  scope.hunks[f] \in Nat \ {0}
BY ScopeFacts DEF JudgedDiff

LEMMA PlacesAreFinite ==
    ASSUME scope \in Scopes, NEW part, part \subseteq JudgedDiff
    PROVE  IsFiniteSet(Places(part))
<1> DEFINE whole == [f \in part |-> Whole(f)]
           S == {Whole(f) : f \in part}
<1>1. IsFiniteSet(part)
  BY FilesAreFinite
<1>2. whole \in Surjection(part, S)
  BY DEF Surjection
<1>3. IsFiniteSet(S)
  <2> HIDE DEF whole, S
  <2> QED BY <1>1, <1>2, FS_Surjection
<1>4. ASSUME NEW f \in part PROVE IsFiniteSet(Whole(f))
  <2>1. scope.hunks[f] \in Nat
    BY HunksOfAFile
  <2>2. IsFiniteSet(1..scope.hunks[f])
    BY <2>1, FS_Interval
  <2>3. IsFiniteSet({f})
    BY FS_Singleton
  <2> QED BY <2>2, <2>3, FS_Product DEF Whole
<1>5. \A T \in S : IsFiniteSet(T)
  BY <1>4
<1>6. IsFiniteSet(UNION S)
  <2> HIDE DEF S
  <2> QED BY <1>3, <1>5, FS_UNION
<1> QED BY <1>6 DEF Places

\* The first hunks of a file, counted.
LEMMA FirstHunks ==
    ASSUME NEW f, NEW h \in Nat
    PROVE  IsFiniteSet({f} \X (1..h)) /\ Cardinality({f} \X (1..h)) = h
<1>1. IsFiniteSet(1..h) /\ Cardinality(1..h) = h
  BY FS_Interval
<1>2. IsFiniteSet({f}) /\ Cardinality({f}) = 1
  BY FS_Singleton
<1>3. /\ IsFiniteSet({f} \X (1..h))
      /\ Cardinality({f} \X (1..h)) = Cardinality({f}) * Cardinality(1..h)
  BY <1>1, <1>2, FS_Product
<1>4. Cardinality({f}) * Cardinality(1..h) = h
  BY <1>1, <1>2
<1> QED BY <1>3, <1>4

\* A place is at the end of a prefix no longer than its piece.
LEMMA PrefixesFit ==
    ASSUME scope \in Scopes, NEW part, part \subseteq JudgedDiff, NEW f \in part,
           NEW ahead, ahead \subseteq part, f \notin ahead, NEW h \in 1..scope.hunks[f]
    PROVE  /\ Size(ahead) \in Nat /\ Size(part) \in Nat
           /\ Size(ahead) + h <= Size(part)
<1> DEFINE A == Places(ahead)
           B == {f} \X (1..h)
           P == Places(part)
<1>1. h \in Nat /\ scope.hunks[f] \in Nat
  BY HunksOfAFile
<1>2. IsFiniteSet(A) /\ IsFiniteSet(P)
  BY PlacesAreFinite
<1>3. IsFiniteSet(B) /\ Cardinality(B) = h
  BY <1>1, FirstHunks
<1>4. A \cap B = {}
  BY DEF Places, Whole
<1>5. A \cup B \subseteq P
  <2>1. A \subseteq P
    BY DEF Places
  <2>2. B \subseteq Whole(f)
    BY <1>1 DEF Whole
  <2>3. Whole(f) \subseteq P
    BY DEF Places
  <2> QED BY <2>1, <2>2, <2>3
<1> HIDE DEF A, B, P
<1>6. Cardinality(A) \in Nat /\ Cardinality(P) \in Nat
  BY <1>2, FS_CardinalityType
<1>7. Cardinality(A \cup B) = Cardinality(A) + h
  <2>1. Cardinality(A \cup B) = Cardinality(A) + Cardinality(B) - Cardinality(A \cap B)
    BY <1>2, <1>3, FS_Union
  <2>2. Cardinality(A \cap B) = 0
    BY <1>4, FS_EmptySet
  <2> QED BY <1>1, <1>3, <1>6, <2>1, <2>2
<1>8. Cardinality(A \cup B) <= Cardinality(P)
  BY <1>2, <1>5, FS_Subset
<1>9. Size(ahead) = Cardinality(A) /\ Size(part) = Cardinality(P)
  BY DEF Size, A, P
<1> QED BY <1>6, <1>7, <1>8, <1>9

LEMMA CapacityType ==
    ASSUME scope \in Scopes, NEW p
    PROVE  Capacity(p) \in Nat
<1>1. scope.max \in Nat /\ \A q \in Limited : scope.room[q] \in Nat
  BY ScopeFacts
<1>2. p \in Limited => Min({scope.max, scope.room[p]}) \in Nat
  BY <1>1, LesserOfTwo
<1>3. p \in Limited => Max({1, Min({scope.max, scope.room[p]})}) \in Nat
  BY <1>2, GreaterOfTwo
<1> QED BY <1>1, <1>3 DEF Capacity

\* A judge with room for a piece is shown all of it, in whatever order.
LEMMA RoomShowsAll ==
    ASSUME scope \in Scopes, NEW part, part \subseteq JudgedDiff, NEW p, Size(part) <= Capacity(p)
    PROVE  Shown(p, part) = Places(part)
<1> DEFINE before(f) == {e \in part : Prioritised(e, f)}
<1>1. ASSUME NEW place \in Places(part)
      PROVE  Size(before(place[1])) + place[2] <= Capacity(p)
  <2>1. PICK f \in part : place \in Whole(f)
    BY DEF Places
  <2>2. place[1] = f /\ place[2] \in 1..scope.hunks[f]
    BY <2>1 DEF Whole
  <2>3. Position(scope.files, f) < Position(scope.files, f) <=> FALSE
    <3>1. f \in Range(scope.files) /\ scope.files \in Seq(Range(scope.files))
      BY ScopeFacts DEF JudgedDiff
    <3>2. \E n \in DOMAIN scope.files : scope.files[n] = f
      BY <3>1 DEF Range
    <3>3. Position(scope.files, f) \in DOMAIN scope.files
      BY <3>2 DEF Position
    <3>4. DOMAIN scope.files \subseteq Nat
      BY <3>1
    <3> QED BY <3>3, <3>4
  <2>4. f \notin before(f) /\ before(f) \subseteq part
    BY <2>3 DEF Prioritised
  <2>5. Size(before(f)) \in Nat /\ Size(part) \in Nat /\ Size(before(f)) + place[2] <= Size(part)
    <3> HIDE DEF before
    <3> QED BY <2>2, <2>4, PrefixesFit
  <2>6. place[2] \in Nat /\ Capacity(p) \in Nat
    BY <2>2, HunksOfAFile, CapacityType
  <2> QED BY <2>2, <2>5, <2>6
<1> QED BY <1>1 DEF Shown

\* A judge is shown places of its own piece, all of them when nothing was cut.
Sighted(rs) == \A r \in rs : r.shown \subseteq Places(r.piece) /\ (r.whole => r.shown = Places(r.piece))

SightInv == TypeOK /\ PublishedIsMerged /\ Sighted(got) /\ Sighted(light) /\ Sighted(replies)

LEMMA SightedReply ==
    ASSUME scope \in Scopes, NEW p, NEW tier, NEW part, part \subseteq JudgedDiff, NEW s
    PROVE  Sighted({Reply(p, tier, part, s)})
<1>1. Shown(p, part) \subseteq Places(part)
  BY DEF Shown
<1>2. Size(part) <= Capacity(p) => Shown(p, part) = Places(part)
  BY RoomShowsAll
<1> DEFINE r == Reply(p, tier, part, s)
<1>3. r.shown = Shown(p, part) /\ r.piece = part
  BY DEF Reply
<1>4. r.whole = (Size(part) <= Capacity(p))
  BY Zenon DEF Reply
<1> HIDE DEF r
<1>5. r.shown \subseteq Places(r.piece) /\ (r.whole => r.shown = Places(r.piece))
  BY <1>1, <1>2, <1>3, <1>4
<1>6. Sighted({r})
  BY <1>5 DEF Sighted
<1> QED BY <1>6 DEF r

LEMMA SightedWithinPart ==
    ASSUME NEW rs \in SUBSET Replies, Sighted(rs)
    PROVE  Sighted({WithinPart(r) : r \in rs})
BY WithinPartKeeps DEF Sighted

LEMMA SightStep ==
    ASSUME SightInv, [Next]_vars
    PROVE  Sighted(got') /\ Sighted(light') /\ Sighted(replies')
<1>1. TypeOK /\ Sighted(got) /\ Sighted(light) /\ Sighted(replies)
  BY DEF SightInv
<1>2. scope \in Scopes /\ piece \subseteq JudgedDiff
      /\ got \in SUBSET Replies /\ light \in SUBSET Replies /\ replies \in SUBSET Replies
  BY <1>1 DEF TypeOK
<1>3. Sighted({})
  BY DEF Sighted
<1>4. CASE Unaskable
  <2>1. got' = got /\ UNCHANGED <<light, replies>>
    BY <1>4 DEF Unaskable, Answered
  <2> QED BY <1>1, <2>1
<1>5. CASE Judge
  <2>1. UNCHANGED <<light, replies>>
    BY <1>5 DEF Judge, Answered
  <2>2. got' = got \/ \E s \in Sayings : got' = got \cup {Reply(Turn, Tier, piece, s)}
    BY <1>5 DEF Judge, Answered
  <2>3. \A s : Sighted({Reply(Turn, Tier, piece, s)})
    BY <1>2, SightedReply
  <2>4. Sighted(got')
    BY <1>1, <2>2, <2>3 DEF Sighted
  <2> QED BY <1>1, <2>1, <2>4
<1>6. CASE PrimaryFails \/ Tick \/ Conclude \/ UNCHANGED vars
  <2>1. UNCHANGED <<got, light, replies>>
    BY <1>6 DEF PrimaryFails, Tick, Conclude, vars
  <2> QED BY <1>1, <2>1
<1>7. CASE PieceEnds
  <2>1. got' = {} /\ light' = light /\ replies' = replies \cup {WithinPart(r) : r \in got}
    BY <1>7 DEF PieceEnds, Goto
  <2>2. Sighted({WithinPart(r) : r \in got})
    BY <1>1, <1>2, SightedWithinPart
  <2>3. Sighted(replies')
    BY <1>1, <2>1, <2>2 DEF Sighted
  <2> QED BY <1>1, <1>3, <2>1, <2>3
<1>8. CASE LightEnds
  <2>1. got' = {} /\ light' \in {light, got} /\ replies' \in {replies, {WithinPart(r) : r \in got}}
    BY <1>8 DEF LightEnds, Goto
  <2>2. Sighted({WithinPart(r) : r \in got})
    BY <1>1, <1>2, SightedWithinPart
  <2> QED BY <1>1, <1>3, <2>1, <2>2
<1>9. CASE DeepEnds
  <2>1. got' = {} /\ light' = light /\ replies' = {WithinPart(r) : r \in Retained}
    BY <1>9 DEF DeepEnds, Goto
  <2>2. Retained \in SUBSET Replies /\ Sighted(Retained)
    BY <1>1, RetainedType, TypeIsItsParts DEF Sighted, Retained
  <2>3. Sighted({WithinPart(r) : r \in Retained})
    BY <2>2, SightedWithinPart
  <2> QED BY <1>1, <1>3, <2>1, <2>3
<1>10. CASE Again
  <2>1. got' = {} /\ light' = {} /\ replies' = {}
    BY <1>10 DEF Again
  <2> QED BY <1>3, <2>1
<1> QED BY <1>4, <1>5, <1>6, <1>7, <1>8, <1>9, <1>10 DEF Next

LEMMA SightStays == Spec => []SightInv
<1>1. Init => SightInv
  <2> SUFFICES ASSUME Init PROVE SightInv
    OBVIOUS
  <2>1. got = {} /\ light = {} /\ replies = {} /\ verdict = NoVerdict
    BY DEF Init
  <2> QED BY <2>1, InitTypes DEF SightInv, Sighted, PublishedIsMerged, Concluded, NoVerdict
<1>2. SightInv /\ [Next]_vars => SightInv'
  <2> SUFFICES ASSUME SightInv, [Next]_vars PROVE SightInv'
    OBVIOUS
  <2>1. TypeOK'
    BY StepTypes DEF SightInv
  <2>2. PublishedIsMerged'
    BY PublishedStep DEF SightInv
  <2>3. Sighted(got)' /\ Sighted(light)' /\ Sighted(replies)'
    <3>1. scope' = scope
      BY WorldStays
    <3> QED BY <3>1, SightStep, SameWorld DEF Sighted
  <2> QED BY <2>1, <2>2, <2>3 DEF SightInv
<1> QED BY <1>1, <1>2, PTL DEF Spec

-----------------------------------------------------------------------------
(* What the verdict says was read, and what it says of earlier findings.   *)

\* Nothing seen is a place no file has: a file has no hunk 0.
LEMMA SeenWhole ==
    ASSUME SightInv, NEW r \in replies, NEW f \in Judged, SeesPlace(r, f, 0)
    PROVE  Whole(f) \subseteq r.shown
<1>1. r.shown \subseteq Places(r.piece)
  BY DEF SightInv, Sighted
<1>2. r.piece \subseteq JudgedDiff /\ scope \in Scopes
  BY DEF SightInv, TypeOK, Replies
<1>3. <<f, 0>> \notin Places(r.piece)
  BY <1>2, HunksOfAFile DEF Places, Whole
<1> QED BY <1>1, <1>3 DEF SeesPlace

\* Every file a receipt does not name as unseen was shown whole to a judge whose
\* reply counts, and a receipt that does not say it was cut rests on judges that
\* were shown all of their piece, in whatever order it was put to them.
THEOREM UnreadIsNamed == Spec => []ReceiptsNameWhatWasNotRead
<1>1. SightInv => ReceiptsNameWhatWasNotRead
  <2> SUFFICES ASSUME SightInv, Concluded PROVE ReceiptsNameWhatWasNotRead
    BY DEF ReceiptsNameWhatWasNotRead
  <2>1. verdict = Merged
    BY DEF SightInv, PublishedIsMerged
  <2>2. verdict.unseen = Unseen(replies) /\ verdict.truncated = Truncated(replies)
    BY <2>1 DEF Merged
  <2>3. ASSUME NEW f \in Judged \ verdict.unseen
        PROVE  \E r \in replies : Whole(f) \subseteq r.shown
    <3>1. PICK r \in replies : SeesPlace(r, f, 0)
      BY <2>2, <2>3 DEF Unseen
    <3> QED BY <3>1, SeenWhole
  <2>4. ASSUME ~verdict.truncated, NEW r \in replies
        PROVE  Places(r.piece) = r.shown
    <3>1. r.whole
      BY <2>2, <2>4 DEF Truncated
    <3> QED BY <3>1 DEF SightInv, Sighted
  <2> QED BY <2>3, <2>4 DEF ReceiptsNameWhatWasNotRead
<1> QED BY <1>1, SightStays, PTL

\* The word of a reply on an earlier finding counts exactly when its judge was
\* shown the finding's place.
LEMMA AdmittedIsShown ==
    ASSUME SightInv, NEW r \in replies, NEW id \in Ids
    PROVE  Admits(r, id) <=> Readable(JudgedDiff) /\ ShownTo(r, id)
<1> DEFINE file == scope.earlier[id].file
           hunk == scope.earlier[id].hunk
<1>1. r.shown \subseteq Places(r.piece) /\ r.piece \subseteq JudgedDiff /\ scope \in Scopes
  BY DEF SightInv, Sighted, TypeOK, Replies
<1>2. Judged \subseteq JudgedDiff /\ JudgedDiff \subseteq Range(scope.files)
  BY DEF Judged, JudgedDiff
<1>3. Vague \notin Judged
  BY <1>1, <1>2, ScopeFacts
<1>4. Readable(JudgedDiff) => Readable(r.piece)
  BY <1>1 DEF Readable
<1>5. CASE file = Vague
  <2>1. ~Admits(r, id)
    BY <1>5 DEF Admits
  <2>2. id \notin Excerpted
    BY <1>5 DEF Excerpted
  <2>3. ~ShownTo(r, id)
    BY <1>3, <1>5, <2>2 DEF ShownTo
  <2> QED BY <2>1, <2>3
<1>6. CASE file # Vague /\ file \notin Judged
  <2>1. Admits(r, id) <=> Readable(JudgedDiff) /\ id \in Excerpted
    BY <1>6 DEF Admits
  <2>2. ShownTo(r, id) <=> id \in Excerpted
    BY <1>6 DEF ShownTo
  <2> QED BY <2>1, <2>2
<1>7. CASE file # Vague /\ file \in Judged
  <2>1. Admits(r, id) <=> Readable(JudgedDiff) /\ SeesPlace(r, file, hunk)
    BY <1>7 DEF Admits
  <2>2. ShownTo(r, id) <=> IF hunk = 0 THEN Whole(file) \subseteq r.shown ELSE <<file, hunk>> \in r.shown
    BY <1>7 DEF ShownTo
  <2>3. Readable(r.piece) =>
          (SeesPlace(r, file, hunk) <=> Whole(file) \subseteq r.shown \/ <<file, hunk>> \in r.shown)
    BY DEF SeesPlace
  <2>4. hunk = 0 => <<file, hunk>> \notin r.shown
    <3>1. <<file, 0>> \notin Places(r.piece)
      BY <1>1, HunksOfAFile DEF Places, Whole
    <3> QED BY <1>1, <3>1
  <2>5. hunk # 0 => <<file, hunk>> \in Whole(file)
    <3>1. file \in JudgedDiff /\ file \in Range(scope.files)
      BY <1>2, <1>7
    <3>2. hunk \in Nat /\ (file \in Range(scope.files) => hunk <= scope.hunks[file])
      BY <1>1, PlaceFacts
    <3> HIDE DEF file, hunk
    <3>3. scope.hunks[file] \in Nat
      BY <1>1, <3>1, HunksOfAFile
    <3> QED BY <3>1, <3>2, <3>3 DEF Whole
  <2> HIDE DEF file, hunk
  <2> QED BY <1>4, <2>1, <2>2, <2>3, <2>4, <2>5
<1> QED BY <1>5, <1>6, <1>7

LEMMA AdmissibleWords ==
    ASSUME TypeOK, NEW r \in replies
    PROVE  /\ Admissible(r).fixed = {id \in r.fixed : Admits(r, id)}
           /\ Admissible(r).open = {id \in r.open : Admits(r, id)}
           /\ Admissible(r).again = {id \in r.again : Admits(r, id)}
<1>1. r \in Replies
  BY DEF TypeOK
<1> DEFINE kept == {id \in Ids : Admits(r, id)}
<1>2. r.fixed \subseteq Ids /\ r.open \subseteq Ids /\ r.again \subseteq Ids
  BY <1>1 DEF Replies
<1>3. Admissible(r) = [r EXCEPT !.fixed = @ \cap kept, !.open = @ \cap kept, !.again = @ \cap kept]
  BY DEF Admissible
<1> HIDE DEF kept
<1>4. /\ Admissible(r).fixed = r.fixed \cap kept
      /\ Admissible(r).open = r.open \cap kept
      /\ Admissible(r).again = r.again \cap kept
  BY <1>1, <1>3 DEF Replies
<1> QED BY <1>2, <1>4 DEF kept

\* What the replies that count say of an earlier finding.
SaysFixed(id) == \E r \in replies : id \in r.fixed /\ ShownTo(r, id)
SaysThere(id) == \E r \in replies : id \in r.open \cup r.again /\ ShownTo(r, id)
SaysAgain(id) == \E r \in replies : id \in r.again /\ ShownTo(r, id)

Filtered == {Admissible(r) : r \in replies}

LEMMA FixedOnSight ==
    ASSUME SightInv, NEW id \in Ids
    PROVE  id \in Fixed(Filtered) <=> Readable(JudgedDiff) /\ SaysFixed(id) /\ ~SaysThere(id)
<1>1. TypeOK
  BY DEF SightInv
<1>2. (\E q \in Filtered : id \in q.fixed) <=> Readable(JudgedDiff) /\ SaysFixed(id)
  BY <1>1, AdmissibleWords, AdmittedIsShown DEF Filtered, SaysFixed
<1>3. (\E q \in Filtered : id \in q.open \cup q.again) <=> Readable(JudgedDiff) /\ SaysThere(id)
  BY <1>1, AdmissibleWords, AdmittedIsShown DEF Filtered, SaysThere
<1> QED BY <1>2, <1>3 DEF Fixed

LEMMA ReopenedOnSight ==
    ASSUME SightInv, NEW id \in Ids
    PROVE  id \in UNION {q.again : q \in Filtered} <=> Readable(JudgedDiff) /\ SaysAgain(id)
<1>1. TypeOK
  BY DEF SightInv
<1>2. (\E q \in Filtered : id \in q.again) <=> Readable(JudgedDiff) /\ SaysAgain(id)
  BY <1>1, AdmissibleWords, AdmittedIsShown DEF Filtered, SaysAgain
<1> QED BY <1>2

\* An earlier finding is closed, or reopened, exactly when a judge that was shown
\* its place says so and, for a closing, no judge that was shown it says it is
\* still there; an approval leaves no earlier finding of class blocker open.
THEOREM FindingsMoveOnSight == Spec => []EarlierFindingsMoveOnSight
<1>1. SightInv => EarlierFindingsMoveOnSight
  <2> SUFFICES ASSUME SightInv, Concluded PROVE EarlierFindingsMoveOnSight
    BY DEF EarlierFindingsMoveOnSight
  <2>1. verdict = Merged /\ scope \in Scopes
    BY DEF SightInv, PublishedIsMerged, TypeOK
  <2> DEFINE fixed == Fixed(Filtered) \ scope.closed
             reopened == scope.closed \cap UNION {q.again : q \in Filtered}
  <2>2. verdict.fixed = fixed /\ verdict.reopened = reopened
    BY <2>1 DEF Merged, Filtered
  <2>3. scope.closed \subseteq Ids /\ scope.blocking \subseteq Ids
    BY <2>1, ScopeFacts
  <2>4. verdict.decision = "approve" =>
          ((Ids \ (scope.closed \cup fixed)) \cup reopened) \cap scope.blocking = {}
    BY <2>1 DEF Merged, Filtered
  <2>5. fixed \subseteq Ids
    BY DEF Fixed
  <2>6. \A id \in Ids \ scope.closed :
          id \in verdict.fixed <=> Readable(JudgedDiff) /\ SaysFixed(id) /\ ~SaysThere(id)
    BY <2>2, FixedOnSight
  <2>7. \A id \in scope.closed :
          id \in verdict.reopened <=> Readable(JudgedDiff) /\ SaysAgain(id)
    BY <2>2, <2>3, ReopenedOnSight
  <2> HIDE DEF fixed, reopened
  <2>8. verdict.decision = "approve" =>
          scope.blocking \subseteq (scope.closed \ verdict.reopened) \cup verdict.fixed
    BY <2>2, <2>3, <2>4, <2>5
  <2> QED BY <2>6, <2>7, <2>8 DEF EarlierFindingsMoveOnSight, SaysFixed, SaysThere, SaysAgain
<1> QED BY <1>1, SightStays, PTL

-----------------------------------------------------------------------------
(* ReviewLoop: numbers and finite sets. *)

\* A set of numbers with a bound has a greatest.
LEMMA GreatestIn ==
    ASSUME NEW S \in SUBSET Nat, S # {}, NEW n \in Nat, \A x \in S : x <= n
    PROVE  Greatest(S) \in S /\ \A y \in S : y <= Greatest(S)
<1> DEFINE R == {p \in Nat \X Nat : p[1] < p[2]}
           T == {n - x : x \in S}
<1>1. IsWellFoundedOn(R, Nat)
  BY NatLessThanWellFounded DEF OpToRel
<1>2. T \in SUBSET Nat /\ T # {}
  <2>1. \A x \in S : n - x \in Nat
    OBVIOUS
  <2>2. \E x \in S : n - x \in T
    OBVIOUS
  <2> QED BY <2>1, <2>2
<1>3. PICK t \in T : \A u \in T : ~(<<u, t>> \in R)
  <2> HIDE DEF R, T
  <2> QED BY <1>1, <1>2, WFMin
<1>4. PICK x \in S : t = n - x
  BY <1>3
<1>5. ASSUME NEW y \in S  PROVE y <= x
  <2>1. x \in Nat /\ y \in Nat /\ n - y \in T /\ n - y \in Nat /\ n - x \in Nat
    BY <1>2
  <2>2. n - y < n - x => <<n - y, n - x>> \in R
    BY <2>1
  <2>3. ~(<<n - y, t>> \in R)
    BY <1>3, <2>1
  <2> QED BY <1>4, <2>1, <2>2, <2>3
<1> QED BY <1>5 DEF Greatest

\* The newest of some receipts.
LEMMA NewestIn ==
    ASSUME receipts \in Seq(Receipts), NEW S \in SUBSET DOMAIN receipts
    PROVE  /\ S = {} => Greatest(S) = 0
           /\ S # {} => Greatest(S) \in S /\ \A y \in S : y <= Greatest(S)
           /\ Greatest(S) \in 0..Len(receipts)
           /\ Greatest(S) # 0 => Greatest(S) \in S
           /\ \A y \in S : y <= Greatest(S)
<1>1. /\ DOMAIN receipts = 1..Len(receipts) /\ Len(receipts) \in Nat
      /\ S \in SUBSET Nat /\ \A x \in S : x <= Len(receipts)
  OBVIOUS
<1>2. S # {} => Greatest(S) \in S /\ \A y \in S : y <= Greatest(S)
  BY <1>1, GreatestIn
<1>3. S = {} => Greatest(S) = 0
  BY DEF Greatest
<1> QED BY <1>1, <1>2, <1>3

\* Receipts are finitely many.
LEMMA ReceiptsFinite ==
    ASSUME receipts \in Seq(Receipts), NEW S \in SUBSET DOMAIN receipts
    PROVE  IsFiniteSet(S) /\ Cardinality(S) \in Nat
<1>1. DOMAIN receipts = 1..Len(receipts) /\ Len(receipts) \in Int /\ 1 \in Int
  OBVIOUS
<1>2. IsFiniteSet(DOMAIN receipts)
  BY <1>1, FS_Interval
<1> QED BY <1>2, FS_Subset, FS_CardinalityType

\* So are the gaps there may be.
LEMMA GapsFinite == IsFiniteSet(Gaps)
<1> DEFINE Whys == {"unaccounted", "unreasoned", "unconfirmed"}
           P == Elsewhere \X Whys
           h == [p \in P |-> [cf |-> p[1], why |-> p[2]]]
<1>1. IsFiniteSet(Whys)
  <2>1. IsFiniteSet({"unaccounted"})
    BY FS_Singleton
  <2>2. IsFiniteSet({"unaccounted"} \cup {"unreasoned"})
    BY <2>1, FS_AddElement
  <2>3. IsFiniteSet(({"unaccounted"} \cup {"unreasoned"}) \cup {"unconfirmed"})
    BY <2>2, FS_AddElement
  <2>4. Whys = ({"unaccounted"} \cup {"unreasoned"}) \cup {"unconfirmed"}
    OBVIOUS
  <2> QED BY <2>3, <2>4
<1>2. IsFiniteSet(P)
  BY <1>1, FS_Product, LoopAssumption
<1>3. h \in Surjection(P, Gaps)
  <2>1. h \in [P -> Gaps]
    BY DEF Gaps
  <2>2. ASSUME NEW g \in Gaps  PROVE \E p \in P : h[p] = g
    <3>1. <<g.cf, g.why>> \in P /\ g = [cf |-> g.cf, why |-> g.why]
      BY DEF Gaps
    <3>2. h[<<g.cf, g.why>>] = g
      BY <3>1
    <3> QED BY <3>1, <3>2
  <2> HIDE DEF h
  <2> QED BY <2>1, <2>2 DEF Surjection
<1> HIDE DEF h, P
<1> QED BY <1>2, <1>3, FS_Surjection

\* The gaps in a sequence: numbered from 1, each at one place at least.
LEMMA GapsInOrder ==
    ASSUME NEW G \in SUBSET Gaps
    PROVE  /\ DOMAIN SetToSeq(G) \in SUBSET (Nat \ {0})
           /\ \A n \in DOMAIN SetToSeq(G) : SetToSeq(G)[n] \in G
           /\ \A g \in G : \E n \in DOMAIN SetToSeq(G) : SetToSeq(G)[n] = g
           /\ \A m, n \in DOMAIN SetToSeq(G) : SetToSeq(G)[m] = SetToSeq(G)[n] => m = n
<1>1. IsFiniteSet(G)
  BY GapsFinite, FS_Subset
<1>2. PICK n \in Nat : n = Cardinality(G) /\ ExistsBijection(1..n, G)
  BY <1>1, FS_CardinalityType
<1>3. PICK b \in [1..n -> G] : IsInjective(b) /\ \A g \in G : \E k \in 1..n : b[k] = g
  BY <1>2 DEF ExistsBijection, Bijection, Injection, Surjection
<1>4. SetToSeq(G) \in [1..n -> G] /\ IsInjective(SetToSeq(G))
  BY <1>2, <1>3 DEF SetToSeq
<1>5. SetToSeq(G) \in Injection(1..n, G)
  BY <1>4 DEF Injection
<1>6. IsFiniteSet(1..n) /\ Cardinality(1..n) = n
  <2>1. IsFiniteSet(1..n) /\ Cardinality(1..n) = IF 1 > n THEN 0 ELSE n - 1 + 1
    BY FS_Interval
  <2> QED BY <2>1
<1>7. SetToSeq(G) \in Surjection(1..n, G)
  BY <1>1, <1>2, <1>5, <1>6, FS_Injection
<1>8. DOMAIN SetToSeq(G) = 1..n /\ 1..n \in SUBSET (Nat \ {0})
  BY <1>4
<1>9. \A g \in G : \E k \in 1..n : SetToSeq(G)[k] = g
  BY <1>7 DEF Surjection
<1>10. \A k, l \in 1..n : SetToSeq(G)[k] = SetToSeq(G)[l] => k = l
  BY <1>4, <1>8 DEF IsInjective
<1> QED BY <1>4, <1>8, <1>9, <1>10

-----------------------------------------------------------------------------
(* What a pass read, and the lists it makes of it.                         *)

\* The verdicts that hold a list of findings.
Written == VerdictsIn(DOMAIN receipts)

IsVerdict(i) == receipts[i].kind = "verdict"

Statuses == {"new", "still_open", "fixed", "ruled"}

\* A finding before its id is known to be within the bound.
RawFindings == [id : Nat \ {0}, class : Classes, status : Statuses,
                gap : {{}} \cup {{g} : g \in Gaps}, born : Nat]

\* One finding, whatever became of it.
Same(e, f) == e.id = f.id /\ e.gap = f.gap /\ e.born = f.born

Recalls(f) == \E e \in Earlier : Same(e, f)

\* An earlier finding that is ruled, or is now.
EverRuled(f) ==
    \E e \in Earlier : Same(e, f) /\ (e.status = "ruled" \/ RuledAs(Seen, e.id, "carry_forward"))

\* A list made of the earlier one: nothing of another verdict is confused with it.
Follows(F) ==
    /\ F \in SUBSET RawFindings
    /\ \A f, g \in F : f.id = g.id => f = g
    /\ \A f \in F : Recalls(f) \/ f.id > HighestId(Seen)
    /\ \A f \in F : Mechanical(f) /\ f.status # "ruled" => f.class = "blocker"
    /\ \A f \in F : Mechanical(f) /\ f.status = "ruled" => EverRuled(f)

\* A receipt has the type of its kind.
LEMMA VerdictsTyped ==
    ASSUME receipts \in Seq(Receipts), NEW i \in DOMAIN receipts
    PROVE  /\ IsVerdict(i) => receipts[i] \in Verdicts
           /\ receipts[i].kind = "ruling" => receipts[i] \in Rulings
           /\ receipts[i].kind = "other" => receipts[i] \in Others
  BY DEF Receipts, Verdicts, Rulings, Others, IsVerdict

\* What a verdict with a list holds.
LEMMA WrittenTyped ==
    ASSUME receipts \in Seq(Receipts), NEW i \in Written
    PROVE  /\ i \in DOMAIN receipts /\ i \in 1..Len(receipts) /\ IsVerdict(i)
           /\ receipts[i].step # "mechanical"
           /\ receipts[i] \in Verdicts
           /\ receipts[i].findings \in SUBSET Findings
           /\ receipts[i].addressed \in SUBSET Elsewhere
           /\ receipts[i].confirmed \in SUBSET Elsewhere
           /\ receipts[i].source \in Nat /\ receipts[i].head \in Nat
<1>1. i \in DOMAIN receipts /\ IsVerdict(i) /\ receipts[i].step # "mechanical"
  BY DEF Written, VerdictsIn, IsVerdict
<1>2. receipts[i] \in Verdicts
  BY <1>1, VerdictsTyped
<1> QED BY <1>1, <1>2 DEF Verdicts

LEMMA WrittenIs ==
    ASSUME NEW i \in Written
    PROVE  i \in DOMAIN receipts /\ receipts[i].kind = "verdict" /\ receipts[i].step # "mechanical"
  BY DEF Written, VerdictsIn

\* The findings as they are typed.
LEMMA FindingsTyped ==
    ASSUME NEW f \in Findings
    PROVE  /\ f \in RawFindings /\ f.id \in 1..MaxIds /\ f.id \in Nat
           /\ f.class \in Classes /\ f.status \in Statuses /\ f.born \in Nat
           /\ f.gap = {} \/ \E g \in Gaps : f.gap = {g}
<1>1. 1..MaxIds \in SUBSET (Nat \ {0})
  BY LoopAssumption
<1> QED BY <1>1 DEF Findings, RawFindings, Statuses

\* The verdicts a pass reads, and the latest of them.
LEMMA ReadsVerdicts ==
    ASSUME LoopTypeOK
    PROVE  /\ VerdictsIn(Seen) \in SUBSET Written
           /\ VerdictsIn(Seen) = {} => Earlier = {}
           /\ VerdictsIn(Seen) # {} =>
                /\ Greatest(VerdictsIn(Seen)) \in VerdictsIn(Seen)
                /\ \A i \in VerdictsIn(Seen) : i <= Greatest(VerdictsIn(Seen))
                /\ Earlier = receipts[Greatest(VerdictsIn(Seen))].findings
           /\ Earlier \in SUBSET Findings
<1>1. Seen \in SUBSET DOMAIN receipts /\ receipts \in Seq(Receipts)
  BY DEF LoopTypeOK, Passes, Seen
<1>2. VerdictsIn(Seen) \in SUBSET Written /\ VerdictsIn(Seen) \in SUBSET DOMAIN receipts
  BY <1>1 DEF Written, VerdictsIn
<1>3. VerdictsIn(Seen) # {} =>
                /\ Greatest(VerdictsIn(Seen)) \in VerdictsIn(Seen)
                /\ \A i \in VerdictsIn(Seen) : i <= Greatest(VerdictsIn(Seen))
  BY <1>1, <1>2, NewestIn
<1>4. /\ VerdictsIn(Seen) = {} => Earlier = {}
      /\ VerdictsIn(Seen) # {} => Earlier = receipts[Greatest(VerdictsIn(Seen))].findings
  BY DEF Earlier, Latest
<1>5. Earlier \in SUBSET Findings
  BY <1>1, <1>2, <1>3, <1>4, WrittenTyped
<1> QED BY <1>2, <1>3, <1>4, <1>5

\* No verdict the pass read holds an id above the highest.
LEMMA HighestIsAbove ==
    ASSUME LoopTypeOK
    PROVE  /\ HighestId(Seen) \in 0..MaxIds /\ HighestId(Seen) \in Nat
           /\ \A i \in VerdictsIn(Seen) : \A f \in receipts[i].findings : f.id <= HighestId(Seen)
           /\ \A f \in Earlier : f.id <= HighestId(Seen)
<1> DEFINE S == UNION {{f.id : f \in receipts[i].findings} : i \in VerdictsIn(Seen)}
<1>1. receipts \in Seq(Receipts) /\ MaxIds \in Nat
  BY LoopAssumption DEF LoopTypeOK
<1>2. \A i \in VerdictsIn(Seen) : \A f \in receipts[i].findings : f.id \in 1..MaxIds /\ f.id \in S
  BY <1>1, ReadsVerdicts, WrittenTyped, FindingsTyped
<1>3. \A x \in S : x \in 1..MaxIds
  BY <1>2
<1>4. S \in SUBSET Nat /\ \A x \in S : x <= MaxIds
  BY <1>1, <1>3
<1>5. HighestId(Seen) = Greatest(S)
  BY DEF HighestId
<1>6. S # {} => Greatest(S) \in S /\ \A y \in S : y <= Greatest(S)
  <2> HIDE DEF S
  <2> QED BY <1>1, <1>4, GreatestIn
<1>7. S = {} => Greatest(S) = 0
  BY DEF Greatest
<1>8. Greatest(S) \in 0..MaxIds /\ \A y \in S : y <= Greatest(S)
  <2> HIDE DEF S
  <2>1. CASE S = {}
    <3>1. Greatest(S) = 0
      BY <1>7, <2>1
    <3> QED BY <1>1, <2>1, <3>1
  <2>2. CASE S # {}
    <3>1. Greatest(S) \in S /\ \A y \in S : y <= Greatest(S)
      BY <1>6, <2>2
    <3>2. Greatest(S) \in 1..MaxIds
      BY <1>3, <3>1
    <3>3. Greatest(S) \in 0..MaxIds
      BY <1>1, <3>2
    <3> QED BY <3>1, <3>3
  <2> QED BY <2>1, <2>2
<1>9. \A i \in VerdictsIn(Seen) : \A f \in receipts[i].findings : f.id <= HighestId(Seen)
  <2> HIDE DEF S
  <2> QED BY <1>2, <1>5, <1>8
<1>10. \A f \in Earlier : f.id <= HighestId(Seen)
  BY <1>9, ReadsVerdicts
<1>11. HighestId(Seen) \in 0..MaxIds /\ HighestId(Seen) \in Nat
  <2> HIDE DEF S
  <2> QED BY <1>1, <1>5, <1>8
<1> QED BY <1>9, <1>10, <1>11

-----------------------------------------------------------------------------
(* The lists.                                                              *)

\* The list a pass starts from follows itself.
LEMMA EarlierFollows ==
    ASSUME LoopTypeOK,
           \A f \in Earlier : Mechanical(f) /\ f.status # "ruled" => f.class = "blocker"
    PROVE  Follows(Earlier)
<1>1. Earlier \in SUBSET RawFindings
  BY ReadsVerdicts, FindingsTyped
<1>2. \A f, g \in Earlier : f.id = g.id => f = g
  <2>1. CASE VerdictsIn(Seen) = {}
    BY <2>1, ReadsVerdicts
  <2>2. CASE VerdictsIn(Seen) # {}
    BY <2>2, ReadsVerdicts DEF LoopTypeOK, Written
  <2> QED BY <2>1, <2>2
<1>3. \A f \in Earlier : Recalls(f)
  BY DEF Recalls, Same
<1>4. \A f \in Earlier : f.status = "ruled" => EverRuled(f)
  BY DEF EverRuled, Same
<1> QED BY <1>1, <1>2, <1>3, <1>4 DEF Follows

\* A finding that changes its status, or its class as well, is the same finding.
LEMMA StatusChanges ==
    ASSUME NEW f \in RawFindings, NEW s \in Statuses
    PROVE  /\ [f EXCEPT !.status = s] \in RawFindings
           /\ Same(f, [f EXCEPT !.status = s])
           /\ [f EXCEPT !.status = s].status = s /\ [f EXCEPT !.status = s].class = f.class
           /\ [f EXCEPT !.status = s].gap = f.gap /\ [f EXCEPT !.status = s].id = f.id
  BY DEF RawFindings, Same

\* What the judges make of one of their findings.
AnswerTo(e, fixed, again) ==
    CASE e.status = "ruled" -> e
      [] e.status = "fixed" -> IF e.id \in again THEN [e EXCEPT !.status = "still_open"] ELSE e
      [] OTHER -> [e EXCEPT !.status = IF e.id \in fixed THEN "fixed" ELSE "still_open"]

\* It keeps its id, its gap and its birth; called fixed it is fixed, and silence
\* keeps it open.
LEMMA AnswersAreSame ==
    ASSUME NEW e \in RawFindings, NEW fixed, NEW again, NEW f, f = AnswerTo(e, fixed, again)
    PROVE  /\ Same(e, f) /\ f \in RawFindings /\ f.class = e.class
           /\ IsOpen(e) /\ e.id \in fixed => f.status = "fixed"
           /\ IsOpen(e) /\ e.id \notin fixed => f.status = "still_open"
<1>1. e.status \in Statuses /\ "still_open" \in Statuses /\ "fixed" \in Statuses
  BY DEF RawFindings, Statuses
<1>2. \/ f = e /\ ~IsOpen(e)
      \/ f = [e EXCEPT !.status = "still_open"] /\ (IsOpen(e) => e.id \notin fixed)
      \/ f = [e EXCEPT !.status = "fixed"] /\ IsOpen(e) /\ e.id \in fixed
  <2>1. CASE e.status = "ruled" BY <2>1 DEF IsOpen, AnswerTo
  <2>2. CASE e.status = "fixed" BY <2>2 DEF IsOpen, AnswerTo
  <2>3. CASE e.status \notin {"ruled", "fixed"}
    <3>1. IsOpen(e) BY <1>1, <2>3 DEF IsOpen, Statuses
    <3>2. f = [e EXCEPT !.status = IF e.id \in fixed THEN "fixed" ELSE "still_open"]
      BY <2>3 DEF AnswerTo
    <3> QED BY <3>1, <3>2
  <2> QED BY <2>1, <2>2, <2>3
<1>3. CASE f = e /\ ~IsOpen(e)
  BY <1>3 DEF Same
<1>4. CASE f = [e EXCEPT !.status = "still_open"] /\ (IsOpen(e) => e.id \notin fixed)
  BY <1>1, <1>4, StatusChanges
<1>5. CASE f = [e EXCEPT !.status = "fixed"] /\ IsOpen(e) /\ e.id \in fixed
  BY <1>1, <1>5, StatusChanges
<1> QED BY <1>2, <1>3, <1>4, <1>5

LEMMA AssignedAre ==
    ASSUME NEW fixed, NEW again
    PROVE  Assigned(fixed, again) = {AnswerTo(e, fixed, again) : e \in JudgesOwn(Earlier)}
  BY DEF Assigned, AnswerTo

\* And none of them is left out.
LEMMA AllAssigned ==
    ASSUME NEW fixed, NEW again, Earlier \in SUBSET RawFindings,
           NEW e \in JudgesOwn(Earlier), IsOpen(e), e.id \notin fixed
    PROVE  \E f \in Assigned(fixed, again) : Same(e, f) /\ f.class = e.class /\ IsOpen(f) /\ f.gap = {}
<1>1. e \in RawFindings /\ e.gap = {}
  BY DEF JudgesOwn, Mechanical
<1>2. AnswerTo(e, fixed, again) \in Assigned(fixed, again)
  BY AssignedAre
<1>3. /\ Same(e, AnswerTo(e, fixed, again)) /\ AnswerTo(e, fixed, again).class = e.class
      /\ AnswerTo(e, fixed, again).status = "still_open"
  BY <1>1, AnswersAreSame
<1> QED BY <1>1, <1>2, <1>3 DEF Same, IsOpen

\* The lists of the judges, with what a verdict adds to them and the gaps before.
LEMMA OwnFollow ==
    ASSUME LoopTypeOK, Follows(Earlier), NEW fixed, NEW again, NEW new,
           new = {} \/ \E class \in Classes : new = {NewFinding(class)}
    PROVE  /\ Follows((Assigned(fixed, again) \cup new) \cup (Earlier \ JudgesOwn(Earlier)))
           /\ \A f \in Assigned(fixed, again) \cup new : ~Mechanical(f)
           /\ \A f \in Assigned(fixed, again) \cup new : f.id <= MaxIds + 1
<1> DEFINE A == Assigned(fixed, again)
           M == Earlier \ JudgesOwn(Earlier)
<1>1. /\ Earlier \in SUBSET RawFindings
      /\ \A f, g \in Earlier : f.id = g.id => f = g
      /\ \A f \in Earlier : f.id <= HighestId(Seen) /\ f.id <= MaxIds
      /\ HighestId(Seen) \in Nat /\ HighestId(Seen) <= MaxIds
  BY ReadsVerdicts, FindingsTyped, HighestIsAbove, LoopAssumption DEF Follows
<1>2. ASSUME NEW f \in A
      PROVE  \E e \in JudgesOwn(Earlier) : /\ f = AnswerTo(e, fixed, again) /\ e \in Earlier
                                           /\ Same(e, f) /\ f \in RawFindings /\ f.gap = {}
  <2>1. PICK e \in JudgesOwn(Earlier) : f = AnswerTo(e, fixed, again)
    BY AssignedAre
  <2>2. e \in RawFindings /\ e \in Earlier /\ e.gap = {}
    BY <1>1 DEF JudgesOwn, Mechanical
  <2>3. Same(e, f) /\ f \in RawFindings
    BY <2>1, <2>2, AnswersAreSame
  <2> QED BY <2>1, <2>2, <2>3 DEF Same
<1>3. ASSUME NEW f \in new
      PROVE  f \in RawFindings /\ f.gap = {} /\ f.id = HighestId(Seen) + 1
  <2>1. PICK class \in Classes : f = NewFinding(class)
    OBVIOUS
  <2>2. "new" \in Statuses /\ Len(receipts) + 1 \in Nat /\ HighestId(Seen) + 1 \in Nat \ {0}
    BY <1>1 DEF Statuses, LoopTypeOK
  <2> QED BY <2>1, <2>2 DEF NewFinding, RawFindings
<1>4. \A f \in new, g \in new : f = g
  OBVIOUS
<1>5. ASSUME NEW f \in M
      PROVE  f \in Earlier /\ f \in RawFindings /\ f.gap # {}
  BY <1>1 DEF JudgesOwn, Mechanical
<1> DEFINE F == (A \cup new) \cup M
<1>6. ASSUME NEW f \in A, NEW g \in F, f.id = g.id  PROVE f = g
  <2>1. PICK e \in JudgesOwn(Earlier) : /\ f = AnswerTo(e, fixed, again) /\ e \in Earlier
                                       /\ Same(e, f) /\ f.gap = {}
    BY <1>2
  <2>2. CASE g \in A
    <3>1. PICK d \in JudgesOwn(Earlier) : g = AnswerTo(d, fixed, again) /\ d \in Earlier /\ Same(d, g)
      BY <1>2, <2>2
    <3>2. d.id = e.id
      BY <1>6, <2>1, <3>1 DEF Same
    <3> QED BY <1>1, <2>1, <3>1, <3>2
  <2>3. CASE g \in new
    BY <1>1, <1>3, <1>6, <2>1, <2>3 DEF Same
  <2>4. CASE g \in M
    BY <1>1, <1>5, <1>6, <2>1, <2>4 DEF Same
  <2> QED BY <2>2, <2>3, <2>4
<1>7. ASSUME NEW f \in new, NEW g \in M, f.id = g.id  PROVE FALSE
  BY <1>1, <1>3, <1>5, <1>7
<1>8. ASSUME NEW f \in F, NEW g \in F, f.id = g.id  PROVE f = g
  <2>1. CASE f \in A \/ g \in A
    BY <1>6, <1>8, <2>1
  <2>2. CASE f \in new \cup M /\ g \in new \cup M
    <3>1. \A x \in M, y \in M : x.id = y.id => x = y
      BY <1>1
    <3> HIDE DEF M
    <3> QED BY <1>4, <1>7, <1>8, <2>2, <3>1
  <2> QED BY <2>1, <2>2
<1>9. F \in SUBSET RawFindings
  BY <1>2, <1>3, <1>5
<1>10. \A f \in F : Recalls(f) \/ f.id > HighestId(Seen)
  <2>1. \A f \in A : Recalls(f) BY <1>2 DEF Recalls
  <2>2. \A f \in new : f.id > HighestId(Seen) BY <1>1, <1>3
  <2>3. \A f \in M : Recalls(f) BY <1>5 DEF Recalls, Same
  <2> QED BY <2>1, <2>2, <2>3
<1>11. \A f \in F : Mechanical(f) => f \in M
  BY <1>2, <1>3 DEF Mechanical
<1>12. \A f \in A \cup new : ~Mechanical(f) /\ f.id <= MaxIds + 1
  <2>1. \A f \in A : f.gap = {} /\ f.id <= MaxIds + 1
    <3> TAKE f \in A
    <3>1. PICK e \in Earlier : Same(e, f) /\ f.gap = {} BY <1>2
    <3>2. e.id \in Nat /\ e.id <= MaxIds /\ MaxIds \in Nat
      BY <1>1, LoopAssumption DEF RawFindings
    <3> QED BY <3>1, <3>2 DEF Same
  <2>2. \A f \in new : f.gap = {} /\ f.id <= MaxIds + 1
    BY <1>1, <1>3, LoopAssumption
  <2> QED BY <2>1, <2>2 DEF Mechanical
<1>13. Follows(F)
  <2>1. \A f \in M : /\ Mechanical(f) /\ f.status # "ruled" => f.class = "blocker"
                     /\ Mechanical(f) /\ f.status = "ruled" => EverRuled(f)
    BY <1>5 DEF Follows
  <2> HIDE DEF F, M
  <2> QED BY <1>8, <1>9, <1>10, <1>11, <2>1 DEF Follows
<1> QED BY <1>12, <1>13

-----------------------------------------------------------------------------
(* Rulings and gaps on a list.                                             *)

\* A finding is ruled by a ruling on it among those read.
LEMMA RulingBehind ==
    ASSUME receipts \in Seq(Receipts), NEW S \in SUBSET DOMAIN receipts, NEW id, NEW ruling,
           RuledAs(S, id, ruling)
    PROVE  \E i \in S : /\ receipts[i].kind = "ruling" /\ receipts[i].finding = id
                        /\ receipts[i].ruling = ruling
<1>1. RulingsOn(S, id) # {} /\ RulingsOn(S, id) \in SUBSET S
  BY DEF RuledAs, IsRuled, RulingsOn
<1>2. Greatest(RulingsOn(S, id)) \in RulingsOn(S, id)
  BY <1>1, NewestIn
<1> QED BY <1>1, <1>2 DEF RuledAs, RulingsOn

\* What the rulings make of one finding.
ClosedBy(e) ==
    IF RuledAs(Seen, e.id, "carry_forward")
    THEN [e EXCEPT !.class = "carry_forward", !.status = "ruled"] ELSE e

LEMMA RuledAre ==
    ASSUME NEW F
    PROVE  Ruled(F) = {ClosedBy(e) : e \in F}
  BY DEF Ruled, ClosedBy

\* A ruling changes the class and the status of a finding, nothing else.
LEMMA ClosuresAreSame ==
    ASSUME NEW e \in RawFindings
    PROVE  /\ Same(e, ClosedBy(e)) /\ ClosedBy(e) \in RawFindings
           /\ ~RuledAs(Seen, e.id, "carry_forward") => ClosedBy(e) = e
           /\ RuledAs(Seen, e.id, "carry_forward") => ClosedBy(e).status = "ruled"
<1>1. "ruled" \in Statuses /\ "carry_forward" \in Classes
  BY DEF Statuses, Classes
<1>2. CASE RuledAs(Seen, e.id, "carry_forward")
  <2>1. ClosedBy(e) = [e EXCEPT !.class = "carry_forward", !.status = "ruled"]
    BY <1>2 DEF ClosedBy
  <2>2. /\ [e EXCEPT !.class = "carry_forward", !.status = "ruled"] \in RawFindings
        /\ Same(e, [e EXCEPT !.class = "carry_forward", !.status = "ruled"])
        /\ [e EXCEPT !.class = "carry_forward", !.status = "ruled"].status = "ruled"
    BY <1>1 DEF RawFindings, Same
  <2>3. ClosedBy(e) \in RawFindings /\ Same(e, ClosedBy(e)) /\ ClosedBy(e).status = "ruled"
    BY <2>1, <2>2
  <2> QED BY <1>2, <2>3
<1>3. CASE ~RuledAs(Seen, e.id, "carry_forward")
  <2>1. ClosedBy(e) = e
    BY <1>3 DEF ClosedBy
  <2> QED BY <1>3, <2>1 DEF Same
<1> QED BY <1>2, <1>3

LEMMA RuledFollow ==
    ASSUME NEW F, Follows(F), \A f \in F : Mechanical(f) => Recalls(f)
    PROVE  Follows(Ruled(F))
<1>1. F \in SUBSET RawFindings /\ \A f, g \in F : f.id = g.id => f = g
  BY DEF Follows
<1>2. \A f \in Ruled(F) : \E e \in F : f = ClosedBy(e) /\ Same(e, f) /\ f \in RawFindings
  BY <1>1, RuledAre, ClosuresAreSame
<1>3. ASSUME NEW f \in Ruled(F), NEW g \in Ruled(F), f.id = g.id  PROVE f = g
  <2>1. PICK d \in F : f = ClosedBy(d) /\ Same(d, f) BY <1>2
  <2>2. PICK e \in F : g = ClosedBy(e) /\ Same(e, g) BY <1>2
  <2>3. d.id = e.id BY <1>3, <2>1, <2>2 DEF Same
  <2> QED BY <1>1, <2>1, <2>2, <2>3
<1>4. ASSUME NEW f \in Ruled(F)
      PROVE  /\ Recalls(f) \/ f.id > HighestId(Seen)
             /\ Mechanical(f) /\ f.status # "ruled" => f.class = "blocker"
             /\ Mechanical(f) /\ f.status = "ruled" => EverRuled(f)
  <2>1. PICK e \in F : f = ClosedBy(e) /\ Same(e, f) /\ e \in RawFindings BY <1>1, <1>2
  <2>2. Recalls(e) \/ e.id > HighestId(Seen) BY DEF Follows
  <2>3. Recalls(f) \/ f.id > HighestId(Seen)
    BY <2>1, <2>2 DEF Recalls, Same
  <2>4. CASE f = e /\ ~RuledAs(Seen, e.id, "carry_forward")
    BY <2>3, <2>4 DEF Follows
  <2>5. CASE RuledAs(Seen, e.id, "carry_forward")
    <3>1. f.status = "ruled" BY <2>1, <2>5, ClosuresAreSame
    <3>2. ASSUME Mechanical(f)  PROVE EverRuled(f)
      <4>1. Mechanical(e) BY <2>1, <3>2 DEF Mechanical, Same
      <4>2. PICK d \in Earlier : Same(d, e) BY <4>1 DEF Recalls
      <4>3. d.id = e.id /\ Same(d, f) BY <2>1, <4>2 DEF Same
      <4> QED BY <2>5, <4>3 DEF EverRuled
    <3> QED BY <2>3, <3>1, <3>2
  <2> QED BY <2>1, <2>4, <2>5, ClosuresAreSame
<1>5. Ruled(F) \in SUBSET RawFindings
  BY <1>2
<1> QED BY <1>3, <1>4, <1>5 DEF Follows

LEMMA RuledTogether ==
    ASSUME NEW F, NEW G
    PROVE  Ruled(F \cup G) = Ruled(F) \cup Ruled(G)
  BY RuledAre

\* A ruling changes no finding into one of the other kind.
LEMMA RuledKinds ==
    ASSUME NEW F \in SUBSET RawFindings
    PROVE  /\ (\A f \in F : ~Mechanical(f)) => \A f \in Ruled(F) : ~Mechanical(f)
           /\ \A n \in Nat : (\A f \in F : f.id <= n) => \A f \in Ruled(F) : f.id <= n
<1>1. \A f \in Ruled(F) : \E e \in F : Same(e, f)
  BY RuledAre, ClosuresAreSame
<1> QED BY <1>1 DEF Same, Mechanical

\* What the body makes of one mechanical finding.
SettledBy(e, confirmed) ==
    IF e.status = "ruled" THEN e
    ELSE [e EXCEPT !.status = IF e.gap \subseteq CurrentGaps(confirmed) THEN "still_open" ELSE "fixed"]

LEMMA ReconciledAre ==
    ASSUME NEW F, NEW confirmed
    PROVE  Reconciled(F, confirmed) = {SettledBy(e, confirmed) : e \in {g \in F : Mechanical(g)}}
  BY DEF Reconciled, SettledBy

\* What the body says changes the status of a gap only.
LEMMA SettlementsAreSame ==
    ASSUME NEW e \in RawFindings, NEW confirmed, NEW f, f = SettledBy(e, confirmed)
    PROVE  /\ Same(e, f) /\ f \in RawFindings /\ f.class = e.class
           /\ e.status = "ruled" <=> f.status = "ruled"
           /\ e.status # "ruled" /\ e.gap \subseteq CurrentGaps(confirmed) => f.status = "still_open"
<1>1. "still_open" \in Statuses /\ "fixed" \in Statuses
  BY DEF Statuses
<1>2. \/ f = e /\ e.status = "ruled"
      \/ f = [e EXCEPT !.status = "still_open"] /\ e.status # "ruled"
      \/ /\ f = [e EXCEPT !.status = "fixed"] /\ e.status # "ruled"
         /\ ~(e.gap \subseteq CurrentGaps(confirmed))
  BY DEF SettledBy
<1>3. CASE f = e /\ e.status = "ruled"
  BY <1>3 DEF Same
<1>4. CASE f = [e EXCEPT !.status = "still_open"] /\ e.status # "ruled"
  BY <1>1, <1>4, StatusChanges
<1>5. CASE /\ f = [e EXCEPT !.status = "fixed"] /\ e.status # "ruled"
           /\ ~(e.gap \subseteq CurrentGaps(confirmed))
  BY <1>1, <1>5, StatusChanges
<1> QED BY <1>2, <1>3, <1>4, <1>5

\* The numbers given to new gaps are above every other.
LEMMA FloorIsAbove ==
    ASSUME LoopTypeOK, NEW F \in SUBSET RawFindings, \A f \in F : f.id <= MaxIds + 1
    PROVE  /\ Greatest({HighestId(Seen)} \cup {f.id : f \in F}) \in Nat
           /\ HighestId(Seen) <= Greatest({HighestId(Seen)} \cup {f.id : f \in F})
           /\ \A e \in F : e.id <= Greatest({HighestId(Seen)} \cup {f.id : f \in F})
<1> DEFINE S == {HighestId(Seen)} \cup {f.id : f \in F}
<1>1. MaxIds \in Nat /\ HighestId(Seen) \in Nat /\ HighestId(Seen) <= MaxIds
  BY HighestIsAbove, LoopAssumption
<1>2. \A f \in F : f.id \in Nat
  BY DEF RawFindings
<1>3. S \in SUBSET Nat /\ S # {} /\ MaxIds + 1 \in Nat /\ \A x \in S : x <= MaxIds + 1
  BY <1>1, <1>2
<1>4. Greatest(S) \in S /\ \A y \in S : y <= Greatest(S)
  <2> HIDE DEF S
  <2> QED BY <1>3, GreatestIn
<1>5. HighestId(Seen) \in S /\ \A f \in F : f.id \in S
  OBVIOUS
<1>6. Greatest(S) \in Nat /\ HighestId(Seen) <= Greatest(S) /\ \A f \in F : f.id <= Greatest(S)
  <2> HIDE DEF S
  <2> QED BY <1>3, <1>4, <1>5
<1> QED BY <1>6

\* What a new gap is numbered, and that each is.
LEMMA NumberedAre ==
    ASSUME LoopTypeOK, NEW F \in SUBSET RawFindings, \A f \in F : f.id <= MaxIds + 1,
           NEW G \in SUBSET Gaps
    PROVE  /\ \A f \in NumberedGaps(F, G) :
                /\ f \in RawFindings /\ f.id > HighestId(Seen) /\ \A e \in F : f.id > e.id
                /\ f.class = "blocker" /\ f.status = "new" /\ \E g \in G : f.gap = {g}
           /\ \A f, h \in NumberedGaps(F, G) : f.id = h.id => f = h
           /\ \A g \in G : \E f \in NumberedGaps(F, G) : f.gap = {g}
<1> DEFINE floor == Greatest({HighestId(Seen)} \cup {f.id : f \in F})
           order == SetToSeq(G)
           named(n) == [id |-> floor + n, class |-> "blocker", status |-> "new",
                        gap |-> {order[n]}, born |-> Len(receipts) + 1]
<1>1. floor \in Nat /\ HighestId(Seen) <= floor /\ \A f \in F : f.id <= floor
  BY FloorIsAbove
<1>2. /\ DOMAIN order \in SUBSET (Nat \ {0})
      /\ \A n \in DOMAIN order : order[n] \in G
      /\ \A g \in G : \E n \in DOMAIN order : order[n] = g
  BY GapsInOrder
<1>3. NumberedGaps(F, G) = {named(n) : n \in DOMAIN order}
  BY DEF NumberedGaps
<1>4. HighestId(Seen) \in Nat /\ (\A e \in F : e.id \in Nat) /\ Len(receipts) + 1 \in Nat
  BY HighestIsAbove DEF RawFindings, LoopTypeOK
<1> HIDE DEF floor, order
<1>5. ASSUME NEW n \in DOMAIN order
      PROVE  /\ named(n) \in RawFindings /\ named(n).id > HighestId(Seen)
             /\ \A e \in F : named(n).id > e.id
             /\ named(n).class = "blocker" /\ named(n).status = "new"
             /\ \E g \in G : named(n).gap = {g}
  <2>1. n \in Nat \ {0} /\ order[n] \in G /\ order[n] \in Gaps
    BY <1>2
  <2>2. floor + n \in Nat \ {0} /\ floor + n > HighestId(Seen) /\ \A e \in F : floor + n > e.id
    BY <1>1, <1>4, <2>1
  <2>3. "blocker" \in Classes /\ "new" \in Statuses
    BY DEF Classes, Statuses
  <2>4. named(n) \in RawFindings
    BY <1>4, <2>1, <2>2, <2>3 DEF RawFindings
  <2> QED BY <2>1, <2>2, <2>4
<1>6. ASSUME NEW m \in DOMAIN order, NEW n \in DOMAIN order, named(m).id = named(n).id
      PROVE  named(m) = named(n)
  <2>1. m \in Nat /\ n \in Nat BY <1>2
  <2>2. floor + m = floor + n BY <1>6
  <2>3. m = n BY <1>1, <2>1, <2>2
  <2> QED BY <2>3
<1> HIDE DEF named
<1>7. \A f \in NumberedGaps(F, G) : \E n \in DOMAIN order : f = named(n)
  BY <1>3
<1>8. ASSUME NEW g \in G
      PROVE  \E f \in NumberedGaps(F, G) : f.gap = {g}
  <2>1. PICK n \in DOMAIN order : order[n] = g
    BY <1>2
  <2>2. named(n).gap = {g} /\ named(n) \in NumberedGaps(F, G)
    BY <1>3, <2>1 DEF named
  <2> QED BY <2>2
<1>9. \A f, h \in NumberedGaps(F, G) : f.id = h.id => f = h
  BY <1>6, <1>7
<1>10. ASSUME NEW f \in NumberedGaps(F, G)
       PROVE  /\ f \in RawFindings /\ f.id > HighestId(Seen) /\ \A e \in F : f.id > e.id
              /\ f.class = "blocker" /\ f.status = "new" /\ \E g \in G : f.gap = {g}
  <2>1. PICK n \in DOMAIN order : f = named(n) BY <1>7
  <2> QED BY <1>5, <2>1
<1> QED BY <1>8, <1>9, <1>10

\* The list with the gaps of the carry-forwards: nothing is confused, no
\* finding of a judge is touched, and every gap is in it.
LEMMA WithGapsFollow ==
    ASSUME LoopTypeOK, NEW F, NEW old, NEW confirmed, Follows(F \cup old),
           \A f \in F : ~Mechanical(f), \A f \in F \cup old : f.id <= MaxIds + 1
    PROVE  /\ Follows(WithGaps(F, old, confirmed))
           /\ JudgesOwn(WithGaps(F, old, confirmed)) = F
           /\ \A g \in CurrentGaps(confirmed) : \E f \in WithGaps(F, old, confirmed) :
                f.gap = {g} /\ (f.status = "ruled" \/ OpenBlocker(f))
<1> DEFINE R == Reconciled(old, confirmed)
           kept == F \cup R
           known == UNION {f.gap : f \in {g \in old : Mechanical(g)}}
           N == NumberedGaps(kept, CurrentGaps(confirmed) \ known)
<1>1. WithGaps(F, old, confirmed) = kept \cup N
  BY DEF WithGaps
<1>2. /\ F \cup old \in SUBSET RawFindings
      /\ \A f, g \in F \cup old : f.id = g.id => f = g
  BY DEF Follows
<1>3. ASSUME NEW f \in R
      PROVE  \E e \in old : /\ Mechanical(e) /\ e \in RawFindings /\ f = SettledBy(e, confirmed)
                            /\ Same(e, f) /\ f \in RawFindings /\ f.class = e.class
                            /\ (e.status = "ruled" <=> f.status = "ruled")
  <2>1. PICK e \in old : Mechanical(e) /\ f = SettledBy(e, confirmed)
    BY ReconciledAre
  <2>2. e \in RawFindings
    BY <1>2
  <2>3. Same(e, f) /\ f \in RawFindings /\ f.class = e.class /\ (e.status = "ruled" <=> f.status = "ruled")
    BY <2>1, <2>2, SettlementsAreSame
  <2> QED BY <2>1, <2>2, <2>3
<1>4. ASSUME NEW f \in kept
      PROVE  \E e \in F \cup old : Same(e, f) /\ f \in RawFindings
  <2>1. CASE f \in F
    BY <1>2, <2>1 DEF Same
  <2>2. CASE f \in R
    BY <1>3, <2>2
  <2> QED BY <2>1, <2>2
<1>5. kept \in SUBSET RawFindings /\ \A f \in kept : f.id <= MaxIds + 1
  BY <1>4 DEF Same
<1>6. CurrentGaps(confirmed) \ known \in SUBSET Gaps
  BY DEF CurrentGaps
<1>7. /\ \A f \in N : /\ f \in RawFindings /\ f.id > HighestId(Seen) /\ \A e \in kept : f.id > e.id
                      /\ f.class = "blocker" /\ f.status = "new"
                      /\ \E g \in CurrentGaps(confirmed) \ known : f.gap = {g}
      /\ \A f, h \in N : f.id = h.id => f = h
      /\ \A g \in CurrentGaps(confirmed) \ known : \E f \in N : f.gap = {g}
  <2> HIDE DEF kept, known
  <2> QED BY <1>5, <1>6, NumberedAre
<1>8. ASSUME NEW f \in R, NEW g \in R, f.id = g.id  PROVE f = g
  <2>1. PICK d \in old : f = SettledBy(d, confirmed) /\ Same(d, f) BY <1>3
  <2>2. PICK e \in old : g = SettledBy(e, confirmed) /\ Same(e, g) BY <1>3
  <2>3. d.id = e.id BY <1>8, <2>1, <2>2 DEF Same
  <2>4. d = e BY <1>2, <2>3
  <2> QED BY <2>1, <2>2, <2>4
<1>9. ASSUME NEW f \in F, NEW g \in R, f.id = g.id  PROVE FALSE
  <2>1. PICK e \in old : Mechanical(e) /\ Same(e, g) BY <1>3
  <2>2. f.id = e.id BY <1>9, <2>1 DEF Same
  <2>3. f = e BY <1>2, <2>2
  <2> QED BY <2>1, <2>3
<1>10. ASSUME NEW f \in N, NEW g \in kept, f.id = g.id  PROVE FALSE
  <2>1. f.id > g.id /\ g.id \in Nat
    BY <1>5, <1>7 DEF RawFindings
  <2> QED BY <1>10, <2>1
<1> HIDE DEF R, N, known
<1>11. \A f, g \in F : f.id = g.id => f = g
  BY <1>2
<1>12. \A f, g \in kept \cup N : f.id = g.id => f = g
  BY <1>7, <1>8, <1>9, <1>10, <1>11
<1>13. ASSUME NEW f \in R
       PROVE  /\ Recalls(f) \/ f.id > HighestId(Seen)
              /\ f.status # "ruled" => f.class = "blocker"
              /\ f.status = "ruled" => EverRuled(f)
              /\ Mechanical(f)
  <2>1. PICK e \in old : /\ Mechanical(e) /\ Same(e, f) /\ f.class = e.class
                         /\ (e.status = "ruled" <=> f.status = "ruled") /\ f = SettledBy(e, confirmed)
    BY <1>3
  <2>2. /\ Recalls(e) \/ e.id > HighestId(Seen)
        /\ e.status # "ruled" => e.class = "blocker"
        /\ e.status = "ruled" => EverRuled(e)
    BY <2>1 DEF Follows
  <2>3. Recalls(f) \/ f.id > HighestId(Seen)
    BY <2>1, <2>2 DEF Recalls, Same
  <2>4. f.status = "ruled" => f = e
    BY <2>1 DEF SettledBy
  <2>5. Mechanical(f)
    BY <2>1 DEF Mechanical, Same
  <2> QED BY <2>1, <2>2, <2>3, <2>4, <2>5
<1>14. ASSUME NEW f \in F
       PROVE  (Recalls(f) \/ f.id > HighestId(Seen)) /\ ~Mechanical(f)
  BY DEF Follows
<1>15. Follows(kept \cup N)
  <2>1. kept \cup N \in SUBSET RawFindings
    BY <1>5, <1>7
  <2>2. \A f \in kept \cup N : Recalls(f) \/ f.id > HighestId(Seen)
    BY <1>7, <1>13, <1>14
  <2>3. \A f \in kept \cup N : Mechanical(f) /\ f.status # "ruled" => f.class = "blocker"
    BY <1>7, <1>13, <1>14
  <2>4. \A f \in kept \cup N : Mechanical(f) /\ f.status = "ruled" => EverRuled(f)
    BY <1>7, <1>13, <1>14
  <2> HIDE DEF kept
  <2> QED BY <1>12, <2>1, <2>2, <2>3, <2>4 DEF Follows
<1>16. JudgesOwn(kept \cup N) = F
  <2>1. \A f \in N : Mechanical(f)
    BY <1>7 DEF Mechanical
  <2> QED BY <1>13, <1>14, <2>1 DEF JudgesOwn
<1>17. ASSUME NEW g \in CurrentGaps(confirmed)
       PROVE  \E f \in kept \cup N : f.gap = {g} /\ (f.status = "ruled" \/ OpenBlocker(f))
  <2>1. CASE g \notin known
    <3>1. PICK f \in N : f.gap = {g} BY <1>7, <2>1
    <3>2. OpenBlocker(f) BY <1>7 DEF OpenBlocker, IsOpen
    <3> QED BY <3>1, <3>2
  <2>2. CASE g \in known
    <3>1. PICK e \in old : Mechanical(e) /\ g \in e.gap BY <2>2 DEF known
    <3>2. e \in RawFindings BY <1>2
    <3>3. e.gap = {g} BY <3>1, <3>2 DEF RawFindings
    <3>4. SettledBy(e, confirmed) \in R BY <3>1, ReconciledAre DEF R
    <3>5. /\ Same(e, SettledBy(e, confirmed))
          /\ SettledBy(e, confirmed).class = e.class
          /\ e.status = "ruled" <=> SettledBy(e, confirmed).status = "ruled"
          /\ e.status # "ruled" /\ e.gap \subseteq CurrentGaps(confirmed)
                => SettledBy(e, confirmed).status = "still_open"
      BY <3>2, SettlementsAreSame
    <3>6. e.status # "ruled" => e.class = "blocker"
      BY <3>1 DEF Follows
    <3>7. /\ SettledBy(e, confirmed).gap = {g}
          /\ SettledBy(e, confirmed).status = "ruled" \/ OpenBlocker(SettledBy(e, confirmed))
      BY <3>3, <3>5, <3>6 DEF Same, OpenBlocker, IsOpen
    <3> QED BY <3>4, <3>7
  <2> QED BY <2>1, <2>2
<1> HIDE DEF kept
<1> QED BY <1>1, <1>15, <1>16, <1>17

LEMMA PartFollows ==
    ASSUME NEW F, Follows(F), NEW G \in SUBSET F
    PROVE  Follows(G)
  BY DEF Follows

-----------------------------------------------------------------------------
(* What a pass publishes.                                                  *)

\* The limit drops closed findings only.
LEMMA CappedKeepsOpen ==
    ASSUME NEW F
    PROVE  Capped(F) \in SUBSET F /\ \A f \in F : IsOpen(f) => f \in Capped(F)
  BY DEF Capped

LEMMA OwedTyped ==
    ASSUME LoopTypeOK
    PROVE  /\ Owed \in SUBSET Elsewhere /\ Claimed \in SUBSET Owed
           /\ \A fixed, denied : Confirmed(fixed, denied) \in SUBSET Claimed
           /\ \A F : Deferred(F) \in SUBSET Owed
<1>1. Seen \in SUBSET DOMAIN receipts /\ receipts \in Seq(Receipts)
  BY DEF LoopTypeOK, Passes, Seen
<1>2. \A i \in Seen : receipts[i].kind = "other" => receipts[i].cf \in Elsewhere
  BY <1>1, VerdictsTyped DEF Others
<1>3. OpenElsewhere(Seen) \in SUBSET Elsewhere
  BY <1>2 DEF OpenElsewhere
<1>4. Owed \in SUBSET Elsewhere
  BY <1>3 DEF Owed
<1>5. Claimed \in SUBSET Owed
  BY DEF Claimed
<1>6. \A fixed, denied : Confirmed(fixed, denied) \in SUBSET Claimed
  BY DEF Confirmed
<1>7. \A F : Deferred(F) \in SUBSET Owed
  BY DEF Deferred
<1> QED BY <1>4, <1>5, <1>6, <1>7

\* The body, a judge or a ruling accounts for every carry-forward of an approval,
\* unless the operator ruled a gap that only the body can fill.
CoversGaps(F, confirmed) ==
    pass.artifact = "code" =>
        \A g \in CurrentGaps(confirmed) :
            \E f \in F : f.gap = {g} /\ (f.status = "ruled" \/ OpenBlocker(f))

\* An approval leaves no gap open: what is owed is addressed, deferred, or has a
\* ruling on a gap that the body was to fill.
LEMMA AllAccounted ==
    ASSUME LoopTypeOK, NEW F, NEW confirmed, Follows(F), CoversGaps(F, confirmed), Approves(F),
           pass.artifact = "code", NEW cf \in Owed
    PROVE  \/ cf \in confirmed \cup Deferred(F)
           \/ \E f \in F : BodyDerived(f) /\ EverRuled(f)
<1>1. cf \in Elsewhere /\ pass.body \in Bodies
  BY OwedTyped DEF LoopTypeOK, Passes
<1>2. pass.body[cf] \in {"absent", "addressed", "deferred", "unreasoned"}
  BY <1>1 DEF Bodies
<1>3. ASSUME NEW g \in Gaps, g.cf = cf, g \in CurrentGaps(confirmed), g.why # "unconfirmed"
      PROVE  \E f \in F : BodyDerived(f) /\ EverRuled(f)
  <2>1. PICK f \in F : f.gap = {g} /\ (f.status = "ruled" \/ OpenBlocker(f))
    BY <1>3 DEF CoversGaps
  <2>2. f.status = "ruled"
    BY <2>1 DEF Approves
  <2>3. Mechanical(f) /\ BodyDerived(f)
    BY <1>3, <2>1 DEF Mechanical, BodyDerived
  <2> QED BY <2>2, <2>3 DEF Follows
<1>4. CASE pass.body[cf] = "absent"
  <2>1. [cf |-> cf, why |-> "unaccounted"] \in CurrentGaps(confirmed)
    BY <1>1, <1>4 DEF CurrentGaps, Gaps
  <2>2. [cf |-> cf, why |-> "unaccounted"] \in Gaps
    BY <1>1 DEF Gaps
  <2> QED BY <1>3, <2>1, <2>2
<1>5. CASE pass.body[cf] = "unreasoned"
  <2>1. [cf |-> cf, why |-> "unreasoned"] \in CurrentGaps(confirmed)
    BY <1>1, <1>5 DEF CurrentGaps, Gaps
  <2>2. [cf |-> cf, why |-> "unreasoned"] \in Gaps
    BY <1>1 DEF Gaps
  <2> QED BY <1>3, <2>1, <2>2
<1>6. CASE pass.body[cf] = "deferred"
  BY <1>6 DEF Deferred
<1>7. CASE pass.body[cf] = "addressed" /\ cf \notin confirmed
  <2>1. cf \in Claimed
    BY <1>7 DEF Claimed
  <2>2. [cf |-> cf, why |-> "unconfirmed"] \in CurrentGaps(confirmed)
    BY <1>1, <1>7, <2>1 DEF CurrentGaps, Gaps
  <2>3. PICK f \in F : f.gap = {[cf |-> cf, why |-> "unconfirmed"]} /\ (f.status = "ruled" \/ OpenBlocker(f))
    BY <2>2 DEF CoversGaps
  <2>4. f.status = "ruled"
    BY <2>3 DEF Approves
  <2> QED BY <2>3, <2>4 DEF Deferred
<1> QED BY <1>2, <1>4, <1>5, <1>6, <1>7

\* The gaps recomputed without a judge.
LEMMA RecomputedFollow ==
    ASSUME LoopTypeOK, NEW F, Follows(F), \A f \in F : f.id <= MaxIds + 1
    PROVE  /\ Follows(Recomputed(F))
           /\ JudgesOwn(Recomputed(F)) = JudgesOwn(F)
           /\ CoversGaps(Recomputed(F), Confirmed({}, {}))
<1>1. CASE pass.artifact # "code"
  BY <1>1 DEF Recomputed, CoversGaps
<1>2. CASE pass.artifact = "code"
  <2>1. Recomputed(F) = WithGaps(JudgesOwn(F), F, Confirmed({}, {}))
    BY <1>2 DEF Recomputed
  <2>2. JudgesOwn(F) \cup F = F /\ \A f \in JudgesOwn(F) : ~Mechanical(f)
    BY DEF JudgesOwn
  <2> QED BY <2>1, <2>2, WithGapsFollow DEF CoversGaps
<1> QED BY <1>1, <1>2

\* What a verdict owes to what its pass read.
Fates(w) ==
    \A e \in JudgesOwn(Earlier) : OpenBlocker(e) =>
        \/ e.id \in w.fixed
        \/ w.step = "closure" /\ RuledAs(Seen, e.id, "carry_forward")
        \/ \E g \in JudgesOwn(w.findings) : g.id = e.id /\ OpenBlocker(g)

\* What it addresses and defers covers what was owed.
Accounts(w) ==
    /\ w.step # "awaiting_ruling" /\ w.approve /\ w.artifact = "code" =>
        \A cf \in Owed : \/ cf \in w.addressed \cup w.deferred
                         \/ \E f : BodyDerived(f) /\ EverRuled(f)
    /\ w.addressed \subseteq w.confirmed \cup ConfirmedIn(Seen)

\* A verdict that owes what its pass read.
Faithful(w) ==
    /\ w \in Verdicts /\ w.source = 0
    /\ w.head = pass.head /\ w.artifact = pass.artifact /\ w.step # "mechanical"
    /\ Follows(w.findings)
    /\ w.approve => \A f \in w.findings : ~OpenBlocker(f)
    /\ w.step = "awaiting_ruling" => ~w.approve /\ w.fixed = {}
    /\ w.step # "awaiting_ruling" => NextStep(Seen) # "awaiting_ruling"
    /\ Fates(w)
    /\ Accounts(w)

\* Within the bound on ids a list is one of findings.
LEMMA WithinBound ==
    ASSUME NEW F, Follows(F), \A f \in Capped(F) : f.id <= MaxIds
    PROVE  /\ Capped(F) \in SUBSET Findings /\ Follows(Capped(F))
           /\ Approves(F) => \A f \in Capped(F) : ~OpenBlocker(f)
<1>1. Capped(F) \in SUBSET F
  BY CappedKeepsOpen
<1>2. F \in SUBSET RawFindings
  BY DEF Follows
<1>3. ASSUME NEW f \in Capped(F)  PROVE f \in Findings
  <2>1. f \in RawFindings /\ f.id <= MaxIds BY <1>1, <1>2
  <2>2. f.id \in 1..MaxIds BY <2>1, LoopAssumption DEF RawFindings
  <2> QED BY <2>1, <2>2 DEF RawFindings, Findings, Statuses
<1>4. Follows(Capped(F))
  BY <1>1, PartFollows
<1> QED BY <1>1, <1>3, <1>4 DEF Approves

\* A verdict of a pass, field by field.
VerdictOf(step, round, F, approve, judges, fixed, confirmed, addressed, deferred) ==
    [kind |-> "verdict", step |-> step, round |-> round, head |-> pass.head,
     artifact |-> pass.artifact, approve |-> approve, findings |-> Capped(F),
     judges |-> judges, fixed |-> fixed, confirmed |-> confirmed, addressed |-> addressed,
     deferred |-> deferred, source |-> 0, late |-> FALSE]

LEMMA PassTyped ==
    ASSUME LoopTypeOK
    PROVE  pass.head \in Nat /\ pass.artifact \in Artifacts
  BY DEF LoopTypeOK, Passes

LEMMA AwaitTyped ==
    ASSUME LoopTypeOK, NEW F, Capped(F) \in SUBSET Findings, NEW w,
           w = VerdictOf("awaiting_ruling", 0, F, FALSE, FALSE, {}, {}, {}, {})
    PROVE  /\ w \in Verdicts /\ w.source = 0 /\ ~w.late /\ w.head = pass.head
           /\ w.artifact = pass.artifact /\ w.step = "awaiting_ruling" /\ w.findings = Capped(F)
           /\ ~w.approve /\ w.fixed = {} /\ w.addressed = {}
<1>1. w \in Verdicts
  BY PassTyped DEF VerdictOf, Verdicts
<1>2. /\ w.source = 0 /\ ~w.late /\ w.head = pass.head
      /\ w.artifact = pass.artifact /\ w.step = "awaiting_ruling" /\ w.findings = Capped(F)
      /\ ~w.approve /\ w.fixed = {} /\ w.addressed = {}
  BY DEF VerdictOf
<1> QED BY <1>1, <1>2

LEMMA CloseTyped ==
    ASSUME LoopTypeOK, NEW F, Capped(F) \in SUBSET Findings,
           NEW addressed \in SUBSET Elsewhere, NEW deferred \in SUBSET Elsewhere, NEW w,
           w = VerdictOf("closure", 0, F, Approves(F), FALSE, {}, {}, addressed, deferred)
    PROVE  w \in Verdicts
<1> DEFINE approve == Approves(F)
<1>1. approve \in BOOLEAN /\ (approve <=> Approves(F))
  BY DEF Approves
<1>2. w = VerdictOf("closure", 0, F, approve, FALSE, {}, {}, addressed, deferred)
  OBVIOUS
<1> HIDE DEF approve
<1> QED BY <1>1, <1>2, PassTyped DEF VerdictOf, Verdicts

LEMMA EarlierIds ==
    ASSUME LoopTypeOK
    PROVE  \A f \in Earlier : f \in RawFindings /\ f.id \in 1..MaxIds /\ f.id <= MaxIds + 1
<1>1. MaxIds \in Nat
  BY LoopAssumption
<1>2. \A f \in Earlier : f \in RawFindings /\ f.id \in 1..MaxIds
  BY ReadsVerdicts, FindingsTyped
<1> QED BY <1>1, <1>2

\* The verdict that waits for rulings owes what it read.
LEMMA AwaitFaithful ==
    ASSUME LoopTypeOK, Follows(Earlier), NextStep(Seen) = "awaiting_ruling", NEW w,
           w = [Verdict("awaiting_ruling", 0, Recomputed(Earlier)) EXCEPT !.approve = FALSE],
           \A f \in w.findings : f.id <= MaxIds
    PROVE  Faithful(w)
<1> DEFINE all == Recomputed(Earlier)
<1>1. Follows(all) /\ JudgesOwn(all) = JudgesOwn(Earlier)
  BY EarlierIds, RecomputedFollow
<1>2. w.findings = Capped(all)
  BY DEF Verdict
<1> HIDE DEF all
<1>3. Capped(all) \in SUBSET Findings /\ Follows(Capped(all))
  BY <1>1, <1>2, WithinBound
<1>4. w = VerdictOf("awaiting_ruling", 0, all, FALSE, FALSE, {}, {}, {}, {})
  BY DEF Verdict, VerdictOf, all
<1>5. /\ w \in Verdicts /\ w.source = 0 /\ ~w.late /\ w.head = pass.head
      /\ w.artifact = pass.artifact /\ w.step = "awaiting_ruling"
      /\ ~w.approve /\ w.fixed = {} /\ w.addressed = {}
  BY ONLY LoopTypeOK, <1>3, <1>4, AwaitTyped
<1>6. Fates(w)
  <2>1. \A e \in JudgesOwn(Earlier) : OpenBlocker(e) => e \in JudgesOwn(Capped(all))
    BY <1>1, CappedKeepsOpen DEF JudgesOwn, OpenBlocker
  <2> QED BY <1>2, <2>1 DEF Fates
<1>7. Accounts(w)
  BY <1>5 DEF Accounts
<1> QED BY <1>2, <1>3, <1>5, <1>6, <1>7 DEF Faithful

\* So does a closure without a judge.
LEMMA CloseFaithful ==
    ASSUME LoopTypeOK, Follows(Earlier), WithoutJudge, NEW all, NEW C, NEW w,
           all = Recomputed(Ruled(Earlier)), C = Confirmed({}, {}),
           w = VerdictOf("closure", 0, all, Approves(all), FALSE, {}, {}, C, Deferred(all)),
           \A f \in w.findings : f.id <= MaxIds
    PROVE  Faithful(w)
<1>1. Earlier \in SUBSET RawFindings /\ MaxIds + 1 \in Nat /\ \A f \in Earlier : f.id <= MaxIds + 1
  BY EarlierIds, LoopAssumption
<1>2. Follows(Ruled(Earlier)) /\ \A f \in Ruled(Earlier) : f.id <= MaxIds + 1
  <2>1. \A f \in Earlier : Recalls(f)
    BY DEF Recalls, Same
  <2> QED BY <1>1, <2>1, RuledFollow, RuledKinds
<1>3. Follows(all) /\ JudgesOwn(all) = JudgesOwn(Ruled(Earlier)) /\ CoversGaps(all, C)
  BY <1>2, RecomputedFollow
<1>4. w.findings = Capped(all)
  BY DEF VerdictOf
<1>5. C \in SUBSET Elsewhere /\ Deferred(all) \in SUBSET Elsewhere
  BY OwedTyped
<1>6. /\ Capped(all) \in SUBSET Findings /\ Follows(Capped(all))
      /\ Approves(all) => \A f \in Capped(all) : ~OpenBlocker(f)
  BY <1>3, <1>4, WithinBound
<1>7. w \in Verdicts
  BY <1>5, <1>6, CloseTyped
<1>8. /\ w.source = 0 /\ ~w.late /\ w.head = pass.head
      /\ w.artifact = pass.artifact /\ w.step = "closure" /\ w.addressed = C /\ w.deferred = Deferred(all)
  BY DEF VerdictOf
<1>9. w.approve <=> Approves(all)
  BY Zenon DEF VerdictOf
<1>10. Fates(w)
  <2>1. ASSUME NEW e \in JudgesOwn(Earlier), OpenBlocker(e), ~RuledAs(Seen, e.id, "carry_forward")
        PROVE  e \in JudgesOwn(Capped(all))
    <3>1. e \in Earlier /\ ~Mechanical(e) BY DEF JudgesOwn
    <3>2. ClosedBy(e) = e BY <2>1 DEF ClosedBy
    <3>3. e \in Ruled(Earlier) BY <3>1, <3>2, RuledAre
    <3>4. e \in JudgesOwn(all) BY <1>3, <3>1, <3>3 DEF JudgesOwn
    <3> QED BY <2>1, <3>4, CappedKeepsOpen DEF JudgesOwn, OpenBlocker
  <2> QED BY <1>4, <1>8, <2>1 DEF Fates
<1>11. Accounts(w)
  <2>1. C \subseteq ConfirmedIn(Seen)
    BY DEF Confirmed
  <2>2. w.approve /\ w.artifact = "code" =>
          \A cf \in Owed : cf \in C \cup Deferred(all) \/ \E f : BodyDerived(f) /\ EverRuled(f)
    BY <1>3, <1>8, <1>9, AllAccounted
  <2> QED BY <1>8, <2>1, <2>2 DEF Accounts
<1>12. NextStep(Seen) # "awaiting_ruling"
  BY DEF WithoutJudge
<1> QED BY <1>4, <1>6, <1>7, <1>8, <1>9, <1>10, <1>11, <1>12 DEF Faithful

LEMMA RoundsTyped ==
    ASSUME LoopTypeOK
    PROVE  /\ NextStep(Seen) \in {"round", "closure", "awaiting_ruling"}
           /\ (IF NextStep(Seen) = "closure" THEN 0 ELSE Round(Seen)) \in 0..3
<1>1. Seen \in SUBSET DOMAIN receipts /\ receipts \in Seq(Receipts)
  BY DEF LoopTypeOK, Passes, Seen
<1> DEFINE R == {i \in Judging(Seen) : receipts[i].step = "round" /\ receipts[i].source = 0}
<1>2. R \in SUBSET DOMAIN receipts
  BY <1>1 DEF Judging, VerdictsIn
<1>3. Rounds(Seen) \in Nat
  BY <1>1, <1>2, ReceiptsFinite DEF Rounds
<1>4. Round(Seen) \in 0..3
  BY <1>3 DEF Round
<1>5. NextStep(Seen) \in {"round", "closure", "awaiting_ruling"}
  BY DEF NextStep
<1> QED BY <1>4, <1>5

LEMMA NewClassTyped ==
    ASSUME NEW step, NEW round, NEW class \in Classes, NEW inside
    PROVE  NewClass(step, round, class, inside) \in Classes
  BY DEF NewClass, Classes

\* The list of a judged round or closure.
Closing(step, F) == IF step = "closure" THEN Ruled(F) ELSE F

JudgedList(step, fixed, again, new, confirmed) ==
    IF pass.artifact = "code"
    THEN WithGaps(Closing(step, Assigned(fixed, again) \cup new),
                  Closing(step, Earlier \ JudgesOwn(Earlier)), confirmed)
    ELSE Closing(step, Assigned(fixed, again) \cup new)

\* The findings of the judges and the gaps number on from what was read.
LEMMA JudgedFollow ==
    ASSUME LoopTypeOK, Follows(Earlier), NEW step, NEW fixed, NEW again, NEW new, NEW confirmed,
           new = {} \/ \E class \in Classes : new = {NewFinding(class)}
    PROVE  /\ Follows(JudgedList(step, fixed, again, new, confirmed))
           /\ JudgesOwn(JudgedList(step, fixed, again, new, confirmed))
                = Closing(step, Assigned(fixed, again) \cup new)
           /\ CoversGaps(JudgedList(step, fixed, again, new, confirmed), confirmed)
<1> DEFINE own == Assigned(fixed, again) \cup new
           M == Earlier \ JudgesOwn(Earlier)
<1>1. /\ Follows(own \cup M) /\ \A f \in own : ~Mechanical(f)
      /\ \A f \in own : f.id <= MaxIds + 1
  BY OwnFollow
<1>2. \A f \in M : f.id <= MaxIds + 1 /\ Recalls(f)
  BY EarlierIds DEF Recalls, Same
<1>3. MaxIds + 1 \in Nat
  BY LoopAssumption
<1> HIDE DEF own, M
<1>4. own \cup M \in SUBSET RawFindings /\ own \in SUBSET RawFindings
  BY <1>1 DEF Follows
<1>5. \A f \in own \cup M : f.id <= MaxIds + 1 /\ (Mechanical(f) => Recalls(f))
  BY <1>1, <1>2
<1>6. /\ Follows(Closing(step, own) \cup Closing(step, M))
      /\ \A f \in Closing(step, own) : ~Mechanical(f)
      /\ \A f \in Closing(step, own) \cup Closing(step, M) : f.id <= MaxIds + 1
  <2>1. CASE step # "closure"
    BY <1>1, <1>5, <2>1 DEF Closing
  <2>2. CASE step = "closure"
    <3>1. Closing(step, own) = Ruled(own) /\ Closing(step, M) = Ruled(M)
      BY <2>2 DEF Closing
    <3>2. Ruled(own) \cup Ruled(M) = Ruled(own \cup M)
      BY RuledTogether
    <3>3. Follows(Ruled(own \cup M))
      BY <1>1, <1>5, RuledFollow
    <3>4. \A f \in Ruled(own) : ~Mechanical(f)
      BY <1>1, <1>4, RuledKinds
    <3>5. \A f \in Ruled(own \cup M) : f.id <= MaxIds + 1
      BY <1>3, <1>4, <1>5, RuledKinds
    <3> QED BY <3>1, <3>2, <3>3, <3>4, <3>5
  <2> QED BY <2>1, <2>2
<1> DEFINE all == JudgedList(step, fixed, again, new, confirmed)
<1>7. CASE pass.artifact = "code"
  <2> DEFINE A == Closing(step, own)
             B == Closing(step, M)
  <2>1. all = WithGaps(A, B, confirmed)
    BY <1>7 DEF JudgedList, own, M
  <2>2. /\ Follows(A \cup B) /\ \A f \in A : ~Mechanical(f)
        /\ \A f \in A \cup B : f.id <= MaxIds + 1
    BY <1>6
  <2> HIDE DEF A, B, all
  <2>3. Follows(all) /\ JudgesOwn(all) = A
    BY <2>1, <2>2, WithGapsFollow
  <2>4. CoversGaps(all, confirmed)
    BY <2>1, <2>2, WithGapsFollow DEF CoversGaps
  <2> QED BY <2>3, <2>4 DEF A, all, own
<1>8. CASE pass.artifact # "code"
  <2>1. all = Closing(step, own)
    BY <1>8 DEF JudgedList, own
  <2>2. Follows(Closing(step, own))
    BY <1>6, PartFollows
  <2>3. JudgesOwn(Closing(step, own)) = Closing(step, own)
    BY <1>6 DEF JudgesOwn
  <2>4. CoversGaps(all, confirmed)
    BY <1>8 DEF CoversGaps
  <2> QED BY <2>1, <2>2, <2>3, <2>4 DEF own
<1> QED BY <1>7, <1>8

\* A judged round, or a judged closure, owes what it read.
LEMMA RoundFaithful ==
    ASSUME LoopTypeOK, Follows(Earlier), NEW step \in {"round", "closure"}, NEW round \in 0..3,
           NextStep(Seen) # "awaiting_ruling",
           NEW fixed \in SUBSET {f.id : f \in {g \in JudgesOwn(Earlier) : IsOpen(g)}},
           NEW again, NEW new, new = {} \/ \E class \in Classes : new = {NewFinding(class)},
           NEW cfFixed \in SUBSET Claimed, NEW cfDenied, NEW C, NEW all, NEW w,
           C = Confirmed(cfFixed, cfDenied),
           all = JudgedList(step, fixed, again, new, C),
           w = VerdictOf(step, round, all, Approves(all), TRUE, fixed, cfFixed, C, Deferred(all)),
           \A f \in w.findings : f.id <= MaxIds
    PROVE  Faithful(w)
<1>1. /\ Follows(all) /\ CoversGaps(all, C)
      /\ JudgesOwn(all) = Closing(step, Assigned(fixed, again) \cup new)
  BY JudgedFollow
<1>2. w.findings = Capped(all)
  BY DEF VerdictOf
<1>3. C \in SUBSET Elsewhere /\ Deferred(all) \in SUBSET Elsewhere /\ cfFixed \in SUBSET Elsewhere
  BY OwedTyped
<1>4. /\ Capped(all) \in SUBSET Findings /\ Follows(Capped(all))
      /\ Approves(all) => \A f \in Capped(all) : ~OpenBlocker(f)
  BY <1>1, <1>2, WithinBound
<1>5. fixed \in SUBSET (1..MaxIds) /\ Earlier \in SUBSET RawFindings
  BY EarlierIds DEF JudgesOwn
<1>6. w \in Verdicts
  <2>1. /\ Capped(all) \in SUBSET Findings /\ fixed \in SUBSET (1..MaxIds)
        /\ cfFixed \in SUBSET Elsewhere /\ C \in SUBSET Elsewhere
        /\ Deferred(all) \in SUBSET Elsewhere
    BY <1>3, <1>4, <1>5
  <2> DEFINE approve == Approves(all)
  <2>2. approve \in BOOLEAN
    BY DEF Approves
  <2>3. w = VerdictOf(step, round, all, approve, TRUE, fixed, cfFixed, C, Deferred(all))
    OBVIOUS
  <2> HIDE DEF approve
  <2>4. step \in {"round", "closure", "awaiting_ruling", "mechanical"}
    OBVIOUS
  <2> QED BY <2>1, <2>2, <2>3, <2>4, PassTyped DEF VerdictOf, Verdicts
<1>7. /\ w.source = 0 /\ ~w.late /\ w.head = pass.head
      /\ w.artifact = pass.artifact /\ w.step = step /\ w.fixed = fixed /\ w.confirmed = cfFixed
      /\ w.addressed = C /\ w.deferred = Deferred(all)
  BY DEF VerdictOf
<1>8. w.approve <=> Approves(all)
  BY Zenon DEF VerdictOf
<1>9. Fates(w)
  <2>1. ASSUME NEW e \in JudgesOwn(Earlier), OpenBlocker(e), e.id \notin fixed,
               ~(step = "closure" /\ RuledAs(Seen, e.id, "carry_forward"))
        PROVE  \E g \in JudgesOwn(Capped(all)) : g.id = e.id /\ OpenBlocker(g)
    <3>1. PICK f \in Assigned(fixed, again) : Same(e, f) /\ f.class = e.class /\ IsOpen(f) /\ f.gap = {}
      BY <1>5, <2>1, AllAssigned DEF OpenBlocker
    <3>2. f \in Closing(step, Assigned(fixed, again) \cup new)
      <4>1. CASE step # "closure"
        BY <4>1 DEF Closing
      <4>2. CASE step = "closure"
        <5>1. ~RuledAs(Seen, f.id, "carry_forward")
          BY <2>1, <3>1, <4>2 DEF Same
        <5>2. ClosedBy(f) = f
          BY <5>1 DEF ClosedBy
        <5> QED BY <4>2, <5>2, RuledAre DEF Closing
      <4> QED BY <4>1, <4>2
    <3>3. OpenBlocker(f) /\ f.id = e.id
      BY <2>1, <3>1 DEF OpenBlocker, Same
    <3>4. f \in JudgesOwn(all)
      BY <1>1, <3>2
    <3>5. f \in JudgesOwn(Capped(all))
      BY <3>1, <3>4, CappedKeepsOpen DEF JudgesOwn
    <3> QED BY <3>3, <3>5
  <2> QED BY <1>2, <1>7, <2>1 DEF Fates
<1>10. Accounts(w)
  <2>1. C \subseteq cfFixed \cup ConfirmedIn(Seen)
    BY DEF Confirmed
  <2>2. ASSUME w.approve, w.artifact = "code", NEW cf \in Owed
        PROVE  cf \in C \cup Deferred(all) \/ \E f : BodyDerived(f) /\ EverRuled(f)
    <3>1. Follows(all) /\ CoversGaps(all, C) /\ Approves(all) /\ pass.artifact = "code"
      BY <1>1, <1>7, <1>8, <2>2
    <3> QED BY <3>1, AllAccounted
  <2> QED BY <1>7, <2>1, <2>2 DEF Accounts
<1> QED BY <1>2, <1>4, <1>6, <1>7, <1>8, <1>9, <1>10 DEF Faithful

-----------------------------------------------------------------------------
(* The inductive invariant.                                                *)

\* The verdicts of a judge or a closure, and of the ledger.
Judgments == Judging(DOMAIN receipts)

\* An id names one finding in both lists; one finding in each.
Agree(F, G) == \A f \in F, g \in G : f.id = g.id => f.born = g.born /\ f.gap = g.gap

Distinct(F) == \A f, g \in F : f.id = g.id => f = g

\* A verdict attested in time agrees with every later one on what an id names.
IdInv ==
    /\ \A i \in Written : Distinct(receipts[i].findings)
    /\ \A i, j \in Written :
        i < j /\ ~receipts[i].late => Agree(receipts[i].findings, receipts[j].findings)

\* The pass has read what was attested in time.
ReadInv ==
    \A i \in DOMAIN receipts : receipts[i].kind # "ruling" /\ ~receipts[i].late =>
        i \in listed /\ (pass.on => i \in pass.seen)

\* A verdict says what its list says.
Says(w) ==
    /\ w.approve => \A f \in w.findings : ~OpenBlocker(f)
    /\ w.step = "awaiting_ruling" => ~w.approve
    /\ w.step = "mechanical" => w.findings = {}
    /\ \A f \in w.findings : Mechanical(f) /\ f.status # "ruled" => f.class = "blocker"

SaysInv == \A i \in DOMAIN receipts : IsVerdict(i) => Says(receipts[i])

\* Verdicts follow the heads of the pull request.
HeadsInv ==
    /\ \A i, j \in DOMAIN receipts :
        IsVerdict(i) /\ IsVerdict(j) /\ i < j => receipts[i].head <= receipts[j].head
    /\ \A i \in DOMAIN receipts : IsVerdict(i) => receipts[i].head \in 1..head
    /\ pass.on => pass.head \in 1..head
    /\ pass.on => \A i \in DOMAIN receipts : IsVerdict(i) => receipts[i].head <= pass.head

\* A ruling is on a finding that was shown: never on a gap the body fills.
WasShown(id) == \E k \in Written : \E f \in receipts[k].findings : f.id = id /\ ~BodyDerived(f)

ShownInv ==
    /\ \A i \in DOMAIN receipts : receipts[i].kind = "ruling" => WasShown(receipts[i].finding)
    /\ \A r \in Rulers : ruler[r] # 0 => WasShown(ruler[r])

\* While every verdict is in time no gap that the body fills was ruled.
RuledInv ==
    \A i \in Written : InTime(i) =>
        \A f \in receipts[i].findings : f.status = "ruled" => ~BodyDerived(f)

\* What the gate counts before a verdict.
Timely(v) == {i \in listed : i < v /\ ~(receipts[i].kind = "other" /\ receipts[i].late)}

\* Approvals account for what was open, addressed on the word of a judge.
AccountInv ==
    /\ \A v \in Judgments :
        /\ receipts[v].approve /\ receipts[v].artifact = "code" /\ receipts[v].source = 0
        /\ InTime(v)
        => OpenElsewhere(Timely(v)) \subseteq receipts[v].addressed \cup receipts[v].deferred
    /\ \A v \in Judgments : \A cf \in receipts[v].addressed :
        \E u \in Judgments : u <= v /\ cf \in receipts[u].confirmed

\* A ruling on the finding, between two verdicts.
RuledBetween(u, w, id) ==
    \E r \in DOMAIN receipts : /\ u < r /\ r < w
                               /\ receipts[r].kind = "ruling" /\ receipts[r].finding = id

\* The list holds an open blocker of this id.
StillOpen(F, id) == \E g \in JudgesOwn(F) : g.id = id /\ OpenBlocker(g)

\* A verdict after which no judge reads before rulings.
Ends(u) ==
    /\ receipts[u].step = "closure" \/ receipts[u].round = 3
    /\ ~receipts[u].late /\ receipts[u].source = 0

\* After the last round a blocker is ruled, or every verdict waits for it.
RoundsInv ==
    \A u \in Judgments, w \in Written : u < w /\ Ends(u) /\ ~CarriedOver(u, w) =>
        \A f \in JudgesOwn(receipts[u].findings) : OpenBlocker(f) =>
            \/ RuledBetween(u, w, f.id)
            \/ receipts[w].step = "awaiting_ruling" /\ StillOpen(receipts[w].findings, f.id)

\* A verdict in which judges call it fixed, after w and up to x.
FixedBetween(w, x, id) ==
    \E u \in DOMAIN receipts : w < u /\ u <= x /\ IsVerdict(u) /\ id \in receipts[u].fixed

\* A ruling carry_forward on it that the ledger lists.
CarriedForward(id) ==
    \E r \in listed : /\ receipts[r].kind = "ruling" /\ receipts[r].finding = id
                      /\ receipts[r].ruling = "carry_forward"

\* A blocker is called fixed, ruled carry_forward, or still open.
FateInv ==
    \A w \in Written, x \in Written : w < x /\ ~receipts[w].late /\ ~CarriedOver(w, x) =>
        \A f \in JudgesOwn(receipts[w].findings) : OpenBlocker(f) =>
            \/ FixedBetween(w, x, f.id)
            \/ CarriedForward(f.id)
            \/ StillOpen(receipts[x].findings, f.id)

\* The inductive invariant.
LoopInv ==
    /\ LoopTypeOK /\ IdInv /\ ReadInv /\ SaysInv /\ HeadsInv
    /\ ShownInv /\ RuledInv /\ AccountInv /\ RoundsInv /\ FateInv

-----------------------------------------------------------------------------
(* A receipt is added.                                                     *)

\* Where a receipt is added.
Place == Len(receipts) + 1

Reads(x) == x.kind = "verdict" /\ x.step # "mechanical"

Judges(x) == Reads(x) /\ x.step \in {"round", "closure"}

\* One more receipt at the end.
LEMMA Grows ==
    ASSUME LoopTypeOK, NEW x \in Receipts, receipts' = Append(receipts, x)
    PROVE  /\ receipts' \in Seq(Receipts) /\ Place \in Nat /\ Place # 0
           /\ DOMAIN receipts' = DOMAIN receipts \cup {Place} /\ Place \notin DOMAIN receipts
           /\ \A i \in DOMAIN receipts : receipts'[i] = receipts[i] /\ i \in Nat /\ i < Place
           /\ receipts'[Place] = x
  BY DEF LoopTypeOK, Place

\* One more verdict at most.
LEMMA WrittenGrows ==
    ASSUME LoopTypeOK, NEW x \in Receipts, receipts' = Append(receipts, x)
    PROVE  /\ Written' = Written \cup (IF Reads(x) THEN {Place} ELSE {})
           /\ Judgments' = Judgments \cup (IF Judges(x) THEN {Place} ELSE {})
           /\ Written \in SUBSET DOMAIN receipts /\ Judgments \in SUBSET Written
<1>1. Written \in SUBSET DOMAIN receipts /\ Judgments \in SUBSET Written
  BY DEF Written, VerdictsIn, Judgments, Judging
<1>2. Written' = {i \in DOMAIN receipts' : receipts'[i].kind = "verdict" /\ receipts'[i].step # "mechanical"}
  BY DEF Written, VerdictsIn
<1>3. Written = {i \in DOMAIN receipts : receipts[i].kind = "verdict" /\ receipts[i].step # "mechanical"}
  BY DEF Written, VerdictsIn
<1>4. Written' = Written \cup (IF Reads(x) THEN {Place} ELSE {})
  BY <1>2, <1>3, Grows DEF Reads
<1>5. Judgments' = {i \in Written' : receipts'[i].step \in {"round", "closure"}}
  BY DEF Judgments, Judging, Written
<1>6. Judgments = {i \in Written : receipts[i].step \in {"round", "closure"}}
  BY DEF Judgments, Judging, Written
<1>7. Judgments' = Judgments \cup (IF Judges(x) THEN {Place} ELSE {})
  BY <1>1, <1>4, <1>5, <1>6, Grows DEF Judges
<1> QED BY <1>1, <1>4, <1>7

\* The invariant, part by part, when a receipt is added.
LEMMA IdGrows ==
    ASSUME LoopTypeOK, IdInv, NEW x \in Receipts, receipts' = Append(receipts, x),
           Reads(x) => /\ Distinct(x.findings)
                       /\ \A i \in Written : ~receipts[i].late => Agree(receipts[i].findings, x.findings)
    PROVE  IdInv'
<1>1. ASSUME NEW i \in Written'  PROVE Distinct(receipts'[i].findings)
  <2>1. CASE i \in Written
    BY <2>1, WrittenGrows, Grows DEF IdInv
  <2>2. CASE i = Place /\ Reads(x)
    BY <2>2, Grows
  <2> QED BY <1>1, <2>1, <2>2, WrittenGrows
<1>2. ASSUME NEW i \in Written', NEW j \in Written', i < j, ~receipts'[i].late
      PROVE  Agree(receipts'[i].findings, receipts'[j].findings)
  <2>1. i \in Written /\ receipts'[i] = receipts[i]
    <3>1. i # Place
      <4>1. j \in DOMAIN receipts \/ j = Place
        BY <1>2, WrittenGrows
      <4>2. Place \in Nat /\ (j \in DOMAIN receipts => j < Place /\ j \in Nat)
        BY Grows
      <4> QED BY <1>2, <4>1, <4>2
    <3> QED BY <1>2, <3>1, WrittenGrows, Grows
  <2>2. CASE j \in Written
    <3>1. receipts'[j] = receipts[j] BY <2>2, WrittenGrows, Grows
    <3> QED BY <1>2, <2>1, <2>2, <3>1 DEF IdInv
  <2>3. CASE j = Place /\ Reads(x)
    <3>1. receipts'[j] = x BY <2>3, Grows
    <3> QED BY <1>2, <2>1, <2>3, <3>1
  <2> QED BY <1>2, <2>2, <2>3, WrittenGrows
<1> QED BY <1>1, <1>2 DEF IdInv

LEMMA ReadGrows ==
    ASSUME LoopTypeOK, ReadInv, NEW x \in Receipts, receipts' = Append(receipts, x),
           listed \subseteq listed',
           x.kind # "ruling" /\ ~x.late => Place \in listed',
           pass'.on => pass' = pass /\ x.kind = "ruling"
    PROVE  ReadInv'
<1> SUFFICES ASSUME NEW i \in DOMAIN receipts', receipts'[i].kind # "ruling", ~receipts'[i].late
             PROVE  i \in listed' /\ (pass'.on => i \in pass'.seen)
  BY DEF ReadInv
<1>1. CASE i \in DOMAIN receipts
  <2>1. receipts'[i] = receipts[i] BY <1>1, Grows
  <2> QED BY <1>1, <2>1 DEF ReadInv
<1>2. CASE i = Place
  <2>1. receipts'[i] = x BY <1>2, Grows
  <2> QED BY <1>2, <2>1
<1> QED BY <1>1, <1>2, Grows

LEMMA SaysGrows ==
    ASSUME LoopTypeOK, SaysInv, NEW x \in Receipts, receipts' = Append(receipts, x),
           x.kind = "verdict" => Says(x)
    PROVE  SaysInv'
<1> SUFFICES ASSUME NEW i \in DOMAIN receipts', receipts'[i].kind = "verdict"
             PROVE  Says(receipts'[i])
  BY DEF SaysInv, IsVerdict
<1>1. CASE i \in DOMAIN receipts
  <2>1. receipts'[i] = receipts[i] BY <1>1, Grows
  <2> QED BY <1>1, <2>1 DEF SaysInv, IsVerdict
<1>2. CASE i = Place
  <2>1. receipts'[i] = x BY <1>2, Grows
  <2> QED BY <1>2, <2>1
<1> QED BY <1>1, <1>2, Grows

LEMMA HeadsGrow ==
    ASSUME LoopTypeOK, HeadsInv, NEW x \in Receipts, receipts' = Append(receipts, x),
           head' = head,
           x.kind = "verdict" =>
              /\ x.head \in 1..head
              /\ \A i \in DOMAIN receipts : IsVerdict(i) => receipts[i].head <= x.head,
           pass'.on => pass' = pass /\ x.kind # "verdict"
    PROVE  HeadsInv'
<1>1. ASSUME NEW i \in DOMAIN receipts', IsVerdict(i)'
      PROVE  /\ receipts'[i].head \in 1..head'
             /\ pass'.on => receipts'[i].head <= pass'.head
  <2>1. CASE i \in DOMAIN receipts
    <3>1. receipts'[i] = receipts[i] BY <2>1, Grows
    <3> QED BY <1>1, <2>1, <3>1 DEF HeadsInv, IsVerdict
  <2>2. CASE i = Place
    <3>1. receipts'[i] = x BY <2>2, Grows
    <3> QED BY <1>1, <2>2, <3>1 DEF IsVerdict
  <2> QED BY <2>1, <2>2, Grows
<1>2. ASSUME NEW i \in DOMAIN receipts', NEW j \in DOMAIN receipts',
             IsVerdict(i)', IsVerdict(j)', i < j
      PROVE  receipts'[i].head <= receipts'[j].head
  <2>1. i \in DOMAIN receipts /\ receipts'[i] = receipts[i]
    <3>1. \A k \in DOMAIN receipts' : k <= Place
      BY Grows
    <3>2. i # Place
      BY <1>2, <3>1, Grows
    <3> QED BY <3>2, Grows
  <2>2. CASE j \in DOMAIN receipts
    <3>1. receipts'[j] = receipts[j] BY <2>2, Grows
    <3> QED BY <1>2, <2>1, <2>2, <3>1 DEF HeadsInv, IsVerdict
  <2>3. CASE j = Place
    <3>1. receipts'[j] = x BY <2>3, Grows
    <3> QED BY <1>2, <2>1, <3>1 DEF IsVerdict
  <2> QED BY <2>2, <2>3, Grows
<1>3. pass'.on => pass'.head \in 1..head'
  BY DEF HeadsInv
<1> QED BY <1>1, <1>2, <1>3 DEF HeadsInv

LEMMA ShownStays ==
    ASSUME LoopTypeOK, NEW x \in Receipts, receipts' = Append(receipts, x), NEW id, WasShown(id)
    PROVE  WasShown(id)'
<1>1. PICK k \in Written : \E f \in receipts[k].findings : f.id = id /\ ~BodyDerived(f)
  BY DEF WasShown
<1>2. k \in Written' /\ receipts'[k] = receipts[k]
  BY <1>1, WrittenGrows, Grows
<1> QED BY <1>1, <1>2 DEF WasShown, BodyDerived

LEMMA ShownGrows ==
    ASSUME LoopTypeOK, ShownInv, NEW x \in Receipts, receipts' = Append(receipts, x),
           x.kind = "ruling" => WasShown(x.finding),
           \A r \in Rulers : ruler'[r] \in {0, ruler[r]}
    PROVE  ShownInv'
<1>1. \A id : WasShown(id) => WasShown(id)'
  BY ShownStays
<1>2. ASSUME NEW i \in DOMAIN receipts', receipts'[i].kind = "ruling", NEW id, id = receipts'[i].finding
      PROVE  WasShown(id)'
  <2>1. CASE i \in DOMAIN receipts
    <3>1. receipts'[i] = receipts[i] BY <2>1, Grows
    <3>2. WasShown(id) BY <1>2, <2>1, <3>1 DEF ShownInv
    <3> QED BY <1>1, <3>2
  <2>2. CASE i = Place
    <3>1. receipts'[i] = x BY <2>2, Grows
    <3>2. WasShown(id) BY <1>2, <3>1
    <3> QED BY <1>1, <3>2
  <2> QED BY <2>1, <2>2, Grows
<1>3. ASSUME NEW r \in Rulers, ruler'[r] # 0, NEW id, id = ruler'[r]  PROVE WasShown(id)'
  <2>1. WasShown(id)
    BY <1>3 DEF ShownInv
  <2> QED BY <1>1, <2>1
<1>4. \A i \in DOMAIN receipts' : receipts'[i].kind = "ruling" =>
        \E k \in Written' : \E f \in receipts'[k].findings :
            f.id = receipts'[i].finding /\ ~BodyDerived(f)
  <2> SUFFICES ASSUME NEW i \in DOMAIN receipts', receipts'[i].kind = "ruling"
               PROVE  \E k \in Written' : \E f \in receipts'[k].findings :
                        f.id = receipts'[i].finding /\ ~BodyDerived(f)
    OBVIOUS
  <2>1. PICK id : id = receipts'[i].finding
    OBVIOUS
  <2>2. WasShown(id)'
    BY <1>2, <2>1
  <2>3. \E k \in Written' : \E f \in receipts'[k].findings : f.id = id /\ ~BodyDerived(f)
    BY <2>2 DEF WasShown
  <2> QED BY <2>1, <2>3
<1>5. \A r \in Rulers : ruler'[r] # 0 =>
        \E k \in Written' : \E f \in receipts'[k].findings : f.id = ruler'[r] /\ ~BodyDerived(f)
  BY <1>3 DEF WasShown
<1> QED BY <1>4, <1>5 DEF ShownInv, WasShown

\* No verdict waits or waited in the spool.
AllInTime == \A l \in Written : ~receipts[l].late

LEMMA InTimeGrows ==
    ASSUME LoopTypeOK, NEW x \in Receipts, receipts' = Append(receipts, x)
    PROVE  /\ \A i \in DOMAIN receipts : InTime(i)' => InTime(i)
           /\ \A i : i = Place /\ InTime(i)' => AllInTime
<1>1. ASSUME NEW i, NEW l \in Written, InTime(i)', l < i  PROVE ~receipts[l].late
  <2>1. l \in Written' /\ receipts'[l] = receipts[l]
    BY WrittenGrows, Grows
  <2> QED BY <1>1, <2>1 DEF InTime, Written
<1>2. \A l \in Written : l < Place
  BY WrittenGrows, Grows
<1>3. ASSUME NEW i \in DOMAIN receipts, InTime(i)'  PROVE InTime(i)
  BY <1>1, <1>3 DEF InTime, Written
<1>4. ASSUME NEW i, i = Place, InTime(i)'  PROVE AllInTime
  BY <1>1, <1>2, <1>4 DEF AllInTime
<1> QED BY <1>3, <1>4

LEMMA RuledGrows ==
    ASSUME LoopTypeOK, RuledInv, NEW x \in Receipts, receipts' = Append(receipts, x),
           Reads(x) /\ AllInTime => \A f \in x.findings : f.status = "ruled" => ~BodyDerived(f)
    PROVE  RuledInv'
<1>1. ASSUME NEW i \in Written', InTime(i)', NEW f \in receipts'[i].findings, f.status = "ruled"
      PROVE  ~BodyDerived(f)
  <2>1. CASE i \in Written
    <3>1. receipts'[i] = receipts[i] /\ InTime(i) BY <1>1, <2>1, WrittenGrows, Grows, InTimeGrows
    <3> QED BY <1>1, <2>1, <3>1 DEF RuledInv
  <2>2. CASE i = Place /\ Reads(x)
    <3>1. receipts'[i] = x BY <2>2, Grows
    <3>2. AllInTime BY <1>1, <2>2, InTimeGrows
    <3> QED BY <1>1, <2>2, <3>1, <3>2
  <2> QED BY <2>1, <2>2, WrittenGrows
<1> QED BY <1>1 DEF RuledInv

\* Nothing that comes after, or late, opens a carry-forward before a verdict.
LEMMA OpenBefore ==
    ASSUME ReadInv, NEW v, listed \subseteq listed', listed' \subseteq DOMAIN receipts',
           \A j \in DOMAIN receipts' : j < v => j \in DOMAIN receipts,
           \A j \in DOMAIN receipts : j \in DOMAIN receipts' /\ receipts'[j] = receipts[j],
           listed \subseteq DOMAIN receipts
    PROVE  OpenElsewhere(Timely(v))' \subseteq OpenElsewhere(Timely(v))
<1> SUFFICES ASSUME NEW cf \in OpenElsewhere(Timely(v))'
             PROVE  cf \in OpenElsewhere(Timely(v))
  OBVIOUS
<1>1. Timely(v)' = {i \in listed' : i < v /\ ~(receipts'[i].kind = "other" /\ receipts'[i].late)}
  BY DEF Timely
<1>2. /\ \E j \in Timely(v)' : receipts'[j].kind = "other" /\ receipts'[j].cf = cf
      /\ \A i \in Timely(v)' : receipts'[i].kind = "verdict" /\ receipts'[i].approve =>
            cf \notin receipts'[i].addressed
  BY DEF OpenElsewhere
<1>3. PICK j \in Timely(v)' : receipts'[j].kind = "other" /\ receipts'[j].cf = cf
  BY <1>2
<1>4. /\ j \in DOMAIN receipts /\ j < v /\ ~receipts[j].late
      /\ receipts[j].kind = "other" /\ receipts[j].cf = cf
  BY <1>1, <1>3
<1>5. j \in listed
  BY <1>4 DEF ReadInv
<1>6. j \in Timely(v)
  BY <1>4, <1>5 DEF Timely
<1>7. ASSUME NEW i \in Timely(v), receipts[i].kind = "verdict", receipts[i].approve
      PROVE  cf \notin receipts[i].addressed
  <2>1. i \in Timely(v)' /\ receipts'[i] = receipts[i]
    BY <1>1 DEF Timely
  <2> QED BY <1>2, <1>7, <2>1
<1> QED BY <1>4, <1>6, <1>7 DEF OpenElsewhere

LEMMA AccountGrows ==
    ASSUME LoopTypeOK, ReadInv, AccountInv, NEW x \in Receipts, receipts' = Append(receipts, x),
           listed \subseteq listed', listed' \subseteq DOMAIN receipts',
           \A v : /\ v = Place /\ Judges(x) /\ AllInTime
                  /\ x.approve /\ x.artifact = "code" /\ x.source = 0
                  => OpenElsewhere(Timely(v)) \subseteq x.addressed \cup x.deferred,
           Judges(x) => \A cf \in x.addressed :
                cf \in x.confirmed \/ \E u \in Judgments : cf \in receipts[u].confirmed
    PROVE  AccountInv'
<1>1. ASSUME NEW v \in DOMAIN receipts'
      PROVE  OpenElsewhere(Timely(v))' \subseteq OpenElsewhere(Timely(v))
  <2>1. /\ \A j \in DOMAIN receipts' : j < v => j \in DOMAIN receipts
        /\ \A j \in DOMAIN receipts : j \in DOMAIN receipts' /\ receipts'[j] = receipts[j]
    BY Grows
  <2>2. listed \subseteq DOMAIN receipts
    BY DEF LoopTypeOK
  <2> QED BY <2>1, <2>2, OpenBefore
<1>2. ASSUME NEW v \in Judgments', receipts'[v].approve, receipts'[v].artifact = "code",
             receipts'[v].source = 0, InTime(v)'
      PROVE  OpenElsewhere(Timely(v))' \subseteq receipts'[v].addressed \cup receipts'[v].deferred
  <2>1. CASE v \in Judgments
    <3>1. v \in DOMAIN receipts /\ receipts'[v] = receipts[v]
      BY <2>1, WrittenGrows, Grows
    <3>2. InTime(v)
      BY <1>2, <3>1, InTimeGrows
    <3>3. OpenElsewhere(Timely(v)) \subseteq receipts[v].addressed \cup receipts[v].deferred
      BY <1>2, <2>1, <3>1, <3>2 DEF AccountInv
    <3> QED BY <1>1, <3>1, <3>3, Grows
  <2>2. CASE v = Place /\ Judges(x)
    <3>1. receipts'[v] = x /\ v \in DOMAIN receipts' BY <2>2, Grows
    <3>2. AllInTime BY <1>2, <2>2, InTimeGrows
    <3>3. OpenElsewhere(Timely(v)) \subseteq x.addressed \cup x.deferred
      BY <1>2, <2>2, <3>1, <3>2
    <3> QED BY <1>1, <3>1, <3>3
  <2> QED BY <2>1, <2>2, WrittenGrows
<1>3. ASSUME NEW v \in Judgments', NEW cf \in receipts'[v].addressed
      PROVE  \E u \in Judgments' : u <= v /\ cf \in receipts'[u].confirmed
  <2>1. \A u \in Judgments : u \in Judgments' /\ receipts'[u] = receipts[u]
    BY WrittenGrows, Grows
  <2>2. CASE v \in Judgments
    <3>1. PICK u \in Judgments : u <= v /\ cf \in receipts[u].confirmed
      BY <1>3, <2>1, <2>2 DEF AccountInv
    <3> QED BY <2>1, <3>1
  <2>3. CASE v = Place /\ Judges(x)
    <3>1. receipts'[v] = x BY <2>3, Grows
    <3>2. CASE cf \in x.confirmed
      BY <1>3, <2>3, <3>1, <3>2, Grows
    <3>3. CASE \E u \in Judgments : cf \in receipts[u].confirmed
      <4>1. PICK u \in Judgments : cf \in receipts[u].confirmed BY <3>3
      <4>2. u <= v BY <2>3, WrittenGrows, Grows
      <4> QED BY <2>1, <4>1, <4>2
    <3> QED BY <1>3, <2>3, <3>1, <3>2, <3>3
  <2> QED BY <2>2, <2>3, WrittenGrows
<1> QED BY <1>2, <1>3 DEF AccountInv

\* The ruling, and the word of a judge, since a verdict.
RuledSince(u, id) ==
    \E r \in DOMAIN receipts : u < r /\ receipts[r].kind = "ruling" /\ receipts[r].finding = id

FixedSince(w, id) ==
    \E u \in DOMAIN receipts : w < u /\ IsVerdict(u) /\ id \in receipts[u].fixed

\* An older approval was carried over the verdict w, or is now.
CarriedSince(w) ==
    bounds.asked /\ \E c \in Written : w < c /\ receipts[c].source # 0 /\ receipts[c].source < w

Crosses(x, w) == bounds.asked /\ x.source # 0 /\ x.source < w

\* What was carried over stays so.
LEMMA CarriedGrows ==
    ASSUME LoopTypeOK, NEW x \in Receipts, receipts' = Append(receipts, x), bounds' = bounds
    PROVE  /\ \A w, v \in DOMAIN receipts : CarriedOver(w, v) => CarriedOver(w, v)'
           /\ \A w \in DOMAIN receipts : \A v : v = Place /\ Reads(x) /\ (CarriedSince(w) \/ Crosses(x, w)) =>
                                             CarriedOver(w, v)'
<1>1. /\ Written' = Written \cup (IF Reads(x) THEN {Place} ELSE {}) /\ Written \in SUBSET DOMAIN receipts
      /\ Place \in Nat
      /\ \A i \in DOMAIN receipts : receipts'[i] = receipts[i] /\ i \in Nat /\ i < Place
      /\ receipts'[Place] = x
  BY Grows, WrittenGrows
<1>2. \A w, v : CarriedOver(w, v)' <=>
        bounds.asked /\ \E c \in Written' : w < c /\ c <= v /\ receipts'[c].source # 0 /\ receipts'[c].source < w
  BY DEF CarriedOver, Written
<1>3. \A w, v : CarriedOver(w, v) <=>
        bounds.asked /\ \E c \in Written : w < c /\ c <= v /\ receipts[c].source # 0 /\ receipts[c].source < w
  BY DEF CarriedOver, Written
<1>4. \A w, v \in DOMAIN receipts : CarriedOver(w, v) => CarriedOver(w, v)'
  BY <1>1, <1>2, <1>3
<1>5. ASSUME NEW w \in DOMAIN receipts, NEW v, v = Place, Reads(x), CarriedSince(w) \/ Crosses(x, w)
      PROVE  CarriedOver(w, v)'
  <2>1. CASE CarriedSince(w)
    <3>1. PICK c \in Written : w < c /\ receipts[c].source # 0 /\ receipts[c].source < w
      BY <2>1 DEF CarriedSince
    <3>2. c \in Written' /\ receipts'[c] = receipts[c] /\ c <= v
      BY <1>1, <1>5
    <3> QED BY <1>2, <2>1, <3>1, <3>2 DEF CarriedSince
  <2>2. CASE Crosses(x, w)
    <3>1. v \in Written' /\ receipts'[v] = x /\ w < v /\ v <= v
      <4>1. Place \in Written'
        BY <1>1, <1>5
      <4>2. w < Place /\ Place <= Place
        BY <1>1
      <4> QED BY <1>1, <1>5, <4>1, <4>2
    <3>2. bounds.asked /\ receipts'[v].source # 0 /\ receipts'[v].source < w
      BY <2>2, <3>1 DEF Crosses
    <3>3. \E c \in Written' : w < c /\ c <= v /\ receipts'[c].source # 0 /\ receipts'[c].source < w
      BY <3>1, <3>2
    <3> QED BY <1>2, <3>2, <3>3
  <2> QED BY <1>5, <2>1, <2>2
<1> QED BY <1>4, <1>5

LEMMA RoundsGrow ==
    ASSUME LoopTypeOK, RoundsInv, NEW x \in Receipts, receipts' = Append(receipts, x),
           bounds' = bounds,
           Reads(x) =>
              \A u \in Judgments : Ends(u) /\ ~CarriedSince(u) /\ ~Crosses(x, u) =>
                \A f \in JudgesOwn(receipts[u].findings) : OpenBlocker(f) =>
                    \/ RuledSince(u, f.id)
                    \/ x.step = "awaiting_ruling" /\ StillOpen(x.findings, f.id)
    PROVE  RoundsInv'
<1> SUFFICES ASSUME NEW u \in Judgments', NEW w \in Written', u < w, Ends(u)', ~CarriedOver(u, w)',
                    NEW f \in JudgesOwn(receipts'[u].findings), OpenBlocker(f)
             PROVE  \/ RuledBetween(u, w, f.id)'
                    \/ receipts'[w].step = "awaiting_ruling" /\ StillOpen(receipts'[w].findings, f.id)
  BY DEF RoundsInv
<1>1. /\ u \in Judgments /\ receipts'[u] = receipts[u]
      /\ \A r \in DOMAIN receipts : r \in DOMAIN receipts' /\ receipts'[r] = receipts[r] /\ r < Place
  <2>1. u # Place
    <3>1. w \in DOMAIN receipts \/ w = Place
      BY WrittenGrows
    <3>2. Place \in Nat /\ (w \in DOMAIN receipts => w < Place /\ w \in Nat)
      BY Grows
    <3> QED BY <3>1, <3>2
  <2> QED BY <2>1, WrittenGrows, Grows
<1>2. Ends(u)
  BY <1>1 DEF Ends
<1>3. CASE w \in Written
  <2>1. w \in DOMAIN receipts /\ receipts'[w] = receipts[w]
    BY <1>1, <1>3, WrittenGrows
  <2>2. \/ RuledBetween(u, w, f.id)
        \/ receipts[w].step = "awaiting_ruling" /\ StillOpen(receipts[w].findings, f.id)
    <3>1. ~CarriedOver(u, w)
      BY <1>1, <2>1, CarriedGrows, WrittenGrows
    <3> QED BY <1>1, <1>2, <1>3, <3>1 DEF RoundsInv
  <2> QED BY <1>1, <2>1, <2>2 DEF RuledBetween
<1>4. CASE w = Place /\ Reads(x)
  <2>1. receipts'[w] = x
    BY <1>4, Grows
  <2>2. \/ RuledSince(u, f.id)
        \/ x.step = "awaiting_ruling" /\ StillOpen(x.findings, f.id)
    <3>1. ~CarriedSince(u) /\ ~Crosses(x, u)
      BY <1>1, <1>4, CarriedGrows, WrittenGrows
    <3> QED BY <1>1, <1>2, <1>4, <3>1
  <2>3. RuledSince(u, f.id) => RuledBetween(u, w, f.id)'
    BY <1>1, <1>4 DEF RuledSince, RuledBetween
  <2> QED BY <2>1, <2>2, <2>3
<1>5. w \in Written \/ (w = Place /\ Reads(x))
  BY WrittenGrows
<1> QED BY <1>3, <1>4, <1>5

LEMMA FateGrows ==
    ASSUME LoopTypeOK, FateInv, NEW x \in Receipts, receipts' = Append(receipts, x),
           bounds' = bounds, listed \subseteq listed',
           Reads(x) =>
              \A w \in Written : ~receipts[w].late /\ ~CarriedSince(w) /\ ~Crosses(x, w) =>
                \A f \in JudgesOwn(receipts[w].findings) : OpenBlocker(f) =>
                    \/ FixedSince(w, f.id) \/ f.id \in x.fixed
                    \/ CarriedForward(f.id)
                    \/ StillOpen(x.findings, f.id)
    PROVE  FateInv'
<1> SUFFICES ASSUME NEW w \in Written', NEW y \in Written', w < y, ~receipts'[w].late,
                    ~CarriedOver(w, y)',
                    NEW f \in JudgesOwn(receipts'[w].findings), OpenBlocker(f)
             PROVE  \/ FixedBetween(w, y, f.id)'
                    \/ CarriedForward(f.id)'
                    \/ StillOpen(receipts'[y].findings, f.id)
  BY DEF FateInv
<1>1. /\ w \in Written /\ receipts'[w] = receipts[w]
      /\ \A r \in DOMAIN receipts : r \in DOMAIN receipts' /\ receipts'[r] = receipts[r] /\ r < Place
                                    /\ r \in Nat /\ Place \in Nat
  <2>1. w # Place
    <3>1. y \in DOMAIN receipts \/ y = Place
      BY WrittenGrows
    <3>2. Place \in Nat /\ (y \in DOMAIN receipts => y < Place /\ y \in Nat)
      BY Grows
    <3> QED BY <3>1, <3>2
  <2> QED BY <2>1, WrittenGrows, Grows
<1>2. CarriedForward(f.id) => CarriedForward(f.id)'
  <2>1. listed \subseteq DOMAIN receipts BY DEF LoopTypeOK
  <2> QED BY <1>1, <2>1 DEF CarriedForward
<1>3. CASE y \in Written
  <2>1. y \in DOMAIN receipts /\ receipts'[y] = receipts[y]
    BY <1>1, <1>3, WrittenGrows
  <2>2. \/ FixedBetween(w, y, f.id)
        \/ CarriedForward(f.id)
        \/ StillOpen(receipts[y].findings, f.id)
    <3>1. ~CarriedOver(w, y)
      BY <1>1, <2>1, CarriedGrows, WrittenGrows
    <3> QED BY <1>1, <1>3, <3>1 DEF FateInv
  <2>3. FixedBetween(w, y, f.id) => FixedBetween(w, y, f.id)'
    BY <1>1 DEF FixedBetween, IsVerdict
  <2> QED BY <1>2, <2>1, <2>2, <2>3
<1>4. CASE y = Place /\ Reads(x)
  <2>1. receipts'[y] = x /\ y \in DOMAIN receipts'
    BY <1>4, Grows
  <2>2. \/ FixedSince(w, f.id) \/ f.id \in x.fixed
        \/ CarriedForward(f.id)
        \/ StillOpen(x.findings, f.id)
    <3>1. ~CarriedSince(w) /\ ~Crosses(x, w)
      BY <1>1, <1>4, CarriedGrows, WrittenGrows
    <3> QED BY <1>1, <1>4, <3>1
  <2>3. FixedSince(w, f.id) => FixedBetween(w, y, f.id)'
    BY <1>1, <1>4 DEF FixedSince, FixedBetween, IsVerdict
  <2>4. f.id \in x.fixed => FixedBetween(w, y, f.id)'
    BY <1>1, <1>4, <2>1, WrittenGrows DEF FixedBetween, IsVerdict, Reads
  <2> QED BY <1>2, <2>1, <2>2, <2>3, <2>4
<1>5. y \in Written \/ (y = Place /\ Reads(x))
  BY WrittenGrows
<1> QED BY <1>3, <1>4, <1>5

-----------------------------------------------------------------------------
(* What the verdict of a pass owes to what the pass read.                  *)

\* A pass that is on has read every verdict attested in time.
LEMMA ReadAll ==
    ASSUME LoopTypeOK, ReadInv, pass.on, NEW i \in Written, ~receipts[i].late
    PROVE  i \in VerdictsIn(Seen)
<1>1. i \in DOMAIN receipts /\ receipts[i].kind = "verdict" /\ receipts[i].step # "mechanical"
  BY DEF Written, VerdictsIn
<1>2. i \in Seen
  BY <1>1 DEF ReadInv, Seen
<1> QED BY <1>1, <1>2 DEF VerdictsIn

\* The verdict whose list the pass starts from.
LEMMA EarlierIsOf ==
    ASSUME LoopTypeOK, VerdictsIn(Seen) # {}
    PROVE  \E y \in Written : /\ Earlier = receipts[y].findings /\ y \in VerdictsIn(Seen)
                              /\ \A i \in VerdictsIn(Seen) : i <= y
  BY ReadsVerdicts

LEMMA EarlierFound ==
    ASSUME LoopTypeOK, NEW e \in Earlier
    PROVE  VerdictsIn(Seen) # {}
  BY ReadsVerdicts

\* What a pass publishes follows from a list that follows itself.
LEMMA EarlierIsFollowed ==
    ASSUME LoopTypeOK, SaysInv
    PROVE  Follows(Earlier)
<1>1. ASSUME NEW f \in Earlier, Mechanical(f), f.status # "ruled"  PROVE f.class = "blocker"
  <2>1. PICK y \in Written : Earlier = receipts[y].findings
    BY EarlierFound, EarlierIsOf
  <2>2. Says(receipts[y])
    BY WrittenIs DEF SaysInv, IsVerdict
  <2> QED BY <1>1, <2>1, <2>2 DEF Says
<1> QED BY <1>1, EarlierFollows

\* Its ids agree with those of every verdict attested in time.
LEMMA PassIds ==
    ASSUME LoopTypeOK, IdInv, ReadInv, pass.on, NEW x, Faithful(x)
    PROVE  /\ Distinct(x.findings)
           /\ \A i \in Written : ~receipts[i].late => Agree(receipts[i].findings, x.findings)
<1>1. Follows(x.findings)
  BY DEF Faithful
<1>2. ASSUME NEW i \in Written, ~receipts[i].late,
             NEW f \in receipts[i].findings, NEW g \in x.findings, f.id = g.id
      PROVE  f.born = g.born /\ f.gap = g.gap
  <2>1. i \in VerdictsIn(Seen)
    BY <1>2, ReadAll
  <2>2. f.id <= HighestId(Seen) /\ f.id \in Nat /\ HighestId(Seen) \in Nat
    BY <2>1, HighestIsAbove, WrittenTyped, FindingsTyped DEF LoopTypeOK
  <2>3. Recalls(g)
    BY <1>1, <1>2, <2>2 DEF Follows
  <2>4. PICK e \in Earlier : Same(e, g)
    BY <2>3 DEF Recalls
  <2>5. PICK y \in Written : Earlier = receipts[y].findings /\ i <= y
    BY <2>1, EarlierIsOf
  <2>6. f.id = e.id /\ e \in receipts[y].findings
    BY <1>2, <2>4, <2>5 DEF Same
  <2>7. i \in Nat /\ y \in Nat
    BY WrittenTyped DEF LoopTypeOK
  <2>8. f.born = e.born /\ f.gap = e.gap
    <3>1. CASE i = y
      BY <1>2, <2>6, <3>1 DEF IdInv, Distinct
    <3>2. CASE i < y
      BY <1>2, <2>6, <3>2 DEF IdInv, Agree
    <3> QED BY <2>5, <2>7, <3>1, <3>2
  <2> QED BY <2>4, <2>8 DEF Same
<1> QED BY <1>1, <1>2 DEF Follows, Distinct, Agree

LEMMA PassSays ==
    ASSUME NEW x, Faithful(x)
    PROVE  Says(x)
  BY DEF Faithful, Follows, Says

\* While every verdict is in time, no ruling is on a gap that the body fills.
LEMMA NoBodyRuled ==
    ASSUME LoopTypeOK, IdInv, ShownInv, RuledInv, AllInTime, NEW f, EverRuled(f)
    PROVE  ~BodyDerived(f)
<1>1. PICK e \in Earlier : Same(e, f) /\ (e.status = "ruled" \/ RuledAs(Seen, e.id, "carry_forward"))
  BY DEF EverRuled
<1>2. PICK y \in Written : Earlier = receipts[y].findings
  BY EarlierFound, EarlierIsOf
<1>3. CASE e.status = "ruled"
  <2>1. InTime(y) BY DEF InTime, AllInTime, Written
  <2>2. ~BodyDerived(e) BY <1>2, <1>3, <2>1 DEF RuledInv
  <2> QED BY <1>1, <2>2 DEF Same, BodyDerived
<1>4. CASE RuledAs(Seen, e.id, "carry_forward")
  <2>1. receipts \in Seq(Receipts) /\ Seen \in SUBSET DOMAIN receipts
    BY DEF LoopTypeOK, Passes, Seen
  <2>2. PICK r \in Seen : receipts[r].kind = "ruling" /\ receipts[r].finding = e.id
    BY <1>4, <2>1, RulingBehind
  <2>3. WasShown(e.id)
    BY <2>1, <2>2 DEF ShownInv
  <2>4. PICK k \in Written : \E h \in receipts[k].findings : h.id = e.id /\ ~BodyDerived(h)
    BY <2>3 DEF WasShown
  <2>4a. PICK h \in receipts[k].findings : h.id = e.id /\ ~BodyDerived(h)
    BY <2>4
  <2>5. k \in Nat /\ y \in Nat /\ ~receipts[k].late /\ ~receipts[y].late
    BY WrittenTyped DEF LoopTypeOK, AllInTime
  <2>6. e.gap = h.gap
    <3>1. CASE k = y BY <1>2, <2>4a, <3>1 DEF IdInv, Distinct
    <3>2. CASE k < y BY <1>2, <2>4a, <2>5, <3>2 DEF IdInv, Agree
    <3>3. CASE y < k BY <1>2, <2>4a, <2>5, <3>3 DEF IdInv, Agree
    <3> QED BY <2>5, <3>1, <3>2, <3>3
  <2> QED BY <1>1, <2>4a, <2>6 DEF Same, BodyDerived
<1> QED BY <1>1, <1>3, <1>4

LEMMA PassRuled ==
    ASSUME LoopTypeOK, IdInv, ShownInv, RuledInv, AllInTime, NEW x, Faithful(x),
           NEW f \in x.findings, f.status = "ruled"
    PROVE  ~BodyDerived(f)
<1>1. CASE Mechanical(f)
  <2>1. EverRuled(f) BY <1>1 DEF Faithful, Follows
  <2> QED BY <2>1, NoBodyRuled
<1>2. CASE ~Mechanical(f)
  BY <1>2 DEF Mechanical, BodyDerived
<1> QED BY <1>1, <1>2

\* An approval in time accounts for every carry-forward open before it.
LEMMA PassAccounts ==
    ASSUME LoopTypeOK, IdInv, ReadInv, ShownInv, RuledInv, pass.on, AllInTime,
           NEW x, Faithful(x), Judges(x), x.approve, x.artifact = "code", NEW v, v = Place
    PROVE  OpenElsewhere(Timely(v)) \subseteq x.addressed \cup x.deferred
<1> SUFFICES ASSUME NEW cf \in OpenElsewhere(Timely(v))
             PROVE  cf \in x.addressed \cup x.deferred
  OBVIOUS
<1>1. Seen \subseteq listed /\ listed \subseteq DOMAIN receipts /\ \A i \in DOMAIN receipts : i < v
  BY DEF LoopTypeOK, Seen, Place
<1>2. PICK j \in Timely(v) : receipts[j].kind = "other" /\ receipts[j].cf = cf
  BY DEF OpenElsewhere
<1>3. j \in Seen
  BY <1>1, <1>2 DEF Timely, ReadInv, Seen
<1>4. ASSUME NEW i \in Seen, receipts[i].kind = "verdict", receipts[i].approve
      PROVE  cf \notin receipts[i].addressed
  <2>1. i \in Timely(v)
    BY <1>1, <1>4 DEF Timely
  <2> QED BY <1>4, <2>1 DEF OpenElsewhere
<1>5. cf \in OpenElsewhere(Seen)
  BY <1>2, <1>3, <1>4 DEF OpenElsewhere
<1>6. cf \in Owed
  BY <1>5 DEF Owed, Faithful
<1>7. cf \in x.addressed \cup x.deferred \/ \E f : BodyDerived(f) /\ EverRuled(f)
  BY <1>6 DEF Faithful, Accounts, Judges
<1> QED BY <1>7, NoBodyRuled

\* And a judge said what it calls addressed.
LEMMA PassConfirms ==
    ASSUME LoopTypeOK, AccountInv, NEW x, Faithful(x), NEW cf \in x.addressed
    PROVE  cf \in x.confirmed \/ \E u \in Judgments : cf \in receipts[u].confirmed
<1>1. cf \in x.confirmed \/ cf \in ConfirmedIn(Seen)
  BY DEF Faithful, Accounts
<1>2. CASE cf \in ConfirmedIn(Seen)
  <2>1. PICK i \in Judging(Seen) : cf \in receipts[i].addressed
    BY <1>2 DEF ConfirmedIn
  <2>2. i \in Judgments
    BY DEF Judgments, Judging, VerdictsIn, LoopTypeOK, Seen
  <2> QED BY <2>1, <2>2 DEF AccountInv
<1> QED BY <1>1, <1>2

\* After the last round the next step is a ruling on every blocker that is open.
LEMMA EndAwaits ==
    ASSUME LoopTypeOK, NEW u \in Judging(Seen), LastJudged(Seen) = u, Ends(u),
           NEW e \in JudgesOwn(Earlier), OpenBlocker(e), ~RuledSince(u, e.id)
    PROVE  NextStep(Seen) = "awaiting_ruling"
<1>1. e \in Latest(Seen) /\ ~BodyDerived(e)
  BY DEF JudgesOwn, Mechanical, BodyDerived, Earlier
<1>2. u # 0 /\ Seen \subseteq DOMAIN receipts
  BY DEF LoopTypeOK, Seen, Judging, VerdictsIn
<1>3. Awaiting(Seen)
  BY <1>1, <1>2 DEF Awaiting, Ends
<1>4. Origin(u) = u
  BY DEF Origin, Carried, Ends
<1>5. RulingsOn(Seen, e.id) = {}
  BY <1>2, <1>4 DEF RulingsOn, RuledSince
<1>6. e \in Unruled(Seen)
  BY <1>1, <1>5 DEF Unruled, IsRuled
<1> QED BY <1>3, <1>6 DEF NextStep

\* After the last round it waits, with the blockers open, until they are ruled.
LEMMA PassRounds ==
    ASSUME LoopTypeOK, ReadInv, RoundsInv, pass.on, NEW x, Faithful(x),
           NEW u \in Judgments, Ends(u), ~CarriedSince(u),
           NEW f \in JudgesOwn(receipts[u].findings), OpenBlocker(f)
    PROVE  \/ RuledSince(u, f.id)
           \/ x.step = "awaiting_ruling" /\ StillOpen(x.findings, f.id)
<1> SUFFICES ASSUME ~RuledSince(u, f.id)
             PROVE  x.step = "awaiting_ruling" /\ StillOpen(x.findings, f.id)
  OBVIOUS
<1>1. u \in Written /\ receipts[u].step \in {"round", "closure"} /\ ~receipts[u].late
  BY DEF Judgments, Judging, Written, Ends
<1>2. u \in VerdictsIn(Seen) /\ u \in Judging(Seen)
  BY <1>1, ReadAll DEF Judging
<1>3. ASSUME NEW w \in Written, u < w
      PROVE  receipts[w].step = "awaiting_ruling" /\ StillOpen(receipts[w].findings, f.id)
  <2>1. ~RuledBetween(u, w, f.id) /\ ~CarriedOver(u, w)
    BY DEF RuledBetween, RuledSince, CarriedOver, CarriedSince, Written
  <2> QED BY <1>3, <2>1 DEF RoundsInv
<1>4. LastJudged(Seen) = u
  <2>1. Judging(Seen) \in SUBSET Judgments /\ Judging(Seen) \in SUBSET DOMAIN receipts
    BY DEF Judgments, Judging, VerdictsIn, LoopTypeOK, Seen
  <2>2. LastJudged(Seen) \in Judging(Seen) /\ u <= LastJudged(Seen)
    BY <1>2, <2>1, NewestIn DEF LastJudged, LoopTypeOK
  <2>3. LastJudged(Seen) \in Written /\ receipts[LastJudged(Seen)].step # "awaiting_ruling"
    BY <2>1, <2>2 DEF Judgments, Judging, Written
  <2>4. ~(u < LastJudged(Seen))
    BY <1>3, <2>3
  <2>5. u \in Nat /\ LastJudged(Seen) \in Nat
    BY <1>2, <2>1, <2>2 DEF LoopTypeOK
  <2> QED BY <2>2, <2>4, <2>5
<1>5. StillOpen(Earlier, f.id)
  <2>1. PICK y \in Written : Earlier = receipts[y].findings /\ u <= y
    BY <1>2, EarlierIsOf
  <2>2. u \in Nat /\ y \in Nat
    BY <1>1, WrittenTyped DEF LoopTypeOK
  <2>3. CASE u = y
    BY <2>1, <2>3 DEF StillOpen
  <2>4. CASE u < y
    BY <1>3, <2>1, <2>4
  <2> QED BY <2>1, <2>2, <2>3, <2>4
<1>6. PICK e \in JudgesOwn(Earlier) : e.id = f.id /\ OpenBlocker(e)
  BY <1>5 DEF StillOpen
<1>7. NextStep(Seen) = "awaiting_ruling"
  BY <1>2, <1>4, <1>6, EndAwaits
<1>8. x.step = "awaiting_ruling" /\ x.fixed = {}
  BY <1>7 DEF Faithful
<1>9. Fates(x)
  BY DEF Faithful
<1> QED BY <1>6, <1>8, <1>9 DEF Fates, StillOpen

\* No open blocker is dropped: fixed, ruled carry_forward, or open still.
LEMMA PassFate ==
    ASSUME LoopTypeOK, ReadInv, FateInv, pass.on, NEW x, Faithful(x),
           NEW w \in Written, ~receipts[w].late, ~CarriedSince(w),
           NEW f \in JudgesOwn(receipts[w].findings), OpenBlocker(f)
    PROVE  \/ FixedSince(w, f.id) \/ f.id \in x.fixed
           \/ CarriedForward(f.id)
           \/ StillOpen(x.findings, f.id)
<1>1. PICK y \in Written : Earlier = receipts[y].findings /\ w <= y
  BY ReadAll, EarlierIsOf
<1>2. w \in Nat /\ y \in Nat
  BY WrittenTyped DEF LoopTypeOK
<1>3. FixedSince(w, f.id) \/ CarriedForward(f.id) \/ StillOpen(Earlier, f.id)
  <2>1. CASE w = y
    BY <1>1, <2>1 DEF StillOpen
  <2>2. CASE w < y
    <3>1. ~CarriedOver(w, y)
      BY DEF CarriedOver, CarriedSince, Written
    <3> QED BY <1>1, <2>2, <3>1 DEF FateInv, FixedBetween, FixedSince
  <2> QED BY <1>1, <1>2, <2>1, <2>2
<1>4. ASSUME NEW e \in JudgesOwn(Earlier), e.id = f.id, OpenBlocker(e)
      PROVE  f.id \in x.fixed \/ CarriedForward(f.id) \/ StillOpen(x.findings, f.id)
  <2>1. \/ e.id \in x.fixed
        \/ RuledAs(Seen, e.id, "carry_forward")
        \/ \E g \in JudgesOwn(x.findings) : g.id = e.id /\ OpenBlocker(g)
    BY <1>4 DEF Faithful, Fates
  <2>2. CASE RuledAs(Seen, e.id, "carry_forward")
    <3>1. receipts \in Seq(Receipts) /\ Seen \in SUBSET DOMAIN receipts /\ Seen \subseteq listed
      BY DEF LoopTypeOK, Passes, Seen
    <3>2. PICK i \in Seen : /\ receipts[i].kind = "ruling" /\ receipts[i].finding = e.id
                            /\ receipts[i].ruling = "carry_forward"
      BY <2>2, <3>1, RulingBehind
    <3> QED BY <1>4, <3>1, <3>2 DEF CarriedForward
  <2> QED BY <1>4, <2>1, <2>2 DEF StillOpen
<1> QED BY <1>3, <1>4 DEF StillOpen

-----------------------------------------------------------------------------
(* The steps that add a receipt.                                           *)

\* A receipt is added, by whatever action.
Adds(x) ==
    /\ receipts' = Append(receipts, x)
    /\ listed \subseteq listed' /\ listed' \subseteq listed \cup {Place}
    /\ x.kind # "ruling" /\ ~x.late => Place \in listed'
    /\ bounds' = bounds /\ head' = head /\ artifact' = artifact /\ body' = body
    /\ edits' = edits /\ outages' \in 0..bounds.outages

\* A receipt that keeps the invariant.
Fits(x) ==
    /\ Reads(x) => /\ Distinct(x.findings)
                   /\ \A i \in Written : ~receipts[i].late => Agree(receipts[i].findings, x.findings)
    /\ x.kind = "verdict" => Says(x)
    /\ x.kind = "verdict" =>
          /\ x.head \in 1..head
          /\ \A i \in DOMAIN receipts : IsVerdict(i) => receipts[i].head <= x.head
    /\ x.kind = "ruling" => WasShown(x.finding)
    /\ Reads(x) /\ AllInTime => \A f \in x.findings : f.status = "ruled" => ~BodyDerived(f)
    /\ \A v : /\ v = Place /\ Judges(x) /\ AllInTime
              /\ x.approve /\ x.artifact = "code" /\ x.source = 0
              => OpenElsewhere(Timely(v)) \subseteq x.addressed \cup x.deferred
    /\ Judges(x) => \A cf \in x.addressed :
            cf \in x.confirmed \/ \E u \in Judgments : cf \in receipts[u].confirmed
    /\ Reads(x) =>
          \A u \in Judgments : Ends(u) /\ ~CarriedSince(u) /\ ~Crosses(x, u) =>
            \A f \in JudgesOwn(receipts[u].findings) : OpenBlocker(f) =>
                \/ RuledSince(u, f.id)
                \/ x.step = "awaiting_ruling" /\ StillOpen(x.findings, f.id)
    /\ Reads(x) =>
          \A w \in Written : ~receipts[w].late /\ ~CarriedSince(w) /\ ~Crosses(x, w) =>
            \A f \in JudgesOwn(receipts[w].findings) : OpenBlocker(f) =>
                \/ FixedSince(w, f.id) \/ f.id \in x.fixed
                \/ CarriedForward(f.id)
                \/ StillOpen(x.findings, f.id)

LEMMA NoPassTyped ==
    ASSUME receipts \in Seq(Receipts)
    PROVE  NoPass \in Passes /\ NoPass.on = FALSE /\ NoPass.seen = {}
<1>1. [cf \in Elsewhere |-> "absent"] \in Bodies
  BY DEF Bodies
<1> QED BY <1>1 DEF NoPass, Passes, Artifacts

LEMMA TypeGrows ==
    ASSUME LoopTypeOK, IdInv', NEW x \in Receipts, Adds(x),
           pass' = NoPass \/ pass' = pass, ruler' \in [Rulers -> 0..MaxIds]
    PROVE  LoopTypeOK'
<1>1. /\ receipts' \in Seq(Receipts) /\ DOMAIN receipts' = DOMAIN receipts \cup {Place}
      /\ listed' \subseteq DOMAIN receipts'
  BY Grows DEF Adds, LoopTypeOK
<1>2. pass' \in Passes' /\ pass'.seen \subseteq listed'
  <2>1. CASE pass' = pass
    <3>1. pass \in [on : BOOLEAN, head : Nat, artifact : Artifacts,
                    seen : SUBSET DOMAIN receipts, body : Bodies]
      BY DEF LoopTypeOK, Passes
    <3>2. pass \in [on : BOOLEAN, head : Nat, artifact : Artifacts,
                    seen : SUBSET DOMAIN receipts', body : Bodies]
      BY <1>1, <3>1
    <3>3. pass.seen \subseteq listed'
      BY DEF LoopTypeOK, Adds
    <3> QED BY <2>1, <3>2, <3>3 DEF Passes
  <2>2. CASE pass' = NoPass
    <3>1. NoPass \in [on : BOOLEAN, head : Nat, artifact : Artifacts,
                      seen : SUBSET DOMAIN receipts', body : Bodies]
      <4>1. [cf \in Elsewhere |-> "absent"] \in Bodies
        BY DEF Bodies
      <4> QED BY <4>1 DEF NoPass, Artifacts
    <3>2. NoPass.seen = {}
      BY DEF NoPass
    <3> QED BY <2>2, <3>1, <3>2 DEF Passes
  <2> QED BY <2>1, <2>2
<1>3. \A i \in VerdictsIn(DOMAIN receipts)' : \A f, g \in receipts'[i].findings : f.id = g.id => f = g
  BY DEF IdInv, Distinct, Written
<1>4. /\ bounds' \in Bounds /\ head' \in 1..bounds'.heads /\ artifact' \in bounds'.artifacts
      /\ body' \in Bodies /\ edits' \in 0..bounds'.edits /\ outages' \in 0..bounds'.outages
  BY DEF LoopTypeOK, Adds
<1> QED BY <1>1, <1>2, <1>3, <1>4 DEF LoopTypeOK

\* The invariant holds after a receipt that fits.
LEMMA AddedKeeps ==
    ASSUME LoopInv, NEW x \in Receipts, Adds(x), Fits(x),
           \/ pass' = NoPass
           \/ pass' = pass /\ x.kind = "ruling"
           \/ pass' = pass /\ ~pass.on,
           ruler' \in [Rulers -> 0..MaxIds], \A r \in Rulers : ruler'[r] \in {0, ruler[r]}
    PROVE  LoopInv'
<1>1. LoopTypeOK /\ receipts' = Append(receipts, x) /\ receipts \in Seq(Receipts)
  BY DEF LoopInv, LoopTypeOK, Adds
<1>2. pass'.on => pass' = pass /\ x.kind = "ruling"
  BY <1>1, NoPassTyped
<1>3. listed \subseteq listed' /\ listed' \subseteq DOMAIN receipts'
  BY <1>1, Grows DEF Adds, LoopTypeOK
<1>4. IdInv'
  BY <1>1, IdGrows DEF LoopInv, Fits
<1>5. LoopTypeOK'
  BY <1>1, <1>4, TypeGrows
<1>6. ReadInv'
  BY <1>1, <1>2, ReadGrows DEF LoopInv, Adds
<1>7. SaysInv'
  BY <1>1, SaysGrows DEF LoopInv, Fits
<1>8. HeadsInv'
  <2>1. head' = head BY DEF Adds
  <2>2. x.kind = "verdict" =>
          /\ x.head \in 1..head
          /\ \A i \in DOMAIN receipts : IsVerdict(i) => receipts[i].head <= x.head
    BY DEF Fits
  <2> QED BY <1>1, <1>2, <2>1, <2>2, HeadsGrow DEF LoopInv
<1>9. ShownInv'
  BY <1>1, ShownGrows DEF LoopInv, Fits
<1>10. RuledInv'
  BY <1>1, RuledGrows DEF LoopInv, Fits
<1>11. AccountInv'
  BY <1>1, <1>3, AccountGrows DEF LoopInv, Fits
<1>12. RoundsInv'
  BY <1>1, RoundsGrow DEF LoopInv, Fits, Adds
<1>13. FateInv'
  BY <1>1, <1>3, FateGrows DEF LoopInv, Fits, Adds
<1> QED BY <1>4, <1>5, <1>6, <1>7, <1>8, <1>9, <1>10, <1>11, <1>12, <1>13 DEF LoopInv

\* What a faithful pass publishes fits.
LEMMA FaithfulFits ==
    ASSUME LoopInv, pass.on, NEW x \in Receipts, Faithful(x)
    PROVE  Fits(x)
<1> USE DEF LoopInv
<1>1. x.kind = "verdict" /\ x.source = 0 /\ x.head = pass.head
  BY DEF Faithful, Verdicts
<1>2. /\ Distinct(x.findings)
      /\ \A i \in Written : ~receipts[i].late => Agree(receipts[i].findings, x.findings)
  BY PassIds
<1>3. Says(x)
  BY PassSays
<1>4. /\ x.head \in 1..head
      /\ \A i \in DOMAIN receipts : IsVerdict(i) => receipts[i].head <= x.head
  BY <1>1 DEF HeadsInv
<1>5. AllInTime => \A f \in x.findings : f.status = "ruled" => ~BodyDerived(f)
  BY PassRuled
<1>6. \A v : /\ v = Place /\ Judges(x) /\ AllInTime
             /\ x.approve /\ x.artifact = "code" /\ x.source = 0
             => OpenElsewhere(Timely(v)) \subseteq x.addressed \cup x.deferred
  BY PassAccounts
<1>7. \A cf \in x.addressed : cf \in x.confirmed \/ \E u \in Judgments : cf \in receipts[u].confirmed
  BY PassConfirms
<1>8. \A u \in Judgments : Ends(u) /\ ~CarriedSince(u) =>
            \A f \in JudgesOwn(receipts[u].findings) : OpenBlocker(f) =>
                \/ RuledSince(u, f.id)
                \/ x.step = "awaiting_ruling" /\ StillOpen(x.findings, f.id)
  BY PassRounds
<1>9. \A w \in Written : ~receipts[w].late /\ ~CarriedSince(w) =>
            \A f \in JudgesOwn(receipts[w].findings) : OpenBlocker(f) =>
                \/ FixedSince(w, f.id) \/ f.id \in x.fixed
                \/ CarriedForward(f.id)
                \/ StillOpen(x.findings, f.id)
  BY PassFate
<1> QED BY <1>1, <1>2, <1>3, <1>4, <1>5, <1>6, <1>7, <1>8, <1>9 DEF Fits

\* A verdict but for whether it waits in the spool.
Alike(w, x) ==
    /\ x.kind = w.kind /\ x.step = w.step /\ x.head = w.head /\ x.artifact = w.artifact
    /\ (x.approve <=> w.approve) /\ x.findings = w.findings /\ x.fixed = w.fixed
    /\ x.confirmed = w.confirmed /\ x.addressed = w.addressed /\ x.deferred = w.deferred
    /\ x.source = w.source

LEMMA FaithfulAlike ==
    ASSUME NEW w, NEW x \in Verdicts, Faithful(w), Alike(w, x)
    PROVE  Faithful(x)
<1>1. Fates(x)
  BY DEF Faithful, Fates, Alike
<1>2. Accounts(x)
  BY DEF Faithful, Accounts, Alike
<1> QED BY <1>1, <1>2 DEF Faithful, Alike

LEMMA LateVerdict ==
    ASSUME NEW w \in Verdicts
    PROVE  [w EXCEPT !.late = TRUE] \in Verdicts /\ Alike(w, [w EXCEPT !.late = TRUE])
             /\ [w EXCEPT !.late = TRUE].late
  BY DEF Verdicts, Alike

\* A publication adds the verdict, in time or late.
LEMMA PublishAdds ==
    ASSUME LoopTypeOK, NEW w \in Verdicts, Publish(w)
    PROVE  /\ \E x \in Verdicts : Adds(x) /\ Alike(w, x)
           /\ pass' = NoPass /\ ruler' = ruler
           /\ \A f \in w.findings : f.id <= MaxIds
<1>1. /\ pass' = NoPass /\ UNCHANGED <<bounds, head, artifact, body, ruler, edits>>
      /\ \A f \in w.findings : f.id <= MaxIds
  BY DEF Publish
<1>2. w.kind # "ruling" /\ [w EXCEPT !.late = TRUE].late
  BY LateVerdict DEF Verdicts
<1>3. CASE Attested(w)
  <2>1. Adds(w)
    BY <1>1, <1>3 DEF Attested, Adds, Place, LoopTypeOK
  <2>2. Alike(w, w)
    BY DEF Alike
  <2> QED BY <1>1, <2>1, <2>2
<1>4. CASE Unattested([w EXCEPT !.late = TRUE])
  <2> DEFINE x == [w EXCEPT !.late = TRUE]
  <2>1. receipts' = Append(receipts, x) /\ x.late
    BY <1>2, <1>4 DEF Unattested
  <2>2. listed \subseteq listed' /\ listed' \subseteq listed \cup {Place}
    BY <1>4 DEF Unattested, Place
  <2>3. outages' \in 0..bounds.outages
    <3>1. outages \in Nat /\ bounds.outages \in Nat
      BY LoopAssumption DEF LoopTypeOK
    <3> QED BY <1>4, <3>1 DEF Unattested
  <2>4. x \in Verdicts /\ Alike(w, x)
    BY LateVerdict
  <2> HIDE DEF x
  <2>5. Adds(x)
    BY <1>1, <2>1, <2>2, <2>3 DEF Adds
  <2> QED BY <1>1, <2>4, <2>5
<1> QED BY <1>1, <1>3, <1>4 DEF Publish

\* A pass publishes a verdict that owes what it read.
LEMMA PublishKeeps ==
    ASSUME LoopInv, pass.on, NEW w, Faithful(w), Publish(w)
    PROVE  LoopInv'
<1>1. LoopTypeOK /\ w \in Verdicts
  BY DEF LoopInv, Faithful
<1>2. PICK x \in Verdicts : Adds(x) /\ Alike(w, x)
  BY <1>1, PublishAdds
<1>3. pass' = NoPass /\ ruler' = ruler
  BY <1>1, PublishAdds
<1>4. Faithful(x) /\ x \in Receipts
  BY <1>2, FaithfulAlike DEF Receipts
<1>5. Fits(x)
  BY <1>4, FaithfulFits
<1>6. ruler' \in [Rulers -> 0..MaxIds] /\ \A r \in Rulers : ruler'[r] \in {0, ruler[r]}
  BY <1>1, <1>3 DEF LoopTypeOK
<1> QED BY <1>2, <1>3, <1>4, <1>5, <1>6, AddedKeeps

LEMMA AwaitKeeps ==
    ASSUME LoopInv, Await
    PROVE  LoopInv'
<1> DEFINE w == [Verdict("awaiting_ruling", 0, Recomputed(Earlier)) EXCEPT !.approve = FALSE]
<1>1. pass.on /\ NextStep(Seen) = "awaiting_ruling" /\ Publish(w)
  BY DEF Await, Loops
<1>2. LoopTypeOK /\ Follows(Earlier)
  BY EarlierIsFollowed DEF LoopInv
<1>3. \A f \in w.findings : f.id <= MaxIds
  BY <1>1 DEF Publish
<1>4. Faithful(w)
  BY <1>1, <1>2, <1>3, AwaitFaithful
<1> HIDE DEF w
<1> QED BY <1>1, <1>4, PublishKeeps

LEMMA CloseWithoutJudgeKeeps ==
    ASSUME LoopInv, CloseWithoutJudge
    PROVE  LoopInv'
<1> DEFINE F == Recomputed(Ruled(Earlier))
           C == Confirmed({}, {})
<1>1. PICK w : /\ w = [Verdict("closure", 0, F) EXCEPT !.addressed = C, !.deferred = Deferred(F)]
               /\ Publish(w)
  BY DEF CloseWithoutJudge
<1>2. pass.on /\ WithoutJudge
  BY DEF CloseWithoutJudge, Loops
<1>3. F = Recomputed(Ruled(Earlier)) /\ C = Confirmed({}, {})
  OBVIOUS
<1> HIDE DEF F, C
<1>4. w = VerdictOf("closure", 0, F, Approves(F), FALSE, {}, {}, C, Deferred(F))
  BY <1>1 DEF Verdict, VerdictOf
<1>5. LoopTypeOK /\ Follows(Earlier)
  BY EarlierIsFollowed DEF LoopInv
<1>6. \A f \in w.findings : f.id <= MaxIds
  BY <1>1 DEF Publish
<1>7. Faithful(w)
  BY <1>2, <1>3, <1>4, <1>5, <1>6, CloseFaithful
<1> QED BY <1>1, <1>2, <1>7, PublishKeeps

LEMMA JudgeRoundKeeps ==
    ASSUME LoopInv, JudgeRound
    PROVE  LoopInv'
<1> DEFINE step == NextStep(Seen)
           round == IF step = "closure" THEN 0 ELSE Round(Seen)
<1>1. pass.on /\ step # "awaiting_ruling" /\ LoopTypeOK /\ Follows(Earlier)
  BY EarlierIsFollowed DEF JudgeRound, Loops, LoopInv
<1>2. step \in {"round", "closure"} /\ round \in 0..3
  BY <1>1, RoundsTyped
<1>3. PICK fixed \in SUBSET {f.id : f \in {g \in JudgesOwn(Earlier) : IsOpen(g)}},
           again \in SUBSET {f.id : f \in {g \in JudgesOwn(Earlier) : g.status = "fixed"}},
           cfFixed \in SUBSET Claimed, cfDenied \in SUBSET Claimed :
         \/ Publish(Finished(step, round, fixed, again, {}, cfFixed, cfDenied))
         \/ \E class \in bounds.proposals, inside \in BOOLEAN :
              Publish(Finished(step, round, fixed, again,
                               {NewFinding(NewClass(step, round, class, inside))},
                               cfFixed, cfDenied))
  BY DEF JudgeRound
<1>4. bounds.proposals \subseteq Classes
  BY <1>1, LoopAssumption DEF LoopTypeOK
<1> HIDE DEF step, round
<1>5. PICK new : /\ new = {} \/ \E class \in Classes : new = {NewFinding(class)}
                 /\ Publish(Finished(step, round, fixed, again, new, cfFixed, cfDenied))
  <2>1. CASE Publish(Finished(step, round, fixed, again, {}, cfFixed, cfDenied))
    BY <2>1
  <2>2. CASE \E class \in bounds.proposals, inside \in BOOLEAN :
              Publish(Finished(step, round, fixed, again,
                               {NewFinding(NewClass(step, round, class, inside))},
                               cfFixed, cfDenied))
    <3>1. PICK class \in bounds.proposals, inside \in BOOLEAN :
              Publish(Finished(step, round, fixed, again,
                               {NewFinding(NewClass(step, round, class, inside))},
                               cfFixed, cfDenied))
      BY <2>2
    <3>2. NewClass(step, round, class, inside) \in Classes
      BY <1>4, <3>1, NewClassTyped
    <3> QED BY <3>1, <3>2
  <2> QED BY <1>3, <2>1, <2>2
<1> DEFINE C == Confirmed(cfFixed, cfDenied)
           all == JudgedList(step, fixed, again, new, C)
<1>6. C = Confirmed(cfFixed, cfDenied) /\ all = JudgedList(step, fixed, again, new, C)
  OBVIOUS
<1> HIDE DEF C, all
<1>7. PICK w : w = Finished(step, round, fixed, again, new, cfFixed, cfDenied) /\ Publish(w)
  BY <1>5
<1>8. w = VerdictOf(step, round, all, Approves(all), TRUE, fixed, cfFixed, C, Deferred(all))
  <2>1. w = [Verdict(step, round, all) EXCEPT
                !.judges = TRUE, !.fixed = fixed, !.confirmed = cfFixed,
                !.addressed = C, !.deferred = Deferred(all)]
    BY <1>6, <1>7 DEF Finished, JudgedList, Closing
  <2> QED BY <2>1 DEF Verdict, VerdictOf
<1>9. \A f \in w.findings : f.id <= MaxIds
  BY <1>7 DEF Publish
<1>10. NextStep(Seen) # "awaiting_ruling"
  BY <1>1 DEF step
<1>11. Faithful(w)
  BY <1>1, <1>2, <1>5, <1>6, <1>8, <1>9, <1>10, RoundFaithful
<1> QED BY <1>1, <1>7, <1>11, PublishKeeps

\* A verdict on form holds no finding and counts for no round.
LEMMA JudgeFormKeeps ==
    ASSUME LoopInv, JudgeForm
    PROVE  LoopInv'
<1>1. PICK approve \in BOOLEAN : Publish([Verdict("mechanical", 0, {}) EXCEPT !.approve = approve])
  BY DEF JudgeForm
<1>2. LoopTypeOK /\ pass.on
  BY DEF LoopInv, JudgeForm
<1>2a. PICK w : w = [Verdict("mechanical", 0, {}) EXCEPT !.approve = approve]
  OBVIOUS
<1>3. w = [kind |-> "verdict", step |-> "mechanical", round |-> 0, head |-> pass.head,
           artifact |-> pass.artifact, approve |-> approve, findings |-> {},
           judges |-> FALSE, fixed |-> {}, confirmed |-> {}, addressed |-> {},
           deferred |-> {}, source |-> 0, late |-> FALSE]
  <2>1. Capped({}) = {}
    BY CappedKeepsOpen
  <2> QED BY <1>2a, <2>1 DEF Verdict
<1>4. w \in Verdicts /\ w.kind = "verdict" /\ w.step = "mechanical" /\ w.findings = {} /\ w.head = pass.head
  <2>1. w \in Verdicts
    BY <1>2, <1>3, PassTyped DEF Verdicts
  <2> QED BY <1>3, <2>1
<1>5. Publish(w)
  BY <1>1, <1>2a
<1>6. PICK x \in Verdicts : Adds(x) /\ Alike(w, x)
  BY <1>2, <1>4, <1>5, PublishAdds
<1>7. pass' = NoPass /\ ruler' = ruler
  BY <1>2, <1>4, <1>5, PublishAdds
<1>8. x.kind = "verdict" /\ x.step = "mechanical" /\ x.findings = {} /\ x.head = pass.head
  BY <1>4, <1>6 DEF Alike
<1>9. /\ x.head \in 1..head
      /\ \A i \in DOMAIN receipts : IsVerdict(i) => receipts[i].head <= x.head
  BY <1>2, <1>8 DEF LoopInv, HeadsInv
<1>10. Fits(x)
  <2>1. Says(x)
    BY <1>8 DEF Says
  <2>2. ~Reads(x) /\ ~Judges(x)
    BY <1>8 DEF Reads, Judges
  <2> QED BY <1>8, <1>9, <2>1, <2>2 DEF Fits
<1>11. ruler' \in [Rulers -> 0..MaxIds] /\ \A r \in Rulers : ruler'[r] \in {0, ruler[r]}
  BY <1>2, <1>7 DEF LoopTypeOK
<1> QED BY <1>6, <1>7, <1>10, <1>11, AddedKeeps DEF Receipts

-----------------------------------------------------------------------------
(* An approval carried to a new head.                                      *)

\* The verdict s at the head of the pull request.
AtNewHead(s, x) ==
    /\ x.kind = "verdict" /\ x.step = receipts[s].step /\ x.head = head
    /\ (x.approve <=> receipts[s].approve) /\ x.findings = receipts[s].findings
    /\ x.confirmed = receipts[s].confirmed /\ x.addressed = receipts[s].addressed
    /\ x.source = s

\* It fits: the approval it repeats had no open blocker.
LEMMA CarriedFits ==
    ASSUME LoopInv, NEW s \in DOMAIN receipts, IsVerdict(s), receipts[s].approve, ~receipts[s].late,
           ~bounds.asked => \A i \in DOMAIN receipts : IsVerdict(i) => i <= s,
           NEW x, AtNewHead(s, x)
    PROVE  Fits(x)
<1>1. /\ LoopTypeOK /\ IdInv /\ SaysInv /\ HeadsInv /\ RuledInv /\ AccountInv /\ RoundsInv /\ FateInv
      /\ (\A i \in DOMAIN receipts : i \in Nat) /\ s # 0
  BY DEF LoopInv, LoopTypeOK
<1>2. Says(receipts[s]) /\ Says(x)
  BY <1>1 DEF SaysInv, Says, AtNewHead
<1>3. Reads(x) => s \in Written
  BY DEF Reads, AtNewHead, Written, VerdictsIn, IsVerdict
<1>4. Judges(x) => s \in Judgments
  BY <1>3 DEF Judges, Reads, AtNewHead, Judgments, Judging, Written
<1>5. Reads(x) => /\ Distinct(x.findings)
                  /\ \A i \in Written : ~receipts[i].late => Agree(receipts[i].findings, x.findings)
  <2> SUFFICES ASSUME Reads(x)
               PROVE  /\ Distinct(receipts[s].findings)
                      /\ \A i \in Written : ~receipts[i].late => Agree(receipts[i].findings, receipts[s].findings)
    BY DEF AtNewHead
  <2>1. Distinct(receipts[s].findings)
    BY <1>1, <1>3 DEF IdInv
  <2>2. ASSUME NEW i \in Written, ~receipts[i].late
        PROVE  Agree(receipts[i].findings, receipts[s].findings)
    <3>1. i \in Nat /\ s \in Nat /\ i \in DOMAIN receipts
      BY <1>1, WrittenIs
    <3>2. CASE i < s
      BY <1>1, <1>3, <2>2, <3>2 DEF IdInv
    <3>3. CASE i = s
      BY <2>1, <3>3 DEF Agree, Distinct
    <3>4. CASE s < i
      BY <1>1, <1>3, <3>4 DEF IdInv, Agree
    <3> QED BY <3>1, <3>2, <3>3, <3>4
  <2> QED BY <2>1, <2>2
<1>6. /\ x.head \in 1..head
      /\ \A i \in DOMAIN receipts : IsVerdict(i) => receipts[i].head <= x.head
  <2>1. head \in 1..head
    BY <1>1, LoopAssumption DEF LoopTypeOK
  <2>2. \A i \in DOMAIN receipts : IsVerdict(i) => receipts[i].head \in 1..head
    BY <1>1 DEF HeadsInv
  <2> QED BY <2>1, <2>2 DEF AtNewHead
<1>7. Reads(x) /\ AllInTime => \A f \in x.findings : f.status = "ruled" => ~BodyDerived(f)
  BY <1>1, <1>3 DEF RuledInv, AllInTime, InTime, Written, AtNewHead
<1>8. Judges(x) => \A cf \in x.addressed :
            cf \in x.confirmed \/ \E u \in Judgments : cf \in receipts[u].confirmed
  BY <1>1, <1>4 DEF AccountInv, AtNewHead
<1>9. \A f \in receipts[s].findings : ~OpenBlocker(f)
  BY <1>2 DEF Says
<1>10. Reads(x) =>
          \A u \in Judgments : Ends(u) /\ ~CarriedSince(u) /\ ~Crosses(x, u) =>
            \A f \in JudgesOwn(receipts[u].findings) : OpenBlocker(f) => RuledSince(u, f.id)
  <2> SUFFICES ASSUME Reads(x), NEW u \in Judgments, Ends(u), ~CarriedSince(u), ~Crosses(x, u),
                      NEW f \in JudgesOwn(receipts[u].findings), OpenBlocker(f)
               PROVE  RuledSince(u, f.id)
    OBVIOUS
  <2>1. u \in DOMAIN receipts /\ IsVerdict(u) /\ u \in Nat /\ s \in Nat /\ f \in receipts[u].findings
    BY <1>1 DEF Judgments, Judging, VerdictsIn, IsVerdict, JudgesOwn
  <2>2. u # s
    BY <1>9, <2>1
  <2>3. u < s
    <3>1. CASE bounds.asked
      <4>1. ~(s < u)
        BY <1>1, <3>1 DEF Crosses, AtNewHead
      <4> QED BY <2>1, <2>2, <4>1
    <3>2. CASE ~bounds.asked
      BY <2>1, <2>2, <3>2
    <3> QED BY <3>1, <3>2
  <2>4. receipts[s].step # "awaiting_ruling"
    BY <1>2 DEF Says
  <2>5. RuledBetween(u, s, f.id)
    <3>1. ~CarriedOver(u, s)
      BY DEF CarriedOver, CarriedSince, Written
    <3> QED BY <1>1, <1>3, <2>3, <2>4, <3>1 DEF RoundsInv
  <2> QED BY <2>5 DEF RuledBetween, RuledSince
<1>11. Reads(x) =>
          \A w \in Written : ~receipts[w].late /\ ~CarriedSince(w) /\ ~Crosses(x, w) =>
            \A f \in JudgesOwn(receipts[w].findings) : OpenBlocker(f) =>
                FixedSince(w, f.id) \/ CarriedForward(f.id) \/ StillOpen(x.findings, f.id)
  <2> SUFFICES ASSUME Reads(x), NEW w \in Written, ~receipts[w].late, ~CarriedSince(w), ~Crosses(x, w),
                      NEW f \in JudgesOwn(receipts[w].findings), OpenBlocker(f)
               PROVE  FixedSince(w, f.id) \/ CarriedForward(f.id) \/ StillOpen(receipts[s].findings, f.id)
    BY DEF AtNewHead
  <2>1. w \in DOMAIN receipts /\ IsVerdict(w) /\ w \in Nat /\ s \in Nat /\ f \in receipts[w].findings
    BY <1>1, WrittenIs DEF IsVerdict, JudgesOwn
  <2>2. w # s
    BY <1>9, <2>1
  <2>3. w < s
    <3>1. CASE bounds.asked
      <4>1. ~(s < w)
        BY <1>1, <3>1 DEF Crosses, AtNewHead
      <4> QED BY <2>1, <2>2, <4>1
    <3>2. CASE ~bounds.asked
      BY <2>1, <2>2, <3>2
    <3> QED BY <3>1, <3>2
  <2>4. FixedBetween(w, s, f.id) \/ CarriedForward(f.id) \/ StillOpen(receipts[s].findings, f.id)
    <3>1. ~CarriedOver(w, s)
      BY DEF CarriedOver, CarriedSince, Written
    <3> QED BY <1>1, <1>3, <2>3, <3>1 DEF FateInv
  <2> QED BY <2>4 DEF FixedBetween, FixedSince
<1>12. x.kind # "ruling" /\ x.source # 0
  BY <1>1 DEF AtNewHead
<1> QED BY <1>2, <1>5, <1>6, <1>7, <1>8, <1>10, <1>11, <1>12 DEF Fits

\* No verdict is newer than the approval a poll carries.
LEMMA CarriedIsNewest ==
    ASSUME LoopTypeOK, HeadsInv, NEW judged, NEW s,
           judged = Greatest({h \in 1..(head - 1) :
                       {i \in DOMAIN receipts : IsVerdict(i) /\ receipts[i].head = h} # {}}),
           judged # 0,
           s = Greatest({i \in DOMAIN receipts : IsVerdict(i) /\ receipts[i].head = judged})
    PROVE  /\ s \in DOMAIN receipts /\ IsVerdict(s)
           /\ {i \in DOMAIN receipts : IsVerdict(i) /\ receipts[i].head = head} = {} =>
                \A i \in DOMAIN receipts : IsVerdict(i) => i <= s
<1> DEFINE On(h) == {i \in DOMAIN receipts : IsVerdict(i) /\ receipts[i].head = h}
           H == {h \in 1..(head - 1) : On(h) # {}}
<1>1. head \in Nat /\ receipts \in Seq(Receipts) /\ \A i \in DOMAIN receipts : i \in Nat
  BY LoopAssumption DEF LoopTypeOK
<1>2. judged = Greatest(H) /\ s = Greatest(On(judged))
  OBVIOUS
<1>3. H \in SUBSET Nat /\ head \in Nat /\ \A h \in H : h <= head
  BY <1>1
<1>4. judged \in H /\ \A h \in H : h <= judged
  <2> HIDE DEF H
  <2>1. H # {}
    BY <1>2 DEF Greatest
  <2> QED BY <1>2, <1>3, <2>1, GreatestIn
<1>5. On(judged) \in SUBSET DOMAIN receipts /\ On(judged) # {} /\ judged \in 1..(head - 1)
  BY <1>4
<1>6. s \in On(judged) /\ \A i \in On(judged) : i <= s
  <2> HIDE DEF On
  <2> QED BY <1>1, <1>2, <1>5, NewestIn
<1>7. ASSUME On(head) = {}, NEW i \in DOMAIN receipts, IsVerdict(i)
      PROVE  i <= s
  <2>1. receipts[i].head \in 1..head /\ receipts[i].head # head
    BY <1>7 DEF HeadsInv
  <2>2. receipts[i].head \in H
    BY <1>1, <1>7, <2>1
  <2>3. receipts[i].head <= judged
    BY <1>4, <2>2
  <2>4. s \in DOMAIN receipts /\ IsVerdict(s) /\ receipts[s].head = judged
    BY <1>6
  <2>5. CASE receipts[i].head = judged
    BY <1>6, <1>7, <2>5
  <2>6. CASE receipts[i].head # judged
    <3>1. ~(s < i)
      BY <1>5, <1>7, <2>1, <2>3, <2>4, <2>6 DEF HeadsInv
    <3> QED BY <1>1, <2>4, <3>1
  <2> QED BY <2>5, <2>6
<1> QED BY <1>6, <1>7

LEMMA CarryKeeps ==
    ASSUME LoopInv, Carry
    PROVE  LoopInv'
<1> DEFINE on(h) == {i \in DOMAIN receipts : IsVerdict(i) /\ receipts[i].head = h}
           judged == Greatest({h \in 1..(head - 1) : on(h) # {}})
<1>1. PICK s : /\ s = Greatest(on(judged))
               /\ on(head) # {} => bounds.asked
               /\ judged # 0 /\ s \in listed
               /\ receipts[s].approve /\ ~receipts[s].late
               /\ Publish([receipts[s] EXCEPT !.head = head, !.source = s])
  BY DEF Carry, IsVerdict
<1>2. LoopTypeOK /\ HeadsInv /\ ~pass.on /\ listed \subseteq DOMAIN receipts
  BY DEF LoopInv, Carry, LoopTypeOK
<1>3. /\ s \in DOMAIN receipts /\ IsVerdict(s)
      /\ ~bounds.asked => \A i \in DOMAIN receipts : IsVerdict(i) => i <= s
  BY <1>1, <1>2, CarriedIsNewest
<1>4. PICK w : w = [receipts[s] EXCEPT !.head = head, !.source = s] /\ Publish(w)
  BY <1>1
<1>5. receipts[s] \in Verdicts /\ head \in Nat /\ s \in Nat /\ s # 0
  BY <1>2, <1>3, VerdictsTyped, LoopAssumption DEF LoopTypeOK
<1>6. w \in Verdicts
  BY <1>4, <1>5 DEF Verdicts
<1>7. AtNewHead(s, w)
  BY <1>4, <1>5 DEF Verdicts, AtNewHead
<1>8. PICK x \in Verdicts : Adds(x) /\ Alike(w, x)
  BY <1>2, <1>4, <1>6, PublishAdds
<1>9. pass' = NoPass /\ ruler' = ruler
  BY <1>2, <1>4, <1>6, PublishAdds
<1>10. AtNewHead(s, x) /\ x \in Receipts
  BY <1>7, <1>8 DEF AtNewHead, Alike, Receipts, Verdicts
<1>11. Fits(x)
  BY <1>1, <1>3, <1>10, CarriedFits
<1>12. ruler' \in [Rulers -> 0..MaxIds] /\ \A r \in Rulers : ruler'[r] \in {0, ruler[r]}
  BY <1>2, <1>9 DEF LoopTypeOK
<1> QED BY <1>8, <1>9, <1>10, <1>11, <1>12, AddedKeeps

-----------------------------------------------------------------------------
(* Approvals of others, and rulings.                                       *)

LEMMA OthersApproveKeeps ==
    ASSUME LoopInv, NEW cf \in Elsewhere, OthersApprove(cf)
    PROVE  LoopInv'
<1>1. /\ LoopTypeOK /\ pass' = pass /\ ~pass.on /\ ruler' = ruler
      /\ UNCHANGED <<bounds, head, artifact, body, edits>>
  BY DEF LoopInv, OthersApprove
<1>2. PICK x \in Others : Adds(x)
  <2>1. CASE Attested(Opening(cf))
    <3>1. PICK x : x = Opening(cf)
      OBVIOUS
    <3>2. x \in Others
      BY <3>1 DEF Opening, Others
    <3>3. Adds(x)
      BY <1>1, <2>1, <3>1 DEF Attested, Adds, Place, LoopTypeOK
    <3> QED BY <3>2, <3>3
  <2>2. CASE Unattested([Opening(cf) EXCEPT !.late = TRUE])
    <3>1. PICK x : x = [Opening(cf) EXCEPT !.late = TRUE] /\ Unattested(x)
      BY <2>2
    <3>2. x = [kind |-> "other", cf |-> cf, late |-> TRUE]
      BY <3>1 DEF Opening
    <3>3. x \in Others /\ x.late
      BY <3>2 DEF Others
    <3>4. outages' \in 0..bounds.outages
      <4>1. outages \in Nat /\ bounds.outages \in Nat
        BY <1>1, LoopAssumption DEF LoopTypeOK
      <4> QED BY <3>1, <4>1 DEF Unattested
    <3>5. Adds(x)
      BY <1>1, <3>1, <3>3, <3>4 DEF Unattested, Adds, Place
    <3> QED BY <3>3, <3>5
  <2> QED BY <2>1, <2>2 DEF OthersApprove
<1>3. x \in Receipts /\ x.kind = "other"
  BY <1>2 DEF Receipts, Others
<1>4. Fits(x)
  BY <1>3 DEF Fits, Reads, Judges
<1>5. ruler' \in [Rulers -> 0..MaxIds] /\ \A r \in Rulers : ruler'[r] \in {0, ruler[r]}
  BY <1>1 DEF LoopTypeOK
<1> QED BY <1>1, <1>2, <1>3, <1>4, <1>5, AddedKeeps

LEMMA RuleKeeps ==
    ASSUME LoopInv, NEW r \in Rulers, Rule(r)
    PROVE  LoopInv'
<1>1. /\ LoopTypeOK /\ ShownInv /\ pass' = pass /\ ruler' = [ruler EXCEPT ![r] = 0]
      /\ UNCHANGED <<bounds, head, artifact, body, edits>> /\ ruler[r] # 0
  BY DEF LoopInv, Rule
<1>2. PICK x : /\ \E ruling \in {"fix", "carry_forward"} :
                      x = [kind |-> "ruling", finding |-> ruler[r], ruling |-> ruling]
               /\ Attested(x) \/ Unattested(x)
  BY DEF Rule
<1>3. x \in Rulings /\ x.kind = "ruling" /\ x.finding = ruler[r] /\ x \in Receipts
  <2>1. ruler[r] \in 1..MaxIds
    BY <1>1, LoopAssumption DEF LoopTypeOK
  <2> QED BY <1>2, <2>1 DEF Rulings, Receipts
<1>4. Adds(x)
  <2>1. outages' \in 0..bounds.outages
    <3>1. outages \in 0..bounds.outages /\ bounds.outages \in Nat
      BY <1>1, LoopAssumption DEF LoopTypeOK
    <3> QED BY <1>2, <3>1 DEF Attested, Unattested
  <2> QED BY <1>1, <1>2, <1>3, <2>1 DEF Attested, Unattested, Adds, Place
<1>5. Fits(x)
  <2>1. WasShown(x.finding)
    BY <1>1, <1>3 DEF ShownInv
  <2> QED BY <1>3, <2>1 DEF Fits, Reads, Judges
<1>6. ruler' \in [Rulers -> 0..MaxIds] /\ \A q \in Rulers : ruler'[q] \in {0, ruler[q]}
  BY <1>1, LoopAssumption DEF LoopTypeOK
<1> QED BY <1>1, <1>3, <1>4, <1>5, <1>6, AddedKeeps

-----------------------------------------------------------------------------
(* Steps that add no receipt.                                              *)

\* What a pass holds once it has read.
Loaded == [on |-> TRUE, head |-> head, artifact |-> artifact, seen |-> listed, body |-> body]

\* Nothing is added: heads, the body, passes, rulers and replays move.
Quiet ==
    /\ receipts' = receipts /\ bounds' = bounds /\ outages' = outages
    /\ listed \subseteq listed' /\ listed' \subseteq DOMAIN receipts
    /\ head' \in 1..bounds.heads /\ head <= head' /\ artifact' \in bounds.artifacts
    /\ body' \in Bodies /\ edits' \in 0..bounds.edits
    /\ \/ pass' = pass
       \/ pass' = NoPass
       \/ pass' = Loaded
    /\ ruler' \in [Rulers -> 0..MaxIds]
    /\ \A r \in Rulers : ruler'[r] # 0 => ruler'[r] = ruler[r] \/ WasShown(ruler'[r])

LEMMA QuietPassTyped ==
    ASSUME LoopTypeOK, Quiet
    PROVE  pass' \in Passes' /\ pass'.seen \subseteq listed'
<1>1. /\ receipts \in Seq(Receipts) /\ DOMAIN receipts' = DOMAIN receipts
      /\ head \in Nat /\ artifact \in Artifacts /\ body \in Bodies
      /\ listed \subseteq DOMAIN receipts /\ listed \subseteq listed'
  <2>1. /\ bounds.artifacts \subseteq Artifacts /\ artifact \in bounds.artifacts
        /\ bounds.heads \in Nat /\ head \in 1..bounds.heads
    BY LoopAssumption DEF LoopTypeOK
  <2> QED BY <2>1 DEF LoopTypeOK, Quiet
<1>2. CASE pass' = pass
  BY <1>1, <1>2 DEF Passes, LoopTypeOK
<1>3. CASE pass' = NoPass
  BY <1>1, <1>3, NoPassTyped DEF Passes
<1>4. CASE pass' = Loaded
  <2>1. Loaded \in [on : BOOLEAN, head : Nat, artifact : Artifacts,
                    seen : SUBSET DOMAIN receipts, body : Bodies]
    BY <1>1 DEF Loaded
  <2>2. Loaded.seen = listed
    BY DEF Loaded
  <2> QED BY <1>1, <1>4, <2>1, <2>2 DEF Passes
<1> QED BY <1>2, <1>3, <1>4 DEF Quiet

LEMMA QuietTyped ==
    ASSUME LoopTypeOK, Quiet
    PROVE  LoopTypeOK'
<1>1. pass' \in Passes' /\ pass'.seen \subseteq listed'
  BY QuietPassTyped
<1>2. /\ bounds' \in Bounds /\ head' \in 1..bounds'.heads /\ artifact' \in bounds'.artifacts
      /\ body' \in Bodies /\ receipts' \in Seq(Receipts) /\ listed' \subseteq DOMAIN receipts'
      /\ ruler' \in [Rulers -> 0..MaxIds] /\ edits' \in 0..bounds'.edits
      /\ outages' \in 0..bounds'.outages
  BY DEF LoopTypeOK, Quiet
<1>3. \A i \in VerdictsIn(DOMAIN receipts)' : \A f, g \in receipts'[i].findings : f.id = g.id => f = g
  BY DEF LoopTypeOK, Quiet, VerdictsIn
<1> QED BY <1>1, <1>2, <1>3 DEF LoopTypeOK

LEMMA QuietReads ==
    ASSUME LoopTypeOK, ReadInv, HeadsInv, Quiet
    PROVE  ReadInv' /\ HeadsInv'
<1>1. /\ receipts' = receipts /\ listed \subseteq listed' /\ head \in Nat /\ head' \in Nat
      /\ head <= head' /\ head \in 1..head
  <2>1. bounds.heads \in Nat
    BY LoopAssumption DEF LoopTypeOK
  <2> QED BY <2>1 DEF LoopTypeOK, Quiet
<1>2. \A i \in DOMAIN receipts : IsVerdict(i) => receipts[i].head \in 1..head
  BY DEF HeadsInv
<1>3. /\ pass'.on => pass'.head \in 1..head
      /\ pass'.on => \A i \in DOMAIN receipts : IsVerdict(i) => receipts[i].head <= pass'.head
      /\ pass'.on => (pass.on /\ pass' = pass) \/ pass'.seen = listed
  <2>1. CASE pass' = pass
    BY <2>1 DEF HeadsInv
  <2>2. CASE pass' = NoPass
    BY <2>2 DEF NoPass
  <2>3. CASE pass' = Loaded
    <3>1. pass'.head = head /\ pass'.seen = listed
      BY <2>3 DEF Loaded
    <3> QED BY <1>1, <1>2, <3>1
  <2> QED BY <2>1, <2>2, <2>3 DEF Quiet
<1>4. ReadInv'
  BY <1>1, <1>3 DEF ReadInv
<1>5. \A i \in DOMAIN receipts : IsVerdict(i) => receipts[i].head \in 1..head'
  BY <1>1, <1>2
<1>6. pass'.on => pass'.head \in 1..head'
  BY <1>1, <1>3
<1>7. HeadsInv'
  BY <1>1, <1>3, <1>5, <1>6 DEF HeadsInv, IsVerdict
<1> QED BY <1>4, <1>7

\* The invariant holds after a step that adds no receipt.
LEMMA QuietKeeps ==
    ASSUME LoopInv, Quiet
    PROVE  LoopInv'
<1>1. /\ LoopTypeOK /\ IdInv /\ ReadInv /\ SaysInv /\ HeadsInv /\ ShownInv /\ RuledInv /\ AccountInv
      /\ RoundsInv /\ FateInv
  BY DEF LoopInv
<1>2. receipts' = receipts /\ bounds' = bounds /\ listed \subseteq listed' /\ listed' \subseteq DOMAIN receipts
  BY DEF Quiet
<1>3. LoopTypeOK' /\ ReadInv' /\ HeadsInv'
  BY <1>1, QuietTyped, QuietReads
<1>4. Written' = Written /\ Judgments' = Judgments
  BY <1>2 DEF Written, Judgments, Judging, VerdictsIn
<1>5. IdInv'
  BY <1>1, <1>2, <1>4 DEF IdInv
<1>6. SaysInv'
  BY <1>1, <1>2 DEF SaysInv, IsVerdict
<1>7. ShownInv'
  <2>1. \A id : WasShown(id) => WasShown(id)'
    BY <1>2, <1>4 DEF WasShown
  <2>2. \A i \in DOMAIN receipts' : receipts'[i].kind = "ruling" => WasShown(receipts'[i].finding)
    BY <1>1, <1>2 DEF ShownInv
  <2>3. \A r \in Rulers : ruler'[r] # 0 => WasShown(ruler'[r])
    BY <1>1 DEF ShownInv, Quiet
  <2>4. \A i \in DOMAIN receipts' : receipts'[i].kind = "ruling" =>
            \E k \in Written' : \E f \in receipts'[k].findings : f.id = receipts'[i].finding /\ ~BodyDerived(f)
    BY <1>2, <1>4, <2>2 DEF WasShown
  <2>5. \A r \in Rulers : ruler'[r] # 0 =>
            \E k \in Written' : \E f \in receipts'[k].findings : f.id = ruler'[r] /\ ~BodyDerived(f)
    BY <1>2, <1>4, <2>3 DEF WasShown
  <2> QED BY <2>4, <2>5 DEF ShownInv, WasShown
<1>8. \A i : InTime(i)' <=> InTime(i)
  BY <1>2 DEF InTime, VerdictsIn
<1>9. RuledInv'
  BY <1>1, <1>2, <1>4, <1>8 DEF RuledInv
<1>10. AccountInv'
  <2>1. ASSUME NEW v \in Judgments, InTime(v),
               receipts[v].approve, receipts[v].artifact = "code", receipts[v].source = 0
        PROVE  OpenElsewhere(Timely(v))' \subseteq receipts[v].addressed \cup receipts[v].deferred
    <3>1. OpenElsewhere(Timely(v)) \subseteq receipts[v].addressed \cup receipts[v].deferred
      BY <1>1, <2>1 DEF AccountInv
    <3>2. listed \subseteq DOMAIN receipts
      BY <1>1 DEF LoopTypeOK
    <3>3. OpenElsewhere(Timely(v))' \subseteq OpenElsewhere(Timely(v))
      BY <1>1, <1>2, <3>2, OpenBefore
    <3> QED BY <3>1, <3>3
  <2>2. \A v \in Judgments : \A cf \in receipts[v].addressed :
            \E u \in Judgments : u <= v /\ cf \in receipts[u].confirmed
    BY <1>1 DEF AccountInv
  <2> QED BY <1>2, <1>4, <1>8, <2>1, <2>2 DEF AccountInv
<1>11. RoundsInv'
  BY <1>1, <1>2, <1>4 DEF RoundsInv, Ends, RuledBetween, StillOpen, CarriedOver, VerdictsIn
<1>12. FateInv'
  <2>1. \A id : CarriedForward(id) => CarriedForward(id)'
    BY <1>2 DEF CarriedForward
  <2>2. \A w, x, id : FixedBetween(w, x, id) => FixedBetween(w, x, id)'
    BY <1>2 DEF FixedBetween, IsVerdict
  <2>3. \A w, v : CarriedOver(w, v) => CarriedOver(w, v)'
    BY <1>2 DEF CarriedOver, VerdictsIn
  <2> QED BY <1>1, <1>2, <1>4, <2>1, <2>2, <2>3 DEF FateInv, StillOpen
<1> QED BY <1>3, <1>5, <1>6, <1>7, <1>9, <1>10, <1>11, <1>12 DEF LoopInv

\* A ruler is shown a finding of a verdict, never a gap that the body fills.
LEMMA ShowFindingIsQuiet ==
    ASSUME LoopInv, NEW r \in Rulers, ShowFinding(r)
    PROVE  Quiet
<1>1. /\ LoopTypeOK
      /\ UNCHANGED <<bounds, head, artifact, body, receipts, listed, pass, edits, outages>>
  BY DEF LoopInv, ShowFinding
<1>2. PICK f \in Unruled(listed) : ruler' = [ruler EXCEPT ![r] = f.id]
  BY DEF ShowFinding
<1>3. f \in Latest(listed) /\ ~BodyDerived(f)
  BY <1>2 DEF Unruled
<1>4. VerdictsIn(listed) \in SUBSET DOMAIN receipts /\ receipts \in Seq(Receipts)
  BY <1>1 DEF LoopTypeOK, VerdictsIn
<1>5. PICK k \in VerdictsIn(listed) : f \in receipts[k].findings
  <2>1. VerdictsIn(listed) # {} /\ f \in receipts[Greatest(VerdictsIn(listed))].findings
    BY <1>3 DEF Latest
  <2> QED BY <1>4, <2>1, NewestIn
<1>6. k \in Written
  BY <1>1, <1>5 DEF VerdictsIn, Written, LoopTypeOK
<1>7. f.id \in 1..MaxIds
  BY <1>4, <1>5, <1>6, WrittenTyped, FindingsTyped
<1>8. WasShown(f.id)
  BY <1>3, <1>5, <1>6 DEF WasShown
<1>9. /\ ruler' \in [Rulers -> 0..MaxIds]
      /\ \A q \in Rulers : ruler'[q] # 0 => ruler'[q] = ruler[q] \/ WasShown(ruler'[q])
  <2>1. f.id \in 0..MaxIds /\ ruler \in [Rulers -> 0..MaxIds]
    BY <1>1, <1>7, LoopAssumption DEF LoopTypeOK
  <2>2. \A q \in Rulers : ruler'[q] = IF q = r THEN f.id ELSE ruler[q]
    BY <1>2, <2>1
  <2> QED BY <1>2, <1>8, <2>1, <2>2
<1> QED BY <1>1, <1>9, LoopAssumption DEF Quiet, LoopTypeOK

LEMMA QuietSteps ==
    ASSUME LoopInv,
           \/ Push \/ Edit \/ Read \/ EndWithoutVerdict \/ Replay
           \/ \E r \in Rulers : ShowFinding(r) \/ GiveUp(r)
           \/ UNCHANGED lvars
    PROVE  LoopInv'
<1>1. LoopTypeOK
  BY DEF LoopInv
<1>2. /\ bounds.heads \in Nat /\ head \in Nat /\ head \in 1..bounds.heads /\ artifact \in bounds.artifacts
      /\ bounds.edits \in Nat /\ edits \in 0..bounds.edits /\ body \in Bodies
      /\ listed \subseteq DOMAIN receipts /\ ruler \in [Rulers -> 0..MaxIds] /\ MaxIds \in Nat
      /\ head <= head
  <2>1. bounds.heads \in Nat /\ bounds.edits \in Nat /\ MaxIds \in Nat
    BY <1>1, LoopAssumption DEF LoopTypeOK
  <2> QED BY <1>1, <2>1 DEF LoopTypeOK
<1>3. ASSUME Push  PROVE Quiet
  BY <1>2, <1>3 DEF Push, Quiet
<1>4. ASSUME Edit  PROVE Quiet
  BY <1>2, <1>4 DEF Edit, Quiet
<1>5. ASSUME Read  PROVE Quiet
  BY <1>2, <1>5 DEF Read, Quiet, Loaded
<1>6. ASSUME EndWithoutVerdict  PROVE Quiet
  BY <1>2, <1>6 DEF EndWithoutVerdict, Quiet
<1>7. ASSUME Replay  PROVE Quiet
  BY <1>2, <1>7 DEF Replay, Quiet
<1>8. ASSUME NEW r \in Rulers, GiveUp(r)  PROVE Quiet
  BY <1>2, <1>8 DEF GiveUp, Quiet
<1>9. ASSUME UNCHANGED lvars  PROVE Quiet
  BY <1>2, <1>9 DEF lvars, Quiet
<1> QED BY <1>3, <1>4, <1>5, <1>6, <1>7, <1>8, <1>9, ShowFindingIsQuiet, QuietKeeps

-----------------------------------------------------------------------------
(* The first state.                                                        *)

\* The approvals of others, in some order.
LEMMA OpeningsInOrder ==
    /\ [n \in DOMAIN SetToSeq(Elsewhere) |-> Opening(SetToSeq(Elsewhere)[n])] \in Seq(Receipts)
    /\ \A n \in DOMAIN SetToSeq(Elsewhere) : Opening(SetToSeq(Elsewhere)[n]).kind = "other"
<1>1. PICK n \in Nat : n = Cardinality(Elsewhere) /\ ExistsBijection(1..n, Elsewhere)
  BY LoopAssumption, FS_CardinalityType
<1>2. PICK b \in [1..n -> Elsewhere] : IsInjective(b)
  BY <1>1 DEF ExistsBijection, Bijection, Injection
<1>3. SetToSeq(Elsewhere) \in [1..n -> Elsewhere]
  BY <1>1, <1>2 DEF SetToSeq
<1>4. DOMAIN SetToSeq(Elsewhere) = 1..n
  BY <1>3
<1>5. \A cf \in Elsewhere : Opening(cf) \in Receipts /\ Opening(cf).kind = "other"
  BY DEF Opening, Receipts, Others
<1>6. [k \in 1..n |-> Opening(SetToSeq(Elsewhere)[k])] \in [1..n -> Receipts]
  BY <1>3, <1>5
<1>7. [1..n -> Receipts] \subseteq Seq(Receipts)
  OBVIOUS
<1> QED BY <1>3, <1>4, <1>5, <1>6, <1>7

LEMMA InitTyped ==
    ASSUME LoopInit
    PROVE  /\ LoopTypeOK
           /\ \A i \in DOMAIN receipts : receipts[i].kind = "other"
<1>1. receipts \in Seq(Receipts) /\ \A i \in DOMAIN receipts : receipts[i].kind = "other"
  <2>1. CASE bounds.opens
    <3>1. receipts = <<>>
      BY <2>1 DEF LoopInit
    <3> QED BY <3>1
  <2>2. CASE ~bounds.opens
    <3>1. receipts = [n \in DOMAIN SetToSeq(Elsewhere) |-> Opening(SetToSeq(Elsewhere)[n])]
      BY <2>2 DEF LoopInit
    <3> QED BY <3>1, OpeningsInOrder
  <2> QED BY <2>1, <2>2
<1>2. VerdictsIn(DOMAIN receipts) = {}
  BY <1>1 DEF VerdictsIn
<1>3. /\ bounds.heads \in Nat \ {0} /\ bounds.bodies \subseteq Bodies
      /\ bounds.edits \in Nat /\ bounds.outages \in Nat /\ MaxIds \in Nat
  BY LoopAssumption DEF LoopInit
<1>4. /\ bounds \in Bounds /\ head \in 1..bounds.heads /\ artifact \in bounds.artifacts /\ body \in Bodies
      /\ edits \in 0..bounds.edits /\ outages \in 0..bounds.outages /\ listed \subseteq DOMAIN receipts
      /\ ruler \in [Rulers -> 0..MaxIds]
  BY <1>3 DEF LoopInit
<1>5. pass \in Passes /\ pass.seen \subseteq listed
  BY <1>1, NoPassTyped DEF LoopInit
<1> QED BY <1>1, <1>2, <1>4, <1>5 DEF LoopTypeOK

LEMMA InitKeeps ==
    ASSUME LoopInit
    PROVE  LoopInv
<1>1. LoopTypeOK /\ \A i \in DOMAIN receipts : receipts[i].kind = "other"
  BY InitTyped
<1>2. Written = {} /\ Judgments = {} /\ \A i \in DOMAIN receipts : ~IsVerdict(i)
  BY <1>1 DEF Written, Judgments, Judging, VerdictsIn, IsVerdict
<1>3. pass.on = FALSE /\ listed = DOMAIN receipts /\ ruler = [r \in Rulers |-> 0]
  BY <1>1, NoPassTyped DEF LoopInit, LoopTypeOK
<1>4. IdInv /\ SaysInv /\ RuledInv /\ AccountInv /\ RoundsInv /\ FateInv
  BY <1>2 DEF IdInv, SaysInv, RuledInv, AccountInv, RoundsInv, FateInv
<1>5. ReadInv /\ HeadsInv
  BY <1>2, <1>3 DEF ReadInv, HeadsInv
<1>6. ShownInv
  BY <1>1, <1>3 DEF ShownInv
<1> QED BY <1>1, <1>4, <1>5, <1>6 DEF LoopInv

\* Every step keeps the invariant.
LEMMA LoopStep == LoopInv /\ [LoopNext]_lvars => LoopInv'
<1> SUFFICES ASSUME LoopInv, [LoopNext]_lvars  PROVE LoopInv'
  OBVIOUS
<1>1. CASE \/ Push \/ Edit \/ Read \/ EndWithoutVerdict \/ Replay
           \/ \E r \in Rulers : ShowFinding(r) \/ GiveUp(r)
           \/ UNCHANGED lvars
  BY <1>1, QuietSteps
<1>2. CASE JudgeForm
  BY <1>2, JudgeFormKeeps
<1>3. CASE Await
  BY <1>3, AwaitKeeps
<1>4. CASE CloseWithoutJudge
  BY <1>4, CloseWithoutJudgeKeeps
<1>5. CASE JudgeRound
  BY <1>5, JudgeRoundKeeps
<1>6. CASE Carry
  BY <1>6, CarryKeeps
<1>7. CASE \E cf \in Elsewhere : OthersApprove(cf)
  BY <1>7, OthersApproveKeeps
<1>8. CASE \E r \in Rulers : Rule(r)
  BY <1>8, RuleKeeps
<1> QED BY <1>1, <1>2, <1>3, <1>4, <1>5, <1>6, <1>7, <1>8 DEF LoopNext

\* The invariant holds in every state.
LEMMA LoopInvariant == LoopSpec => []LoopInv
<1>1. LoopInit => LoopInv
  BY InitKeeps
<1> QED BY <1>1, LoopStep, PTL DEF LoopSpec

-----------------------------------------------------------------------------
(* The theorems.                                                           *)

\* Every variable of the loop has its type, and no verdict holds two findings
\* of one id.
THEOREM LoopTypeCorrect == LoopSpec => []LoopTypeOK
<1>1. LoopInv => LoopTypeOK
  BY DEF LoopInv
<1> QED BY <1>1, LoopInvariant, PTL

LEMMA IdsNameOne == LoopInv => IdsNameOneFinding
<1> SUFFICES ASSUME LoopInv, NEW i \in Written, NEW j \in Written,
                    ~receipts[i].late, ~receipts[j].late,
                    NEW f \in receipts[i].findings, NEW g \in receipts[j].findings, f.id = g.id
             PROVE  f.born = g.born /\ f.gap = g.gap
  BY DEF IdsNameOneFinding, Written
<1>1. IdInv /\ i \in Nat /\ j \in Nat
  BY WrittenTyped DEF LoopInv, LoopTypeOK
<1>2. CASE i < j
  BY <1>1, <1>2 DEF IdInv, Agree
<1>3. CASE j < i
  BY <1>1, <1>3 DEF IdInv, Agree
<1>4. CASE i = j
  BY <1>1, <1>4 DEF IdInv, Distinct
<1> QED BY <1>1, <1>2, <1>3, <1>4

\* An id names one finding for ever.
THEOREM IdsAreStable == LoopSpec => []IdsNameOneFinding
<1> QED BY IdsNameOne, LoopInvariant, PTL

LEMMA RulingsFirst == LoopInv => NoJudgeBeforeTheRulings
<1> SUFFICES ASSUME LoopInv, NEW w \in Judgments, NEW u \in Judgments,
                    u < w, Ends(u), ~CarriedOver(u, w),
                    NEW f \in JudgesOwn(receipts[u].findings), OpenBlocker(f)
             PROVE  \E r \in (u + 1)..(w - 1) :
                        receipts[r].kind = "ruling" /\ receipts[r].finding = f.id
  BY DEF NoJudgeBeforeTheRulings, Judgments, Ends
<1>1. RoundsInv /\ receipts \in Seq(Receipts)
  BY DEF LoopInv, LoopTypeOK
<1>2. w \in Written /\ receipts[w].step # "awaiting_ruling" /\ w \in Nat /\ u \in Nat
  <2>1. w \in Written /\ u \in Written /\ receipts[w].step \in {"round", "closure"}
    BY DEF Judgments, Judging, Written
  <2> QED BY <1>1, <2>1, WrittenTyped
<1>3. RuledBetween(u, w, f.id)
  BY <1>1, <1>2 DEF RoundsInv
<1>4. PICK r \in DOMAIN receipts : /\ u < r /\ r < w
                                   /\ receipts[r].kind = "ruling" /\ receipts[r].finding = f.id
  BY <1>3 DEF RuledBetween
<1>5. r \in Nat
  BY <1>1
<1>6. r \in (u + 1)..(w - 1)
  BY <1>2, <1>4, <1>5
<1> QED BY <1>4, <1>6

\* No fourth round before the rulings.
THEOREM RulingsComeFirst == LoopSpec => []NoJudgeBeforeTheRulings
<1> QED BY RulingsFirst, LoopInvariant, PTL

\* A finding ruled carry_forward that no gap shares its id with is one the
\* next pull requests must account for, once an approval is listed.
LEMMA CarriedIsOpened ==
    ASSUME LoopInv, NEW v \in VerdictsIn(listed), receipts[v].approve,
           NEW w \in Written, ~receipts[w].late, NEW f \in JudgesOwn(receipts[w].findings),
           ~GivenToAGap(w, f.id), CarriedForward(f.id)
    PROVE  f.id \in OpenedIn(listed)
<1>1. IdInv /\ SaysInv /\ LoopTypeOK /\ listed \subseteq DOMAIN receipts /\ receipts \in Seq(Receipts)
  BY DEF LoopInv, LoopTypeOK
<1>2. v \in {i \in {i \in listed : receipts[i].kind = "verdict"} : receipts[i].approve}
  BY DEF VerdictsIn
<1>3. PICK r \in listed : /\ receipts[r].kind = "ruling" /\ receipts[r].finding = f.id
                          /\ receipts[r].ruling = "carry_forward"
  BY DEF CarriedForward
<1>4. ASSUME NEW i \in listed, receipts[i].kind = "verdict", NEW g \in receipts[i].findings, g.id = f.id
      PROVE  ~Mechanical(g)
  <2>1. i \in Written
    <3>1. receipts[i].step # "mechanical"
      BY <1>1, <1>4 DEF SaysInv, Says, IsVerdict
    <3> QED BY <1>1, <1>4, <3>1 DEF Written, VerdictsIn
  <2>2. i \in Nat /\ w \in Nat /\ f \in receipts[w].findings /\ f.gap = {}
    BY <1>1, <2>1, WrittenTyped DEF JudgesOwn, Mechanical
  <2>3. CASE i = w
    BY <1>1, <1>4, <2>2, <2>3 DEF IdInv, Distinct, Mechanical
  <2>4. CASE w < i
    BY <1>1, <1>4, <2>1, <2>2, <2>4 DEF IdInv, Agree, Mechanical
  <2>5. CASE i < w /\ ~receipts[i].late
    BY <1>1, <1>4, <2>1, <2>2, <2>5 DEF IdInv, Agree, Mechanical
  <2>6. CASE i < w /\ receipts[i].late
    BY <1>4, <2>1, <2>6 DEF GivenToAGap, Written
  <2> QED BY <2>2, <2>3, <2>4, <2>5, <2>6
<1> DEFINE verdicts == {i \in listed : receipts[i].kind = "verdict"}
           held == UNION {receipts[i].findings : i \in verdicts}
<1>5. f.id \notin {h.id : h \in held \ JudgesOwn(held)}
  <2> SUFFICES ASSUME NEW h \in held \ JudgesOwn(held), h.id = f.id  PROVE FALSE
    OBVIOUS
  <2>1. PICK i \in verdicts : h \in receipts[i].findings
    OBVIOUS
  <2>2. Mechanical(h)
    BY DEF JudgesOwn
  <2> QED BY <1>4, <2>1, <2>2
<1>6. f.id \in {receipts[i].finding : i \in {k \in {i \in listed : receipts[i].kind = "ruling"} :
                                               receipts[k].ruling = "carry_forward"}}
  BY <1>3
<1> QED BY <1>2, <1>5, <1>6 DEF OpenedIn

LEMMA BlockersStay == LoopInv => BlockersAreFixedOrOwed
<1> SUFFICES ASSUME LoopInv, NEW v \in VerdictsIn(listed), receipts[v].approve,
                    NEW w \in VerdictsIn(listed), w < v, ~receipts[w].late, ~CarriedOver(w, v),
                    NEW f \in JudgesOwn(receipts[w].findings), OpenBlocker(f), ~GivenToAGap(w, f.id)
             PROVE  \/ \E u \in (w + 1)..v : receipts[u].kind = "verdict" /\ f.id \in receipts[u].fixed
                    \/ f.id \in OpenedIn(listed)
  BY DEF BlockersAreFixedOrOwed
<1>1. FateInv /\ SaysInv /\ receipts \in Seq(Receipts) /\ listed \subseteq DOMAIN receipts
  BY DEF LoopInv, LoopTypeOK
<1>2. v \in Written /\ w \in Written
  BY <1>1 DEF Written, VerdictsIn
<1>3. v \in Nat /\ w \in Nat /\ v \in DOMAIN receipts /\ IsVerdict(v)
  BY <1>1, <1>2, WrittenTyped
<1>4. FixedBetween(w, v, f.id) \/ CarriedForward(f.id) \/ StillOpen(receipts[v].findings, f.id)
  BY <1>1, <1>2 DEF FateInv
<1>5. CASE FixedBetween(w, v, f.id)
  <2>1. PICK u \in DOMAIN receipts : w < u /\ u <= v /\ IsVerdict(u) /\ f.id \in receipts[u].fixed
    BY <1>5 DEF FixedBetween
  <2>2. u \in Nat
    BY <1>1
  <2>3. u \in (w + 1)..v
    BY <1>3, <2>1, <2>2
  <2> QED BY <2>1, <2>3 DEF IsVerdict
<1>6. CASE CarriedForward(f.id)
  BY <1>2, <1>6, CarriedIsOpened
<1>7. ~StillOpen(receipts[v].findings, f.id)
  <2>1. Says(receipts[v])
    BY <1>1, <1>3 DEF SaysInv
  <2> QED BY <2>1 DEF Says, StillOpen, JudgesOwn
<1> QED BY <1>4, <1>5, <1>6, <1>7

\* A blocker never disappears from the books.
THEOREM BlockersStayOnTheBooks == LoopSpec => []BlockersAreFixedOrOwed
<1> QED BY BlockersStay, LoopInvariant, PTL

LEMMA ApprovalsAccounted == LoopInv => ApprovalsAccountForCarryForwards
<1> SUFFICES ASSUME LoopInv, NEW v \in Judging(listed), receipts[v].approve,
                    receipts[v].artifact = "code", receipts[v].source = 0
             PROVE  /\ InTime(v) =>
                         OpenElsewhere(Timely(v)) \subseteq receipts[v].addressed \cup receipts[v].deferred
                    /\ \A cf \in receipts[v].addressed : \E u \in Judging(1..v) : cf \in receipts[u].confirmed
  BY DEF ApprovalsAccountForCarryForwards, Timely
<1>1. AccountInv /\ receipts \in Seq(Receipts) /\ listed \subseteq DOMAIN receipts
  BY DEF LoopInv, LoopTypeOK
<1>2. v \in Judgments
  BY <1>1 DEF Judgments, Judging, VerdictsIn
<1>3. ASSUME NEW cf \in receipts[v].addressed
      PROVE  \E u \in Judging(1..v) : cf \in receipts[u].confirmed
  <2>1. PICK u \in Judgments : u <= v /\ cf \in receipts[u].confirmed
    BY <1>1, <1>2 DEF AccountInv
  <2>2. u \in DOMAIN receipts /\ v \in DOMAIN receipts
    BY <1>2 DEF Judgments, Judging, VerdictsIn
  <2>3. u \in 1..v
    BY <1>1, <2>1, <2>2
  <2>4. u \in Judging(1..v)
    BY <2>3 DEF Judgments, Judging, VerdictsIn
  <2> QED BY <2>1, <2>4
<1> QED BY <1>1, <1>2, <1>3 DEF AccountInv

\* A code pull request is approved only with the carry-forwards of others
\* accounted for, on the word of a judge.
THEOREM ApprovalsAccount == LoopSpec => []ApprovalsAccountForCarryForwards
<1> QED BY ApprovalsAccounted, LoopInvariant, PTL

=============================================================================
