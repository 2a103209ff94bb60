------------------------- MODULE ReviewerPass_proofs -------------------------
(***************************************************************************)
(* What holds of the passes of the reviewer, for any number of them, of    *)
(* heads, requests, silences and faults: GitHub shows nothing the ledger   *)
(* lacks and denies nothing it confirmed, a carried approval rests on a    *)
(* judgement of the same patch, and no head is judged again and again.     *)
(***************************************************************************)
EXTENDS ReviewerPass, WellFoundedInduction, FiniteSetTheorems, TLAPS

\* The steps of a pass that has opened a check, and of one that retires one.
Working == {"judge", "silent", "attest", "publish", "review", "unlabel", "tell", "object",
            "handler", "error"}

Early == {"idle", "reconcile", "select", "load"}

HasCheck(s) ==
    /\ s.step \notin Early => s.head # 0
    /\ s.step \in Working \cup {"interrupt"} => s.check \in Ids /\ checks[s.check].head = s.head

-----------------------------------------------------------------------------
(***************************************************************************)
(* What the steps have in common.                                          *)
(***************************************************************************)

\* A pass goes to another step and keeps the rest of its state.
LEMMA GoesKeeps ==
    ASSUME pass \in [Passes -> PassStates], NEW p \in Passes, NEW s \in Steps, Goes(p, s)
    PROVE  /\ pass' \in [Passes -> PassStates]
           /\ \A q \in Passes : q # p => pass'[q] = pass[q]
           /\ pass'[p].step = s
           /\ pass'[p].mode = pass[p].mode /\ pass'[p].head = pass[p].head
           /\ pass'[p].label = pass[p].label /\ pass'[p].receipts = pass[p].receipts
           /\ pass'[p].check = pass[p].check /\ pass'[p].approve = pass[p].approve
           /\ pass'[p].source = pass[p].source
  BY DEF Goes, PassStates

\* A pass that ends is idle, and holds no lock.
LEMMA EndsIdle ==
    ASSUME pass \in [Passes -> PassStates], lock \in Passes \cup {NoOne},
           NEW p \in Passes, Ends(p)
    PROVE  /\ pass' \in [Passes -> PassStates]
           /\ lock' \in Passes \cup {NoOne}
           /\ \A q \in Passes : q # p => pass'[q] = pass[q]
           /\ pass'[p] = NoPass
           /\ pass'[p].step = "idle" /\ pass'[p].receipts = {} /\ pass'[p].source = 0
  BY DEF Ends, NoPass, PassStates, Steps, Modes

\* An update changes the conclusion of one check run and nothing else.
LEMMA CompletedKeeps ==
    ASSUME checks \in Seq(Checks), NEW c \in Ids, NEW green \in BOOLEAN, NEW title \in Titles,
           Completed(c, green, title)
    PROVE  /\ checks' \in Seq(Checks)
           /\ DOMAIN checks' = Ids
           /\ \A d \in Ids : /\ checks'[d].head = checks[d].head
                             /\ checks'[d].stale = checks[d].stale
                             /\ checks'[d].automatic = checks[d].automatic
                             /\ d # c => checks'[d] = checks[d]
           /\ checks'[c].green = green /\ checks'[c].title = title /\ checks'[c].done
<1> DEFINE u == [checks[c] EXCEPT !.done = TRUE, !.green = green, !.title = title]
<1>1. c \in 1..Len(checks) /\ checks[c] \in Checks
  BY DEF Ids
<1>2. /\ u \in Checks /\ u.head = checks[c].head /\ u.stale = checks[c].stale
      /\ u.green = green /\ u.title = title /\ u.done /\ u.automatic = checks[c].automatic
  BY <1>1 DEF Checks
<1>3. checks' = [checks EXCEPT ![c] = u]
  BY <1>1 DEF Completed, Checks
<1> HIDE DEF u
<1>4. checks' \in Seq(Checks) /\ DOMAIN checks' = Ids
  BY <1>1, <1>2, <1>3 DEF Ids
<1> QED
  BY <1>1, <1>2, <1>3, <1>4 DEF Ids

\* A pass selects the head, asked by the label or by itself.
LEMMA SelectKeeps ==
    ASSUME TypeOK, NEW p \in Passes, Select(p)
    PROVE  /\ pass' \in [Passes -> PassStates]
           /\ \A q \in Passes : q # p => pass'[q] = pass[q]
           /\ pass'[p].step = "load" /\ pass'[p].mode = IF labelled THEN "asked" ELSE "poll"
           /\ pass'[p].head = pass[p].head /\ pass'[p].receipts = pass[p].receipts
           /\ pass'[p].check = pass[p].check /\ pass'[p].source = pass[p].source
<1> DEFINE m == IF labelled THEN "asked" ELSE "poll"
           s == [pass[p] EXCEPT !.step = "load", !.mode = m]
<1>1. pass \in [Passes -> PassStates] /\ pass[p] \in PassStates
  BY DEF TypeOK
<1>2. m \in Modes
  BY DEF Modes
<1>3. pass' = [pass EXCEPT ![p] = s]
  BY <1>1 DEF Select, PassStates
<1>4. m = IF labelled THEN "asked" ELSE "poll"
  OBVIOUS
<1> HIDE DEF m
<1>5. /\ s \in PassStates /\ s.step = "load" /\ s.mode = m /\ s.head = pass[p].head
      /\ s.receipts = pass[p].receipts /\ s.check = pass[p].check /\ s.source = pass[p].source
  BY <1>1, <1>2 DEF PassStates, Steps
<1> HIDE DEF s
<1> QED
  BY <1>1, <1>3, <1>4, <1>5

\* start_check adds one check run, not yet done.
LEMMA OpenedKeeps ==
    ASSUME checks \in Seq(Checks), NEW p \in Passes, pass[p] \in PassStates,
           pass[p].head \in Heads, Opened(p)
    PROVE  /\ checks' \in Seq(Checks)
           /\ DOMAIN checks' = Ids \cup {Len(checks) + 1}
           /\ Len(checks) + 1 \notin Ids
           /\ \A d \in Ids : checks'[d] = checks[d]
           /\ checks'[Len(checks) + 1].head = pass[p].head
           /\ ~checks'[Len(checks) + 1].green /\ ~checks'[Len(checks) + 1].stale
           /\ checks'[Len(checks) + 1].title = ""
           /\ checks'[Len(checks) + 1].automatic => pass[p].mode = "poll"
<1> DEFINE c == [head |-> pass[p].head, done |-> FALSE, green |-> FALSE, title |-> "",
                 stale |-> FALSE,
                 automatic |-> pass[p].mode = "poll" /\ ~pass[p].label /\ pass[p].source = 0]
<1>1. c \in Checks
  BY DEF Checks, Titles, PassStates
<1>2. /\ c.head = pass[p].head /\ ~c.green /\ c.title = "" /\ ~c.stale
      /\ c.automatic => pass[p].mode = "poll"
  OBVIOUS
<1>3. checks' = Append(checks, c)
  BY DEF Opened
<1> HIDE DEF c
<1>4. /\ checks' \in Seq(Checks) /\ Len(checks') = Len(checks) + 1
      /\ checks'[Len(checks) + 1] = c
      /\ \A d \in 1..Len(checks) : checks'[d] = checks[d]
  BY <1>1, <1>3
<1>5. DOMAIN checks' = 1..(Len(checks) + 1) /\ Ids = 1..Len(checks) /\ Len(checks) \in Nat
  BY <1>4 DEF Ids
<1>6. DOMAIN checks' = Ids \cup {Len(checks) + 1} /\ Len(checks) + 1 \notin Ids
  BY <1>5
<1>7. \A d \in Ids : checks'[d] = checks[d]
  BY <1>4, <1>5
<1> QED
  BY <1>2, <1>4, <1>6, <1>7

-----------------------------------------------------------------------------
(***************************************************************************)
(* Types.                                                                  *)
(***************************************************************************)

\* What a step of one pass has to show for the types.
LEMMA TypeKept ==
    ASSUME TypeOK, NEW p \in Passes,
           checks' \in Seq(Checks),
           \A c \in Ids : c \in DOMAIN checks' /\ checks'[c].head = checks[c].head,
           pass' \in [Passes -> PassStates],
           \A q \in Passes : q # p => pass'[q] = pass[q],
           HasCheck(pass[p])',
           UNCHANGED <<head, patch>>, labelled' \in BOOLEAN,
           reviews' \subseteq [check : Ids, approve : BOOLEAN],
           ledger' \subseteq Verdicts, spool' \subseteq Verdicts,
           \A v \in ledger' \cup spool' : v \in ledger \cup spool \/ v.check \in Ids,
           lock' \in Passes \cup {NoOne},
           requests' \in 0..MaxRequests, silences' \in 0..MaxSilences, faults' \in 0..MaxFaults
    PROVE  TypeOK'
<1>1. \A q \in Passes : HasCheck(pass[q])
  BY DEF TypeOK, HasCheck, OnHead, Working, Early
<1>2. \A q \in Passes : HasCheck(pass[q])'
  BY <1>1 DEF HasCheck, Ids
<1>3. \A q \in Passes :
        pass'[q].step \notin {"idle", "reconcile", "select", "load"} => pass'[q].head # 0
  BY <1>2 DEF HasCheck, Early
<1>4. \A q \in Passes :
        pass'[q].step \in {"interrupt", "judge", "silent", "attest", "publish", "review",
                           "unlabel", "tell", "object", "handler", "error"}
          => pass'[q].check \in OnHead(pass[q].head)'
  BY <1>2 DEF HasCheck, OnHead, Ids, Working
<1>5. reviews' \subseteq [check : DOMAIN checks', approve : BOOLEAN]
  OBVIOUS
<1>6. \A v \in ledger' \cup spool' : v.check \in DOMAIN checks'
  BY DEF TypeOK
<1> QED
  BY <1>3, <1>4, <1>5, <1>6 DEF TypeOK, Ids

\* A pass that goes to another step, and nothing else.
LEMMA MoveTypes ==
    ASSUME TypeOK, NEW p \in Passes, NEW s \in Steps, Goes(p, s), UNCHANGED shared,
           s \notin Working \cup {"interrupt"} \/ pass[p].step \in Working,
           s \in Early \/ pass[p].step \notin Early
    PROVE  TypeOK'
<1>1. HasCheck(pass[p])
  BY DEF TypeOK, HasCheck, OnHead, Working, Early
<1>2. HasCheck(pass[p])'
  BY <1>1, GoesKeeps DEF TypeOK, HasCheck, shared, Ids
<1> QED
  BY <1>2, GoesKeeps, TypeKept DEF TypeOK, shared, github, counters, Ids

\* A pass that changes its own state and, at most, the count of the requests.
LEMMA LocalTypes ==
    ASSUME TypeOK, NEW p \in Passes,
           pass' \in [Passes -> PassStates],
           \A q \in Passes : q # p => pass'[q] = pass[q],
           HasCheck(pass[p])', requests' \in 0..MaxRequests,
           UNCHANGED <<head, patch, labelled, checks, reviews, ledger, spool, lock, silences,
                       faults>>
    PROVE  TypeOK'
<1>1. /\ checks' \in Seq(Checks)
      /\ \A c \in Ids : c \in DOMAIN checks' /\ checks'[c].head = checks[c].head
  BY DEF TypeOK, Ids
<1>2. /\ labelled' \in BOOLEAN /\ reviews' \subseteq [check : Ids, approve : BOOLEAN]
      /\ ledger' \subseteq Verdicts /\ spool' \subseteq Verdicts
      /\ lock' \in Passes \cup {NoOne}
      /\ silences' \in 0..MaxSilences /\ faults' \in 0..MaxFaults
  BY DEF TypeOK
<1>3. \A v \in ledger' \cup spool' : v \in ledger \cup spool \/ v.check \in Ids
  OBVIOUS
<1> QED
  BY <1>1, <1>2, <1>3, TypeKept

\* And one that changes nothing else.
LEMMA AloneTypes ==
    ASSUME TypeOK, NEW p \in Passes,
           pass' \in [Passes -> PassStates],
           \A q \in Passes : q # p => pass'[q] = pass[q],
           HasCheck(pass[p])', UNCHANGED shared
    PROVE  TypeOK'
<1>1. UNCHANGED <<head, patch, labelled, checks, reviews, ledger, spool, lock, requests, silences,
                  faults>>
  BY DEF shared, github, counters
<1>2. requests' \in 0..MaxRequests
  BY <1>1 DEF TypeOK
<1> QED
  BY <1>1, <1>2, LocalTypes

\* A pass at work on the check run it had, or in a step that needs none.
LEMMA HasCheckThen ==
    ASSUME NEW p \in Passes, UNCHANGED checks,
           pass'[p].step \notin Early => pass'[p].head # 0,
           pass'[p].step \in Working \cup {"interrupt"} =>
               pass'[p].check \in Ids /\ checks[pass'[p].check].head = pass'[p].head
    PROVE  HasCheck(pass[p])'
  BY DEF HasCheck, Ids

\* The pass of p does.
LEMMA CheckKept ==
    ASSUME TypeOK, NEW p \in Passes
    PROVE  /\ HasCheck(pass[p])
           /\ pass[p] \in PassStates
           /\ pass[p].step \notin Early => pass[p].head \in Heads
           /\ pass[p].step \in Working \cup {"interrupt"} => pass[p].check \in Ids
           /\ Ids \subseteq Nat
  BY DEF TypeOK, HasCheck, OnHead, Working, Early, PassStates, Ids

\* A pass that ends, whatever it did to the check runs and the label.
LEMMA EndTypes ==
    ASSUME TypeOK, NEW p \in Passes, Ends(p),
           checks' \in Seq(Checks),
           \A c \in Ids : c \in DOMAIN checks' /\ checks'[c].head = checks[c].head,
           labelled' \in BOOLEAN, reviews' \subseteq [check : Ids, approve : BOOLEAN],
           faults' \in 0..MaxFaults,
           UNCHANGED <<head, patch, ledger, spool, requests, silences>>
    PROVE  TypeOK'
<1>1. HasCheck(pass[p])'
  BY EndsIdle DEF TypeOK, HasCheck, Working, Early
<1> QED
  BY <1>1, EndsIdle, TypeKept DEF TypeOK

LEMMA FaultBounded ==
    ASSUME TypeOK, Fault \/ NoFault
    PROVE  faults' \in 0..MaxFaults
  BY PassesAssumption DEF TypeOK, Fault, NoFault

\* A review names the check of its pass.
LEMMA PostedTypes ==
    ASSUME TypeOK, NEW p \in Passes, NEW b \in BOOLEAN, Posted(p, b), pass[p].check \in Ids
    PROVE  reviews' \subseteq [check : Ids, approve : BOOLEAN]
  BY DEF Posted, TypeOK

\* A call whose answer is lost.
LEMMA EffectTypes ==
    ASSUME TypeOK, NEW p \in Passes, UNCHANGED checks \/ Effect(p)
    PROVE  /\ checks' \in Seq(Checks)
           /\ \A c \in Ids : c \in DOMAIN checks' /\ checks'[c].head = checks[c].head
<1>1. CASE UNCHANGED checks
  BY <1>1 DEF TypeOK, Ids
<1>2. CASE \E green \in BOOLEAN, title \in Titles :
              pass[p].check \in Ids /\ Completed(pass[p].check, green, title)
  BY <1>2, CompletedKeeps DEF TypeOK
<1>3. CASE At(p, "start") /\ Opened(p)
  BY <1>3, OpenedKeeps, CheckKept DEF TypeOK, At, Early
<1> QED
  BY <1>1, <1>2, <1>3, CheckKept DEF Effect, At, Working, NoVerdictTitles, Titles, PassStates

\* The world around the passes.
LEMMA WorldTypes ==
    ASSUME TypeOK, \/ Push \/ Label
                   \/ \E c \in Ids : Age(c)
                   \/ \E v \in spool : Replay(v)
    PROVE  TypeOK'
<1>1. CASE Push
  <2>0. head \in Heads /\ head + 1 \in Heads /\ patch \in [Heads -> Heads]
    BY <1>1, PassesAssumption DEF Push, TypeOK, Heads
  <2>1. head' \in Heads /\ patch' \in [Heads -> Heads]
    BY <1>1, <2>0 DEF Push
  <2> QED
    BY <1>1, <2>1 DEF Push, TypeOK, counters, OnHead, Ids
<1>2. CASE Label
  BY <1>2, PassesAssumption DEF Label, Request, TypeOK, OnHead, Ids
<1>3. CASE \E c \in Ids : Age(c)
  <2> PICK c \in Ids : Age(c)
    BY <1>3
  <2> DEFINE u == [checks[c] EXCEPT !.stale = TRUE]
  <2>0. checks[c] \in Checks
    BY DEF TypeOK, Ids
  <2>1. u \in Checks /\ u.head = checks[c].head /\ checks' = [checks EXCEPT ![c] = u]
    BY <2>0 DEF Age, Checks
  <2> HIDE DEF u
  <2>2. /\ checks' \in Seq(Checks) /\ DOMAIN checks' = Ids
        /\ \A d \in Ids : checks'[d].head = checks[d].head
    BY <2>1 DEF TypeOK, Ids
  <2> QED
    BY <2>2 DEF Age, TypeOK, OnHead, Ids, github, counters
<1>4. CASE \E v \in spool : Replay(v)
  BY <1>4 DEF Replay, TypeOK, OnHead, Ids, github, counters
<1> QED
  BY <1>1, <1>2, <1>3, <1>4

\* A pass begins, loads, decides, and finds a check to retire.
LEMMA EarlyTypes ==
    ASSUME TypeOK, NEW p \in Passes,
           \/ Poll(p) \/ Ask(p) \/ Carry(p) \/ Load(p) \/ DecideCarry(p) \/ Close(p) \/ Interrupt(p)
    PROVE  TypeOK'
<1> USE CheckKept
<1>1. ASSUME NEW mode \in Modes, Begins(p, mode), requests' \in 0..MaxRequests
      PROVE  TypeOK'
  <2> PICK listed \in {ledger, {}} :
         /\ Fault \/ NoFault
         /\ pass' = [pass EXCEPT ![p] = [NoPass EXCEPT !.step = "reconcile", !.mode = mode,
                                                      !.receipts = listed]]
    BY <1>1 DEF Begins
  <2> DEFINE s == [NoPass EXCEPT !.step = "reconcile", !.mode = mode, !.receipts = listed]
  <2>1. s \in PassStates /\ s.step = "reconcile"
    BY DEF TypeOK, NoPass, PassStates, Steps
  <2> HIDE DEF s
  <2>2. /\ pass' \in [Passes -> PassStates] /\ \A q \in Passes : q # p => pass'[q] = pass[q]
        /\ pass'[p].step = "reconcile"
    BY <2>1 DEF TypeOK, s
  <2>3. HasCheck(pass[p])'
    BY <2>2 DEF HasCheck, Early, Working
  <2> QED
    BY <1>1, <2>2, <2>3, FaultBounded, TypeKept DEF Begins, TypeOK, github, Ids
<1>2. CASE Poll(p)
  BY <1>2, <1>1 DEF Poll, TypeOK, Modes
<1>3. CASE Ask(p)
  BY <1>3, <1>1, PassesAssumption DEF Ask, Request, TypeOK, Modes
<1>4. CASE Carry(p)
  <2> DEFINE s == [NoPass EXCEPT !.step = "load", !.mode = "carry"]
  <2>1. s \in PassStates /\ s.step = "load"
    BY DEF NoPass, PassStates, Steps, Modes
  <2>2. pass' = [pass EXCEPT ![p] = s]
    BY <1>4 DEF Carry
  <2> HIDE DEF s
  <2>3. /\ pass' \in [Passes -> PassStates] /\ \A q \in Passes : q # p => pass'[q] = pass[q]
        /\ pass'[p].step = "load"
    BY <2>1, <2>2 DEF TypeOK
  <2>4. HasCheck(pass[p])'
    BY <2>3 DEF HasCheck, Early, Working
  <2>5. requests' \in 0..MaxRequests
    BY <1>4, PassesAssumption DEF Carry, Request, TypeOK
  <2>6. UNCHANGED <<head, patch, labelled, checks, reviews, ledger, spool, lock, silences, faults>>
    BY <1>4 DEF Carry, github
  <2> QED
    BY <2>3, <2>4, <2>5, <2>6, LocalTypes
<1>5. CASE Load(p)
  <2> DEFINE s == [pass[p] EXCEPT !.head = head, !.label = labelled, !.step = "decide"]
  <2>0. pass[p] \in PassStates /\ head \in Heads /\ labelled \in BOOLEAN
    BY DEF TypeOK
  <2>1. s \in PassStates /\ s.step = "decide" /\ s.head = head
    BY <2>0 DEF PassStates, Steps
  <2>2. pass' = [pass EXCEPT ![p] = s]
    BY <1>5 DEF Load, TypeOK, PassStates
  <2> HIDE DEF s
  <2>3. /\ pass' \in [Passes -> PassStates] /\ \A q \in Passes : q # p => pass'[q] = pass[q]
        /\ pass'[p].step = "decide" /\ pass'[p].head = head
    BY <2>1, <2>2 DEF TypeOK
  <2>4. HasCheck(pass[p])'
    BY <2>3 DEF HasCheck, Working, TypeOK, Heads
  <2> QED
    BY <1>5, <2>3, <2>4, AloneTypes DEF Load
<1>6. CASE DecideCarry(p)
  <2> PICK c \in Ids : pass' = [pass EXCEPT ![p].source = c, ![p].step = "close"]
    BY <1>6 DEF DecideCarry
  <2> DEFINE s == [pass[p] EXCEPT !.source = c, !.step = "close"]
  <2>1. s \in PassStates /\ s.step = "close" /\ s.head = pass[p].head
    BY DEF PassStates, Steps
  <2>2. pass' = [pass EXCEPT ![p] = s]
    BY DEF TypeOK, PassStates
  <2> HIDE DEF s
  <2>3. /\ pass' \in [Passes -> PassStates] /\ \A q \in Passes : q # p => pass'[q] = pass[q]
        /\ pass'[p].step = "close" /\ pass'[p].head = pass[p].head
    BY <2>1, <2>2 DEF TypeOK
  <2>4. HasCheck(pass[p])'
    BY <1>6, <2>3 DEF HasCheck, Working, DecideCarry, At, Early
  <2> QED
    BY <1>6, <2>3, <2>4, AloneTypes DEF DecideCarry
<1>7. CASE Close(p)
  <2> PICK c \in Interrupted(p) : pass' = [pass EXCEPT ![p].check = c, ![p].step = "interrupt"]
    BY <1>7 DEF Close
  <2> DEFINE s == [pass[p] EXCEPT !.check = c, !.step = "interrupt"]
  <2>0. c \in Ids /\ checks[c].head = pass[p].head
    BY DEF Interrupted, OnHead
  <2>1. /\ s \in PassStates /\ s.step = "interrupt" /\ s.head = pass[p].head /\ s.check = c
        /\ c \in Ids /\ checks[c].head = s.head
    BY <2>0 DEF PassStates, Steps
  <2>2. pass' = [pass EXCEPT ![p] = s]
    BY DEF TypeOK, PassStates
  <2> HIDE DEF s
  <2>3. /\ pass' \in [Passes -> PassStates] /\ \A q \in Passes : q # p => pass'[q] = pass[q]
        /\ pass'[p].step = "interrupt" /\ pass'[p].head = pass[p].head /\ pass'[p].check = c
    <3>1. pass \in [Passes -> PassStates]
      BY DEF TypeOK
    <3> QED
      BY <2>1, <2>2, <3>1
  <2>4. UNCHANGED checks /\ pass[p].step = "close"
    BY <1>7 DEF Close, At, shared
  <2>5. HasCheck(pass[p])'
    BY <2>1, <2>3, <2>4, HasCheckThen DEF HasCheck, Early
  <2> QED
    BY <1>7, <2>3, <2>5, AloneTypes DEF Close
<1>8. CASE Interrupt(p)
  <2> DEFINE s == [pass[p] EXCEPT !.check = 0, !.step = "close"]
  <2>0. pass[p] \in PassStates
    BY DEF TypeOK
  <2>1. s \in PassStates /\ s.step = "close" /\ s.head = pass[p].head
    BY <2>0 DEF PassStates, Steps
  <2>2. pass' = [pass EXCEPT ![p] = s]
    BY <1>8 DEF Interrupt, TypeOK, PassStates
  <2> HIDE DEF s
  <2>3. /\ pass' \in [Passes -> PassStates] /\ \A q \in Passes : q # p => pass'[q] = pass[q]
        /\ pass'[p].step = "close" /\ pass'[p].head = pass[p].head
    BY <2>1, <2>2 DEF TypeOK
  <2>4. HasCheck(pass[p])'
    BY <1>8, <2>3 DEF HasCheck, Working, Interrupt, At, Early
  <2>5. pass[p].check \in Ids
    BY <1>8 DEF Interrupt, At
  <2>6. /\ checks' \in Seq(Checks)
        /\ \A c \in Ids : c \in DOMAIN checks' /\ checks'[c].head = checks[c].head
    BY <1>8, <2>5, CompletedKeeps DEF Interrupt, TypeOK, Titles
  <2> QED
    BY <1>8, <2>3, <2>4, <2>6, TypeKept DEF Interrupt, TypeOK, github, counters, Ids
<1> QED
  BY <1>2, <1>3, <1>4, <1>5, <1>6, <1>7, <1>8

\* Between the calls of a pass.
LEMMA MoveStepTypes ==
    ASSUME TypeOK, NEW p \in Passes,
           \/ Reconciled(p) \/ DecideJudge(p) \/ CloseDone(p) \/ Uncovered(p)
           \/ HandlerFindsNone(p)
    PROVE  TypeOK'
<1>1. \E s \in Steps : /\ Goes(p, s) /\ UNCHANGED shared
                       /\ s \notin Working \cup {"interrupt"} \/ pass[p].step \in Working
                       /\ s \in Early \/ pass[p].step \notin Early
  BY DEF Reconciled, DecideJudge, CloseDone, Uncovered, HandlerFindsNone, At, Steps,
         Working, Early
<1> QED
  BY <1>1, MoveTypes

LEMMA SelectTypes ==
    ASSUME TypeOK, NEW p \in Passes, Select(p)
    PROVE  TypeOK'
<1>1. UNCHANGED shared
  BY DEF Select
<1>2. HasCheck(pass[p])'
  BY SelectKeeps DEF HasCheck, Early, Working
<1> QED
  BY <1>1, <1>2, SelectKeeps, AloneTypes

\* A pass that ends, or fails before it has a check.
LEMMA EndStepTypes ==
    ASSUME TypeOK, NEW p \in Passes,
           \/ NothingToReview(p) \/ RefuseCarry(p) \/ Skip(p) \/ SayNoVerdict(p) \/ Unlabel(p)
           \/ Object(p) \/ HandlerLeaves(p) \/ SayError(p) \/ PassFails(p) \/ Crash(p)
    PROVE  TypeOK'
<1> USE CheckKept
<1>1. CASE \/ NothingToReview(p) \/ RefuseCarry(p) \/ Skip(p) \/ HandlerLeaves(p) \/ Crash(p)
  BY <1>1, EndTypes, FaultBounded DEF NothingToReview, RefuseCarry, Skip, HandlerLeaves, Crash,
     TypeOK, github, counters, Ids
<1>2. CASE SayNoVerdict(p) \/ SayError(p)
  <2>1. pass[p].check \in Ids
    BY <1>2 DEF SayNoVerdict, SayError, At, Working
  <2>2. \E title \in Titles : Completed(pass[p].check, FALSE, title)
    BY <1>2 DEF SayNoVerdict, SayError, NoVerdictTitles, Titles
  <2>3. /\ checks' \in Seq(Checks)
        /\ \A c \in Ids : c \in DOMAIN checks' /\ checks'[c].head = checks[c].head
    BY <2>1, <2>2, CompletedKeeps DEF TypeOK
  <2> QED
    BY <1>2, <2>3, EndTypes DEF SayNoVerdict, SayError, TypeOK, github, counters
<1>3. CASE Unlabel(p)
  BY <1>3, EndTypes DEF Unlabel, TypeOK, counters, Ids
<1>4. CASE Object(p)
  <2>1. reviews' \subseteq [check : Ids, approve : BOOLEAN]
    BY <1>4, PostedTypes DEF Object, At, Working
  <2> QED
    BY <1>4, <2>1, EndTypes DEF Object, TypeOK, github, counters, Ids
<1>5. CASE PassFails(p)
  BY <1>5, EndTypes, FaultBounded, EffectTypes DEF PassFails, TypeOK, github
<1> QED
  BY <1>1, <1>2, <1>3, <1>4, <1>5

\* What a pass does with the check it opened, and the calls that fail.
LEMMA WorkStepTypes ==
    ASSUME TypeOK, NEW p \in Passes,
           \/ Reconcile(p) \/ ReconcileFails(p) \/ StartCheck(p) \/ Judge(p) \/ NoJudge(p)
           \/ Attest(p) \/ AttestWaits(p) \/ Publish(p) \/ PostReview(p) \/ TellUnattested(p)
           \/ ReviewFails(p)
    PROVE  TypeOK'
<1> USE CheckKept
<1>1. ASSUME NEW s \in Steps, Goes(p, s), s \in Early \/ pass[p].step \notin Early,
             s \notin Working \cup {"interrupt"} \/ pass[p].step \in Working,
             \A c \in Ids : c \in DOMAIN checks' /\ checks'[c].head = checks[c].head
      PROVE  /\ HasCheck(pass[p])'
             /\ pass' \in [Passes -> PassStates]
             /\ \A q \in Passes : q # p => pass'[q] = pass[q]
  BY <1>1, GoesKeeps DEF TypeOK, HasCheck, Ids
<1>2. CASE Reconcile(p)
  <2>1. /\ checks' \in Seq(Checks)
        /\ \A c \in Ids : c \in DOMAIN checks' /\ checks'[c].head = checks[c].head
    <3> PICK c \in Lost(p), v \in pass[p].receipts : Completed(c, v.approve, "verdict")
      BY <1>2 DEF Reconcile
    <3>1. c \in Ids /\ v.approve \in BOOLEAN
      BY DEF Lost, OnHead, PassStates, Verdicts
    <3> QED
      BY <3>1, CompletedKeeps DEF TypeOK, Titles
  <2>2. HasCheck(pass[p])'
    BY <1>2, <2>1 DEF Reconcile, HasCheck, Ids
  <2> QED
    BY <1>2, <2>1, <2>2, TypeKept DEF Reconcile, TypeOK, github, counters
<1>3. CASE ReconcileFails(p)
  BY <1>1, <1>3, TypeKept, FaultBounded
     DEF ReconcileFails, TypeOK, github, Ids, Steps, Early, Working
<1>4. CASE StartCheck(p)
  <2> DEFINE n == Len(checks) + 1
             t == IF pass[p].source = 0 THEN "judge" ELSE "attest"
             s == [pass[p] EXCEPT !.check = n, !.approve = pass[p].source # 0, !.step = t]
  <2>1. /\ s \in PassStates /\ s.step \in {"judge", "attest"} /\ s.head = pass[p].head
        /\ s.check = n
    <3>1. n \in Nat /\ t \in {"judge", "attest"} /\ t \in Steps
      BY DEF TypeOK, Steps
    <3>2. (pass[p].source # 0) \in BOOLEAN
      OBVIOUS
    <3> HIDE DEF n, t
    <3> QED
      BY <3>1, <3>2 DEF PassStates
  <2>2. pass' = [pass EXCEPT ![p] = s]
    BY <1>4 DEF StartCheck, TypeOK, PassStates
  <2> HIDE DEF s
  <2>3. /\ pass' \in [Passes -> PassStates] /\ \A q \in Passes : q # p => pass'[q] = pass[q]
        /\ pass'[p].step \in {"judge", "attest"} /\ pass'[p].head = pass[p].head
        /\ pass'[p].check = n
    BY <2>1, <2>2 DEF TypeOK
  <2> HIDE DEF n
  <2>4. /\ checks' \in Seq(Checks) /\ n \in DOMAIN checks' /\ checks'[n].head = pass[p].head
        /\ pass[p].head \in Heads
        /\ \A c \in Ids : c \in DOMAIN checks' /\ checks'[c].head = checks[c].head
    BY <1>4, OpenedKeeps DEF StartCheck, TypeOK, At, Early, n
  <2>5. HasCheck(pass[p])'
    BY <2>3, <2>4 DEF HasCheck, Ids, Heads
  <2> QED
    BY <1>4, <2>3, <2>4, <2>5, TypeKept DEF StartCheck, TypeOK, github, counters
<1>5. CASE Judge(p)
  <2> PICK ruling \in BOOLEAN :
          pass' = [pass EXCEPT ![p].approve = ruling, ![p].step = "attest"]
    BY <1>5 DEF Judge
  <2> DEFINE s == [pass[p] EXCEPT !.approve = ruling, !.step = "attest"]
  <2>1. /\ s \in PassStates /\ s.step = "attest" /\ s.head = pass[p].head
        /\ s.check = pass[p].check
    BY DEF PassStates, Steps
  <2>2. pass' = [pass EXCEPT ![p] = s]
    BY DEF TypeOK, PassStates
  <2> HIDE DEF s
  <2>3. /\ pass' \in [Passes -> PassStates] /\ \A q \in Passes : q # p => pass'[q] = pass[q]
        /\ pass'[p].step = "attest" /\ pass'[p].head = pass[p].head
        /\ pass'[p].check = pass[p].check
    BY <2>1, <2>2 DEF TypeOK
  <2>4. UNCHANGED checks /\ pass[p].step = "judge"
    BY <1>5 DEF Judge, At, shared
  <2>5. HasCheck(pass[p])'
    BY <2>3, <2>4, HasCheckThen DEF HasCheck, Working, Early
  <2> QED
    BY <1>5, <2>3, <2>5, AloneTypes DEF Judge
<1>6. CASE NoJudge(p)
  BY <1>1, <1>6, TypeKept, PassesAssumption
     DEF NoJudge, TypeOK, github, Ids, Steps, Early, Working, At
<1>7. \A late \in BOOLEAN : Ruling(p, late).check = pass[p].check
  BY DEF Ruling
<1>8. ASSUME pass[p].check \in Ids PROVE \A late \in BOOLEAN : Ruling(p, late) \in Verdicts
  BY <1>8 DEF Ruling, Verdicts, PassStates, Ids, TypeOK
<1>9. CASE Attest(p)
  <2>1. ledger' \subseteq Verdicts /\ \A v \in ledger' : v \in ledger \/ v.check \in Ids
    BY <1>7, <1>8, <1>9 DEF Attest, At, Working, TypeOK
  <2> QED
    BY <1>1, <1>9, <2>1, TypeKept
       DEF Attest, TypeOK, github, counters, Ids, Steps, Early, Working, At
<1>10. CASE AttestWaits(p)
  <2>1. /\ ledger' \subseteq Verdicts /\ spool' \subseteq Verdicts
        /\ \A v \in ledger' \cup spool' : v \in ledger \cup spool \/ v.check \in Ids
    BY <1>7, <1>8, <1>10 DEF AttestWaits, At, Working, TypeOK
  <2> QED
    BY <1>1, <1>10, <2>1, TypeKept, FaultBounded
       DEF AttestWaits, TypeOK, github, Ids, Steps, Early, Working, At
<1>11. CASE Publish(p)
  <2>1. /\ checks' \in Seq(Checks)
        /\ \A c \in Ids : c \in DOMAIN checks' /\ checks'[c].head = checks[c].head
    <3>1. /\ pass[p].check \in Ids /\ pass[p].approve \in BOOLEAN /\ "verdict" \in Titles
          /\ checks \in Seq(Checks)
      BY <1>11 DEF Publish, At, Working, TypeOK, Titles, PassStates
    <3> QED
      BY <1>11, <3>1, CompletedKeeps DEF Publish
  <2> QED
    BY <1>1, <1>11, <2>1, TypeKept
       DEF Publish, TypeOK, github, counters, Steps, Early, Working, At
<1>12. CASE PostReview(p)
  <2>1. reviews' \subseteq [check : Ids, approve : BOOLEAN]
    BY <1>12, PostedTypes DEF PostReview, At, Working, PassStates
  <2> QED
    BY <1>1, <1>12, <2>1, TypeKept
       DEF PostReview, TypeOK, github, counters, Ids, Steps, Early, Working, At
<1>13. CASE TellUnattested(p)
  <2>1. /\ checks' \in Seq(Checks)
        /\ \A c \in Ids : c \in DOMAIN checks' /\ checks'[c].head = checks[c].head
    BY <1>13, CompletedKeeps DEF TellUnattested, At, Working, TypeOK, Titles
  <2>2. CASE pass[p].source = 0
    BY <1>1, <1>13, <2>1, <2>2, TypeKept
       DEF TellUnattested, TypeOK, github, counters, Steps, Early, Working, At
  <2>3. CASE pass[p].source # 0
    BY <1>13, <2>1, <2>3, EndTypes DEF TellUnattested, TypeOK, github, counters
  <2> QED
    BY <2>2, <2>3
<1>14. CASE ReviewFails(p)
  <2>1. reviews' \subseteq [check : Ids, approve : BOOLEAN]
    BY <1>14, PostedTypes DEF ReviewFails, At, Working, PassStates, TypeOK
  <2>2. labelled' \in BOOLEAN
    BY <1>14 DEF ReviewFails, TypeOK, PassStates
  <2>3. pass[p].step \in Working
    BY <1>14 DEF ReviewFails, Working
  <2>4. /\ checks' \in Seq(Checks)
        /\ \A c \in Ids : c \in DOMAIN checks' /\ checks'[c].head = checks[c].head
    BY <1>14, EffectTypes DEF ReviewFails
  <2>5. /\ HasCheck(pass[p])' /\ pass' \in [Passes -> PassStates]
        /\ \A q \in Passes : q # p => pass'[q] = pass[q]
    BY <1>1, <1>14, <2>3, <2>4 DEF ReviewFails, Steps, Early, Working
  <2> QED
    BY <1>14, <2>1, <2>2, <2>4, <2>5, TypeKept, FaultBounded DEF ReviewFails, TypeOK
<1> QED
  BY <1>2, <1>3, <1>4, <1>5, <1>6, <1>9, <1>10, <1>11, <1>12, <1>13, <1>14

LEMMA TypeInit == Init => TypeOK
<1> SUFFICES ASSUME Init PROVE TypeOK
  OBVIOUS
<1>1. NoPass \in PassStates /\ NoPass.step = "idle"
  BY DEF NoPass, PassStates, Steps, Modes
<1>2. /\ pass \in [Passes -> PassStates]
      /\ \A p \in Passes : pass[p].step = "idle"
  BY <1>1 DEF Init
<1>3. 1 \in Heads /\ 0 \in 0..MaxRequests /\ 0 \in 0..MaxSilences /\ 0 \in 0..MaxFaults
  BY PassesAssumption DEF Heads
<1>4. checks \in Seq(Checks) /\ Ids = {}
  BY DEF Init, Ids
<1> QED
  BY <1>2, <1>3, <1>4 DEF Init, TypeOK

LEMMA TypeStep == TypeOK /\ [Next]_vars => TypeOK'
<1> SUFFICES ASSUME TypeOK, [Next]_vars PROVE TypeOK'
  OBVIOUS
<1>1. CASE UNCHANGED vars
  BY <1>1 DEF vars, shared, github, counters, TypeOK, Ids, OnHead
<1>2. CASE Next
  BY <1>2, WorldTypes, EarlyTypes, MoveStepTypes, SelectTypes, EndStepTypes, WorkStepTypes
     DEF Next, Progress, Failure
<1> QED
  BY <1>1, <1>2

\* The variables keep their types, whatever the number of passes, heads and
\* failures: a pass never loses the check it opened.
THEOREM TypeCorrect == Spec => []TypeOK
  BY TypeInit, TypeStep, PTL DEF Spec

-----------------------------------------------------------------------------
(***************************************************************************)
(* The invariant.                                                          *)
(***************************************************************************)

\* No verdict of c is confirmed.
Unconfirmed(c) == \A v \in VerdictsOf(c) : v.late

Shows(c, green) == \E v \in VerdictsOf(c) : v.approve = green

\* An approving judgement of an earlier head with the patch of h.
Rests(h) ==
    \E j \in ledger : /\ j.source = 0 /\ j.approve
                      /\ checks[j.check].head < h
                      /\ patch[checks[j.check].head] = patch[h]

\* What a pass knows: its receipts are of the ledger; the check it works on
\* is young and still its own to conclude; what it is about to deny is not
\* confirmed, and what it is about to show is.
Knows(s) ==
    /\ s.receipts \subseteq ledger /\ s.head <= head
    /\ s.step \in Working => ~checks[s.check].stale
    /\ s.step = "interrupt" => checks[s.check].stale
    /\ s.step \in {"judge", "silent", "attest"} => checks[s.check].title \in {"", "verdict"}
    /\ s.step \in {"interrupt", "judge", "silent", "attest", "tell", "error"} =>
           Unconfirmed(s.check)
    /\ s.step \in {"publish", "review"} => Shows(s.check, s.approve)
    /\ s.step \in Early => s.source = 0
    /\ s.source # 0 => s.head \in 1..head /\ Rests(s.head)

\* No two passes work on one check.
Apart ==
    \A p, q \in Passes :
        p # q /\ pass[p].step \in Working /\ pass[q].step \in Working
          => pass[p].check # pass[q].check

IInv ==
    /\ TypeOK
    /\ GitHubShowsTheLedger
    /\ CarriedRestsOnAJudgement
    /\ \A p \in Passes : Knows(pass[p])
    /\ Apart
    /\ \A v \in spool : v.late
    /\ \A c \in Ids : checks[c].head <= head

-----------------------------------------------------------------------------
(***************************************************************************)
(* What a step may do to what the passes share; W is the pass that takes   *)
(* it, if any.                                                             *)
(***************************************************************************)

\* Heads and rows stay, a check ages only when nobody works on it.
Onward ==
    /\ head' \in Nat /\ head <= head' /\ \A h \in 1..head : patch'[h] = patch[h]
    /\ ledger \subseteq ledger'
    /\ \A c \in Ids : /\ c \in DOMAIN checks' /\ checks'[c].head = checks[c].head
                      /\ \/ checks'[c].stale = checks[c].stale
                         \/ checks'[c].stale /\ \A q \in Passes : pass[q].check # c
    /\ \A c \in DOMAIN checks' \ Ids :
           ~checks'[c].green /\ checks'[c].title = "" /\ checks'[c].head <= head

\* A check is left alone, shows a row, or denies what is not confirmed.
Concludes(W, c) ==
    \/ checks'[c].title = checks[c].title /\ checks'[c].green = checks[c].green
    \/ checks'[c].title = "verdict" /\ Shows(c, checks'[c].green)
    \/ /\ checks'[c].title # "verdict" /\ ~checks'[c].green /\ Unconfirmed(c)
       /\ \E p \in W : pass[p].step \in Working \cup {"interrupt"} /\ pass[p].check = c

\* A row is confirmed to the pass that attests it, under a check that denies
\* nothing; a carried one rests on a judgement.
Records(W, v) ==
    /\ v.check \in Ids
    /\ \/ v.late
       \/ /\ checks' = checks /\ checks[v.check].title \in {"", "verdict"}
          /\ \E p \in W : pass[p].step = "attest" /\ pass[p].check = v.check
    /\ v.source # 0 => checks[v.check].head \in 1..head /\ Rests(checks[v.check].head)

StepKeeps(W) ==
    /\ Onward
    /\ \A c \in Ids : Concludes(W, c)
    /\ \A v \in ledger' : v \in ledger \/ Records(W, v)
    /\ \A v \in spool' : v.late /\ (v \in spool \/ Records(W, v))
    /\ \A r \in reviews' : r \in reviews \/ (r.approve => Shows(r.check, TRUE))

\* The greatest of some numbers up to a bound is one of them.
LEMMA GreatestIn ==
    ASSUME NEW n \in Nat, NEW S \in SUBSET (1..n), S # {}
    PROVE  Greatest(S) \in S
<1> DEFINE R == {ss \in Nat \X Nat : ss[1] < ss[2]}
           T == {n - x : x \in S}
<1>1. IsWellFoundedOn(R, Nat)
  BY NatLessThanWellFounded DEF OpToRel
<1>2. T \subseteq Nat /\ T # {}
  <2>1. \A x \in S : x \in Nat /\ n - x \in Nat
    OBVIOUS
  <2> QED
    BY <2>1
<1>3. PICK t \in T : \A u \in T : <<u, t>> \notin R
  <2> HIDE DEF T, R
  <2> QED
    BY <1>1, <1>2, WFMin
<1>4. PICK x \in S : t = n - x
  OBVIOUS
<1>5. ASSUME NEW y \in S PROVE y <= x
  <2>1. n - y \in T
    OBVIOUS
  <2>2. x \in Nat /\ y \in Nat /\ n - y \in Nat /\ n - x \in Nat
    OBVIOUS
  <2>3. ~(n - y < n - x)
    BY <1>3, <1>4, <2>1, <2>2
  <2> QED
    BY <2>2, <2>3
<1> QED
  BY <1>5 DEF Greatest

LEMMA HeadTypes ==
    ASSUME TypeOK
    PROVE  head \in Nat \ {0}
  BY PassesAssumption DEF TypeOK, Heads

LEMMA PassHead ==
    ASSUME TypeOK, NEW p \in Passes
    PROVE  pass[p].head \in Nat
<1>1. pass[p].head = 0 \/ pass[p].head \in 1..MaxHeads
  BY DEF TypeOK, PassStates, Heads
<1> QED
  BY <1>1, PassesAssumption

LEMMA CheckTypes ==
    ASSUME TypeOK, NEW c \in Ids
    PROVE  /\ checks[c] \in Checks
           /\ checks[c].head \in Heads /\ checks[c].head \in Nat \ {0}
           /\ checks[c].green \in BOOLEAN /\ checks[c].title \in Titles
<1>1. checks[c] \in Checks
  BY DEF TypeOK, Ids
<1>2. checks[c].head \in Nat \ {0}
  BY <1>1 DEF Checks, Heads
<1> QED
  BY <1>1, <1>2 DEF Checks

LEMMA HeadOnward ==
    ASSUME TypeOK, Onward
    PROVE  /\ \A h \in Nat : h <= head => h <= head'
           /\ \A h \in 1..head : h \in 1..head'
<1>1. head \in Nat /\ head' \in Nat /\ head <= head'
  BY HeadTypes DEF Onward
<1> QED
  BY <1>1

\* A judgement an approval rests on stays.
LEMMA RestsStays ==
    ASSUME TypeOK, Onward, \A c \in Ids : checks[c].head <= head,
           NEW h \in 1..head, Rests(h)
    PROVE  Rests(h)'
<1> PICK j \in ledger : /\ j.source = 0 /\ j.approve
                        /\ checks[j.check].head < h
                        /\ patch[checks[j.check].head] = patch[h]
  BY DEF Rests
<1>0. j \in ledger' /\ j.check \in Ids /\ head \in Nat
  BY HeadTypes DEF TypeOK, Onward
<1>1. checks'[j.check].head = checks[j.check].head /\ checks[j.check].head \in 1..head
  <2>1. checks[j.check].head \in Nat \ {0} /\ checks[j.check].head <= head
    BY <1>0, CheckTypes
  <2>2. checks'[j.check].head = checks[j.check].head
    BY <1>0 DEF Onward
  <2> QED
    BY <1>0, <2>1, <2>2
<1>2. patch'[checks[j.check].head] = patch[checks[j.check].head] /\ patch'[h] = patch[h]
  BY <1>1 DEF Onward
<1> QED
  BY <1>0, <1>1, <1>2 DEF Rests

LEMMA ShowsStays ==
    ASSUME Onward, NEW c, NEW green, Shows(c, green)
    PROVE  Shows(c, green)'
  BY DEF Onward, Shows, VerdictsOf

\* What GitHub shows.
LEMMA ShownKept ==
    ASSUME TypeOK, GitHubShowsTheLedger, NEW W, StepKeeps(W)
    PROVE  GitHubShowsTheLedger'
<1>1. \A c \in Ids' : /\ checks'[c].green => Shows(c, TRUE)'
                      /\ checks'[c].title = "verdict" => Shows(c, checks[c].green)'
  <2> TAKE c \in Ids'
  <2>1. CASE c \notin Ids
    BY <2>1 DEF StepKeeps, Onward, Ids
  <2>2. CASE c \in Ids
    <3>1. Shows(c, checks'[c].green) => Shows(c, checks[c].green)'
      BY DEF StepKeeps, Onward, Shows, VerdictsOf
    <3>2. Shows(c, TRUE) => Shows(c, TRUE)'
      BY DEF StepKeeps, Onward, Shows, VerdictsOf
    <3>3. checks[c].green => Shows(c, TRUE)
      BY <2>2 DEF GitHubShowsTheLedger, ShownIsAttested, Shows, TypeOK, Verdicts, VerdictsOf
    <3>4. checks[c].title = "verdict" => Shows(c, checks[c].green)
      BY <2>2 DEF GitHubShowsTheLedger, ShownIsAttested, Shows
    <3>5. Concludes(W, c) /\ checks[c].green \in BOOLEAN
      BY <2>2, CheckTypes DEF StepKeeps
    <3> QED
      BY <3>1, <3>2, <3>3, <3>4, <3>5 DEF Concludes
  <2> QED
    BY <2>1, <2>2
<1>2. \A r \in reviews' : r.approve => Shows(r.check, TRUE)'
  <2> TAKE r \in reviews'
  <2>1. ASSUME r \in reviews, r.approve PROVE Shows(r.check, TRUE)
    <3>1. PICK v \in VerdictsOf(r.check) : v.approve
      BY <2>1 DEF GitHubShowsTheLedger, ShownIsAttested
    <3>2. v.approve \in BOOLEAN
      BY DEF VerdictsOf, TypeOK, Verdicts
    <3> QED
      BY <3>1, <3>2 DEF Shows
  <2>2. r.approve => Shows(r.check, TRUE)
    BY <2>1 DEF StepKeeps
  <2> QED
    BY <2>2, ShowsStays DEF StepKeeps
<1>3. ShownIsAttested'
  BY <1>1, <1>2 DEF ShownIsAttested, Shows
<1>4. ConfirmedIsNeverDenied'
  <2> SUFFICES ASSUME NEW v \in ledger', ~v.late
               PROVE  checks'[v.check].title \in {"", "verdict"}
    BY DEF ConfirmedIsNeverDenied
  <2>1. CASE v \in ledger
    <3>1. v.check \in Ids /\ checks[v.check].title \in {"", "verdict"} /\ ~Unconfirmed(v.check)
      BY <2>1 DEF GitHubShowsTheLedger, ConfirmedIsNeverDenied, TypeOK, Unconfirmed, VerdictsOf
    <3> QED
      BY <3>1 DEF StepKeeps, Concludes
  <2>2. CASE v \notin ledger
    BY <2>2 DEF StepKeeps, Records
  <2> QED
    BY <2>1, <2>2
<1> QED
  BY <1>3, <1>4 DEF GitHubShowsTheLedger

\* What carried approvals rest on.
LEMMA CarriedKept ==
    ASSUME TypeOK, CarriedRestsOnAJudgement, \A c \in Ids : checks[c].head <= head,
           NEW W, StepKeeps(W)
    PROVE  CarriedRestsOnAJudgement'
<1> SUFFICES ASSUME NEW v \in ledger' \cup spool', v.source # 0
             PROVE  Rests(checks[v.check].head)'
  BY DEF CarriedRestsOnAJudgement, Rests
<1>1. /\ v.check \in Ids /\ checks[v.check].head \in 1..head
      /\ Rests(checks[v.check].head)
  <2>1. CASE v \in ledger \cup spool
    <3>1. v.check \in Ids /\ head \in Nat
      BY <2>1, HeadTypes DEF TypeOK
    <3>2. checks[v.check].head \in Nat \ {0} /\ checks[v.check].head <= head
      BY <3>1, CheckTypes
    <3> QED
      BY <2>1, <3>1, <3>2 DEF CarriedRestsOnAJudgement, Rests
  <2>2. CASE v \notin ledger \cup spool
    BY <2>2 DEF StepKeeps, Records
  <2> QED
    BY <2>1, <2>2
<1>2. ASSUME NEW h \in 1..head, h = checks[v.check].head, Rests(h) PROVE Rests(h)'
  BY <1>2, RestsStays DEF StepKeeps
<1>3. checks'[v.check].head = checks[v.check].head
  BY <1>1 DEF StepKeeps, Onward
<1> QED
  BY <1>1, <1>2, <1>3 DEF Rests

\* A pass that keeps its head keeps what its approval rests on.
LEMMA HeadKept ==
    ASSUME IInv, NEW W, StepKeeps(W), NEW p \in Passes,
           pass'[p].head = pass[p].head, pass'[p].source = pass[p].source
    PROVE  /\ pass'[p].head <= head'
           /\ pass'[p].source # 0 => pass'[p].head \in 1..head' /\ Rests(pass[p].head)'
<1>0. Knows(pass[p]) /\ TypeOK
  BY DEF IInv
<1>1. pass'[p].head <= head'
  <2>1. pass[p].head \in Nat
    BY <1>0, PassHead
  <2>2. pass[p].head <= head
    BY <1>0 DEF Knows
  <2> QED
    BY <1>0, <2>1, <2>2, HeadOnward DEF StepKeeps
<1>2. ASSUME pass'[p].source # 0
      PROVE  pass'[p].head \in 1..head' /\ Rests(pass[p].head)'
  <2>1. pass[p].head \in 1..head /\ Rests(pass[p].head)
    BY <1>0, <1>2 DEF Knows
  <2>2. PICK h \in 1..head : h = pass[p].head
    BY <2>1
  <2>3. Rests(h)
    BY <2>1, <2>2
  <2>4. Rests(h)'
    BY <2>3, RestsStays DEF StepKeeps, IInv
  <2>5. pass'[p].head = h
    BY <2>2
  <2>6. h \in 1..head'
    BY <1>0, HeadOnward DEF StepKeeps
  <2> QED
    BY <2>4, <2>5, <2>6 DEF Rests
<1> QED
  BY <1>1, <1>2

\* What a pass that stands still knows, while W steps.
LEMMA OthersKnow ==
    ASSUME IInv, NEW W \in SUBSET Passes, StepKeeps(W), NEW q \in Passes \ W, pass'[q] = pass[q]
    PROVE  Knows(pass[q])'
<1> DEFINE s == pass[q]
           c == s.check
<1>1. /\ TypeOK /\ Knows(s) /\ HasCheck(s) /\ s \in PassStates
      /\ s.step \in Working \cup {"interrupt"} => c \in Ids
  BY CheckKept DEF IInv
<1>2. s.receipts \subseteq ledger'
  BY <1>1 DEF Knows, StepKeeps, Onward
<1>3. ASSUME c \in Ids PROVE checks'[c].stale = checks[c].stale
  BY <1>3 DEF StepKeeps, Onward
<1>4. ASSUME s.step \in Working, NEW p \in W, pass[p].step \in Working \cup {"interrupt"}
      PROVE  pass[p].check # c
  <2>1. CASE pass[p].step \in Working
    BY <1>4, <2>1 DEF IInv, Apart
  <2>2. CASE pass[p].step = "interrupt"
    BY <1>1, <1>4, <2>2 DEF IInv, Knows
  <2> QED
    BY <1>4, <2>1, <2>2
<1>5. s.step \in {"judge", "silent", "attest"} => checks'[c].title \in {"", "verdict"}
  <2> SUFFICES ASSUME s.step \in {"judge", "silent", "attest"}
               PROVE  checks'[c].title \in {"", "verdict"}
    OBVIOUS
  <2>1. s.step \in Working /\ c \in Ids /\ checks[c].title \in {"", "verdict"}
    BY <1>1 DEF Working, Knows
  <2> QED
    BY <1>4, <2>1 DEF StepKeeps, Concludes
<1>6. s.step \in {"interrupt", "judge", "silent", "attest", "tell", "error"} => Unconfirmed(c)'
  <2> SUFFICES ASSUME s.step \in {"interrupt", "judge", "silent", "attest", "tell", "error"},
                      NEW v \in ledger', v.check = c
               PROVE  v.late
    BY DEF Unconfirmed, VerdictsOf
  <2>1. CASE v \in ledger
    BY <1>1, <2>1 DEF Knows, Unconfirmed, VerdictsOf
  <2>2. CASE v \notin ledger /\ s.step = "interrupt"
    <3>1. ASSUME NEW p \in W, pass[p].step = "attest" PROVE pass[p].check # c
      <4>1. ~checks[pass[p].check].stale
        BY <3>1 DEF IInv, Knows, Working
      <4>2. checks[c].stale
        BY <1>1, <2>2 DEF Knows
      <4> QED
        BY <4>1, <4>2
    <3>2. Records(W, v)
      BY <2>2 DEF StepKeeps
    <3> QED
      BY <3>1, <3>2 DEF Records
  <2>3. CASE v \notin ledger /\ s.step # "interrupt"
    BY <1>4, <2>3 DEF StepKeeps, Records, Working
  <2> QED
    BY <2>1, <2>2, <2>3
<1>7. s.step \in {"publish", "review"} => Shows(c, s.approve)'
  <2>1. ASSUME Shows(c, s.approve) PROVE Shows(c, s.approve)'
    BY <2>1, ShowsStays DEF StepKeeps, Onward, Shows, VerdictsOf
  <2> QED
    BY <1>1, <2>1 DEF Knows
<1>8. pass'[q].head <= head' /\ (pass'[q].source # 0 =>
            pass'[q].head \in 1..head' /\ Rests(pass[q].head)')
  BY HeadKept
<1> QED
  BY <1>1, <1>2, <1>3, <1>5, <1>6, <1>7, <1>8 DEF Knows

LEMMA HeadsKept ==
    ASSUME TypeOK, checks' \in Seq(Checks), \A c \in Ids : checks[c].head <= head, Onward
    PROVE  \A c \in Ids' : checks'[c].head <= head'
<1> TAKE c \in Ids'
<1>1. head \in Nat /\ head' \in Nat /\ head <= head'
  BY HeadTypes DEF Onward
<1>2. CASE c \in Ids
  <2>1. /\ checks'[c].head = checks[c].head /\ checks[c].head \in Nat
        /\ checks[c].head <= head
    BY <1>2, CheckTypes DEF Onward
  <2> QED
    BY <1>1, <2>1
<1>3. CASE c \notin Ids
  <2>1. c \in DOMAIN checks' \ Ids
    BY <1>3 DEF Ids
  <2>2. checks'[c].head <= head
    BY <2>1 DEF Onward
  <2>3. checks'[c] \in Checks
    BY DEF Ids
  <2>4. checks'[c].head \in Nat
    BY <2>3, PassesAssumption DEF Checks, Heads
  <2> QED
    BY <1>1, <2>2, <2>4
<1> QED
  BY <1>2, <1>3

\* The world around the passes.
LEMMA WorldKeeps ==
    ASSUME IInv, TypeOK', StepKeeps({}), UNCHANGED pass
    PROVE  IInv'
<1>1. \A q \in Passes : Knows(pass[q])'
  BY OthersKnow
<1>2. Apart'
  BY DEF IInv, Apart
<1>3. checks' \in Seq(Checks)
  BY DEF TypeOK
<1> QED
  BY <1>1, <1>2, <1>3, ShownKept, CarriedKept, HeadsKept DEF IInv, StepKeeps

\* A step of one pass: what the others know stays, what it knows is its own.
LEMMA PassKeeps ==
    ASSUME IInv, TypeOK', NEW p \in Passes, StepKeeps({p}),
           \A q \in Passes : q # p => pass'[q] = pass[q],
           Knows(pass[p])',
           pass'[p].step \in Working =>
               \/ pass'[p].check \notin Ids
               \/ pass[p].step \in Working /\ pass'[p].check = pass[p].check
    PROVE  IInv'
<1>1. \A q \in Passes : Knows(pass[q])'
  <2> TAKE q \in Passes
  <2>1. CASE q # p
    <3>1. q \in Passes \ {p} /\ {p} \in SUBSET Passes
      BY <2>1
    <3> QED
      BY <2>1, <3>1, OthersKnow
  <2> QED
    BY <2>1
<1>2. Apart'
  <2>1. \A q \in Passes : pass[q].step \in Working => pass[q].check \in Ids
    BY CheckKept DEF IInv
  <2> QED
    BY <2>1 DEF IInv, Apart
<1>3. checks' \in Seq(Checks)
  BY DEF TypeOK
<1> QED
  BY <1>1, <1>2, <1>3, ShownKept, CarriedKept, HeadsKept DEF IInv, StepKeeps

\* A step that leaves check runs, ledger and spool alone.
LEMMA StillKeeps ==
    ASSUME IInv, NEW W, UNCHANGED <<head, patch, checks, ledger, spool>>,
           \A r \in reviews' : r \in reviews \/ (r.approve => Shows(r.check, TRUE))
    PROVE  StepKeeps(W)
<1>1. Onward
  <2>1. head' \in Nat /\ head <= head'
    BY HeadTypes DEF IInv
  <2>2. /\ \A h \in 1..head : patch'[h] = patch[h]
        /\ ledger \subseteq ledger'
        /\ DOMAIN checks' = Ids
        /\ \A c \in Ids : checks'[c].head = checks[c].head /\ checks'[c].stale = checks[c].stale
    BY DEF Ids
  <2> QED
    BY <2>1, <2>2 DEF Onward
<1>2. \A c \in Ids : Concludes(W, c)
  BY DEF Concludes
<1> QED
  BY <1>1, <1>2 DEF StepKeeps, IInv

\* A check is updated to show what the ledger holds or, by the pass that works
\* on it, to deny what nobody confirmed.
LEMMA CompletedConcludes ==
    ASSUME IInv, NEW W, NEW c \in Ids, NEW green \in BOOLEAN, NEW title \in Titles,
           Completed(c, green, title),
           \/ title = "verdict" /\ Shows(c, green)
           \/ /\ title # "verdict" /\ ~green /\ Unconfirmed(c)
              /\ \E p \in W : /\ pass[p].step \in Working \cup {"interrupt"}
                              /\ pass[p].check = c,
           UNCHANGED <<head, patch, ledger>>
    PROVE  Onward /\ \A d \in Ids : Concludes(W, d)
<1>1. checks \in Seq(Checks) /\ head \in Nat
  BY HeadTypes DEF IInv, TypeOK
<1>2. /\ DOMAIN checks' = Ids
      /\ \A d \in Ids : /\ checks'[d].head = checks[d].head
                        /\ checks'[d].stale = checks[d].stale
                        /\ d # c => checks'[d] = checks[d]
      /\ checks'[c].green = green /\ checks'[c].title = title
  BY <1>1, CompletedKeeps
<1>3. Onward
  <2>1. head' \in Nat /\ head <= head'
    BY <1>1
  <2>2. (\A h \in 1..head : patch'[h] = patch[h]) /\ ledger \subseteq ledger'
    OBVIOUS
  <2> QED
    BY <1>2, <2>1, <2>2 DEF Onward
<1>4. ASSUME NEW d \in Ids PROVE Concludes(W, d)
  <2>1. CASE d = c
    BY <1>2, <2>1 DEF Concludes
  <2>2. CASE d # c
    BY <1>2, <2>2 DEF Concludes
  <2> QED
    BY <2>1, <2>2
<1> QED
  BY <1>3, <1>4

\* start_check.
LEMMA OpenedConcludes ==
    ASSUME IInv, NEW p \in Passes, NEW W, At(p, "start"), Opened(p), pass[p].head <= head,
           UNCHANGED <<head, patch, ledger>>
    PROVE  Onward /\ \A c \in Ids : Concludes(W, c)
<1>1. pass[p].head \in Heads /\ checks \in Seq(Checks) /\ head \in Nat /\ pass[p] \in PassStates
  BY CheckKept, HeadTypes DEF IInv, TypeOK, At, Early
<1>2. /\ DOMAIN checks' = Ids \cup {Len(checks) + 1}
      /\ \A d \in Ids : checks'[d] = checks[d]
      /\ checks'[Len(checks) + 1].head = pass[p].head
      /\ ~checks'[Len(checks) + 1].green
      /\ checks'[Len(checks) + 1].title = ""
  BY <1>1, OpenedKeeps
<1>3. Onward
  <2>1. head' \in Nat /\ head <= head'
    BY <1>1
  <2>2. (\A h \in 1..head : patch'[h] = patch[h]) /\ ledger \subseteq ledger'
    OBVIOUS
  <2> QED
    BY <1>2, <2>1, <2>2 DEF Onward
<1> QED
  BY <1>2, <1>3 DEF Concludes

\* A call to GitHub whose answer is lost does what it does when it is answered.
LEMMA EffectConcludes ==
    ASSUME IInv, NEW p \in Passes, UNCHANGED checks \/ Effect(p),
           UNCHANGED <<head, patch, ledger>>
    PROVE  Onward /\ \A c \in Ids : Concludes({p}, c)
<1>0. pass[p].approve \in BOOLEAN /\ Knows(pass[p])
  BY CheckKept DEF IInv, PassStates
<1>1. CASE UNCHANGED checks
  <2>1. head' \in Nat /\ head <= head'
    BY HeadTypes DEF IInv
  <2>2. /\ \A h \in 1..head : patch'[h] = patch[h]
        /\ ledger \subseteq ledger'
        /\ DOMAIN checks' = Ids
        /\ \A c \in Ids : /\ checks'[c].head = checks[c].head
                          /\ checks'[c].stale = checks[c].stale
    BY <1>1 DEF Ids
  <2> QED
    BY <1>1, <2>1, <2>2 DEF Onward, Concludes
<1>2. CASE /\ pass[p].step \in {"interrupt", "silent", "tell", "error"}
           /\ \E title \in Titles \ {"verdict"} : Completed(pass[p].check, FALSE, title)
  <2>1. /\ Unconfirmed(pass[p].check) /\ pass[p].step \in Working \cup {"interrupt"}
        /\ pass[p].check \in Ids
    BY <1>0, <1>2, CheckKept DEF Knows, Working, IInv
  <2> QED
    BY <1>2, <2>1, CompletedConcludes
<1>3. CASE At(p, "publish") /\ Completed(pass[p].check, pass[p].approve, "verdict")
  <2>1. /\ Shows(pass[p].check, pass[p].approve) /\ pass[p].check \in Ids
        /\ "verdict" \in Titles
    BY <1>0, <1>3, CheckKept DEF Knows, Working, At, Titles, IInv
  <2> QED
    BY <1>0, <1>3, <2>1, CompletedConcludes
<1>4. CASE At(p, "start") /\ Opened(p)
  BY <1>0, <1>4, OpenedConcludes DEF Knows
<1> QED
  BY <1>1, <1>2, <1>3, <1>4 DEF Effect, At, NoVerdictTitles, Titles

\* A pass that ends forgets what it knew.
LEMMA EndKeeps ==
    ASSUME IInv, TypeOK', NEW p \in Passes, Ends(p), StepKeeps({p})
    PROVE  IInv'
<1>1. /\ \A q \in Passes : q # p => pass'[q] = pass[q]
      /\ pass'[p] = NoPass
  BY EndsIdle DEF IInv, TypeOK
<1>2. Knows(pass[p])'
  <2>1. head' \in Nat
    BY DEF StepKeeps, Onward
  <2> QED
    BY <1>1, <2>1 DEF Knows, NoPass, Working
<1> QED
  BY <1>1, <1>2, PassKeeps DEF NoPass, Working

\* A pass that goes on with the check it has, if any.
LEMMA OnKeeps ==
    ASSUME IInv, TypeOK', NEW p \in Passes, StepKeeps({p}),
           \A q \in Passes : q # p => pass'[q] = pass[q],
           pass'[p].receipts = pass[p].receipts, pass'[p].head = pass[p].head,
           pass'[p].source = pass[p].source,
           pass'[p].step # "close" => pass'[p].check = pass[p].check,
           pass'[p].step # "interrupt",
           pass'[p].step \in Working => pass[p].step \in Working,
           pass'[p].step \in Early => pass[p].step \in Early,
           pass'[p].step \in {"judge", "silent", "attest"} =>
               checks'[pass[p].check].title \in {"", "verdict"},
           pass'[p].step \in {"judge", "silent", "attest", "tell", "error"} =>
               Unconfirmed(pass[p].check)',
           pass'[p].step \in {"publish", "review"} => Shows(pass[p].check, pass[p].approve)'
    PROVE  IInv'
<1> DEFINE s == pass[p]
<1>1. /\ Knows(s) /\ HasCheck(s) /\ s \in PassStates /\ TypeOK
      /\ s.step \in Working => s.check \in Ids
  BY CheckKept DEF IInv
<1>2. s.receipts \subseteq ledger'
  BY <1>1 DEF Knows, StepKeeps, Onward
<1>3. pass'[p].step \in Working => ~checks'[s.check].stale
  BY <1>1 DEF Knows, StepKeeps, Onward
<1>4. pass'[p].head <= head' /\ (pass'[p].source # 0 =>
            pass'[p].head \in 1..head' /\ Rests(pass[p].head)')
  BY HeadKept
<1>5. Knows(pass[p])'
  <2>1. pass'[p].step \in Early => s.source = 0
    BY <1>1 DEF Knows
  <2> QED
    BY <1>2, <1>3, <1>4, <2>1 DEF Knows, Working
<1> QED
  BY <1>5, PassKeeps DEF Working

-----------------------------------------------------------------------------
(***************************************************************************)
(* The steps, one after the other.                                         *)
(***************************************************************************)

LEMMA WorldStep ==
    ASSUME IInv, TypeOK', \/ Push \/ Label
                          \/ \E c \in Ids : Age(c)
                          \/ \E v \in spool : Replay(v)
    PROVE  IInv'
<1>1. CASE Push
  <2>1. head \in Nat /\ head' = head + 1
    BY <1>1, HeadTypes DEF Push, IInv
  <2>2. \A h \in 1..head : patch'[h] = patch[h]
    <3> TAKE h \in 1..head
    <3>1. h # head + 1
      BY <2>1
    <3>2. patch \in [Heads -> Heads]
      BY DEF IInv, TypeOK
    <3>3. head \in 1..MaxHeads
      BY DEF IInv, TypeOK, Heads
    <3>4. h \in Heads
      BY <3>3, PassesAssumption DEF Heads
    <3> QED
      BY <1>1, <3>1, <3>2, <3>4 DEF Push
  <2>3. ledger' = ledger /\ spool' = spool /\ checks' = checks /\ reviews' = reviews /\ pass' = pass
    BY <1>1 DEF Push
  <2>4. Onward
    <3>1. head' \in Nat /\ head <= head'
      BY <2>1
    <3>2. DOMAIN checks' = Ids /\ ledger \subseteq ledger'
      BY <2>3 DEF Ids
    <3> QED
      BY <2>2, <2>3, <3>1, <3>2 DEF Onward
  <2>5. StepKeeps({})
    BY <2>3, <2>4 DEF StepKeeps, Concludes, IInv
  <2> QED
    BY <2>3, <2>5, WorldKeeps
<1>2. CASE Label
  BY <1>2, StillKeeps, WorldKeeps DEF Label
<1>3. CASE \E c \in Ids : Age(c)
  <2> PICK c \in Ids : Age(c)
    BY <1>3
  <2>1. /\ DOMAIN checks' = Ids
        /\ \A d \in Ids : d # c => checks'[d] = checks[d]
        /\ checks'[c] = [checks[c] EXCEPT !.stale = TRUE]
        /\ checks[c] \in Checks
    BY CheckTypes DEF Age, Ids, IInv, TypeOK
  <2>2. /\ checks'[c].stale
        /\ checks'[c].head = checks[c].head /\ checks'[c].title = checks[c].title
        /\ checks'[c].green = checks[c].green
    BY <2>1 DEF Checks
  <2>3. /\ ledger' = ledger /\ spool' = spool /\ reviews' = reviews /\ pass' = pass
        /\ head' = head /\ patch' = patch
        /\ \A q \in Passes : pass[q].check # c
    BY DEF Age, github
  <2>4. head' \in Nat /\ head <= head'
    BY <2>3, HeadTypes DEF IInv
  <2>5. Onward
    BY <2>1, <2>2, <2>3, <2>4 DEF Onward
  <2>6. \A d \in Ids : Concludes({}, d)
    BY <2>1, <2>2 DEF Concludes
  <2>7. StepKeeps({})
    BY <2>3, <2>5, <2>6 DEF StepKeeps, IInv
  <2> QED
    BY <2>3, <2>7, WorldKeeps
<1>4. CASE \E v \in spool : Replay(v)
  <2> PICK v \in spool : Replay(v)
    BY <1>4
  <2>1. /\ ledger' = ledger \cup {v} /\ spool' = spool \ {v} /\ reviews' = reviews
        /\ head' = head /\ patch' = patch /\ checks' = checks /\ pass' = pass
    BY DEF Replay, github
  <2>2. head' \in Nat /\ head <= head'
    BY <2>1, HeadTypes DEF IInv
  <2>3. Onward
    BY <2>1, <2>2 DEF Onward, Ids
  <2>4. v.late /\ v.check \in Ids
    BY DEF IInv, TypeOK
  <2>5. v.source # 0 => checks[v.check].head \in 1..head /\ Rests(checks[v.check].head)
    <3>1. checks[v.check].head \in 1..head
      <4>1. /\ checks[v.check].head \in Nat \ {0} /\ checks[v.check].head <= head
            /\ head \in Nat
        BY <2>4, CheckTypes, HeadTypes DEF IInv
      <4> QED
        BY <4>1
    <3> QED
      BY <3>1 DEF IInv, CarriedRestsOnAJudgement, Rests
  <2>6. StepKeeps({})
    BY <2>1, <2>3, <2>4, <2>5 DEF StepKeeps, Concludes, Records, IInv
  <2> QED
    BY <2>1, <2>6, WorldKeeps
<1> QED
  BY <1>1, <1>2, <1>3, <1>4

\* A pass that goes on without a check, and changes nothing others read.
LEMMA EarlyGoKeeps ==
    ASSUME IInv, TypeOK', NEW p \in Passes,
           NEW s \in {"select", "load", "decide", "close", "cover", "start"}, Goes(p, s),
           UNCHANGED <<head, patch, checks, reviews, ledger, spool>>,
           s \in Early => pass[p].step \in Early
    PROVE  IInv'
<1>1. StepKeeps({p})
  BY StillKeeps
<1>2. /\ \A q \in Passes : q # p => pass'[q] = pass[q]
      /\ pass'[p].step = s
      /\ pass'[p].receipts = pass[p].receipts /\ pass'[p].head = pass[p].head
      /\ pass'[p].source = pass[p].source /\ pass'[p].check = pass[p].check
  BY GoesKeeps DEF IInv, TypeOK, Steps
<1> QED
  BY <1>1, <1>2, OnKeeps DEF Working

\* A pass that begins knows the rows it listed, and nothing else.
LEMMA FreshKeeps ==
    ASSUME IInv, TypeOK', NEW p \in Passes, NEW listed \in SUBSET ledger,
           NEW s \in {"reconcile", "load"}, NEW mode \in Modes,
           pass' = [pass EXCEPT ![p] = [NoPass EXCEPT !.step = s, !.mode = mode,
                                                      !.receipts = listed]],
           UNCHANGED <<head, patch, checks, reviews, ledger, spool>>
    PROVE  IInv'
<1>1. StepKeeps({p})
  BY StillKeeps
<1>2. /\ \A q \in Passes : q # p => pass'[q] = pass[q]
      /\ pass'[p].step = s /\ pass'[p].receipts = listed /\ pass'[p].head = 0
      /\ pass'[p].source = 0
  BY DEF IInv, TypeOK, NoPass
<1>3. 0 <= head'
  BY HeadTypes DEF IInv
<1>4. Knows(pass[p])'
  BY <1>2, <1>3 DEF Knows, Working
<1> QED
  BY <1>1, <1>2, <1>4, PassKeeps DEF Working

LEMMA EarlyStep ==
    ASSUME IInv, TypeOK', NEW p \in Passes,
           \/ Poll(p) \/ Ask(p) \/ Carry(p)
           \/ Reconciled(p) \/ ReconcileFails(p) \/ Select(p) \/ DecideJudge(p)
           \/ CloseDone(p) \/ Uncovered(p)
    PROVE  IInv'
<1>1. CASE Poll(p) \/ Ask(p)
  <2>1. PICK mode \in Modes : Begins(p, mode)
    BY <1>1 DEF Poll, Ask, Modes
  <2>2. PICK listed \in {ledger, {}} :
            pass' = [pass EXCEPT ![p] = [NoPass EXCEPT !.step = "reconcile", !.mode = mode,
                                                       !.receipts = listed]]
    BY <2>1 DEF Begins
  <2>3. listed \in SUBSET ledger
    BY <2>2
  <2> QED
    BY <2>1, <2>2, <2>3, FreshKeeps DEF Begins, github
<1>2. CASE Carry(p)
  <2>1. [NoPass EXCEPT !.step = "load", !.mode = "carry"]
          = [NoPass EXCEPT !.step = "load", !.mode = "carry", !.receipts = {}]
    <3>1. NoPass \in PassStates /\ NoPass.receipts = {}
      BY DEF NoPass, PassStates, Steps, Modes
    <3> QED
      BY <3>1 DEF PassStates
  <2>2. {} \in SUBSET ledger /\ "carry" \in Modes
    BY DEF Modes
  <2> QED
    BY <1>2, <2>1, <2>2, FreshKeeps DEF Carry, github
<1>3. CASE Reconciled(p) \/ ReconcileFails(p)
  BY <1>3, EarlyGoKeeps DEF Reconciled, ReconcileFails, shared, github, At, Early
<1>4. CASE DecideJudge(p) \/ CloseDone(p) \/ Uncovered(p)
  BY <1>4, EarlyGoKeeps DEF DecideJudge, CloseDone, Uncovered, shared, github, At, Early
<1>5. CASE Select(p)
  <2>1. StepKeeps({p})
    BY <1>5, StillKeeps DEF Select, shared, github
  <2>2. /\ \A q \in Passes : q # p => pass'[q] = pass[q]
        /\ pass'[p].step = "load" /\ pass[p].step = "select"
        /\ pass'[p].receipts = pass[p].receipts /\ pass'[p].head = pass[p].head
        /\ pass'[p].source = pass[p].source /\ pass'[p].check = pass[p].check
    BY <1>5, SelectKeeps DEF IInv, Select, At
  <2> QED
    BY <2>1, <2>2, OnKeeps DEF Working, Early
<1> QED
  BY <1>1, <1>2, <1>3, <1>4, <1>5

\* Reconciliation shows a row the pass listed.
LEMMA ReconcileKeeps ==
    ASSUME IInv, TypeOK', NEW p \in Passes, Reconcile(p)
    PROVE  IInv'
<1>1. PICK c \in Lost(p), v \in pass[p].receipts :
          v.check = c /\ Completed(c, v.approve, "verdict")
  BY DEF Reconcile
<1>2. c \in Ids /\ v \in ledger /\ v.approve \in BOOLEAN /\ "verdict" \in Titles
  BY <1>1 DEF Lost, OnHead, IInv, Knows, TypeOK, Verdicts, Titles
<1>3. Shows(c, v.approve)
  BY <1>1, <1>2 DEF Shows, VerdictsOf
<1>4. /\ head' = head /\ patch' = patch /\ ledger' = ledger /\ spool' = spool
      /\ reviews' = reviews /\ pass' = pass
  BY DEF Reconcile, github
<1>5. Onward /\ \A d \in Ids : Concludes({}, d)
  BY <1>1, <1>2, <1>3, <1>4, CompletedConcludes
<1>6. StepKeeps({})
  BY <1>4, <1>5 DEF StepKeeps, IInv
<1> QED
  BY <1>4, <1>6, WorldKeeps

\* The pull request is loaded.
LEMMA LoadKeeps ==
    ASSUME IInv, TypeOK', NEW p \in Passes, Load(p)
    PROVE  IInv'
<1>1. /\ head' = head /\ patch' = patch /\ ledger' = ledger /\ spool' = spool
      /\ reviews' = reviews /\ checks' = checks
  BY DEF Load, shared, github
<1>2. StepKeeps({p})
  BY <1>1, StillKeeps
<1>3. /\ \A q \in Passes : q # p => pass'[q] = pass[q]
      /\ pass'[p].step = "decide" /\ pass'[p].head = head
      /\ pass'[p].receipts = pass[p].receipts /\ pass'[p].source = pass[p].source
  BY DEF Load, IInv, TypeOK, PassStates
<1>4. Knows(pass[p]) /\ head \in Nat \ {0}
  BY HeadTypes DEF IInv
<1>5. pass[p].source # 0 => pass'[p].head \in 1..head' /\ Rests(pass[p].head)'
  <2>1. At(p, "load") /\ pass[p] \in PassStates
    BY DEF Load, IInv, TypeOK
  <2> QED
    BY <1>4, <2>1 DEF Knows, At, Early
<1>6. Knows(pass[p])'
  <2>1. head <= head
    BY <1>4
  <2> QED
    BY <1>1, <1>3, <1>4, <1>5, <2>1 DEF Knows, Working, Early
<1> QED
  BY <1>2, <1>3, <1>6, PassKeeps DEF Working

\* The approval to carry rests on a judgement: itself, or what it rests on.
LEMMA MayCarryRests ==
    ASSUME IInv, NEW h \in 1..head, NEW c \in Ids, MayCarry(h, c)
    PROVE  Rests(h)
<1>1. PICK v \in VerdictsOf(c) : v.approve
  BY DEF MayCarry
<1>2. PICK k \in Heads : k < h /\ checks[c].head = k /\ patch[k] = patch[h]
  <2> DEFINE judged == {k \in Heads : k < h /\ OnHead(k) # {}}
  <2>1. judged # {} /\ c = Greatest(OnHead(Greatest(judged)))
    BY DEF MayCarry
  <2>2. Greatest(judged) \in judged
    <3>1. judged \subseteq 1..MaxHeads /\ MaxHeads \in Nat
      BY PassesAssumption DEF Heads
    <3> HIDE DEF judged
    <3> QED
      BY <2>1, <3>1, GreatestIn
  <2>3. c \in OnHead(Greatest(judged))
    <3>1. OnHead(Greatest(judged)) \subseteq 1..Len(checks) /\ Len(checks) \in Nat
      BY DEF OnHead, Ids, IInv, TypeOK
    <3>2. OnHead(Greatest(judged)) # {}
      BY <2>2
    <3> QED
      BY <2>1, <3>1, <3>2, GreatestIn
  <2> QED
    BY <2>2, <2>3 DEF MayCarry, OnHead
<1>3. v \in ledger /\ v.check = c /\ v.source \in Nat
  BY <1>1 DEF VerdictsOf, IInv, TypeOK, Verdicts
<1>4. CASE v.source = 0
  BY <1>1, <1>2, <1>3, <1>4 DEF Rests
<1>5. CASE v.source # 0
  <2>1. PICK j \in ledger : /\ j.source = 0 /\ j.approve
                            /\ checks[j.check].head < k
                            /\ patch[checks[j.check].head] = patch[k]
    BY <1>2, <1>3, <1>5 DEF IInv, CarriedRestsOnAJudgement
  <2>2. checks[j.check].head \in Nat
    BY CheckTypes DEF IInv, TypeOK
  <2>3. k \in Nat /\ h \in Nat
    BY PassesAssumption DEF Heads
  <2>4. checks[j.check].head < h
    BY <1>2, <2>1, <2>2, <2>3
  <2> QED
    BY <1>2, <2>1, <2>4 DEF Rests
<1> QED
  BY <1>3, <1>4, <1>5

LEMMA DecideCarryKeeps ==
    ASSUME IInv, TypeOK', NEW p \in Passes, DecideCarry(p)
    PROVE  IInv'
<1>1. PICK c \in Ids : /\ MayCarry(head, c)
                       /\ pass' = [pass EXCEPT ![p].source = c, ![p].step = "close"]
  BY DEF DecideCarry
<1>2. /\ head' = head /\ patch' = patch /\ ledger' = ledger /\ spool' = spool
      /\ reviews' = reviews /\ checks' = checks
  BY DEF DecideCarry, shared, github
<1>3. StepKeeps({p})
  BY <1>2, StillKeeps
<1>4. /\ \A q \in Passes : q # p => pass'[q] = pass[q]
      /\ pass'[p].step = "close" /\ pass'[p].head = head
      /\ pass'[p].receipts = pass[p].receipts
  BY <1>1 DEF DecideCarry, IInv, TypeOK, PassStates
<1>5. head \in 1..head /\ head <= head
  BY HeadTypes DEF IInv
<1>6. Rests(pass[p].head)'
  <2>1. Rests(head)
    BY <1>1, <1>5, MayCarryRests
  <2> QED
    BY <1>2, <1>4, <2>1 DEF Rests
<1>7. Knows(pass[p])
  BY DEF IInv
<1>8. Knows(pass[p])'
  BY <1>2, <1>4, <1>5, <1>6, <1>7 DEF Knows, Working, Early
<1> QED
  BY <1>3, <1>4, <1>8, PassKeeps DEF Working

\* What a row says of a check that is no check run yet.
LEMMA NoRowYet ==
    ASSUME IInv, NEW c, c \notin Ids
    PROVE  VerdictsOf(c) = {}
  BY DEF VerdictsOf, IInv, TypeOK

LEMMA CloseKeeps ==
    ASSUME IInv, TypeOK', NEW p \in Passes, Close(p)
    PROVE  IInv'
<1>1. PICK c \in Interrupted(p) :
          ~Attested(c) /\ pass' = [pass EXCEPT ![p].check = c, ![p].step = "interrupt"]
  BY DEF Close
<1>2. /\ head' = head /\ patch' = patch /\ ledger' = ledger /\ spool' = spool
      /\ reviews' = reviews /\ checks' = checks
  BY DEF Close, shared, github
<1>3. StepKeeps({p})
  BY <1>2, StillKeeps
<1>4. /\ \A q \in Passes : q # p => pass'[q] = pass[q]
      /\ pass'[p].step = "interrupt" /\ pass'[p].check = c
      /\ pass'[p].receipts = pass[p].receipts /\ pass'[p].head = pass[p].head
      /\ pass'[p].source = pass[p].source
  BY <1>1 DEF IInv, TypeOK, PassStates
<1>5. checks'[c].stale /\ Unconfirmed(c)'
  BY <1>1, <1>2 DEF Interrupted, Attested, Unconfirmed, VerdictsOf
<1>6. /\ pass'[p].head <= head'
      /\ pass'[p].source # 0 => pass'[p].head \in 1..head' /\ Rests(pass[p].head)'
  BY <1>3, <1>4, HeadKept
<1>7. Unconfirmed(pass[p].check)'
  BY <1>4, <1>5 DEF Unconfirmed, VerdictsOf
<1>8. pass[p].receipts \subseteq ledger'
  BY <1>2 DEF IInv, Knows
<1>9. Knows(pass[p])'
  BY <1>4, <1>5, <1>6, <1>7, <1>8 DEF Knows, Working, Early
<1> QED
  BY <1>3, <1>4, <1>9, PassKeeps DEF Working

LEMMA InterruptKeeps ==
    ASSUME IInv, TypeOK', NEW p \in Passes, Interrupt(p)
    PROVE  IInv'
<1>1. /\ pass[p].check \in Ids /\ Unconfirmed(pass[p].check) /\ pass[p].step = "interrupt"
      /\ "interrupted" \in Titles /\ FALSE \in BOOLEAN
      /\ Completed(pass[p].check, FALSE, "interrupted")
  BY CheckKept DEF IInv, Knows, Interrupt, At, Titles
<1>2. /\ head' = head /\ patch' = patch /\ ledger' = ledger /\ spool' = spool
      /\ reviews' = reviews
  BY DEF Interrupt, github
<1>3. Onward /\ \A d \in Ids : Concludes({p}, d)
  BY <1>1, <1>2, CompletedConcludes
<1>4. StepKeeps({p})
  BY <1>2, <1>3 DEF StepKeeps, IInv
<1>5. /\ \A q \in Passes : q # p => pass'[q] = pass[q]
      /\ pass'[p].step = "close"
      /\ pass'[p].receipts = pass[p].receipts /\ pass'[p].head = pass[p].head
      /\ pass'[p].source = pass[p].source
  BY DEF Interrupt, IInv, TypeOK, PassStates
<1> QED
  BY <1>4, <1>5, OnKeeps DEF Working, Early

LEMMA StartKeeps ==
    ASSUME IInv, TypeOK', NEW p \in Passes, StartCheck(p)
    PROVE  IInv'
<1> DEFINE n == Len(checks) + 1
<1>1. /\ head' = head /\ patch' = patch /\ ledger' = ledger /\ spool' = spool
      /\ reviews' = reviews
  BY DEF StartCheck, github
<1>2. pass[p].head \in Heads /\ checks \in Seq(Checks) /\ pass[p] \in PassStates
  BY CheckKept DEF IInv, TypeOK, StartCheck, At, Early
<1>3. /\ n \notin Ids
      /\ ~checks'[n].stale /\ checks'[n].title = ""
  BY <1>2, OpenedKeeps DEF StartCheck
<1>4. Onward /\ \A c \in Ids : Concludes({p}, c)
  BY <1>1, OpenedConcludes DEF StartCheck, IInv, Knows
<1>5. StepKeeps({p})
  BY <1>1, <1>4 DEF StepKeeps, IInv
<1>6. /\ \A q \in Passes : q # p => pass'[q] = pass[q]
      /\ pass'[p].step \in {"judge", "attest"} /\ pass'[p].check = n
      /\ pass'[p].receipts = pass[p].receipts /\ pass'[p].head = pass[p].head
      /\ pass'[p].source = pass[p].source
  BY DEF StartCheck, IInv, TypeOK, PassStates
<1> HIDE DEF n
<1>7. /\ pass'[p].head <= head'
      /\ pass'[p].source # 0 => pass'[p].head \in 1..head' /\ Rests(pass[p].head)'
  BY <1>5, <1>6, HeadKept
<1>8. Unconfirmed(pass[p].check)'
  BY <1>1, <1>3, <1>6, NoRowYet DEF Unconfirmed, VerdictsOf
<1>9. pass[p].receipts \subseteq ledger'
  BY <1>1 DEF IInv, Knows
<1>10. Knows(pass[p])'
  BY <1>3, <1>6, <1>7, <1>8, <1>9 DEF Knows, Working, Early
<1> QED
  BY <1>3, <1>5, <1>6, <1>10, PassKeeps

LEMMA JudgeKeeps ==
    ASSUME IInv, TypeOK', NEW p \in Passes, Judge(p)
    PROVE  IInv'
<1>1. /\ head' = head /\ patch' = patch /\ ledger' = ledger /\ spool' = spool
      /\ reviews' = reviews /\ checks' = checks
  BY DEF Judge, shared, github
<1>2. StepKeeps({p})
  BY <1>1, StillKeeps
<1>3. /\ \A q \in Passes : q # p => pass'[q] = pass[q]
      /\ pass'[p].step = "attest" /\ pass'[p].check = pass[p].check
      /\ pass'[p].receipts = pass[p].receipts /\ pass'[p].head = pass[p].head
      /\ pass'[p].source = pass[p].source
  BY DEF Judge, IInv, TypeOK, PassStates
<1>4. pass[p].step = "judge" /\ Knows(pass[p])
  BY DEF Judge, At, IInv
<1>5. /\ checks'[pass[p].check].title \in {"", "verdict"}
      /\ pass[p].step \in Working
  BY <1>1, <1>4 DEF Knows, Working
<1>6. Unconfirmed(pass[p].check)'
  BY <1>1, <1>3, <1>4 DEF Knows, Unconfirmed, VerdictsOf
<1> QED
  BY <1>2, <1>3, <1>5, <1>6, OnKeeps DEF Early

\* What a ruling is a row of.
LEMMA RulingRecords ==
    ASSUME IInv, NEW p \in Passes, At(p, "attest"), NEW late \in BOOLEAN,
           late \/ checks' = checks
    PROVE  /\ Records({p}, Ruling(p, late))
           /\ Ruling(p, late).check = pass[p].check
           /\ Ruling(p, late).approve = pass[p].approve
           /\ Ruling(p, late).late = late
<1>1. /\ Ruling(p, late).check = pass[p].check
      /\ Ruling(p, late).approve = pass[p].approve
      /\ Ruling(p, late).source = pass[p].source
      /\ Ruling(p, late).late = late
  BY DEF Ruling
<1>2. /\ Knows(pass[p]) /\ pass[p].step = "attest"
      /\ pass[p].check \in Ids /\ checks[pass[p].check].head = pass[p].head
  <2>1. HasCheck(pass[p]) /\ Knows(pass[p]) /\ pass[p].step = "attest"
    BY CheckKept DEF IInv, At
  <2> QED
    BY <2>1 DEF HasCheck, Working
<1>3. checks[pass[p].check].title \in {"", "verdict"}
  BY <1>2 DEF Knows
<1>4. pass[p].source # 0 => checks[pass[p].check].head \in 1..head
                             /\ Rests(checks[pass[p].check].head)
  BY <1>2 DEF Knows, Rests
<1> QED
  BY <1>1, <1>2, <1>3, <1>4 DEF Records

\* _publish: the ledger first.
LEMMA AttestKeeps ==
    ASSUME IInv, TypeOK', NEW p \in Passes, Attest(p)
    PROVE  IInv'
<1>1. /\ head' = head /\ patch' = patch /\ spool' = spool /\ checks' = checks
      /\ reviews' = reviews /\ ledger' = ledger \cup {Ruling(p, FALSE)}
  BY DEF Attest, github
<1>2. /\ Records({p}, Ruling(p, FALSE))
      /\ Ruling(p, FALSE).check = pass[p].check /\ Ruling(p, FALSE).approve = pass[p].approve
  BY <1>1, RulingRecords DEF Attest
<1>3. Onward
  <2>1. head' \in Nat /\ head <= head'
    BY <1>1, HeadTypes DEF IInv
  <2> QED
    BY <1>1, <2>1 DEF Onward, Ids
<1>4. StepKeeps({p})
  BY <1>1, <1>2, <1>3 DEF StepKeeps, Concludes, IInv
<1>5. /\ \A q \in Passes : q # p => pass'[q] = pass[q]
      /\ pass'[p].step = "publish" /\ pass'[p].check = pass[p].check
      /\ pass'[p].receipts = pass[p].receipts /\ pass'[p].head = pass[p].head
      /\ pass'[p].source = pass[p].source
  BY GoesKeeps DEF Attest, IInv, TypeOK, Steps
<1>6. Shows(pass[p].check, pass[p].approve)'
  <2>1. pass'[p].approve = pass[p].approve
    BY GoesKeeps DEF Attest, IInv, TypeOK, Steps
  <2> QED
    BY <1>1, <1>2, <1>5, <2>1 DEF Shows, VerdictsOf
<1>7. pass[p].step \in Working
  BY DEF Attest, At, Working
<1> QED
  BY <1>4, <1>5, <1>6, <1>7, OnKeeps DEF Early

LEMMA WaitKeeps ==
    ASSUME IInv, TypeOK', NEW p \in Passes, AttestWaits(p)
    PROVE  IInv'
<1>1. /\ head' = head /\ patch' = patch /\ checks' = checks /\ reviews' = reviews
      /\ ledger \subseteq ledger' /\ ledger' \subseteq ledger \cup {Ruling(p, TRUE)}
      /\ spool' = spool \cup {Ruling(p, TRUE)}
  BY DEF AttestWaits, github
<1>2. Records({p}, Ruling(p, TRUE)) /\ Ruling(p, TRUE).late
  BY RulingRecords DEF AttestWaits
<1>3. Onward
  <2>1. head' \in Nat /\ head <= head'
    BY <1>1, HeadTypes DEF IInv
  <2> QED
    BY <1>1, <2>1 DEF Onward, Ids
<1>4. StepKeeps({p})
  BY <1>1, <1>2, <1>3 DEF StepKeeps, Concludes, IInv
<1>5. /\ \A q \in Passes : q # p => pass'[q] = pass[q]
      /\ pass'[p].step = "tell" /\ pass'[p].check = pass[p].check
      /\ pass'[p].receipts = pass[p].receipts /\ pass'[p].head = pass[p].head
      /\ pass'[p].source = pass[p].source
  BY GoesKeeps DEF AttestWaits, IInv, TypeOK, Steps
<1>6. Unconfirmed(pass[p].check)'
  BY <1>1, <1>2, <1>5 DEF AttestWaits, At, IInv, Knows, Unconfirmed, VerdictsOf
<1>7. pass[p].step \in Working
  BY DEF AttestWaits, At, Working
<1> QED
  BY <1>4, <1>5, <1>6, <1>7, OnKeeps DEF Early

\* A pass at work goes on: to say it has no judge, to publish, to review, to
\* object, to its handler, and to say an error.
LEMMA WorkStep ==
    ASSUME IInv, TypeOK', NEW p \in Passes,
           \/ NoJudge(p) \/ Publish(p) \/ PostReview(p)
           \/ TellUnattested(p) /\ pass[p].source = 0
           \/ ReviewFails(p) \/ HandlerFindsNone(p)
    PROVE  IInv'
<1>1. /\ Knows(pass[p]) /\ pass[p] \in PassStates /\ pass[p].approve \in BOOLEAN
      /\ pass[p].step \in Working => pass[p].check \in Ids
  BY CheckKept DEF IInv, TypeOK, PassStates
<1>2. PICK s \in {"silent", "review", "unlabel", "object", "handler", "error"} : Goes(p, s)
  BY DEF NoJudge, Publish, PostReview, TellUnattested, ReviewFails, HandlerFindsNone
<1>3. /\ \A q \in Passes : q # p => pass'[q] = pass[q]
      /\ pass'[p].step = s /\ pass'[p].check = pass[p].check
      /\ pass'[p].receipts = pass[p].receipts /\ pass'[p].head = pass[p].head
      /\ pass'[p].source = pass[p].source /\ pass'[p].approve = pass[p].approve
  BY <1>2, GoesKeeps DEF IInv, TypeOK, Steps
<1>4. pass[p].step \in Working
  BY DEF NoJudge, Publish, PostReview, TellUnattested, ReviewFails, HandlerFindsNone,
         At, Working
<1>5. /\ NoJudge(p) => pass'[p].step = "silent"
      /\ Publish(p) => pass'[p].step \in {"review", "unlabel"}
      /\ PostReview(p) => pass'[p].step = "unlabel"
      /\ TellUnattested(p) /\ pass[p].source = 0 => pass'[p].step = "object"
      /\ ReviewFails(p) => pass'[p].step = "handler"
      /\ HandlerFindsNone(p) => pass'[p].step = "error"
  <2>1. ASSUME NEW t, Goes(p, t) PROVE pass'[p].step = t
    BY <2>1 DEF Goes, IInv, TypeOK, PassStates
  <2> QED
    BY <2>1 DEF NoJudge, Publish, PostReview, TellUnattested, ReviewFails, HandlerFindsNone
<1>6. head' = head /\ patch' = patch /\ ledger' = ledger /\ spool' = spool
  BY DEF NoJudge, Publish, PostReview, TellUnattested, ReviewFails, HandlerFindsNone,
         shared, github
<1>7. Onward /\ \A c \in Ids : Concludes({p}, c)
  <2>1. UNCHANGED checks \/ Effect(p)
    BY DEF NoJudge, Publish, PostReview, TellUnattested, ReviewFails, HandlerFindsNone,
           Effect, At, shared
  <2> QED
    BY <1>6, <2>1, EffectConcludes
<1>8. ASSUME NEW r \in reviews', r \notin reviews, r.approve PROVE Shows(r.check, TRUE)
  <2>1. r = [check |-> pass[p].check, approve |-> pass[p].approve] /\ pass[p].step = "review"
    <3>1. CASE ReviewFails(p)
      BY <1>8, <3>1 DEF ReviewFails, Posted, At
    <3>2. CASE PostReview(p)
      BY <1>8, <3>2 DEF PostReview, Posted, At
    <3>3. reviews' = reviews \/ ReviewFails(p) \/ PostReview(p)
      BY DEF NoJudge, Publish, TellUnattested, HandlerFindsNone, shared
    <3> QED
      BY <1>8, <3>1, <3>2, <3>3
  <2>2. r.check = pass[p].check /\ r.approve = pass[p].approve
    BY <2>1
  <2> QED
    BY <1>1, <1>8, <2>1, <2>2 DEF Knows
<1>9. StepKeeps({p})
  BY <1>6, <1>7, <1>8 DEF StepKeeps, IInv
<1>10. s = "silent" => /\ checks'[pass[p].check].title \in {"", "verdict"}
                      /\ Unconfirmed(pass[p].check)'
  <2> SUFFICES ASSUME s = "silent"
               PROVE  /\ checks'[pass[p].check].title \in {"", "verdict"}
                      /\ Unconfirmed(pass[p].check)'
    OBVIOUS
  <2>1. checks' = checks /\ pass[p].step = "judge"
    BY <1>3, <1>5 DEF NoJudge, At
  <2> QED
    BY <1>1, <1>3, <1>6, <2>1 DEF Knows, Unconfirmed, VerdictsOf
<1>11. s = "error" => Unconfirmed(pass[p].check)'
  <2>1. s = "error" => HandlerFindsNone(p)
    BY <1>3, <1>5
  <2> QED
    BY <1>3, <1>6, <2>1 DEF HandlerFindsNone, Attested, Unconfirmed, VerdictsOf
<1>12. s = "review" => Shows(pass[p].check, pass[p].approve)'
  <2> SUFFICES ASSUME s = "review" PROVE Shows(pass[p].check, pass[p].approve)'
    OBVIOUS
  <2>1. pass[p].step = "publish"
    BY <1>3, <1>5 DEF Publish, At
  <2> QED
    BY <1>1, <1>3, <1>6, <2>1 DEF Knows, Shows, VerdictsOf
<1> QED
  BY <1>3, <1>4, <1>9, <1>10, <1>11, <1>12, OnKeeps DEF Early

\* A pass ends, whatever its last call to GitHub did.
LEMMA EndStep ==
    ASSUME IInv, TypeOK', NEW p \in Passes,
           \/ NothingToReview(p) \/ RefuseCarry(p) \/ Skip(p) \/ SayNoVerdict(p)
           \/ Unlabel(p) \/ Object(p) \/ (TellUnattested(p) /\ pass[p].source # 0)
           \/ HandlerLeaves(p) \/ SayError(p) \/ PassFails(p) \/ Crash(p)
    PROVE  IInv'
<1>1. Ends(p) /\ head' = head /\ patch' = patch /\ ledger' = ledger /\ spool' = spool
  BY DEF NothingToReview, RefuseCarry, Skip, SayNoVerdict, Unlabel, Object, TellUnattested,
         HandlerLeaves, SayError, PassFails, Crash, shared, github
<1>2. UNCHANGED checks \/ Effect(p)
  BY DEF NothingToReview, RefuseCarry, Skip, SayNoVerdict, Unlabel, Object, TellUnattested,
         HandlerLeaves, SayError, PassFails, Crash, Effect, At
<1>3. \A r \in reviews' : r \in reviews \/ ~r.approve
  <2>1. CASE Object(p)
    BY <2>1 DEF Object, Posted
  <2>2. Object(p) \/ reviews' = reviews
    BY DEF NothingToReview, RefuseCarry, Skip, SayNoVerdict, Unlabel, TellUnattested,
           HandlerLeaves, SayError, PassFails, Crash
  <2> QED
    BY <2>1, <2>2
<1>4. Onward /\ \A c \in Ids : Concludes({p}, c)
  BY <1>1, <1>2, EffectConcludes
<1>5. StepKeeps({p})
  BY <1>1, <1>3, <1>4 DEF StepKeeps, IInv
<1> QED
  BY <1>1, <1>5, EndKeeps

-----------------------------------------------------------------------------
(***************************************************************************)
(* The theorems.                                                           *)
(***************************************************************************)

LEMMA IInit == Init => IInv
<1> SUFFICES ASSUME Init PROVE IInv
  OBVIOUS
<1>1. TypeOK
  BY TypeInit
<1>2. /\ ledger = {} /\ spool = {} /\ reviews = {} /\ Ids = {}
      /\ \A p \in Passes : pass[p] = NoPass
  BY DEF Init, Ids
<1>3. \A p \in Passes : Knows(pass[p])
  <2>1. 0 <= head
    BY <1>1, HeadTypes
  <2>2. /\ NoPass.step = "idle" /\ NoPass.receipts = {} /\ NoPass.head = 0
        /\ NoPass.source = 0
    BY DEF NoPass
  <2>3. Knows(NoPass)
    BY <1>2, <2>1, <2>2 DEF Knows, Working
  <2> QED
    BY <1>2, <2>3
<1> QED
  BY <1>1, <1>2, <1>3 DEF IInv, GitHubShowsTheLedger, ShownIsAttested, ConfirmedIsNeverDenied,
                          CarriedRestsOnAJudgement, Apart, NoPass, Working

LEMMA IStep == IInv /\ [Next]_vars => IInv'
<1> SUFFICES ASSUME IInv, [Next]_vars PROVE IInv'
  OBVIOUS
<1>1. TypeOK'
  BY TypeStep DEF IInv
<1>2. CASE UNCHANGED vars
  <2>1. StepKeeps({})
    BY <1>2, StillKeeps DEF vars, shared, github
  <2>2. UNCHANGED pass
    BY <1>2 DEF vars
  <2> QED
    BY <1>1, <2>1, <2>2, WorldKeeps
<1>3. CASE Next
  <2>1. CASE Push \/ Label \/ (\E c \in Ids : Age(c)) \/ (\E v \in spool : Replay(v))
    BY <1>1, <2>1, WorldStep
  <2>2. ASSUME NEW p \in Passes, Poll(p) \/ Ask(p) \/ Carry(p) PROVE IInv'
    BY <1>1, <2>2, EarlyStep
  <2>3. ASSUME NEW p \in Passes, TellUnattested(p) PROVE IInv'
    <3>1. CASE pass[p].source = 0
      BY <1>1, <2>3, <3>1, WorkStep
    <3>2. CASE pass[p].source # 0
      BY <1>1, <2>3, <3>2, EndStep
    <3> QED
      BY <3>1, <3>2
  <2>4. ASSUME NEW p \in Passes, Progress(p), ~TellUnattested(p) PROVE IInv'
    <3>1. CASE \/ Reconciled(p) \/ Select(p) \/ DecideJudge(p) \/ CloseDone(p) \/ Uncovered(p)
      BY <1>1, <3>1, EarlyStep
    <3>2. CASE NoJudge(p) \/ Publish(p) \/ PostReview(p) \/ HandlerFindsNone(p)
      BY <1>1, <3>2, WorkStep
    <3>3. CASE NothingToReview(p) \/ RefuseCarry(p) \/ Skip(p) \/ SayNoVerdict(p)
      BY <1>1, <3>3, EndStep
    <3>4. CASE Unlabel(p) \/ Object(p) \/ HandlerLeaves(p) \/ SayError(p)
      BY <1>1, <3>4, EndStep
    <3>5. CASE \/ Reconcile(p) \/ Load(p) \/ DecideCarry(p) \/ Close(p) \/ Interrupt(p)
               \/ StartCheck(p) \/ Judge(p) \/ Attest(p)
      BY <1>1, <3>5, ReconcileKeeps, LoadKeeps, DecideCarryKeeps, CloseKeeps,
         InterruptKeeps, StartKeeps, JudgeKeeps, AttestKeeps
    <3> QED
      BY <2>4, <3>1, <3>2, <3>3, <3>4, <3>5 DEF Progress
  <2>5. ASSUME NEW p \in Passes, Failure(p) PROVE IInv'
    BY <1>1, <2>5, EarlyStep, WaitKeeps, WorkStep, EndStep DEF Failure
  <2> QED
    BY <1>3, <2>1, <2>2, <2>3, <2>4, <2>5 DEF Next
<1> QED
  BY <1>2, <1>3

LEMMA Invariance == Spec => []IInv
  BY IInit, IStep, PTL DEF Spec

\* GitHub never shows an approval the ledger does not hold, and denies no
\* verdict brain confirmed, whatever the passes, the carries, the failed
\* calls, the deaths and the replays.
THEOREM LedgerFirst == Spec => []GitHubShowsTheLedger
<1>1. IInv => GitHubShowsTheLedger
  BY DEF IInv
<1> QED
  BY <1>1, Invariance, PTL

\* A carried approval rests on an approving judgement of the same patch, at
\* the end of a chain of carries of any length.
THEOREM CarriesAreJudged == Spec => []CarriedRestsOnAJudgement
<1>1. IInv => CarriedRestsOnAJudgement
  BY DEF IInv
<1> QED
  BY <1>1, Invariance, PTL

-----------------------------------------------------------------------------
(***************************************************************************)
(* The judgements of a head.  Every automatic check a pass left open is    *)
(* owed to a fault.  A pass that selects a head by itself finds one check  *)
(* that is done, if any, and those; until it opens its own, no other pass  *)
(* opens one.                                                              *)
(***************************************************************************)

AtWork == Working \ {"handler", "error"}

Automatic(h) == {c \in OnHead(h) : checks[c].automatic}

\* The checks opened to have a head judged that no pass is going to conclude.
Orphans == {c \in Ids : /\ checks[c].automatic /\ ~checks[c].done
                        /\ \A p \in Passes : pass[p].step \in AtWork => pass[p].check # c}

\* The steps of a pass between the load and start_check.
Opening == {"decide", "close", "interrupt", "cover", "start"}

\* A pass that polls may open one more check; one that has told its verdict
\* has nothing left to conclude.
Room(s) ==
    /\ s.mode = "poll" /\ s.step = "load" => Cardinality(Automatic(head)) <= 1 + faults
    /\ s.mode = "poll" /\ s.step \in Opening => Cardinality(Automatic(s.head)) <= 1 + faults
    /\ s.step \in {"review", "unlabel", "object"} => checks[s.check].done

Holds(p) ==
    /\ pass[p].step # "idle" /\ pass[p].mode # "carry" => lock = p
    /\ pass[p].step \in {"reconcile", "select"} => pass[p].mode # "carry"

OwedInv ==
    /\ IInv
    /\ RetriesAreOwed
    /\ Cardinality(Orphans) <= faults
    /\ \A p \in Passes : Room(pass[p]) /\ Holds(p)

\* The check runs are the same, and none is reopened.
Kept ==
    /\ DOMAIN checks' = Ids
    /\ \A c \in Ids : /\ checks'[c].head = checks[c].head
                      /\ checks'[c].automatic = checks[c].automatic
                      /\ checks[c].done => checks'[c].done

LEMMA IdsFinite ==
    ASSUME TypeOK
    PROVE  /\ IsFiniteSet(Orphans) /\ \A h : IsFiniteSet(Automatic(h))
           /\ Cardinality(Orphans) \in Nat /\ \A h : Cardinality(Automatic(h)) \in Nat
           /\ faults \in Nat
<1>1. IsFiniteSet(Ids)
  <2>1. Ids = 1..Len(checks) /\ 1 \in Int /\ Len(checks) \in Int
    BY DEF TypeOK, Ids
  <2> QED
    BY <2>1, FS_Interval
<1>2. Orphans \in SUBSET Ids /\ \A h : Automatic(h) \in SUBSET Ids
  BY DEF Orphans, Automatic, OnHead
<1>3. IsFiniteSet(Orphans) /\ \A h : IsFiniteSet(Automatic(h))
  BY <1>1, <1>2, FS_Subset
<1>4. faults \in Nat
  BY PassesAssumption DEF TypeOK
<1> QED
  BY <1>3, <1>4, FS_CardinalityType

LEMMA AtMost ==
    ASSUME NEW a \in Nat, NEW b \in Nat, a <= b
    PROVE  \A n \in Nat : n <= 1 + a => n <= 1 + b
  OBVIOUS

\* A set that gains at most one member, and one that gains none.
LEMMA OneMore ==
    ASSUME NEW S, IsFiniteSet(S), NEW x, NEW T \in SUBSET (S \cup {x})
    PROVE  Cardinality(T) <= Cardinality(S) + 1 /\ Cardinality(T) \in Nat
<1>1. /\ IsFiniteSet(S \cup {x})
      /\ Cardinality(S \cup {x}) = Cardinality(S) \/ Cardinality(S \cup {x}) = Cardinality(S) + 1
  BY FS_AddElement
<1>2. IsFiniteSet(T) /\ Cardinality(T) <= Cardinality(S \cup {x})
  BY <1>1, FS_Subset
<1>3. Cardinality(T) \in Nat /\ Cardinality(S) \in Nat
  BY <1>2, FS_CardinalityType
<1> QED
  BY <1>1, <1>2, <1>3

LEMMA NoMore ==
    ASSUME NEW S, IsFiniteSet(S), NEW T \in SUBSET S
    PROVE  Cardinality(T) <= Cardinality(S) /\ Cardinality(T) \in Nat
  BY FS_Subset, FS_CardinalityType

LEMMA CountKept ==
    ASSUME Kept
    PROVE  \A h : Automatic(h)' = Automatic(h)
  BY DEF Kept, Automatic, OnHead, Ids

\* The same of the head of a pass, and of that of the pull request.
LEMMA CountOf ==
    ASSUME NEW q \in Passes, NEW k, Automatic(k)' = Automatic(k), pass'[q].head = k
    PROVE  Automatic(pass[q].head)' = Automatic(k)
  BY DEF Automatic, OnHead, Ids

LEMMA CountHead ==
    ASSUME NEW k, Automatic(k)' = Automatic(k), head' = k
    PROVE  Automatic(head)' = Automatic(k)
  BY DEF Automatic, OnHead, Ids

\* Updates keep the checks.
LEMMA CompletedKept ==
    ASSUME TypeOK, NEW c \in Ids, NEW green \in BOOLEAN, NEW title \in Titles,
           Completed(c, green, title)
    PROVE  Kept /\ checks'[c].done
<1>1. checks \in Seq(Checks)
  BY DEF TypeOK
<1>2. /\ DOMAIN checks' = Ids /\ checks'[c].done
      /\ \A d \in Ids : /\ checks'[d].head = checks[d].head
                        /\ checks'[d].automatic = checks[d].automatic
                        /\ d # c => checks'[d] = checks[d]
  BY <1>1, CompletedKeeps
<1> QED
  BY <1>2 DEF Kept

LEMMA StillKept ==
    ASSUME UNCHANGED checks
    PROVE  Kept
  BY DEF Kept, Ids

\* So does every call whose answer is lost but that of start_check.
LEMMA EffectKept ==
    ASSUME TypeOK, NEW p \in Passes, UNCHANGED checks \/ Effect(p)
    PROVE  Kept \/ (At(p, "start") /\ Opened(p))
<1>1. CASE UNCHANGED checks
  BY <1>1, StillKept
<1>2. CASE \E green \in BOOLEAN, title \in Titles :
              pass[p].check \in Ids /\ Completed(pass[p].check, green, title)
  BY <1>2, CompletedKept
<1>3. CASE At(p, "start") /\ Opened(p)
  BY <1>3
<1> QED
  BY <1>1, <1>2, <1>3, CheckKept DEF Effect, At, Working, NoVerdictTitles, Titles, PassStates

\* What the world does: no head gains a check, no pass moves.
LEMMA WorldOwes ==
    ASSUME OwedInv, IInv', Kept, UNCHANGED <<head, pass, lock, faults>>
    PROVE  OwedInv'
<1>0. TypeOK
  BY DEF OwedInv, IInv
<1>1. RetriesAreOwed'
  BY CountKept DEF OwedInv, RetriesAreOwed, Automatic
<1>2. \A p \in Passes : Room(pass[p])' /\ Holds(p)'
  <2> TAKE p \in Passes
  <2>1. Room(pass[p]) /\ Holds(p) /\ HasCheck(pass[p])
    BY <1>0, CheckKept DEF OwedInv
  <2>2. checks[pass[p].check].done /\ pass[p].step \in Working => checks'[pass[p].check].done
    BY <2>1 DEF Kept, HasCheck
  <2> QED
    BY <2>1, <2>2, CountKept DEF Room, Holds, Working
<1>3. Orphans' \in SUBSET Orphans
  BY DEF Orphans, Kept, Ids
<1>4. Cardinality(Orphans') <= Cardinality(Orphans) /\ Cardinality(Orphans') \in Nat
  BY <1>0, <1>3, IdsFinite, NoMore
<1>5. Cardinality(Orphans') <= faults'
  BY <1>0, <1>4, IdsFinite DEF OwedInv
<1> QED
  BY <1>1, <1>2, <1>5 DEF OwedInv

\* A push: no check is on the new head yet.
LEMMA PushOwes ==
    ASSUME OwedInv, IInv', Push
    PROVE  OwedInv'
<1>0. TypeOK /\ head' = head + 1 /\ head \in Nat
  BY HeadTypes DEF OwedInv, IInv, Push
<1>1. UNCHANGED <<checks, pass, lock, faults>> /\ Kept
  BY StillKept DEF Push, counters
<1>2. Automatic(head)' = {}
  <2>1. \A c \in Ids : checks[c].head # head'
    <3> TAKE c \in Ids
    <3>1. checks[c].head <= head /\ checks[c].head \in Nat
      BY <1>0, CheckTypes DEF OwedInv, IInv
    <3> QED
      BY <1>0, <3>1
  <2> QED
    BY <1>1, <2>1 DEF Automatic, OnHead, Ids
<1>3. Cardinality(Automatic(head))' <= 1 + faults'
  <2>1. Cardinality({}) = 0 /\ faults \in Nat
    BY <1>0, FS_EmptySet, IdsFinite
  <2>2. Cardinality(Automatic(head))' = 0
    BY <1>2, <2>1
  <2> QED
    BY <1>1, <2>1, <2>2
<1>4. RetriesAreOwed'
  BY <1>1, CountKept DEF OwedInv, RetriesAreOwed, Automatic
<1>5. Orphans' = Orphans
  BY <1>1 DEF Orphans, Ids
<1>6. \A p \in Passes : Room(pass[p])' /\ Holds(p)'
  <2> TAKE p \in Passes
  <2>1. Room(pass[p]) /\ Holds(p)
    BY DEF OwedInv
  <2>2. Automatic(pass[p].head)' = Automatic(pass[p].head)
    BY <1>1 DEF Automatic, OnHead, Ids
  <2> QED
    BY <1>1, <1>3, <2>1, <2>2 DEF Room, Holds
<1> QED
  BY <1>1, <1>4, <1>5, <1>6 DEF OwedInv

\* A step of one pass that opens no check: it concludes the check it leaves,
\* or pays for it.
LEMMA QuietOwes ==
    ASSUME OwedInv, IInv', Kept, head' = head, NEW p \in Passes,
           \A q \in Passes : q # p => pass'[q] = pass[q],
           \A q \in Passes \ {p} : lock = q => lock' = q,
           Room(pass[p])', Holds(p)',
           \/ faults' = faults + 1
           \/ /\ faults' = faults
              /\ pass[p].step \in AtWork =>
                    \/ checks'[pass[p].check].done
                    \/ pass'[p].step \in AtWork /\ pass'[p].check = pass[p].check
    PROVE  OwedInv'
<1>0. TypeOK /\ TypeOK' /\ faults \in Nat /\ faults' \in Nat /\ faults <= faults'
  BY IdsFinite DEF OwedInv, IInv
<1>1. /\ IsFiniteSet(Orphans) /\ Cardinality(Orphans) \in Nat
      /\ \A h : Cardinality(Automatic(h)) \in Nat
  BY <1>0, IdsFinite
<1>2. RetriesAreOwed'
  <2> SUFFICES ASSUME NEW h \in Heads PROVE Cardinality(Automatic(h)') <= 2 + faults'
    BY DEF RetriesAreOwed, Automatic
  <2>1. Cardinality(Automatic(h)) <= 2 + faults
    BY DEF OwedInv, RetriesAreOwed, Automatic
  <2>2. Automatic(h)' = Automatic(h)
    BY CountKept
  <2> QED
    BY <1>0, <1>1, <2>1, <2>2
<1>3. Orphans' \subseteq Orphans \cup {pass[p].check}
  BY DEF Orphans, Kept, Ids
<1>4. faults' = faults => Orphans' \subseteq Orphans
  <2> SUFFICES ASSUME faults' = faults, pass[p].check \in Orphans', pass[p].check \notin Orphans
               PROVE  FALSE
    BY <1>3
  <2>1. /\ pass[p].check \in Ids /\ checks[pass[p].check].automatic
        /\ ~checks'[pass[p].check].done /\ ~checks[pass[p].check].done
    BY DEF Orphans, Kept, Ids
  <2>2. PICK q \in Passes : pass[q].step \in AtWork /\ pass[q].check = pass[p].check
    BY <2>1 DEF Orphans
  <2>3. q = p
    BY <2>2 DEF Orphans
  <2>4. faults + 1 # faults
    BY <1>0
  <2> QED
    BY <2>1, <2>2, <2>3, <2>4 DEF Orphans
<1>5. Cardinality(Orphans') <= faults'
  <2>0. Cardinality(Orphans) <= faults
    BY DEF OwedInv
  <2>1. CASE faults' = faults
    <3>1. Cardinality(Orphans') <= Cardinality(Orphans) /\ Cardinality(Orphans') \in Nat
      BY <1>1, <1>4, <2>1, NoMore
    <3> QED
      BY <1>0, <1>1, <2>0, <2>1, <3>1
  <2>2. CASE faults' = faults + 1
    <3>1. /\ Cardinality(Orphans') <= Cardinality(Orphans) + 1
          /\ Cardinality(Orphans') \in Nat
      BY <1>1, <1>3, OneMore
    <3> QED
      BY <1>0, <1>1, <2>0, <2>2, <3>1
  <2> QED
    BY <2>1, <2>2
<1>6. \A q \in Passes : q # p => Room(pass[q])' /\ Holds(q)'
  <2> SUFFICES ASSUME NEW q \in Passes, q # p PROVE Room(pass[q])' /\ Holds(q)'
    OBVIOUS
  <2>1. Room(pass[q]) /\ Holds(q) /\ HasCheck(pass[q]) /\ pass'[q] = pass[q]
    BY <1>0, CheckKept DEF OwedInv
  <2>2. checks[pass[q].check].done /\ pass[q].step \in Working => checks'[pass[q].check].done
    BY <2>1 DEF Kept, HasCheck
  <2>3. /\ Automatic(head)' = Automatic(head)
        /\ Automatic(pass[q].head)' = Automatic(pass[q].head)
    <3>1. PICK k : k = pass[q].head
      OBVIOUS
    <3>2. PICK l : l = head
      OBVIOUS
    <3>3. Automatic(k)' = Automatic(k) /\ Automatic(l)' = Automatic(l)
      BY CountKept
    <3>4. pass'[q].head = k /\ head' = l
      BY <2>1, <3>1, <3>2
    <3> QED
      BY <3>1, <3>2, <3>3, <3>4, CountOf, CountHead
  <2>4. \A n \in Nat : n <= 1 + faults => n <= 1 + faults'
    BY <1>0, AtMost
  <2>5. /\ Cardinality(Automatic(head)) \in Nat
        /\ Cardinality(Automatic(pass[q].head)) \in Nat
    BY <1>1
  <2>6. Room(pass[q])'
    BY <2>1, <2>2, <2>3, <2>4, <2>5 DEF Room, Working
  <2> QED
    BY <2>1, <2>6 DEF Holds
<1> QED
  BY <1>2, <1>5, <1>6 DEF OwedInv

\* start_check: the one more check a pass that polls has room for.
LEMMA OpenOwes ==
    ASSUME OwedInv, IInv', NEW p \in Passes, At(p, "start"), Opened(p), head' = head,
           \A q \in Passes : q # p => pass'[q] = pass[q],
           \A q \in Passes \ {p} : lock = q => lock' = q,
           Holds(p)', pass'[p].step \in {"judge", "attest", "idle"},
           \/ faults' = faults + 1
           \/ /\ faults' = faults
              /\ pass'[p].step # "idle" /\ pass'[p].check = Len(checks) + 1
    PROVE  OwedInv'
<1> DEFINE n == Len(checks) + 1
<1>0. TypeOK /\ TypeOK' /\ faults \in Nat /\ faults' \in Nat /\ faults <= faults'
  BY IdsFinite DEF OwedInv, IInv
<1>1. /\ IsFiniteSet(Orphans) /\ Cardinality(Orphans) \in Nat
      /\ \A h : IsFiniteSet(Automatic(h)) /\ Cardinality(Automatic(h)) \in Nat
  BY <1>0, IdsFinite
<1>2. /\ DOMAIN checks' = Ids \cup {n} /\ n \notin Ids
      /\ \A c \in Ids : checks'[c] = checks[c]
      /\ checks'[n].head = pass[p].head
      /\ checks'[n].automatic => pass[p].mode = "poll"
  BY <1>0, OpenedKeeps, CheckKept DEF TypeOK, At, Early
<1> HIDE DEF n
<1>3. \A h : \/ Automatic(h)' = Automatic(h)
             \/ /\ Automatic(h)' \subseteq Automatic(h) \cup {n}
                /\ h = pass[p].head /\ pass[p].mode = "poll"
  BY <1>2 DEF Automatic, OnHead, Ids
<1>4. pass[p].mode = "poll" => Cardinality(Automatic(pass[p].head)) <= 1 + faults
  BY DEF OwedInv, Room, At, Opening
<1>5. RetriesAreOwed'
  <2> SUFFICES ASSUME NEW h \in Heads PROVE Cardinality(Automatic(h)') <= 2 + faults'
    BY DEF RetriesAreOwed, Automatic
  <2>1. CASE Automatic(h)' = Automatic(h)
    <3>1. Cardinality(Automatic(h)) <= 2 + faults
      BY DEF OwedInv, RetriesAreOwed, Automatic
    <3> QED
      BY <1>0, <1>1, <2>1, <3>1
  <2>2. CASE Automatic(h)' # Automatic(h)
    <3>1. Automatic(h)' \in SUBSET (Automatic(h) \cup {n})
      BY <1>3
    <3>2. /\ Cardinality(Automatic(h)') <= Cardinality(Automatic(h)) + 1
          /\ Cardinality(Automatic(h)') \in Nat
      BY <1>1, <3>1, OneMore
    <3>3. Cardinality(Automatic(h)) <= 1 + faults
      BY <1>3, <1>4, <2>2
    <3> QED
      BY <1>0, <1>1, <3>2, <3>3
  <2> QED
    BY <2>1, <2>2
<1>6. Orphans' \subseteq Orphans \cup {n}
  <2> SUFFICES ASSUME NEW c \in Orphans', c # n PROVE c \in Orphans
    OBVIOUS
  <2>1. c \in Ids /\ checks[c].automatic /\ ~checks[c].done
    BY <1>2 DEF Orphans, Ids
  <2>2. ASSUME NEW q \in Passes, pass[q].step \in AtWork PROVE pass[q].check # c
    <3>1. q # p
      BY <2>2 DEF At, AtWork, Working
    <3> QED
      BY <2>2, <3>1 DEF Orphans
  <2> QED
    BY <2>1, <2>2 DEF Orphans
<1>7. Cardinality(Orphans') <= faults'
  <2>0. Cardinality(Orphans) <= faults
    BY DEF OwedInv
  <2>1. CASE faults' = faults + 1
    <3>1. /\ Cardinality(Orphans') <= Cardinality(Orphans) + 1
          /\ Cardinality(Orphans') \in Nat
      BY <1>1, <1>6, OneMore
    <3> QED
      BY <1>0, <1>1, <2>0, <2>1, <3>1
  <2>2. CASE faults' = faults
    <3>0. faults + 1 # faults
      BY <1>0
    <3>1. n \notin Orphans'
      BY <2>2, <3>0 DEF Orphans, AtWork, Working, n
    <3>2. Cardinality(Orphans') <= Cardinality(Orphans) /\ Cardinality(Orphans') \in Nat
      BY <1>1, <1>6, <3>1, NoMore
    <3> QED
      BY <1>0, <1>1, <2>0, <2>2, <3>2
  <2> QED
    BY <2>1, <2>2
<1>8. \A q \in Passes : q # p => Room(pass[q])' /\ Holds(q)'
  <2> SUFFICES ASSUME NEW q \in Passes, q # p PROVE Room(pass[q])' /\ Holds(q)'
    OBVIOUS
  <2>1. /\ Room(pass[q]) /\ Holds(q) /\ Holds(p) /\ HasCheck(pass[q])
        /\ pass'[q] = pass[q]
    BY <1>0, CheckKept DEF OwedInv
  <2>2. checks[pass[q].check].done /\ pass[q].step \in Working => checks'[pass[q].check].done
    BY <1>2, <2>1 DEF HasCheck
  <2>3. pass[q].mode = "poll" /\ pass[q].step # "idle" => pass[p].mode # "poll"
    BY <2>1 DEF Holds, At
  <2>4. pass[q].mode = "poll" /\ pass[q].step # "idle" =>
            /\ Automatic(head)' = Automatic(head)
            /\ Automatic(pass[q].head)' = Automatic(pass[q].head)
    <3>1. pass[p].mode # "poll" => \A h : Automatic(h)' = Automatic(h)
      BY <1>3
    <3>2. PICK k : k = pass[q].head
      OBVIOUS
    <3>3. PICK l : l = head
      OBVIOUS
    <3>4. pass[p].mode # "poll" =>
            Automatic(k)' = Automatic(k) /\ Automatic(l)' = Automatic(l)
      BY <3>1
    <3>5. pass'[q].head = k /\ head' = l
      BY <2>1, <3>2, <3>3
    <3> QED
      BY <2>3, <3>2, <3>3, <3>4, <3>5, CountOf, CountHead
  <2>5. \A m \in Nat : m <= 1 + faults => m <= 1 + faults'
    BY <1>0, AtMost
  <2>6. /\ Cardinality(Automatic(head)) \in Nat
        /\ Cardinality(Automatic(pass[q].head)) \in Nat
    BY <1>1
  <2>7. Room(pass[q])'
    BY <2>1, <2>2, <2>4, <2>5, <2>6 DEF Room, Working, Opening
  <2> QED
    BY <2>1, <2>7 DEF Holds
<1>9. Room(pass[p])'
  BY DEF Room, Opening
<1> QED
  BY <1>5, <1>7, <1>8, <1>9 DEF OwedInv

\* A pass that goes on.
LEMMA OnOwes ==
    ASSUME OwedInv, IInv', NEW p \in Passes, Kept, UNCHANGED <<head, lock>>,
           \A q \in Passes : q # p => pass'[q] = pass[q],
           pass[p].step # "idle", pass'[p].mode = pass[p].mode,
           pass'[p].step \in {"reconcile", "select"} => pass[p].mode # "carry",
           Room(pass[p])',
           \/ faults' = faults + 1
           \/ /\ faults' = faults
              /\ pass[p].step \in AtWork =>
                    \/ checks'[pass[p].check].done
                    \/ pass'[p].step \in AtWork /\ pass'[p].check = pass[p].check
    PROVE  OwedInv'
<1>1. Holds(p)'
  BY DEF OwedInv, Holds
<1> QED
  BY <1>1, QuietOwes

\* A pass that ends.
LEMMA EndOwes ==
    ASSUME OwedInv, IInv', NEW p \in Passes, Kept, head' = head, Ends(p),
           \/ faults' = faults + 1
           \/ faults' = faults /\ (pass[p].step \in AtWork => checks'[pass[p].check].done)
    PROVE  OwedInv'
<1>1. TypeOK
  BY DEF OwedInv, IInv
<1>2. /\ \A q \in Passes : q # p => pass'[q] = pass[q]
      /\ pass'[p].step = "idle"
  BY <1>1, EndsIdle DEF TypeOK
<1>3. \A q \in Passes \ {p} : lock = q => lock' = q
  BY DEF Ends
<1>4. Room(pass[p])' /\ Holds(p)'
  BY <1>2 DEF Room, Holds, Opening
<1> QED
  BY <1>2, <1>3, <1>4, QuietOwes

\* A pass that has loaded a head and opened nothing keeps its room.
LEMMA RoomKept ==
    ASSUME OwedInv, NEW p \in Passes, Kept, faults' = faults,
           pass[p].step \in Opening, pass'[p].step \in Opening,
           pass'[p].mode = pass[p].mode, pass'[p].head = pass[p].head
    PROVE  Room(pass[p])'
<1>1. PICK k : k = pass[p].head
  OBVIOUS
<1>2. Automatic(k)' = Automatic(k)
  BY CountKept
<1>3. Automatic(pass[p].head)' = Automatic(pass[p].head)
  BY <1>1, <1>2, CountOf
<1>4. Room(pass[p])
  BY DEF OwedInv
<1> QED
  BY <1>3, <1>4 DEF Room, Opening

\* A pass that selects a head nobody asked for finds one check of its own
\* accord that is done, if any; the others are orphans.
LEMMA SelectRoom ==
    ASSUME OwedInv, NeedsReview(head), ~labelled
    PROVE  Cardinality(Automatic(head)) <= 1 + faults
<1>0. TypeOK /\ \A p \in Passes : Knows(pass[p])
  BY DEF OwedInv, IInv
<1> DEFINE done == {c \in OnHead(head) : checks[c].done}
<1>1. /\ \E d : done \subseteq {d}
      /\ \A c \in OnHead(head) \ done : checks[c].stale
  BY DEF NeedsReview
<1>2. PICK d : done \subseteq {d}
  BY <1>1
<1>3. Automatic(head) \subseteq Orphans \cup {d}
  <2> SUFFICES ASSUME NEW c \in Automatic(head), c # d PROVE c \in Orphans
    OBVIOUS
  <2>1. c \in OnHead(head) /\ c \in Ids /\ checks[c].automatic /\ ~checks[c].done
    BY <1>2 DEF Automatic, OnHead
  <2>2. checks[c].stale
    BY <1>1, <2>1
  <2>3. ASSUME NEW p \in Passes, pass[p].step \in AtWork PROVE pass[p].check # c
    BY <1>0, <2>2, <2>3 DEF Knows, AtWork
  <2> QED
    BY <2>1, <2>3 DEF Orphans
<1>4. /\ Cardinality(Automatic(head)) <= Cardinality(Orphans) + 1
      /\ Cardinality(Automatic(head)) \in Nat
  BY <1>0, <1>3, IdsFinite, OneMore
<1> QED
  BY <1>0, <1>4, IdsFinite DEF OwedInv

LEMMA BeginOwes ==
    ASSUME OwedInv, IInv', NEW p \in Passes, Poll(p) \/ Ask(p) \/ Carry(p)
    PROVE  OwedInv'
<1>0. TypeOK /\ pass[p].step = "idle"
  BY DEF OwedInv, IInv, Poll, Ask, Carry, Begins, At
<1>1. Kept /\ head' = head
  BY StillKept DEF Poll, Ask, Carry, Begins, github
<1>2. \A q \in Passes \ {p} : lock = q => lock' = q
  BY PassesAssumption DEF Poll, Ask, Carry, Begins
<1>3. faults' = faults \/ faults' = faults + 1
  BY DEF Poll, Ask, Carry, Begins, Fault, NoFault
<1>4. /\ \A q \in Passes : q # p => pass'[q] = pass[q]
      /\ pass'[p].step \in {"reconcile", "load"}
      /\ pass'[p].step = "reconcile" => pass'[p].mode \in {"poll", "asked"} /\ lock' = p
      /\ pass'[p].step = "load" => pass'[p].mode = "carry"
  <2>1. CASE Carry(p)
    BY <1>0, <2>1 DEF Carry, TypeOK, NoPass
  <2>2. CASE Poll(p) \/ Ask(p)
    <3>1. PICK mode \in {"poll", "asked"} : Begins(p, mode)
      BY <2>2 DEF Poll, Ask
    <3>2. PICK listed : pass' = [pass EXCEPT ![p] = [NoPass EXCEPT !.step = "reconcile",
                                                       !.mode = mode, !.receipts = listed]]
      BY <3>1 DEF Begins
    <3> QED
      BY <1>0, <3>1, <3>2 DEF Begins, TypeOK, NoPass
  <2> QED
    BY <2>1, <2>2
<1>5. Room(pass[p])' /\ Holds(p)'
  BY <1>4 DEF Room, Holds, Opening
<1>6. pass[p].step \notin AtWork
  BY <1>0 DEF AtWork, Working
<1> QED
  BY <1>1, <1>2, <1>3, <1>4, <1>5, <1>6, QuietOwes

\* Until it has a check.
LEMMA EarlyOwes ==
    ASSUME OwedInv, IInv', NEW p \in Passes,
           \/ Reconcile(p) \/ Reconciled(p) \/ ReconcileFails(p) \/ Select(p) \/ Load(p)
    PROVE  OwedInv'
<1>0. /\ TypeOK /\ pass[p] \in PassStates /\ Room(pass[p]) /\ Holds(p)
      /\ pass[p].step \in {"reconcile", "select", "load"} /\ pass[p].step \notin AtWork
  BY CheckKept DEF OwedInv, IInv, Reconcile, Reconciled, ReconcileFails, Select, Load, At,
                   AtWork, Working
<1>1. Kept
  <2>1. CASE Reconcile(p)
    <3>1. PICK c \in Lost(p), v \in pass[p].receipts : Completed(c, v.approve, "verdict")
      BY <2>1 DEF Reconcile
    <3>2. c \in Ids /\ v.approve \in BOOLEAN /\ "verdict" \in Titles
      BY <1>0 DEF Lost, OnHead, PassStates, Verdicts, Titles
    <3> QED
      BY <1>0, <3>1, <3>2, CompletedKept
  <2> QED
    BY <2>1, StillKept DEF Reconciled, ReconcileFails, Select, Load, shared
<1>2. /\ UNCHANGED <<head, lock>>
      /\ faults' = faults \/ faults' = faults + 1
  BY DEF Reconcile, Reconciled, ReconcileFails, Select, Load, shared, github, counters, Fault
<1>3. /\ \A q \in Passes : q # p => pass'[q] = pass[q]
      /\ pass'[p].step \in {"reconcile", "select"} => pass'[p].mode # "carry"
      /\ pass[p].mode # "carry" => pass'[p].mode # "carry"
      /\ pass[p].mode = "carry" => Load(p) /\ pass'[p].mode = "carry"
      /\ Room(pass[p])'
  <2>1. CASE Reconcile(p)
    BY <1>0, <2>1 DEF Reconcile, At, Holds, Room, Opening
  <2>2. CASE Reconciled(p) \/ ReconcileFails(p)
    <3>1. PICK s \in {"select", "load"} : Goes(p, s) /\ (s = "load" => pass[p].mode # "poll")
      BY <2>2 DEF Reconciled, ReconcileFails
    <3>2. pass[p].mode # "carry"
      BY <1>0, <2>2 DEF Reconciled, ReconcileFails, At, Holds
    <3>3. /\ \A q \in Passes : q # p => pass'[q] = pass[q]
          /\ pass'[p].step = s /\ pass'[p].mode = pass[p].mode
      BY <1>0, <3>1, GoesKeeps DEF TypeOK, Steps
    <3> QED
      BY <3>1, <3>2, <3>3 DEF Room, Opening
  <2>3. CASE Select(p)
    <3>1. /\ \A q \in Passes : q # p => pass'[q] = pass[q]
          /\ pass'[p].step = "load" /\ pass'[p].mode = IF labelled THEN "asked" ELSE "poll"
      BY <1>0, <2>3, SelectKeeps
    <3>2. pass[p].mode # "carry"
      BY <1>0, <2>3 DEF Select, At, Holds
    <3>3. pass'[p].mode = "poll" => Cardinality(Automatic(head)) <= 1 + faults
      BY <2>3, <3>1, SelectRoom DEF Select
    <3>4. Automatic(head)' = Automatic(head) /\ faults' = faults
      BY <2>3 DEF Select, shared, github, counters, Automatic, OnHead, Ids
    <3>5. Room(pass[p])'
      BY <3>1, <3>3, <3>4 DEF Room, Opening
    <3> QED
      BY <3>1, <3>2, <3>5
  <2>4. CASE Load(p)
    <3>1. /\ \A q \in Passes : q # p => pass'[q] = pass[q]
          /\ pass'[p].step = "decide" /\ pass'[p].mode = pass[p].mode /\ pass'[p].head = head
      BY <1>0, <2>4 DEF Load, TypeOK, PassStates
    <3>2. Automatic(pass[p].head)' = Automatic(head) /\ faults' = faults
      BY <2>4, <3>1 DEF Load, shared, github, counters, Automatic, OnHead, Ids
    <3>3. pass[p].step = "load"
      BY <2>4 DEF Load, At
    <3>4. Room(pass[p])'
      BY <1>0, <3>1, <3>2, <3>3 DEF Room, Opening
    <3> QED
      BY <2>4, <3>1, <3>4
  <2> QED
    BY <2>1, <2>2, <2>3, <2>4
<1>4. Holds(p)'
  BY <1>0, <1>2, <1>3 DEF Holds
<1>5. \A q \in Passes \ {p} : lock = q => lock' = q
  BY <1>2
<1> QED
  BY <1>0, <1>1, <1>2, <1>3, <1>4, <1>5, QuietOwes

\* Between the load and start_check.
LEMMA OpeningOwes ==
    ASSUME OwedInv, IInv', NEW p \in Passes,
           \/ DecideCarry(p) \/ DecideJudge(p) \/ Close(p) \/ Interrupt(p) \/ CloseDone(p)
           \/ Uncovered(p)
    PROVE  OwedInv'
<1>0. /\ TypeOK /\ pass[p] \in PassStates
      /\ pass[p].step \in Opening /\ pass[p].step \notin AtWork /\ pass[p].step # "idle"
  BY CheckKept DEF OwedInv, IInv, DecideCarry, DecideJudge, Close, Interrupt, CloseDone,
                   Uncovered, At, Opening, AtWork, Working
<1>1. Kept
  <2>1. CASE Interrupt(p)
    <3>1. pass[p].check \in Ids /\ "interrupted" \in Titles
      BY <1>0, <2>1, CheckKept DEF Interrupt, At, Titles
    <3> QED
      BY <1>0, <2>1, <3>1, CompletedKept DEF Interrupt
  <2> QED
    BY <2>1, StillKept DEF DecideCarry, DecideJudge, Close, CloseDone, Uncovered, shared
<1>2. UNCHANGED <<head, lock, faults>>
  BY DEF DecideCarry, DecideJudge, Close, Interrupt, CloseDone, Uncovered, shared, github,
         counters
<1>3. /\ \A q \in Passes : q # p => pass'[q] = pass[q]
      /\ pass'[p].step \in Opening /\ pass'[p].mode = pass[p].mode
      /\ pass'[p].head = pass[p].head
  <2>1. CASE DecideJudge(p) \/ CloseDone(p) \/ Uncovered(p)
    BY <1>0, <2>1, GoesKeeps DEF DecideJudge, CloseDone, Uncovered, TypeOK, Steps, Opening
  <2>2. CASE DecideCarry(p)
    <3>1. PICK c \in Ids : pass' = [pass EXCEPT ![p].source = c, ![p].step = "close"]
      BY <2>2 DEF DecideCarry
    <3>2. pass \in [Passes -> PassStates]
      BY <1>0 DEF TypeOK
    <3> QED
      BY <3>1, <3>2 DEF PassStates, Opening
  <2>3. CASE Close(p)
    <3>1. PICK c : pass' = [pass EXCEPT ![p].check = c, ![p].step = "interrupt"]
      BY <2>3 DEF Close
    <3>2. pass \in [Passes -> PassStates]
      BY <1>0 DEF TypeOK
    <3> QED
      BY <3>1, <3>2 DEF PassStates, Opening
  <2>4. CASE Interrupt(p)
    BY <1>0, <2>4 DEF Interrupt, TypeOK, PassStates, Opening
  <2> QED
    BY <2>1, <2>2, <2>3, <2>4
<1>4. pass'[p].step \notin {"reconcile", "select"}
  BY <1>3 DEF Opening
<1> QED
  BY <1>0, <1>1, <1>2, <1>3, <1>4, RoomKept, OnOwes

LEMMA StartOwes ==
    ASSUME OwedInv, IInv', NEW p \in Passes, StartCheck(p)
    PROVE  OwedInv'
<1>0. TypeOK /\ pass[p] \in PassStates /\ Holds(p)
  BY CheckKept DEF OwedInv, IInv
<1>1. /\ \A q \in Passes : q # p => pass'[q] = pass[q]
      /\ pass'[p].step \in {"judge", "attest"} /\ pass'[p].check = Len(checks) + 1
      /\ pass'[p].mode = pass[p].mode
  BY <1>0 DEF StartCheck, TypeOK, PassStates
<1>2. At(p, "start") /\ Opened(p) /\ UNCHANGED <<head, lock, faults>>
  BY DEF StartCheck, github, counters
<1>3. Holds(p)'
  BY <1>0, <1>1, <1>2 DEF Holds, At
<1> QED
  BY <1>1, <1>2, <1>3, OpenOwes

\* With a check.
LEMMA WorkOwes ==
    ASSUME OwedInv, IInv', NEW p \in Passes,
           \/ Judge(p) \/ NoJudge(p) \/ Attest(p) \/ AttestWaits(p) \/ Publish(p)
           \/ PostReview(p) \/ (TellUnattested(p) /\ pass[p].source = 0)
           \/ ReviewFails(p) \/ HandlerFindsNone(p)
    PROVE  OwedInv'
<1>0. /\ TypeOK /\ pass[p] \in PassStates /\ Room(pass[p])
      /\ pass[p].step \in Working /\ pass[p].step # "idle" /\ pass[p].check \in Ids
  <2>1. TypeOK /\ pass[p].step \in Working /\ Room(pass[p])
    BY DEF OwedInv, IInv, Judge, NoJudge, Attest, AttestWaits, Publish, PostReview,
           TellUnattested, ReviewFails, HandlerFindsNone, At, Working
  <2> QED
    BY <2>1, CheckKept DEF Working
<1>1. Publish(p) \/ TellUnattested(p) => Kept /\ checks'[pass[p].check].done
  <2> SUFFICES ASSUME Publish(p) \/ TellUnattested(p) PROVE Kept /\ checks'[pass[p].check].done
    OBVIOUS
  <2>1. \E green \in BOOLEAN, title \in Titles : Completed(pass[p].check, green, title)
    BY <1>0 DEF Publish, TellUnattested, PassStates, Titles
  <2> QED
    BY <1>0, <2>1, CompletedKept
<1>7. Kept
  <2>1. CASE ReviewFails(p)
    <3>1. ~At(p, "start")
      BY <2>1 DEF ReviewFails, At
    <3> QED
      BY <1>0, <2>1, <3>1, EffectKept DEF ReviewFails
  <2>2. CASE \/ Judge(p) \/ NoJudge(p) \/ Attest(p) \/ AttestWaits(p) \/ PostReview(p)
             \/ HandlerFindsNone(p)
    BY <2>2, StillKept DEF Judge, NoJudge, Attest, AttestWaits, PostReview, HandlerFindsNone,
                           shared
  <2> QED
    BY <1>1, <2>1, <2>2
<1>2. /\ UNCHANGED <<head, lock>>
      /\ AttestWaits(p) \/ ReviewFails(p) => faults' = faults + 1
      /\ faults' = faults \/ faults' = faults + 1
      /\ ~AttestWaits(p) /\ ~ReviewFails(p) => faults' = faults
  <2>1. CASE AttestWaits(p) \/ ReviewFails(p)
    BY <2>1 DEF AttestWaits, ReviewFails, Fault, github
  <2>2. CASE /\ ~AttestWaits(p) /\ ~ReviewFails(p)
    BY <2>2 DEF Judge, NoJudge, Attest, Publish, PostReview, TellUnattested,
                HandlerFindsNone, shared, github, counters
  <2> QED
    BY <2>1, <2>2
<1>3. /\ \A q \in Passes : q # p => pass'[q] = pass[q]
      /\ pass'[p].mode = pass[p].mode /\ pass'[p].check = pass[p].check
      /\ pass'[p].step \in Working
      /\ pass'[p].step \in {"handler", "error"} => ReviewFails(p) \/ HandlerFindsNone(p)
      /\ pass'[p].step \in {"review", "unlabel", "object"} =>
             Publish(p) \/ TellUnattested(p) \/ PostReview(p)
  <2>1. CASE Judge(p)
    <3>1. PICK r : pass' = [pass EXCEPT ![p].approve = r, ![p].step = "attest"]
      BY <2>1 DEF Judge
    <3>2. pass \in [Passes -> PassStates]
      BY <1>0 DEF TypeOK
    <3> QED
      BY <3>1, <3>2 DEF PassStates, Working
  <2>2. CASE ~Judge(p)
    <3>1. PICK s \in Working :
            /\ Goes(p, s)
            /\ s \in {"handler", "error"} => ReviewFails(p) \/ HandlerFindsNone(p)
            /\ s \in {"review", "unlabel", "object"} =>
                   Publish(p) \/ TellUnattested(p) \/ PostReview(p)
      BY <2>2 DEF NoJudge, Attest, AttestWaits, Publish, PostReview, TellUnattested,
                  ReviewFails, HandlerFindsNone, Working
    <3>2. s \in Steps
      BY DEF Working, Steps
    <3> QED
      BY <1>0, <3>1, <3>2, GoesKeeps DEF TypeOK
  <2> QED
    BY <2>1, <2>2
<1>4. Room(pass[p])'
  <2>1. pass'[p].step \in {"review", "unlabel", "object"} => checks'[pass[p].check].done
    <3>1. PostReview(p) => checks[pass[p].check].done
      BY <1>0 DEF PostReview, At, Room
    <3> QED
      BY <1>0, <1>1, <1>3, <1>7, <3>1 DEF Kept
  <2> QED
    BY <1>3, <2>1 DEF Room, Working, Opening
<1>5. \/ faults' = faults + 1
      \/ /\ faults' = faults
         /\ pass[p].step \in AtWork =>
               pass'[p].step \in AtWork /\ pass'[p].check = pass[p].check
  <2>1. HandlerFindsNone(p) => pass[p].step \notin AtWork
    BY DEF HandlerFindsNone, At, AtWork, Working
  <2> QED
    BY <1>2, <1>3, <2>1 DEF AtWork
<1>6. pass'[p].step \notin {"reconcile", "select"}
  BY <1>3 DEF Working
<1> QED
  BY <1>0, <1>2, <1>3, <1>4, <1>5, <1>6, <1>7, OnOwes

\* A pass that ends has concluded its check, or failed.
LEMMA LastOwes ==
    ASSUME OwedInv, IInv', NEW p \in Passes,
           \/ NothingToReview(p) \/ RefuseCarry(p) \/ Skip(p) \/ SayNoVerdict(p) \/ Unlabel(p)
           \/ Object(p) \/ (TellUnattested(p) /\ pass[p].source # 0)
           \/ HandlerLeaves(p) \/ SayError(p) \/ PassFails(p) \/ Crash(p)
    PROVE  OwedInv'
<1>0. TypeOK /\ Room(pass[p]) /\ (pass[p].step \in Working => pass[p].check \in Ids)
  BY CheckKept DEF OwedInv, IInv
<1>1. Ends(p) /\ head' = head
  BY DEF NothingToReview, RefuseCarry, Skip, SayNoVerdict, Unlabel, Object, TellUnattested,
         HandlerLeaves, SayError, PassFails, Crash, github
<1>2. CASE NothingToReview(p) \/ RefuseCarry(p) \/ Skip(p) \/ HandlerLeaves(p)
  <2>1. Kept /\ faults' = faults /\ pass[p].step \notin AtWork
    BY <1>2, StillKept DEF NothingToReview, RefuseCarry, Skip, HandlerLeaves, At, AtWork,
                           Working, counters
  <2> QED
    BY <1>1, <2>1, EndOwes
<1>3. CASE SayNoVerdict(p) \/ TellUnattested(p) \/ SayError(p)
  <2>1. pass[p].check \in Ids /\ faults' = faults
    BY <1>0, <1>3 DEF SayNoVerdict, TellUnattested, SayError, At, Working, counters
  <2>2. \E green \in BOOLEAN, title \in Titles : Completed(pass[p].check, green, title)
    BY <1>3 DEF SayNoVerdict, TellUnattested, SayError, NoVerdictTitles, Titles
  <2> QED
    BY <1>0, <1>1, <2>1, <2>2, CompletedKept, EndOwes
<1>4. CASE Unlabel(p) \/ Object(p)
  <2>1. Kept /\ faults' = faults
    BY <1>4, StillKept DEF Unlabel, Object, counters
  <2>2. checks[pass[p].check].done /\ pass[p].check \in Ids
    BY <1>0, <1>4 DEF Unlabel, Object, At, Room, Working
  <2> QED
    BY <1>1, <2>1, <2>2, EndOwes DEF Kept
<1>5. CASE Crash(p)
  BY <1>1, <1>5, StillKept, EndOwes DEF Crash, Fault
<1>6. CASE PassFails(p)
  <2>1. faults' = faults + 1
    BY <1>6 DEF PassFails, Fault
  <2>2. CASE Kept
    BY <1>1, <2>1, <2>2, EndOwes
  <2>3. CASE At(p, "start") /\ Opened(p)
    <3>1. /\ \A q \in Passes : q # p => pass'[q] = pass[q]
          /\ pass'[p].step = "idle"
      BY <1>0, <1>1, EndsIdle DEF TypeOK
    <3>2. \A q \in Passes \ {p} : lock = q => lock' = q
      BY <1>1 DEF Ends
    <3>3. Holds(p)'
      BY <3>1 DEF Holds
    <3> QED
      BY <1>1, <2>1, <2>3, <3>1, <3>2, <3>3, OpenOwes
  <2> QED
    BY <1>0, <1>6, <2>2, <2>3, EffectKept DEF PassFails
<1> QED
  BY <1>2, <1>3, <1>4, <1>5, <1>6

LEMMA OwedInit == Init => OwedInv
<1> SUFFICES ASSUME Init PROVE OwedInv
  OBVIOUS
<1>1. IInv
  BY IInit
<1>2. Orphans = {} /\ \A h : Automatic(h) = {}
  BY DEF Init, Orphans, Automatic, OnHead, Ids
<1>3. \A p \in Passes : pass[p].step = "idle"
  BY DEF Init, NoPass
<1>4. Cardinality({}) = 0 /\ faults = 0
  BY FS_EmptySet DEF Init
<1>5. RetriesAreOwed
  <2>1. ASSUME NEW h \in Heads PROVE Cardinality(Automatic(h)) <= 2 + faults
    <3>1. Cardinality(Automatic(h)) = 0
      BY <1>2, <1>4
    <3> QED
      BY <1>4, <3>1
  <2> QED
    BY <2>1 DEF RetriesAreOwed, Automatic
<1>6. ASSUME NEW p \in Passes PROVE Room(pass[p]) /\ Holds(p)
  <2>1. pass[p].step = "idle"
    BY <1>3
  <2>2. Room(pass[p])
    BY <2>1 DEF Room, Opening
  <2>3. Holds(p)
    BY <2>1 DEF Holds
  <2> QED
    BY <2>2, <2>3
<1>7. Cardinality(Orphans) <= faults
  BY <1>2, <1>4
<1> QED
  BY <1>1, <1>5, <1>6, <1>7 DEF OwedInv

LEMMA OwedStep == OwedInv /\ [Next]_vars => OwedInv'
<1> SUFFICES ASSUME OwedInv, [Next]_vars PROVE OwedInv'
  OBVIOUS
<1>1. IInv'
  BY IStep DEF OwedInv
<1>2. CASE UNCHANGED vars
  BY <1>1, <1>2, StillKept, WorldOwes DEF vars, shared, github, counters
<1>3. CASE Next
  <2>1. CASE Push
    BY <1>1, <2>1, PushOwes
  <2>2. CASE Label \/ \E v \in spool : Replay(v)
    <3>1. UNCHANGED <<head, pass, lock, faults, checks>>
      BY <2>2 DEF Label, Replay, github, counters
    <3> QED
      BY <1>1, <3>1, StillKept, WorldOwes
  <2>3. CASE \E c \in Ids : Age(c)
    <3> PICK c \in Ids : Age(c)
      BY <2>3
    <3>1. checks[c] \in Checks /\ checks' = [checks EXCEPT ![c].stale = TRUE]
      BY CheckTypes DEF OwedInv, IInv, Age
    <3>2. /\ DOMAIN checks' = Ids /\ \A d \in Ids : d # c => checks'[d] = checks[d]
          /\ checks'[c] = [checks[c] EXCEPT !.stale = TRUE]
      BY <3>1 DEF Ids, OwedInv, IInv, TypeOK
    <3>3. Kept
      BY <3>1, <3>2 DEF Kept, Checks
    <3> QED
      BY <1>1, <3>3, WorldOwes DEF Age, github, counters
  <2>4. ASSUME NEW p \in Passes, Poll(p) \/ Ask(p) \/ Carry(p) PROVE OwedInv'
    BY <1>1, <2>4, BeginOwes
  <2>5. ASSUME NEW p \in Passes, TellUnattested(p) PROVE OwedInv'
    BY <1>1, <2>5, WorkOwes, LastOwes
  <2>6. ASSUME NEW p \in Passes, Progress(p), ~TellUnattested(p) PROVE OwedInv'
    <3>1. CASE Reconcile(p) \/ Reconciled(p) \/ Select(p) \/ Load(p)
      BY <1>1, <3>1, EarlyOwes
    <3>2. CASE \/ DecideCarry(p) \/ DecideJudge(p) \/ Close(p) \/ Interrupt(p) \/ CloseDone(p)
               \/ Uncovered(p)
      BY <1>1, <3>2, OpeningOwes
    <3>3. CASE StartCheck(p)
      BY <1>1, <3>3, StartOwes
    <3>4. CASE \/ Judge(p) \/ NoJudge(p) \/ Attest(p) \/ Publish(p) \/ PostReview(p)
               \/ HandlerFindsNone(p)
      BY <1>1, <3>4, WorkOwes
    <3>5. CASE \/ NothingToReview(p) \/ RefuseCarry(p) \/ Skip(p) \/ SayNoVerdict(p)
               \/ Unlabel(p) \/ Object(p) \/ HandlerLeaves(p) \/ SayError(p)
      BY <1>1, <3>5, LastOwes
    <3> QED
      BY <2>6, <3>1, <3>2, <3>3, <3>4, <3>5 DEF Progress
  <2>7. ASSUME NEW p \in Passes, Failure(p) PROVE OwedInv'
    BY <1>1, <2>7, EarlyOwes, WorkOwes, LastOwes DEF Failure
  <2> QED
    BY <1>3, <2>1, <2>2, <2>3, <2>4, <2>5, <2>6, <2>7 DEF Next
<1> QED
  BY <1>2, <1>3

\* A head is judged by itself at most twice, and once more for each fault,
\* whatever the pushes, the labels, the carries and the passes.
THEOREM NoEndlessRetries == Spec => []RetriesAreOwed
<1>1. OwedInv => RetriesAreOwed
  BY DEF OwedInv
<1> QED
  BY <1>1, OwedInit, OwedStep, PTL DEF Spec

=============================================================================
