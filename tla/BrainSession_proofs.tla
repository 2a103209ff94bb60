------------------------ MODULE BrainSession_proofs ------------------------
(***************************************************************************)
(* No call is sent on a session of the pool that an earlier call gave up,  *)
(* for any number of threads, labels and calls, of a pool of the process   *)
(* or a private one, interrupted, closed and collected or not; and a loop  *)
(* that nobody interrupts stops with no session left.                      *)
(***************************************************************************)
EXTENDS BrainSession, FiniteSetTheorems, TLAPS

-----------------------------------------------------------------------------
(* The inductive invariant.                                                *)

\* Whoever has asked for the lock still has a number.
Asking == {t \in Threads : pc[t] \in {"asks", "to_close"}}
Counted == calls + Cardinality(Asking) <= MaxCalls

\* One thread at a time has a request with the loop: the last one numbered.
LockInv ==
    \A t \in Threads :
        /\ lock = t <=> pc[t] \in {"waits", "abandons", "closes", "joins"}
        /\ lock = t => asked[t].n = calls /\ calls # 0

\* The tasks that work for a call.
Working == {p \in parked : p.kind \in {"opening", "calling"}}

\* A queued handle.
Queued(i, do) == i \in DOMAIN ready /\ ready[i].do = do

\* The loop is asked in the order of the numbers, each call under one of its own.
QueueInOrder ==
    /\ \A i \in DOMAIN ready : ready[i].n <= calls
    /\ \A i, j \in DOMAIN ready : i < j => ready[i].n <= ready[j].n
    /\ \A i, j \in DOMAIN ready : i < j /\ Queued(j, "call") => ready[i].n < ready[j].n

\* All that happened is of earlier calls than those queued, or numbered next.
Before(n) ==
    /\ \A l \in Labels : sessions[l] < n
    /\ \A p \in Working : p.n < n
    /\ \A u \in used : u[2] < n

CallsAreNew ==
    /\ \A i \in DOMAIN ready : Queued(i, "call") => Before(ready[i].n)
    /\ Before(calls + 1)
    /\ \A t \in Threads : pc[t] \in {"closes", "joins"} =>
           Before(calls) /\ \A i \in DOMAIN ready : Queued(i, "call") => ready[i].n < calls
    /\ \A n \in Ids : n > calls => result[n] = "pending"
    /\ \A u \in used : u[1] <= u[2]

\* A session is opened for one call, and stored for one label.
SessionsAreOwn ==
    /\ \A p \in Working : p.kind = "opening" =>
           /\ p.session = p.n
           /\ \A l \in Labels : sessions[l] # p.n
           /\ \A u \in used : u[1] # p.n
    /\ \A p, q \in Working : p.n = q.n => p = q
    /\ \A l, k \in Labels : sessions[l] = sessions[k] /\ sessions[l] # 0 => l = k

Kept(n) == result[n] \in {"answer", "refusal"}

WaitsFor(n, l) ==
    \E t \in Threads : pc[t] = "waits" /\ asked[t].n = n /\ asked[t].label = l

DiscardAfter(i, n, l) ==
    \E k \in DOMAIN ready : i < k /\ ready[k] = Handle("discard", n, l)

DropsAfter(i, n, l) ==
    \E j \in DOMAIN ready : i < j /\ Queued(j, "cancel") /\ ready[j].n = n /\ DiscardAfter(j, n, l)

\* A call that is neither answered nor refused has its caller, or handles of its
\* caller on the queue that cancel it, and drop its session afterwards.
CallsAreOwned ==
    /\ \A i \in DOMAIN ready : Queued(i, "call") /\ ~Kept(ready[i].n) =>
           \/ WaitsFor(ready[i].n, ready[i].label)
           \/ DropsAfter(i, ready[i].n, ready[i].label)
    /\ \A p \in Working : ~Kept(p.n) => WaitsFor(p.n, p.label) \/ DropsAfter(0, p.n, p.label)
    /\ \A u \in used, l \in Labels : sessions[l] = u[1] /\ ~Kept(u[2]) =>
           WaitsFor(u[2], l) \/ DiscardAfter(0, u[2], l)
    /\ \A i \in DOMAIN ready : Queued(i, "cancel") => result[ready[i].n] # "pending"

OfACall(i) == Queued(i, "call") \/ Queued(i, "cancel") \/ Queued(i, "discard")

Shuts == \/ \E i \in DOMAIN ready : Queued(i, "shut")
         \/ \E p \in parked : p.kind = "shutting"

\* Nothing of a call is queued behind what stops the loop.
StopsAreLast ==
    /\ \A i, j \in DOMAIN ready : i < j /\ (Queued(i, "shut") \/ Queued(i, "stop")) => ~OfACall(j)
    /\ (\E p \in parked : p.kind = "shutting") => \A j \in DOMAIN ready : ~OfACall(j)
    /\ Shuts => dropped
    /\ dropped => \A t \in Threads : pc[t] \in {"idle", "to_close", "closes", "joins"}
    /\ (\E i \in DOMAIN ready : Queued(i, "stop")) =>
           dropped \/ \E t \in Threads : pc[t] = "joins"
    /\ loop = "none" => \/ dropped
                        \/ /\ \A i \in DOMAIN ready : ~Queued(i, "stop")
                           /\ \A t \in Threads : pc[t] # "closes"
    /\ loop # "running" => parked = {}

PoolInv ==
    /\ QueueInOrder /\ CallsAreNew /\ SessionsAreOwn /\ CallsAreOwned /\ StopsAreLast
    /\ SessionsAreNotShared

-----------------------------------------------------------------------------
(* The queue of the loop.                                                  *)

LEMMA ReadyType ==
    ASSUME TypeOK
    PROVE  /\ Len(ready) \in Nat /\ DOMAIN ready = 1..Len(ready)
           /\ \A i \in DOMAIN ready :
                /\ ready[i] \in Handles
                /\ ready[i].n \in Ids /\ ready[i].n \in Nat /\ ready[i].label \in Labels
<1>1. ready \in Seq(Handles) BY DEF TypeOK
<1>2. \A h \in Handles : h.n \in Ids /\ h.n \in Nat /\ h.label \in Labels
  BY DEF Handles, Ids
<1> QED BY <1>1, <1>2

LEMMA AppendReady ==
    ASSUME TypeOK, NEW h \in Handles, ready' = Append(ready, h)
    PROVE  /\ ready' \in Seq(Handles)
           /\ DOMAIN ready' = DOMAIN ready \cup {Len(ready) + 1}
           /\ ready'[Len(ready) + 1] = h
           /\ \A i \in DOMAIN ready : ready'[i] = ready[i] /\ i <= Len(ready) /\ i \in Nat
           /\ Len(ready) \in Nat
<1>1. ready \in Seq(Handles) BY DEF TypeOK
<1> QED BY <1>1

LEMMA AppendTwo ==
    ASSUME TypeOK, NEW g \in Handles, NEW h \in Handles, Append2(g, h)
    PROVE  /\ ready' \in Seq(Handles)
           /\ DOMAIN ready' = DOMAIN ready \cup {Len(ready) + 1, Len(ready) + 2}
           /\ ready'[Len(ready) + 1] = g /\ ready'[Len(ready) + 2] = h
           /\ \A i \in DOMAIN ready : ready'[i] = ready[i] /\ i <= Len(ready) /\ i \in Nat
           /\ Len(ready) \in Nat
<1>1. ready \in Seq(Handles) BY DEF TypeOK
<1>2. ready' = ready \o <<g, h>> BY DEF Append2
<1>3. <<g, h>> \in Seq(Handles) /\ Len(<<g, h>>) = 2 OBVIOUS
<1>4. ready' \in Seq(Handles) /\ Len(ready') = Len(ready) + 2 BY <1>1, <1>2, <1>3
<1>5. /\ \A i \in 1..Len(ready) : ready'[i] = ready[i]
      /\ ready'[Len(ready) + 1] = g /\ ready'[Len(ready) + 2] = h
  BY <1>1, <1>2, <1>3
<1> QED BY <1>1, <1>4, <1>5

LEMMA TailReady ==
    ASSUME TypeOK, ready # <<>>, ready' = Tail(ready)
    PROVE  /\ ready' \in Seq(Handles)
           /\ \A i \in DOMAIN ready' : i \in Nat /\ i >= 1 /\ i + 1 \in DOMAIN ready /\ ready'[i] = ready[i + 1]
           /\ \A i \in DOMAIN ready : /\ i \in Nat /\ i >= 1
                                      /\ i # 1 => i - 1 \in DOMAIN ready' /\ ready'[i - 1] = ready[i]
           /\ 1 \in DOMAIN ready /\ Head(ready) = ready[1]
<1>1. ready \in Seq(Handles) BY DEF TypeOK
<1> QED BY <1>1

-----------------------------------------------------------------------------
(* Types, and the numbers of the requests.                                 *)

LEMMA AskingFinite ==
    IsFiniteSet(Asking) /\ Cardinality(Asking) \in Nat
<1>1. Asking \subseteq Threads BY DEF Asking
<1> QED BY <1>1, ThreadsAssumption, FS_Subset, FS_CardinalityType

\* A thread that asks has a number to be given.
LEMMA AskingFits ==
    ASSUME TypeOK, Counted, NEW t \in Asking
    PROVE  /\ calls < MaxCalls /\ Cardinality(Asking \ {t}) \in Nat
           /\ calls + 1 + Cardinality(Asking \ {t}) <= MaxCalls
<1>1. Cardinality(Asking \ {t}) = Cardinality(Asking) - 1 /\ IsFiniteSet(Asking \ {t})
  BY AskingFinite, FS_RemoveElement
<1>2. Cardinality(Asking \ {t}) \in Nat BY <1>1, FS_CardinalityType
<1> QED BY <1>1, <1>2, AskingFinite, CallsAssumption DEF Counted, TypeOK

LEMMA CountedStep ==
    ASSUME TypeOK, Counted, [Next]_vars
    PROVE  Counted'
<1>1. ASSUME Asking' = Asking, calls' = calls PROVE Counted'
  BY <1>1 DEF Counted
<1>2. ASSUME NEW t \in Threads, NEW do, NEW where, pc[t] \in {"asks", "to_close"},
             Takes(t, do, where), where \notin {"asks", "to_close"}
      PROVE  Counted'
  <2>1. t \in Asking BY <1>2 DEF Asking
  <2>2. Asking' = Asking \ {t} /\ calls' = calls + 1
    BY <1>2 DEF Asking, Takes, Goto, TypeOK
  <2> QED BY <2>1, <2>2, AskingFits DEF Counted
<1>3. ASSUME NEW t \in Threads, NEW l \in Labels, NEW where \in {"asks", "to_close"},
             Ask(t, l, where)
      PROVE  Counted'
  <2>1. Asking' = Asking \cup {t} /\ t \notin Asking /\ calls' = calls
    BY <1>3 DEF Ask, Asking, Goto, TypeOK
  <2>2. Cardinality(Asking') = Cardinality(Asking) + 1
    BY <2>1, AskingFinite, FS_AddElement
  <2>3. calls + Cardinality(Asking) < MaxCalls BY <1>3 DEF Ask, Asking
  <2> QED BY <2>1, <2>2, <2>3, AskingFinite, CallsAssumption DEF Counted, TypeOK
<1>4. ASSUME NEW t \in Threads, Call(t) \/ StartFails(t) PROVE Counted'
  BY <1>2, <1>4 DEF Call, StartFails
<1>5. ASSUME NEW t \in Threads, Close(t) PROVE Counted'
  <2>1. CASE loop = "none"
    <3>1. t \in Asking BY <1>5 DEF Close, Asking
    <3>2. Asking' = Asking \ {t} /\ calls' = calls
      BY <1>5, <2>1 DEF Close, Asking, Goto, TypeOK
    <3>3. calls \in Int /\ MaxCalls \in Int BY CallsAssumption DEF TypeOK
    <3>4. calls + Cardinality(Asking \ {t}) <= MaxCalls BY <3>1, <3>3, AskingFits
    <3> QED BY <3>2, <3>4 DEF Counted
  <2>2. CASE loop # "none" BY <1>2, <1>5, <2>2 DEF Close
  <2> QED BY <2>1, <2>2
<1>6. ASSUME NEW t \in Threads,
             Returns(t) \/ GivesUp(t) \/ Abandoned(t) \/ Stops(t) \/ Joins(t) \/ Interrupt(t)
      PROVE  Counted'
  <2>1. Asking' = Asking /\ calls' = calls
    BY <1>6 DEF Returns, GivesUp, Abandoned, Stops, Joins, Interrupt, Release, Goto, Asking, TypeOK
  <2> QED BY <1>1, <2>1
<1>7. ASSUME Collected PROVE Counted'
  <2>1. Asking' = {} /\ calls' = calls + 1 /\ calls < MaxCalls
    BY <1>7 DEF Collected, Asking
  <2> QED BY <2>1, FS_EmptySet, CallsAssumption DEF Counted, TypeOK
<1>8. ASSUME NEW p \in parked, Closed(p) \/ Opened(p) \/ Answers(p) PROVE Counted'
  BY <1>1, <1>8 DEF Closed, Opened, Answers, OnLoop, Asking
<1>9. ASSUME RunHandle PROVE Counted'
  BY <1>1, <1>9 DEF RunHandle, OnLoop, Asking
<1>10. CASE UNCHANGED vars BY <1>1, <1>10 DEF vars, Asking
<1> QED BY <1>3, <1>4, <1>5, <1>6, <1>7, <1>8, <1>9, <1>10 DEF Next, ThreadStep, LoopStep

LEMMA LockStep ==
    ASSUME TypeOK, LockInv, [Next]_vars
    PROVE  LockInv'
<1>1. ASSUME UNCHANGED <<lock, pc, asked, calls>> PROVE LockInv'
  BY <1>1 DEF LockInv
<1>2. ASSUME NEW t \in Threads, NEW l \in Labels, NEW where \in {"asks", "to_close"},
             Ask(t, l, where)
      PROVE  LockInv'
  BY <1>2 DEF Ask, Goto, TypeOK, LockInv
<1>3. ASSUME NEW t \in Threads, NEW do, NEW where \in {"waits", "abandons", "closes"},
             Takes(t, do, where)
      PROVE  LockInv'
  BY <1>3, ThreadsAssumption DEF Takes, Goto, TypeOK, LockInv
<1>4. ASSUME NEW t \in Threads, pc[t] \in {"waits", "abandons", "joins"}, Release(t),
             UNCHANGED <<asked, calls>>
      PROVE  LockInv'
  BY <1>4, ThreadsAssumption DEF Release, Goto, TypeOK, LockInv
<1>5. ASSUME NEW t \in Threads, GivesUp(t) \/ Stops(t) PROVE LockInv'
  BY <1>5 DEF GivesUp, Stops, Goto, TypeOK, LockInv
<1>6. ASSUME NEW t \in Threads, Call(t) \/ StartFails(t) PROVE LockInv'
  BY <1>3, <1>6 DEF Call, StartFails
<1>7. ASSUME NEW t \in Threads, Close(t) PROVE LockInv'
  <2>1. CASE loop = "none" BY <1>7, <2>1 DEF Close, Goto, TypeOK, LockInv
  <2>2. CASE loop # "none" BY <1>3, <1>7, <2>2 DEF Close
  <2> QED BY <2>1, <2>2
<1>8. ASSUME NEW t \in Threads, Returns(t) \/ Abandoned(t) \/ Joins(t) \/ Interrupt(t)
      PROVE  LockInv'
  BY <1>4, <1>8 DEF Returns, Abandoned, Joins, Interrupt
<1>9. ASSUME Collected PROVE LockInv'
  BY <1>9 DEF Collected, LockInv
<1>10. ASSUME NEW p \in parked, Closed(p) \/ Opened(p) \/ Answers(p) PROVE LockInv'
  BY <1>1, <1>10 DEF Closed, Opened, Answers, OnLoop
<1>11. ASSUME RunHandle PROVE LockInv'
  BY <1>1, <1>11 DEF RunHandle, OnLoop
<1>12. CASE UNCHANGED vars BY <1>1, <1>12 DEF vars
<1> QED BY <1>2, <1>5, <1>6, <1>7, <1>8, <1>9, <1>10, <1>11, <1>12
        DEF Next, ThreadStep, LoopStep

\* The threads' part of the types, and the loop's.
ThreadsType ==
    /\ lock \in Threads \cup {Nobody}
    /\ pc \in [Threads -> {"idle", "asks", "waits", "abandons", "to_close", "closes", "joins"}]
    /\ asked \in [Threads -> [n : 0..MaxCalls, label : Labels]]
    /\ calls \in 0..MaxCalls

LoopType ==
    /\ loop \in {"none", "running", "dead"}
    /\ parked \subseteq Tasks
    /\ sessions \in [Labels -> 0..MaxCalls]
    /\ tidied \subseteq Ids /\ used \subseteq Ids \X Ids
    /\ open \subseteq Ids /\ cut \subseteq open

\* The request of the thread that holds the lock.
LEMMA RequestType ==
    ASSUME TypeOK, LockInv, NEW t \in Threads, pc[t] \in {"waits", "abandons", "closes", "joins"}
    PROVE  /\ asked[t].n \in Ids /\ asked[t].n = calls /\ asked[t].label \in Labels
           /\ \A do \in {"call", "cancel", "discard", "close", "shut", "stop"} :
                  Request(t, do) \in Handles
<1>1. lock = t /\ asked[t].n = calls /\ calls # 0 BY DEF LockInv
<1>2. asked[t].n \in Ids /\ asked[t].label \in Labels
  BY <1>1, CallsAssumption DEF TypeOK, Ids
<1> QED BY <1>1, <1>2 DEF Request, Handle, Handles

\* A thread that takes the lock numbers its request.
LEMMA TakesType ==
    ASSUME TypeOK, Counted, NEW t \in Threads, pc[t] \in {"asks", "to_close"},
           NEW do \in {"call", "discard", "close"}, NEW where \in {"waits", "abandons", "closes"},
           Takes(t, do, where)
    PROVE  /\ ThreadsType' /\ ready' \in Seq(Handles)
           /\ Handle(do, calls + 1, asked[t].label) \in Handles
<1>1. calls + 1 \in Ids /\ asked[t].label \in Labels
  <2>1. t \in Asking BY DEF Asking
  <2>2. calls < MaxCalls BY <2>1, AskingFits
  <2> QED BY <2>2, CallsAssumption DEF TypeOK, Ids
<1>2. Handle(do, calls + 1, asked[t].label) \in Handles BY <1>1 DEF Handle, Handles
<1>3. ready' \in Seq(Handles) BY <1>2, AppendReady DEF Takes
<1>4. calls' \in 0..MaxCalls /\ calls + 1 \in 0..MaxCalls BY <1>1, CallsAssumption DEF Takes, Ids
<1>5. ThreadsType' BY <1>4 DEF Takes, Goto, TypeOK, ThreadsType
<1> QED BY <1>2, <1>3, <1>5

LEMMA ThreadTypes ==
    ASSUME TypeOK, Counted, LockInv, NEW t \in Threads,
           ThreadStep(t) \/ Interrupt(t)
           \/ \E l \in Labels, where \in {"asks", "to_close"} : Ask(t, l, where)
    PROVE  TypeOK'
<1>1. ASSUME ThreadsType', ready' \in Seq(Handles), result' \in [Ids -> Outcomes],
             loop' \in {"none", "running", "dead"}, UNCHANGED OnThreads
      PROVE  TypeOK'
  BY <1>1 DEF OnThreads, ThreadsType, TypeOK
<1>2. /\ result \in [Ids -> Outcomes] /\ ready \in Seq(Handles)
      /\ loop \in {"none", "running", "dead"}
  BY DEF TypeOK
<1>3. ASSUME NEW l \in Labels, NEW where \in {"asks", "to_close"}, Ask(t, l, where) PROVE TypeOK'
  <2>1. /\ pc' = [pc EXCEPT ![t] = where] /\ asked' = [asked EXCEPT ![t].label = l]
        /\ UNCHANGED <<calls, lock, loop, ready, result>> /\ UNCHANGED OnThreads
    BY <1>3 DEF Ask, Goto
  <2>2. /\ lock' \in Threads \cup {Nobody} /\ calls' \in 0..MaxCalls
        /\ pc' \in [Threads -> {"idle", "asks", "waits", "abandons", "to_close", "closes", "joins"}]
    BY <2>1 DEF TypeOK
  <2>3. asked' \in [Threads -> [n : 0..MaxCalls, label : Labels]]
    <3> DEFINE r == [asked[t] EXCEPT !.label = l]
    <3>1. asked \in [Threads -> [n : 0..MaxCalls, label : Labels]] BY DEF TypeOK
    <3>2. r \in [n : 0..MaxCalls, label : Labels] BY <3>1
    <3>3. asked' = [asked EXCEPT ![t] = r] BY <2>1
    <3> HIDE DEF r
    <3> QED BY <3>1, <3>2, <3>3
  <2>4. ThreadsType' BY <2>2, <2>3 DEF ThreadsType
  <2> QED BY <1>1, <1>2, <2>1, <2>4
<1>4. CASE Call(t) \/ StartFails(t)
  <2>1. ThreadsType' /\ ready' \in Seq(Handles) BY <1>4, TakesType DEF Call, StartFails
  <2> QED BY <1>1, <1>2, <1>4, <2>1 DEF Call, StartFails
<1>5. CASE Close(t)
  <2>1. CASE loop = "none"
    <3>1. ThreadsType' BY <1>5, <2>1 DEF Close, Goto, TypeOK, ThreadsType
    <3> QED BY <1>1, <1>2, <1>5, <2>1, <3>1 DEF Close
  <2>2. CASE loop # "none"
    <3>1. ThreadsType' /\ ready' \in Seq(Handles) BY <1>5, <2>2, TakesType DEF Close
    <3> QED BY <1>1, <1>2, <1>5, <3>1 DEF Close
  <2> QED BY <2>1, <2>2
<1>6. ASSUME UNCHANGED <<asked, calls>>,
             \/ UNCHANGED lock /\ \E where \in {"abandons", "joins"} : Goto(t, where)
             \/ Release(t)
      PROVE  ThreadsType'
  BY <1>6 DEF Release, Goto, TypeOK, ThreadsType
<1>7. CASE Returns(t) \/ Abandoned(t) \/ Joins(t)
  <2>1. ThreadsType' BY <1>6, <1>7 DEF Returns, Abandoned, Joins
  <2> QED BY <1>1, <1>2, <1>7, <2>1 DEF Returns, Abandoned, Joins
<1>8. ASSUME NEW outcome \in Outcomes, NEW n,
             result' = [result EXCEPT ![n] = IF @ = "pending" THEN outcome ELSE @]
      PROVE  result' \in [Ids -> Outcomes]
  BY <1>2, <1>8
<1>9. ASSUME Abandon(t), pc[t] = "waits" PROVE ready' \in Seq(Handles)
  <2>1. Request(t, "cancel") \in Handles /\ Request(t, "discard") \in Handles
    BY <1>9, RequestType
  <2> QED BY <1>9, <2>1, AppendTwo DEF Abandon
<1>10. CASE GivesUp(t)
  <2>1. ThreadsType' BY <1>6, <1>10 DEF GivesUp
  <2>2. result' \in [Ids -> Outcomes] BY <1>8, <1>10 DEF GivesUp, Outcomes
  <2> QED BY <1>1, <1>2, <1>9, <1>10, <2>1, <2>2 DEF GivesUp
<1>11. CASE Interrupt(t)
  <2>1. ThreadsType' BY <1>6, <1>11 DEF Interrupt
  <2>2. result' \in [Ids -> Outcomes] BY <1>2, <1>8, <1>11 DEF Interrupt, Outcomes
  <2>3. ready' \in Seq(Handles) BY <1>2, <1>9, <1>11 DEF Interrupt
  <2> QED BY <1>1, <1>2, <1>11, <2>1, <2>2, <2>3 DEF Interrupt
<1>12. CASE Stops(t)
  <2>1. ThreadsType' BY <1>6, <1>12 DEF Stops
  <2>2. result' \in [Ids -> Outcomes] BY <1>2, <1>12 DEF Stops, Outcomes
  <2>3. Request(t, "stop") \in Handles BY <1>12, RequestType DEF Stops
  <2>4. ready' \in Seq(Handles) BY <1>12, <2>3, AppendReady DEF Stops
  <2> QED BY <1>1, <1>2, <1>12, <2>1, <2>2, <2>4 DEF Stops
<1> QED BY <1>3, <1>4, <1>5, <1>7, <1>10, <1>11, <1>12 DEF ThreadStep

LEMMA CloseNextType ==
    ASSUME TypeOK, NEW kind \in {"discarding", "closing", "shutting"}, NEW n \in Ids,
           NEW rest \in SUBSET Labels, NEW others \in SUBSET Tasks,
           CloseNext(kind, n, rest, others), open' \subseteq Ids, cut \subseteq open',
           used' = used
    PROVE  LoopType'
<1>1. CASE rest = {}
  BY <1>1 DEF CloseNext, Ends, TypeOK, LoopType
<1>2. CASE rest # {}
  <2>1. PICK l \in rest :
            /\ sessions' = [sessions EXCEPT ![l] = 0]
            /\ parked' = others \cup {Task(kind, n, l, sessions[l], rest \ {l})}
            /\ UNCHANGED <<tidied, loop, cut>>
    BY <1>2 DEF CloseNext
  <2>2. Task(kind, n, l, sessions[l], rest \ {l}) \in Tasks
    BY <2>1 DEF Task, Tasks, TypeOK
  <2>3. sessions' \in [Labels -> 0..MaxCalls] BY <2>1, CallsAssumption DEF TypeOK
  <2>4. parked' \subseteq Tasks BY <2>1, <2>2
  <2> QED BY <2>1, <2>3, <2>4 DEF TypeOK, LoopType
<1> QED BY <1>1, <1>2

\* The types of a task.
LEMMA TaskType ==
    ASSUME TypeOK, NEW p \in parked
    PROVE  /\ p.kind \in {"opening", "calling", "discarding", "closing", "shutting"}
           /\ p.n \in Ids /\ p.n \in Nat /\ p.label \in Labels /\ p.session \in 0..MaxCalls
           /\ p.rest \in SUBSET Labels
BY DEF TypeOK, Tasks, Ids

LEMMA HandleTypes ==
    ASSUME TypeOK, NEW h \in Handles,
           StartCall(h) \/ Cancel(h) \/ Discard(h) \/ CloseSessions(h) \/ Stop(h)
    PROVE  LoopType' /\ dropped' \in BOOLEAN
<1>1. /\ h.n \in Ids /\ h.label \in Labels
      /\ sessions[h.label] \in 0..MaxCalls /\ h.n \in 0..MaxCalls
      /\ sessions[h.label] # 0 => sessions[h.label] \in Ids
  BY CallsAssumption DEF Handles, TypeOK, Ids
<1>2. ASSUME NEW kind \in {"opening", "calling", "discarding"}, NEW s \in 0..MaxCalls,
             Park(Task(kind, h.n, h.label, s, {}))
      PROVE  parked' \subseteq Tasks
  <2>1. Task(kind, h.n, h.label, s, {}) \in Tasks BY <1>1 DEF Task, Tasks
  <2> QED BY <1>2, <2>1 DEF Park, TypeOK
<1>3. CASE StartCall(h)
  <2>1. parked' \subseteq Tasks BY <1>1, <1>2, <1>3 DEF StartCall
  <2>2. used' \subseteq Ids \X Ids BY <1>1, <1>3 DEF StartCall, TypeOK
  <2> QED BY <1>3, <2>1, <2>2 DEF StartCall, TypeOK, LoopType
<1>4. CASE Cancel(h) BY <1>4 DEF Cancel, TypeOK, LoopType
<1>5. CASE Discard(h)
  <2>1. parked' \subseteq Tasks BY <1>1, <1>2, <1>5 DEF Discard, TypeOK
  <2>2. sessions' \in [Labels -> 0..MaxCalls] 
    <3>1. 0 \in 0..MaxCalls BY CallsAssumption
    <3>2. sessions' = [sessions EXCEPT ![h.label] = 0] BY <1>5 DEF Discard
    <3> QED BY <3>1, <3>2 DEF TypeOK
  <2> QED BY <1>1, <1>5, <2>1, <2>2 DEF Discard, TypeOK, LoopType
<1>6. CASE CloseSessions(h)
  <2>1. {l \in Labels : sessions[l] # 0} \in SUBSET Labels OBVIOUS
  <2>2. LoopType' BY <1>1, <1>6, <2>1, CloseNextType DEF CloseSessions, TypeOK
  <2> QED BY <1>6, <2>2 DEF CloseSessions, TypeOK
<1>7. CASE Stop(h) BY <1>7 DEF Stop, Ends, TypeOK, LoopType
<1> QED BY <1>3, <1>4, <1>5, <1>6, <1>7

LEMMA TypeStep ==
    ASSUME TypeOK, Counted, LockInv, SessionsAreOwn, [Next]_vars
    PROVE  TypeOK'
<1>1. ASSUME LoopType', ready' \in Seq(Handles), result' \in [Ids -> Outcomes],
             dropped' \in BOOLEAN, UNCHANGED OnLoop
      PROVE  TypeOK'
  <2>1. ThreadsType' BY <1>1 DEF OnLoop, TypeOK, ThreadsType
  <2>2. scope' \in Scopes BY <1>1 DEF OnLoop, TypeOK
  <2> QED BY <1>1, <2>1, <2>2 DEF TypeOK, ThreadsType, LoopType
<1>2. /\ result \in [Ids -> Outcomes] /\ ready \in Seq(Handles) /\ dropped \in BOOLEAN
      /\ <<>> \in Seq(Handles)
  BY DEF TypeOK
<1>3. ASSUME RunHandle PROVE TypeOK'
  <2>1. Head(ready) \in Handles /\ Tail(ready) \in Seq(Handles) BY <1>2, <1>3 DEF RunHandle
  <2>2. LoopType' /\ dropped' \in BOOLEAN BY <1>3, <2>1, HandleTypes DEF RunHandle
  <2> QED BY <1>1, <1>2, <1>3, <2>1, <2>2 DEF RunHandle
<1>4. ASSUME NEW p \in parked, Closed(p) PROVE TypeOK'
  <2>1. /\ open' \subseteq Ids /\ cut \subseteq open' /\ used' = used /\ dropped' = dropped
        /\ parked \ {p} \in SUBSET Tasks
    BY <1>4 DEF Closed, TypeOK
  <2>2. LoopType' BY <1>4, <2>1, TaskType, CloseNextType DEF Closed
  <2> QED BY <1>1, <1>2, <1>4, <2>1, <2>2 DEF Closed
<1>5. ASSUME NEW p \in parked, Opened(p) PROVE TypeOK'
  <2>1. [p EXCEPT !.kind = "calling"] \in Tasks BY DEF TypeOK, Tasks
  <2>2. parked' \subseteq Tasks BY <1>5, <2>1 DEF Opened, TypeOK
  <2>3. sessions' \in [Labels -> 0..MaxCalls] BY <1>5, TaskType DEF Opened, TypeOK
  <2>4. p.session \in Ids /\ p.n \in Ids
    BY <1>5, TaskType DEF Opened, SessionsAreOwn, Working
  <2>5. open' \subseteq Ids /\ used' \subseteq Ids \X Ids
    BY <1>5, <2>4 DEF Opened, TypeOK
  <2>6. LoopType' BY <1>5, <2>2, <2>3, <2>5 DEF Opened, TypeOK, LoopType
  <2> QED BY <1>1, <1>2, <1>5, <2>6 DEF Opened
<1>6. ASSUME NEW p \in parked, Answers(p) PROVE TypeOK'
  <2>1. result' \in [Ids -> Outcomes]
    BY <1>2, <1>6 DEF Answers, Learn, Outcomes
  <2>2. LoopType' BY <1>6 DEF Answers, TypeOK, LoopType
  <2> QED BY <1>1, <1>2, <1>6, <2>1, <2>2 DEF Answers
<1>7. ASSUME Collected PROVE TypeOK'
  <2>1. calls + 1 \in Ids BY <1>7, CallsAssumption DEF Collected, TypeOK, Ids
  <2>2. (CHOOSE l \in Labels : TRUE) \in Labels BY LabelsAssumption
  <2>3. Handle("shut", calls + 1, CHOOSE l \in Labels : TRUE) \in Handles
    BY <2>1, <2>2 DEF Handle, Handles
  <2>4. ready' \in Seq(Handles) BY <1>7, <2>3, AppendReady DEF Collected
  <2>5. calls' \in 0..MaxCalls BY <1>7, <2>1, CallsAssumption DEF Collected, Ids
  <2> QED BY <1>7, <2>4, <2>5 DEF Collected, TypeOK
<1>8. CASE UNCHANGED vars BY <1>8 DEF vars, TypeOK
<1> QED BY <1>3, <1>4, <1>5, <1>6, <1>7, <1>8, ThreadTypes DEF Next, LoopStep

-----------------------------------------------------------------------------
(* Steps of the threads.                                                   *)

\* Only one thread has a request with the loop.
LEMMA OneAtATime ==
    ASSUME LockInv, NEW t \in Threads, pc[t] \in {"waits", "abandons", "closes", "joins"}
    PROVE  \A u \in Threads : u # t => pc[u] \notin {"waits", "abandons", "closes", "joins"}
BY DEF LockInv

LEMMA NobodyAtATime ==
    ASSUME LockInv, lock = Nobody
    PROVE  \A u \in Threads : pc[u] \notin {"waits", "abandons", "closes", "joins"}
BY ThreadsAssumption DEF LockInv

Elsewhere == <<parked, sessions, used, dropped>>

\* The parts of the invariant, of the state that follows.
BeforeThen(n) ==
    /\ \A l \in Labels : sessions'[l] < n
    /\ \A p \in Working' : p.n < n
    /\ \A u \in used' : u[2] < n

KeptThen(n) == result'[n] \in {"answer", "refusal"}

WaitsThen(n, l) ==
    \E t \in Threads : pc'[t] = "waits" /\ asked'[t].n = n /\ asked'[t].label = l

DiscardThen(i, n, l) ==
    \E k \in DOMAIN ready' : i < k /\ ready'[k] = Handle("discard", n, l)

DropsThen(i, n, l) ==
    \E j \in DOMAIN ready' :
        i < j /\ ready'[j].do = "cancel" /\ ready'[j].n = n /\ DiscardThen(j, n, l)

LEMMA CallsAreNewThen ==
    ASSUME \A i \in DOMAIN ready' : ready'[i].do = "call" => BeforeThen(ready'[i].n),
           BeforeThen(calls' + 1),
           \A t \in Threads : pc'[t] \in {"closes", "joins"} =>
               /\ BeforeThen(calls')
               /\ \A i \in DOMAIN ready' : ready'[i].do = "call" => ready'[i].n < calls',
           \A n \in Ids : n > calls' => result'[n] = "pending",
           \A u \in used' : u[1] <= u[2]
    PROVE  CallsAreNew'
BY DEF CallsAreNew, Before, BeforeThen, Queued

LEMMA CallsAreOwnedThen ==
    ASSUME \A i \in DOMAIN ready' : ready'[i].do = "call" /\ ~KeptThen(ready'[i].n) =>
               \/ WaitsThen(ready'[i].n, ready'[i].label)
               \/ DropsThen(i, ready'[i].n, ready'[i].label),
           \A p \in Working' : ~KeptThen(p.n) => WaitsThen(p.n, p.label) \/ DropsThen(0, p.n, p.label),
           \A u \in used', l \in Labels : sessions'[l] = u[1] /\ ~KeptThen(u[2]) =>
               WaitsThen(u[2], l) \/ DiscardThen(0, u[2], l),
           \A i \in DOMAIN ready' : ready'[i].do = "cancel" => result'[ready'[i].n] # "pending"
    PROVE  CallsAreOwned'
BY DEF CallsAreOwned, Kept, WaitsFor, DropsAfter, DiscardAfter, KeptThen, WaitsThen, DropsThen,
       DiscardThen, Queued

\* A thread asks, or leaves with an answer or without.
LEMMA QuietKeeps ==
    ASSUME TypeOK, PoolInv, NEW t \in Threads,
           UNCHANGED <<ready, result, calls, loop>>, UNCHANGED Elsewhere,
           \A u \in Threads : u # t => pc'[u] = pc[u] /\ asked'[u] = asked[u],
           pc'[t] \in {"idle", "asks", "to_close"}, dropped => pc'[t] # "asks",
           pc[t] = "joins" => loop = "none", pc[t] = "waits" => Kept(asked[t].n)
    PROVE  PoolInv'
<1> USE DEF Elsewhere, Queued
<1>1. QueueInOrder' BY DEF PoolInv, QueueInOrder
<1>2. CallsAreNew'
  <2>1. \A n : Before(n) => Before(n)' BY DEF Before, Working
  <2> QED BY <2>1 DEF PoolInv, CallsAreNew, Before, Working
<1>3. SessionsAreOwn' BY DEF PoolInv, SessionsAreOwn, Working
<1>4. CallsAreOwned'
  <2>1. \A n, l : ~Kept(n) /\ WaitsFor(n, l) => WaitsFor(n, l)'
    BY DEF WaitsFor
  <2>2. \A i, n, l : /\ DropsAfter(i, n, l)' <=> DropsAfter(i, n, l)
                     /\ DiscardAfter(i, n, l)' <=> DiscardAfter(i, n, l)
    BY DEF DropsAfter, DiscardAfter
  <2>3. Working' = Working /\ \A n : Kept(n)' <=> Kept(n) BY DEF Working, Kept
  <2> QED BY <2>1, <2>2, <2>3 DEF PoolInv, CallsAreOwned
<1>5. StopsAreLast'
  <2>1. Shuts' <=> Shuts BY DEF Shuts
  <2> QED BY <2>1 DEF PoolInv, StopsAreLast, OfACall
<1>6. SessionsAreNotShared' BY DEF PoolInv, SessionsAreNotShared, Abandons
<1> QED BY <1>1, <1>2, <1>3, <1>4, <1>5, <1>6 DEF PoolInv

\* A handle behind the others leaves what the others are followed by.
LEMMA AppendFollows ==
    ASSUME \A i \in DOMAIN ready : i \in DOMAIN ready' /\ ready'[i] = ready[i]
    PROVE  /\ \A i, n, l : DropsAfter(i, n, l) => DropsThen(i, n, l)
           /\ \A i, n, l : DiscardAfter(i, n, l) => DiscardThen(i, n, l)
<1>1. \A i, n, l : DiscardAfter(i, n, l) => DiscardThen(i, n, l) BY DEF DiscardAfter, DiscardThen
<1> QED BY <1>1 DEF DropsAfter, DropsThen, Queued

\* The next number is later than all that happened.
LEMMA BeforeLater ==
    ASSUME TypeOK, NEW n \in Nat, Before(n)
    PROVE  Before(n + 1)
<1>1. \A l \in Labels : sessions[l] \in Nat BY CallsAssumption DEF TypeOK
<1>2. \A p \in Working : p.n \in Nat BY TaskType DEF Working
<1>3. \A u \in used : u[2] \in Nat BY DEF TypeOK, Ids
<1> QED BY <1>1, <1>2, <1>3 DEF Before

LEMMA TakesKeeps ==
    ASSUME TypeOK, Counted, LockInv, PoolInv, NEW t \in Threads,
           pc[t] \in {"asks", "to_close"}, dropped => pc[t] = "to_close",
           NEW do \in {"call", "discard", "close"}, NEW where \in {"waits", "abandons", "closes"},
           Takes(t, do, where), do = "call" <=> where = "waits", do = "close" <=> where = "closes",
           pc[t] = "to_close" => do = "close",
           loop' # "none", loop' = loop \/ loop = "none", UNCHANGED result, UNCHANGED Elsewhere
    PROVE  PoolInv'
<1> DEFINE h == Handle(do, calls + 1, asked[t].label)
<1>1. h \in Handles /\ ready' = Append(ready, h) BY TakesType DEF Takes
<1>2. h.do = do /\ h.n = calls + 1 /\ h.label = asked[t].label BY DEF Handle
<1>3. /\ calls' = calls + 1 /\ calls \in Nat
      /\ pc'[t] = where /\ asked'[t].n = calls + 1 /\ asked'[t].label = asked[t].label
      /\ \A u \in Threads : u # t => pc'[u] = pc[u]
  BY CallsAssumption DEF Takes, Goto, TypeOK
<1>4. \A u \in Threads : pc[u] \notin {"waits", "abandons", "closes", "joins"}
  BY NobodyAtATime DEF Takes
<1> HIDE DEF h
<1>5. /\ DOMAIN ready' = DOMAIN ready \cup {Len(ready) + 1} /\ Len(ready) \in Nat
      /\ ready'[Len(ready) + 1] = h
      /\ \A i \in DOMAIN ready : ready'[i] = ready[i] /\ i <= Len(ready) /\ i \in Nat
  BY <1>1, AppendReady
<1>6. \A i \in DOMAIN ready : ready[i].n <= calls /\ ready[i].n \in Nat
  BY ReadyType DEF PoolInv, QueueInOrder
<1>7. QueueInOrder'
  BY <1>2, <1>3, <1>5, <1>6 DEF PoolInv, QueueInOrder, Queued
<1>8. \A n : Before(n) => BeforeThen(n) BY DEF Before, BeforeThen, Elsewhere, Working
<1>9. CallsAreNew'
  <2>1. BeforeThen(calls + 1) /\ BeforeThen(calls + 2)
    BY <1>3, <1>8, BeforeLater DEF PoolInv, CallsAreNew
  <2>2. \A i \in DOMAIN ready' : ready'[i].do = "call" => BeforeThen(ready'[i].n)
    BY <1>2, <1>5, <1>8, <2>1 DEF PoolInv, CallsAreNew, Queued
  <2>3. \A u \in Threads : pc'[u] \in {"closes", "joins"} =>
           /\ BeforeThen(calls')
           /\ \A i \in DOMAIN ready' : ready'[i].do = "call" => ready'[i].n < calls'
    <3>1. ASSUME NEW u \in Threads, pc'[u] \in {"closes", "joins"} PROVE do = "close"
      BY <1>3, <1>4, <3>1
    <3> QED BY <1>2, <1>3, <1>5, <1>6, <2>1, <3>1
  <2>4. \A n \in Ids : n > calls' => result'[n] = "pending"
    BY <1>3 DEF PoolInv, CallsAreNew, Ids
  <2>5. BeforeThen(calls' + 1) BY <1>3, <2>1
  <2>6. \A u \in used' : u[1] <= u[2] BY DEF PoolInv, CallsAreNew, Elsewhere
  <2> QED BY <2>2, <2>3, <2>4, <2>5, <2>6, CallsAreNewThen
<1>10. SessionsAreOwn' BY DEF PoolInv, SessionsAreOwn, Working, Elsewhere
<1>11. CallsAreOwned'
  <2>1. \A n, l : ~WaitsFor(n, l) BY <1>4 DEF WaitsFor
  <2>2. Working' = Working /\ UNCHANGED <<used, sessions>> /\ \A n : KeptThen(n) <=> Kept(n)
    BY DEF Working, Kept, KeptThen, Elsewhere
  <2>3. /\ \A i, n, l : DropsAfter(i, n, l) => DropsThen(i, n, l)
        /\ \A i, n, l : DiscardAfter(i, n, l) => DiscardThen(i, n, l)
    BY <1>5, AppendFollows
  <2>4. do = "call" => WaitsThen(h.n, h.label) BY <1>2, <1>3 DEF WaitsThen
  <2>5. \A i \in DOMAIN ready' : ready'[i].do = "call" /\ ~KeptThen(ready'[i].n) =>
            \/ WaitsThen(ready'[i].n, ready'[i].label)
            \/ DropsThen(i, ready'[i].n, ready'[i].label)
    BY <1>2, <1>5, <2>1, <2>2, <2>3, <2>4 DEF PoolInv, CallsAreOwned, Queued
  <2>6. \A p \in Working' : ~KeptThen(p.n) => DropsThen(0, p.n, p.label)
    BY <2>1, <2>2, <2>3 DEF PoolInv, CallsAreOwned
  <2>7. \A u \in used', l \in Labels : sessions'[l] = u[1] /\ ~KeptThen(u[2]) => DiscardThen(0, u[2], l)
    BY <2>1, <2>2, <2>3 DEF PoolInv, CallsAreOwned
  <2>8. \A i \in DOMAIN ready' : ready'[i].do = "cancel" => result'[ready'[i].n] # "pending"
    BY <1>2, <1>5 DEF PoolInv, CallsAreOwned, Queued
  <2> QED BY <2>5, <2>6, <2>7, <2>8, CallsAreOwnedThen
<1>12. StopsAreLast'
  <2>1. do # "close" => /\ ~dropped /\ ~Shuts
                        /\ \A i \in DOMAIN ready : ~Queued(i, "stop")
    BY <1>4 DEF PoolInv, StopsAreLast
  <2>2. Shuts' => Shuts BY <1>2, <1>5 DEF Shuts, Queued, Elsewhere
  <2>3. \A i \in DOMAIN ready' : OfACall(i)' => IF i \in DOMAIN ready THEN OfACall(i) ELSE do # "close"
    BY <1>2, <1>5 DEF OfACall, Queued
  <2>4. \A i \in DOMAIN ready' : \A what \in {"shut", "stop"} : Queued(i, what)' => Queued(i, what)
    BY <1>2, <1>5 DEF Queued
  <2>5. \A i, j \in DOMAIN ready' : i < j /\ (Queued(i, "shut")' \/ Queued(i, "stop")') => ~OfACall(j)'
    BY <1>5, <2>1, <2>3, <2>4 DEF PoolInv, StopsAreLast, Shuts, Queued
  <2>6. (\E p \in parked' : p.kind = "shutting") => \A j \in DOMAIN ready' : ~OfACall(j)'
    BY <2>1, <2>3 DEF PoolInv, StopsAreLast, Shuts, Elsewhere
  <2>7. dropped' => \A u \in Threads : pc'[u] \in {"idle", "to_close", "closes", "joins"}
    BY <1>3, <2>1 DEF PoolInv, StopsAreLast, Elsewhere
  <2>8. (\E i \in DOMAIN ready' : Queued(i, "stop")') => dropped'
    BY <1>4, <2>4 DEF PoolInv, StopsAreLast, Queued, Elsewhere
  <2> QED BY <2>2, <2>5, <2>6, <2>7, <2>8 DEF PoolInv, StopsAreLast, Elsewhere
<1>13. SessionsAreNotShared' BY DEF PoolInv, SessionsAreNotShared, Abandons, Elsewhere
<1> QED BY <1>7, <1>9, <1>10, <1>11, <1>12, <1>13 DEF PoolInv

\* A call is given up: a handle that cancels it and one that drops its session.
LEMMA AbandonKeeps ==
    ASSUME TypeOK, LockInv, PoolInv, NEW t \in Threads, pc[t] = "waits", Abandon(t),
           pc'[t] \in {"abandons", "idle"}, \A u \in Threads : u # t => pc'[u] = pc[u],
           UNCHANGED <<asked, calls, loop>>, UNCHANGED Elsewhere,
           NEW outcome \in {"abandoned", "interrupted"},
           result' = [result EXCEPT ![asked[t].n] = IF @ = "pending" THEN outcome ELSE @]
    PROVE  PoolInv'
<1> DEFINE n == asked[t].n
           l == asked[t].label
           g == Request(t, "cancel")
           h == Request(t, "discard")
<1>1. n \in Ids /\ n = calls /\ n \in Nat BY RequestType DEF Ids
<1>2. g \in Handles /\ h \in Handles BY RequestType
<1>3. /\ g.do = "cancel" /\ g.n = n
      /\ h.do = "discard" /\ h.n = n /\ h = Handle("discard", n, l)
  BY DEF Request, Handle
<1>4. Append2(g, h) BY DEF Abandon
<1> HIDE DEF g, h
<1>5. /\ DOMAIN ready' = DOMAIN ready \cup {Len(ready) + 1, Len(ready) + 2} /\ Len(ready) \in Nat
      /\ ready'[Len(ready) + 1] = g /\ ready'[Len(ready) + 2] = h
      /\ \A i \in DOMAIN ready : ready'[i] = ready[i] /\ i <= Len(ready) /\ i \in Nat
  BY <1>2, <1>4, AppendTwo
<1>6. /\ \A m \in Ids : m # n => result'[m] = result[m]
      /\ \A m \in Ids : result[m] # "pending" => result'[m] = result[m]
      /\ result[n] = "pending" => result'[n] = outcome
      /\ \A m \in Ids : result'[n] # "pending"
  BY <1>1 DEF TypeOK
<1>7. \A m \in Ids : KeptThen(m) <=> Kept(m)
  BY <1>1, <1>6 DEF Kept, KeptThen
<1>8. \A u \in Threads : u # t => pc[u] \notin {"waits", "abandons", "closes", "joins"}
  BY OneAtATime
<1>9. ~dropped /\ ~Shuts /\ \A i \in DOMAIN ready : ~Queued(i, "stop")
  <2>1. ~dropped BY DEF PoolInv, StopsAreLast
  <2>2. pc[t] # "joins" OBVIOUS
  <2> QED BY <1>8, <2>1, <2>2 DEF PoolInv, StopsAreLast
<1>10. \A i \in DOMAIN ready : ready[i].n <= calls /\ ready[i].n \in Ids /\ ready[i].n \in Nat
  BY ReadyType DEF PoolInv, QueueInOrder
<1>11. QueueInOrder'
  BY <1>1, <1>3, <1>5, <1>10 DEF PoolInv, QueueInOrder, Queued
<1>12. CallsAreNew'
  <2>1. \A m : Before(m) => BeforeThen(m) BY DEF Before, BeforeThen, Elsewhere, Working
  <2>2. \A i \in DOMAIN ready' : ready'[i].do = "call" => BeforeThen(ready'[i].n)
    BY <1>3, <1>5, <2>1 DEF PoolInv, CallsAreNew, Queued
  <2>3. \A m \in Ids : m > calls' => result'[m] = "pending"
    BY <1>1, <1>6 DEF PoolInv, CallsAreNew, Ids
  <2>4. BeforeThen(calls' + 1) /\ \A u \in used' : u[1] <= u[2]
    BY <2>1 DEF PoolInv, CallsAreNew, Elsewhere
  <2>5. \A u \in Threads : pc'[u] \notin {"closes", "joins"} BY <1>8
  <2> QED BY <2>2, <2>3, <2>4, <2>5, CallsAreNewThen
<1>13. SessionsAreOwn' BY DEF PoolInv, SessionsAreOwn, Working, Elsewhere
<1>14. CallsAreOwned'
  <2>1. \A m, k : WaitsFor(m, k) => m = n /\ k = l BY <1>8 DEF WaitsFor
  <2>2. Working' = Working /\ UNCHANGED <<used, sessions>> BY DEF Working, Elsewhere
  <2>3. /\ \A i, m, k : DropsAfter(i, m, k) => DropsThen(i, m, k)
        /\ \A i, m, k : DiscardAfter(i, m, k) => DiscardThen(i, m, k)
    BY <1>5, AppendFollows
  <2>4. \A i \in DOMAIN ready \cup {0} : DropsThen(i, n, l) /\ DiscardThen(i, n, l)
    <3>1. DiscardThen(Len(ready) + 1, n, l) BY <1>3, <1>5 DEF DiscardThen
    <3>2. \A i \in DOMAIN ready \cup {0} : i < Len(ready) + 1 /\ i < Len(ready) + 2 BY <1>5
    <3>3. \A i \in DOMAIN ready \cup {0} : DiscardThen(i, n, l)
      BY <1>3, <1>5, <3>2 DEF DiscardThen
    <3> QED BY <1>3, <1>5, <3>1, <3>2, <3>3 DEF DropsThen
  <2>5. \A i \in DOMAIN ready' : ready'[i].do = "call" /\ ~KeptThen(ready'[i].n) =>
            DropsThen(i, ready'[i].n, ready'[i].label)
    BY <1>3, <1>5, <1>7, <1>10, <2>1, <2>3, <2>4 DEF PoolInv, CallsAreOwned, Queued
  <2>6. \A p \in Working' : ~KeptThen(p.n) => DropsThen(0, p.n, p.label)
    BY <1>7, <2>1, <2>2, <2>3, <2>4, TaskType DEF PoolInv, CallsAreOwned, Working
  <2>7. \A u \in used', k \in Labels : sessions'[k] = u[1] /\ ~KeptThen(u[2]) => DiscardThen(0, u[2], k)
    <3>1. \A u \in used : u[2] \in Ids BY DEF TypeOK
    <3> QED BY <1>7, <2>1, <2>2, <2>3, <2>4, <3>1 DEF PoolInv, CallsAreOwned
  <2>8. \A i \in DOMAIN ready' : ready'[i].do = "cancel" => result'[ready'[i].n] # "pending"
    BY <1>1, <1>3, <1>5, <1>6, <1>10 DEF PoolInv, CallsAreOwned, Queued
  <2> QED BY <2>5, <2>6, <2>7, <2>8, CallsAreOwnedThen
<1>15. StopsAreLast'
  <2>1. \A i \in DOMAIN ready' : ~Queued(i, "shut")' /\ ~Queued(i, "stop")'
    BY <1>3, <1>5, <1>9 DEF Queued, Shuts
  <2>2. ~Shuts' /\ ~dropped' /\ ~\E p \in parked' : p.kind = "shutting"
    BY <1>9, <2>1 DEF Shuts, Elsewhere
  <2>3. \A u \in Threads : pc'[u] # "closes" BY <1>8
  <2>4. loop' # "running" => parked' = {} BY DEF PoolInv, StopsAreLast, Elsewhere
  <2> QED BY <2>1, <2>2, <2>3, <2>4 DEF StopsAreLast
<1>16. SessionsAreNotShared'
  <2>1. \A m \in Abandons' : m = n \/ m \in Abandons BY <1>6 DEF Abandons, Ids
  <2>2. \A u \in used : u[2] \in Nat /\ u[2] < calls + 1 BY DEF PoolInv, CallsAreNew, Before, TypeOK, Ids
  <2> QED BY <1>1, <2>1, <2>2 DEF PoolInv, SessionsAreNotShared, Elsewhere
<1> QED BY <1>11, <1>12, <1>13, <1>14, <1>15, <1>16 DEF PoolInv

\* The closer asks the loop to stop.
LEMMA StopsKeeps ==
    ASSUME TypeOK, LockInv, PoolInv, NEW t \in Threads, Stops(t)
    PROVE  PoolInv'
<1> DEFINE n == asked[t].n
           h == Request(t, "stop")
<1>1. n \in Ids /\ n = calls /\ n \in Nat /\ h \in Handles /\ ready' = Append(ready, h)
  BY RequestType DEF Ids, Stops
<1>2. h.do = "stop" /\ h.n = n BY DEF Request, Handle
<1> HIDE DEF h
<1>3. /\ DOMAIN ready' = DOMAIN ready \cup {Len(ready) + 1} /\ Len(ready) \in Nat
      /\ ready'[Len(ready) + 1] = h
      /\ \A i \in DOMAIN ready : ready'[i] = ready[i] /\ i <= Len(ready) /\ i \in Nat
  BY <1>1, AppendReady
<1>4. /\ pc[t] = "closes" /\ pc'[t] = "joins" /\ \A u \in Threads : u # t => pc'[u] = pc[u]
      /\ UNCHANGED <<asked, calls, loop>> /\ UNCHANGED Elsewhere
      /\ \A m \in Ids : m # n => result'[m] = result[m]
      /\ result' = result \/ result'[n] = "interrupted"
  BY <1>1 DEF Stops, Goto, TypeOK, OnThreads, Elsewhere
<1>5. \A u \in Threads : u # t => pc[u] \notin {"waits", "abandons", "closes", "joins"}
  BY <1>4, OneAtATime
<1>6. \A i \in DOMAIN ready : ready[i].n <= calls /\ ready[i].n \in Ids /\ ready[i].n \in Nat
  BY ReadyType DEF PoolInv, QueueInOrder
<1>7. /\ Before(calls)
      /\ \A i \in DOMAIN ready : Queued(i, "call") => ready[i].n < calls
      /\ \A p \in Working : p.n < calls /\ p.n \in Ids /\ p.n \in Nat
      /\ \A u \in used : u[2] < calls /\ u[2] \in Ids /\ u[2] \in Nat
  <2>1. Before(calls) /\ \A i \in DOMAIN ready : Queued(i, "call") => ready[i].n < calls
    BY <1>4 DEF PoolInv, CallsAreNew
  <2>2. \A p \in Working : p.n \in Ids /\ p.n \in Nat BY TaskType DEF Working, Ids
  <2>3. used \subseteq Ids \X Ids BY DEF TypeOK
  <2>4. \A u \in used : u[2] \in Ids /\ u[2] \in Nat BY <2>3 DEF Ids
  <2> QED BY <2>1, <2>2, <2>4 DEF Before
<1>8. QueueInOrder' BY <1>1, <1>2, <1>3, <1>4, <1>6 DEF PoolInv, QueueInOrder, Queued
<1>9. CallsAreNew'
  <2>1. \A m : Before(m) => BeforeThen(m) BY <1>4 DEF Before, BeforeThen, Elsewhere, Working
  <2>2. \A i \in DOMAIN ready' : ready'[i].do = "call" => BeforeThen(ready'[i].n)
    BY <1>2, <1>3, <2>1 DEF PoolInv, CallsAreNew, Queued
  <2>3. \A m \in Ids : m > calls' => result'[m] = "pending"
    BY <1>1, <1>4 DEF PoolInv, CallsAreNew, Ids
  <2>4. BeforeThen(calls' + 1) /\ BeforeThen(calls') /\ \A u \in used' : u[1] <= u[2]
    BY <1>4, <1>7, <2>1 DEF PoolInv, CallsAreNew, Elsewhere
  <2>5. \A i \in DOMAIN ready' : ready'[i].do = "call" => ready'[i].n < calls'
    BY <1>2, <1>3, <1>4, <1>7 DEF Queued
  <2> QED BY <2>2, <2>3, <2>4, <2>5, CallsAreNewThen
<1>10. SessionsAreOwn' BY <1>4 DEF PoolInv, SessionsAreOwn, Working, Elsewhere
<1>11. CallsAreOwned'
  <2>1. \A m, k : ~WaitsFor(m, k) BY <1>4, <1>5 DEF WaitsFor
  <2>2. Working' = Working /\ UNCHANGED <<used, sessions>> BY <1>4 DEF Working, Elsewhere
  <2>3. /\ \A i, m, k : DropsAfter(i, m, k) => DropsThen(i, m, k)
        /\ \A i, m, k : DiscardAfter(i, m, k) => DiscardThen(i, m, k)
    BY <1>3, AppendFollows
  <2>4. \A m \in Ids : m < calls => (KeptThen(m) <=> Kept(m))
    BY <1>1, <1>4 DEF Kept, KeptThen, Ids
  <2>5. \A i \in DOMAIN ready' : ready'[i].do = "call" /\ ~KeptThen(ready'[i].n) =>
            DropsThen(i, ready'[i].n, ready'[i].label)
    BY <1>2, <1>3, <1>6, <1>7, <2>1, <2>3, <2>4 DEF PoolInv, CallsAreOwned, Queued
  <2>6. \A p \in Working' : ~KeptThen(p.n) => DropsThen(0, p.n, p.label)
    BY <1>7, <2>1, <2>2, <2>3, <2>4 DEF PoolInv, CallsAreOwned
  <2>7. \A u \in used', k \in Labels : sessions'[k] = u[1] /\ ~KeptThen(u[2]) => DiscardThen(0, u[2], k)
    BY <1>7, <2>1, <2>2, <2>3, <2>4 DEF PoolInv, CallsAreOwned
  <2>8. \A i \in DOMAIN ready' : ready'[i].do = "cancel" => result'[ready'[i].n] # "pending"
    <3>1. \A m \in Ids : result[m] # "pending" => result'[m] # "pending"
      BY <1>4
    <3> QED BY <1>2, <1>3, <1>6, <3>1 DEF PoolInv, CallsAreOwned, Queued
  <2> QED BY <2>5, <2>6, <2>7, <2>8, CallsAreOwnedThen
<1>12. StopsAreLast'
  <2>1. \A i \in DOMAIN ready' : OfACall(i)' => i \in DOMAIN ready /\ OfACall(i)
    BY <1>2, <1>3 DEF OfACall, Queued
  <2>2. \A i \in DOMAIN ready : \A what \in {"shut", "stop"} : Queued(i, what)' => Queued(i, what)
    BY <1>3 DEF Queued
  <2>3. Shuts' => Shuts BY <1>2, <1>3, <1>4 DEF Shuts, Queued, Elsewhere
  <2>4. \A i, j \in DOMAIN ready' : i < j /\ (Queued(i, "shut")' \/ Queued(i, "stop")') => ~OfACall(j)'
    <3>1. ASSUME NEW i \in DOMAIN ready', NEW j \in DOMAIN ready', i < j, OfACall(j)',
                 Queued(i, "shut")' \/ Queued(i, "stop")'
          PROVE  FALSE
      <4>1. j \in DOMAIN ready /\ OfACall(j) BY <2>1, <3>1
      <4>2. i \in DOMAIN ready BY <1>3, <3>1, <4>1
      <4> QED BY <2>2, <3>1, <4>1, <4>2 DEF PoolInv, StopsAreLast
    <3> QED BY <3>1
  <2>5. (\E p \in parked' : p.kind = "shutting") => \A j \in DOMAIN ready' : ~OfACall(j)'
    BY <1>4, <2>1 DEF PoolInv, StopsAreLast, Elsewhere
  <2>6. dropped' => \A u \in Threads : pc'[u] \in {"idle", "to_close", "closes", "joins"}
    BY <1>4 DEF PoolInv, StopsAreLast, Elsewhere
  <2>7. loop' = "none" => dropped' BY <1>4 DEF PoolInv, StopsAreLast, Elsewhere
  <2> QED BY <1>4, <2>3, <2>4, <2>5, <2>6, <2>7 DEF PoolInv, StopsAreLast, Elsewhere
<1>13. SessionsAreNotShared'
  <2>1. \A m \in Abandons' : m = n \/ m \in Abandons BY <1>4 DEF Abandons, Ids
  <2> QED BY <1>1, <1>4, <1>7, <2>1 DEF PoolInv, SessionsAreNotShared, Elsewhere
<1> QED BY <1>8, <1>9, <1>10, <1>11, <1>12, <1>13 DEF PoolInv

\* The only client of a private pool is collected: nothing of a call follows.
LEMMA CollectedKeeps ==
    ASSUME TypeOK, LockInv, PoolInv, Collected
    PROVE  PoolInv'
<1> DEFINE h == Handle("shut", calls + 1, CHOOSE l \in Labels : TRUE)
<1>1. h \in Handles /\ ready' = Append(ready, h)
  <2>1. calls + 1 \in Ids BY CallsAssumption DEF Collected, TypeOK, Ids
  <2>2. (CHOOSE l \in Labels : TRUE) \in Labels BY LabelsAssumption
  <2> QED BY <2>1, <2>2 DEF Handle, Handles, Collected
<1>2. h.do = "shut" /\ h.n = calls + 1 BY DEF Handle
<1> HIDE DEF h
<1>3. /\ DOMAIN ready' = DOMAIN ready \cup {Len(ready) + 1} /\ Len(ready) \in Nat
      /\ ready'[Len(ready) + 1] = h
      /\ \A i \in DOMAIN ready : ready'[i] = ready[i] /\ i <= Len(ready) /\ i \in Nat
  BY <1>1, AppendReady
<1>4. /\ UNCHANGED <<pc, asked, loop, parked, sessions, used, result>>
      /\ dropped' /\ calls' = calls + 1 /\ calls \in Nat /\ loop = "running"
      /\ \A t \in Threads : pc[t] = "idle"
  BY CallsAssumption DEF Collected, TypeOK
<1>5. \A i \in DOMAIN ready : ready[i].n <= calls /\ ready[i].n \in Nat
  BY ReadyType DEF PoolInv, QueueInOrder
<1>6. QueueInOrder' BY <1>2, <1>3, <1>4, <1>5 DEF PoolInv, QueueInOrder, Queued
<1>7. CallsAreNew'
  <2>1. \A m : Before(m) => BeforeThen(m) BY <1>4 DEF Before, BeforeThen, Working
  <2>2. \A i \in DOMAIN ready' : ready'[i].do = "call" => BeforeThen(ready'[i].n)
    BY <1>2, <1>3, <2>1 DEF PoolInv, CallsAreNew, Queued
  <2>3. BeforeThen(calls + 2) BY <1>4, <2>1, BeforeLater DEF PoolInv, CallsAreNew
  <2>4. BeforeThen(calls' + 1) BY <1>4, <2>3
  <2>5. \A m \in Ids : m > calls' => result'[m] = "pending"
    BY <1>4 DEF PoolInv, CallsAreNew, Ids
  <2>6. \A u \in used' : u[1] <= u[2] BY <1>4 DEF PoolInv, CallsAreNew
  <2>7. \A t \in Threads : pc'[t] \notin {"closes", "joins"} BY <1>4
  <2> QED BY <2>2, <2>4, <2>5, <2>6, <2>7, CallsAreNewThen
<1>8. SessionsAreOwn' BY <1>4 DEF PoolInv, SessionsAreOwn, Working
<1>9. CallsAreOwned'
  <2>1. \A m, k : ~WaitsFor(m, k) BY <1>4 DEF WaitsFor
  <2>2. Working' = Working /\ \A m : KeptThen(m) <=> Kept(m) BY <1>4 DEF Working, Kept, KeptThen
  <2>3. /\ \A i, m, k : DropsAfter(i, m, k) => DropsThen(i, m, k)
        /\ \A i, m, k : DiscardAfter(i, m, k) => DiscardThen(i, m, k)
    BY <1>3, AppendFollows
  <2>4. \A i \in DOMAIN ready' : ready'[i].do = "call" /\ ~KeptThen(ready'[i].n) =>
            DropsThen(i, ready'[i].n, ready'[i].label)
    BY <1>2, <1>3, <2>1, <2>2, <2>3 DEF PoolInv, CallsAreOwned, Queued
  <2>5. \A p \in Working' : ~KeptThen(p.n) => DropsThen(0, p.n, p.label)
    BY <2>1, <2>2, <2>3 DEF PoolInv, CallsAreOwned
  <2>6. \A u \in used', k \in Labels : sessions'[k] = u[1] /\ ~KeptThen(u[2]) => DiscardThen(0, u[2], k)
    BY <1>4, <2>1, <2>2, <2>3 DEF PoolInv, CallsAreOwned
  <2>7. \A i \in DOMAIN ready' : ready'[i].do = "cancel" => result'[ready'[i].n] # "pending"
    BY <1>2, <1>3, <1>4 DEF PoolInv, CallsAreOwned, Queued
  <2> QED BY <2>4, <2>5, <2>6, <2>7, CallsAreOwnedThen
<1>10. StopsAreLast'
  <2>1. \A i \in DOMAIN ready' : OfACall(i)' => i \in DOMAIN ready /\ OfACall(i)
    BY <1>2, <1>3 DEF OfACall, Queued
  <2>2. \A i \in DOMAIN ready : \A what \in {"shut", "stop"} : Queued(i, what)' => Queued(i, what)
    BY <1>3 DEF Queued
  <2>3. \A i, j \in DOMAIN ready' : i < j /\ (Queued(i, "shut")' \/ Queued(i, "stop")') => ~OfACall(j)'
    <3>1. ASSUME NEW i \in DOMAIN ready', NEW j \in DOMAIN ready', i < j, OfACall(j)',
                 Queued(i, "shut")' \/ Queued(i, "stop")'
          PROVE  FALSE
      <4>1. j \in DOMAIN ready /\ OfACall(j) BY <2>1, <3>1
      <4>2. i \in DOMAIN ready BY <1>3, <3>1, <4>1
      <4> QED BY <2>2, <3>1, <4>1, <4>2 DEF PoolInv, StopsAreLast
    <3> QED BY <3>1
  <2>4. (\E p \in parked' : p.kind = "shutting") => \A j \in DOMAIN ready' : ~OfACall(j)'
    BY <1>4, <2>1 DEF PoolInv, StopsAreLast
  <2> QED BY <1>4, <2>3, <2>4 DEF StopsAreLast
<1>11. SessionsAreNotShared' BY <1>4 DEF PoolInv, SessionsAreNotShared, Abandons
<1> QED BY <1>6, <1>7, <1>8, <1>9, <1>10, <1>11 DEF PoolInv

LEMMA ThreadsKeep ==
    ASSUME TypeOK, Counted, LockInv, PoolInv, NEW t \in Threads,
           ThreadStep(t) \/ Interrupt(t)
           \/ \E l \in Labels, where \in {"asks", "to_close"} : Ask(t, l, where)
    PROVE  PoolInv'
<1> USE DEF OnThreads
<1>1. dropped => pc[t] \in {"idle", "to_close", "closes", "joins"} BY DEF PoolInv, StopsAreLast
<1>2. ASSUME NEW l \in Labels, NEW where \in {"asks", "to_close"}, Ask(t, l, where) PROVE PoolInv'
  <2>1. /\ UNCHANGED <<ready, result, calls, loop>> /\ UNCHANGED Elsewhere
        /\ \A u \in Threads : u # t => pc'[u] = pc[u] /\ asked'[u] = asked[u]
        /\ pc'[t] = where /\ pc[t] = "idle" /\ dropped => where = "to_close"
    BY <1>2 DEF Ask, Goto, Elsewhere, TypeOK
  <2>2. pc'[t] \in {"idle", "asks", "to_close"} /\ (dropped => pc'[t] # "asks")
    BY <1>2, <2>1 DEF Ask, Goto, TypeOK
  <2>3. pc[t] = "idle" BY <1>2 DEF Ask
  <2> QED BY <1>2, <2>1, <2>2, <2>3, QuietKeeps DEF Ask, Elsewhere
<1>3. ASSUME Release(t), UNCHANGED <<asked, calls, loop, ready, result>>, UNCHANGED Elsewhere,
             pc[t] = "joins" => loop = "none", pc[t] = "waits" => Kept(asked[t].n)
      PROVE  PoolInv'
  <2>1. /\ \A u \in Threads : u # t => pc'[u] = pc[u] /\ asked'[u] = asked[u]
        /\ pc'[t] = "idle"
    BY <1>3 DEF Release, Goto, TypeOK
  <2> QED BY <1>3, <2>1, QuietKeeps
<1>4. CASE Returns(t) BY <1>3, <1>4 DEF Returns, Elsewhere, Kept
<1>5. CASE Abandoned(t) BY <1>3, <1>5 DEF Abandoned, Elsewhere
<1>6. CASE Joins(t) BY <1>3, <1>6 DEF Joins, Elsewhere
<1>7. CASE Call(t)
  <2>1. loop' # "none" BY <1>7 DEF Call, TypeOK
  <2> QED BY <1>1, <1>7, <2>1, TakesKeeps DEF Call, Elsewhere
<1>8. CASE StartFails(t) BY <1>1, <1>8, TakesKeeps DEF StartFails, Elsewhere
<1>9. CASE Close(t)
  <2>1. CASE loop = "none"
    <3>1. /\ \A u \in Threads : u # t => pc'[u] = pc[u] /\ asked'[u] = asked[u]
          /\ pc'[t] = "idle" /\ pc[t] = "to_close"
          /\ UNCHANGED <<ready, result, calls, loop>> /\ UNCHANGED Elsewhere
      BY <1>9, <2>1 DEF Close, Goto, TypeOK, Elsewhere
    <3> QED BY <3>1, QuietKeeps
  <2>2. CASE loop # "none" BY <1>9, <2>2, TakesKeeps DEF Close, Elsewhere
  <2> QED BY <2>1, <2>2
<1>10. CASE GivesUp(t)
  <2>1. /\ pc'[t] = "abandons" /\ \A u \in Threads : u # t => pc'[u] = pc[u]
        /\ pc[t] = "waits" /\ Abandon(t)
        /\ UNCHANGED <<asked, calls, loop>> /\ UNCHANGED Elsewhere
    BY <1>10 DEF GivesUp, Goto, TypeOK, Elsewhere
  <2>2. result' = [result EXCEPT ![asked[t].n] = IF @ = "pending" THEN "abandoned" ELSE @]
    BY <1>10 DEF GivesUp
  <2> QED BY <2>1, <2>2, AbandonKeeps
<1>11. CASE Interrupt(t)
  <2>1. /\ pc'[t] = "idle" /\ \A u \in Threads : u # t => pc'[u] = pc[u]
        /\ Release(t) /\ UNCHANGED <<asked, calls, loop>> /\ UNCHANGED Elsewhere
    BY <1>11 DEF Interrupt, Release, Goto, TypeOK, Elsewhere
  <2>2. CASE /\ pc[t] = "waits" /\ Abandon(t)
             /\ result' = [result EXCEPT ![asked[t].n] = IF @ = "pending" THEN "interrupted" ELSE @]
    BY <2>1, <2>2, AbandonKeeps
  <2>3. CASE pc[t] = "abandons" /\ UNCHANGED <<result, ready>>
    BY <1>3, <2>1, <2>3
  <2> QED BY <1>11, <2>2, <2>3 DEF Interrupt
<1>12. CASE Stops(t) BY <1>12, StopsKeeps
<1> QED BY <1>2, <1>4, <1>5, <1>6, <1>7, <1>8, <1>9, <1>10, <1>11, <1>12 DEF ThreadStep

-----------------------------------------------------------------------------
(* Steps of the loop.                                                      *)

\* The first handle leaves the queue, or all do.
Pops == ready' = ready \/ (ready # <<>> /\ ready' = Tail(ready)) \/ ready' = <<>>

\* Each handle left was one place further.
LEMMA PopsFrom ==
    ASSUME TypeOK, Pops
    PROVE  \A i \in DOMAIN ready' :
             /\ i \in Nat /\ i >= 1
             /\ \/ ready' = ready /\ i \in DOMAIN ready
                \/ ready # <<>> /\ i + 1 \in DOMAIN ready /\ ready'[i] = ready[i + 1]
<1>1. CASE ready' = ready BY <1>1, ReadyType
<1>2. CASE ready # <<>> /\ ready' = Tail(ready) BY <1>2, TailReady
<1>3. CASE ready' = <<>> BY <1>3
<1> QED BY <1>1, <1>2, <1>3 DEF Pops

LEMMA QueuePops ==
    ASSUME TypeOK, PoolInv, Pops, calls' = calls
    PROVE  QueueInOrder'
<1>1. \A i \in DOMAIN ready' : ready'[i].n <= calls BY PopsFrom DEF PoolInv, QueueInOrder
<1>2. \A i, j \in DOMAIN ready' : i < j => ready'[i].n <= ready'[j].n
  BY PopsFrom DEF PoolInv, QueueInOrder
<1>3. \A i, j \in DOMAIN ready' : i < j /\ ready'[j].do = "call" => ready'[i].n < ready'[j].n
  BY PopsFrom DEF PoolInv, QueueInOrder, Queued
<1> QED BY <1>1, <1>2, <1>3 DEF QueueInOrder, Queued

\* The loop ends when told to, with no thread that expects otherwise.
LEMMA StopsPop ==
    ASSUME TypeOK, PoolInv, Pops, UNCHANGED <<pc, dropped>>,
           \A p \in parked' : p.kind = "shutting" =>
               \/ \E q \in parked : q.kind = "shutting"
               \/ ready # <<>> /\ ready[1].do = "shut" /\ ready' = Tail(ready),
           \/ loop' = loop
           \/ loop' # "none"
           \/ ready' = <<>> /\ (dropped \/ \A t \in Threads : pc[t] # "closes"),
           parked' # {} => loop' = "running"
    PROVE  StopsAreLast'
<1>1. \A i \in DOMAIN ready' : i \in Nat /\ i >= 1 BY PopsFrom
<1>2. \A i \in DOMAIN ready' : \E k \in DOMAIN ready :
          /\ k \in Nat /\ ready[k] = ready'[i]
          /\ ready' = ready => k = i
          /\ ready' # ready => k = i + 1
  BY PopsFrom
<1>3. \A i \in DOMAIN ready', what \in {"call", "cancel", "discard", "shut", "stop"} :
          Queued(i, what)' <=> ready'[i].do = what
  BY DEF Queued
<1>4. \A i \in DOMAIN ready' : OfACall(i)' <=> ready'[i].do \in {"call", "cancel", "discard"}
  BY DEF OfACall, Queued
<1>5. \A k \in DOMAIN ready : OfACall(k) <=> ready[k].do \in {"call", "cancel", "discard"}
  BY DEF OfACall, Queued
<1>6. \A i, j \in DOMAIN ready' : i < j /\ ready'[i].do \in {"shut", "stop"} =>
          ready'[j].do \notin {"call", "cancel", "discard"}
  <2>1. \A i, j \in DOMAIN ready : i < j /\ ready[i].do \in {"shut", "stop"} =>
            ready[j].do \notin {"call", "cancel", "discard"}
    BY <1>5 DEF PoolInv, StopsAreLast, Queued
  <2> QED BY <1>1, <1>2, <2>1
<1>7. (\E p \in parked' : p.kind = "shutting") =>
          \A j \in DOMAIN ready' : ready'[j].do \notin {"call", "cancel", "discard"}
  <2>1. CASE \E q \in parked : q.kind = "shutting"
    BY <1>2, <1>5, <2>1 DEF PoolInv, StopsAreLast
  <2>2. CASE ready # <<>> /\ ready[1].do = "shut" /\ ready' = Tail(ready)
    <3>1. 1 \in DOMAIN ready /\ Queued(1, "shut") BY <2>2, TailReady DEF Queued
    <3>2. \A j \in DOMAIN ready' : j + 1 \in DOMAIN ready /\ 1 < j + 1 /\ ready'[j] = ready[j + 1]
      BY <2>2, TailReady
    <3> QED BY <1>5, <3>1, <3>2 DEF PoolInv, StopsAreLast
  <2> QED BY <2>1, <2>2
<1>8. Shuts' => dropped
  <2>1. CASE \E p \in parked' : p.kind = "shutting"
    <3>1. CASE \E q \in parked : q.kind = "shutting" BY <3>1 DEF PoolInv, StopsAreLast, Shuts
    <3>2. CASE ready # <<>> /\ ready[1].do = "shut" /\ ready' = Tail(ready)
      BY <3>2, TailReady DEF PoolInv, StopsAreLast, Shuts, Queued
    <3> QED BY <2>1, <3>1, <3>2
  <2>2. CASE \E i \in DOMAIN ready' : ready'[i].do = "shut"
    BY <1>2, <2>2 DEF PoolInv, StopsAreLast, Shuts, Queued
  <2> QED BY <2>1, <2>2 DEF Shuts, Queued
<1>9. (\E i \in DOMAIN ready' : ready'[i].do = "stop") => \E k \in DOMAIN ready : Queued(k, "stop")
  BY <1>2 DEF Queued
<1>10. loop' = "none" => \/ dropped
                         \/ /\ \A i \in DOMAIN ready' : ready'[i].do # "stop"
                            /\ \A t \in Threads : pc[t] # "closes"
  <2>1. CASE loop' = loop BY <1>9, <2>1 DEF PoolInv, StopsAreLast
  <2>2. CASE ready' = <<>> /\ (dropped \/ \A t \in Threads : pc[t] # "closes") BY <2>2
  <2> QED BY <2>1, <2>2
<1>11. /\ dropped => \A t \in Threads : pc[t] \in {"idle", "to_close", "closes", "joins"}
       /\ (\E k \in DOMAIN ready : Queued(k, "stop")) => dropped \/ \E t \in Threads : pc[t] = "joins"
  BY DEF PoolInv, StopsAreLast
<1> QED BY <1>3, <1>4, <1>6, <1>7, <1>8, <1>9, <1>10, <1>11 DEF StopsAreLast

\* What follows a handle follows it one place earlier, unless it left.
LEMMA PopsFollow ==
    ASSUME TypeOK, ready # <<>>, ready' = Tail(ready)
    PROVE  /\ \A i \in DOMAIN ready' : \A n, l :
                  /\ DropsAfter(i + 1, n, l) => DropsThen(i, n, l)
                  /\ DiscardAfter(i + 1, n, l) => DiscardThen(i, n, l)
           /\ \A n, l : DropsAfter(1, n, l) => DropsThen(0, n, l)
           /\ \A n, l : DropsAfter(0, n, l) =>
                  DropsThen(0, n, l) \/ (ready[1].do = "cancel" /\ ready[1].n = n)
           /\ \A n, l : DiscardAfter(0, n, l) => DiscardThen(0, n, l) \/ ready[1] = Handle("discard", n, l)
<1>1. /\ \A i \in DOMAIN ready' : i \in Nat /\ i >= 1
      /\ \A i \in DOMAIN ready : i \in Nat /\ i >= 1
                                 /\ (i # 1 => i - 1 \in DOMAIN ready' /\ ready'[i - 1] = ready[i])
  BY TailReady
<1>2. ASSUME NEW i \in Nat, NEW n, NEW l, DiscardAfter(i + 1, n, l) PROVE DiscardThen(i, n, l)
  <2>1. PICK k \in DOMAIN ready : i + 1 < k /\ ready[k] = Handle("discard", n, l)
    BY <1>2 DEF DiscardAfter
  <2>2. k - 1 \in DOMAIN ready' /\ ready'[k - 1] = ready[k] /\ i < k - 1 BY <1>1, <2>1
  <2> QED BY <2>1, <2>2 DEF DiscardThen
<1>3. \A n, l : DiscardAfter(0, n, l) => DiscardThen(0, n, l) \/ ready[1] = Handle("discard", n, l)
  BY <1>1 DEF DiscardAfter, DiscardThen
<1>4. ASSUME NEW i \in Nat, NEW n, NEW l, DropsAfter(i + 1, n, l) PROVE DropsThen(i, n, l)
  <2>1. PICK j \in DOMAIN ready : /\ i + 1 < j /\ ready[j].do = "cancel" /\ ready[j].n = n
                                  /\ DiscardAfter(j, n, l)
    BY <1>4 DEF DropsAfter, Queued
  <2>2. j - 1 \in DOMAIN ready' /\ ready'[j - 1] = ready[j] /\ i < j - 1 /\ j - 1 \in Nat
    BY <1>1, <2>1
  <2>3. (j - 1) + 1 = j BY <1>1, <2>1
  <2>4. DiscardThen(j - 1, n, l) BY <1>2, <2>1, <2>2, <2>3
  <2> QED BY <2>1, <2>2, <2>4 DEF DropsThen
<1>5. ASSUME NEW n, NEW l, DropsAfter(0, n, l), ~(ready[1].do = "cancel" /\ ready[1].n = n)
      PROVE  DropsThen(0, n, l)
  <2>1. PICK j \in DOMAIN ready : /\ 0 < j /\ ready[j].do = "cancel" /\ ready[j].n = n
                                  /\ DiscardAfter(j, n, l)
    BY <1>5 DEF DropsAfter, Queued
  <2>2. j # 1 /\ j \in Nat /\ j >= 1 BY <1>1, <1>5, <2>1
  <2>3. 0 + 1 < j BY <2>2
  <2>4. DropsAfter(0 + 1, n, l) BY <2>1, <2>3 DEF DropsAfter, Queued
  <2> QED BY <1>4, <2>4
<1>6. \A n, l : DropsAfter(1, n, l) => DropsThen(0, n, l)
  <2>1. 0 + 1 = 1 /\ 0 \in Nat OBVIOUS
  <2> QED BY <1>4, <2>1
<1> QED BY <1>1, <1>2, <1>3, <1>4, <1>5, <1>6

\* A step of the loop that sends nothing and stores nothing: it may end tasks,
\* take sessions from the pool, and stop the loop.
LEMMA ShrinksKeep ==
    ASSUME TypeOK, LockInv, PoolInv, Pops, UNCHANGED <<pc, asked, calls, dropped, result, used>>,
           StopsAreLast', sessions' \in [Labels -> 0..MaxCalls],
           \A l \in Labels : sessions'[l] = 0 \/ sessions'[l] = sessions[l],
           Working' \subseteq Working,
           \/ ready' = ready
           \/ /\ ready # <<>> /\ ready' = Tail(ready)
              /\ ready[1].do = "cancel" => \A p \in Working' : p.n # ready[1].n
              /\ ready[1].do = "discard" => sessions'[ready[1].label] = 0
           \/ /\ ready' = <<>> /\ Working' = {}
              /\ \A i \in DOMAIN ready : ready[i].do # "discard"
              /\ \A t \in Threads : pc[t] # "waits"
    PROVE  PoolInv'
<1>1. QueueInOrder' BY QueuePops
<1>2. \A i \in DOMAIN ready' : \E k \in DOMAIN ready : ready[k] = ready'[i]
  BY PopsFrom
<1>3. CallsAreNew'
  <2>1. \A n \in Nat : Before(n) => BeforeThen(n)
    <3>1. ASSUME NEW n \in Nat, Before(n) PROVE BeforeThen(n)
      <4>1. \A l \in Labels : sessions[l] \in Nat /\ sessions[l] < n
        BY <3>1, CallsAssumption DEF Before, TypeOK
      <4>2. \A l \in Labels : sessions'[l] < n BY <4>1
      <4> QED BY <3>1, <4>2 DEF Before, BeforeThen
    <3> QED BY <3>1
  <2>2. \A i \in DOMAIN ready' : ready'[i].do = "call" => BeforeThen(ready'[i].n)
    BY <1>2, <2>1, ReadyType DEF PoolInv, CallsAreNew, Queued
  <2>3. calls \in Nat /\ calls + 1 \in Nat BY CallsAssumption DEF TypeOK
  <2>4. BeforeThen(calls' + 1) BY <2>1, <2>3 DEF PoolInv, CallsAreNew
  <2>5. \A t \in Threads : pc'[t] \in {"closes", "joins"} =>
            /\ BeforeThen(calls')
            /\ \A i \in DOMAIN ready' : ready'[i].do = "call" => ready'[i].n < calls'
    BY <1>2, <2>1, <2>3 DEF PoolInv, CallsAreNew, Queued
  <2>6. /\ \A n \in Ids : n > calls' => result'[n] = "pending"
        /\ \A u \in used' : u[1] <= u[2]
    BY DEF PoolInv, CallsAreNew
  <2> QED BY <2>2, <2>4, <2>5, <2>6, CallsAreNewThen
<1>4. SessionsAreOwn'
  <2>1. \A p \in Working' : p.kind = "opening" =>
            /\ p.session = p.n
            /\ \A l \in Labels : sessions'[l] # p.n
            /\ \A u \in used' : u[1] # p.n
    <3>1. \A p \in Working : p.n # 0 BY TaskType DEF Working, Ids
    <3> QED BY <3>1 DEF PoolInv, SessionsAreOwn
  <2>2. \A p, q \in Working' : p.n = q.n => p = q BY DEF PoolInv, SessionsAreOwn
  <2>3. \A l, k \in Labels : sessions'[l] = sessions'[k] /\ sessions'[l] # 0 => l = k
    BY DEF PoolInv, SessionsAreOwn
  <2> QED BY <2>1, <2>2, <2>3 DEF SessionsAreOwn
<1>5. CallsAreOwned'
  <2>1. /\ \A n, l : WaitsFor(n, l) <=> WaitsThen(n, l)
        /\ \A n : Kept(n) <=> KeptThen(n)
    BY DEF WaitsFor, WaitsThen, Kept, KeptThen
  <2>2. \A i \in DOMAIN ready' : ready'[i].do = "cancel" => result'[ready'[i].n] # "pending"
    BY <1>2 DEF PoolInv, CallsAreOwned, Queued
  <2>3. CASE ready' = ready
    <3>1. \A i, n, l : /\ DropsAfter(i, n, l) => DropsThen(i, n, l)
                       /\ DiscardAfter(i, n, l) => DiscardThen(i, n, l)
      BY <2>3, AppendFollows
    <3>2. \A i \in DOMAIN ready' : ready'[i].do = "call" /\ ~KeptThen(ready'[i].n) =>
              \/ WaitsThen(ready'[i].n, ready'[i].label)
              \/ DropsThen(i, ready'[i].n, ready'[i].label)
      BY <2>1, <2>3, <3>1 DEF PoolInv, CallsAreOwned, Queued
    <3>3. \A p \in Working' : ~KeptThen(p.n) => WaitsThen(p.n, p.label) \/ DropsThen(0, p.n, p.label)
      BY <2>1, <3>1 DEF PoolInv, CallsAreOwned
    <3>4. \A u \in used', l \in Labels : sessions'[l] = u[1] /\ ~KeptThen(u[2]) =>
              WaitsThen(u[2], l) \/ DiscardThen(0, u[2], l)
      <4>1. \A u \in used : u[1] # 0 BY DEF TypeOK, Ids
      <4> QED BY <2>1, <3>1, <4>1 DEF PoolInv, CallsAreOwned
    <3> QED BY <2>2, <3>2, <3>3, <3>4, CallsAreOwnedThen
  <2>4. CASE /\ ready # <<>> /\ ready' = Tail(ready)
             /\ ready[1].do = "cancel" => \A p \in Working' : p.n # ready[1].n
             /\ ready[1].do = "discard" => sessions'[ready[1].label] = 0
    <3>1. \A i \in DOMAIN ready' : i + 1 \in DOMAIN ready /\ ready'[i] = ready[i + 1]
      BY <2>4, TailReady
    <3>2. \A i \in DOMAIN ready' : ready'[i].do = "call" /\ ~KeptThen(ready'[i].n) =>
              \/ WaitsThen(ready'[i].n, ready'[i].label)
              \/ DropsThen(i, ready'[i].n, ready'[i].label)
      BY <2>1, <2>4, <3>1, PopsFollow DEF PoolInv, CallsAreOwned, Queued
    <3>3. \A p \in Working' : ~KeptThen(p.n) => WaitsThen(p.n, p.label) \/ DropsThen(0, p.n, p.label)
      BY <2>1, <2>4, PopsFollow DEF PoolInv, CallsAreOwned
    <3>4. \A u \in used', l \in Labels : sessions'[l] = u[1] /\ ~KeptThen(u[2]) =>
              WaitsThen(u[2], l) \/ DiscardThen(0, u[2], l)
      <4>1. \A u \in used : u[1] # 0 BY DEF TypeOK, Ids
      <4>2. \A n, l : Handle("discard", n, l).do = "discard" /\ Handle("discard", n, l).label = l
        BY DEF Handle
      <4> QED BY <2>1, <2>4, <4>1, <4>2, PopsFollow DEF PoolInv, CallsAreOwned
    <3> QED BY <2>2, <3>2, <3>3, <3>4, CallsAreOwnedThen
  <2>5. CASE /\ ready' = <<>> /\ Working' = {}
             /\ \A i \in DOMAIN ready : ready[i].do # "discard"
             /\ \A t \in Threads : pc[t] # "waits"
    <3>1. \A n, l : ~WaitsFor(n, l) /\ ~DiscardAfter(0, n, l)
      BY <2>5 DEF WaitsFor, DiscardAfter, Handle
    <3>2. \A u \in used', l \in Labels : sessions'[l] = u[1] => KeptThen(u[2])
      <4>1. \A u \in used : u[1] # 0 BY DEF TypeOK, Ids
      <4> QED BY <2>1, <3>1, <4>1 DEF PoolInv, CallsAreOwned
    <3> QED BY <2>5, <3>2, CallsAreOwnedThen
  <2> QED BY <2>3, <2>4, <2>5
<1>6. SessionsAreNotShared' BY DEF PoolInv, SessionsAreNotShared, Abandons
<1> QED BY <1>1, <1>3, <1>4, <1>5, <1>6 DEF PoolInv

\* No thread waits when the loop stops, and nothing of a call is left.
LEMMA NothingIsLeft ==
    ASSUME TypeOK, LockInv, PoolInv,
           \/ \E p \in parked : p.kind = "shutting"
           \/ ready # <<>> /\ ready[1].do \in {"shut", "stop"}
    PROVE  /\ \A i \in DOMAIN ready : ready[i].do # "discard"
           /\ \A t \in Threads : pc[t] # "waits"
           /\ dropped \/ \A t \in Threads : pc[t] # "closes"
<1>1. \A t \in Threads : pc[t] = "joins" => \A u \in Threads : pc[u] \notin {"waits", "closes"}
  BY OneAtATime
<1>2. CASE \E p \in parked : p.kind = "shutting"
  <2>1. dropped /\ \A j \in DOMAIN ready : ~OfACall(j)
    BY <1>2 DEF PoolInv, StopsAreLast, Shuts
  <2> QED BY <2>1 DEF OfACall, Queued, PoolInv, StopsAreLast
<1>3. CASE ready # <<>> /\ ready[1].do \in {"shut", "stop"}
  <2>1. 1 \in DOMAIN ready /\ \A i \in DOMAIN ready : i = 1 \/ 1 < i
    BY <1>3, ReadyType
  <2>2. \A i \in DOMAIN ready : ready[i].do # "discard"
    BY <1>3, <2>1 DEF PoolInv, StopsAreLast, OfACall, Queued
  <2>3. dropped \/ \E t \in Threads : pc[t] = "joins"
    BY <1>3, <2>1 DEF PoolInv, StopsAreLast, Shuts, Queued
  <2>4. dropped => \A t \in Threads : pc[t] # "waits" BY DEF PoolInv, StopsAreLast
  <2> QED BY <1>1, <2>2, <2>3, <2>4
<1> QED BY <1>2, <1>3

\* The closing of sessions goes on, or ends, and the loop with it.
LEMMA CloseNextKeeps ==
    ASSUME TypeOK, TypeOK', LockInv, PoolInv, loop = "running",
           NEW kind \in {"discarding", "closing", "shutting"}, NEW n \in Ids,
           NEW rest \in SUBSET Labels, NEW others \in SUBSET parked,
           CloseNext(kind, n, rest, others), UNCHANGED <<result, used, dropped>>, UNCHANGED OnLoop,
           \/ /\ \E p \in parked : p.kind = kind
              /\ ready' = IF loop' = "none" THEN <<>> ELSE ready
           \/ /\ ready # <<>> /\ ready[1].do = IF kind = "shutting" THEN "shut" ELSE "close"
              /\ ready' = IF loop' = "none" THEN <<>> ELSE Tail(ready)
    PROVE  PoolInv'
<1> USE DEF OnLoop
<1>1. sessions' \in [Labels -> 0..MaxCalls] BY DEF TypeOK
<1>2. \A l \in Labels : sessions'[l] = 0 \/ sessions'[l] = sessions[l]
  BY DEF CloseNext, TypeOK
<1>3. CASE rest = {} /\ kind = "shutting"
  <2>1. loop' = "none" /\ parked' = {} /\ ready' = <<>> BY <1>3 DEF CloseNext, Ends
  <2>2. \/ \E p \in parked : p.kind = "shutting"
        \/ ready # <<>> /\ ready[1].do \in {"shut", "stop"}
    BY <1>3
  <2>3. /\ \A i \in DOMAIN ready : ready[i].do # "discard"
        /\ \A t \in Threads : pc[t] # "waits"
        /\ dropped \/ \A t \in Threads : pc[t] # "closes"
    BY <2>2, NothingIsLeft
  <2>4. Working' = {} /\ Working' \subseteq Working BY <2>1 DEF Working
  <2>5. Pops BY <2>1 DEF Pops
  <2>6. StopsAreLast' BY <2>1, <2>3, <2>5, StopsPop
  <2> QED BY <1>1, <1>2, <2>1, <2>3, <2>4, <2>5, <2>6, ShrinksKeep
<1>4. CASE ~(rest = {} /\ kind = "shutting")
  <2>1. loop' = loop BY <1>4 DEF CloseNext
  <2>2. \A p \in parked' : p \in parked \/ p.kind = kind
    BY <1>4 DEF CloseNext, Task
  <2>3. Working' \subseteq Working BY <2>2 DEF Working
  <2>4. \/ ready' = ready /\ \E p \in parked : p.kind = kind
        \/ /\ ready # <<>> /\ ready' = Tail(ready)
           /\ ready[1].do = IF kind = "shutting" THEN "shut" ELSE "close"
    BY <2>1
  <2>5. Pops BY <2>4 DEF Pops
  <2>6. StopsAreLast' BY <2>1, <2>2, <2>4, <2>5, StopsPop
  <2> QED BY <1>1, <1>2, <2>3, <2>4, <2>5, <2>6, ShrinksKeep
<1> QED BY <1>3, <1>4

\* A call starts on the session stored for its label, or opens one.
LEMMA StartCallKeeps ==
    ASSUME TypeOK, TypeOK', LockInv, PoolInv, ready # <<>>, StartCall(ready[1]),
           ready' = Tail(ready), loop = "running", UNCHANGED result, UNCHANGED OnLoop
    PROVE  PoolInv'
<1> USE DEF OnLoop
<1> DEFINE h == ready[1]
           s == sessions[h.label]
           q == IF s = 0 THEN Task("opening", h.n, h.label, h.n, {})
                         ELSE Task("calling", h.n, h.label, s, {})
<1>1. /\ 1 \in DOMAIN ready /\ Queued(1, "call")
      /\ h.n \in Ids /\ h.n \in Nat /\ h.label \in Labels
      /\ \A i \in DOMAIN ready' : i >= 1 /\ i \in Nat /\ i + 1 \in DOMAIN ready /\ ready'[i] = ready[i + 1]
  BY TailReady, ReadyType DEF StartCall, Queued
<1>2. /\ q.n = h.n /\ q.label = h.label /\ q.kind \in {"opening", "calling"}
      /\ q.kind = "opening" <=> s = 0
      /\ q.kind = "opening" => q.session = h.n
  BY DEF Task
<1>3. /\ UNCHANGED <<loop, sessions, dropped>> /\ parked' = parked \cup {q}
      /\ used' = IF s = 0 THEN used ELSE used \cup {<<s, h.n>>}
  BY DEF StartCall, Park
<1> HIDE DEF q
<1>4. Working' = Working \cup {q} BY <1>2, <1>3 DEF Working
<1> HIDE DEF h
<1>5. Before(h.n) /\ h.n < calls + 1 /\ calls \in Nat
  BY <1>1, CallsAssumption DEF h, PoolInv, CallsAreNew, QueueInOrder, TypeOK
<1>6. \A i \in DOMAIN ready' : ready'[i].do = "call" => h.n < ready'[i].n
  <2>1. \A i \in DOMAIN ready' : 1 < i + 1 BY <1>1
  <2> QED BY <1>1, <2>1 DEF h, PoolInv, QueueInOrder, Queued
<1>7. /\ s \in Nat /\ s < h.n
      /\ \A u \in used : u[1] \in Ids /\ u[1] \in Nat /\ u[2] \in Ids /\ u[2] \in Nat /\ u[2] < h.n
  BY <1>1, <1>5, CallsAssumption DEF Before, TypeOK, Ids
<1>8. \A u \in used' : u \in used \/ (s # 0 /\ u[1] = s /\ u[2] = h.n) BY <1>3
<1>9. Pops BY DEF Pops
<1>10. QueueInOrder' BY <1>9, QueuePops
<1>11. StopsAreLast'
  <2>1. \A p \in parked' : p.kind = "shutting" => \E r \in parked : r.kind = "shutting"
    BY <1>2, <1>3
  <2> QED BY <1>3, <1>9, <2>1, StopsPop
<1>12. CallsAreNew'
  <2>1. ASSUME NEW n \in Nat, Before(n), h.n < n PROVE BeforeThen(n)
    BY <1>2, <1>3, <1>4, <1>8, <2>1 DEF Before, BeforeThen
  <2>2. \A i \in DOMAIN ready' : ready'[i].do = "call" => BeforeThen(ready'[i].n)
    BY <1>1, <1>6, <2>1, ReadyType DEF PoolInv, CallsAreNew, Queued
  <2>3. calls + 1 \in Nat BY <1>5
  <2>4. BeforeThen(calls' + 1) BY <1>5, <2>1, <2>3 DEF PoolInv, CallsAreNew
  <2>5. \A t \in Threads : pc'[t] \in {"closes", "joins"} =>
            /\ BeforeThen(calls')
            /\ \A i \in DOMAIN ready' : ready'[i].do = "call" => ready'[i].n < calls'
    BY <1>1, <1>5, <2>1 DEF h, PoolInv, CallsAreNew, Queued
  <2>6. /\ \A n \in Ids : n > calls' => result'[n] = "pending"
        /\ \A u \in used' : u[1] <= u[2]
    BY <1>1, <1>7, <1>8 DEF PoolInv, CallsAreNew
  <2> QED BY <2>2, <2>4, <2>5, <2>6, CallsAreNewThen
<1>13. \A p \in Working : p.n < h.n /\ p.n \in Nat
  BY <1>5, TaskType DEF Before, Working
<1>14. SessionsAreOwn'
  <2>1. \A p \in Working' : p.kind = "opening" =>
            /\ p.session = p.n
            /\ \A l \in Labels : sessions'[l] # p.n
            /\ \A u \in used' : u[1] # p.n
    <3>1. ASSUME NEW p \in Working, p.kind = "opening"
          PROVE  /\ p.session = p.n
                 /\ \A l \in Labels : sessions'[l] # p.n
                 /\ \A u \in used' : u[1] # p.n
      BY <1>1, <1>3, <1>8, <3>1 DEF PoolInv, SessionsAreOwn
    <3>2. q.kind = "opening" =>
              /\ q.session = q.n
              /\ \A l \in Labels : sessions'[l] # q.n
              /\ \A u \in used' : u[1] # q.n
      <4>1. \A l \in Labels : sessions[l] \in Nat /\ sessions[l] < h.n
        BY <1>5, CallsAssumption DEF Before, TypeOK
      <4>2. \A u \in used : u[1] < h.n BY <1>1, <1>7 DEF PoolInv, CallsAreNew
      <4> QED BY <1>1, <1>2, <1>3, <1>7, <4>1, <4>2
    <3> QED BY <1>4, <3>1, <3>2
  <2>2. \A p, r \in Working' : p.n = r.n => p = r
    BY <1>1, <1>2, <1>4, <1>13 DEF PoolInv, SessionsAreOwn
  <2>3. \A l, k \in Labels : sessions'[l] = sessions'[k] /\ sessions'[l] # 0 => l = k
    BY <1>3 DEF PoolInv, SessionsAreOwn
  <2> QED BY <2>1, <2>2, <2>3 DEF SessionsAreOwn
<1>15. CallsAreOwned'
  <2>1. /\ \A n, l : WaitsFor(n, l) <=> WaitsThen(n, l)
        /\ \A n : Kept(n) <=> KeptThen(n)
    BY DEF WaitsFor, WaitsThen, Kept, KeptThen
  <2>2. h.do = "call" BY <1>1 DEF h, Queued
  <2>3. \A i \in DOMAIN ready' : ready'[i].do = "cancel" => result'[ready'[i].n] # "pending"
    BY <1>1 DEF PoolInv, CallsAreOwned, Queued
  <2>4. \A i \in DOMAIN ready' : ready'[i].do = "call" /\ ~KeptThen(ready'[i].n) =>
            \/ WaitsThen(ready'[i].n, ready'[i].label)
            \/ DropsThen(i, ready'[i].n, ready'[i].label)
    BY <1>1, <2>1, PopsFollow DEF PoolInv, CallsAreOwned, Queued
  <2>5. ~Kept(h.n) => WaitsThen(h.n, h.label) \/ DropsThen(0, h.n, h.label)
    BY <1>1, <2>1, PopsFollow DEF h, PoolInv, CallsAreOwned
  <2>6. \A p \in Working' : ~KeptThen(p.n) => WaitsThen(p.n, p.label) \/ DropsThen(0, p.n, p.label)
    BY <1>2, <1>4, <2>1, <2>2, <2>5, PopsFollow DEF h, PoolInv, CallsAreOwned
  <2>7. \A u \in used', l \in Labels : sessions'[l] = u[1] /\ ~KeptThen(u[2]) =>
            WaitsThen(u[2], l) \/ DiscardThen(0, u[2], l)
    <3>1. \A n, l : DropsThen(0, n, l) => DiscardThen(0, n, l)
      <4>1. \A i \in DOMAIN ready' : i \in Nat /\ i >= 1 BY <1>1
      <4> QED BY <4>1 DEF DropsThen, DiscardThen
    <3>2. \A n, l : Handle("discard", n, l).do = "discard" BY DEF Handle
    <3>3. \A u \in used, l \in Labels : sessions'[l] = u[1] /\ ~KeptThen(u[2]) =>
              WaitsThen(u[2], l) \/ DiscardThen(0, u[2], l)
      BY <1>3, <2>1, <2>2, <3>2, PopsFollow DEF h, PoolInv, CallsAreOwned
    <3>4. \A l \in Labels : sessions'[l] = s /\ s # 0 => l = h.label
      BY <1>1, <1>3 DEF PoolInv, SessionsAreOwn
    <3> QED BY <1>8, <2>1, <2>5, <3>1, <3>3, <3>4
  <2> QED BY <2>3, <2>4, <2>6, <2>7, CallsAreOwnedThen
<1>16. SessionsAreNotShared'
  <2>1. Abandons' = Abandons BY DEF Abandons
  <2>2. ASSUME NEW u \in used, u[1] = s, s # 0 PROVE u[2] \notin Abandons
    <3>1. SUFFICES ASSUME u[2] \in Abandons PROVE FALSE OBVIOUS
    <3>2. ~Kept(u[2]) BY <3>1 DEF Abandons, Kept
    <3>3. WaitsFor(u[2], h.label) \/ DiscardAfter(0, u[2], h.label)
      BY <1>1, <2>2, <3>2 DEF PoolInv, CallsAreOwned
    <3>4. ~WaitsFor(u[2], h.label)
      <4>1. \A t \in Threads : pc[t] = "waits" => asked[t].n = calls BY DEF LockInv
      <4>2. u[2] # calls BY <1>1, <1>5, <1>7
      <4> QED BY <4>1, <4>2 DEF WaitsFor
    <3>5. ~DiscardAfter(0, u[2], h.label)
      <4>1. ASSUME NEW k \in DOMAIN ready, ready[k] = Handle("discard", u[2], h.label) PROVE FALSE
        <5>1. ready[k].n = u[2] /\ ready[k].do = "discard" BY <4>1 DEF Handle
        <5>2. k # 1 /\ (k = 1 \/ 1 < k) BY <1>1, <5>1, ReadyType DEF Queued
        <5>3. h.n <= ready[k].n BY <1>1, <5>2 DEF h, PoolInv, QueueInOrder
        <5> QED BY <1>1, <1>7, <5>1, <5>3
      <4> QED BY <4>1 DEF DiscardAfter
    <3> QED BY <3>3, <3>4, <3>5
  <2>3. \A u, v \in used' : (u[1] = v[1] /\ u[2] < v[2]) => u[2] \notin Abandons'
    <3>1. ASSUME NEW u \in used', NEW v \in used', u[1] = v[1], u[2] < v[2]
          PROVE  u[2] \notin Abandons
      <4>1. CASE u \in used /\ v \in used BY <3>1, <4>1 DEF PoolInv, SessionsAreNotShared
      <4>2. CASE u \in used /\ v \notin used BY <1>8, <2>2, <3>1, <4>2
      <4>3. CASE u \notin used
        <5>1. u[2] = h.n /\ (v[2] = h.n \/ v[2] < h.n) /\ v[2] \in Nat
          BY <1>1, <1>7, <1>8, <4>3
        <5> QED BY <1>1, <3>1, <5>1
      <4> QED BY <4>1, <4>2, <4>3
    <3> QED BY <2>1, <3>1
  <2> QED BY <2>3 DEF SessionsAreNotShared
<1> QED BY <1>10, <1>11, <1>12, <1>14, <1>15, <1>16 DEF PoolInv

\* The session a call opened is stored, and the call sent on it.
LEMMA OpenedKeeps ==
    ASSUME TypeOK, TypeOK', LockInv, PoolInv, NEW p \in parked, Opened(p)
    PROVE  PoolInv'
<1> USE DEF OnLoop
<1> DEFINE q == [p EXCEPT !.kind = "calling"]
<1>1. /\ p.kind = "opening" /\ p \in Working /\ p.session = p.n
      /\ p.n \in Ids /\ p.n \in Nat /\ p.n # 0 /\ p.label \in Labels
  BY TaskType DEF Opened, Working, PoolInv, SessionsAreOwn, Ids
<1>2. q.kind = "calling" /\ q.n = p.n /\ q.label = p.label
  BY DEF TypeOK, Tasks
<1>3. /\ sessions' = [sessions EXCEPT ![p.label] = p.n]
      /\ used' = used \cup {<<p.n, p.n>>}
      /\ parked' = (parked \ {p}) \cup {q}
      /\ UNCHANGED <<ready, loop, result, dropped, pc, asked, calls>>
  BY <1>1 DEF Opened
<1> HIDE DEF q
<1>4. Working' = (Working \ {p}) \cup {q} BY <1>2, <1>3 DEF Working
<1>5. /\ sessions'[p.label] = p.n
      /\ \A l \in Labels : l # p.label => sessions'[l] = sessions[l]
  BY <1>1, <1>3 DEF TypeOK
<1>6. \A u \in used' : u \in used \/ (u[1] = p.n /\ u[2] = p.n) BY <1>3
<1>7. /\ \A u \in used : u[1] # p.n /\ u[1] \in Nat /\ u[2] \in Nat
      /\ \A l \in Labels : sessions[l] # p.n
  <2>1. used \subseteq Ids \X Ids BY DEF TypeOK
  <2>2. \A u \in used : u[1] \in Nat /\ u[2] \in Nat BY <2>1 DEF Ids
  <2>3. SessionsAreOwn BY DEF PoolInv
  <2> QED BY <1>1, <2>2, <2>3 DEF SessionsAreOwn
<1>8. Pops BY <1>3 DEF Pops
<1>9. QueueInOrder' BY <1>3, <1>8, QueuePops
<1>10. StopsAreLast'
  <2>1. \A r \in parked' : r.kind = "shutting" => \E x \in parked : x.kind = "shutting"
    BY <1>2, <1>3
  <2>2. loop = "running" BY DEF PoolInv, StopsAreLast, TypeOK
  <2> QED BY <1>3, <1>8, <2>1, <2>2, StopsPop
<1>11. CallsAreNew'
  <2>1. ASSUME NEW n, Before(n) PROVE BeforeThen(n)
    <3>1. p.n < n BY <1>1, <2>1 DEF Before
    <3> QED BY <1>2, <1>4, <1>5, <1>6, <2>1, <3>1 DEF Before, BeforeThen
  <2>2. /\ \A n \in Ids : n > calls' => result'[n] = "pending"
        /\ \A u \in used' : u[1] <= u[2]
    <3>1. CallsAreNew BY DEF PoolInv
    <3>2. \A n \in Ids : n > calls' => result'[n] = "pending" BY <1>3, <3>1 DEF CallsAreNew
    <3>3. \A u \in used : u[1] <= u[2] BY <3>1 DEF CallsAreNew
    <3>4. p.n <= p.n BY <1>1
    <3>5. \A u \in used' : u[1] <= u[2] BY <1>6, <3>3, <3>4
    <3> QED BY <3>2, <3>5
  <2>3. \A i \in DOMAIN ready' : ready'[i].do = "call" => BeforeThen(ready'[i].n)
    BY <1>3, <2>1 DEF PoolInv, CallsAreNew, Queued
  <2>4. /\ BeforeThen(calls' + 1)
        /\ \A t \in Threads : pc'[t] \in {"closes", "joins"} =>
              /\ BeforeThen(calls')
              /\ \A i \in DOMAIN ready' : ready'[i].do = "call" => ready'[i].n < calls'
    BY <1>3, <2>1 DEF PoolInv, CallsAreNew, Queued, Opened
  <2> QED BY <2>2, <2>3, <2>4, CallsAreNewThen
<1>12. SessionsAreOwn'
  <2>1. \A r \in Working : r # p => r.n # p.n BY <1>1 DEF PoolInv, SessionsAreOwn
  <2>2. \A r \in Working' : r.kind = "opening" =>
            /\ r.session = r.n
            /\ \A l \in Labels : sessions'[l] # r.n
            /\ \A u \in used' : u[1] # r.n
    <3>1. ASSUME NEW r \in Working', r.kind = "opening"
          PROVE  r \in Working /\ r.n # p.n
      BY <1>2, <1>4, <2>1, <3>1
    <3> QED BY <1>5, <1>6, <3>1 DEF PoolInv, SessionsAreOwn
  <2>3. \A r, x \in Working' : r.n = x.n => r = x
    BY <1>2, <1>4, <2>1 DEF PoolInv, SessionsAreOwn
  <2>4. \A l, k \in Labels : sessions'[l] = sessions'[k] /\ sessions'[l] # 0 => l = k
    BY <1>5, <1>7 DEF PoolInv, SessionsAreOwn
  <2> QED BY <2>2, <2>3, <2>4 DEF SessionsAreOwn
<1>13. CallsAreOwned'
  <2>1. /\ \A n, l : WaitsFor(n, l) <=> WaitsThen(n, l)
        /\ \A n : Kept(n) <=> KeptThen(n)
    BY <1>3 DEF WaitsFor, WaitsThen, Kept, KeptThen, Opened
  <2>2. /\ \A i, n, l : DropsAfter(i, n, l) => DropsThen(i, n, l)
        /\ \A i, n, l : DiscardAfter(i, n, l) => DiscardThen(i, n, l)
    BY <1>3, AppendFollows
  <2>3. \A i \in DOMAIN ready' : ready'[i].do = "cancel" => result'[ready'[i].n] # "pending"
    BY <1>3 DEF PoolInv, CallsAreOwned, Queued
  <2>4. \A i \in DOMAIN ready' : ready'[i].do = "call" /\ ~KeptThen(ready'[i].n) =>
            \/ WaitsThen(ready'[i].n, ready'[i].label)
            \/ DropsThen(i, ready'[i].n, ready'[i].label)
    BY <1>3, <2>1, <2>2 DEF PoolInv, CallsAreOwned, Queued
  <2>5. ~Kept(p.n) => WaitsThen(p.n, p.label) \/ DropsThen(0, p.n, p.label)
    BY <1>1, <2>1, <2>2 DEF PoolInv, CallsAreOwned
  <2>6. \A r \in Working' : ~KeptThen(r.n) => WaitsThen(r.n, r.label) \/ DropsThen(0, r.n, r.label)
    BY <1>2, <1>4, <2>1, <2>2, <2>5 DEF PoolInv, CallsAreOwned
  <2>7. \A n, l : DropsThen(0, n, l) => DiscardThen(0, n, l)
    <3>1. \A i \in DOMAIN ready' : i \in Nat /\ i >= 1 BY <1>3, ReadyType
    <3> QED BY <3>1 DEF DropsThen, DiscardThen
  <2>8. \A u \in used', l \in Labels : sessions'[l] = u[1] /\ ~KeptThen(u[2]) =>
            WaitsThen(u[2], l) \/ DiscardThen(0, u[2], l)
    <3>1. ASSUME NEW u \in used, NEW l \in Labels, sessions'[l] = u[1], ~KeptThen(u[2])
          PROVE  WaitsThen(u[2], l) \/ DiscardThen(0, u[2], l)
      <4>1. sessions[l] = u[1] BY <1>5, <1>7, <3>1
      <4> QED BY <2>1, <2>2, <3>1, <4>1 DEF PoolInv, CallsAreOwned
    <3>2. \A l \in Labels : sessions'[l] = p.n => l = p.label BY <1>5, <1>7
    <3> QED BY <1>6, <2>1, <2>5, <2>7, <3>1, <3>2
  <2> QED BY <2>3, <2>4, <2>6, <2>8, CallsAreOwnedThen
<1>14. SessionsAreNotShared'
  <2>1. Abandons' = Abandons BY <1>3 DEF Abandons
  <2>2. ASSUME NEW u \in used', NEW v \in used', u[1] = v[1], u[2] < v[2] PROVE u \in used /\ v \in used
    BY <1>1, <1>6, <1>7, <2>2
  <2> QED BY <2>1, <2>2 DEF PoolInv, SessionsAreNotShared
<1> QED BY <1>9, <1>10, <1>11, <1>12, <1>13, <1>14 DEF PoolInv

\* brain answers a call, refuses it, or the transport fails.
LEMMA AnswersKeep ==
    ASSUME TypeOK, LockInv, PoolInv, NEW p \in parked, Answers(p)
    PROVE  PoolInv'
<1> USE DEF OnLoop
<1>1. p \in Working /\ p.n \in Ids /\ p.n \in Nat BY TaskType DEF Answers, Working
<1>2. /\ UNCHANGED <<ready, loop, sessions, used, dropped, pc, asked, calls>>
      /\ parked' = parked \ {p}
  BY DEF Answers
<1>3. /\ \A n \in Ids : n # p.n \/ result[n] # "pending" => result'[n] = result[n]
      /\ \A n \in Ids : result[n] # "pending" => result'[n] # "pending"
  BY <1>1 DEF Answers, Learn, TypeOK
<1>4. Working' \subseteq Working BY <1>2 DEF Working
<1>5. \A n \in Ids : Kept(n) => KeptThen(n) BY <1>3 DEF Kept, KeptThen
<1>6. Pops BY <1>2 DEF Pops
<1>7. QueueInOrder' BY <1>2, <1>6, QueuePops
<1>8. StopsAreLast'
  <2>1. loop = "running" BY DEF PoolInv, StopsAreLast
  <2> QED BY <1>2, <1>6, <2>1, StopsPop
<1>9. CallsAreNew'
  <2>1. \A n : Before(n) => BeforeThen(n) BY <1>2, <1>4 DEF Before, BeforeThen
  <2>2. \A n \in Ids : n > calls' => result'[n] = "pending"
    <3>1. p.n < calls + 1 /\ calls \in Nat
      BY <1>1, CallsAssumption DEF PoolInv, CallsAreNew, Before, TypeOK
    <3>2. \A n \in Ids : n > calls => n # p.n BY <1>1, <3>1 DEF Ids
    <3> QED BY <1>2, <1>3, <3>2 DEF PoolInv, CallsAreNew
  <2>3. \A i \in DOMAIN ready' : ready'[i].do = "call" => BeforeThen(ready'[i].n)
    BY <1>2, <2>1 DEF PoolInv, CallsAreNew, Queued
  <2>4. /\ BeforeThen(calls' + 1) /\ \A u \in used' : u[1] <= u[2]
        /\ \A t \in Threads : pc'[t] \in {"closes", "joins"} =>
              /\ BeforeThen(calls')
              /\ \A i \in DOMAIN ready' : ready'[i].do = "call" => ready'[i].n < calls'
    BY <1>2, <2>1 DEF PoolInv, CallsAreNew, Queued
  <2> QED BY <2>2, <2>3, <2>4, CallsAreNewThen
<1>10. SessionsAreOwn' BY <1>2, <1>4 DEF PoolInv, SessionsAreOwn
<1>11. CallsAreOwned'
  <2>1. \A n, l : WaitsFor(n, l) <=> WaitsThen(n, l) BY <1>2 DEF WaitsFor, WaitsThen
  <2>2. /\ \A i, n, l : DropsAfter(i, n, l) => DropsThen(i, n, l)
        /\ \A i, n, l : DiscardAfter(i, n, l) => DiscardThen(i, n, l)
    BY <1>2, AppendFollows
  <2>3. \A i \in DOMAIN ready' : ready'[i].do = "cancel" => result'[ready'[i].n] # "pending"
    BY <1>2, <1>3, ReadyType DEF PoolInv, CallsAreOwned, Queued
  <2>4. \A i \in DOMAIN ready' : ready'[i].do = "call" /\ ~KeptThen(ready'[i].n) =>
            \/ WaitsThen(ready'[i].n, ready'[i].label)
            \/ DropsThen(i, ready'[i].n, ready'[i].label)
    BY <1>2, <1>5, <2>1, <2>2, ReadyType DEF PoolInv, CallsAreOwned, Queued
  <2>5. \A r \in Working' : ~KeptThen(r.n) => WaitsThen(r.n, r.label) \/ DropsThen(0, r.n, r.label)
    <3>1. \A r \in Working : r.n \in Ids BY TaskType DEF Working
    <3> QED BY <1>4, <1>5, <2>1, <2>2, <3>1 DEF PoolInv, CallsAreOwned
  <2>6. \A u \in used', l \in Labels : sessions'[l] = u[1] /\ ~KeptThen(u[2]) =>
            WaitsThen(u[2], l) \/ DiscardThen(0, u[2], l)
    <3>1. \A u \in used : u[2] \in Ids BY DEF TypeOK
    <3> QED BY <1>2, <1>5, <2>1, <2>2, <3>1 DEF PoolInv, CallsAreOwned
  <2> QED BY <2>3, <2>4, <2>5, <2>6, CallsAreOwnedThen
\* A call that fails is the last one: its caller waits for it.
<1>12. SessionsAreNotShared'
  <2>1. \A n \in Abandons' : n \in Abandons \/ (n = p.n /\ result[p.n] = "pending")
    BY <1>3 DEF Abandons
  <2>2. result[p.n] = "pending" => p.n = calls
    <3>1. SUFFICES ASSUME result[p.n] = "pending" PROVE p.n = calls OBVIOUS
    <3>2. WaitsFor(p.n, p.label) \/ DropsAfter(0, p.n, p.label)
      BY <1>1, <3>1 DEF PoolInv, CallsAreOwned, Kept
    <3>3. ~DropsAfter(0, p.n, p.label) BY <3>1 DEF DropsAfter, PoolInv, CallsAreOwned
    <3> QED BY <3>2, <3>3 DEF WaitsFor, LockInv
  <2>3. \A u \in used : u[2] \in Nat /\ u[2] < calls + 1 /\ calls \in Nat
    BY CallsAssumption DEF PoolInv, CallsAreNew, Before, TypeOK, Ids
  <2> QED BY <1>2, <2>1, <2>2, <2>3 DEF PoolInv, SessionsAreNotShared
<1> QED BY <1>7, <1>8, <1>9, <1>10, <1>11, <1>12 DEF PoolInv

LEMMA HandlesKeep ==
    ASSUME TypeOK, TypeOK', LockInv, PoolInv, RunHandle
    PROVE  PoolInv'
<1> USE DEF OnLoop
<1> DEFINE h == ready[1]
<1>1. /\ loop = "running" /\ ready # <<>> /\ Head(ready) = h /\ h \in Handles
      /\ h.n \in Ids /\ h.label \in Labels
      /\ ready' = IF loop' = "none" THEN <<>> ELSE Tail(ready)
      /\ UNCHANGED <<result, scope, lock, pc, asked, calls>>
      /\ StartCall(h) \/ Cancel(h) \/ Discard(h) \/ CloseSessions(h) \/ Stop(h)
  BY TailReady, ReadyType DEF RunHandle
<1>2. sessions' \in [Labels -> 0..MaxCalls] BY DEF TypeOK
<1>3. CASE StartCall(h)
  <2>1. ready' = Tail(ready) BY <1>1, <1>3 DEF StartCall
  <2> QED BY <1>1, <1>3, <2>1, StartCallKeeps
<1>4. CASE Cancel(h)
  <2>1. /\ ready' = Tail(ready) /\ UNCHANGED <<loop, sessions, used, dropped>>
        /\ h.do = "cancel"
    BY <1>1, <1>4 DEF Cancel
  <2>2. /\ Working' \subseteq Working /\ \A p \in Working' : p.n # h.n
        /\ \A p \in parked' : p \in parked
    BY <1>4 DEF Cancel, Working
  <2>3. Pops BY <1>1, <2>1 DEF Pops
  <2>4. StopsAreLast' BY <1>1, <2>1, <2>2, <2>3, StopsPop
  <2> QED BY <1>1, <1>2, <2>1, <2>2, <2>3, <2>4, ShrinksKeep
<1>5. CASE Discard(h)
  <2>1. /\ ready' = Tail(ready) /\ UNCHANGED <<loop, used, dropped>>
        /\ h.do = "discard" /\ sessions'[h.label] = 0
        /\ \A l \in Labels : sessions'[l] = 0 \/ sessions'[l] = sessions[l]
    BY <1>1, <1>5 DEF Discard, TypeOK
  <2>2. \A p \in parked' : p \in parked \/ p.kind = "discarding"
    BY <1>5 DEF Discard, Park, Task
  <2>3. Working' \subseteq Working BY <2>2 DEF Working
  <2>4. Pops BY <1>1, <2>1 DEF Pops
  <2>5. StopsAreLast' BY <1>1, <2>1, <2>2, <2>4, StopsPop
  <2> QED BY <1>1, <1>2, <2>1, <2>3, <2>4, <2>5, ShrinksKeep
<1>6. CASE CloseSessions(h)
  <2> DEFINE kind == IF h.do = "close" THEN "closing" ELSE "shutting"
             rest == {l \in Labels : sessions[l] # 0}
  <2>1. /\ CloseNext(kind, h.n, rest, parked) /\ UNCHANGED <<used, dropped>>
        /\ kind \in {"discarding", "closing", "shutting"}
        /\ h.do = IF kind = "shutting" THEN "shut" ELSE "close"
        /\ rest \in SUBSET Labels
    BY <1>6 DEF CloseSessions
  <2> HIDE DEF kind, rest
  <2> QED BY <1>1, <2>1, CloseNextKeeps
<1>7. CASE Stop(h)
  <2>1. /\ h.do = "stop" /\ loop' = "none" /\ parked' = {} /\ ready' = <<>>
        /\ UNCHANGED <<sessions, used, dropped>>
    BY <1>1, <1>7 DEF Stop, Ends
  <2>2. /\ \A i \in DOMAIN ready : ready[i].do # "discard"
        /\ \A t \in Threads : pc[t] # "waits"
        /\ dropped \/ \A t \in Threads : pc[t] # "closes"
    BY <1>1, <2>1, NothingIsLeft
  <2>3. Working' = {} /\ Working' \subseteq Working /\ Pops BY <2>1 DEF Working, Pops
  <2>4. StopsAreLast' BY <1>1, <2>1, <2>2, <2>3, StopsPop
  <2> QED BY <1>1, <1>2, <2>1, <2>2, <2>3, <2>4, ShrinksKeep
<1> QED BY <1>1, <1>3, <1>4, <1>5, <1>6, <1>7

LEMMA ClosedKeeps ==
    ASSUME TypeOK, TypeOK', LockInv, PoolInv, NEW p \in parked, Closed(p)
    PROVE  PoolInv'
<1>1. /\ p.n \in Ids /\ p.rest \in SUBSET Labels
      /\ p.kind \in {"discarding", "closing", "shutting"} /\ parked \ {p} \in SUBSET parked
  BY TaskType DEF Closed
<1>2. loop = "running" BY DEF PoolInv, StopsAreLast
<1>3. /\ CloseNext(p.kind, p.n, p.rest, parked \ {p}) /\ UNCHANGED <<result, used, dropped>>
      /\ UNCHANGED OnLoop /\ ready' = IF loop' = "none" THEN <<>> ELSE ready
  BY DEF Closed
<1> QED BY <1>1, <1>2, <1>3, CloseNextKeeps

LEMMA PoolStep ==
    ASSUME TypeOK, TypeOK', Counted, LockInv, PoolInv, [Next]_vars
    PROVE  PoolInv'
<1>1. CASE UNCHANGED vars
  <2>1. UNCHANGED <<ready, result, calls, loop, pc, asked>> /\ UNCHANGED Elsewhere
    BY <1>1 DEF vars, Elsewhere
  <2>2. Pops /\ QueueInOrder' BY <2>1, QueuePops DEF Pops
  <2>3. Working' = Working BY <2>1 DEF Working, Elsewhere
  <2>4. StopsAreLast' BY <2>1 DEF PoolInv, StopsAreLast, Shuts, OfACall, Queued, Elsewhere
  <2> QED BY <2>1, <2>2, <2>3, <2>4, ShrinksKeep DEF Elsewhere, TypeOK
<1> QED BY <1>1, ThreadsKeep, HandlesKeep, ClosedKeeps, OpenedKeeps, AnswersKeep, CollectedKeeps
        DEF Next, LoopStep

-----------------------------------------------------------------------------
(* What nobody interrupts and no exit handler closes: at any time one       *)
(* actor has business with the loop -- the holder of the lock, or the       *)
(* finalizer of the only client -- and it leaves the loop quiet.            *)

Quiet == ready = <<>> /\ parked = {}

Runs(q) == ready = q /\ parked = {}

Parks(p) == ready = <<>> /\ parked = {p}

EmptyOutside(rest) == \A l \in Labels \ rest : sessions[l] = 0

\* The pool stores no session, and brain holds none.
Clear == EmptyOutside({}) /\ open = {}

Worker(p, n, l) ==
    /\ p.kind \in {"opening", "calling"} /\ p.n = n /\ p.label = l
    /\ p.kind = "opening" => sessions[l] = 0

\* The call runs, or is on its way; it has no result until it is gone.
Calling(n, l) ==
    \/ Quiet
    \/ /\ result[n] = "pending"
       /\ \/ Runs(<<Handle("call", n, l)>>)
          \/ \E p \in Tasks : Parks(p) /\ Worker(p, n, l)

\* The call is cancelled, then its session is dropped and closed.
Abandoning(n, l) ==
    \/ Runs(<<Handle("call", n, l), Handle("cancel", n, l), Handle("discard", n, l)>>)
    \/ /\ ready = <<Handle("cancel", n, l), Handle("discard", n, l)>>
       /\ parked = {} \/ \E p \in Tasks : parked = {p} /\ Worker(p, n, l)
    \/ Runs(<<Handle("discard", n, l)>>)
    \/ \E p \in Tasks : Parks(p) /\ p.kind = "discarding" /\ p.n = n /\ p.rest = {}

\* The sessions are closed one label after the other.
Emptying(do, kind, n) ==
    \/ \E l \in Labels : Runs(<<Handle(do, n, l)>>)
    \/ \E p \in Tasks : Parks(p) /\ p.kind = kind /\ p.n = n /\ EmptyOutside(p.rest)

Stage(t, n, l) ==
    /\ pc[t] = "waits" => n \notin tidied /\ Calling(n, l)
    /\ pc[t] = "abandons" => IF n \in tidied THEN Quiet ELSE Abandoning(n, l)
    /\ pc[t] = "closes" => IF n \in tidied THEN Quiet /\ Clear
                                          ELSE Emptying("close", "closing", n)
    /\ pc[t] = "joins" => /\ Clear
                          /\ (Quiet /\ loop = "none") \/ Runs(<<Handle("stop", n, l)>>)

OneActor ==
    /\ \A t \in Threads : Stage(t, asked[t].n, asked[t].label)
    /\ lock = Nobody /\ ~dropped => Quiet
    /\ dropped => /\ \A t \in Threads : pc[t] = "idle"
                  /\ \/ Quiet /\ loop = "none"
                     \/ \E n \in Ids : n <= calls /\ Emptying("shut", "shutting", n)

\* Whatever brain holds, the pool stores or a task is closing.
SessionsAreKept ==
    /\ \A s \in open : \/ \E l \in Labels : sessions[l] = s
                       \/ \E p \in parked : /\ p.session = s
                                            /\ p.kind \in {"discarding", "closing", "shutting"}
    /\ loop = "none" => Clear
    /\ cut = {}
    /\ \A n \in tidied : n <= calls

Sole == OneActor /\ SessionsAreKept

ReleaseInv == ~scope.interrupts /\ ~scope.exits => Sole

\* Short queues.
LEMMA JoinThree ==
    ASSUME NEW a, NEW b, NEW c
    PROVE  <<a>> \o <<b, c>> = <<a, b, c>>
<1> DEFINE s == <<a>> \o <<b, c>>
<1>1. <<a>> \in Seq({a, b, c}) /\ <<b, c>> \in Seq({a, b, c}) OBVIOUS
<1>2. s \in Seq({a, b, c}) /\ Len(s) = 3 BY <1>1
<1>3. s[1] = a /\ s[2] = b /\ s[3] = c BY <1>1
<1> HIDE DEF s
<1>4. s = <<s[1], s[2], s[3]>> BY <1>2
<1>5. s = <<a, b, c>> BY <1>3, <1>4
<1> QED BY <1>5 DEF s

LEMMA Queues ==
    ASSUME NEW a, NEW b, NEW c
    PROVE  /\ Append(<<>>, a) = <<a>> /\ <<>> \o <<a, b>> = <<a, b>>
           /\ <<a>> \o <<b, c>> = <<a, b, c>>
           /\ Head(<<a>>) = a /\ Head(<<a, b>>) = a /\ Head(<<a, b, c>>) = a
           /\ Tail(<<a>>) = <<>> /\ Tail(<<a, b>>) = <<b>> /\ Tail(<<a, b, c>>) = <<b, c>>
           /\ <<a>> # <<>> /\ <<a, b>> # <<>> /\ <<a, b, c>> # <<>>
<1>1. Append(<<>>, a) = <<a>> /\ <<>> \o <<a, b>> = <<a, b>> OBVIOUS
<1>2. <<a>> \o <<b, c>> = <<a, b, c>> BY JoinThree
<1>3. Head(<<a>>) = a /\ Head(<<a, b>>) = a /\ Head(<<a, b, c>>) = a OBVIOUS
<1>4. Tail(<<a>>) = <<>> OBVIOUS
<1>5. Tail(<<a, b>>) = <<b>> OBVIOUS
<1>6. Tail(<<a, b, c>>) = <<b, c>> OBVIOUS
<1>7. <<a>> # <<>> /\ <<a, b>> # <<>> /\ <<a, b, c>> # <<>> OBVIOUS
<1> QED BY <1>1, <1>2, <1>3, <1>4, <1>5, <1>6, <1>7

LEMMA HandleFields ==
    ASSUME NEW do, NEW n, NEW l
    PROVE  Handle(do, n, l).do = do /\ Handle(do, n, l).n = n /\ Handle(do, n, l).label = l
BY DEF Handle

\* The others have no business with the loop.
LEMMA HolderThen ==
    ASSUME TypeOK, LockInv, NEW t \in Threads, lock \in {t, Nobody},
           \A u \in Threads : u # t => pc'[u] = pc[u],
           Stage(t, asked[t].n, asked[t].label)', ~dropped',
           lock' = Nobody => Quiet'
    PROVE  OneActor'
<1>1. \A u \in Threads : u # t => pc'[u] \notin {"waits", "abandons", "closes", "joins"}
  BY ThreadsAssumption DEF LockInv
<1>2. \A u \in Threads : u # t => Stage(u, asked[u].n, asked[u].label)'
  BY <1>1 DEF Stage
<1> QED BY <1>2 DEF OneActor

LEMMA SessionsKeptThen ==
    ASSUME TypeOK, SessionsAreKept, UNCHANGED <<sessions, open, cut, parked, tidied>>,
           calls' \in {calls, calls + 1}, loop' = "none" => loop = "none"
    PROVE  SessionsAreKept'
<1>1. \A n \in tidied : n \in Nat BY DEF TypeOK, Ids
<1>2. calls \in Nat BY CallsAssumption DEF TypeOK
<1>3. \A n \in tidied' : n <= calls' BY <1>1, <1>2 DEF SessionsAreKept
<1>4. loop' = "none" => Clear' BY DEF SessionsAreKept, Clear, EmptyOutside
<1> QED BY <1>3, <1>4 DEF SessionsAreKept

\* A thread asks for the lock.
LEMMA AskSole ==
    ASSUME TypeOK, LockInv, Sole, ~scope.exits, NEW t \in Threads, NEW l \in Labels,
           NEW where \in {"asks", "to_close"}, Ask(t, l, where)
    PROVE  Sole'
<1>1. /\ ~dropped /\ dropped' = dropped /\ pc[t] = "idle" /\ pc'[t] = where
      /\ \A u \in Threads : u # t => pc'[u] = pc[u] /\ asked'[u] = asked[u]
      /\ UNCHANGED <<lock, ready, parked, sessions, open, cut, tidied, calls, loop, result>>
  BY DEF Ask, Goto, TypeOK, OnThreads
<1>2. \A u \in Threads : Stage(u, asked[u].n, asked[u].label)'
  <2>1. Stage(t, asked[t].n, asked[t].label)' BY <1>1 DEF Stage
  <2>2. ASSUME NEW u \in Threads, u # t PROVE Stage(u, asked[u].n, asked[u].label)'
    <3>1. Stage(u, asked[u].n, asked[u].label) BY DEF Sole, OneActor
    <3> QED BY <1>1, <2>2, <3>1 DEF Stage, Calling, Abandoning, Emptying, Quiet, Runs, Parks,
                                   Clear, EmptyOutside, Worker
  <2> QED BY <2>1, <2>2
<1>3. lock' = Nobody /\ ~dropped' => Quiet' BY <1>1 DEF Sole, OneActor, Quiet
<1>4. OneActor' BY <1>1, <1>2, <1>3 DEF OneActor
<1> QED BY <1>1, <1>4, SessionsKeptThen DEF Sole

\* One takes the lock, and finds the loop quiet.
LEMMA TakesSole ==
    ASSUME TypeOK, Counted, LockInv, PoolInv, Sole, NEW t \in Threads,
           Call(t) \/ StartFails(t) \/ Close(t)
    PROVE  Sole'
<1>1. /\ pc[t] \in {"asks", "to_close"} /\ lock = Nobody /\ dropped' = dropped
      /\ UNCHANGED <<sessions, open, cut, parked, tidied, result>>
  BY DEF Call, StartFails, Close, Takes, OnThreads
<1>2. ~dropped /\ Quiet
  BY <1>1 DEF Sole, OneActor
<1>3. CASE Close(t) /\ loop = "none"
  <2>1. /\ pc'[t] = "idle" /\ \A u \in Threads : u # t => pc'[u] = pc[u]
        /\ UNCHANGED <<calls, asked, lock, ready, loop>>
    BY <1>3 DEF Close, Goto, TypeOK
  <2>2. Stage(t, asked[t].n, asked[t].label)' BY <2>1 DEF Stage
  <2>3. Quiet' BY <1>1, <1>2, <2>1 DEF Quiet
  <2> QED BY <1>1, <1>2, <2>1, <2>2, <2>3, HolderThen, SessionsKeptThen DEF Sole
<1>4. CASE ~(Close(t) /\ loop = "none")
  <2>1. PICK do \in {"call", "discard", "close"}, where \in {"waits", "abandons", "closes"} :
          /\ Takes(t, do, where)
          /\ <<do, where>> \in {<<"call", "waits">>, <<"discard", "abandons">>, <<"close", "closes">>}
          /\ loop' = "none" => loop = "none"
    BY <1>4 DEF Call, StartFails, Close
  <2> PICK n, l : n = calls + 1 /\ l = asked[t].label
    OBVIOUS
  <2>2. /\ lock' = t /\ calls' = n /\ ready' = Append(ready, Handle(do, n, l))
        /\ pc'[t] = where /\ \A u \in Threads : u # t => pc'[u] = pc[u]
        /\ asked'[t].n = n /\ asked'[t].label = l /\ l \in Labels
    BY <2>1 DEF Takes, Goto, TypeOK
  <2>3. n \in Ids /\ calls \in Nat
    <3>1. t \in Asking BY <1>1 DEF Asking
    <3>2. calls < MaxCalls BY <3>1, AskingFits
    <3> QED BY <3>2, CallsAssumption DEF TypeOK, Ids
  <2>4. n \notin tidied
    <3>1. \A m \in tidied : m <= calls BY DEF Sole, SessionsAreKept
    <3> QED BY <2>3, <3>1
  <2>5. result'[n] = "pending"
    BY <1>1, <2>3 DEF PoolInv, CallsAreNew
  <2>6. ready' = <<Handle(do, n, l)>> /\ parked' = {}
    BY <1>1, <1>2, <2>2, Queues DEF Quiet
  <2>7. Stage(t, n, l)'
    BY <1>1, <2>1, <2>2, <2>4, <2>5, <2>6 DEF Stage, Calling, Abandoning, Emptying, Runs
  <2>8. Stage(t, asked[t].n, asked[t].label)'
    BY <2>2, <2>7 DEF Stage
  <2>9. lock' # Nobody BY <2>2, ThreadsAssumption
  <2>10. calls' = calls + 1 BY <2>2
  <2> QED BY <1>1, <1>2, <2>1, <2>2, <2>8, <2>9, <2>10, HolderThen, SessionsKeptThen DEF Sole
<1> QED BY <1>3, <1>4

\* The holder of the lock gives up, stops the loop, or leaves.
LEMMA HolderSole ==
    ASSUME TypeOK, LockInv, PoolInv, Sole, ~scope.interrupts, NEW t \in Threads,
           Returns(t) \/ GivesUp(t) \/ Abandoned(t) \/ Stops(t) \/ Joins(t)
    PROVE  Sole'
<1> PICK n, l : n = asked[t].n /\ l = asked[t].label
  OBVIOUS
<1>1. /\ pc[t] \in {"waits", "abandons", "closes", "joins"}
      /\ lock = t /\ lock # Nobody
      /\ UNCHANGED <<asked, calls, loop, sessions, open, cut, parked, tidied, dropped>>
  <2>1. /\ pc[t] \in {"waits", "abandons", "closes", "joins"}
        /\ UNCHANGED <<asked, calls, loop, sessions, open, cut, parked, tidied, dropped>>
    BY DEF Returns, GivesUp, Abandoned, Stops, Joins, OnThreads
  <2> QED BY <2>1, ThreadsAssumption DEF LockInv
<1>2. ~dropped /\ Stage(t, n, l)
  BY <1>1 DEF Sole, OneActor
<1>3. SessionsAreKept' BY <1>1, SessionsKeptThen DEF Sole
<1>4. CASE Returns(t) \/ Abandoned(t) \/ Joins(t)
  <2>1. /\ Release(t) /\ UNCHANGED <<ready, result>>
        /\ pc'[t] = "idle" /\ \A u \in Threads : u # t => pc'[u] = pc[u]
    BY <1>4 DEF Returns, Abandoned, Joins, Release, Goto, TypeOK
  <2>2. Quiet
    <3>1. CASE Returns(t)
      BY <1>2, <3>1 DEF Returns, Stage, Calling
    <3>2. CASE Abandoned(t)
      BY <1>2, <3>2 DEF Abandoned, Stage
    <3>3. CASE Joins(t)
      <4>1. pc[t] = "joins" /\ loop = "none" BY <3>3 DEF Joins
      <4>2. \A i \in DOMAIN ready : ~Queued(i, "stop")
        BY <1>2, <4>1 DEF PoolInv, StopsAreLast
      <4>3. ready # <<Handle("stop", n, l)>>
        <5>1. DOMAIN <<Handle("stop", n, l)>> = {1} /\ <<Handle("stop", n, l)>>[1].do = "stop"
          BY HandleFields
        <5> QED BY <4>2, <5>1 DEF Queued
      <4> QED BY <1>2, <4>1, <4>3 DEF Stage, Runs
    <3> QED BY <1>4, <3>1, <3>2, <3>3
  <2>3. Quiet' BY <1>1, <2>1, <2>2 DEF Quiet
  <2>4. Stage(t, asked[t].n, asked[t].label)' BY <2>1 DEF Stage
  <2> QED BY <1>1, <1>2, <1>3, <2>1, <2>3, <2>4, HolderThen DEF Sole
<1>5. CASE GivesUp(t)
  <2>1. /\ ready' = ready \o <<Handle("cancel", n, l), Handle("discard", n, l)>>
        /\ pc[t] = "waits" /\ pc'[t] = "abandons" /\ \A u \in Threads : u # t => pc'[u] = pc[u]
        /\ lock' = lock
    BY <1>5 DEF GivesUp, Abandon, Append2, Request, Goto, TypeOK
  <2>2. n \notin tidied /\ Calling(n, l) BY <1>2, <2>1 DEF Stage
  <2>3. Abandoning(n, l)'
    <3>1. CASE Quiet
      BY <1>1, <2>1, <3>1, Queues DEF Quiet, Abandoning
    <3>2. CASE Runs(<<Handle("call", n, l)>>)
      <4>1. ready' = <<Handle("call", n, l), Handle("cancel", n, l), Handle("discard", n, l)>>
        <5>1. PICK a, b, c : /\ a = Handle("call", n, l) /\ b = Handle("cancel", n, l)
                             /\ c = Handle("discard", n, l)
          OBVIOUS
        <5>2. ready = <<a>> /\ ready' = ready \o <<b, c>> BY <2>1, <3>2, <5>1 DEF Runs
        <5>3. <<a>> \o <<b, c>> = <<a, b, c>> BY JoinThree
        <5>4. ready' = <<a, b, c>> BY <5>2, <5>3, Zenon
        <5> QED BY <5>1, <5>4
      <4>2. parked' = {} BY <1>1, <3>2 DEF Runs
      <4> QED BY <4>1, <4>2 DEF Runs, Abandoning
    <3>3. ASSUME NEW p \in Tasks, Parks(p), Worker(p, n, l) PROVE Abandoning(n, l)'
      <4>1. /\ ready' = <<Handle("cancel", n, l), Handle("discard", n, l)>> /\ parked' = {p}
            /\ Worker(p, n, l)'
        BY <1>1, <2>1, <3>3, Queues DEF Parks, Worker
      <4> QED BY <4>1 DEF Abandoning
    <3> QED BY <2>2, <3>1, <3>2, <3>3 DEF Calling
  <2>4. asked'[t].n = n /\ asked'[t].label = l BY <1>1
  <2>5. Stage(t, asked[t].n, asked[t].label)'
    BY <1>1, <2>1, <2>2, <2>3, <2>4 DEF Stage, Abandoning, Runs, Parks, Worker
  <2> QED BY <1>1, <1>2, <1>3, <2>1, <2>5, HolderThen DEF Sole
<1>6. CASE Stops(t)
  <2>1. /\ n \in tidied /\ ready' = Append(ready, Handle("stop", n, l))
        /\ pc[t] = "closes" /\ pc'[t] = "joins" /\ \A u \in Threads : u # t => pc'[u] = pc[u]
        /\ lock' = lock
    BY <1>6 DEF Stops, Request, Goto, TypeOK
  <2>2. Quiet /\ Clear BY <1>2, <2>1 DEF Stage
  <2>3. ready' = <<Handle("stop", n, l)>> /\ parked' = {} /\ Clear'
    BY <1>1, <2>1, <2>2, Queues DEF Quiet, Clear, EmptyOutside
  <2>4. Stage(t, asked[t].n, asked[t].label)'
    BY <1>1, <2>1, <2>3 DEF Stage, Runs
  <2> QED BY <1>1, <1>2, <1>3, <2>1, <2>4, HolderThen DEF Sole
<1> QED BY <1>4, <1>5, <1>6

\* Who has business with the loop.
LEMMA ActorIs ==
    ASSUME TypeOK, LockInv, Sole, ~Quiet
    PROVE  \/ \E t \in Threads :
                /\ lock = t /\ lock # Nobody /\ ~dropped
                /\ pc[t] \in {"waits", "abandons", "closes", "joins"}
                /\ asked[t].n \in Ids /\ asked[t].n = calls /\ asked[t].label \in Labels
                /\ Stage(t, asked[t].n, asked[t].label)
           \/ /\ dropped /\ \A t \in Threads : pc[t] = "idle"
              /\ \E n \in Ids : n <= calls /\ Emptying("shut", "shutting", n)
<1>1. CASE dropped
  BY <1>1 DEF Sole, OneActor
<1>2. CASE ~dropped
  <2>1. lock # Nobody BY <1>2 DEF Sole, OneActor
  <2>2. PICK t \in Threads : lock = t BY <2>1 DEF TypeOK
  <2>3. pc[t] \in {"waits", "abandons", "closes", "joins"} BY <2>2 DEF LockInv
  <2>4. asked[t].n \in Ids /\ asked[t].n = calls /\ asked[t].label \in Labels
    BY <2>3, RequestType
  <2> QED BY <1>2, <2>1, <2>2, <2>3, <2>4 DEF Sole, OneActor
<1> QED BY <1>1, <1>2

\* A step of the loop on behalf of the holder, and of the finalizer.
LEMMA HoldsThen ==
    ASSUME TypeOK, LockInv, NEW t \in Threads, lock = t, lock # Nobody, ~dropped,
           UNCHANGED OnLoop, UNCHANGED dropped, NEW n, NEW l,
           asked[t].n = n, asked[t].label = l, Stage(t, n, l)'
    PROVE  OneActor'
<1>1. asked'[t].n = n /\ asked'[t].label = l /\ pc' = pc /\ lock' = lock BY DEF OnLoop
<1>2. Stage(t, asked[t].n, asked[t].label)'
  BY <1>1 DEF Stage, Calling, Abandoning, Emptying, Runs, Parks, Worker
<1> QED BY <1>1, <1>2, HolderThen

LEMMA DroppedThen ==
    ASSUME dropped, UNCHANGED OnLoop, UNCHANGED dropped, \A t \in Threads : pc[t] = "idle",
           NEW n \in Ids, n <= calls,
           Emptying("shut", "shutting", n)' \/ (Quiet' /\ loop' = "none")
    PROVE  OneActor'
<1>1. /\ dropped' /\ \A t \in Threads : pc'[t] = "idle"
      /\ calls' = calls
  BY DEF OnLoop
<1>2. \A t \in Threads : Stage(t, asked[t].n, asked[t].label)' BY <1>1 DEF Stage
<1> QED BY <1>1, <1>2 DEF OneActor

\* While the loop works for a call, brain holds what the pool stores.
LEMMA StoredThen ==
    ASSUME SessionsAreKept, UNCHANGED <<sessions, open, cut, tidied, calls, loop>>,
           \A p \in parked : p.kind \notin {"discarding", "closing", "shutting"}
    PROVE  SessionsAreKept'
<1>1. \A s \in open' : \E l \in Labels : sessions'[l] = s BY DEF SessionsAreKept
<1>2. loop' = "none" => Clear' BY DEF SessionsAreKept, Clear, EmptyOutside
<1> QED BY <1>1, <1>2 DEF SessionsAreKept

\* The next session of those a close or a shutdown empties the pool of.
LEMMA NextEmptied ==
    ASSUME TypeOK, TypeOK', SessionsAreKept, loop = "running",
           NEW kind \in {"closing", "shutting"}, NEW do, NEW n \in Ids, n <= calls,
           calls' = calls, NEW rest \in SUBSET Labels, EmptyOutside(rest),
           CloseNext(kind, n, rest, {}), ready' = <<>>,
           \A s \in open' : \E l \in Labels : sessions[l] = s
    PROVE  /\ SessionsAreKept'
           /\ \/ tidied' = tidied /\ Emptying(do, kind, n)' /\ rest # {}
              \/ /\ n \in tidied' /\ Quiet' /\ Clear' /\ rest = {}
                 /\ kind = "shutting" => loop' = "none"
<1>1. cut = {} /\ \A m \in tidied : m <= calls BY DEF SessionsAreKept
<1>2. CASE rest = {}
  <2>1. /\ tidied' = tidied \cup {n} /\ sessions' = sessions /\ parked' = {}
        /\ IF kind = "shutting" THEN loop' = "none" /\ cut' = open' ELSE UNCHANGED <<loop, cut>>
    BY <1>2 DEF CloseNext, Ends
  <2>2. \A l \in Labels : sessions[l] = 0 BY <1>2 DEF EmptyOutside
  <2>3. open' = {} BY <2>2 DEF TypeOK, Ids
  <2>4. Quiet' /\ Clear' BY <2>1, <2>2, <2>3 DEF Quiet, Clear, EmptyOutside
  <2>5. SessionsAreKept' BY <1>1, <2>1, <2>3, <2>4 DEF SessionsAreKept
  <2> QED BY <1>2, <2>1, <2>4, <2>5
<1>3. CASE rest # {}
  <2>1. PICK l \in rest : /\ sessions' = [sessions EXCEPT ![l] = 0]
                          /\ parked' = {Task(kind, n, l, sessions[l], rest \ {l})}
                          /\ UNCHANGED <<tidied, loop, cut>>
    BY <1>3 DEF CloseNext
  <2>2. PICK p : p = Task(kind, n, l, sessions[l], rest \ {l}) OBVIOUS
  <2>3. /\ parked' = {p} /\ p \in Tasks
        /\ p.kind = kind /\ p.n = n /\ p.session = sessions[l] /\ p.rest = rest \ {l}
    BY <2>1, <2>2 DEF Task, TypeOK
  <2>4. /\ l \in Labels /\ sessions'[l] = 0
        /\ \A k \in Labels : k # l => sessions'[k] = sessions[k]
    BY <2>1 DEF TypeOK
  <2>5. EmptyOutside(rest \ {l})' BY <2>4 DEF EmptyOutside
  <2>6. Emptying(do, kind, n)' BY <2>3, <2>5 DEF Emptying, Parks, EmptyOutside
  <2>7. \A s \in open' : \/ \E k \in Labels : sessions'[k] = s
                         \/ p.session = s
    BY <2>3, <2>4
  <2>8. loop' # "none" BY <2>1
  <2>9. SessionsAreKept' BY <1>1, <2>1, <2>3, <2>7, <2>8 DEF SessionsAreKept
  <2> QED BY <1>3, <2>1, <2>6, <2>9
<1> QED BY <1>2, <1>3

\* The loop runs the only handle it was given, or the first of those of a call.
LEMMA StartCallSole ==
    ASSUME TypeOK, TypeOK', NEW n, NEW l, NEW h, h = Handle("call", n, l), parked = {},
           StartCall(h)
    PROVE  \E p \in Tasks : parked' = {p} /\ Worker(p, n, l)'
<1>1. h.label = l /\ h.n = n BY HandleFields
<1>2. PICK p : /\ parked' = {p} /\ p.kind \in {"opening", "calling"} /\ p.n = n /\ p.label = l
               /\ p.kind = "opening" => sessions[l] = 0
  <2>1. CASE sessions[l] = 0
    <3>1. parked' = {Task("opening", n, l, n, {})} BY <1>1, <2>1 DEF StartCall, Park
    <3> QED BY <2>1, <3>1 DEF Task
  <2>2. CASE sessions[l] # 0
    <3>1. PICK p : p = Task("calling", n, l, sessions[l], {}) OBVIOUS
    <3>2. parked' = {p} BY <1>1, <2>2, <3>1 DEF StartCall, Park
    <3>3. p.kind = "calling" /\ p.n = n /\ p.label = l BY <3>1 DEF Task
    <3> QED BY <3>2, <3>3
  <2> QED BY <2>1, <2>2
<1>3. p \in Tasks /\ sessions' = sessions BY <1>2 DEF TypeOK, StartCall
<1> QED BY <1>2, <1>3 DEF Worker

\* The session of a call is dropped from the pool, and its close begins.
LEMMA DiscardSole ==
    ASSUME TypeOK, TypeOK', SessionsAreKept, NEW n \in Ids, n <= calls, NEW l \in Labels,
           NEW h, h = Handle("discard", n, l), n \notin tidied, parked = {}, ready' = <<>>,
           calls' = calls,
           Discard(h)
    PROVE  /\ SessionsAreKept'
           /\ IF n \in tidied' THEN Quiet' ELSE Abandoning(n, l)'
<1>1. h.label = l /\ h.n = n BY HandleFields
<1>2. /\ sessions' = [sessions EXCEPT ![l] = 0] /\ UNCHANGED <<loop, used, open, cut, dropped>>
      /\ sessions[l] = 0 => tidied' = tidied \cup {n} /\ parked' = {}
      /\ sessions[l] # 0 => /\ tidied' = tidied
                            /\ parked' = {Task("discarding", n, l, sessions[l], {})}
  BY <1>1 DEF Discard, Park
<1>3. sessions'[l] = 0 /\ \A k \in Labels : k # l => sessions'[k] = sessions[k]
  BY <1>2 DEF TypeOK
<1>4. loop' = "none" => Clear' BY <1>2, <1>3 DEF SessionsAreKept, Clear, EmptyOutside
<1>5. cut' = {} /\ \A m \in tidied' : m <= calls' BY <1>2 DEF SessionsAreKept
<1>6. CASE sessions[l] = 0
  <2>1. \A s \in open' : \E k \in Labels : sessions'[k] = s
    BY <1>2, <1>3, <1>6 DEF SessionsAreKept
  <2>2. n \in tidied' /\ Quiet' BY <1>2, <1>6 DEF Quiet
  <2> QED BY <1>4, <1>5, <2>1, <2>2 DEF SessionsAreKept
<1>7. CASE sessions[l] # 0
  <2>1. PICK p : p = Task("discarding", n, l, sessions[l], {}) OBVIOUS
  <2>2. /\ parked' = {p} /\ p \in Tasks /\ p.kind = "discarding" /\ p.n = n /\ p.rest = {}
        /\ p.session = sessions[l]
    BY <1>2, <1>7, <2>1 DEF Task, TypeOK
  <2>3. \A s \in open' : (\E k \in Labels : sessions'[k] = s) \/ p.session = s
    BY <1>2, <1>3, <2>2 DEF SessionsAreKept
  <2>4. SessionsAreKept' BY <1>4, <1>5, <2>2, <2>3 DEF SessionsAreKept
  <2>5. Abandoning(n, l)' BY <2>2 DEF Abandoning, Parks
  <2>6. n \notin tidied' BY <1>2, <1>7
  <2> QED BY <2>4, <2>5, <2>6
<1> QED BY <1>6, <1>7

\* The loop has one handle, or several: it runs the first.
LEMMA FirstRuns ==
    ASSUME RunHandle, NEW h, NEW q, Head(ready) = h, Tail(ready) = q
    PROVE  /\ loop = "running" /\ UNCHANGED OnLoop /\ result' = result
           /\ ready' = IF loop' = "none" THEN <<>> ELSE q
           /\ h.do = "call" => StartCall(h)
           /\ h.do = "cancel" => Cancel(h)
           /\ h.do = "discard" => Discard(h)
           /\ h.do \in {"close", "shut"} => CloseSessions(h)
           /\ h.do = "stop" => Stop(h)
<1>1. /\ StartCall(h) \/ Cancel(h) \/ Discard(h) \/ CloseSessions(h) \/ Stop(h)
      /\ loop = "running" /\ UNCHANGED OnLoop /\ result' = result
      /\ ready' = IF loop' = "none" THEN <<>> ELSE q
  BY DEF RunHandle
<1>2. /\ StartCall(h) => h.do = "call"
      /\ Cancel(h) => h.do = "cancel"
      /\ Discard(h) => h.do = "discard"
      /\ CloseSessions(h) => h.do \in {"close", "shut"}
      /\ Stop(h) => h.do = "stop"
  BY DEF StartCall, Cancel, Discard, CloseSessions, Stop
<1> QED BY <1>1, <1>2

\* The loop works for a call whose caller waits.
LEMMA CallRuns ==
    ASSUME TypeOK, TypeOK', Sole, RunHandle, NEW n \in Ids, NEW l \in Labels,
           n \notin tidied, Calling(n, l)
    PROVE  SessionsAreKept' /\ n \notin tidied' /\ Calling(n, l)' /\ dropped' = dropped
<1> PICK h : h = Handle("call", n, l)
  OBVIOUS
<1>1. ready = <<h>> /\ parked = {} /\ result[n] = "pending"
  BY DEF RunHandle, Calling, Quiet, Runs, Parks
<1>2. h.do = "call" BY HandleFields
<1>3. Head(ready) = h /\ Tail(ready) = <<>> BY <1>1, Queues
<1>4. /\ StartCall(h) /\ loop = "running" /\ UNCHANGED OnLoop /\ result' = result
      /\ ready' = IF loop' = "none" THEN <<>> ELSE <<>>
  BY <1>2, <1>3, FirstRuns
<1>5. UNCHANGED <<loop, sessions, tidied, open, cut, dropped, calls>> /\ ready' = <<>>
  BY <1>4 DEF StartCall, OnLoop
<1>6. PICK p \in Tasks : parked' = {p} /\ Worker(p, n, l)' BY <1>1, <1>4, StartCallSole
<1>7. Calling(n, l)' BY <1>1, <1>4, <1>5, <1>6 DEF Calling, Parks, Worker
<1>8. SessionsAreKept' BY <1>1, <1>5, StoredThen DEF Sole
<1> QED BY <1>5, <1>7, <1>8

\* The loop works for a call whose caller has given up.
LEMMA AbandonRuns ==
    ASSUME TypeOK, TypeOK', Sole, RunHandle, NEW n \in Ids, n <= calls, NEW l \in Labels,
           n \notin tidied, Abandoning(n, l)
    PROVE  /\ SessionsAreKept' /\ dropped' = dropped
           /\ IF n \in tidied' THEN Quiet' ELSE Abandoning(n, l)'
<1> PICK g, h, k : /\ g = Handle("call", n, l) /\ h = Handle("cancel", n, l)
                   /\ k = Handle("discard", n, l)
  OBVIOUS
<1>1. g.do = "call" /\ h.do = "cancel" /\ k.do = "discard" /\ h.n = n BY HandleFields
<1>2. ready # <<>> BY DEF RunHandle
<1>3. CASE Runs(<<g, h, k>>)
  <2>1. Head(ready) = g /\ Tail(ready) = <<h, k>> /\ parked = {} BY <1>3, Queues DEF Runs
  <2>2. /\ StartCall(g) /\ loop = "running" /\ UNCHANGED OnLoop
        /\ ready' = IF loop' = "none" THEN <<>> ELSE <<h, k>>
    BY <1>1, <2>1, FirstRuns
  <2>3. UNCHANGED <<loop, sessions, tidied, open, cut, dropped, calls>> /\ ready' = <<h, k>>
    BY <2>2 DEF StartCall, OnLoop
  <2>4. PICK p \in Tasks : parked' = {p} /\ Worker(p, n, l)' BY <2>1, <2>2, StartCallSole
  <2>5. Abandoning(n, l)' BY <2>3, <2>4 DEF Abandoning, Worker
  <2>6. SessionsAreKept' BY <2>1, <2>3, StoredThen DEF Sole
  <2> QED BY <2>3, <2>5, <2>6
<1>4. ASSUME ready = <<h, k>>, parked = {} \/ \E p \in Tasks : parked = {p} /\ Worker(p, n, l)
      PROVE  /\ SessionsAreKept' /\ dropped' = dropped
             /\ IF n \in tidied' THEN Quiet' ELSE Abandoning(n, l)'
  <2>1. Head(ready) = h /\ Tail(ready) = <<k>> BY <1>4, Queues
  <2>2. /\ Cancel(h) /\ loop = "running" /\ UNCHANGED OnLoop
        /\ ready' = IF loop' = "none" THEN <<>> ELSE <<k>>
    BY <1>1, <2>1, FirstRuns
  <2>3. UNCHANGED <<loop, sessions, tidied, open, cut, dropped, calls>> /\ ready' = <<k>>
    BY <2>2 DEF Cancel, OnLoop
  <2>4. \A p \in parked : p.n = n /\ p.kind \in {"opening", "calling"} BY <1>4 DEF Worker
  <2>5. parked' = {} BY <1>1, <2>2, <2>4 DEF Cancel
  <2>6. Runs(<<k>>)' BY <2>3, <2>5 DEF Runs
  <2>7. Abandoning(n, l)' BY <2>3, <2>5 DEF Abandoning, Runs
  <2>8. SessionsAreKept'
    <3>1. \A s \in open : \E m \in Labels : sessions[m] = s
      BY <2>4 DEF Sole, SessionsAreKept
    <3>2. loop' # "none" BY <2>2, <2>3
    <3> QED BY <2>3, <3>1, <3>2 DEF Sole, SessionsAreKept
  <2> QED BY <2>3, <2>7, <2>8
<1>5. CASE Runs(<<k>>)
  <2>1. Head(ready) = k /\ Tail(ready) = <<>> /\ parked = {} BY <1>5, Queues DEF Runs
  <2>2. /\ Discard(k) /\ loop = "running" /\ UNCHANGED OnLoop
        /\ ready' = IF loop' = "none" THEN <<>> ELSE <<>>
    BY <1>1, <2>1, FirstRuns
  <2>3. ready' = <<>> /\ calls' = calls /\ dropped' = dropped BY <2>2 DEF OnLoop, Discard
  <2> QED BY <2>1, <2>2, <2>3, DiscardSole DEF Sole
<1>6. ~\E p \in Tasks : Parks(p) /\ p.kind = "discarding" /\ p.n = n /\ p.rest = {}
  BY <1>2 DEF Parks
<1> QED BY <1>3, <1>4, <1>5, <1>6 DEF Abandoning

\* The loop begins to close the sessions, for a close or for the finalizer.
LEMMA EmptyingRuns ==
    ASSUME TypeOK, TypeOK', Sole, RunHandle, NEW n \in Ids, n <= calls, NEW do, NEW kind,
           <<do, kind>> \in {<<"close", "closing">>, <<"shut", "shutting">>},
           Emptying(do, kind, n)
    PROVE  /\ SessionsAreKept' /\ dropped' = dropped
           /\ \/ tidied' = tidied /\ Emptying(do, kind, n)'
              \/ /\ n \in tidied' /\ Quiet' /\ Clear'
                 /\ kind = "shutting" => loop' = "none"
<1>1. PICK l \in Labels : Runs(<<Handle(do, n, l)>>)
  BY DEF RunHandle, Emptying, Parks
<1> PICK h : h = Handle(do, n, l)
  OBVIOUS
<1>2. h.do = do /\ h.n = n BY HandleFields
<1>3. Head(ready) = h /\ Tail(ready) = <<>> /\ parked = {} BY <1>1, Queues DEF Runs
<1>4. /\ CloseSessions(h) /\ loop = "running" /\ UNCHANGED OnLoop
      /\ ready' = IF loop' = "none" THEN <<>> ELSE <<>>
  BY <1>2, <1>3, FirstRuns
<1>5. PICK rest : rest = {m \in Labels : sessions[m] # 0} OBVIOUS
<1>6. /\ CloseNext(kind, n, rest, {}) /\ open' = open /\ dropped' = dropped /\ ready' = <<>>
      /\ calls' = calls
  BY <1>2, <1>3, <1>4, <1>5 DEF CloseSessions, OnLoop
<1>7. rest \in SUBSET Labels /\ EmptyOutside(rest) BY <1>5 DEF EmptyOutside
<1>8. \A s \in open' : \E m \in Labels : sessions[m] = s
  BY <1>3, <1>6 DEF Sole, SessionsAreKept
<1>9. kind \in {"closing", "shutting"} OBVIOUS
<1>10. SessionsAreKept BY DEF Sole
<1>11. /\ SessionsAreKept'
       /\ \/ tidied' = tidied /\ Emptying(do, kind, n)'
          \/ /\ n \in tidied' /\ Quiet' /\ Clear'
             /\ kind = "shutting" => loop' = "none"
  BY <1>4, <1>6, <1>7, <1>8, <1>9, <1>10, NextEmptied
<1> QED BY <1>6, <1>11

\* The loop stops: nothing is left of it.
LEMMA StopRuns ==
    ASSUME TypeOK, Sole, RunHandle, NEW n, NEW l, Clear, Runs(<<Handle("stop", n, l)>>)
    PROVE  SessionsAreKept' /\ dropped' = dropped /\ Clear' /\ Quiet' /\ loop' = "none"
<1> PICK h : h = Handle("stop", n, l)
  OBVIOUS
<1>1. h.do = "stop" BY HandleFields
<1>2. Head(ready) = h /\ Tail(ready) = <<>> BY Queues DEF Runs
<1>3. /\ Stop(h) /\ UNCHANGED OnLoop
      /\ ready' = IF loop' = "none" THEN <<>> ELSE <<>>
  BY <1>1, <1>2, FirstRuns
<1>4. /\ loop' = "none" /\ parked' = {} /\ cut' = open' /\ ready' = <<>>
      /\ UNCHANGED <<sessions, tidied, open, dropped, calls>>
  BY <1>3 DEF Stop, Ends, OnLoop
<1>5. Clear' /\ Quiet' BY <1>4 DEF Clear, EmptyOutside, Quiet
<1> QED BY <1>4, <1>5 DEF Sole, SessionsAreKept, Clear

LEMMA RunHandleSole ==
    ASSUME TypeOK, TypeOK', LockInv, PoolInv, Sole, RunHandle
    PROVE  Sole'
<1>1. ~Quiet /\ UNCHANGED OnLoop /\ calls' = calls BY DEF RunHandle, Quiet, OnLoop
<1>2. ASSUME NEW t \in Threads, NEW n \in Ids, NEW l \in Labels,
             lock = t, lock # Nobody, ~dropped, asked[t].n = n, asked[t].label = l, n = calls,
             pc[t] \in {"waits", "abandons", "closes", "joins"}, Stage(t, n, l)
      PROVE  Sole'
  <2>1. pc' = pc /\ n <= calls
    <3>1. calls \in Nat BY <1>2 DEF Ids
    <3> QED BY <1>1, <1>2, <3>1 DEF OnLoop
  <2>2. ASSUME Stage(t, n, l)', SessionsAreKept', dropped' = dropped PROVE Sole'
    BY <1>1, <1>2, <2>2, HoldsThen DEF Sole
  <2>3. CASE pc[t] = "waits"
    <3>1. n \notin tidied /\ Calling(n, l) BY <1>2, <2>3 DEF Stage
    <3>2. SessionsAreKept' /\ n \notin tidied' /\ Calling(n, l)' /\ dropped' = dropped
      BY <3>1, CallRuns
    <3>3. Stage(t, n, l)' BY <2>1, <2>3, <3>2 DEF Stage, Calling, Runs, Quiet, Parks, Worker
    <3> QED BY <2>2, <3>2, <3>3
  <2>4. CASE pc[t] = "abandons"
    <3>1. n \notin tidied /\ Abandoning(n, l) BY <1>1, <1>2, <2>4 DEF Stage
    <3>2. /\ SessionsAreKept' /\ dropped' = dropped
          /\ IF n \in tidied' THEN Quiet' ELSE Abandoning(n, l)'
      BY <2>1, <3>1, AbandonRuns
    <3>3. Stage(t, n, l)' BY <2>1, <2>4, <3>2 DEF Stage, Abandoning, Runs, Quiet, Parks, Worker
    <3> QED BY <2>2, <3>2, <3>3
  <2>5. CASE pc[t] = "closes"
    <3>1. n \notin tidied /\ Emptying("close", "closing", n) BY <1>1, <1>2, <2>5 DEF Stage
    <3>2. /\ SessionsAreKept' /\ dropped' = dropped
          /\ \/ tidied' = tidied /\ Emptying("close", "closing", n)'
             \/ n \in tidied' /\ Quiet' /\ Clear'
      BY <2>1, <3>1, EmptyingRuns
    <3>3. Stage(t, n, l)'
      BY <2>1, <2>5, <3>1, <3>2 DEF Stage, Emptying, Runs, Quiet, Parks, Clear, EmptyOutside
    <3> QED BY <2>2, <3>2, <3>3
  <2>6. CASE pc[t] = "joins"
    <3>1. Clear /\ Runs(<<Handle("stop", n, l)>>) BY <1>1, <1>2, <2>6 DEF Stage
    <3>2. SessionsAreKept' /\ dropped' = dropped /\ Clear' /\ Quiet' /\ loop' = "none"
      BY <3>1, StopRuns
    <3>3. Stage(t, n, l)' BY <2>1, <2>6, <3>2 DEF Stage, Quiet, Clear, EmptyOutside
    <3> QED BY <2>2, <3>2, <3>3
  <2> QED BY <1>2, <2>3, <2>4, <2>5, <2>6
<1>3. ASSUME dropped, \A t \in Threads : pc[t] = "idle", NEW n \in Ids, n <= calls,
             Emptying("shut", "shutting", n)
      PROVE  Sole'
  <2>1. /\ SessionsAreKept' /\ dropped' = dropped
        /\ Emptying("shut", "shutting", n)' \/ (Quiet' /\ loop' = "none")
    <3>1. PICK do, kind : do = "shut" /\ kind = "shutting" OBVIOUS
    <3>2. /\ <<do, kind>> \in {<<"close", "closing">>, <<"shut", "shutting">>}
          /\ Emptying(do, kind, n) /\ n <= calls
      BY <1>3, <3>1
    <3>3. /\ SessionsAreKept' /\ dropped' = dropped
          /\ \/ tidied' = tidied /\ Emptying(do, kind, n)'
             \/ /\ n \in tidied' /\ Quiet' /\ Clear'
                /\ kind = "shutting" => loop' = "none"
      BY <3>2, EmptyingRuns
    <3>4. Emptying(do, kind, n)' => Emptying("shut", "shutting", n)'
      BY <3>1 DEF Emptying, Runs, Parks, EmptyOutside
    <3> QED BY <3>1, <3>3, <3>4
  <2> QED BY <1>1, <1>3, <2>1, DroppedThen DEF Sole
<1> QED BY <1>1, <1>2, <1>3, ActorIs

\* A session is closed.
LEMMA ClosedSole ==
    ASSUME TypeOK, TypeOK', LockInv, PoolInv, Sole, NEW p \in parked, Closed(p)
    PROVE  Sole'
<1>1. /\ ~Quiet /\ UNCHANGED OnLoop /\ calls' = calls /\ loop = "running" /\ p \in Tasks
      /\ dropped' = dropped
  BY DEF Quiet, Closed, OnLoop, PoolInv, StopsAreLast, TypeOK
<1>2. /\ cut = {} /\ open' = open \ {p.session}
      /\ CloseNext(p.kind, p.n, p.rest, parked \ {p})
      /\ ready' = IF loop' = "none" THEN <<>> ELSE ready
      /\ p.kind \in {"discarding", "closing", "shutting"}
  BY DEF Closed, Sole, SessionsAreKept
<1>3. ASSUME parked = {p} PROVE \A s \in open' : \E l \in Labels : sessions[l] = s
  BY <1>2, <1>3 DEF Sole, SessionsAreKept
<1>4. ASSUME NEW n \in Ids, n <= calls, NEW do, NEW kind,
             <<do, kind>> \in {<<"close", "closing">>, <<"shut", "shutting">>},
             Emptying(do, kind, n)
      PROVE  /\ SessionsAreKept'
             /\ \/ tidied' = tidied /\ Emptying(do, kind, n)'
                \/ /\ n \in tidied' /\ Quiet' /\ Clear'
                   /\ kind = "shutting" => loop' = "none"
  <2>1. Parks(p) /\ p.kind = kind /\ p.n = n /\ EmptyOutside(p.rest)
    BY <1>4 DEF Emptying, Runs, Parks
  <2>2. ready' = <<>> /\ parked \ {p} = {} /\ CloseNext(kind, n, p.rest, {})
    BY <1>2, <2>1 DEF Parks
  <2>3. \A s \in open' : \E l \in Labels : sessions[l] = s BY <1>3, <2>1 DEF Parks
  <2>4. p.rest \in SUBSET Labels /\ kind \in {"closing", "shutting"}
    BY <1>1, <1>4 DEF Tasks
  <2>5. SessionsAreKept BY DEF Sole
  <2> QED BY <1>1, <1>4, <2>1, <2>2, <2>3, <2>4, <2>5, NextEmptied
<1>5. ASSUME NEW t \in Threads, NEW n \in Ids, NEW l \in Labels,
             lock = t, lock # Nobody, ~dropped, asked[t].n = n, asked[t].label = l, n = calls,
             pc[t] \in {"waits", "abandons", "closes", "joins"}, Stage(t, n, l)
      PROVE  Sole'
  <2>1. pc' = pc /\ n <= calls
    <3>1. calls \in Nat BY <1>5 DEF Ids
    <3> QED BY <1>1, <1>5, <3>1 DEF OnLoop
  <2>2. ASSUME Stage(t, n, l)', SessionsAreKept' PROVE Sole'
    BY <1>1, <1>5, <2>2, HoldsThen DEF Sole
  <2>3. pc[t] # "waits"
    BY <1>1, <1>2, <1>5 DEF Stage, Calling, Runs, Parks, Worker
  <2>4. CASE pc[t] = "abandons"
    <3>1. Abandoning(n, l) BY <1>1, <1>5, <2>4 DEF Stage
    <3>2. ready = <<>> /\ parked = {p} /\ p.kind = "discarding" /\ p.n = n /\ p.rest = {}
      BY <1>2, <3>1 DEF Abandoning, Runs, Parks, Worker
    <3>3. /\ tidied' = tidied \cup {n} /\ parked' = {} /\ UNCHANGED <<loop, cut, sessions>>
          /\ ready' = <<>>
      BY <1>2, <3>2 DEF CloseNext
    <3>4. Quiet' /\ n \in tidied' BY <3>3 DEF Quiet
    <3>5. loop' # "none" BY <1>1, <3>3
    <3>6. SessionsAreKept'
      BY <1>1, <1>2, <1>3, <2>1, <3>2, <3>3, <3>5 DEF Sole, SessionsAreKept
    <3>7. Stage(t, n, l)' BY <2>1, <2>4, <3>4 DEF Stage
    <3> QED BY <2>2, <3>6, <3>7
  <2>5. CASE pc[t] = "closes"
    <3>1. n \notin tidied /\ Emptying("close", "closing", n) BY <1>1, <1>5, <2>5 DEF Stage
    <3>2. /\ SessionsAreKept'
          /\ \/ tidied' = tidied /\ Emptying("close", "closing", n)'
             \/ n \in tidied' /\ Quiet' /\ Clear'
      BY <1>4, <2>1, <3>1
    <3>3. Stage(t, n, l)'
      BY <2>1, <2>5, <3>1, <3>2 DEF Stage, Emptying, Runs, Quiet, Parks, Clear, EmptyOutside
    <3> QED BY <2>2, <3>2, <3>3
  <2>6. pc[t] # "joins" BY <1>1, <1>5 DEF Stage, Runs
  <2> QED BY <1>5, <2>3, <2>4, <2>5, <2>6
<1>6. ASSUME dropped, \A t \in Threads : pc[t] = "idle", NEW n \in Ids, n <= calls,
             Emptying("shut", "shutting", n)
      PROVE  Sole'
  <2>1. /\ SessionsAreKept'
        /\ Emptying("shut", "shutting", n)' \/ (Quiet' /\ loop' = "none")
    BY <1>4, <1>6
  <2> QED BY <1>1, <1>6, <2>1, DroppedThen DEF Sole
<1> QED BY <1>1, <1>5, <1>6, ActorIs

\* A session is open and the call goes out on it, or brain answers.
LEMMA BrainSole ==
    ASSUME TypeOK, TypeOK', LockInv, PoolInv, Sole, NEW p \in parked, Opened(p) \/ Answers(p)
    PROVE  Sole'
<1>1. /\ ~Quiet /\ UNCHANGED OnLoop /\ calls' = calls /\ loop = "running" /\ p \in Tasks
      /\ p.kind \in {"opening", "calling"}
      /\ UNCHANGED <<loop, ready, tidied, cut, dropped>>
  BY DEF Quiet, Opened, Answers, OnLoop, PoolInv, StopsAreLast, TypeOK
<1>2. ASSUME parked = {p}, NEW n, NEW l, l \in Labels, Worker(p, n, l)
      PROVE  /\ SessionsAreKept'
             /\ parked' = {} \/ /\ result' = result
                                /\ \E q \in Tasks : parked' = {q} /\ Worker(q, n, l)'
  <2>1. \A s \in open : \E k \in Labels : sessions[k] = s
    BY <1>1, <1>2 DEF Sole, SessionsAreKept
  <2>2. loop' # "none" /\ cut' = {} /\ \A m \in tidied' : m <= calls'
    BY <1>1 DEF Sole, SessionsAreKept
  <2>3. CASE Answers(p)
    <3>1. parked' = {} /\ UNCHANGED <<sessions, open>> BY <1>2, <2>3 DEF Answers
    <3> QED BY <2>1, <2>2, <3>1 DEF SessionsAreKept
  <2>4. CASE Opened(p)
    <3>1. PICK q : q = [p EXCEPT !.kind = "calling"] OBVIOUS
    <3>2. /\ q \in Tasks /\ q.kind = "calling" /\ q.n = n /\ q.label = l
      BY <1>1, <1>2, <3>1 DEF Tasks, Worker
    <3>3. /\ parked' = {q} /\ result' = result /\ open' = open \cup {p.session}
          /\ p.label = l /\ sessions[l] = 0
      BY <1>2, <2>4, <3>1 DEF Opened, Worker
    <3>4. sessions'[l] = p.session /\ \A k \in Labels : k # l => sessions'[k] = sessions[k]
      BY <1>2, <2>4, <3>3 DEF Opened, TypeOK
    <3>5. \A s \in open : s # 0 BY DEF TypeOK, Ids
    <3>6. \A s \in open' : \E k \in Labels : sessions'[k] = s
      BY <1>2, <2>1, <3>3, <3>4, <3>5
    <3> QED BY <2>2, <3>2, <3>3, <3>6 DEF SessionsAreKept, Worker
  <2> QED BY <2>3, <2>4
<1>3. ASSUME NEW t \in Threads, NEW n \in Ids, NEW l \in Labels,
             lock = t, lock # Nobody, ~dropped, asked[t].n = n, asked[t].label = l,
             pc[t] \in {"waits", "abandons", "closes", "joins"}, Stage(t, n, l)
      PROVE  Sole'
  <2>1. pc' = pc BY <1>1 DEF OnLoop
  <2>2. ASSUME Stage(t, n, l)', SessionsAreKept' PROVE Sole'
    BY <1>1, <1>3, <2>2, HoldsThen DEF Sole
  <2>3. CASE pc[t] = "waits"
    <3>1. n \notin tidied /\ Calling(n, l) BY <1>3, <2>3 DEF Stage
    <3>2. result[n] = "pending" /\ ready = <<>> /\ parked = {p} /\ Worker(p, n, l)
      BY <1>1, <3>1 DEF Calling, Runs, Parks
    <3>3. /\ SessionsAreKept'
          /\ parked' = {} \/ /\ result' = result
                             /\ \E q \in Tasks : parked' = {q} /\ Worker(q, n, l)'
      BY <1>2, <3>2
    <3>4. Calling(n, l)' BY <1>1, <3>2, <3>3 DEF Calling, Quiet, Parks, Worker
    <3>5. Stage(t, n, l)'
      BY <1>1, <2>1, <2>3, <3>1, <3>4 DEF Stage, Calling, Runs, Quiet, Parks, Worker
    <3> QED BY <2>2, <3>3, <3>5
  <2>4. CASE pc[t] = "abandons"
    <3>1. n \notin tidied /\ Abandoning(n, l) BY <1>1, <1>3, <2>4 DEF Stage
    <3>2. /\ ready = <<Handle("cancel", n, l), Handle("discard", n, l)>>
          /\ parked = {p} /\ Worker(p, n, l)
      BY <1>1, <3>1 DEF Abandoning, Runs, Parks
    <3>3. /\ SessionsAreKept'
          /\ parked' = {} \/ \E q \in Tasks : parked' = {q} /\ Worker(q, n, l)'
      BY <1>2, <3>2
    <3>4. ready' = <<Handle("cancel", n, l), Handle("discard", n, l)>> BY <1>1, <3>2
    <3>5. Abandoning(n, l)' BY <3>3, <3>4 DEF Abandoning, Worker
    <3>6. Stage(t, n, l)'
      BY <1>1, <2>1, <2>4, <3>1, <3>5 DEF Stage, Abandoning, Runs, Quiet, Parks, Worker
    <3> QED BY <2>2, <3>3, <3>6
  <2>5. pc[t] # "closes" BY <1>1, <1>3 DEF Stage, Emptying, Runs, Parks
  <2>6. pc[t] # "joins" BY <1>1, <1>3 DEF Stage, Runs
  <2> QED BY <1>3, <2>3, <2>4, <2>5, <2>6
<1>4. ~\E n \in Ids : Emptying("shut", "shutting", n)
  BY <1>1 DEF Emptying, Runs, Parks
<1> QED BY <1>1, <1>3, <1>4, ActorIs

\* The only client is collected: its finalizer finds the loop quiet.
LEMMA CollectedSole ==
    ASSUME TypeOK, LockInv, Sole, Collected
    PROVE  Sole'
<1>1. lock = Nobody /\ ~dropped
  <2>1. \A t \in Threads : lock # t BY DEF Collected, LockInv
  <2> QED BY <2>1 DEF Collected, TypeOK
<1>2. Quiet BY <1>1 DEF Sole, OneActor
<1>3. PICK n, l : n = calls + 1 /\ l = CHOOSE k \in Labels : TRUE
  OBVIOUS
<1>4. n \in Ids /\ l \in Labels /\ calls' = n
  BY <1>3, LabelsAssumption, CallsAssumption DEF Collected, TypeOK, Ids
<1>5. ready' = <<Handle("shut", n, l)>> /\ parked' = {}
  BY <1>2, <1>3, Queues DEF Collected, Quiet
<1>6. Emptying("shut", "shutting", n)' BY <1>4, <1>5 DEF Emptying, Runs
<1>7. dropped' /\ (\A t \in Threads : pc'[t] = "idle") /\ n <= calls'
  BY <1>4 DEF Collected, Ids
<1>8. OneActor' BY <1>4, <1>6, <1>7 DEF OneActor, Stage
<1>9. SessionsAreKept'
  BY SessionsKeptThen DEF Collected, Sole
<1> QED BY <1>8, <1>9 DEF Sole

LEMMA SoleInit ==
    ASSUME Init
    PROVE  Sole
<1>1. /\ ready = <<>> /\ parked = {} /\ loop = "none" /\ open = {} /\ cut = {} /\ tidied = {}
      /\ \A t \in Threads : pc[t] = "idle"
      /\ \A l \in Labels : sessions[l] = 0
      /\ dropped = FALSE
  BY DEF Init
<1>2. Quiet /\ Clear BY <1>1 DEF Quiet, Clear, EmptyOutside
<1>3. \A t \in Threads : Stage(t, asked[t].n, asked[t].label) BY <1>1 DEF Stage
<1> QED BY <1>1, <1>2, <1>3 DEF Sole, OneActor, SessionsAreKept

LEMMA SoleStep ==
    ASSUME TypeOK, TypeOK', Counted, LockInv, PoolInv, Sole, ~scope.interrupts, ~scope.exits,
           [Next]_vars
    PROVE  Sole'
<1>1. CASE UNCHANGED vars
  <2>1. UNCHANGED <<lock, pc, asked, calls, loop, ready, parked, sessions, result, tidied, open,
                    cut, dropped>>
    BY <1>1 DEF vars
  <2>2. OneActor'
    BY <2>1 DEF Sole, OneActor, Stage, Calling, Abandoning, Emptying, Quiet, Runs, Parks, Clear,
                EmptyOutside, Worker
  <2> QED BY <2>1, <2>2, SessionsKeptThen DEF Sole
<1>2. \A t \in Threads : ~Interrupt(t) BY DEF Interrupt
<1> QED BY <1>1, <1>2, AskSole, TakesSole, HolderSole, RunHandleSole, ClosedSole, BrainSole,
           CollectedSole
        DEF Next, ThreadStep, LoopStep

LEMMA ReleaseStep ==
    ASSUME TypeOK, TypeOK', Counted, LockInv, PoolInv, ReleaseInv, [Next]_vars
    PROVE  ReleaseInv'
<1>1. scope' = scope
  BY DEF Next, vars, Ask, ThreadStep, LoopStep, Call, StartFails, Returns, GivesUp, Abandoned,
         Close, Stops, Joins, Interrupt, RunHandle, Opened, Answers, Closed, Collected, OnThreads,
         OnLoop
<1> QED BY <1>1, SoleStep DEF ReleaseInv

-----------------------------------------------------------------------------
(* The theorems.                                                           *)

LEMMA Initially ==
    ASSUME Init
    PROVE  TypeOK /\ Counted /\ LockInv /\ PoolInv
<1>1. /\ (CHOOSE l \in Labels : TRUE) \in Labels /\ 0 \in 0..MaxCalls
      /\ <<>> \in Seq(Handles)
  BY LabelsAssumption, CallsAssumption
<1>2. TypeOK BY <1>1 DEF Init, TypeOK, Outcomes
<1>3. Counted
  <2>1. Asking = {} BY DEF Init, Asking
  <2>2. Cardinality(Asking) = 0 BY <2>1, FS_EmptySet
  <2> QED BY <2>2, CallsAssumption DEF Init, Counted
<1>4. LockInv BY ThreadsAssumption DEF Init, LockInv
<1>5. /\ ready = <<>> /\ parked = {} /\ used = {} /\ calls = 0 /\ loop = "none"
      /\ \A l \in Labels : sessions[l] = 0
      /\ \A n \in Ids : result[n] = "pending"
      /\ \A t \in Threads : pc[t] = "idle"
  BY DEF Init
<1>6. Working = {} /\ DOMAIN ready = {} BY <1>5 DEF Working
<1>7. QueueInOrder /\ SessionsAreOwn /\ SessionsAreNotShared
  BY <1>5, <1>6 DEF QueueInOrder, SessionsAreOwn, SessionsAreNotShared
<1>8. CallsAreNew
  <2>1. Before(calls + 1)
    <3>1. calls + 1 = 1 /\ 0 < 1 BY <1>5
    <3> QED BY <1>5, <1>6, <3>1 DEF Before
  <2>2. \A i \in DOMAIN ready : FALSE BY <1>6
  <2>3. \A t \in Threads : pc[t] \notin {"closes", "joins"} BY <1>5
  <2>4. \A n \in Ids : result[n] = "pending" BY <1>5
  <2>5. \A u \in used : FALSE BY <1>5
  <2> QED BY <2>1, <2>2, <2>3, <2>4, <2>5 DEF CallsAreNew
<1>9. CallsAreOwned BY <1>5, <1>6 DEF CallsAreOwned
<1>10. StopsAreLast
  <2>1. \A i : ~Queued(i, "shut") /\ ~Queued(i, "stop") BY <1>6 DEF Queued
  <2>2. ~Shuts BY <1>5, <2>1 DEF Shuts
  <2>3. dropped = FALSE BY DEF Init
  <2>4. \A i \in DOMAIN ready : FALSE BY <1>6
  <2>5. \A p \in parked : FALSE BY <1>5
  <2>6. \A t \in Threads : pc[t] # "closes" BY <1>5
  <2> QED BY <1>5, <2>1, <2>2, <2>3, <2>4, <2>5, <2>6 DEF StopsAreLast
<1> QED BY <1>2, <1>3, <1>4, <1>7, <1>8, <1>9, <1>10 DEF PoolInv

LEMMA Inductive == Spec => [](TypeOK /\ Counted /\ LockInv /\ PoolInv)
<1> DEFINE Inv == TypeOK /\ Counted /\ LockInv /\ PoolInv
<1>1. Init => Inv BY Initially
<1>2. Inv /\ [Next]_vars => Inv'
  <2> SUFFICES ASSUME Inv, [Next]_vars PROVE Inv' OBVIOUS
  <2>1. TypeOK' BY TypeStep DEF PoolInv
  <2> QED BY <2>1, CountedStep, LockStep, PoolStep
<1> QED BY <1>1, <1>2, PTL DEF Spec

\* The variables hold what their comments say, and no request lacks a number.
THEOREM TypeCorrect == Spec => []TypeOK
<1> QED BY Inductive, PTL

\* However many threads call and close, and whoever is interrupted or collected:
\* no call is sent on a session on which an earlier call failed, timed out or
\* was interrupted (SessionPool.call, _abandon, _discard, close).
THEOREM AbandonedIsNotShared == Spec => []SessionsAreNotShared
<1>1. PoolInv => SessionsAreNotShared BY DEF PoolInv
<1> QED BY <1>1, Inductive, PTL

LEMMA ReleaseInductive == Spec => []ReleaseInv
<1> DEFINE Inv == TypeOK /\ Counted /\ LockInv /\ PoolInv
<1>1. Init => ReleaseInv BY SoleInit DEF ReleaseInv
<1>2. ReleaseInv /\ Inv /\ Inv' /\ [Next]_vars => ReleaseInv' BY ReleaseStep
<1>3. Spec => []Inv BY Inductive
<1> QED BY <1>1, <1>2, <1>3, PTL DEF Spec

\* However many threads call, time out and close, and whenever the only client is
\* collected: unless someone is interrupted, no loop stops while brain holds a
\* session of it or the pool stores one (SessionPool.close, _abandon, _shutdown).
\* The handler that closes at exit is left out: it may ask for a close after the
\* finalizer has asked for its own.
THEOREM LoopsLeaveNoSession == Spec => [](~scope.exits => SessionsAreReleased)
<1>1. ReleaseInv => (~scope.exits => SessionsAreReleased)
  BY DEF ReleaseInv, Sole, SessionsAreKept, SessionsAreReleased, Clear, EmptyOutside
<1> QED BY <1>1, ReleaseInductive, PTL

=============================================================================
