---------------------------- MODULE BrainSession ----------------------------
(***************************************************************************)
(* The session pool of brain's client (brain/client.py): threads that call *)
(* or close, one lock, and the event loop that opens the session of a      *)
(* label, sends on it, and closes it.                                      *)
(*                                                                         *)
(* The loop runs its handles first come first served, each up to the next  *)
(* await; a task that awaits brain is parked until brain answers, if it    *)
(* ever does.  A cancellation and the first step of a task both take two   *)
(* turns of the loop, so that one turn for each keeps their order.  A      *)
(* session is named by the call that opened it.                            *)
(***************************************************************************)
EXTENDS Integers, Sequences, FiniteSets

CONSTANTS
    Threads,
    Labels,     \* the identities a session is opened under
    Nobody,     \* the holder of a free lock
    Scopes,     \* what may happen: [interrupts, private, exits, startFails]
    MaxCalls    \* bound: the requests of all threads together

ASSUME ThreadsAssumption == IsFiniteSet(Threads) /\ Nobody \notin Threads
ASSUME LabelsAssumption == Labels # {}
ASSUME CallsAssumption == MaxCalls \in Nat

VARIABLES
    scope,
    lock,       \* _lock: the thread that holds it
    pc,         \* where each thread is
    asked,      \* the request each thread makes, [n, label]
    calls,      \* requests made so far
    loop,       \* _loop: none, running, or made without its thread
    ready,      \* the handles the loop has yet to run
    parked,     \* the tasks that await brain
    sessions,   \* _sessions: the session stored for each label, 0 for none
    result,     \* of each call, as its caller learns it
    tidied,     \* the requests whose discard or close has finished
    used,       \* <<session, call>>: what was sent on which session
    open,       \* the sessions brain holds for this process
    cut,        \* those of them whose loop stopped before they were closed
    dropped     \* the only client of a private pool was collected

vars == <<scope, lock, pc, asked, calls, loop, ready, parked, sessions, result,
          tidied, used, open, cut, dropped>>

Ids == 1..MaxCalls

Handle(do, n, l) == [do |-> do, n |-> n, label |-> l]

Task(kind, n, l, s, rest) == [kind |-> kind, n |-> n, label |-> l, session |-> s, rest |-> rest]

Handles ==
    [do : {"call", "cancel", "discard", "close", "shut", "stop"}, n : Ids, label : Labels]

Tasks ==
    [kind : {"opening", "calling", "discarding", "closing", "shutting"}, n : Ids,
     label : Labels, session : 0..MaxCalls, rest : SUBSET Labels]

Outcomes == {"pending", "answer", "refusal", "failure", "abandoned", "interrupted"}

TypeOK ==
    /\ scope \in Scopes
    /\ lock \in Threads \cup {Nobody}
    /\ pc \in [Threads -> {"idle", "asks", "waits", "abandons", "to_close", "closes", "joins"}]
    /\ asked \in [Threads -> [n : 0..MaxCalls, label : Labels]]
    /\ calls \in 0..MaxCalls
    /\ loop \in {"none", "running", "dead"}
    /\ ready \in Seq(Handles) /\ parked \subseteq Tasks
    /\ sessions \in [Labels -> 0..MaxCalls]
    /\ result \in [Ids -> Outcomes]
    /\ tidied \subseteq Ids /\ used \subseteq Ids \X Ids
    /\ open \subseteq Ids /\ cut \subseteq open
    /\ dropped \in BOOLEAN

Init ==
    /\ scope \in Scopes
    /\ lock = Nobody
    /\ pc = [t \in Threads |-> "idle"]
    /\ asked = [t \in Threads |-> [n |-> 0, label |-> CHOOSE l \in Labels : TRUE]]
    /\ calls = 0 /\ loop = "none" /\ ready = <<>> /\ parked = {}
    /\ sessions = [l \in Labels |-> 0]
    /\ result = [n \in Ids |-> "pending"]
    /\ tidied = {} /\ used = {} /\ open = {} /\ cut = {} /\ dropped = FALSE

Goto(t, where) == pc' = [pc EXCEPT ![t] = where]

Release(t) == lock' = Nobody /\ Goto(t, "idle")

Append2(h1, h2) == ready' = ready \o <<h1, h2>>

OnThreads == <<tidied, parked, sessions, used, open, cut, dropped, scope>>

-----------------------------------------------------------------------------
(***************************************************************************)
(* The threads.                                                            *)
(***************************************************************************)

\* A thread asks for the lock, to call or to close.  A private pool has one
\* client, and no call once it is collected.
Ask(t, l, where) ==
    /\ pc[t] = "idle"
    /\ calls + Cardinality({u \in Threads : pc[u] \in {"asks", "to_close"}}) < MaxCalls
    /\ dropped => where = "to_close" /\ scope.exits
    /\ asked' = [asked EXCEPT ![t].label = l]
    /\ Goto(t, where)
    /\ UNCHANGED <<calls, lock, loop, ready, result>> /\ UNCHANGED OnThreads

Request(t, do) == Handle(do, asked[t].n, asked[t].label)

\* Requests are numbered as they take the lock.
Takes(t, do, where) ==
    /\ lock = Nobody /\ lock' = t
    /\ calls' = calls + 1
    /\ asked' = [asked EXCEPT ![t].n = calls + 1]
    /\ ready' = Append(ready, Handle(do, calls + 1, asked[t].label))
    /\ Goto(t, where)

\* call: the lock is held until the answer; the first call starts the loop.
Call(t) ==
    /\ pc[t] = "asks" /\ Takes(t, "call", "waits")
    /\ loop' = IF loop = "none" THEN "running" ELSE loop
    /\ UNCHANGED result /\ UNCHANGED OnThreads

\* The thread of a new loop does not start: the error path discards on a loop
\* that nobody runs.
StartFails(t) ==
    /\ scope.startFails
    /\ pc[t] = "asks" /\ Takes(t, "discard", "abandons")
    /\ loop = "none" /\ loop' = "dead"
    /\ UNCHANGED result /\ UNCHANGED OnThreads

\* An answer, or a refusal of the tool: the session is kept.
Returns(t) ==
    /\ pc[t] = "waits" /\ result[asked[t].n] \in {"answer", "refusal"}
    /\ Release(t)
    /\ UNCHANGED <<asked, calls, loop, ready, result>> /\ UNCHANGED OnThreads

\* _abandon: the call is cancelled, and its session is dropped on the loop.
Abandon(t) == Append2(Request(t, "cancel"), Request(t, "discard"))

\* The call failed or took too long: wait for the session to be discarded.
FaultyGivesUp(t) ==
    /\ pc[t] = "waits" /\ result[asked[t].n] = "failure"
    /\ UNCHANGED result
    /\ Abandon(t)
    /\ Goto(t, "abandons")
    /\ UNCHANGED <<lock, asked, calls, loop>> /\ UNCHANGED OnThreads

GivesUp(t) ==
    /\ pc[t] = "waits" /\ result[asked[t].n] \in {"pending", "failure"}
    /\ result' = [result EXCEPT ![asked[t].n] = IF @ = "pending" THEN "abandoned" ELSE @]
    /\ Abandon(t)
    /\ Goto(t, "abandons")
    /\ UNCHANGED <<lock, asked, calls, loop>> /\ UNCHANGED OnThreads

Abandoned(t) ==
    /\ pc[t] = "abandons" /\ asked[t].n \in tidied
    /\ Release(t)
    /\ UNCHANGED <<asked, calls, loop, ready, result>> /\ UNCHANGED OnThreads

\* An interrupt: a call is abandoned without waiting, and the wait for the
\* discard of one is left.
Interrupt(t) ==
    /\ scope.interrupts
    /\ \/ /\ pc[t] = "waits"
          /\ result' = [result EXCEPT ![asked[t].n] = IF @ = "pending" THEN "interrupted" ELSE @]
          /\ Abandon(t)
       \/ pc[t] = "abandons" /\ UNCHANGED <<result, ready>>
    /\ Release(t)
    /\ UNCHANGED <<asked, calls, loop>> /\ UNCHANGED OnThreads

\* close: the sessions are closed on the loop, then the loop is stopped and
\* its thread joined.  Nothing to close if no loop runs.
Close(t) ==
    /\ pc[t] = "to_close" /\ lock = Nobody
    /\ IF loop = "none"
       THEN Goto(t, "idle") /\ UNCHANGED <<calls, asked, lock, ready>>
       ELSE Takes(t, "close", "closes")
    /\ UNCHANGED <<loop, result>> /\ UNCHANGED OnThreads

\* The loop is stopped once the sessions are closed, or on an interrupt.
FaultyStops(t) ==
    /\ pc[t] = "closes"
    /\ ready' = Append(ready, Request(t, "stop"))
    /\ Goto(t, "joins")
    /\ UNCHANGED <<lock, asked, calls, loop, result>> /\ UNCHANGED OnThreads

Stops(t) ==
    /\ pc[t] = "closes" /\ (asked[t].n \in tidied \/ scope.interrupts)
    /\ result' = IF asked[t].n \in tidied THEN result
                 ELSE [result EXCEPT ![asked[t].n] = "interrupted"]
    /\ ready' = Append(ready, Request(t, "stop"))
    /\ Goto(t, "joins")
    /\ UNCHANGED <<lock, asked, calls, loop>> /\ UNCHANGED OnThreads

Joins(t) ==
    /\ pc[t] = "joins" /\ loop = "none"
    /\ Release(t)
    /\ UNCHANGED <<asked, calls, loop, ready, result>> /\ UNCHANGED OnThreads

-----------------------------------------------------------------------------
(***************************************************************************)
(* The loop.                                                               *)
(***************************************************************************)

OnLoop == <<scope, lock, pc, asked, calls>>

\* The loop ends, and what it still awaited ends with it.
Ends == loop' = "none" /\ parked' = {} /\ cut' = open'

Park(task) == parked' = parked \cup {task}

\* _call: on the session of the label, or on one opened for it.
StartCall(h) ==
    /\ h.do = "call"
    /\ IF sessions[h.label] = 0
       THEN Park(Task("opening", h.n, h.label, h.n, {})) /\ UNCHANGED used
       ELSE /\ Park(Task("calling", h.n, h.label, sessions[h.label], {}))
            /\ used' = used \cup {<<sessions[h.label], h.n>>}
    /\ UNCHANGED <<loop, sessions, tidied, open, cut, dropped>>

Cancel(h) ==
    /\ h.do = "cancel"
    /\ parked' = {p \in parked : ~(p.n = h.n /\ p.kind \in {"opening", "calling"})}
    /\ UNCHANGED <<loop, sessions, tidied, used, open, cut, dropped>>

\* _discard: the session leaves the pool before it is closed.
FaultyDiscard(h) ==
    /\ h.do = "discard"
    /\ IF sessions[h.label] = 0
       THEN tidied' = tidied \cup {h.n} /\ UNCHANGED parked
       ELSE Park(Task("discarding", h.n, h.label, sessions[h.label], {})) /\ UNCHANGED tidied
    /\ UNCHANGED <<loop, sessions, used, open, cut, dropped>>

Discard(h) ==
    /\ h.do = "discard"
    /\ sessions' = [sessions EXCEPT ![h.label] = 0]
    /\ IF sessions[h.label] = 0
       THEN tidied' = tidied \cup {h.n} /\ UNCHANGED parked
       ELSE Park(Task("discarding", h.n, h.label, sessions[h.label], {})) /\ UNCHANGED tidied
    /\ UNCHANGED <<loop, used, open, cut, dropped>>

\* The next label of _close_sessions, or its end: the closer learns of it, and
\* a shutdown from the loop itself stops the loop.
CloseNext(kind, n, rest, others) ==
    IF rest = {}
    THEN /\ tidied' = tidied \cup {n}
         /\ IF kind = "shutting"
            THEN Ends
            ELSE parked' = others /\ UNCHANGED <<loop, cut>>
         /\ UNCHANGED sessions
    ELSE \E l \in rest :
            /\ sessions' = [sessions EXCEPT ![l] = 0]
            /\ parked' = others \cup {Task(kind, n, l, sessions[l], rest \ {l})}
            /\ UNCHANGED <<tidied, loop, cut>>

CloseSessions(h) ==
    /\ h.do \in {"close", "shut"}
    /\ UNCHANGED <<used, open, dropped>>
    /\ CloseNext(IF h.do = "close" THEN "closing" ELSE "shutting", h.n,
                 {l \in Labels : sessions[l] # 0}, parked)

Stop(h) ==
    /\ h.do = "stop"
    /\ UNCHANGED <<sessions, tidied, used, open, dropped>>
    /\ Ends

RunHandle ==
    /\ loop = "running" /\ ready # <<>>
    /\ LET h == Head(ready) IN StartCall(h) \/ Cancel(h) \/ Discard(h) \/ CloseSessions(h) \/ Stop(h)
    /\ ready' = IF loop' = "none" THEN <<>> ELSE Tail(ready)
    /\ UNCHANGED result /\ UNCHANGED OnLoop

Learn(n, outcome) == result' = [result EXCEPT ![n] = IF @ = "pending" THEN outcome ELSE @]

\* The session is open: it is stored, and the call is sent on it.
Opened(p) ==
    /\ p.kind = "opening"
    /\ sessions' = [sessions EXCEPT ![p.label] = p.session]
    /\ open' = open \cup {p.session}
    /\ used' = used \cup {<<p.session, p.n>>}
    /\ parked' = (parked \ {p}) \cup {[p EXCEPT !.kind = "calling"]}
    /\ UNCHANGED <<loop, ready, result, tidied, cut, dropped>> /\ UNCHANGED OnLoop

\* brain answers, refuses, or the transport fails, as it does on a session of
\* a loop that is gone.
Answers(p) ==
    /\ \/ p.kind = "opening" /\ Learn(p.n, "failure")
       \/ p.kind = "calling" /\ Learn(p.n, "failure")
       \/ /\ p.kind = "calling" /\ p.session \notin cut
          /\ \E o \in {"answer", "refusal"} : Learn(p.n, o)
    /\ parked' = parked \ {p}
    /\ UNCHANGED <<loop, ready, sessions, tidied, used, open, cut, dropped>> /\ UNCHANGED OnLoop

\* A session is closed, or its close timed out.  _close_sessions takes the
\* labels it listed when it began.
Closed(p) ==
    /\ p.kind \in {"discarding", "closing", "shutting"}
    /\ open' = open \ ({p.session} \ cut)
    /\ CloseNext(p.kind, p.n, p.rest, parked \ {p})
    /\ ready' = IF loop' = "none" THEN <<>> ELSE ready
    /\ UNCHANGED <<result, used, dropped>> /\ UNCHANGED OnLoop

\* The finalizer of a private pool's client runs on the loop's own thread.
Collected ==
    /\ scope.private /\ ~dropped /\ loop = "running"
    /\ \A t \in Threads : pc[t] = "idle"
    /\ calls < MaxCalls /\ calls' = calls + 1
    /\ dropped' = TRUE
    /\ ready' = Append(ready, Handle("shut", calls + 1, CHOOSE l \in Labels : TRUE))
    /\ UNCHANGED <<scope, lock, pc, asked, loop, parked, sessions, result, tidied, used, open, cut>>

-----------------------------------------------------------------------------

ThreadStep(t) ==
    \/ Call(t) \/ StartFails(t) \/ Returns(t) \/ GivesUp(t) \/ Abandoned(t)
    \/ Close(t) \/ Stops(t) \/ Joins(t)

LoopStep == RunHandle \/ \E p \in parked : Closed(p)

Next ==
    \/ \E t \in Threads :
        \/ \E l \in Labels, where \in {"asks", "to_close"} : Ask(t, l, where)
        \/ ThreadStep(t) \/ Interrupt(t)
    \/ LoopStep \/ Collected
    \/ \E p \in parked : Opened(p) \/ Answers(p)

\* The operating system runs every thread, the loop's too; brain owes nothing.
Spec ==
    /\ Init /\ [][Next]_vars
    /\ WF_vars(LoopStep)
    /\ \A t \in Threads : WF_vars(ThreadStep(t))

-----------------------------------------------------------------------------
(***************************************************************************)
(* Properties.                                                             *)
(***************************************************************************)

Abandons == {n \in Ids : result[n] \in {"failure", "abandoned", "interrupted"}}

\* "Drop its session, so no later call shares it" (client.py, _abandon): what
\* was sent on a session on which a call failed, timed out or was interrupted
\* was sent before that call, even when the interrupted caller did not wait
\* and the next one was already queued on the loop.
SessionsAreNotShared ==
    \A u, v \in used : (u[1] = v[1] /\ u[2] < v[2]) => u[2] \notin Abandons

\* "Release server traces before stopping the loop" (client.py, close): no loop
\* stops while brain holds a session of it, or while the pool stores one,
\* unless someone was interrupted.  (Where an exit handler may close the pool of a
\* client that is being collected it does not hold; no run has such a scope.)
SessionsAreReleased ==
    ~scope.interrupts => cut = {} /\ (loop = "none" => \A l \in Labels : sessions[l] = 0)

\* Every call ends: with brain's answer, or without when brain gives none, and
\* a close ends too, so that nobody waits for the lock of the pool for ever.
\* (Where the thread of the loop cannot be started it does not: the error path
\* waits, with the lock, for a loop that nobody runs.)
EveryCallEnds ==
    \A t \in Threads : (pc[t] # "idle" /\ ~scope.startFails) ~> pc[t] = "idle"

=============================================================================
