----------------------------- MODULE MCJudgeChain -----------------------------
(***************************************************************************)
(* JudgeChain on small instances: a scope for each question.               *)
(***************************************************************************)
EXTENDS JudgeChain, TLC

CONSTANTS glm, codex, agy, claude, code, test, doc, elsewhere, vague

Chain4 == <<glm, codex, agy, claude>>

At(file, hunk, severity) == [file |-> file, hunk |-> hunk, severity |-> severity]
Nothing == [id \in {} |-> At(code, 1, "blocking")]

Scope == [producers |-> {claude, agy}, small |-> FALSE, incremental |-> FALSE, files |-> <<code, test>>,
          hunks |-> (code :> 2 @@ test :> 1 @@ doc :> 1), ignored |-> {}, unreadable |-> {},
          docs |-> {doc}, dated |-> {}, max |-> 3, room |-> (glm :> 3 @@ agy :> 3),
          longest |-> 9, earlier |-> Nothing, blocking |-> {}, closed |-> {}, excerpted |-> {}, claims |-> {},
          decisions |-> {"approve"}, says |-> 1, faults |-> {"failed"}, resets |-> {0},
          horizon |-> 0, reviews |-> 1]

\* Two light judges that disagree, with and without a third to arbitrate.
Disputes ==
    {[Scope EXCEPT !.producers = P, !.claims = {At(code, 1, "blocking"), At(test, 1, "minor")},
                   !.decisions = {"approve", "request_changes"}] : P \in {{}, {claude, agy}}}

\* One earlier finding at a time, open or closed, a blocker or not: in a hunk that
\* is shown, in one that is cut, on a file with no line, outside the change,
\* ambiguous.
Places5 == {<<code, 1>>, <<code, 2>>, <<test, 0>>, <<elsewhere, 1>>, <<vague, 1>>}
About(place) == "e1" :> [file |-> place[1], hunk |-> place[2]]

Earlier(base, places, unreadables) ==
    {[base EXCEPT !.earlier = About(place), !.blocking = b, !.closed = c, !.excerpted = x,
                  !.unreadable = u] :
        place \in places, b \in SUBSET {"e1"}, c \in SUBSET {"e1"}, x \in SUBSET {"e1"},
        u \in unreadables}

\* In pieces, code too large for any; in pieces that fit; and alone in a prompt
\* that one judge of the chain sees cut and the next one whole.
Memory ==
    Earlier([Scope EXCEPT !.max = 1], Places5, {{}, {test}})
    \cup Earlier([Scope EXCEPT !.room = (glm :> 2)], Places5, {{}})
    \cup Earlier([Scope EXCEPT !.files = <<code>>, !.producers = {}, !.room = (glm :> 1)],
                 Places5, {{}})

\* New claims, anywhere, in pieces or not.
Claims == {At(code, 1, "blocking"), At(code, 2, "blocking"), At(test, 1, "blocking"),
           At(test, 0, "important"), At(doc, 1, "blocking"), At(elsewhere, 1, "blocking"),
           At(vague, 1, "blocking")}
Raised == {[Scope EXCEPT !.files = <<code, doc, test>>, !.claims = Claims, !.dated = {doc},
                         !.small = l, !.max = m, !.unreadable = u, !.ignored = i] :
              l \in BOOLEAN, m \in {1, 2, 4}, u \in {{}, {test}}, i \in {{}, {test}}}

\* The subscription's quota, review after review.
Quotas == {[Scope EXCEPT !.producers = P, !.small = TRUE, !.horizon = 5, !.reviews = 3,
                         !.faults = {"quota", "timeout", "unparsable"}, !.resets = {0, 1, 5},
                         !.longest = l] : P \in {{claude, agy, codex}}, l \in {2, 3}}

SmallScopes == Disputes \cup Memory \cup Raised \cup Quotas
                \cup {[Scope EXCEPT !.files = <<>>],
                      [Scope EXCEPT !.files = <<doc>>, !.claims = Claims, !.excerpted = {}]}

\* A change of two pieces whose second no judge answers.
TwoPieces == {[Scope EXCEPT !.max = 2]}
=============================================================================
