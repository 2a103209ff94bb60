----------------------------- MODULE MCRelease ------------------------------
EXTENDS Release

CONSTANTS a, b, h1, h2

World(where, c, m, f) ==
    [commits |-> c, host |-> [p \in Releasers |-> where[p]], mirror |-> m, failures |-> f]

Apart == [p \in {a, b} |-> IF p = a THEN h1 ELSE h2]
Together == [p \in {a, b} |-> h1]

\* Two hosts while main moves; two hosts and two failures; one host, so that two
\* clones share a docker daemon and a spool, without a mirror; the same while main
\* moves.
ReleaseScopes ==
    {World(Apart, 2, TRUE, 1), World(Apart, 1, TRUE, 2), World(Together, 1, FALSE, 2),
     World(Together, 2, FALSE, 1)}

\* In no run: the image attested is of the commit attested, even where clones share
\* a host while main moves.
CommitsAreTrue == \A v \in Versions : \A r \in Held(v) : r.digest.commit = r.sha

=============================================================================
