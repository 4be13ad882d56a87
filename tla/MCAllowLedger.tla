---------------------------- MODULE MCAllowLedger ----------------------------
EXTENDS AllowLedger, TLC

CONSTANTS i1, i2, i3

\* Two repositories; one may record two permissions for one value.
Line(r, v, i) == [repo |-> r, value |-> v, id |-> i]

MCRepos   == {"here", "there"}
MCCwd     == [p \in Procs |-> IF p = "roving" THEN MCRepos ELSE {"there"}]
MCValues  == {"flask", "make"}
MCIds     == {i1, i2, i3}
MCEntries == {Line("here", "flask", i1), Line("here", "flask", i2), Line("there", "flask", i3)}
MCForged  == {Line("here", "make", i3)}

Symmetry == Permutations({i1, i2})
=============================================================================
