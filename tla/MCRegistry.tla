----------------------------- MODULE MCRegistry -----------------------------
(* An instance of Registry for TLC.                                        *)
EXTENDS Registry, TLC

CONSTANTS n1, n2, c1, c2

MCCoreVersions == {<<0, 2>>, <<0, 2, 0>>, <<0, 2, 1>>, <<0, 3>>}

Clause(o, w) == [op |-> o, v |-> w]

Usual == <<Clause(">=", <<0, 2>>), Clause("<", <<0, 3>>)>>

\* Ranges on both sides of the core's versions, with versions that need
\* padding, and the empty one.
MCRanges == {Usual, <<Clause(">", <<0, 2, 0>>)>>, <<Clause("==", <<0, 2>>)>>,
             <<Clause("<=", <<0, 2>>)>>, << >>}

Pack(n, r, c, s) == [name |-> n, requires |-> r, claims |-> c, spelled |-> s]

\* Packs of the usual range with any claims, any range with one claim, one
\* with a misspelled target and one that calls itself core.
MCPacks ==
  {Pack(n, Usual, c, TRUE) : n \in {n1, n2}, c \in {{}, {c1}, {c1, c2}}} \cup
  {Pack(n1, r, {c1}, TRUE) : r \in MCRanges} \cup
  {Pack(n2, Usual, {c1}, FALSE), Pack(Core, Usual, {c2}, TRUE)}

Sym == Permutations(Points)
=============================================================================
