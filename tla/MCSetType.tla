----------------------------- MODULE MCSetType ------------------------------
(* Three members, named once or twice by a command; three versions.        *)
EXTENDS SetType, TLC

CONSTANTS v1, v2, v3

MCVersions == {v1, v2, v3}
MCPuts == {<<1>>, <<2, 3>>, <<1, 1, 2>>}
MCTakes == {<<1>>, <<3, 3>>, <<2, 3>>}
MCTTLs == {1, -1}
VersionSymmetry == Permutations(MCVersions)

\* No action reads the reply.
StateView == <<meta, sub, score, now, drawn>>
=============================================================================
