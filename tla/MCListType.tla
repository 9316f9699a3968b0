----------------------------- MODULE MCListType -----------------------------
(* Indices -2..1 hold every window of up to four elements that two pushes  *)
(* at either end can make; two versions let the key be created again after *)
(* it has expired or has been replaced.                                    *)
EXTENDS ListType, TLC

CONSTANTS v1, v2, a, b

MCVersions == {v1, v2}
MCFields == -2..1
MCVals == {a, b}
MCBatches == {<<b>>, <<a, b>>}
MCCounts == 0..2
MCRanges == {-3, -1, 0, 1}
MCTTLs == {-1, 1}

\* No action reads the reply.
StateView == <<meta, sub, score, now, drawn>>
VersionSymmetry == Permutations(MCVersions)
=============================================================================
