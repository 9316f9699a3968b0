--------------------------- MODULE MCStreamReader ---------------------------
(* Automatic ids, ids of a given millisecond and explicit ids, clocks that *)
(* go back; at most MaxSize entries, read in pages of one.                 *)
EXTENDS StreamReader

CONSTANT a

MCIds == Ids
Auto == [kind |-> "auto"]
Ms(ms) == [kind |-> "ms", ms |-> ms]
Id(ms, seq) == [kind |-> "id", id |-> <<ms, seq>>]

MCSpecs == {Auto, Ms(1), Id(2, 1)}
MCBounds == {<<0, 0>>, <<2, 0>>}
MCCounts == {None, 0, 1}
MCTTLs == {1}

\* No action reads the reply.
StateView == <<meta, sub, score, now, drawn, readerVars>>
=============================================================================
