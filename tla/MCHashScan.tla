----------------------------- MODULE MCHashScan -----------------------------
(* Pages of one and two entries; the hash may be deleted and made again    *)
(* under a larger or a smaller version during an iteration.                *)
EXTENDS HashScan

CONSTANTS a, b

MCVals == {a, b}
MCPuts == {<< <<1, a>> >>, << <<3, a>>, <<2, b>> >>, << <<1, b>>, <<2, a>> >>}
MCTakes == {<<1>>, <<2>>, <<3, 1>>}

\* No action reads the reply.
StateView == <<meta, sub, score, now, drawn, scanVars>>
=============================================================================
