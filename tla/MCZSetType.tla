----------------------------- MODULE MCZSetType -----------------------------
(* Two members read in pages of one.  Scores are -inf, -1, -0, 0, 1 and    *)
(* inf; 1 + 1 overflows to infinity.                                       *)
EXTENDS ZSetType

MinusOne == Code(-1)
MCVals == ScoreCodes
MCScoreKeys == ScoreCodes \X Fields
Add(flags, pairs) == [flags |-> flags, pairs |-> pairs]
Incr(flags, delta, member) == [flags |-> flags, delta |-> delta, member |-> member]

MCAdds == {
    Add({}, << <<0, 1>>, <<1, 2>>, <<0, 2>> >>),
    Add({"nx", "ch"}, << <<1, 1>> >>),
    Add({"xx", "gt", "ch"}, << <<1, 2>>, <<0, 1>> >>),
    Add({"lt"}, << <<MinusOne, 2>> >>) }
MCIncrs == {
    Incr({}, 1, 1),
    Incr({"gt"}, MinusOne, 2),
    Incr({"xx", "lt"}, MinusOne, 1),
    Incr({"nx"}, NegInf, 2) }
MCTakes == {<<1>>, <<2, 1>>}
MCIndexes == {-1, 0, 1}
MCBounds == {0, 1}
MCLimits == {<<0, 0>>, <<1, 1>>}
MCTTLs == {1}

\* No action reads the reply.
StateView == <<meta, sub, score, now, drawn>>
=============================================================================
