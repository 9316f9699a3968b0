---------------------------- MODULE MCBitmapType ----------------------------
(* Bytes of two bits, two fragments of two bytes: eight bits.  One source  *)
(* ends in the middle of the first fragment, one has a hole there, one is  *)
(* missing and one is of another type.                                     *)
EXTENDS BitmapType, TLC

CONSTANTS v1, v2

MCVersions == {v1, v2}
MCVals == UNION {[1 .. n -> SUBSET {0, 1}] : n \in {1, 2}}
MCTTLs == {1}
MCRanges == {<<1, 2>>, <<-3, -2>>, <<2, 1>>, <<3, 9>>, <<-9, 0>>}

MCStored ==
    [k \in {"short", "sparse", "missing", "hash"} |->
       CASE k = "short"   -> [size |-> 1, frags |-> (0 :> <<{1}>> @@ 1 :> None)]
         [] k = "sparse"  -> [size |-> 3, frags |-> (0 :> None @@ 1 :> <<{0}>>)]
         [] k = "missing" -> [size |-> 0, frags |-> (0 :> None @@ 1 :> None)]
         [] k = "hash"    -> None]

MCBitOps ==
    {<<"and", <<"self", "short">>>>, <<"or", <<"short", "self", "sparse">>>>,
     <<"xor", <<"self", "sparse", "self">>>>, <<"not", <<"self">>>>,
     <<"not", <<"self", "short">>>>, <<"or", <<"self", "hash">>>>,
     <<"and", <<"missing">>>>}

VersionSymmetry == Permutations(MCVersions)

\* No action reads the reply.
StateView == <<meta, sub, score, now, drawn>>
=============================================================================
