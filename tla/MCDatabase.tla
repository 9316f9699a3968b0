----------------------------- MODULE MCDatabase -----------------------------
EXTENDS SetAlgebra

CONSTANTS v1, v2

MCVersions == {v1, v2}
MCMembers == {{1, 2}, {2}}
MCAlgebraArgs == {<<"a", "b">>, <<"b", "a">>, <<"a", "b", "a">>}

\* Byte order: by key and version, then by member, or by score and member.
KeyRank(k) == IF k = "a" THEN 1 ELSE 2
PrefixRank(e) == 10 * KeyRank(e[1]) + IF e[2] = v1 THEN 1 ELSE 2
MCMetadataOrder == [k \in Keys |-> KeyRank(k)]
MCSubkeyOrder == [e \in Entries |-> 10 * PrefixRank(e) + e[3]]
MCScoreOrder ==
    [e \in Entries |-> 100 * PrefixRank(e) + e[3] + IF e[4] = NoScore THEN 0 ELSE 10 * e[4]]

MCDelArgs == {<<"a">>, <<"b", "a", "b">>}
=============================================================================
