------------------------------ MODULE ZSetADT -------------------------------
(***************************************************************************)
(* What the sorted set commands promise: a key that holds a map from       *)
(* members to scores, seen in the order of score and member.  There is no  *)
(* second index, and no count.                                             *)
(***************************************************************************)
EXTENDS KeyADT, Scores, FiniteSets

CONSTANTS
    Fields,   \* members, numbers in the order of their bytes
    Adds,     \* ZADD: [flags, pairs]
    Incrs,    \* ZADD INCR and ZINCRBY: [flags, delta, member]
    Takes,    \* ZREM
    Indexes,  \* of ZRANGE and ZREVRANGE
    Bounds,   \* of ZRANGEBYSCORE and ZREVRANGEBYSCORE
    Limits,   \* <<offset, count>>
    None

Members == {m \in Fields : Shown[m] # None}

\* May a member that has score `old` get score `new`?
Allowed(flags, old, new) ==
    IF old = None THEN "xx" \notin flags
    ELSE /\ "nx" \notin flags
         /\ "gt" \in flags => Value(new) > Value(old)
         /\ "lt" \in flags => Value(new) < Value(old)

ZAdd(flags, pairs) ==
    LET named == {pairs[i][2] : i \in 1..Len(pairs)}
        final(m) == CHOOSE i \in 1..Len(pairs) :
                      pairs[i][2] = m /\ \A j \in i+1..Len(pairs) : pairs[j][2] # m
        new(m) == pairs[final(m)][1]
        set == {m \in named : Allowed(flags, Shown[m], new(m))}
        added == set \ Members
        moved == {m \in set \cap Members : Value(Shown[m]) # Value(new(m))}
    IN  Write([m \in Fields |-> IF m \in added \cup moved THEN new(m) ELSE Shown[m]],
              <<"zadd", flags, pairs>>,
              <<"int", Cardinality(IF "ch" \in flags THEN added \cup moved ELSE added)>>)

ZIncr(flags, delta, m) ==
    LET command == <<"zincr", flags, delta, m>>
        old == Shown[m]
        new == IF old = None THEN delta ELSE Plus(old, delta)
        refused == IF old = None THEN "xx" \in flags ELSE "nx" \in flags
    IN  IF refused THEN Answer(command, <<"nil">>)
        ELSE IF old # None /\ ~SumIsFinite(old, delta) THEN Answer(command, <<"error">>)
        ELSE IF ~Allowed(flags, old, new) THEN Answer(command, <<"nil">>)
        ELSE Write([Shown EXCEPT ![m] = new], command, <<"score", new>>)

ZRem(members) ==
    LET gone == {members[i] : i \in 1..Len(members)} \cap Members
        command == <<"zrem", members>>
    IN  IF gone = {} THEN Answer(command, <<"int", 0>>)
        ELSE Write([m \in Fields |-> IF m \in gone THEN None ELSE Shown[m]],
                   command, <<"int", Cardinality(gone)>>)

\* How many members of S come before m
Ahead(S, m, reverse) ==
    LET precedes(a, b) == \/ Shown[a] < Shown[b]
                          \/ Shown[a] = Shown[b] /\ a < b
    IN  Cardinality({x \in S : IF reverse THEN precedes(m, x) ELSE precedes(x, m)})

\* The members of S at the positions from..to, with their scores
Slice(S, from, to, reverse) ==
    LET last == IF to < Cardinality(S) THEN to ELSE Cardinality(S)
        at(p) == CHOOSE m \in S : Ahead(S, m, reverse) = p - 1
    IN  [p \in 1..(IF last >= from THEN last - from + 1 ELSE 0) |->
           <<at(from + p - 1), Shown[at(from + p - 1)]>>]

\* ZRANGE and ZREVRANGE: negative indexes count from the end
ZRange(i, j, reverse) ==
    LET n == Cardinality(Members)
        from == IF i >= 0 THEN i ELSE IF n + i < 0 THEN 0 ELSE n + i
        to == IF j >= 0 THEN j ELSE n + j
    IN  \* an index below the first element is the first element
        Answer(<<"zrange", i, j, reverse>>,
               <<"items", Slice(Members, from + 1, (IF to < 0 THEN 0 ELSE to) + 1, reverse)>>)

ZRangeByScore(min, max, limit, reverse) ==
    LET S == {m \in Members : Value(min) <= Value(Shown[m]) /\ Value(Shown[m]) <= Value(max)}
        to == IF limit[2] = 0 THEN Cardinality(S) ELSE limit[1] + limit[2]
    IN  Answer(<<"zrangebyscore", min, max, limit, reverse>>,
               <<"items", Slice(S, limit[1] + 1, to, reverse)>>)

ZRank(m, reverse) ==
    Answer(<<"zrank", m, reverse>>,
           IF m \in Members THEN <<"int", Ahead(Members, m, reverse)>> ELSE <<"nil">>)

ZScore(m) ==
    Answer(<<"zscore", m>>, IF m \in Members THEN <<"score", Shown[m]>> ELSE <<"nil">>)

ZCard == Answer(<<"zcard">>, <<"int", Cardinality(Members)>>)

ZSetCommand ==
    \/ \E c \in Adds : ZAdd(c.flags, c.pairs)
    \/ \E c \in Incrs : ZIncr(c.flags, c.delta, c.member)
    \/ \E members \in Takes : ZRem(members)
    \/ \E reverse \in BOOLEAN :
         \/ \E i, j \in Indexes : ZRange(i, j, reverse)
         \/ \E min, max \in Bounds, l \in Limits : ZRangeByScore(min, max, l, reverse)
         \/ \E m \in Fields : ZRank(m, reverse)
    \/ \E m \in Fields : ZScore(m)
    \/ ZCard

Next ==
    \/ Refused("zset")
    \/ type # "string" /\ ZSetCommand
    \/ KeyCommand

Spec == Init /\ [][Next]_vars
=============================================================================
