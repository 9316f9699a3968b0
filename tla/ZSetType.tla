------------------------------ MODULE ZSetType ------------------------------
(***************************************************************************)
(* src/cmd/zset.rs: a sorted set is kept twice, as a subkey per member     *)
(* with its score and as a key per score and member in zset_score, which   *)
(* the range commands read page by page; its size is in the metadata.      *)
(***************************************************************************)
EXTENDS Keyspace, Paging, Scores

CONSTANTS
    Adds,     \* ZADD without INCR: [flags, pairs of score and member]
    Incrs,    \* ZADD INCR, and ZINCRBY if there are no flags: [flags, delta, member]
    Takes,    \* ZREM
    Indexes,  \* start and stop of ZRANGE and ZREVRANGE
    Bounds,   \* min and max of ZRANGEBYSCORE and ZREVRANGEBYSCORE
    Limits,   \* LIMIT offset count; <<0, 0>> if absent
    PageSize  \* ZSET_PAGE_SIZE

\* parse_zadd_flags
Compatible(flags) ==
    /\ ~({"nx", "xx"} \subseteq flags)
    /\ ~({"gt", "lt"} \subseteq flags)
    /\ "nx" \in flags => "gt" \notin flags /\ "lt" \notin flags

\* Versions and members are numbers in the order of their bytes.  Member 0
\* is the empty one.
ASSUME ZSetAssumption ==
    /\ Versions \subseteq Nat /\ Fields \subseteq Nat
    /\ Vals = ScoreCodes /\ ScoreKeys = ScoreCodes \X Fields
    /\ \A c \in Adds : /\ Compatible(c.flags)
                       /\ c.pairs \in Seq(ScoreCodes \X Fields) \ {<< >>}
    /\ \A c \in Incrs : /\ Compatible(c.flags)
                        /\ c.delta \in ScoreCodes /\ c.member \in Fields
    /\ Takes \subseteq Seq(Fields) \ {<< >>}
    /\ Indexes \subseteq Int /\ Bounds \subseteq ScoreCodes
    /\ Limits \subseteq Nat \X Nat
    /\ PageSize \in Nat \ {0}

\* load_meta looks at the expiry before the type, except of a string.
OtherType ==
    meta # None /\ meta.t # "zset" /\ (meta.t = "string" \/ ~IsExpired(meta))
Live == IF meta = None THEN FALSE ELSE meta.t = "zset" /\ ~IsExpired(meta)

Refused == OtherType /\ Replies(<<"zset">>, WrongType) /\ Unchanged

Score(version, m) == sub[version][m]

-----------------------------------------------------------------------------

ReplaceKeepsOld(old, version, new) ==
    score[version] \cup {<<new[m], m>> : m \in DOMAIN new}

\* The keys of zset_score after the scores `new` have replaced those of the
\* members in its domain.
Replace(old, version, new) ==
    (score[version] \ {<<old[m], m>> : m \in DOMAIN new})
        \cup {<<new[m], m>> : m \in DOMAIN new}

\* The batch of zadd and zincrby, on the metadata that was found or made.
WriteScores(m, new) ==
    LET old == sub[m.ver]
        added == {x \in DOMAIN new : old[x] = None}
    IN  /\ sub' = [sub EXCEPT ![m.ver] =
                     [x \in Fields |-> IF x \in DOMAIN new THEN new[x] ELSE old[x]]]
        /\ score' = [score EXCEPT ![m.ver] = Replace(old, m.ver, new)]
        /\ meta' = [m EXCEPT !.size = @ + Cardinality(added)]
        /\ drawn' = drawn \cup {m.ver}
        /\ UNCHANGED now

\* ensure_zset_meta: the metadata of the set, or those of a new one.
EnsureZSetMeta ==
    IF Live THEN {meta} ELSE {NewMeta("zset", v) : v \in GenerateVersion}

\* May a member with score `old` be given score `new`?
Passes(flags, old, new) ==
    IF old = None THEN "xx" \notin flags
    ELSE /\ "nx" \notin flags
         /\ "gt" \in flags => Value(new) > Value(old)
         /\ "lt" \in flags => Value(new) < Value(old)

\* zadd without INCR: the last score of a member counts; the metadata is
\* written even if nothing changes.
ZAdd(flags, pairs) ==
    LET members == {pairs[i][2] : i \in 1..Len(pairs)}
        last(x) == pairs[Max({i \in 1..Len(pairs) : pairs[i][2] = x})][1]
    IN  /\ ~OtherType
        /\ \E m \in EnsureZSetMeta :
             LET old(x) == Score(m.ver, x)
                 changed == {x \in members :
                               /\ Passes(flags, old(x), last(x))
                               /\ old(x) # None => Value(old(x)) # Value(last(x))}
                 added == {x \in changed : old(x) = None}
             IN  /\ WriteScores(m, [x \in changed |-> last(x)])
                 /\ Replies(<<"zadd", flags, pairs>>,
                            Int64(Cardinality(IF "ch" \in flags THEN changed ELSE added)))

\* zadd with INCR, zincrby.  A version that is drawn for a missing key and
\* not written is not recorded.
ZIncr(flags, delta, x) ==
    LET old == IF Live THEN Score(meta.ver, x) ELSE None
        new == IF old = None THEN delta ELSE Plus(old, delta)
        skipped == IF old = None THEN "xx" \in flags ELSE "nx" \in flags
        infinite == old # None /\ ~SumIsFinite(old, delta)
        answers(r) == Replies(<<"zincr", flags, delta, x>>, r)
    IN  \/ /\ ~OtherType /\ ~skipped /\ infinite
           /\ answers(<<"error">>) /\ Unchanged
        \/ /\ ~OtherType
           /\ skipped \/ (~infinite /\ ~Passes(flags, old, new))
           /\ answers(Nil) /\ Unchanged
        \/ /\ ~OtherType
           /\ ~skipped /\ ~infinite /\ Passes(flags, old, new)
           /\ answers(<<"score", new>>)
           /\ \E m \in EnsureZSetMeta : WriteScores(m, [y \in {x} |-> new])

SubtractOne(n, k) == n - 1

\* u64::saturating_sub
SaturatingSub(n, k) == IF n > k THEN n - k ELSE 0

\* zrem looks up every argument in the database, before the batch.
ZRem(args) ==
    LET hits == IF Live THEN {i \in 1..Len(args) : Score(meta.ver, args[i]) # None}
                ELSE {}
        gone == {args[i] : i \in hits}
        removed == Cardinality(hits)
    IN  /\ ~OtherType
        /\ IF hits = {}
           THEN UNCHANGED <<meta, sub, score>>
           ELSE /\ sub' = [sub EXCEPT ![meta.ver] =
                             [x \in Fields |-> IF x \in gone THEN None ELSE @[x]]]
                /\ score' = [score EXCEPT ![meta.ver] =
                               @ \ {<<Score(meta.ver, x), x>> : x \in gone}]
                /\ meta' = [meta EXCEPT !.size = SaturatingSub(@, removed)]
        /\ Replies(<<"zrem", args>>, Int64(removed))
        /\ UNCHANGED <<now, drawn>>

-----------------------------------------------------------------------------

\* The keys of zset_score: version, score, member
ScoreEntries ==
    UNION {{<<v, e[1], e[2]>> : e \in score[v]} : v \in Versions}

\* (member, score) of the entries, in order, that the pages from a start key
\* hold
Items(start, reverse) ==
    LET keys == PrefixScanPages(ScoreEntries, meta.ver, start, PageSize, reverse)
    IN  [i \in 1..Len(keys) |-> <<keys[i][3], keys[i][2]>>]

\* normalize_index
NormalizeIndex(i) == IF i >= 0 THEN i ELSE IF meta.size + i < 0 THEN 0 ELSE meta.size + i

\* rank_range: the first rank and the number of ranks between two indexes
RankRange(i, j) ==
    LET s == NormalizeIndex(i)
        e == NormalizeIndex(j)
    IN  IF s > e \/ s >= meta.size THEN <<0, 0>>
        ELSE <<s, Min({e, meta.size - 1}) - s + 1>>

\* collect_rank_range_items
CollectRankRange(range, reverse) ==
    LET items == Items(<< >>, reverse)
    IN  SubSeq(items, range[1] + 1, Min({range[1] + range[2], Len(items)}))

\* zrange, zrevrange
ZRange(i, j, reverse) ==
    /\ ~OtherType
    /\ Replies(<<"zrange", i, j, reverse>>,
               <<"items", IF Live THEN CollectRankRange(RankRange(i, j), reverse)
                          ELSE << >>>>)
    /\ Unchanged

\* The matching entries in their order: up to the first of the positions
\* `beyond` the far end, without `offset` of them and no more than `count`, if
\* that is not 0.
Limited(items, beyond, limit) ==
    LET inside == IF beyond = {} THEN items ELSE SubSeq(items, 1, Min(beyond) - 1)
        to == IF limit[2] = 0 THEN Len(inside) ELSE Min({limit[1] + limit[2], Len(inside)})
    IN  SubSeq(inside, limit[1] + 1, to)

SeekKeyAtMember(min) == <<meta.ver, min, 1>>

\* score_seek_key: the key of the empty member
SeekKey(min) == <<meta.ver, min, 0>>

\* zrangebyscore: forwards from the seek key of min
ByScore(min, max, limit) ==
    LET items == Items(SeekKey(min), FALSE)
        above == {i \in 1..Len(items) : Value(items[i][2]) > Value(max)}
    IN  Limited(items, above, limit)

\* zrevrangebyscore: backwards from the end, skipping what is above max
ByScoreReverse(min, max, limit) ==
    LET upTo(item) == Value(item[2]) <= Value(max)
        items == SelectSeq(Items(<< >>, TRUE), upTo)
        below == {i \in 1..Len(items) : Value(items[i][2]) < Value(min)}
    IN  Limited(items, below, limit)

ZRangeByScore(min, max, limit, reverse) ==
    /\ ~OtherType
    /\ Replies(<<"zrangebyscore", min, max, limit, reverse>>,
               <<"items", IF ~Live THEN << >>
                          ELSE IF reverse THEN ByScoreReverse(min, max, limit)
                          ELSE ByScore(min, max, limit)>>)
    /\ Unchanged

\* zrank, zrevrank: count the entries until the member with its score comes
ZRank(x, reverse) ==
    LET items == Items(<< >>, reverse)
        target == Score(meta.ver, x)
        at == {i \in 1..Len(items) :
                 items[i][1] = x /\ Value(items[i][2]) = Value(target)}
        rank == IF Live
                THEN IF target # None THEN IF at # {} THEN Int64(Min(at) - 1)
                     ELSE Nil ELSE Nil
                ELSE Nil
    IN  /\ ~OtherType
        /\ Replies(<<"zrank", x, reverse>>, rank)
        /\ Unchanged

\* zscore
ZScore(x) ==
    LET found == IF Live THEN Score(meta.ver, x) ELSE None
    IN  /\ ~OtherType
        /\ Replies(<<"zscore", x>>, IF found = None THEN Nil ELSE <<"score", found>>)
        /\ Unchanged

\* zcard
ZCard ==
    /\ ~OtherType
    /\ Replies(<<"zcard">>, Int64(IF Live THEN meta.size ELSE 0))
    /\ Unchanged

ZSetCommand ==
    \/ Refused
    \/ \E c \in Adds : ZAdd(c.flags, c.pairs)
    \/ \E c \in Incrs : ZIncr(c.flags, c.delta, c.member)
    \/ \E args \in Takes : ZRem(args)
    \/ \E reverse \in BOOLEAN :
         \/ \E i, j \in Indexes : ZRange(i, j, reverse)
         \/ \E min, max \in Bounds, l \in Limits : ZRangeByScore(min, max, l, reverse)
         \/ \E x \in Fields : ZRank(x, reverse)
    \/ \E x \in Fields : ZScore(x)
    \/ ZCard

Init == KeyInit
Next == ZSetCommand \/ KeyCommand
Spec == Init /\ [][Next]_keyVars

-----------------------------------------------------------------------------

\* Type invariant.
TypeOK == KeyTypeOK

IsZSet == IF meta = None THEN FALSE ELSE meta.t = "zset"

\* The two copies of a sorted set agree: zset_score has one key per member,
\* with the score its subkey has (zset.rs:320-336, 401-430, 657-677), to the
\* sign of zero.
IndexInv ==
    IsZSet => score[meta.ver] =
                {<<sub[meta.ver][x], x>> : x \in {y \in Fields : sub[meta.ver][y] # None}}

\* types.rs:81: the size in the metadata is the number of elements.
SizeInv ==
    IsZSet => meta.size = Cardinality({x \in Fields : sub[meta.ver][x] # None})

AbsMap == IF IsZSet THEN sub[meta.ver] ELSE NoFields

ADT == INSTANCE ZSetADT WITH
    type <- AbsType("zset"), content <- AbsMap, exp <- AbsExp, Empty <- NoFields

\* The commands are those of a map ordered by score and member, whatever
\* pages the scans come in: ranges and ranks, both ways, agree with the
\* scores.  (Without ranges that start at a zero where members have the other
\* one, or at the empty member, zset.rs:492, and without members that ZREM is
\* given twice, zset.rs:657.)
ImplementsADT == ADT!Spec
=============================================================================
