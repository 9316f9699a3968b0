----------------------------- MODULE ZSetProofs -----------------------------
(***************************************************************************)
(* The two indices of sorted sets and their size, for every set of         *)
(* versions, members, scores and arguments, provided no version is drawn   *)
(* twice; the size moreover for finitely many members and for ZREM without *)
(* repeated members.                                                       *)
(***************************************************************************)
EXTENDS ZSetType, KeyspaceProofs, FiniteSetTheorems

Held(old) == {y \in Fields : old[y] # None}

\* What zset_score is to hold of scores.
Index(old) == {<<old[x], x>> : x \in Held(old)}

\* Scores after others have been written, and their index by replacement.
Over(old, new) == [x \in Fields |-> IF x \in DOMAIN new THEN new[x] ELSE old[x]]
Swapped(old, new) ==
    (Index(old) \ {<<old[m], m>> : m \in DOMAIN new}) \cup {<<new[m], m>> : m \in DOMAIN new}

\* ZREM with different members, of a finite universe.
DistinctTakes ==
    /\ IsFiniteSet(Fields)
    /\ \A args \in Takes : \A i, j \in 1 .. Len(args) : args[i] = args[j] => i = j

\* The inductive invariant: a new set starts under a version without entries,
\* which is why DrawnInv is needed.
IInv ==
    /\ KeyTypeOK /\ DrawnInv /\ IndexInv
    /\ DistinctTakes => SizeInv

LEMMA Sets == Vals = ScoreCodes /\ ScoreKeys = ScoreCodes \X Fields
  BY ZSetAssumption

USE NoneAssumption, Sets

LEMMA InitIInv == Init => IInv
  BY KeyInitInv DEF Init, IInv, IndexInv, SizeInv, IsZSet, NoComposite

LEMMA KeyCommandPreserves ==
    ASSUME IInv, KeyCommand
    PROVE  IInv'
<1>1. KeyTypeOK' /\ DrawnInv' /\ (NoComposite' \/ SameValue)
  BY KeyStep DEF IInv
<1> QED
  BY <1>1 DEF IInv, IndexInv, SizeInv, IsZSet, NoComposite, SameValue

LEMMA UnchangedPreserves ==
    ASSUME IInv, UNCHANGED <<meta, sub, score, now, drawn>>
    PROVE  IInv'
<1>1. meta' = meta /\ sub' = sub /\ score' = score /\ now' = now /\ drawn' = drawn
  OBVIOUS
<1>2. KeyTypeOK'
  BY <1>1 DEF IInv, KeyTypeOK
<1>3. DrawnInv'
  BY <1>1 DEF IInv, DrawnInv
<1>4. IndexInv'
  BY <1>1 DEF IInv, IndexInv, IsZSet
<1>5. DistinctTakes => SizeInv'
  BY <1>1 DEF IInv, SizeInv, IsZSet
<1> QED
  BY <1>2, <1>3, <1>4, <1>5 DEF IInv, DistinctTakes

LEMMA Resized ==
    ASSUME NEW m \in Metas, NEW n \in Nat
    PROVE  LET r == [m EXCEPT !.size = n]
           IN  r \in Metas /\ r.t = m.t /\ r.ver = m.ver /\ r.size = n
  BY DEF Metas

-----------------------------------------------------------------------------
\* What the last pair of a member is

LEMMA LastExists ==
    ASSUME NEW n \in Nat, NEW S \in SUBSET (1 .. n), S # {}
    PROVE  Max(S) \in S
<1> DEFINE T == {n - i : i \in S}
           R == OpToRel(<, Nat)
<1>1. T \subseteq Nat /\ T # {}
  <2>1. \A i \in S : n - i \in Nat
    OBVIOUS
  <2>2. PICK i \in S : TRUE
    OBVIOUS
  <2>3. n - i \in T
    OBVIOUS
  <2> QED
    BY <2>1, <2>3
<1>2. PICK x \in T : \A y \in T : ~ (<<y, x>> \in R)
  <2>1. IsWellFoundedOn(R, Nat)
    BY NatLessThanWellFounded
  <2> HIDE DEF R, T
  <2> QED
    BY <1>1, <2>1, WFMin, Zenon
<1>3. PICK i \in S : x = n - i
  OBVIOUS
<1>4. \A j \in S : i >= j
  <2> SUFFICES ASSUME NEW j \in S PROVE i >= j
    OBVIOUS
  <2>1. ~ (<<n - j, n - i>> \in R)
    BY <1>2, <1>3
  <2>2. n - j \in Nat /\ n - i \in Nat
    OBVIOUS
  <2>3. ~ (n - j < n - i)
    BY <2>1, <2>2 DEF OpToRel
  <2> QED
    BY <2>3
<1> QED
  BY <1>4 DEF Max

\* Finite sums of scores are scores.
LEMMA PlusType ==
    ASSUME NEW a \in ScoreCodes, NEW b \in ScoreCodes, SumIsFinite(a, b)
    PROVE  Plus(a, b) \in ScoreCodes
  BY MaxScoreAssumption DEF SumIsFinite, Plus, ScoreCodes, NegInf, PosInf, NegZero, Code, Value, IsFinite

-----------------------------------------------------------------------------
\* Scores that are written, on a set whose indices agree

LEMMA Indexed ==
    ASSUME NEW old \in [Fields -> ScoreCodes \cup {None}],
           NEW D \in SUBSET Fields, NEW new \in [D -> ScoreCodes]
    PROVE  /\ Over(old, new) \in [Fields -> ScoreCodes \cup {None}]
           /\ Held(Over(old, new)) = Held(old) \cup D
           /\ Index(Over(old, new)) = Swapped(old, new)
<1> DEFINE g == Over(old, new)
<1>1. DOMAIN new = D
  OBVIOUS
<1>2. None \notin ScoreCodes
  OBVIOUS
<1>3. /\ g \in [Fields -> ScoreCodes \cup {None}]
      /\ \A x \in D : g[x] = new[x] /\ g[x] # None
      /\ \A x \in Fields \ D : g[x] = old[x]
  BY <1>1, <1>2 DEF Over
<1> HIDE DEF g
<1>4. Held(g) = Held(old) \cup D
  BY <1>3 DEF Held
<1>5. \A e : e \in Index(g) <=> \E x \in Fields : g[x] # None /\ e = <<g[x], x>>
  BY DEF Index, Held
<1>6. \A e : e \in Index(old) <=> \E x \in Fields : old[x] # None /\ e = <<old[x], x>>
  BY DEF Index, Held
<1>7. ASSUME NEW e \in Index(g)
      PROVE  \/ e \in Index(old) /\ e \notin {<<old[m], m>> : m \in D}
             \/ e \in {<<new[m], m>> : m \in D}
  <2>1. PICK x \in Fields : g[x] # None /\ e = <<g[x], x>>
    BY <1>5
  <2>2. CASE x \in D
    BY <1>3, <2>1, <2>2
  <2>3. CASE x \notin D
    BY <1>3, <1>6, <2>1, <2>3
  <2> QED
    BY <2>2, <2>3
<1>8. ASSUME NEW e \in {<<new[m], m>> : m \in D}
      PROVE  e \in Index(g)
  BY <1>3, <1>5
<1>9. ASSUME NEW e \in Index(old), e \notin {<<old[m], m>> : m \in D}
      PROVE  e \in Index(g)
  <2>1. PICK x \in Fields : old[x] # None /\ e = <<old[x], x>>
    BY <1>6
  <2>2. x \notin D
    BY <1>9, <2>1
  <2> QED
    BY <1>3, <1>5, <2>1, <2>2
<1>10. Index(g) = (Index(old) \ {<<old[m], m>> : m \in D}) \cup {<<new[m], m>> : m \in D}
  BY <1>7, <1>8, <1>9
<1> QED
  BY <1>1, <1>3, <1>4, <1>10 DEF g, Swapped

\* WriteScores, on the metadata of a set or on new ones.
LEMMA WriteScoresPreserves ==
    ASSUME IInv, NEW m \in Metas, m.t = "zset", m.ver \in Versions,
           score[m.ver] = Index(sub[m.ver]),
           DistinctTakes => m.size = Cardinality(Held(sub[m.ver])),
           NEW D \in SUBSET Fields, NEW new \in [D -> ScoreCodes],
           WriteScores(m, new), IsFiniteSet(D)
    PROVE  IInv'
<1> DEFINE v == m.ver
           old == sub[v]
           g == Over(old, new)
           added == {x \in DOMAIN new : old[x] = None}
<1>1. /\ sub' = [sub EXCEPT ![v] = g]
      /\ score' = [score EXCEPT ![v] = Replace(old, v, new)]
      /\ meta' = [m EXCEPT !.size = @ + Cardinality(added)]
      /\ drawn' = drawn \cup {v} /\ now' = now
  BY DEF WriteScores, Over
<1>2. KeyTypeOK /\ DrawnInv /\ old \in [Fields -> ScoreCodes \cup {None}]
  BY DEF IInv, KeyTypeOK
<1>3. /\ g \in [Fields -> ScoreCodes \cup {None}]
      /\ Held(g) = Held(old) \cup D
      /\ Index(g) = Swapped(old, new)
  <2> HIDE DEF old
  <2> QED
    BY <1>2, Indexed
<1>4. Replace(old, v, new) = Index(g)
  <2>1. score[v] = Index(old)
    OBVIOUS
  <2> HIDE DEF old, g
  <2> QED
    BY <1>3, <2>1 DEF Replace, Swapped
<1>5. Index(g) \in SUBSET ScoreKeys
  BY <1>3 DEF Index, Held
<1>6. added = D \ Held(old)
  BY DEF Held
<1>7. IsFiniteSet(added) /\ Cardinality(added) \in Nat
  <2>1. added \in SUBSET D
    OBVIOUS
  <2> HIDE DEF added
  <2> QED
    BY <2>1, FS_Subset, FS_CardinalityType
<1> HIDE DEF g, added, old
<1>8. /\ meta' \in Metas /\ meta'.t = "zset" /\ meta'.ver = v
      /\ meta'.size = m.size + Cardinality(added)
  <2>1. m.size + Cardinality(added) \in Nat
    BY <1>7 DEF Metas
  <2>2. meta' = [m EXCEPT !.size = m.size + Cardinality(added)]
    BY <1>1
  <2> QED
    BY <2>1, <2>2, Resized
<1>9. /\ sub' \in [Versions -> [Fields -> Vals \cup {None}]] /\ sub'[v] = g
      /\ score' \in [Versions -> SUBSET ScoreKeys] /\ score'[v] = Index(g)
      /\ \A u \in Versions : u # v => sub'[u] = sub[u] /\ score'[u] = score[u]
  BY <1>1, <1>2, <1>3, <1>4, <1>5 DEF KeyTypeOK
<1>10. KeyTypeOK'
  BY <1>1, <1>2, <1>8, <1>9 DEF KeyTypeOK
<1>11. DrawnInv'
  BY <1>1, <1>2, <1>8, <1>9 DEF DrawnInv
<1>12. IndexInv'
  BY <1>8, <1>9 DEF IndexInv, IsZSet, Index, Held
<1>13. ASSUME DistinctTakes PROVE SizeInv'
  <2>1. m.size = Cardinality(Held(old))
    BY <1>13 DEF old
  <2>2. Held(old) \in SUBSET Fields /\ IsFiniteSet(Fields)
    BY <1>13 DEF Held, DistinctTakes
  <2>3. IsFiniteSet(Held(old)) /\ Cardinality(Held(old)) \in Nat
    BY <2>2, FS_Subset, FS_CardinalityType
  <2>4. Held(g) = Held(old) \cup added /\ Held(old) \cap added = {}
    BY <1>3, <1>6
  <2>5. Cardinality(Held(old) \cup added)
          = Cardinality(Held(old)) + Cardinality(added) - Cardinality(Held(old) \cap added)
    BY <1>7, <2>3, FS_Union, Zenon
  <2>6. Cardinality(Held(old) \cap added) = 0
    BY <2>4, FS_EmptySet
  <2>7. meta'.size = Cardinality(Held(g))
    BY <1>7, <1>8, <2>1, <2>3, <2>4, <2>5, <2>6
  <2> QED
    BY <1>8, <1>9, <2>7 DEF SizeInv, IsZSet, Held
<1> QED
  BY <1>10, <1>11, <1>12, <1>13 DEF IInv, DistinctTakes

\* The metadata that ZADD goes on with are those of a set that is in order.
LEMMA Ensured ==
    ASSUME UniqueVersions, IInv, NEW m \in EnsureZSetMeta
    PROVE  /\ m \in Metas /\ m.t = "zset" /\ m.ver \in Versions
           /\ score[m.ver] = Index(sub[m.ver])
           /\ DistinctTakes => m.size = Cardinality(Held(sub[m.ver]))
<1>1. CASE Live
  <2>1. m = meta /\ IsZSet /\ meta # None
    BY <1>1 DEF EnsureZSetMeta, Live, IsZSet
  <2>2. meta \in Metas /\ meta.t = "zset" /\ meta.ver \in Versions
    BY <2>1 DEF IInv, KeyTypeOK, DrawnInv, IsZSet
  <2> QED
    BY <2>1, <2>2 DEF IInv, IndexInv, SizeInv, Index, Held
<1>2. CASE ~Live
  <2>1. PICK v \in GenerateVersion : m = NewMeta("zset", v)
    BY <1>2 DEF EnsureZSetMeta
  <2>2. v \in Versions /\ v \notin drawn
    BY DEF GenerateVersion
  <2>3. m \in Metas /\ m.t = "zset" /\ m.ver = v /\ m.size = 0
    BY <2>1, <2>2, NewMetaType DEF Types
  <2>4. sub[v] = NoFields /\ score[v] = {}
    BY <2>2 DEF IInv, DrawnInv
  <2>5. Held(sub[v]) = {}
    BY <2>4 DEF Held, NoFields
  <2>6. Index(sub[v]) = {}
    BY <2>5 DEF Index
  <2> QED
    BY <2>2, <2>3, <2>4, <2>5, <2>6, FS_EmptySet
<1> QED
  BY <1>1, <1>2

LEMMA ZAddPreserves ==
    ASSUME UniqueVersions, IInv, NEW c \in Adds, ZAdd(c.flags, c.pairs)
    PROVE  IInv'
<1> DEFINE pairs == c.pairs
           members == {pairs[i][2] : i \in 1 .. Len(pairs)}
           last(x) == pairs[Max({i \in 1 .. Len(pairs) : pairs[i][2] = x})][1]
<1>1. PICK m \in EnsureZSetMeta, changed \in SUBSET members :
        WriteScores(m, [x \in changed |-> last(x)])
  BY DEF ZAdd
<1>2. pairs \in Seq(ScoreCodes \X Fields) /\ Len(pairs) \in Nat
  BY ZSetAssumption
<1>3. \A i \in 1 .. Len(pairs) : pairs[i][1] \in ScoreCodes /\ pairs[i][2] \in Fields
  BY <1>2
<1>4. members \subseteq Fields
  BY <1>3
<1>5. ASSUME NEW x \in members PROVE last(x) \in ScoreCodes
  <2> DEFINE S == {i \in 1 .. Len(pairs) : pairs[i][2] = x}
  <2>1. S \in SUBSET (1 .. Len(pairs)) /\ S # {}
    OBVIOUS
  <2> HIDE DEF S
  <2>2. Max(S) \in S
    BY <1>2, <2>1, LastExists
  <2> QED
    BY <1>3, <2>1, <2>2 DEF S
<1>6. IsFiniteSet(members)
  <2> DEFINE f == [i \in 1 .. Len(pairs) |-> pairs[i][2]]
  <2>1. f \in Surjection(1 .. Len(pairs), members)
    BY DEF Surjection
  <2>2. IsFiniteSet(1 .. Len(pairs))
    BY <1>2, FS_Interval
  <2> HIDE DEF f, members
  <2> QED
    BY <2>1, <2>2, FS_Surjection
<1> HIDE DEF last, members
<1>7. [x \in changed |-> last(x)] \in [changed -> ScoreCodes] /\ changed \in SUBSET Fields
  BY <1>4, <1>5
<1>8. IsFiniteSet(changed)
  BY <1>6, FS_Subset
<1>9. /\ m \in Metas /\ m.t = "zset" /\ m.ver \in Versions
      /\ score[m.ver] = Index(sub[m.ver])
      /\ DistinctTakes => m.size = Cardinality(Held(sub[m.ver]))
  BY Ensured
<1>10. PICK new \in [changed -> ScoreCodes] : WriteScores(m, new)
  BY <1>1, <1>7
<1> QED
  BY <1>7, <1>8, <1>9, <1>10, WriteScoresPreserves

LEMMA ZIncrPreserves ==
    ASSUME UniqueVersions, IInv, NEW c \in Incrs, ZIncr(c.flags, c.delta, c.member)
    PROVE  IInv'
<1> DEFINE x == c.member
           old == IF Live THEN Score(meta.ver, x) ELSE None
           new == IF old = None THEN c.delta ELSE Plus(old, c.delta)
<1>1. CASE Unchanged
  BY <1>1 DEF Unchanged, IInv, KeyTypeOK, DrawnInv, IndexInv, SizeInv, IsZSet
<1>2. CASE /\ ~(old # None /\ ~SumIsFinite(old, c.delta))
           /\ \E m \in EnsureZSetMeta : WriteScores(m, [y \in {x} |-> new])
  <2>1. x \in Fields /\ c.delta \in ScoreCodes
    BY ZSetAssumption
  <2>2. old # None => old \in ScoreCodes
    <3>1. CASE Live
      <4>1. meta.ver \in Versions
        BY <3>1 DEF Live, IInv, KeyTypeOK, DrawnInv
      <4>2. sub[meta.ver] \in [Fields -> ScoreCodes \cup {None}]
        BY <4>1 DEF IInv, KeyTypeOK
      <4>3. Score(meta.ver, x) \in ScoreCodes \cup {None}
        BY <2>1, <4>2 DEF Score
      <4>4. old = Score(meta.ver, x)
        BY <3>1
      <4> QED
        BY <4>3, <4>4
    <3> QED
      BY <3>1
  <2> HIDE DEF old
  <2>3. new \in ScoreCodes
    BY <1>2, <2>1, <2>2, PlusType
  <2>4. PICK m \in EnsureZSetMeta : WriteScores(m, [y \in {x} |-> new])
    BY <1>2
  <2>5. /\ m \in Metas /\ m.t = "zset" /\ m.ver \in Versions
        /\ score[m.ver] = Index(sub[m.ver])
        /\ DistinctTakes => m.size = Cardinality(Held(sub[m.ver]))
    BY Ensured
  <2> HIDE DEF new, x
  <2>6. PICK D \in SUBSET Fields : D = {x}
    BY <2>1
  <2>7. PICK h \in [D -> ScoreCodes] : WriteScores(m, h)
    BY <2>3, <2>4, <2>6
  <2>8. IsFiniteSet(D)
    BY <2>6, FS_Singleton
  <2> QED
    BY <2>5, <2>7, <2>8, WriteScoresPreserves
<1> QED
  BY <1>1, <1>2 DEF ZIncr

-----------------------------------------------------------------------------
\* ZREM

Without(old, gone) == [x \in Fields |-> IF x \in gone THEN None ELSE old[x]]
Entries(old, gone) == {<<old[x], x>> : x \in gone}

LEMMA Unindexed ==
    ASSUME NEW old \in [Fields -> ScoreCodes \cup {None}], NEW gone \in SUBSET Held(old),
           NEW g, g = Without(old, gone)
    PROVE  Held(g) = Held(old) \ gone /\ Index(g) = Index(old) \ Entries(old, gone)
<1> DEFINE index == Index(old) \ Entries(old, gone)
<1>1. \A x \in Fields : g[x] = IF x \in gone THEN None ELSE old[x]
  BY DEF Without
<1>2. Held(g) = Held(old) \ gone
  BY <1>1 DEF Held
<1>3. \A e : e \in Index(g) <=> \E x \in Held(g) : e = <<g[x], x>>
  BY DEF Index
<1>4. \A e : e \in Index(old) <=> \E x \in Held(old) : e = <<old[x], x>>
  BY DEF Index
<1>5. \A x \in Held(g) : g[x] = old[x] /\ x \in Held(old) /\ x \notin gone
  BY <1>1, <1>2 DEF Held
<1>6. ASSUME NEW e \in Index(g) PROVE e \in index
  <2>1. PICK x \in Held(g) : e = <<g[x], x>>
    BY <1>3
  <2>2. e \in Index(old)
    BY <1>4, <1>5, <2>1
  <2>3. e \notin Entries(old, gone)
    BY <1>5, <2>1 DEF Entries
  <2> QED
    BY <2>2, <2>3
<1>7. ASSUME NEW e \in index PROVE e \in Index(g)
  <2>1. PICK x \in Held(old) : e = <<old[x], x>>
    BY <1>4
  <2>2. x \notin gone
    BY <2>1 DEF Entries
  <2>3. x \in Held(g)
    BY <1>2, <2>2
  <2> QED
    BY <1>3, <1>5, <2>1, <2>3
<1> QED
  BY <1>2, <1>6, <1>7

LEMMA ZRemPreserves ==
    ASSUME IInv, NEW args \in Takes, ZRem(args)
    PROVE  IInv'
<1> DEFINE hits == IF Live THEN {i \in 1 .. Len(args) : Score(meta.ver, args[i]) # None}
                   ELSE {}
           gone == {args[i] : i \in hits}
           v == meta.ver
           old == sub[v]
           n == SaturatingSub(meta.size, Cardinality(hits))
<1>1. CASE hits = {}
  <2>1. UNCHANGED <<meta, sub, score, now, drawn>>
    BY <1>1 DEF ZRem
  <2> QED
    BY <2>1, UnchangedPreserves
<1>2. CASE hits # {}
  <2>1. /\ sub' = [sub EXCEPT ![v] = [x \in Fields |-> IF x \in gone THEN None ELSE old[x]]]
        /\ score' = [score EXCEPT ![v] = score[v] \ {<<old[x], x>> : x \in gone}]
        /\ meta' = [meta EXCEPT !.size = n]
        /\ UNCHANGED <<now, drawn>>
    BY <1>2 DEF ZRem, Score
  <2>2. /\ meta \in Metas /\ meta # None /\ meta.t = "zset" /\ v \in drawn /\ v \in Versions
        /\ KeyTypeOK /\ DrawnInv /\ IndexInv
    BY <1>2 DEF Live, IInv, KeyTypeOK, DrawnInv
  <2>3. old \in [Fields -> ScoreCodes \cup {None}] /\ score[v] = Index(old)
    BY <2>2 DEF KeyTypeOK, IndexInv, IsZSet, Index, Held
  <2>4. args \in Seq(Fields) /\ Len(args) \in Nat /\ hits \in SUBSET (1 .. Len(args))
    BY ZSetAssumption
  <2>5. gone \in SUBSET Held(old)
    BY <2>4 DEF Held, Score
  <2>6. IsFiniteSet(hits) /\ Cardinality(hits) \in Nat
    <3> HIDE DEF hits
    <3>1. IsFiniteSet(1 .. Len(args))
      BY <2>4, FS_Interval
    <3> QED
      BY <2>4, <3>1, FS_Subset, FS_CardinalityType
  <2>7. n \in Nat
    <3> HIDE DEF hits
    <3>1. meta.size \in Nat
      BY <2>2 DEF Metas
    <3> QED
      BY <2>6, <3>1 DEF SaturatingSub
  <2> HIDE DEF n
  <2>8. /\ meta' \in Metas /\ meta'.t = "zset" /\ meta'.ver = v /\ meta'.size = n
    BY <2>1, <2>2, <2>7, Resized
  <2> HIDE DEF gone, old
  <2>9. PICK g \in [Fields -> ScoreCodes \cup {None}] : g = Without(old, gone)
    BY <2>3 DEF Without
  <2>10. PICK index : index = Index(old) \ Entries(old, gone)
    OBVIOUS
  <2>11. Held(g) = Held(old) \ gone /\ Index(g) = index
    <3>1. PICK f \in [Fields -> ScoreCodes \cup {None}] : f = old
      BY <2>3
    <3>2. PICK S \in SUBSET Held(f) : S = gone
      BY <2>5, <3>1
    <3>3. g = Without(f, S)
      BY <2>9, <3>1, <3>2
    <3>4. Held(g) = Held(f) \ S /\ Index(g) = Index(f) \ Entries(f, S)
      BY <3>3, Unindexed
    <3> QED
      BY <2>10, <3>1, <3>2, <3>4
  <2>12. index \in SUBSET ScoreKeys
    <3>1. score[v] \in SUBSET ScoreKeys
      BY <2>2 DEF KeyTypeOK
    <3> QED
      BY <2>3, <2>10, <3>1
  <2>13. /\ sub' \in [Versions -> [Fields -> Vals \cup {None}]] /\ sub'[v] = g
         /\ score' \in [Versions -> SUBSET ScoreKeys] /\ score'[v] = Index(g)
         /\ \A u \in Versions : u # v => sub'[u] = sub[u] /\ score'[u] = score[u]
    BY <2>1, <2>2, <2>3, <2>9, <2>10, <2>11, <2>12 DEF KeyTypeOK, Without, Entries
  <2>14. KeyTypeOK'
    BY <2>1, <2>2, <2>8, <2>13 DEF KeyTypeOK
  <2>15. DrawnInv'
    BY <2>1, <2>2, <2>8, <2>13 DEF DrawnInv
  <2>16. IndexInv'
    BY <2>8, <2>13 DEF IndexInv, IsZSet, Index, Held
  <2>17. ASSUME DistinctTakes PROVE SizeInv'
    <3>1. meta.size = Cardinality(Held(old))
      BY <2>2, <2>17 DEF IInv, SizeInv, IsZSet, old, Held
    <3>2. IsFiniteSet(Held(old)) /\ Cardinality(Held(old)) \in Nat
      <4>1. Held(old) \in SUBSET Fields /\ IsFiniteSet(Fields)
        BY <2>17 DEF Held, DistinctTakes
      <4> QED
        BY <4>1, FS_Subset, FS_CardinalityType
    <3>3. Cardinality(gone) = Cardinality(hits) /\ IsFiniteSet(gone)
      <4> DEFINE f == [i \in hits |-> args[i]]
      <4>1. \A i, j \in hits : args[i] = args[j] => i = j
        BY <2>4, <2>17 DEF DistinctTakes
      <4> HIDE DEF hits
      <4>2. f \in Bijection(hits, gone)
        BY <4>1 DEF Bijection, Injection, Surjection, IsInjective, gone
      <4>3. ExistsBijection(hits, gone)
        BY <4>2 DEF ExistsBijection
      <4> QED
        BY <2>6, <4>3, FS_Bijection
    <3>4. Held(old) \cap gone = gone
      BY <2>5
    <3>5. /\ IsFiniteSet(Held(old) \ gone)
          /\ Cardinality(Held(old) \ gone)
               = Cardinality(Held(old)) - Cardinality(Held(old) \cap gone)
      BY <3>2, FS_Difference, Zenon
    <3>6. Cardinality(Held(old) \ gone) \in Nat
      BY <3>5, FS_CardinalityType
    <3> HIDE DEF hits
    <3>7. n = Cardinality(Held(g))
      <4>1. PICK k, c, d : /\ k = Cardinality(hits) /\ c = Cardinality(Held(old))
                           /\ d = Cardinality(Held(old) \ gone)
        OBVIOUS
      <4>2. k \in Nat /\ c \in Nat /\ d \in Nat /\ d = c - k
        BY <2>6, <3>2, <3>3, <3>4, <3>5, <3>6, <4>1
      <4>3. n = SaturatingSub(c, k)
        BY <3>1, <4>1 DEF n
      <4>4. n = d
        BY <4>2, <4>3 DEF SaturatingSub
      <4> QED
        BY <2>11, <4>1, <4>4
    <3> QED
      BY <2>8, <2>13, <3>7 DEF SizeInv, IsZSet, Held
  <2> QED
    BY <2>14, <2>15, <2>16, <2>17 DEF IInv, DistinctTakes
<1> QED
  BY <1>1, <1>2

-----------------------------------------------------------------------------

LEMMA NextIInv == UniqueVersions /\ IInv /\ [Next]_keyVars => IInv'
<1> SUFFICES ASSUME UniqueVersions, IInv, [Next]_keyVars PROVE IInv'
  OBVIOUS
<1>1. ASSUME Unchanged PROVE IInv'
  BY <1>1, UnchangedPreserves DEF Unchanged
<1>2. CASE Refused
  BY <1>1, <1>2 DEF Refused
<1>3. ASSUME NEW i, NEW j, NEW reverse, ZRange(i, j, reverse) PROVE IInv'
  BY <1>1, <1>3 DEF ZRange
<1>4. ASSUME NEW min, NEW max, NEW l, NEW reverse, ZRangeByScore(min, max, l, reverse)
      PROVE  IInv'
  BY <1>1, <1>4 DEF ZRangeByScore
<1>5. ASSUME NEW x, NEW reverse, ZRank(x, reverse) PROVE IInv'
  BY <1>1, <1>5 DEF ZRank
<1>6. ASSUME NEW x, ZScore(x) PROVE IInv'
  BY <1>1, <1>6 DEF ZScore
<1>7. CASE ZCard
  BY <1>1, <1>7 DEF ZCard
<1>8. CASE UNCHANGED keyVars
  BY <1>1, <1>8 DEF keyVars, Unchanged
<1>9. CASE ZSetCommand
  BY <1>2, <1>3, <1>4, <1>5, <1>6, <1>7, <1>9, ZAddPreserves, ZIncrPreserves,
     ZRemPreserves
  DEF ZSetCommand
<1> QED
  BY <1>8, <1>9, KeyCommandPreserves DEF Next

\* Sorted sets keep to the inductive invariant.
THEOREM Invariance == UniqueVersions => (Spec => []IInv)
<1> SUFFICES ASSUME UniqueVersions PROVE Spec => []IInv
  OBVIOUS
<1>1. IInv /\ [Next]_keyVars => IInv'
  BY NextIInv
<1> QED
  BY <1>1, InitIInv, PTL DEF Spec

\* The column families stay well typed, sums of scores included.
THEOREM TypeCorrect == UniqueVersions => (Spec => []TypeOK)
<1> SUFFICES ASSUME UniqueVersions PROVE Spec => []TypeOK
  OBVIOUS
<1>1. IInv => TypeOK
  BY DEF IInv, TypeOK
<1>2. Spec => []IInv
  BY Invariance
<1> QED
  BY <1>1, <1>2, PTL

\* The two copies of a sorted set agree (zset.rs:320-336, 401-430, 657-677),
\* for all options of ZADD, members that are named more than once and both
\* zeros.
THEOREM IndicesAgree == UniqueVersions => (Spec => []IndexInv)
<1> SUFFICES ASSUME UniqueVersions PROVE Spec => []IndexInv
  OBVIOUS
<1>1. IInv => IndexInv
  BY DEF IInv
<1>2. Spec => []IInv
  BY Invariance
<1> QED
  BY <1>1, <1>2, PTL

\* The size of a sorted set is the number of its members (types.rs:81), if no
\* ZREM names a member twice (zset.rs:657).
THEOREM Size == UniqueVersions /\ DistinctTakes => (Spec => []SizeInv)
<1> SUFFICES ASSUME UniqueVersions, DistinctTakes PROVE Spec => []SizeInv
  OBVIOUS
<1>1. IInv => SizeInv
  BY DEF IInv
<1>2. Spec => []IInv
  BY Invariance
<1> QED
  BY <1>1, <1>2, PTL
=============================================================================
