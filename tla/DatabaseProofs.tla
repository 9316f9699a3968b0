--------------------------- MODULE DatabaseProofs ---------------------------
(***************************************************************************)
(* What crashes leave, for every set of keys, members and versions, every  *)
(* page size and every argument list, provided no version is drawn twice.  *)
(***************************************************************************)
EXTENDS Database, FiniteSetTheorems, TLAPS

\* A version that has not been drawn has no entries, and sets have none in
\* zset_score.
EntryInv ==
    /\ \A e \in subkey \cup zscore : e[2] \in drawn
    /\ \A k \in Keys : IsComposite(k) =>
         /\ metadata[k].ver \in drawn
         /\ metadata[k].t = "set" => Held(zscore, k) = {}

Finite == IsFiniteSet(subkey) /\ IsFiniteSet(zscore)

\* How far a DEL has come.
DelInv ==
    (IF job = None THEN FALSE ELSE job.op = "del") =>
      /\ job.at <= Len(job.args) + 1
      /\ \A i \in 1 .. Len(job.args) : i < job.at => metadata[job.args[i]] = None
      /\ job.stage # "look" =>
           /\ job.at <= Len(job.args)
           /\ metadata[DelKey] # None
      /\ job.stage \in {"subkey", "score"} => IsComposite(DelKey)
      /\ job.stage = "score" => metadata[DelKey].t = "zset" /\ Held(subkey, DelKey) = {}
      /\ job.stage = "metadata" /\ IsComposite(DelKey) =>
           Held(subkey, DelKey) = {} /\ Held(zscore, DelKey) = {}

\* How far a FLUSHDB has come.
FlushInv ==
    (IF job = None THEN FALSE ELSE job.op = "flush") =>
      /\ job.stage # "metadata" => \A k \in Keys : metadata[k] = None
      /\ job.stage \in {"score", "done"} => subkey = {}
      /\ job.stage = "done" => zscore = {}

\* Nothing that delete_prefix has still to delete is behind its start key.
Ahead(order, cf) == \A e \in cf : order[e] > job.start

CursorInv ==
    (IF job = None THEN FALSE ELSE TRUE) =>
      /\ job.op = "del" =>
           /\ job.stage \in {"look", "metadata"} => job.start = 0
           /\ job.stage = "subkey" => Ahead(SubkeyOrder, Held(subkey, DelKey))
           /\ job.stage = "score" => Ahead(ScoreOrder, Held(zscore, DelKey))
      /\ job.op = "flush" =>
           /\ job.stage = "metadata" =>
                Ahead(MetadataOrder, {k \in Keys : metadata[k] # None})
           /\ job.stage = "subkey" => Ahead(SubkeyOrder, subkey)
           /\ job.stage = "score" => Ahead(ScoreOrder, zscore)

IInv ==
    /\ TypeOK /\ Finite /\ EntryInv /\ WholeInv /\ CutInv
    /\ DelInv /\ FlushInv /\ CursorInv

USE DatabaseAssumption

LEMMA InitIInv == Init => IInv
  BY Zenon, FS_EmptySet
  DEF Init, IInv, TypeOK, Finite, EntryInv, WholeInv, CutInv, DelInv, FlushInv,
      CursorInv, IsComposite

-----------------------------------------------------------------------------
\* Types and finite sets

LEMMA CompositeType ==
    ASSUME TypeOK, NEW k \in Keys, IsComposite(k)
    PROVE  /\ metadata[k] \in Composites
           /\ metadata[k].t \in {"set", "zset"}
           /\ metadata[k].ver \in Versions /\ metadata[k].size \in Nat
  BY Zenon DEF TypeOK, IsComposite, Strings, Composites

LEMMA DelType ==
    ASSUME TypeOK, job # None, job.op = "del"
    PROVE  /\ job \in [op : {"del"}, args : Seq(Keys), at : Nat \ {0},
                       stage : {"look", "subkey", "score", "metadata"}, start : Nat]
           /\ job.args \in Seq(Keys) /\ Len(job.args) \in Nat /\ job.at \in Nat \ {0}
           /\ job.stage \in {"look", "subkey", "score", "metadata"}
           /\ job.at <= Len(job.args) => DelKey \in Keys
<1>1. job \in [op : {"del"}, args : Seq(Keys), at : Nat \ {0},
               stage : {"look", "subkey", "score", "metadata"}, start : Nat]
  BY Zenon DEF TypeOK, Jobs
<1>2. job.args \in Seq(Keys) /\ job.at \in Nat \ {0}
  BY Zenon, <1>1
<1> QED
  BY <1>1, <1>2 DEF DelKey

\* Entries come in and go: the number of what a key holds.
LEMMA Replaced ==
    ASSUME NEW U, IsFiniteSet(U), NEW old, old \subseteq U,
           NEW new, IsFiniteSet(new), new \cap (U \ old) = {}
    PROVE  /\ IsFiniteSet((U \ old) \cup new)
           /\ Cardinality(U) \in Nat /\ Cardinality(old) \in Nat
           /\ Cardinality(new) \in Nat /\ Cardinality(old) <= Cardinality(U)
           /\ Cardinality((U \ old) \cup new)
                = Cardinality(U) - Cardinality(old) + Cardinality(new)
<1>1. IsFiniteSet(old) /\ Cardinality(old) <= Cardinality(U)
  BY Zenon, FS_Subset
<1>2. Cardinality(U) \in Nat /\ Cardinality(old) \in Nat /\ Cardinality(new) \in Nat
  BY Zenon, <1>1, FS_CardinalityType
<1>3. U \cap old = old
  BY Zenon
<1>4. IsFiniteSet(U \ old) /\ Cardinality(U \ old) = Cardinality(U) - Cardinality(old)
  BY Zenon, <1>3, FS_Difference
<1>5. (U \ old) \cap new = {}
  BY Zenon
<1>6. /\ IsFiniteSet((U \ old) \cup new)
      /\ Cardinality((U \ old) \cup new)
           = Cardinality(U \ old) + Cardinality(new) - Cardinality((U \ old) \cap new)
  BY <1>4, FS_Union, Zenon
<1>7. Cardinality((U \ old) \cap new) = 0
  BY Zenon, <1>5, FS_EmptySet
<1> QED
  BY <1>1, <1>2, <1>4, <1>6, <1>7

LEMMA Shrunk ==
    ASSUME NEW U, IsFiniteSet(U), NEW page
    PROVE  /\ IsFiniteSet(U \ page)
           /\ Cardinality(U) \in Nat /\ Cardinality(U \ page) \in Nat
           /\ Cardinality(U \ page) <= Cardinality(U)
<1>1. U \ page \in SUBSET U
  BY Zenon
<1> QED
  BY Zenon, <1>1, FS_Subset, FS_CardinalityType

LEMMA Taken ==
    ASSUME NEW U, IsFiniteSet(U), NEW gone, gone \subseteq U
    PROVE  /\ Cardinality(gone) \in Nat /\ Cardinality(gone) <= Cardinality(U)
           /\ Cardinality(U \ gone) = Cardinality(U) - Cardinality(gone)
<1>1. IsFiniteSet(gone) /\ Cardinality(gone) <= Cardinality(U)
  BY Zenon, FS_Subset
<1>2. U \cap gone = gone
  BY Zenon
<1> QED
  BY Zenon, <1>1, <1>2, FS_Difference, FS_CardinalityType

LEMMA UnderFinite ==
    ASSUME NEW S, IsFiniteSet(S), NEW k, NEW v
    PROVE  IsFiniteSet(Under(S, k, v)) /\ Cardinality(Under(S, k, v)) \in Nat
<1>1. Under(S, k, v) \in SUBSET S
  BY Zenon DEF Under
<1> QED
  BY Zenon, <1>1, FS_Subset, FS_CardinalityType

-----------------------------------------------------------------------------
\* Commands of one write

\* The entries that one command adds are finitely many.
LEMMA NewFinite ==
    ASSUME NEW k, NEW v, NEW ms \in Members, NEW sc
    PROVE  IsFiniteSet(Batch(k, v, ms, sc))
<1> DEFINE new == Batch(k, v, ms, sc)
           f == [m \in ms |-> <<k, v, m, sc>>]
<1>1. ms \in SUBSET Elems /\ IsFiniteSet(ms)
  BY Zenon, FS_Subset
<1>2. f \in Surjection(ms, new)
  BY Zenon DEF Surjection, Batch
<1> HIDE DEF f
<1> QED
  BY Zenon, <1>1, <1>2, FS_Surjection

\* Where no command is under way, and none begins, what is to be shown of it
\* is nothing.
LEMMA NoJob ==
    ASSUME job' = None
    PROVE  DelInv' /\ FlushInv' /\ CursorInv'
  BY Zenon DEF DelInv, FlushInv, CursorInv

\* What one batch makes of the key it is for, and of the others.
LEMMA AddToPreserves ==
    ASSUME IInv, job = None, UNCHANGED <<job, cut>>,
           NEW k \in Keys, NEW t \in {"set", "zset"}, NEW v \in Versions,
           NEW size \in Nat, NEW ms \in Members, NEW sc \in Scores \cup {NoScore},
           AddTo(k, t, v, size, ms, sc),
           Cardinality(Under(subkey, k, v)) <= size,
           t = "zset" => Under(subkey, k, v) \subseteq Under(zscore, k, v),
           t = "set" => Under(zscore, k, v) = {},
           \/ /\ size = Cardinality(Under(subkey, k, v))
              /\ t = "zset" => Under(zscore, k, v) = Under(subkey, k, v)
           \/ k \in cut,
           drawn' = drawn \cup {v}
    PROVE  IInv'
<1> DEFINE U == Under(subkey, k, v)
           old == {e \in U : e[3] \in ms}
           new == Batch(k, v, ms, sc)
           n == size + Cardinality(new) - Cardinality(old)
<1>1. /\ subkey' = (subkey \ old) \cup new
      /\ zscore' = IF t = "zset" THEN (zscore \ old) \cup new ELSE zscore
      /\ metadata' = [metadata EXCEPT ![k] = [t |-> t, ver |-> v, size |-> n]]
  BY Zenon DEF AddTo
<1>2. /\ TypeOK /\ Finite /\ EntryInv /\ WholeInv /\ CutInv
      /\ IsFiniteSet(subkey) /\ IsFiniteSet(zscore)
  BY Zenon DEF IInv, Finite
<1>3. IsFiniteSet(U) /\ Cardinality(U) \in Nat
  BY Zenon, <1>2, UnderFinite
<1>4. IsFiniteSet(new)
  BY Zenon, NewFinite
<1>5. new \cap (U \ old) = {}
  BY DEF Under, Batch
<1>6. /\ Cardinality(old) \in Nat /\ Cardinality(new) \in Nat
      /\ Cardinality(old) <= Cardinality(U)
      /\ Cardinality((U \ old) \cup new)
           = Cardinality(U) - Cardinality(old) + Cardinality(new)
  <2>1. old \subseteq U
    BY Zenon
  <2> HIDE DatabaseAssumption DEF U, old, new, n
  <2> QED
    BY <1>3, <1>4, <1>5, <2>1, Replaced
<1>7. /\ n \in Nat /\ Cardinality((U \ old) \cup new) <= n
      /\ size = Cardinality(U) => n = Cardinality((U \ old) \cup new)
  <2> HIDE DEF U, old, new
  <2>1. Cardinality(U) <= size
    BY Zenon DEF U
  <2> QED
    BY <1>3, <1>6, <2>1
<1>8. \A e \in new : e \in Entries /\ e[1] = k /\ e[2] = v
  BY DEF Entries, Batch
<1>9. \A e \in old : e[1] = k /\ e[2] = v
  BY Zenon DEF Under
<1>10. Under(subkey', k, v) = (U \ old) \cup new
  BY Zenon, <1>1, <1>8 DEF Under
<1>11. t = "zset" => Under(zscore', k, v) = (Under(zscore, k, v) \ old) \cup new
  BY Zenon, <1>1, <1>8 DEF Under
<1>12. t = "set" => zscore' = zscore
  BY Zenon, <1>1
<1>13. \A j \in Keys, u \in Versions : j # k =>
         Under(subkey', j, u) = Under(subkey, j, u) /\ Under(zscore', j, u) = Under(zscore, j, u)
  <2> HIDE DEF old, new
  <2> QED
    BY <1>1, <1>8, <1>9 DEF Under
<1> HIDE DEF n
<1>14. /\ metadata'[k] = [t |-> t, ver |-> v, size |-> n]
       /\ \A j \in Keys : j # k => metadata'[j] = metadata[j]
       /\ metadata' \in [Keys -> Strings \cup Composites \cup {None}]
  BY Zenon, <1>1, <1>2, <1>7 DEF TypeOK, Composites
<1>15. subkey' \subseteq Entries /\ zscore' \subseteq Entries
  <2> HIDE DEF old, new
  <2> QED
    BY Zenon, <1>1, <1>2, <1>8 DEF TypeOK
<1>16. TypeOK'
  BY Zenon, <1>2, <1>14, <1>15 DEF TypeOK
<1>17. Finite'
  <2> HIDE DEF old, new
  <2>1. IsFiniteSet(subkey \ old) /\ IsFiniteSet(zscore \ old)
    BY Zenon, <1>2, FS_Difference
  <2>2. IsFiniteSet((subkey \ old) \cup new) /\ IsFiniteSet((zscore \ old) \cup new)
    BY Zenon, <1>4, <2>1, FS_Union
  <2> QED
    BY Zenon, <1>1, <1>2, <2>2 DEF Finite
<1>18. \A e \in subkey' \cup zscore' : e[2] \in drawn'
  <2> HIDE DEF old, new
  <2> QED
    BY Zenon, <1>1, <1>2, <1>8 DEF EntryInv
<1>19. ASSUME NEW j \in Keys, IsComposite(j)'
       PROVE  /\ metadata'[j].ver \in drawn'
              /\ metadata'[j].t = "set" => Held(zscore, j)' = {}
              /\ Whole(j)' \/ j \in cut'
              /\ Cardinality(Held(subkey, j)') <= metadata'[j].size
              /\ metadata'[j].t = "zset" => Held(subkey, j)' \subseteq Held(zscore, j)'
  <2>1. CASE j = k
    <3>1. Held(subkey, j)' = (U \ old) \cup new
      BY <1>10, <1>14, <2>1 DEF Held, Under
    <3>2. t = "zset" => Held(zscore, j)' = (Under(zscore, k, v) \ old) \cup new
      BY <1>11, <1>14, <2>1 DEF Held, Under
    <3>3. t = "set" => Held(zscore, j)' = {}
      BY <1>12, <1>14, <2>1 DEF Held, Under
    <3>4. metadata'[j].ver = v /\ metadata'[j].t = t /\ metadata'[j].size = n
      BY <1>14, <2>1
    <3> HIDE DEF old, new
    <3> QED
      BY Zenon, <1>7, <2>1, <3>1, <3>2, <3>3, <3>4 DEF Whole
  <2>2. CASE j # k
    <3>1. metadata'[j] = metadata[j] /\ IsComposite(j)
      BY Zenon, <1>14, <1>19, <2>2 DEF IsComposite
    <3>2. metadata[j].ver \in Versions
      BY Zenon, <1>2, <3>1, CompositeType
    <3>3. Held(subkey, j)' = Held(subkey, j) /\ Held(zscore, j)' = Held(zscore, j)
      BY <1>13, <2>2, <3>1, <3>2 DEF Held, Under
    <3>4. ~Purging(j)
      BY Zenon DEF Purging
    <3> QED
      BY <1>2, <3>1, <3>3, <3>4 DEF EntryInv, WholeInv, CutInv, Whole
  <2> QED
    BY Zenon, <2>1, <2>2
<1>20. EntryInv' /\ WholeInv' /\ CutInv'
  BY Zenon, <1>18, <1>19 DEF EntryInv, WholeInv, CutInv
<1> QED
  BY Zenon, <1>16, <1>17, <1>20, NoJob DEF IInv

LEMMA AddPreserves ==
    ASSUME IInv, NEW k \in Keys, NEW t \in {"set", "zset"}, NEW ms \in Members,
           NEW sc \in Scores \cup {NoScore}, Add(k, t, ms, sc)
    PROVE  IInv'
<1>1. job = None /\ UNCHANGED <<job, cut>>
  BY Zenon DEF Add, Idle
<1>2. TypeOK /\ IsFiniteSet(subkey)
  BY Zenon DEF IInv, Finite
<1>3. CASE /\ metadata[k] # None /\ metadata[k].t = t
           /\ AddTo(k, t, metadata[k].ver, metadata[k].size, ms, sc)
           /\ UNCHANGED drawn
  <2>1. IsComposite(k) /\ ~Purging(k)
    BY Zenon, <1>1, <1>3 DEF IsComposite, Purging
  <2>2. PICK v : v = metadata[k].ver
    BY Zenon
  <2>3. PICK size : size = metadata[k].size
    BY Zenon
  <2>4. v \in Versions /\ size \in Nat
    BY Zenon, <1>2, <2>1, <2>2, <2>3, CompositeType
  <2>5. /\ Cardinality(Under(subkey, k, v)) <= size
        /\ t = "zset" => Under(subkey, k, v) \subseteq Under(zscore, k, v)
        /\ t = "set" => Under(zscore, k, v) = {}
        /\ \/ /\ size = Cardinality(Under(subkey, k, v))
              /\ t = "zset" => Under(zscore, k, v) = Under(subkey, k, v)
           \/ k \in cut
        /\ drawn' = drawn \cup {v}
    BY Zenon, <1>3, <2>1, <2>2, <2>3 DEF IInv, EntryInv, WholeInv, CutInv, Whole, Held
  <2>6. AddTo(k, t, v, size, ms, sc)
    BY Zenon, <1>3, <2>2, <2>3
  <2> QED
    BY Zenon, <1>1, <2>4, <2>5, <2>6, AddToPreserves
<1>4. ASSUME NEW v \in Versions \ drawn, AddTo(k, t, v, 0, ms, sc),
             drawn' = drawn \cup {v}
      PROVE  IInv'
  <2>1. Under(subkey, k, v) = {} /\ Under(zscore, k, v) = {}
    BY Zenon DEF IInv, EntryInv, Under
  <2>2. Cardinality(Under(subkey, k, v)) = 0
    BY Zenon, <2>1, FS_EmptySet
  <2>3. 0 \in Nat /\ Cardinality(Under(subkey, k, v)) <= 0
    BY <2>2
  <2>4. v \in Versions
    BY Zenon
  <2> QED
    BY <1>1, <1>4, <2>1, <2>2, <2>3, <2>4, AddToPreserves, Zenon
<1> QED
  BY Zenon, <1>3, <1>4 DEF Add

\* What is taken from a key by SREM and ZREM, where its size is known.
LEMMA RemovePreserves ==
    ASSUME IInv, NEW k \in Keys, NEW ms \in Members, Remove(k, ms)
    PROVE  IInv'
<1> DEFINE U == Held(subkey, k)
           gone == {e \in U : e[3] \in ms}
           size == metadata[k].size
           n == IF size > Cardinality(gone) THEN size - Cardinality(gone) ELSE 0
<1>1. /\ job = None /\ UNCHANGED <<job, drawn, cut>>
      /\ IsComposite(k)
      /\ subkey' = subkey \ gone
      /\ zscore' = IF metadata[k].t = "zset" THEN zscore \ gone ELSE zscore
      /\ metadata' = [metadata EXCEPT ![k].size = n]
  BY Zenon DEF Remove, Idle
<1>2. /\ TypeOK /\ Finite /\ EntryInv /\ WholeInv /\ CutInv
      /\ IsFiniteSet(subkey) /\ IsFiniteSet(zscore)
  BY Zenon DEF IInv, Finite
<1>3. /\ metadata[k] \in Composites /\ metadata[k].t \in {"set", "zset"}
      /\ metadata[k].ver \in Versions /\ size \in Nat
  BY Zenon, <1>1, <1>2, CompositeType
<1>4. IsFiniteSet(U) /\ Cardinality(U) \in Nat
  BY Zenon, <1>2, UnderFinite DEF Held
<1>5. /\ Cardinality(gone) \in Nat /\ Cardinality(gone) <= Cardinality(U)
      /\ Cardinality(U \ gone) = Cardinality(U) - Cardinality(gone)
  <2>1. gone \subseteq U
    BY Zenon
  <2> HIDE DatabaseAssumption DEF U, gone, size, n
  <2> QED
    BY Zenon, <1>4, <2>1, Taken
<1>6. Cardinality(U) <= size
  BY Zenon, <1>1, <1>2 DEF CutInv
<1>7. n \in Nat /\ Cardinality(U \ gone) <= n
      /\ (size = Cardinality(U) => n = Cardinality(U \ gone))
  <2> HIDE DEF U, gone, size
  <2> QED
    BY <1>3, <1>4, <1>5, <1>6
<1> HIDE DEF n, size
<1>8. /\ metadata'[k] \in Composites /\ metadata'[k].t = metadata[k].t
      /\ metadata'[k].ver = metadata[k].ver /\ metadata'[k].size = n
      /\ \A j \in Keys : j # k => metadata'[j] = metadata[j]
      /\ metadata' \in [Keys -> Strings \cup Composites \cup {None}]
  BY Zenon, <1>1, <1>2, <1>3, <1>7 DEF TypeOK, Composites
<1>9. \A e \in gone : e[1] = k /\ e[2] = metadata[k].ver
  BY Zenon DEF Held, Under
<1>10. /\ Held(subkey, k)' = U \ gone
       /\ Held(zscore, k)' = IF metadata[k].t = "zset" THEN Held(zscore, k) \ gone
                             ELSE Held(zscore, k)
  <2>1. Held(subkey, k)' = Under(subkey', k, metadata[k].ver)
    BY Zenon, <1>8 DEF Held, Under
  <2>2. Held(zscore, k)' = Under(zscore', k, metadata[k].ver)
    BY Zenon, <1>8 DEF Held, Under
  <2> HIDE DEF gone
  <2> QED
    BY Zenon, <1>1, <2>1, <2>2 DEF Held, Under
<1>11. \A j \in Keys : j # k =>
         Held(subkey, j)' = Held(subkey, j) /\ Held(zscore, j)' = Held(zscore, j)
  <2> HIDE DEF gone
  <2> QED
    BY <1>1, <1>8, <1>9 DEF Held, Under
<1> HIDE DEF gone
<1>12. TypeOK'
  BY Zenon, <1>1, <1>2, <1>8 DEF TypeOK
<1>13. Finite'
  BY Zenon, <1>1, <1>2, Shrunk DEF Finite
<1>14. ASSUME NEW j \in Keys, IsComposite(j)'
       PROVE  /\ metadata'[j].ver \in drawn'
              /\ metadata'[j].t = "set" => Held(zscore, j)' = {}
              /\ Whole(j)' \/ j \in cut'
              /\ Cardinality(Held(subkey, j)') <= metadata'[j].size
              /\ metadata'[j].t = "zset" => Held(subkey, j)' \subseteq Held(zscore, j)'
  <2>1. ~Purging(j)
    BY Zenon, <1>1 DEF Purging
  <2>2. CASE j = k
    <3>1. /\ metadata[k].ver \in drawn
          /\ metadata[k].t = "set" => Held(zscore, k) = {}
          /\ metadata[k].t = "zset" => U \subseteq Held(zscore, k)
          /\ \/ size = Cardinality(U) /\ (metadata[k].t = "zset" => Held(zscore, k) = U)
             \/ k \in cut
      BY Zenon, <1>1, <1>2, <2>1, <2>2 DEF EntryInv, WholeInv, CutInv, Whole, size
    <3> HIDE DEF U
    <3>2. /\ metadata[k].t = "set" => Held(zscore, k)' = {}
          /\ metadata[k].t = "zset" => U \ gone \subseteq Held(zscore, k)'
          /\ \/ n = Cardinality(U \ gone)
                /\ (metadata[k].t = "zset" => Held(zscore, k)' = U \ gone)
             \/ k \in cut
      BY Zenon, <1>7, <1>10, <3>1
    <3>3. cut' = cut /\ drawn' = drawn
      BY Zenon, <1>1
    <3>4. Held(subkey, k)' = U \ gone
      BY Zenon, <1>10
    <3>5. Whole(k)' \/ k \in cut'
      BY Zenon, <1>8, <3>2, <3>3, <3>4 DEF Whole
    <3> QED
      BY Zenon, <1>7, <1>8, <2>2, <3>1, <3>2, <3>3, <3>4, <3>5
  <2>3. CASE j # k
    <3>1. metadata'[j] = metadata[j] /\ IsComposite(j)
      BY Zenon, <1>8, <1>14, <2>3 DEF IsComposite
    <3>2. Held(subkey, j)' = Held(subkey, j) /\ Held(zscore, j)' = Held(zscore, j)
      BY Zenon, <1>11, <2>3
    <3>3. drawn' = drawn /\ cut' = cut
      BY Zenon, <1>1
    <3> QED
      BY Zenon, <1>2, <2>1, <3>1, <3>2, <3>3 DEF EntryInv, WholeInv, CutInv, Whole
  <2> QED
    BY Zenon, <2>2, <2>3
<1>15. EntryInv' /\ WholeInv' /\ CutInv'
  BY Zenon, <1>1, <1>2, <1>14 DEF EntryInv, WholeInv, CutInv
<1> QED
  BY Zenon, <1>1, <1>12, <1>13, <1>15, NoJob DEF IInv

\* Metadata that go or become those of a string: what is said of composites
\* stays true of the ones that are left.
LEMMA FewerComposites ==
    ASSUME IInv, TypeOK', UNCHANGED <<subkey, zscore, drawn>>,
           NEW ks \in SUBSET Keys, cut' = cut \ ks,
           \A k \in ks : ~IsComposite(k)',
           \A k \in Keys \ ks : metadata'[k] = metadata[k] /\ (Purging(k) => Purging(k)')
    PROVE  Finite' /\ EntryInv' /\ WholeInv' /\ CutInv'
<1>1. Finite'
  BY Zenon DEF IInv, Finite
<1>2. ASSUME NEW k \in Keys, IsComposite(k)'
      PROVE  /\ k \notin ks /\ IsComposite(k) /\ metadata'[k] = metadata[k]
             /\ Held(subkey, k)' = Held(subkey, k) /\ Held(zscore, k)' = Held(zscore, k)
             /\ Purging(k) => Purging(k)'
  BY Zenon, <1>2 DEF IsComposite, Held, Under
<1> QED
  BY <1>1, <1>2 DEF IInv, EntryInv, WholeInv, CutInv, Whole

LEMMA MSetPreserves ==
    ASSUME IInv, NEW ks \in SUBSET Keys, MSet(ks)
    PROVE  IInv'
<1>1. /\ job = None /\ job' = None /\ UNCHANGED <<subkey, zscore, drawn>>
      /\ cut' = cut \ ks
      /\ \A k \in Keys : metadata'[k] = IF k \in ks
                                        THEN [t |-> "string", ver |-> None, size |-> 0]
                                        ELSE metadata[k]
  BY Zenon DEF MSet, Idle
<1>2. TypeOK'
  BY Zenon DEF IInv, TypeOK, MSet, Idle, Strings
<1>3. \A k \in ks : ~IsComposite(k)'
  BY <1>1 DEF IsComposite
<1>4. \A k \in Keys : ~Purging(k)
  BY Zenon, <1>1 DEF Purging
<1> QED
  BY Zenon, <1>1, <1>2, <1>3, <1>4, FewerComposites, NoJob DEF IInv

-----------------------------------------------------------------------------
\* DEL

\* Where a DEL stands that has looked at its next key.
LEMMA DelFacts ==
    ASSUME IInv, job # None, job.op = "del", job.stage # "look"
    PROVE  /\ job.at <= Len(job.args) /\ DelKey \in Keys
           /\ metadata[DelKey] # None /\ Purging(DelKey)
           /\ \A k \in Keys : Purging(k) => k = DelKey
<1>1. job.at <= Len(job.args) /\ metadata[DelKey] # None
  BY Zenon DEF IInv, DelInv
<1>2. DelKey \in Keys
  BY Zenon, <1>1, DelType DEF IInv
<1> QED
  BY Zenon, <1>1, <1>2 DEF Purging

\* A step that writes nothing.
LEMMA SameStore ==
    ASSUME IInv, UNCHANGED <<metadata, subkey, zscore, drawn>>,
           job' \in Jobs \cup {None}, cut \subseteq cut', cut' \subseteq Keys,
           \A k \in Keys : Purging(k) /\ IsComposite(k) => Purging(k)' \/ k \in cut'
    PROVE  TypeOK' /\ Finite' /\ EntryInv' /\ WholeInv' /\ CutInv'
<1>1. TypeOK' /\ Finite'
  BY Zenon DEF IInv, TypeOK, Finite
<1>2. \A k \in Keys : /\ IsComposite(k)' = IsComposite(k) /\ Whole(k)' = Whole(k)
                      /\ Held(subkey, k)' = Held(subkey, k)
                      /\ Held(zscore, k)' = Held(zscore, k)
  BY Zenon DEF IsComposite, Whole, Held, Under
<1> QED
  BY Zenon, <1>1, <1>2 DEF IInv, EntryInv, WholeInv, CutInv

LEMMA DelPreserves ==
    ASSUME IInv, NEW args \in DelArgs, Del(args)
    PROVE  IInv'
<1>1. /\ job = None /\ UNCHANGED <<metadata, subkey, zscore, drawn, cut>>
      /\ job' = [op |-> "del", args |-> args, at |-> 1, stage |-> "look", start |-> 0]
  BY Zenon DEF Del, cfs
<1>2. args \in Seq(Keys) /\ Len(args) \in Nat
  OBVIOUS
<1>3. job' \in Jobs /\ job' # None
  BY <1>1, <1>2 DEF Jobs
<1>4. TypeOK' /\ Finite' /\ EntryInv' /\ WholeInv' /\ CutInv'
  <2>1. \A k \in Keys : ~Purging(k)
    BY Zenon, <1>1 DEF Purging
  <2>2. cut' \subseteq Keys
    BY Zenon, <1>1 DEF IInv, TypeOK
  <2> QED
    BY Zenon, <1>1, <1>3, <2>1, <2>2, SameStore
<1>5. DelInv' /\ FlushInv' /\ CursorInv'
  BY <1>1, <1>2, <1>3 DEF DelInv, FlushInv, CursorInv
<1> QED
  BY Zenon, <1>4, <1>5 DEF IInv

\* The record of a DEL with another stage, or at the next key.
LEMMA DelMoved ==
    ASSUME TypeOK, job # None, job.op = "del",
           NEW stage \in {"look", "subkey", "score", "metadata"}
    PROVE  LET s == [job EXCEPT !.stage = stage]
               n == [job EXCEPT !.at = @ + 1]
               m == [job EXCEPT !.at = @ + 1, !.stage = "look"]
           IN  /\ s \in Jobs /\ s.op = "del" /\ s.args = job.args
               /\ s.at = job.at /\ s.stage = stage /\ s.start = job.start
               /\ n \in Jobs /\ n.op = "del" /\ n.args = job.args
               /\ n.at = job.at + 1 /\ n.stage = job.stage /\ n.start = job.start
               /\ m \in Jobs /\ m.op = "del" /\ m.args = job.args
               /\ m.at = job.at + 1 /\ m.stage = "look" /\ m.start = job.start
<1> DEFINE Dels == [op : {"del"}, args : Seq(Keys), at : Nat \ {0},
                    stage : {"look", "subkey", "score", "metadata"}, start : Nat]
           s == [job EXCEPT !.stage = stage]
           n == [job EXCEPT !.at = @ + 1]
           m == [job EXCEPT !.at = @ + 1, !.stage = "look"]
<1>1. job \in Dels /\ job.at \in Nat \ {0}
  BY Zenon, DelType
<1>2. /\ s \in Dels /\ s.op = "del" /\ s.args = job.args
      /\ s.at = job.at /\ s.stage = stage /\ s.start = job.start
  BY Zenon, <1>1
<1>3. job.at + 1 \in Nat \ {0}
  BY <1>1
<1>4. /\ n \in Dels /\ n.op = "del" /\ n.args = job.args
      /\ n.at = job.at + 1 /\ n.stage = job.stage /\ n.start = job.start
  BY Zenon, <1>1, <1>3
<1>5. /\ m \in Dels /\ m.op = "del" /\ m.args = job.args
      /\ m.at = job.at + 1 /\ m.stage = "look" /\ m.start = job.start
  BY Zenon, <1>1, <1>3
<1>6. Dels \subseteq Jobs
  BY Zenon DEF Jobs
<1> HIDE DEF Dels
<1> QED
  BY Zenon, <1>2, <1>4, <1>5, <1>6

\* What is in a column family is ahead of the empty start key.
LEMMA AheadOfEmpty ==
    ASSUME TypeOK', job' # None, job'.start = 0
    PROVE  /\ Ahead(MetadataOrder, {k \in Keys : metadata[k] # None})'
           /\ Ahead(SubkeyOrder, subkey)' /\ Ahead(ScoreOrder, zscore)'
           /\ \A k \in Keys : Ahead(SubkeyOrder, Held(subkey, k))' /\ Ahead(ScoreOrder, Held(zscore, k))'
<1>1. /\ \A e \in Entries : SubkeyOrder[e] > 0 /\ ScoreOrder[e] > 0
      /\ \A k \in Keys : MetadataOrder[k] > 0
  BY OrderAssumption
<1>2. subkey' \subseteq Entries /\ zscore' \subseteq Entries
  BY Zenon DEF TypeOK
<1> QED
  BY Zenon, <1>1, <1>2 DEF Ahead, Held, Under

\* One turn of the loop of delete_prefix: what it leaves is ahead of the start
\* key of the next turn, and the last turn leaves nothing.
LEMMA Turn ==
    ASSUME TypeOK, job # None, NEW S, NEW order \in [S -> Nat \ {0}],
           NEW cf, cf \subseteq S, Ahead(order, cf), NEW page, NEW stage,
           page \in PagesOf(order, FromStart(order, cf)),
           Continue(order, FromStart(order, cf), page, stage),
           job.op = "del" => stage \in {"look", "subkey", "score", "metadata"},
           job.op = "flush" => stage \in {"metadata", "subkey", "score", "done"}
    PROVE  /\ page \subseteq cf
           /\ job' \in Jobs /\ job' # None /\ job'.op = job.op
           /\ job.op = "del" => job'.args = job.args /\ job'.at = job.at
           /\ job'.stage = IF page = cf THEN stage ELSE job.stage
           /\ page = cf => job'.start = 0
           /\ \A e \in cf \ page : order[e] > job'.start
<1>1. FromStart(order, cf) = cf
  BY Zenon DEF FromStart, Ahead
<1>2. page \subseteq cf /\ \A d \in page, e \in cf \ page : order[d] < order[e]
  BY Zenon, <1>1 DEF PagesOf
<1>3. CASE page = cf
  <2>1. job' = [job EXCEPT !.stage = stage, !.start = 0]
    BY Zenon, <1>1, <1>3 DEF Continue
  <2>2. /\ job' \in Jobs /\ job'.op = job.op /\ job'.stage = stage /\ job'.start = 0
        /\ job.op = "del" => job'.args = job.args /\ job'.at = job.at
    BY Zenon, <2>1 DEF TypeOK, Jobs
  <2> QED
    BY Zenon, <1>2, <1>3, <2>2
<1>4. CASE page # cf
  <2>1. PICK last \in page : job' = [job EXCEPT !.start = order[last]]
    BY Zenon, <1>1, <1>4 DEF Continue
  <2>2. order[last] \in Nat
    BY Zenon, <1>2
  <2>3. /\ job' \in Jobs /\ job'.op = job.op /\ job'.stage = job.stage
        /\ job'.start = order[last]
        /\ job.op = "del" => job'.args = job.args /\ job'.at = job.at
    BY Zenon, <2>1, <2>2 DEF TypeOK, Jobs
  <2>4. \A e \in cf \ page : order[e] \in Nat
    BY Zenon
  <2> QED
    BY Zenon, <1>2, <1>4, <2>2, <2>3, <2>4
<1> QED
  BY Zenon, <1>3, <1>4

LEMMA DelLookPreserves ==
    ASSUME IInv, DelLook
    PROVE  IInv'
<1>1. /\ job # None /\ job.op = "del" /\ job.stage = "look"
      /\ job.at <= Len(job.args) /\ TypeOK
      /\ UNCHANGED <<metadata, subkey, zscore, drawn, cut>>
  BY Zenon DEF DelLook, DelAt, cfs, IInv
<1>2. /\ job.args \in Seq(Keys) /\ Len(job.args) \in Nat /\ job.at \in Nat \ {0}
      /\ DelKey \in Keys
  BY Zenon, <1>1, DelType
<1>3. \A k \in Keys : ~Purging(k)
  BY Zenon, <1>1 DEF Purging
<1>4. cut' \subseteq Keys
  BY Zenon, <1>1 DEF TypeOK
<1>5. \A i \in 1 .. Len(job.args) : i < job.at => metadata[job.args[i]] = None
  BY Zenon, <1>1 DEF IInv, DelInv
<1>6. job.start = 0
  BY Zenon, <1>1 DEF IInv, CursorInv
<1>7. CASE metadata[DelKey] = None
  <2>1. /\ job' \in Jobs /\ job' # None /\ job'.op = "del" /\ job'.args = job.args
        /\ job'.at = job.at + 1 /\ job'.stage = "look" /\ job'.start = 0
    BY Zenon, <1>1, <1>7, <1>6, DelMoved DEF DelLook
  <2>2. \A i \in 1 .. Len(job'.args) : i < job'.at => metadata'[job'.args[i]] = None
    <3>1. metadata[job.args[job.at]] = None
      BY Zenon, <1>7 DEF DelKey
    <3>2. \A i \in 1 .. Len(job.args) : i < job.at + 1 => i < job.at \/ i = job.at
      BY <1>2
    <3> QED
      BY Zenon, <1>1, <1>5, <2>1, <3>1, <3>2
  <2>3. DelInv' /\ FlushInv' /\ CursorInv'
    BY <1>1, <1>2, <2>1, <2>2 DEF DelInv, FlushInv, CursorInv
  <2> QED
    BY Zenon, <1>1, <1>3, <1>4, <2>1, <2>3, SameStore DEF IInv
<1>8. CASE metadata[DelKey] # None
  <2> DEFINE stage == IF metadata[DelKey].t = "string" THEN "metadata" ELSE "subkey"
  <2>1. /\ job' \in Jobs /\ job' # None /\ job'.op = "del" /\ job'.args = job.args
        /\ job'.at = job.at /\ job'.stage = stage /\ job'.start = 0
    BY <1>1, <1>8, <1>6, DelMoved DEF DelLook
  <2>2. DelKey' = DelKey
    BY Zenon, <2>1 DEF DelKey
  <2>3. DelInv' /\ FlushInv'
    BY <1>1, <1>2, <1>5, <1>8, <2>1, <2>2 DEF DelInv, FlushInv, IsComposite
  <2>4. TypeOK' /\ Finite' /\ EntryInv' /\ WholeInv' /\ CutInv'
    BY Zenon, <1>1, <1>3, <1>4, <2>1, SameStore
  <2>5. Ahead(SubkeyOrder, Held(subkey, DelKey))'
    <3>1. PICK k \in Keys : k = DelKey
      BY Zenon, <1>2
    <3>2. Ahead(SubkeyOrder, Held(subkey, k))'
      BY Zenon, <2>1, <2>4, AheadOfEmpty
    <3> QED
      BY Zenon, <2>2, <3>1, <3>2 DEF Ahead, Held, Under
  <2>6. CursorInv'
    BY Zenon, <2>1, <2>5 DEF CursorInv
  <2> QED
    BY Zenon, <2>3, <2>4, <2>6 DEF IInv
<1> QED
  BY Zenon, <1>7, <1>8

\* A page of a key goes.
LEMMA PagePreserves ==
    ASSUME IInv, TypeOK', NEW k \in Keys, IsComposite(k),
           UNCHANGED <<metadata, drawn, cut>>, Purging(k)',
           \A j \in Keys : Purging(j) => j = k,
           subkey' \subseteq subkey, zscore' \subseteq zscore,
           \A e \in subkey \cup zscore : e[1] # k =>
              (e \in subkey => e \in subkey') /\ (e \in zscore => e \in zscore'),
           metadata[k].t = "zset" => Held(subkey, k)' \subseteq Held(zscore, k)'
    PROVE  Finite' /\ EntryInv' /\ WholeInv' /\ CutInv'
<1>1. /\ TypeOK /\ Finite /\ EntryInv /\ WholeInv /\ CutInv
      /\ IsFiniteSet(subkey) /\ IsFiniteSet(zscore)
  BY Zenon DEF IInv, Finite
<1>2. Finite'
  <2>1. subkey' \in SUBSET subkey /\ zscore' \in SUBSET zscore
    BY Zenon
  <2> QED
    BY Zenon, <1>1, <2>1, FS_Subset DEF Finite
<1>3. \A j \in Keys : j # k =>
        Held(subkey, j)' = Held(subkey, j) /\ Held(zscore, j)' = Held(zscore, j)
  BY DEF Held, Under
<1>4. Held(subkey, k)' \subseteq Held(subkey, k) /\ Held(zscore, k)' \subseteq Held(zscore, k)
  BY Zenon DEF Held, Under
<1>5. Cardinality(Held(subkey, k)') <= metadata[k].size
  <2>1. IsFiniteSet(Held(subkey, k)) /\ Cardinality(Held(subkey, k)) \in Nat
    BY Zenon, <1>1, UnderFinite DEF Held
  <2>2. PICK T : T = Held(subkey, k)'
    BY Zenon
  <2>3. T \in SUBSET Held(subkey, k)
    BY Zenon, <1>4, <2>2
  <2>4. Cardinality(T) <= Cardinality(Held(subkey, k)) /\ Cardinality(T) \in Nat
    BY Zenon, <2>1, <2>3, FS_Subset, FS_CardinalityType
  <2>5. Cardinality(Held(subkey, k)) <= metadata[k].size /\ metadata[k].size \in Nat
    BY Zenon, <1>1, CompositeType DEF CutInv
  <2> QED
    BY <2>1, <2>2, <2>4, <2>5
<1>6. ASSUME NEW j \in Keys, IsComposite(j)'
      PROVE  /\ metadata'[j].ver \in drawn'
             /\ metadata'[j].t = "set" => Held(zscore, j)' = {}
             /\ Whole(j)' \/ Purging(j)' \/ j \in cut'
             /\ Cardinality(Held(subkey, j)') <= metadata'[j].size
             /\ metadata'[j].t = "zset" => Held(subkey, j)' \subseteq Held(zscore, j)'
  <2>1. IsComposite(j)
    BY Zenon, <1>6 DEF IsComposite
  <2>2. CASE j = k
    BY Zenon, <1>1, <1>4, <1>5, <2>1, <2>2 DEF EntryInv
  <2>3. CASE j # k
    <3>1. Held(subkey, j)' = Held(subkey, j) /\ Held(zscore, j)' = Held(zscore, j)
      BY Zenon, <1>3, <2>3
    <3>2. ~Purging(j)
      BY Zenon, <2>3
    <3>3. /\ metadata[j].ver \in drawn
          /\ metadata[j].t = "set" => Held(zscore, j) = {}
          /\ Whole(j) \/ j \in cut
          /\ Cardinality(Held(subkey, j)) <= metadata[j].size
          /\ metadata[j].t = "zset" => Held(subkey, j) \subseteq Held(zscore, j)
      BY Zenon, <1>1, <2>1, <3>2 DEF EntryInv, WholeInv, CutInv
    <3>4. Whole(j)' = Whole(j)
      BY Zenon, <3>1 DEF Whole
    <3> QED
      BY Zenon, <3>1, <3>3, <3>4
  <2> QED
    BY Zenon, <2>2, <2>3
<1> QED
  BY Zenon, <1>1, <1>2, <1>6 DEF EntryInv, WholeInv, CutInv

LEMMA DelSubkeysPreserves ==
    ASSUME IInv, DelSubkeys
    PROVE  IInv'
<1> DEFINE left == Held(subkey, DelKey)
<1>1. PICK page \in PagesOf(SubkeyOrder, FromStart(SubkeyOrder, left)) :
        /\ subkey' = subkey \ page
        /\ Continue(SubkeyOrder, FromStart(SubkeyOrder, left), page, AfterPurge)
  BY Zenon DEF DelSubkeys
<1>2. /\ job # None /\ job.op = "del" /\ job.stage = "subkey" /\ TypeOK
      /\ UNCHANGED <<metadata, zscore, drawn, cut>>
  BY Zenon DEF DelSubkeys, DelAt, IInv
<1>3. /\ page \subseteq left /\ job' \in Jobs /\ job' # None /\ job'.op = "del"
      /\ job'.args = job.args /\ job'.at = job.at
      /\ job'.stage = IF page = left THEN AfterPurge ELSE "subkey"
      /\ page = left => job'.start = 0
      /\ \A e \in left \ page : SubkeyOrder[e] > job'.start
  <2>1. left \subseteq Entries
    BY Zenon, <1>2 DEF TypeOK, Held, Under
  <2>2. Ahead(SubkeyOrder, left)
    BY Zenon, <1>2 DEF IInv, CursorInv
  <2>3. AfterPurge \in {"look", "subkey", "score", "metadata"}
    BY Zenon DEF AfterPurge
  <2>4. SubkeyOrder \in [Entries -> Nat \ {0}] /\ job.op # "flush"
    BY Zenon, <1>2, OrderAssumption
  <2> HIDE DatabaseAssumption DEF left
  <2> QED
    BY <1>1, <1>2, <2>1, <2>2, <2>3, <2>4, Turn
<1>4. /\ job.at <= Len(job.args) /\ DelKey \in Keys
      /\ \A k \in Keys : Purging(k) => k = DelKey
  BY Zenon, <1>2, DelFacts
<1>5. IsComposite(DelKey)
  BY Zenon, <1>2 DEF IInv, DelInv
<1>6. /\ job' \in Jobs /\ job' # None /\ job'.op = "del" /\ job'.args = job.args
      /\ job'.at = job.at
      /\ job'.stage = IF page # left THEN "subkey"
                      ELSE IF metadata[DelKey].t = "zset" THEN "score" ELSE "metadata"
  BY Zenon, <1>3 DEF AfterPurge
<1>7. DelKey' = DelKey /\ Purging(DelKey)'
  BY Zenon, <1>6 DEF DelKey, Purging
<1>8. PICK k \in Keys : k = DelKey
  BY Zenon, <1>4
<1>9. TypeOK'
  BY Zenon, <1>1, <1>2, <1>6 DEF TypeOK
<1>10. /\ Held(subkey, k)' = Held(subkey, k) \ page
       /\ Held(zscore, k)' = Held(zscore, k)
  BY Zenon, <1>1, <1>2 DEF Held, Under
<1>11. \A e \in page : e[1] = k
  BY Zenon, <1>3, <1>8 DEF Held, Under
<1>12. metadata[k].t = "zset" => Held(subkey, k)' \subseteq Held(zscore, k)'
  BY <1>5, <1>8, <1>10 DEF IInv, CutInv
<1>13. IsComposite(k) /\ Purging(k)'
  BY Zenon, <1>5, <1>7, <1>8 DEF Purging
<1>14. Finite' /\ EntryInv' /\ WholeInv' /\ CutInv'
  <2>1. subkey' \subseteq subkey /\ zscore' \subseteq zscore
    BY Zenon, <1>1, <1>2
  <2>2. \A e \in subkey \cup zscore : e[1] # k =>
          (e \in subkey => e \in subkey') /\ (e \in zscore => e \in zscore')
    BY Zenon, <1>1, <1>2, <1>11
  <2>3. \A j \in Keys : Purging(j) => j = k
    BY Zenon, <1>4, <1>8
  <2> QED
    BY Zenon, <1>2, <1>9, <1>12, <1>13, <2>1, <2>2, <2>3, PagePreserves
<1>15. DelInv'
  <2>1. /\ job'.at <= Len(job'.args)
        /\ \A i \in 1 .. Len(job'.args) : i < job'.at => metadata'[job'.args[i]] = None
    BY Zenon, <1>2, <1>4, <1>6 DEF IInv, DelInv
  <2>2. metadata'[DelKey'] # None /\ IsComposite(DelKey)'
    BY Zenon, <1>2, <1>5, <1>7 DEF IsComposite
  <2>3. job'.stage # "subkey" => Held(subkey, k)' = {}
    BY Zenon, <1>6, <1>8, <1>10
  <2>4. job'.stage = "metadata" => Held(zscore, k)' = {}
    <3>1. metadata[k].t = "set" => Held(zscore, k) = {}
      BY Zenon, <1>5, <1>8 DEF IInv, EntryInv
    <3>2. metadata[k].t \in {"set", "zset"}
      BY Zenon, <1>2, <1>5, <1>8, CompositeType
    <3> QED
      BY Zenon, <1>6, <1>8, <1>10, <3>1, <3>2
  <2>5. job'.stage = "score" => metadata'[DelKey'].t = "zset"
    BY Zenon, <1>2, <1>6, <1>7
  <2>6. DelKey' = k
    BY Zenon, <1>7, <1>8
  <2>7. Held(subkey, DelKey)' = Held(subkey, k)' /\ Held(zscore, DelKey)' = Held(zscore, k)'
    BY Zenon, <2>6 DEF Held, Under
  <2>8. job'.at <= Len(job'.args) + 1
    <3>1. job.at \in Nat /\ Len(job.args) \in Nat
      BY Zenon, <1>2, DelType
    <3> QED
      BY <1>4, <1>6, <3>1
  <2> QED
    BY Zenon, <1>6, <2>1, <2>2, <2>3, <2>4, <2>5, <2>7, <2>8 DEF DelInv
<1>16. FlushInv'
  BY Zenon, <1>6 DEF FlushInv
<1>17. CursorInv'
  <2>1. Ahead(SubkeyOrder, Held(subkey, k))' \/ page = left
    BY Zenon, <1>3, <1>8, <1>10 DEF Ahead
  <2>2. page = left => Ahead(ScoreOrder, Held(zscore, k))' /\ job'.start = 0
    BY Zenon, <1>3, <1>9, AheadOfEmpty
  <2>3. /\ Ahead(SubkeyOrder, Held(subkey, DelKey))' = Ahead(SubkeyOrder, Held(subkey, k))'
        /\ Ahead(ScoreOrder, Held(zscore, DelKey))' = Ahead(ScoreOrder, Held(zscore, k))'
    BY Zenon, <1>7, <1>8 DEF Ahead, Held, Under
  <2> HIDE DEF left
  <2> QED
    BY Zenon, <1>6, <2>1, <2>2, <2>3 DEF CursorInv
<1> QED
  BY Zenon, <1>9, <1>14, <1>15, <1>16, <1>17 DEF IInv

LEMMA DelScoresPreserves ==
    ASSUME IInv, DelScores
    PROVE  IInv'
<1> DEFINE left == Held(zscore, DelKey)
<1>1. PICK page \in PagesOf(ScoreOrder, FromStart(ScoreOrder, left)) :
        /\ zscore' = zscore \ page
        /\ Continue(ScoreOrder, FromStart(ScoreOrder, left), page, "metadata")
  BY Zenon DEF DelScores
<1>2. /\ job # None /\ job.op = "del" /\ job.stage = "score" /\ TypeOK
      /\ UNCHANGED <<metadata, subkey, drawn, cut>>
  BY Zenon DEF DelScores, DelAt, IInv
<1>3. /\ page \subseteq left /\ job' \in Jobs /\ job' # None /\ job'.op = "del"
      /\ job'.args = job.args /\ job'.at = job.at
      /\ job'.stage = IF page = left THEN "metadata" ELSE "score"
      /\ page = left => job'.start = 0
      /\ \A e \in left \ page : ScoreOrder[e] > job'.start
  <2>1. left \subseteq Entries
    BY Zenon, <1>2 DEF TypeOK, Held, Under
  <2>2. Ahead(ScoreOrder, left)
    BY Zenon, <1>2 DEF IInv, CursorInv
  <2>3. ScoreOrder \in [Entries -> Nat \ {0}] /\ job.op # "flush"
    BY Zenon, <1>2, OrderAssumption
  <2> HIDE DatabaseAssumption DEF left
  <2> QED
    BY <1>1, <1>2, <2>1, <2>2, <2>3, Turn
<1>4. /\ job.at <= Len(job.args) /\ DelKey \in Keys
      /\ \A k \in Keys : Purging(k) => k = DelKey
  BY Zenon, <1>2, DelFacts
<1>5. /\ IsComposite(DelKey) /\ metadata[DelKey].t = "zset"
      /\ Held(subkey, DelKey) = {}
  BY Zenon, <1>2 DEF IInv, DelInv
<1>6. /\ job' \in Jobs /\ job' # None /\ job'.op = "del" /\ job'.args = job.args
      /\ job'.at = job.at
      /\ job'.stage = IF page # left THEN "score" ELSE "metadata"
  BY Zenon, <1>3
<1>7. DelKey' = DelKey /\ Purging(DelKey)'
  BY Zenon, <1>6 DEF DelKey, Purging
<1>8. PICK k \in Keys : k = DelKey
  BY Zenon, <1>4
<1>9. TypeOK'
  BY Zenon, <1>1, <1>2, <1>6 DEF TypeOK
<1>10. /\ Held(subkey, k)' = {}
       /\ Held(zscore, k)' = Held(zscore, k) \ page
  BY Zenon, <1>1, <1>2, <1>5, <1>8 DEF Held, Under
<1>11. \A e \in page : e[1] = k
  BY Zenon, <1>3, <1>8 DEF Held, Under
<1>12. IsComposite(k) /\ Purging(k)'
  BY Zenon, <1>5, <1>7, <1>8 DEF Purging
<1>13. Finite' /\ EntryInv' /\ WholeInv' /\ CutInv'
  <2>1. subkey' \subseteq subkey /\ zscore' \subseteq zscore
    BY Zenon, <1>1, <1>2
  <2>2. \A e \in subkey \cup zscore : e[1] # k =>
          (e \in subkey => e \in subkey') /\ (e \in zscore => e \in zscore')
    BY Zenon, <1>1, <1>2, <1>11
  <2>3. \A j \in Keys : Purging(j) => j = k
    BY Zenon, <1>4, <1>8
  <2>4. metadata[k].t = "zset" => Held(subkey, k)' \subseteq Held(zscore, k)'
    BY Zenon, <1>10
  <2> QED
    BY Zenon, <1>2, <1>9, <1>12, <2>1, <2>2, <2>3, <2>4, PagePreserves
<1>14. DelInv'
  <2>1. /\ job'.at <= Len(job'.args)
        /\ \A i \in 1 .. Len(job'.args) : i < job'.at => metadata'[job'.args[i]] = None
    BY Zenon, <1>2, <1>4, <1>6 DEF IInv, DelInv
  <2>2. /\ metadata'[DelKey'] # None /\ IsComposite(DelKey)'
        /\ metadata'[DelKey'].t = "zset"
    BY Zenon, <1>2, <1>5, <1>7 DEF IsComposite
  <2>3. job'.stage = "metadata" => Held(zscore, k)' = {}
    BY Zenon, <1>6, <1>8, <1>10
  <2>4. DelKey' = k
    BY Zenon, <1>7, <1>8
  <2>5. Held(subkey, DelKey)' = Held(subkey, k)' /\ Held(zscore, DelKey)' = Held(zscore, k)'
    BY Zenon, <2>4 DEF Held, Under
  <2>6. job'.at <= Len(job'.args) + 1
    <3>1. job.at \in Nat /\ Len(job.args) \in Nat
      BY Zenon, <1>2, DelType
    <3> QED
      BY <1>4, <1>6, <3>1
  <2> QED
    BY Zenon, <1>6, <1>10, <2>1, <2>2, <2>3, <2>5, <2>6 DEF DelInv
<1>15. FlushInv'
  BY Zenon, <1>6 DEF FlushInv
<1>16. CursorInv'
  <2>1. Ahead(ScoreOrder, Held(zscore, k))' \/ page = left
    BY Zenon, <1>3, <1>8, <1>10 DEF Ahead
  <2>2. Ahead(ScoreOrder, Held(zscore, DelKey))' = Ahead(ScoreOrder, Held(zscore, k))'
    BY Zenon, <1>7, <1>8 DEF Ahead, Held, Under
  <2> HIDE DEF left
  <2> QED
    BY Zenon, <1>3, <1>6, <2>1, <2>2 DEF CursorInv
<1> QED
  BY Zenon, <1>9, <1>13, <1>14, <1>15, <1>16 DEF IInv

LEMMA DelMetadataPreserves ==
    ASSUME IInv, DelMetadata
    PROVE  IInv'
<1>1. /\ job # None /\ job.op = "del" /\ job.stage = "metadata" /\ TypeOK
      /\ metadata' = [metadata EXCEPT ![DelKey] = None]
      /\ cut' = cut \ {DelKey}
      /\ UNCHANGED <<subkey, zscore, drawn>>
  BY Zenon DEF DelMetadata, DelAt, IInv
<1>2. /\ job.at <= Len(job.args) /\ DelKey \in Keys
      /\ \A k \in Keys : Purging(k) => k = DelKey
  BY Zenon, <1>1, DelFacts
<1>3. /\ job' \in Jobs /\ job' # None /\ job'.op = "del" /\ job'.args = job.args
      /\ job'.at = job.at + 1 /\ job'.stage = "look" /\ job'.start = 0
  <2>1. job.start = 0
    BY Zenon, <1>1 DEF IInv, CursorInv
  <2> QED
    BY Zenon, <1>1, <2>1, DelMoved DEF DelMetadata
<1>4. /\ metadata'[DelKey] = None
      /\ \A k \in Keys : k # DelKey => metadata'[k] = metadata[k]
      /\ metadata' \in [Keys -> Strings \cup Composites \cup {None}]
  BY Zenon, <1>1, <1>2 DEF TypeOK
<1>5. TypeOK'
  BY Zenon, <1>1, <1>3, <1>4 DEF TypeOK
<1>6. Finite' /\ EntryInv' /\ WholeInv' /\ CutInv'
  <2>1. PICK ks \in SUBSET Keys : ks = {DelKey}
    BY Zenon, <1>2
  <2>2. \A k \in ks : ~IsComposite(k)'
    BY Zenon, <1>4, <2>1 DEF IsComposite
  <2>3. \A k \in Keys \ ks : metadata'[k] = metadata[k] /\ (Purging(k) => Purging(k)')
    BY Zenon, <1>2, <1>4, <2>1
  <2>4. cut' = cut \ ks
    BY Zenon, <1>1, <2>1
  <2> QED
    BY Zenon, <1>1, <1>5, <2>2, <2>3, <2>4, FewerComposites
<1>7. DelInv' /\ FlushInv'
  <2>1. job.args \in Seq(Keys) /\ Len(job.args) \in Nat /\ job.at \in Nat \ {0}
    BY Zenon, <1>1, DelType
  <2>2. \A i \in 1 .. Len(job.args) : i < job.at => metadata[job.args[i]] = None
    BY Zenon, <1>1 DEF IInv, DelInv
  <2>3. ASSUME NEW i \in 1 .. Len(job.args), i < job.at + 1
        PROVE  metadata'[job.args[i]] = None
    <3>1. job.args[i] \in Keys
      BY <2>1
    <3>2. i < job.at \/ i = job.at
      BY <2>1, <2>3
    <3>3. CASE i = job.at
      BY Zenon, <1>4, <3>3 DEF DelKey
    <3>4. CASE i < job.at
      BY <1>4, <2>2, <3>1, <3>4
    <3> QED
      BY Zenon, <3>2, <3>3, <3>4
  <2> QED
    BY <1>2, <1>3, <2>1, <2>3 DEF DelInv, FlushInv
<1>8. CursorInv'
  BY Zenon, <1>3 DEF CursorInv
<1> QED
  BY Zenon, <1>5, <1>6, <1>7, <1>8 DEF IInv

\* The answer, of DEL and of FLUSHDB.
LEMMA DonePreserves ==
    ASSUME IInv, DelDone \/ FlushDone
    PROVE  IInv'
<1>1. job' = None /\ UNCHANGED <<metadata, subkey, zscore, drawn, cut>>
  BY Zenon DEF DelDone, FlushDone, cfs
<1>2. \A k \in Keys : ~Purging(k)
  BY Zenon DEF DelDone, FlushDone, DelAt, FlushAt, Purging
<1>3. cut' \subseteq Keys
  BY Zenon, <1>1 DEF IInv, TypeOK
<1> QED
  BY Zenon, <1>1, <1>2, <1>3, SameStore, NoJob DEF IInv

\* The process ends: the key that was purged is known to be cut.
LEMMA CrashPreserves ==
    ASSUME IInv, Crash
    PROVE  IInv'
<1>1. /\ job' = None /\ UNCHANGED <<metadata, subkey, zscore, drawn>>
      /\ cut' = cut \cup {k \in Keys : Purging(k) /\ IsComposite(k)}
  BY Zenon DEF Crash, cfs
<1>2. cut' \subseteq Keys /\ cut \subseteq cut'
  BY Zenon, <1>1 DEF IInv, TypeOK
<1>3. \A k \in Keys : Purging(k) /\ IsComposite(k) => k \in cut'
  BY Zenon, <1>1
<1> QED
  BY Zenon, <1>1, <1>2, <1>3, SameStore, NoJob DEF IInv

-----------------------------------------------------------------------------
\* FLUSHDB

LEMMA FlushDbPreserves ==
    ASSUME IInv, FlushDb
    PROVE  IInv'
<1>1. /\ job = None /\ UNCHANGED <<metadata, subkey, zscore, drawn, cut>>
      /\ FlushFrom("metadata")
  BY Zenon DEF FlushDb, cfs
<1>2. /\ job' \in Jobs /\ job' # None /\ job'.op = "flush" /\ job'.stage = "metadata"
      /\ job'.start = 0
  BY <1>1 DEF FlushFrom, Jobs
<1>3. \A k \in Keys : ~Purging(k)
  BY Zenon, <1>1 DEF Purging
<1>4. cut' \subseteq Keys
  BY Zenon, <1>1 DEF IInv, TypeOK
<1>5. DelInv' /\ FlushInv'
  BY Zenon, <1>2 DEF DelInv, FlushInv
<1>6. TypeOK' /\ Finite' /\ EntryInv' /\ WholeInv' /\ CutInv'
  BY Zenon, <1>1, <1>2, <1>3, <1>4, SameStore
<1>7. CursorInv'
  BY Zenon, <1>2, <1>6, AheadOfEmpty DEF CursorInv
<1> QED
  BY Zenon, <1>5, <1>6, <1>7 DEF IInv

LEMMA FlushMetadataPreserves ==
    ASSUME IInv, FlushMetadata
    PROVE  IInv'
<1> DEFINE left == {k \in Keys : metadata[k] # None}
<1>1. PICK page \in PagesOf(MetadataOrder, FromStart(MetadataOrder, left)) :
        /\ metadata' = [k \in Keys |-> IF k \in page THEN None ELSE metadata[k]]
        /\ cut' = cut \ page
        /\ Continue(MetadataOrder, FromStart(MetadataOrder, left), page, "subkey")
  BY Zenon DEF FlushMetadata
<1>2. /\ job # None /\ job.op = "flush" /\ job.stage = "metadata" /\ TypeOK
      /\ UNCHANGED <<subkey, zscore, drawn>>
  BY Zenon DEF FlushMetadata, FlushAt, IInv
<1>3. /\ page \subseteq left /\ job' \in Jobs /\ job' # None /\ job'.op = "flush"
      /\ job'.stage = IF page = left THEN "subkey" ELSE "metadata"
      /\ page = left => job'.start = 0
      /\ \A k \in left \ page : MetadataOrder[k] > job'.start
  <2>1. Ahead(MetadataOrder, left)
    BY Zenon, <1>2 DEF IInv, CursorInv
  <2>2. left \subseteq Keys /\ MetadataOrder \in [Keys -> Nat \ {0}] /\ job.op # "del"
    BY Zenon, <1>2, OrderAssumption
  <2>3. /\ page \in PagesOf(MetadataOrder, FromStart(MetadataOrder, left))
        /\ Continue(MetadataOrder, FromStart(MetadataOrder, left), page, "subkey")
    BY Zenon, <1>1
  <2> HIDE DatabaseAssumption DEF left
  <2> QED
    BY <1>2, <2>1, <2>2, <2>3, Turn
<1>4. page \in SUBSET Keys
  BY Zenon, <1>3
<1>5. DelInv'
  BY Zenon, <1>3 DEF DelInv
<1>6. TypeOK'
  BY Zenon, <1>1, <1>2, <1>3 DEF TypeOK
<1>7. \A k \in Keys : ~Purging(k)
  BY Zenon, <1>2 DEF Purging
<1>8. /\ \A k \in page : ~IsComposite(k)'
      /\ \A k \in Keys \ page : metadata'[k] = metadata[k]
  BY Zenon, <1>1, <1>4 DEF IsComposite
<1>9. Finite' /\ EntryInv' /\ WholeInv' /\ CutInv'
  BY Zenon, <1>1, <1>2, <1>4, <1>6, <1>7, <1>8, FewerComposites
<1>10. FlushInv'
  <2>1. page = left => \A k \in Keys : metadata'[k] = None
    BY Zenon, <1>1
  <2> HIDE DEF left
  <2> QED
    BY Zenon, <1>3, <2>1 DEF FlushInv
<1>11. CursorInv'
  <2>1. {k \in Keys : metadata'[k] # None} = left \ page
    BY Zenon, <1>1
  <2>2. Ahead(MetadataOrder, {k \in Keys : metadata[k] # None})' \/ page = left
    BY Zenon, <1>3, <2>1 DEF Ahead
  <2>3. page = left => Ahead(SubkeyOrder, subkey)'
    BY Zenon, <1>3, <1>6, AheadOfEmpty
  <2> HIDE DEF left
  <2> QED
    BY Zenon, <1>3, <2>2, <2>3 DEF CursorInv
<1> QED
  BY Zenon, <1>5, <1>6, <1>9, <1>10, <1>11 DEF IInv

\* Where no metadata are left there is little to show.
LEMMA NoMetadata ==
    ASSUME IInv, TypeOK', UNCHANGED <<metadata, drawn>>,
           \A k \in Keys : metadata[k] = None,
           subkey' \subseteq subkey, zscore' \subseteq zscore
    PROVE  Finite' /\ EntryInv' /\ WholeInv' /\ CutInv'
<1>1. subkey' \in SUBSET subkey /\ zscore' \in SUBSET zscore
  BY Zenon
<1>2. Finite'
  BY Zenon, <1>1, FS_Subset DEF IInv, Finite
<1>3. \A k \in Keys : ~IsComposite(k)'
  BY Zenon DEF IsComposite
<1> QED
  BY Zenon, <1>2, <1>3 DEF IInv, EntryInv, WholeInv, CutInv

LEMMA FlushSubkeysPreserves ==
    ASSUME IInv, FlushSubkeys
    PROVE  IInv'
<1>1. PICK page \in PagesOf(SubkeyOrder, FromStart(SubkeyOrder, subkey)) :
        /\ subkey' = subkey \ page
        /\ Continue(SubkeyOrder, FromStart(SubkeyOrder, subkey), page, "score")
  BY Zenon DEF FlushSubkeys
<1>2. /\ job # None /\ job.op = "flush" /\ job.stage = "subkey" /\ TypeOK
      /\ UNCHANGED <<metadata, zscore, drawn, cut>>
  BY Zenon DEF FlushSubkeys, FlushAt, IInv
<1>3. /\ page \subseteq subkey /\ job' \in Jobs /\ job' # None /\ job'.op = "flush"
      /\ job'.stage = IF page = subkey THEN "score" ELSE "subkey"
      /\ page = subkey => job'.start = 0
      /\ \A e \in subkey \ page : SubkeyOrder[e] > job'.start
  <2>1. Ahead(SubkeyOrder, subkey)
    BY Zenon, <1>2 DEF IInv, CursorInv
  <2>2. subkey \subseteq Entries /\ SubkeyOrder \in [Entries -> Nat \ {0}] /\ job.op # "del"
    BY Zenon, <1>2, OrderAssumption DEF TypeOK
  <2> HIDE DatabaseAssumption
  <2> QED
    BY <1>1, <1>2, <2>1, <2>2, Turn
<1>4. DelInv'
  BY Zenon, <1>3 DEF DelInv
<1>5. \A k \in Keys : metadata[k] = None
  BY Zenon, <1>2 DEF IInv, FlushInv
<1>6. TypeOK'
  BY Zenon, <1>1, <1>2, <1>3 DEF TypeOK
<1>7. Finite' /\ EntryInv' /\ WholeInv' /\ CutInv'
  BY Zenon, <1>1, <1>2, <1>5, <1>6, NoMetadata
<1>8. FlushInv'
  BY Zenon, <1>1, <1>2, <1>3, <1>5 DEF FlushInv
<1>9. CursorInv'
  <2>1. Ahead(SubkeyOrder, subkey)' \/ page = subkey
    BY Zenon, <1>1, <1>3 DEF Ahead
  <2>2. page = subkey => Ahead(ScoreOrder, zscore)'
    BY Zenon, <1>3, <1>6, AheadOfEmpty
  <2> QED
    BY Zenon, <1>3, <2>1, <2>2 DEF CursorInv
<1> QED
  BY Zenon, <1>4, <1>6, <1>7, <1>8, <1>9 DEF IInv

LEMMA FlushScoresPreserves ==
    ASSUME IInv, FlushScores
    PROVE  IInv'
<1>1. PICK page \in PagesOf(ScoreOrder, FromStart(ScoreOrder, zscore)) :
        /\ zscore' = zscore \ page
        /\ Continue(ScoreOrder, FromStart(ScoreOrder, zscore), page, "done")
  BY Zenon DEF FlushScores
<1>2. /\ job # None /\ job.op = "flush" /\ job.stage = "score" /\ TypeOK
      /\ UNCHANGED <<metadata, subkey, drawn, cut>>
  BY Zenon DEF FlushScores, FlushAt, IInv
<1>3. /\ page \subseteq zscore /\ job' \in Jobs /\ job' # None /\ job'.op = "flush"
      /\ job'.stage = IF page = zscore THEN "done" ELSE "score"
      /\ page = zscore => job'.start = 0
      /\ \A e \in zscore \ page : ScoreOrder[e] > job'.start
  <2>1. Ahead(ScoreOrder, zscore)
    BY Zenon, <1>2 DEF IInv, CursorInv
  <2>2. zscore \subseteq Entries /\ ScoreOrder \in [Entries -> Nat \ {0}] /\ job.op # "del"
    BY Zenon, <1>2, OrderAssumption DEF TypeOK
  <2> HIDE DatabaseAssumption
  <2> QED
    BY <1>1, <1>2, <2>1, <2>2, Turn
<1>4. DelInv'
  BY Zenon, <1>3 DEF DelInv
<1>5. subkey = {} /\ \A k \in Keys : metadata[k] = None
  BY Zenon, <1>2 DEF IInv, FlushInv
<1>6. TypeOK'
  BY Zenon, <1>1, <1>2, <1>3 DEF TypeOK
<1>7. Finite' /\ EntryInv' /\ WholeInv' /\ CutInv'
  BY Zenon, <1>1, <1>2, <1>5, <1>6, NoMetadata
<1>8. FlushInv'
  BY Zenon, <1>1, <1>2, <1>3, <1>5 DEF FlushInv
<1>9. CursorInv'
  <2>1. Ahead(ScoreOrder, zscore)' \/ page = zscore
    BY Zenon, <1>1, <1>3 DEF Ahead
  <2> QED
    BY Zenon, <1>3, <2>1 DEF CursorInv
<1> QED
  BY Zenon, <1>4, <1>6, <1>7, <1>8, <1>9 DEF IInv

-----------------------------------------------------------------------------

LEMMA NextIInv == IInv /\ [Next]_vars => IInv'
<1> SUFFICES ASSUME IInv, [Next]_vars PROVE IInv'
  BY Zenon
<1>1. CASE JobStep
  BY Zenon, <1>1, DelLookPreserves, DelSubkeysPreserves, DelScoresPreserves,
     DelMetadataPreserves, DonePreserves, FlushMetadataPreserves,
     FlushSubkeysPreserves, FlushScoresPreserves
  DEF JobStep
<1>2. CASE UNCHANGED vars
  <2>1. UNCHANGED <<metadata, subkey, zscore, drawn, job, cut>>
    BY Zenon, <1>2 DEF vars
  <2>2. /\ \A k : /\ IsComposite(k)' = IsComposite(k) /\ Whole(k)' = Whole(k)
                  /\ Purging(k)' = Purging(k)
                  /\ Held(subkey, k)' = Held(subkey, k)
                  /\ Held(zscore, k)' = Held(zscore, k)
        /\ DelKey' = DelKey
    BY Zenon, <2>1 DEF IsComposite, Whole, Held, Under, Purging, DelKey
  <2>3. TypeOK' /\ Finite' /\ FlushInv'
    BY Zenon, <2>1 DEF IInv, TypeOK, Finite, FlushInv
  <2>4. EntryInv' /\ WholeInv' /\ CutInv'
    BY Zenon, <2>1, <2>2 DEF IInv, EntryInv, WholeInv, CutInv
  <2>5. DelInv' /\ CursorInv'
    BY Zenon, <2>1 DEF IInv, DelInv, CursorInv, Ahead, IsComposite, Held, Under, DelKey
  <2> QED
    BY Zenon, <2>3, <2>4, <2>5 DEF IInv
<1> QED
  BY Zenon, <1>1, <1>2, AddPreserves, RemovePreserves, MSetPreserves, DelPreserves,
     FlushDbPreserves, CrashPreserves
  DEF Next

\* The database keeps to the inductive invariant.
THEOREM Invariance == Spec => []IInv
  BY InitIInv, NextIInv, PTL DEF Spec

\* The column families stay well typed.
THEOREM TypeCorrect == Spec => []TypeOK
<1>1. IInv => TypeOK
  BY Zenon DEF IInv
<1> QED
  BY <1>1, Invariance, PTL

\* A key is whole unless its DEL is under way or was cut by a crash
\* (string.rs:324): a crash in any other command, FLUSHDB included
\* (admin.rs:116), leaves every key whole or gone.
THEOREM Wholeness == Spec => []WholeInv
<1>1. IInv => WholeInv
  BY Zenon DEF IInv
<1> QED
  BY <1>1, Invariance, PTL

\* After a cut DEL, and whatever is then done to the key, the size is no less
\* than the number of members and zset_score has all of them (string.rs:337).
THEOREM CutBounded == Spec => []CutInv
<1>1. IInv => CutInv
  BY Zenon DEF IInv
<1> QED
  BY <1>1, Invariance, PTL

\* When DEL or FLUSHDB answers, what it was to delete is gone (string.rs:308,
\* admin.rs:116), through any number of crashes before.
THEOREM Gone == Spec => []AnsweredMeansGone
<1>1. ASSUME IInv PROVE AnsweredMeansGone
  <2>1. ASSUME DelAt("look"), job.at > Len(job.args), NEW i \in 1 .. Len(job.args)
        PROVE  metadata[job.args[i]] = None
    <3>1. job # None /\ job.op = "del"
      BY Zenon, <2>1 DEF DelAt
    <3>2. i < job.at
      BY <1>1, <2>1, <3>1, DelType DEF IInv
    <3> QED
      BY Zenon, <1>1, <3>1, <3>2 DEF IInv, DelInv
  <2>2. ASSUME FlushAt("done")
        PROVE  subkey = {} /\ zscore = {} /\ \A k \in Keys : metadata[k] = None
    BY Zenon, <1>1, <2>2 DEF IInv, FlushInv, FlushAt
  <2> QED
    BY Zenon, <2>1, <2>2 DEF AnsweredMeansGone
<1> QED
  BY <1>1, Invariance, PTL

\* DEL makes no entries that nobody can reach (string.rs:324 before
\* string.rs:329), whether it ends or is cut.
THEOREM NoGarbage == Spec => DelLeavesNoGarbage
<1>1. ASSUME IInv, Next, job # None, job.op = "del"
      PROVE  Garbage' \subseteq Garbage
  <2>1. CASE UNCHANGED metadata /\ subkey' \subseteq subkey /\ zscore' \subseteq zscore
    BY Zenon, <2>1 DEF Garbage
  <2>2. CASE DelMetadata
    <3>1. /\ job.stage = "metadata" /\ TypeOK
          /\ metadata' = [metadata EXCEPT ![DelKey] = None]
          /\ UNCHANGED <<subkey, zscore>>
      BY Zenon, <1>1, <2>2 DEF DelMetadata, DelAt, IInv
    <3>2. DelKey \in Keys /\ metadata[DelKey] # None
      BY Zenon, <1>1, <3>1, DelFacts
    <3>3. IsComposite(DelKey) => Held(subkey, DelKey) = {} /\ Held(zscore, DelKey) = {}
      BY Zenon, <1>1, <3>1 DEF IInv, DelInv
    <3>4. SUFFICES ASSUME NEW e \in subkey \cup zscore, e[1] = DelKey
                   PROVE  metadata[DelKey].ver # e[2]
      BY Zenon, <3>1, <3>2 DEF Garbage, TypeOK, Entries
    <3>5. CASE IsComposite(DelKey)
      BY Zenon, <3>3, <3>4, <3>5 DEF Held, Under
    <3>6. CASE ~IsComposite(DelKey)
      <4>1. metadata[DelKey] \in Strings
        BY Zenon, <3>1, <3>2, <3>6 DEF TypeOK, IsComposite, Composites
      <4>2. metadata[DelKey].ver = None
        BY Zenon, <4>1 DEF Strings
      <4>3. e[2] \in Versions
        BY Zenon, <3>1, <3>4 DEF TypeOK, Entries
      <4> QED
        BY Zenon, <4>2, <4>3
    <3> QED
      BY Zenon, <3>5, <3>6
  <2>3. CASE DelSubkeys
    BY Zenon, <2>1, <2>3 DEF DelSubkeys
  <2>4. CASE DelScores
    BY Zenon, <2>1, <2>4 DEF DelScores
  <2>5. CASE DelLook \/ DelDone \/ Crash
    BY Zenon, <2>1, <2>5 DEF DelLook, DelDone, Crash, cfs
  <2> QED
    BY Zenon, <1>1, <2>2, <2>3, <2>4, <2>5
    DEF Next, JobStep, Add, Remove, MSet, Del, FlushDb, Idle, FlushMetadata,
        FlushSubkeys, FlushScores, FlushDone, FlushAt
<1>2. IInv /\ [Next]_vars => [(job # None /\ job.op = "del") => Garbage' \subseteq Garbage]_vars
  BY Zenon, <1>1
<1> QED
  BY <1>2, Invariance, PTL DEF Spec, DelLeavesNoGarbage
=============================================================================
