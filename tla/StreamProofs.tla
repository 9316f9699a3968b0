---------------------------- MODULE StreamProofs ----------------------------
(***************************************************************************)
(* Ids of a stream grow and its size is the number of its entries, for     *)
(* every set of versions, values and id arguments, any bounds and a clock  *)
(* that goes back and forth.  The three conditions are those under which   *)
(* it is true: no version is drawn twice, EXPIRE leaves the stream alone,  *)
(* and the sequence number stays below u64::MAX.                           *)
(***************************************************************************)
EXTENDS StreamType, KeyspaceProofs, FiniteSetTheorems

\* No key ever gets an expiry.
NoExpiry == TTLs = {}
Forever == IF meta = None THEN TRUE ELSE meta.exp = 0

\* The sequence number has not reached u64::MAX.
Below == IsStream => meta.last[2] < MaxSeq

\* No entry is after the last id.
LastInv ==
    IsStream => meta.last \in Ids /\ \A id \in EntryIds(meta.ver) : AtMost(id, meta.last)

\* The inductive invariant.  A new stream starts under a version without
\* entries, for which DrawnInv is needed.
IInv ==
    /\ KeyTypeOK /\ DrawnInv /\ Forever /\ now \in 0 .. MaxMs
    /\ LastInv /\ SizeInv

USE NoneAssumption

-----------------------------------------------------------------------------
\* The order of ids

LEMMA LessIds ==
    ASSUME NEW d \in Ids, NEW e \in Ids
    PROVE  Less(d, e) <=> d[1] < e[1] \/ (d[1] = e[1] /\ d[2] < e[2])
<1>1. /\ d[1] \in Nat /\ d[2] \in Nat /\ e[1] \in Nat /\ e[2] \in Nat
      /\ Len(d) = 2
  BY StreamAssumption DEF Ids
<1>2. ASSUME d[1] < e[1] PROVE Less(d, e)
  <2>1. 1 \in 1 .. Len(d) /\ \A j \in 1 .. 1-1 : d[j] = e[j]
    BY <1>1
  <2> QED
    BY <1>2, <2>1 DEF Less
<1>3. ASSUME d[1] = e[1], d[2] < e[2] PROVE Less(d, e)
  <2>1. 2 \in 1 .. Len(d) /\ \A j \in 1 .. 2-1 : d[j] = e[j]
    BY <1>1, <1>3
  <2> QED
    BY <1>3, <2>1 DEF Less
<1>4. ASSUME Less(d, e) PROVE d[1] < e[1] \/ (d[1] = e[1] /\ d[2] < e[2])
  <2>1. PICK i \in 1 .. 2 : d[i] < e[i] /\ \A j \in 1 .. i-1 : d[j] = e[j]
    BY <1>1, <1>4 DEF Less
  <2>2. CASE i = 1
    BY <2>1, <2>2
  <2>3. CASE i = 2
    BY <2>1, <2>3
  <2> QED
    BY <2>2, <2>3
<1> QED
  BY <1>2, <1>3, <1>4

LEMMA LessBehind ==
    ASSUME NEW d \in Ids, NEW e \in Ids, NEW f \in Ids, AtMost(d, e), Less(e, f)
    PROVE  Less(d, f) /\ d # f
<1>1. \A i \in Ids : i[1] \in Int /\ i[2] \in Int
  BY StreamAssumption DEF Ids
<1> QED
  BY <1>1, LessIds DEF AtMost

LEMMA IdsType == Ids \subseteq Nat \X Nat
  BY StreamAssumption DEF Ids

LEMMA FiniteIds == IsFiniteSet(Ids)
<1>1. IsFiniteSet(0 .. MaxMs) /\ IsFiniteSet(0 .. MaxSeq)
  BY StreamAssumption, FS_Interval
<1> QED
  BY <1>1, FS_Product DEF Ids

\* What generate_id returns is an id after the last one, unless the stream
\* is empty.
LEMMA Generated ==
    ASSUME NEW spec \in Specs, NEW m \in Metas, m.last \in Ids,
           m.size = 0 \/ m.last[2] < MaxSeq, now \in 0 .. MaxMs,
           NEW id \in GenerateId(spec, m), Len(id) = 2
    PROVE  id \in Ids /\ (m.size = 0 \/ Less(m.last, id))
<1>1. /\ m.last[1] \in 0 .. MaxMs /\ m.last[2] \in 0 .. MaxSeq /\ m.size \in Nat
      /\ MaxMs \in Nat /\ MaxSeq \in Nat
      /\ spec \in IdSpecs
  BY StreamAssumption DEF Ids, Metas
<1>2. ASSUME id \in NextInMs(m)
      PROVE  id \in Ids /\ (m.size = 0 \/ Less(m.last, id))
  <2>1. CASE m.last[2] < MaxSeq
    <3>1. id = <<m.last[1], m.last[2] + 1>>
      BY <1>2, <2>1 DEF NextInMs
    <3>2. id \in Ids /\ id[1] = m.last[1] /\ id[2] = m.last[2] + 1
      BY <1>1, <2>1, <3>1 DEF Ids
    <3> QED
      BY <1>1, <3>2, LessIds
  <2>2. CASE ~(m.last[2] < MaxSeq)
    <3>1. id = <<m.last[1], 0>>
      BY <1>2, <2>2 DEF NextInMs
    <3> QED
      BY <1>1, <2>2, <3>1 DEF Ids
  <2> QED
    BY <2>1, <2>2
<1>3. ASSUME NEW ms \in 0 .. MaxMs, ms > m.last[1], id = <<ms, 0>>
      PROVE  id \in Ids /\ Less(m.last, id)
  <2>1. id \in Ids /\ id[1] = ms
    BY <1>1, <1>3 DEF Ids
  <2> QED
    BY <1>3, <2>1, LessIds
<1>4. CASE spec.kind = "auto"
  BY <1>2, <1>3, <1>4 DEF GenerateId
<1>5. CASE spec.kind = "ms"
  <2>1. spec.ms \in 0 .. MaxMs
    BY <1>1, <1>5 DEF IdSpecs
  <2> QED
    BY <1>2, <1>3, <1>5, <2>1 DEF GenerateId
<1>6. CASE spec.kind = "id"
  <2>1. spec.id \in Ids
    BY <1>1, <1>6 DEF IdSpecs
  <2>2. id = spec.id /\ ~(m.size > 0 /\ AtMost(spec.id, m.last))
    BY <1>6 DEF GenerateId
  <2>3. m.size = 0 \/ ~AtMost(id, m.last)
    BY <1>1, <2>2
  <2>4. ~AtMost(id, m.last) => Less(m.last, id)
    <3>1. /\ id[1] \in Int /\ id[2] \in Int /\ m.last[1] \in Int /\ m.last[2] \in Int
          /\ id[1] = m.last[1] /\ id[2] = m.last[2] => id = m.last
      BY <1>1, <2>1, <2>2 DEF Ids
    <3> QED
      BY <2>1, <2>2, <3>1, LessIds DEF AtMost
  <2> QED
    BY <2>1, <2>2, <2>3, <2>4
<1> QED
  BY <1>1, <1>4, <1>5, <1>6 DEF IdSpecs

-----------------------------------------------------------------------------
\* Commands on keys

\* Without expiries a command on keys leaves a stream as it is or removes it.
LEMMA KeyStepForever ==
    ASSUME NoExpiry, KeyTypeOK, Forever, KeyCommand, now \in 0 .. MaxMs
    PROVE  /\ Forever' /\ now' \in 0 .. MaxMs
           /\ NoComposite' \/ (meta' = meta /\ sub' = sub)
<1> DEFINE Goal == /\ Forever' /\ now' \in 0 .. MaxMs
                   /\ NoComposite' \/ (meta' = meta /\ sub' = sub)
<1>1. ASSUME Unchanged PROVE Goal
  BY <1>1 DEF Unchanged, Forever
<1>2. ASSUME SetString(0) PROVE Goal
  <2>1. meta' = StringMeta(0) /\ now' = now
    BY <1>2 DEF SetString
  <2>2. StringMeta(0).exp = 0 /\ StringMeta(0).t = "string"
    BY DEF StringMeta, NewMeta
  <2> QED
    BY <2>1, <2>2 DEF Forever, NoComposite
<1>3. ASSUME NEW ttl \in TTLs \cup {0}, Set(ttl) PROVE Goal
  BY <1>2, <1>3 DEF NoExpiry, Set
<1>4. CASE SetNX
  BY <1>1, <1>2, <1>4 DEF SetNX
<1>5. CASE SetXX
  BY <1>1, <1>2, <1>5 DEF SetXX
<1>6. CASE Del
  <2>1. CASE meta = None
    BY <1>1, <1>6, <2>1 DEF Del
  <2>2. CASE meta # None
    <3>1. meta' = None /\ now' = now
      BY <1>6, <2>2 DEF Del
    <3> QED
      BY <3>1 DEF Forever, NoComposite
  <2> QED
    BY <2>1, <2>2
<1>7. CASE Persist
  <2>1. ~HasExpiry
    BY DEF HasExpiry, Forever
  <2> QED
    BY <1>1, <1>7, <2>1 DEF Persist
<1>8. CASE FlushDb
  BY <1>8 DEF FlushDb, Forever, NoComposite
<1>9. CASE Tick
  <2>1. now' \in 0 .. MaxMs
    BY <1>9, StreamAssumption, ClockAssumption DEF Tick
  <2> QED
    BY <1>9, <2>1 DEF Tick, Forever
<1> QED
  BY <1>3, <1>4, <1>5, <1>6, <1>7, <1>8, <1>9 DEF KeyCommand, NoExpiry

LEMMA SameStream ==
    ASSUME LastInv, SizeInv, NoComposite' \/ (meta' = meta /\ sub' = sub)
    PROVE  LastInv' /\ SizeInv'
<1>1. CASE NoComposite'
  BY <1>1 DEF NoComposite, LastInv, SizeInv, IsStream
<1>2. CASE meta' = meta /\ sub' = sub
  BY <1>2 DEF LastInv, SizeInv, IsStream, EntryIds
<1> QED
  BY <1>1, <1>2

LEMMA KeyCommandPreserves ==
    ASSUME NoExpiry, IInv, KeyCommand
    PROVE  IInv'
<1>1. KeyTypeOK' /\ DrawnInv'
  BY KeyStep DEF IInv
<1>2. /\ Forever' /\ now' \in 0 .. MaxMs
      /\ NoComposite' \/ (meta' = meta /\ sub' = sub)
  BY KeyStepForever DEF IInv
<1> QED
  BY <1>1, <1>2, SameStream DEF IInv

-----------------------------------------------------------------------------
\* XADD

\* Metadata with one more entry
LEMMA Appended ==
    ASSUME NEW m \in Metas, NEW id \in Nat \X Nat
    PROVE  LET r == [m EXCEPT !.size = @ + 1, !.last = id]
           IN  /\ r \in Metas /\ r.t = m.t /\ r.ver = m.ver /\ r.exp = m.exp
               /\ r.size = m.size + 1 /\ r.last = id
<1>1. LET q == [m EXCEPT !.size = m.size + 1]
      IN  /\ q \in Metas /\ q.t = m.t /\ q.ver = m.ver /\ q.exp = m.exp
          /\ q.size = m.size + 1
  BY DEF Metas
<1>2. ASSUME NEW q \in Metas
      PROVE  LET r == [q EXCEPT !.last = id]
             IN  /\ r \in Metas /\ r.t = q.t /\ r.ver = q.ver /\ r.exp = q.exp
                 /\ r.size = q.size /\ r.last = id
  BY DEF Metas
<1>3. [m EXCEPT !.size = @ + 1, !.last = id]
        = [[m EXCEPT !.size = m.size + 1] EXCEPT !.last = id]
  BY DEF Metas
<1> QED
  BY <1>1, <1>2, <1>3

LEMMA XAddToPreserves ==
    ASSUME IInv, NEW spec, NEW value \in Vals, NEW m \in Metas, NEW id \in Ids,
           XAddTo(spec, m, id, value), m.t = "stream", m.exp = 0, m.ver \in Versions,
           m.last \in Ids, \A e \in EntryIds(m.ver) : AtMost(e, m.last),
           m.size = Cardinality(EntryIds(m.ver)),
           m.size = 0 \/ Less(m.last, id)
    PROVE  IInv' /\ \A e \in EntryIds(m.ver) : Less(e, id)
<1> DEFINE old == EntryIds(m.ver)
<1>1. /\ sub' = [sub EXCEPT ![m.ver][id] = value]
      /\ drawn' = drawn \cup {m.ver} /\ score' = score /\ now' = now
  BY DEF XAddTo
<1>2. /\ meta' \in Metas /\ meta'.t = "stream" /\ meta'.ver = m.ver /\ meta'.exp = 0
      /\ meta'.size = m.size + 1 /\ meta'.last = id
  BY IdsType, Appended DEF XAddTo
<1>3. Fields = Ids
  BY StreamAssumption
<1>4. /\ sub' \in [Versions -> [Fields -> Vals \cup {None}]]
      /\ \A u \in Versions : u # m.ver => sub'[u] = sub[u]
      /\ \A f \in Fields : sub'[m.ver][f] = IF f = id THEN value ELSE sub[m.ver][f]
  BY <1>1, <1>3 DEF IInv, KeyTypeOK
<1>5. old \subseteq Ids /\ IsFiniteSet(old)
  <2>1. old \subseteq Ids
    BY <1>3 DEF EntryIds
  <2> QED
    BY <2>1, FiniteIds, FS_Subset
<1>6. \A e \in old : Less(e, id) /\ e # id
  <2>1. CASE m.size = 0
    BY <1>5, <2>1, FS_EmptySet
  <2>2. CASE Less(m.last, id)
    BY <1>5, <2>2, LessBehind
  <2> QED
    BY <2>1, <2>2
<1>7. {f \in Fields : sub'[m.ver][f] # None} = old \cup {id}
  BY <1>3, <1>4 DEF EntryIds
<1>8. Cardinality(old \cup {id}) = m.size + 1
  <2>1. id \notin old
    BY <1>6
  <2>2. m.size = Cardinality(old)
    OBVIOUS
  <2> HIDE DEF old
  <2>3. Cardinality(old \cup {id}) = IF id \in old THEN Cardinality(old) ELSE Cardinality(old) + 1
    BY <1>5, FS_AddElement, Zenon
  <2> QED
    BY <2>1, <2>2, <2>3
<1>9. SizeInv'
  BY <1>2, <1>7, <1>8 DEF SizeInv, EntryIds
<1>10. LastInv'
  <2>1. \A e \in {f \in Fields : sub'[m.ver][f] # None} : AtMost(e, id)
    BY <1>6, <1>7 DEF AtMost
  <2> QED
    BY <1>2, <2>1 DEF LastInv, EntryIds
<1>11. KeyTypeOK'
  BY <1>1, <1>2, <1>4 DEF IInv, KeyTypeOK
<1>12. DrawnInv'
  BY <1>1, <1>2, <1>4 DEF IInv, DrawnInv
<1>13. Forever' /\ now' \in 0 .. MaxMs
  BY <1>1, <1>2 DEF IInv, Forever
<1> QED
  BY <1>6, <1>9, <1>10, <1>11, <1>12, <1>13 DEF IInv

\* The metadata XADD starts from: those of the stream or new ones.
LEMMA XAddStart ==
    ASSUME UniqueVersions, IInv, Below, ~OtherType,
           NEW m \in IF Live THEN {meta} ELSE {NewMeta("stream", v) : v \in GenerateVersion}
    PROVE  /\ m \in Metas /\ m.t = "stream" /\ m.exp = 0 /\ m.ver \in Versions
           /\ m.last \in Ids /\ \A e \in EntryIds(m.ver) : AtMost(e, m.last)
           /\ m.size = Cardinality(EntryIds(m.ver))
           /\ m.size = 0 \/ m.last[2] < MaxSeq
<1>1. CASE Live
  <2>1. m = meta /\ meta # None /\ meta.t = "stream" /\ IsStream
    BY <1>1 DEF Live, IsStream
  <2>2. meta \in Metas /\ meta.ver \in Versions /\ meta.exp = 0
    BY <2>1 DEF IInv, KeyTypeOK, DrawnInv, Forever
  <2>3. /\ meta.last \in Ids /\ \A e \in EntryIds(meta.ver) : AtMost(e, meta.last)
        /\ meta.size = Cardinality(EntryIds(meta.ver))
        /\ meta.last[2] < MaxSeq
    BY <2>1 DEF IInv, LastInv, SizeInv, Below
  <2> QED
    BY <2>1, <2>2, <2>3
<1>2. CASE ~Live
  <2>1. PICK v \in Versions \ drawn : m = NewMeta("stream", v)
    BY <1>2 DEF GenerateVersion
  <2>2. m \in Metas /\ m.t = "stream" /\ m.ver = v /\ m.size = 0
    BY <2>1, NewMetaType DEF Types
  <2>3. m.exp = 0 /\ m.last = <<0, 0>>
    BY <2>1 DEF NewMeta, NoId
  <2>4. <<0, 0>> \in Ids
    BY StreamAssumption DEF Ids
  <2>5. EntryIds(v) = {}
    BY <2>1 DEF IInv, DrawnInv, NoFields, EntryIds
  <2> QED
    BY <2>1, <2>2, <2>3, <2>4, <2>5, FS_EmptySet
<1> QED
  BY <1>1, <1>2

LEMMA XAddPreserves ==
    ASSUME UniqueVersions, IInv, Below, NEW spec \in Specs, NEW value \in Vals,
           XAdd(spec, value)
    PROVE  /\ IInv'
           /\ Live /\ meta' # meta => \A e \in EntryIds(meta.ver) : Less(e, meta'.last)
<1>1. PICK m \in IF Live THEN {meta} ELSE {NewMeta("stream", v) : v \in GenerateVersion} :
        \E id \in GenerateId(spec, m) :
          \/ Len(id) = 2 /\ XAddTo(spec, m, id, value)
          \/ Len(id) = 1 /\ Unchanged
  BY DEF XAdd
<1>2. PICK id \in GenerateId(spec, m) :
          \/ Len(id) = 2 /\ XAddTo(spec, m, id, value)
          \/ Len(id) = 1 /\ Unchanged
  BY <1>1
<1>3. CASE Unchanged
  BY <1>3 DEF Unchanged, IInv, KeyTypeOK, DrawnInv, Forever, LastInv, SizeInv,
              IsStream, EntryIds
<1>4. CASE Len(id) = 2 /\ XAddTo(spec, m, id, value)
  <2>1. ~OtherType
    BY DEF XAdd
  <2>2. /\ m \in Metas /\ m.t = "stream" /\ m.exp = 0 /\ m.ver \in Versions
        /\ m.last \in Ids /\ \A e \in EntryIds(m.ver) : AtMost(e, m.last)
        /\ m.size = Cardinality(EntryIds(m.ver))
        /\ m.size = 0 \/ m.last[2] < MaxSeq
    BY <2>1, XAddStart
  <2>3. id \in Ids /\ (m.size = 0 \/ Less(m.last, id))
    BY <1>4, <2>2, Generated DEF IInv
  <2>4. IInv' /\ \A e \in EntryIds(m.ver) : Less(e, id)
    BY <1>4, <2>2, <2>3, XAddToPreserves
  <2>5. meta'.last = id
    BY <1>4, <2>2, <2>3, IdsType, Appended DEF XAddTo
  <2>6. Live => m = meta
    BY <1>1
  <2> QED
    BY <2>4, <2>5, <2>6
<1> QED
  BY <1>2, <1>3, <1>4

-----------------------------------------------------------------------------

LEMMA InitIInv == Init => IInv
<1> SUFFICES ASSUME KeyInit PROVE IInv
  BY DEF Init
<1>1. now \in 0 .. MaxMs
  BY StreamAssumption DEF KeyInit
<1> QED
  BY <1>1, KeyInitInv DEF KeyInit, IInv, Forever, LastInv, SizeInv, IsStream

LEMMA NextIInv ==
    UniqueVersions /\ NoExpiry /\ IInv /\ Below /\ [Next]_keyVars => IInv'
<1> SUFFICES ASSUME UniqueVersions, NoExpiry, IInv, Below, [Next]_keyVars
             PROVE  IInv'
  OBVIOUS
<1>1. ASSUME UNCHANGED <<meta, sub, score, drawn>>, now' \in 0 .. MaxMs
      PROVE  IInv'
  BY <1>1, StreamAssumption DEF IInv, KeyTypeOK, DrawnInv, Forever, LastInv, SizeInv,
                               IsStream, EntryIds
<1>2. ASSUME Unchanged PROVE IInv'
  BY <1>1, <1>2 DEF Unchanged, IInv
<1>3. CASE StreamRead
  BY <1>2, <1>3 DEF StreamRead, Refused, XLen, XRange
<1>4. CASE ClockBack
  <2>1. now' \in 0 .. MaxMs
    BY <1>4, StreamAssumption DEF ClockBack, IInv
  <2> QED
    BY <1>1, <1>4, <2>1 DEF ClockBack
<1>5. CASE StreamWrite
  BY <1>5, XAddPreserves DEF StreamWrite
<1>6. CASE UNCHANGED keyVars
  BY <1>2, <1>6 DEF keyVars, Unchanged
<1> QED
  BY <1>3, <1>4, <1>5, <1>6, KeyCommandPreserves DEF Next

\* Streams keep to the inductive invariant.
THEOREM Invariance == UniqueVersions /\ NoExpiry => (Spec /\ []Below => []IInv)
<1> SUFFICES ASSUME UniqueVersions, NoExpiry PROVE Spec /\ []Below => []IInv
  OBVIOUS
<1>1. IInv /\ Below /\ [Next]_keyVars => IInv'
  BY NextIInv
<1> QED
  BY <1>1, InitIInv, PTL DEF Spec

\* The size in the metadata of a stream is the number of its entries
\* (stream.rs:281-325): no XADD replaces an entry, however the clock moves.
THEOREM Size == UniqueVersions /\ NoExpiry => (Spec /\ []Below => []SizeInv)
<1> SUFFICES ASSUME UniqueVersions, NoExpiry PROVE Spec /\ []Below => []SizeInv
  OBVIOUS
<1>1. IInv => SizeInv
  BY DEF IInv
<1>2. Spec /\ []Below => []IInv
  BY Invariance
<1> QED
  BY <1>1, <1>2, PTL

\* An entry XADD adds has a greater id than every entry of the stream
\* (generate_id, stream.rs:245-279), for "*", "ms-*" and explicit ids.
THEOREM Growing == UniqueVersions /\ NoExpiry => (Spec /\ []Below => IdsGrow)
<1> SUFFICES ASSUME UniqueVersions, NoExpiry PROVE Spec /\ []Below => IdsGrow
  OBVIOUS
<1>1. IInv /\ Below =>
        [StreamWrite /\ Live /\ meta' # meta =>
           \A id \in EntryIds(meta.ver) : Less(id, meta'.last)]_keyVars
  BY XAddPreserves DEF StreamWrite
<1>2. Spec /\ []Below => []IInv
  BY Invariance
<1> QED
  BY <1>1, <1>2, PTL DEF IdsGrow

-----------------------------------------------------------------------------
\* Types, which need none of the conditions

\* What generate_id returns is an id, whatever the clock and the last id.
LEMMA GeneratedType ==
    ASSUME NEW spec \in Specs, NEW m \in Metas, now \in Nat,
           NEW id \in GenerateId(spec, m), Len(id) = 2
    PROVE  id \in Nat \X Nat
<1>1. m.last \in Nat \X Nat /\ MaxSeq \in Nat /\ MaxMs \in Nat /\ spec \in IdSpecs
  BY StreamAssumption DEF Metas
<1>2. ASSUME id \in NextInMs(m) PROVE id \in Nat \X Nat
  BY <1>1, <1>2 DEF NextInMs
<1>3. CASE spec.kind = "auto"
  BY <1>2, <1>3 DEF GenerateId
<1>4. CASE spec.kind = "ms"
  <2>1. spec.ms \in Nat
    BY <1>1, <1>4 DEF IdSpecs
  <2> QED
    BY <1>2, <1>4, <2>1 DEF GenerateId
<1>5. CASE spec.kind = "id"
  <2>1. spec.id \in Nat \X Nat
    BY <1>1, <1>5 DEF IdSpecs, Ids
  <2> QED
    BY <1>5, <2>1 DEF GenerateId
<1> QED
  BY <1>1, <1>3, <1>4, <1>5 DEF IdSpecs

LEMMA XAddTypes ==
    ASSUME KeyTypeOK, DrawnInv, NEW spec \in Specs, NEW value \in Vals, XAdd(spec, value)
    PROVE  KeyTypeOK' /\ DrawnInv'
<1>1. PICK m \in IF Live THEN {meta} ELSE {NewMeta("stream", v) : v \in GenerateVersion} :
        \E id \in GenerateId(spec, m) :
          \/ Len(id) = 2 /\ XAddTo(spec, m, id, value)
          \/ Len(id) = 1 /\ Unchanged
  BY DEF XAdd
<1>2. PICK id \in GenerateId(spec, m) :
          \/ Len(id) = 2 /\ XAddTo(spec, m, id, value)
          \/ Len(id) = 1 /\ Unchanged
  BY <1>1
<1>3. CASE Unchanged
  BY <1>3 DEF Unchanged, KeyTypeOK, DrawnInv
<1>4. CASE Len(id) = 2 /\ XAddTo(spec, m, id, value)
  <2>1. m \in Metas /\ m.t = "stream" /\ m.ver \in Versions
    <3>1. CASE Live
      BY <1>1, <3>1 DEF Live, KeyTypeOK, DrawnInv
    <3>2. CASE ~Live
      <4>1. PICK v \in Versions : m = NewMeta("stream", v)
        BY <1>1, <3>2 DEF GenerateVersion
      <4> QED
        BY <4>1, NewMetaType DEF Types
    <3> QED
      BY <3>1, <3>2
  <2>2. id \in Nat \X Nat
    BY <1>4, <2>1, GeneratedType DEF KeyTypeOK
  <2>3. /\ sub' = [sub EXCEPT ![m.ver][id] = value]
        /\ meta' = [m EXCEPT !.size = @ + 1, !.last = id]
        /\ drawn' = drawn \cup {m.ver} /\ score' = score /\ now' = now
    BY <1>4 DEF XAddTo
  <2>4. meta' \in Metas /\ meta'.t = "stream" /\ meta'.ver = m.ver
    BY <2>1, <2>2, <2>3, Appended
  <2>5. /\ sub' \in [Versions -> [Fields -> Vals \cup {None}]]
        /\ \A u \in Versions : u # m.ver => sub'[u] = sub[u]
    BY <2>1, <2>3 DEF KeyTypeOK
  <2>6. KeyTypeOK'
    BY <2>1, <2>3, <2>4, <2>5 DEF KeyTypeOK
  <2>7. DrawnInv'
    BY <2>1, <2>3, <2>4, <2>5 DEF DrawnInv
  <2> QED
    BY <2>6, <2>7
<1> QED
  BY <1>2, <1>3, <1>4

\* A stream keeps to its types, for every clock, whatever versions are drawn
\* and whatever expiries are set: an id XADD writes into the metadata
\* (stream.rs:281-325) is a pair of numbers even after the sequence number
\* has wrapped (stream.rs:254, 266).
THEOREM WellTyped == Spec => []TypeOK
<1>1. Init => KeyTypeOK /\ DrawnInv
  BY KeyInitInv DEF Init
<1>2. KeyTypeOK /\ DrawnInv /\ [Next]_keyVars => KeyTypeOK' /\ DrawnInv'
  <2> SUFFICES ASSUME KeyTypeOK, DrawnInv, [Next]_keyVars
               PROVE  KeyTypeOK' /\ DrawnInv'
    OBVIOUS
  <2>1. ASSUME Unchanged PROVE KeyTypeOK' /\ DrawnInv'
    BY <2>1 DEF Unchanged, KeyTypeOK, DrawnInv
  <2>2. CASE StreamRead
    BY <2>1, <2>2 DEF StreamRead, Refused, XLen, XRange
  <2>3. CASE ClockBack
    BY <2>3 DEF ClockBack, KeyTypeOK, DrawnInv
  <2>4. CASE StreamWrite
    BY <2>4, XAddTypes DEF StreamWrite
  <2>5. CASE UNCHANGED keyVars
    BY <2>1, <2>5 DEF keyVars, Unchanged
  <2> QED
    BY <2>2, <2>3, <2>4, <2>5, KeyStep DEF Next
<1> QED
  BY <1>1, <1>2, PTL DEF Spec, TypeOK
=============================================================================
