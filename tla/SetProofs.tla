----------------------------- MODULE SetProofs ------------------------------
(***************************************************************************)
(* The size of sets, for every finite set of members, every set of         *)
(* versions and every argument list, provided no version is drawn twice.   *)
(***************************************************************************)
EXTENDS SetType, KeyspaceProofs, FiniteSetTheorems, WellFoundedInduction

\* The inductive invariant: a new set starts under a version without
\* subkeys, which is why DrawnInv is needed.
IInv == KeyTypeOK /\ SizeInv /\ DrawnInv

USE NoneAssumption, ClockAssumption, SetAssumption

LEMMA InitIInv == Init => IInv
  BY KeyInitInv DEF Init, IInv, SizeInv, NoComposite

LEMMA KeyCommandPreserves ==
    ASSUME IInv, KeyCommand
    PROVE  IInv'
<1>1. KeyTypeOK' /\ DrawnInv' /\ (NoComposite' \/ SameValue)
  BY KeyStep DEF IInv
<1> QED
  BY Zenon, <1>1 DEF IInv, SizeInv, NoComposite, SameValue, Members

\* The arguments name members, and finitely many of them.
LEMMA NamedFields ==
    ASSUME NEW args \in Puts \cup Takes
    PROVE  Named(args) \subseteq Fields
  BY DEF Named

LEMMA FieldsFinite ==
    ASSUME NEW S, S \subseteq Fields
    PROVE  IsFiniteSet(S) /\ Cardinality(S) \in Nat
  BY FS_Subset, FS_CardinalityType

\* Metadata with another size
LEMMA Resized ==
    ASSUME NEW m \in Metas, NEW n \in Nat
    PROVE  LET r == [m EXCEPT !.size = n]
           IN  r \in Metas /\ r.t = m.t /\ r.ver = m.ver /\ r.size = n /\ r.exp = m.exp
  BY DEF Metas

-----------------------------------------------------------------------------

\* What SADD makes of a set whose size is right.
LEMMA SAddToPreserves ==
    ASSUME NEW m \in Metas, NEW args \in Puts, SAddTo(m, args), KeyTypeOK,
           m.ver \in Versions, m.size = Cardinality(Members(m.ver))
    PROVE  /\ meta' \in Metas /\ meta'.t = m.t /\ meta'.ver = m.ver
           /\ sub' \in [Versions -> [Fields -> Vals \cup {None}]]
           /\ \A u \in Versions : u # m.ver => sub'[u] = sub[u]
           /\ meta'.size = Cardinality(Members(m.ver)')
<1> DEFINE old == Members(m.ver)
           added == Named(args) \ old
           g == [f \in Fields |-> IF f \in added THEN SetValue ELSE sub[m.ver][f]]
<1>1. /\ sub' = [sub EXCEPT ![m.ver] = g]
      /\ meta' = [m EXCEPT !.size = m.size + Cardinality(added)]
  BY DEF SAddTo
<1>2. old \subseteq Fields /\ added \subseteq Fields
  BY NamedFields DEF Members
<1>3. /\ IsFiniteSet(old) /\ Cardinality(old) \in Nat
      /\ IsFiniteSet(added) /\ Cardinality(added) \in Nat
  BY <1>2, FieldsFinite
<1>4. m.size + Cardinality(added) \in Nat
  BY <1>3
<1>5. /\ meta' \in Metas /\ meta'.t = m.t /\ meta'.ver = m.ver
      /\ meta'.size = m.size + Cardinality(added)
  BY <1>1, <1>4, Resized
<1>6. g \in [Fields -> Vals \cup {None}]
  BY DEF KeyTypeOK
<1>7. \A f \in Fields : g[f] # None <=> f \in old \cup added
  <2>1. SetValue # None
    OBVIOUS
  <2> QED
    BY <2>1 DEF Members
<1> HIDE DEF g
<1>8. /\ sub' \in [Versions -> [Fields -> Vals \cup {None}]]
      /\ sub'[m.ver] = g
      /\ \A u \in Versions : u # m.ver => sub'[u] = sub[u]
  BY <1>1, <1>6 DEF KeyTypeOK
<1>9. Members(m.ver)' = old \cup added
  BY <1>2, <1>7, <1>8 DEF Members
<1>10. Cardinality(old \cup added) = Cardinality(old) + Cardinality(added)
  <2>1. old \cap added = {}
    OBVIOUS
  <2> HIDE DEF old, added
  <2>2. Cardinality(old \cup added)
          = Cardinality(old) + Cardinality(added) - Cardinality(old \cap added)
    BY <1>3, FS_Union, Zenon
  <2>3. Cardinality(old \cap added) = 0
    BY Zenon, <2>1, FS_EmptySet
  <2> QED
    BY <1>3, <2>2, <2>3
<1> QED
  BY <1>5, <1>8, <1>9, <1>10

LEMMA SAddPreserves ==
    ASSUME UniqueVersions, IInv, NEW args \in Puts, SAdd(args)
    PROVE  IInv'
<1>1. CASE Live /\ SAddTo(meta, args) /\ UNCHANGED drawn
  <2>1. /\ meta \in Metas /\ meta # None /\ meta.t = "set"
        /\ meta.ver \in drawn /\ meta.ver \in Versions
        /\ meta.size = Cardinality(Members(meta.ver))
    BY <1>1 DEF Live, IInv, KeyTypeOK, SizeInv, DrawnInv
  <2>2. UNCHANGED <<score, now>>
    BY <1>1 DEF SAddTo
  <2>3. /\ meta' \in Metas /\ meta'.t = meta.t /\ meta'.ver = meta.ver
        /\ sub' \in [Versions -> [Fields -> Vals \cup {None}]]
        /\ \A u \in Versions : u # meta.ver => sub'[u] = sub[u]
        /\ meta'.size = Cardinality(Members(meta.ver)')
    BY <1>1, <2>1, SAddToPreserves DEF IInv
  <2>4. SizeInv'
    BY <2>3 DEF SizeInv, Members
  <2> QED
    BY <1>1, <2>1, <2>2, <2>3, <2>4 DEF IInv, KeyTypeOK, DrawnInv
<1>2. ASSUME NEW v \in GenerateVersion,
             SAddTo(NewMeta("set", v), args), drawn' = drawn \cup {v}
      PROVE  IInv'
  <2> DEFINE m == NewMeta("set", v)
  <2>1. v \in Versions /\ v \notin drawn
    BY DEF GenerateVersion
  <2>2. m \in Metas /\ m.t = "set" /\ m.ver = v /\ m.size = 0
    BY <2>1, NewMetaType DEF Types
  <2>3. m.size = Cardinality(Members(m.ver))
    <3>1. Members(v) = {}
      BY <2>1 DEF IInv, DrawnInv, NoFields, Members
    <3> QED
      BY Zenon, <2>2, <3>1, FS_EmptySet
  <2>4. SAddTo(m, args)
    BY <1>2
  <2> HIDE DEF m
  <2>5. UNCHANGED <<score, now>>
    BY <2>4 DEF SAddTo
  <2>6. /\ meta' \in Metas /\ meta'.t = "set" /\ meta'.ver = v
        /\ sub' \in [Versions -> [Fields -> Vals \cup {None}]]
        /\ \A u \in Versions : u # v => sub'[u] = sub[u]
        /\ meta'.size = Cardinality(Members(m.ver)')
    BY <2>1, <2>2, <2>3, <2>4, SAddToPreserves DEF IInv
  <2>7. Members(m.ver)' = Members(v)'
    BY <2>2 DEF Members, m, NewMeta
  <2>8. SizeInv'
    BY Zenon, <2>6, <2>7 DEF SizeInv, Members
  <2> QED
    BY <1>2, <2>1, <2>5, <2>6, <2>8 DEF IInv, KeyTypeOK, DrawnInv
<1> QED
  BY <1>1, <1>2 DEF SAdd

-----------------------------------------------------------------------------

LEMMA SRemPreserves ==
    ASSUME IInv, NEW args \in Takes, SRem(args)
    PROVE  IInv'
<1> DEFINE removed == IF Live THEN Named(args) \cap Members(meta.ver) ELSE {}
           old == Members(meta.ver)
           g == [f \in Fields |-> IF f \in removed THEN None ELSE sub[meta.ver][f]]
<1>1. CASE removed = {}
  <2>1. UNCHANGED <<meta, sub, score, now, drawn>>
    BY <1>1 DEF SRem
  <2> QED
    BY <2>1 DEF IInv, KeyTypeOK, SizeInv, DrawnInv, Members
<1>2. CASE removed # {}
  <2>1. /\ sub' = [sub EXCEPT ![meta.ver] = g]
        /\ meta' = [meta EXCEPT !.size = SaturatingSub(meta.size, Cardinality(removed))]
        /\ UNCHANGED <<score, now, drawn>>
    BY <1>2 DEF SRem
  <2>2. /\ meta \in Metas /\ meta # None /\ meta.t = "set"
        /\ meta.ver \in drawn /\ meta.ver \in Versions
        /\ meta.size = Cardinality(old)
        /\ removed \subseteq old
    BY <1>2 DEF Live, IInv, KeyTypeOK, SizeInv, DrawnInv
  <2>3. old \subseteq Fields
    BY DEF Members
  <2>4. \A f \in Fields : g[f] # None <=> f \in old \ removed
    BY DEF Members
  <2>5. g \in [Fields -> Vals \cup {None}]
    BY <2>2 DEF IInv, KeyTypeOK
  <2> HIDE DEF g, removed
  <2>6. /\ IsFiniteSet(old) /\ Cardinality(old) \in Nat
        /\ IsFiniteSet(removed) /\ Cardinality(removed) \in Nat
    BY <2>2, <2>3, FieldsFinite
  <2>7. /\ Cardinality(old \ removed) = Cardinality(old) - Cardinality(removed)
        /\ Cardinality(old \ removed) \in Nat
    <3>1. old \cap removed = removed
      BY <2>2
    <3> HIDE DEF old
    <3>2. /\ IsFiniteSet(old \ removed)
          /\ Cardinality(old \ removed) = Cardinality(old) - Cardinality(old \cap removed)
      BY <2>6, FS_Difference, Zenon
    <3>3. Cardinality(old \ removed) \in Nat
      BY <3>2, FS_CardinalityType
    <3> QED
      BY Zenon, <3>1, <3>2, <3>3
  <2>8. SaturatingSub(meta.size, Cardinality(removed)) = Cardinality(old \ removed)
    <3> HIDE DEF old
    <3> QED
      BY <2>2, <2>6, <2>7 DEF SaturatingSub
  <2>9. /\ meta' \in Metas /\ meta'.t = "set" /\ meta'.ver = meta.ver
        /\ meta'.size = Cardinality(old \ removed)
    <3> HIDE DEF old
    <3> QED
      BY <2>1, <2>2, <2>7, <2>8, Resized
  <2>10. /\ sub' \in [Versions -> [Fields -> Vals \cup {None}]]
         /\ sub'[meta.ver] = g
         /\ \A u \in Versions : u # meta.ver => sub'[u] = sub[u]
    BY <2>1, <2>2, <2>5 DEF IInv, KeyTypeOK
  <2>11. {f \in Fields : sub'[meta.ver][f] # None} = old \ removed
    BY <2>3, <2>4, <2>10
  <2>12. SizeInv'
    BY Zenon, <2>9, <2>11 DEF SizeInv, Members
  <2> QED
    BY <2>1, <2>2, <2>9, <2>10, <2>12 DEF IInv, KeyTypeOK, DrawnInv
<1> QED
  BY <1>1, <1>2

-----------------------------------------------------------------------------

LEMMA NextIInv == UniqueVersions /\ IInv /\ [Next]_keyVars => IInv'
<1> SUFFICES ASSUME UniqueVersions, IInv, [Next]_keyVars PROVE IInv'
  OBVIOUS
<1>1. ASSUME Unchanged PROVE IInv'
  BY <1>1 DEF Unchanged, IInv, KeyTypeOK, SizeInv, DrawnInv, Members
<1>2. CASE Refused
  BY <1>1, <1>2 DEF Refused
<1>3. ASSUME NEW f \in Fields, SIsMember(f) PROVE IInv'
  BY <1>1, <1>3 DEF SIsMember
<1>4. CASE SCard
  BY <1>1, <1>4 DEF SCard
<1>5. CASE SMembers
  BY <1>1, <1>5 DEF SMembers
<1>6. CASE UNCHANGED keyVars
  BY <1>1, <1>6 DEF keyVars, Unchanged
<1> QED
  BY <1>2, <1>3, <1>4, <1>5, <1>6, SAddPreserves, SRemPreserves,
     KeyCommandPreserves
  DEF Next, SetCommand

\* Sets keep to the inductive invariant.
THEOREM Invariance == UniqueVersions => (Spec => []IInv)
<1> SUFFICES ASSUME UniqueVersions PROVE Spec => []IInv
  OBVIOUS
<1>1. IInv /\ [Next]_keyVars => IInv'
  BY NextIInv
<1> QED
  BY <1>1, InitIInv, PTL DEF Spec

\* The size in the metadata of a set is the number of its members
\* (set.rs:124-202), through SADD and SREM with repeated arguments, expiry,
\* SET over a set, DEL and FLUSHDB, if generate_version does not repeat
\* itself.
THEOREM Size == UniqueVersions => (Spec => []SizeInv)
<1> SUFFICES ASSUME UniqueVersions PROVE Spec => []SizeInv
  OBVIOUS
<1>1. IInv => SizeInv
  BY DEF IInv
<1>2. Spec => []IInv
  BY Invariance
<1> QED
  BY <1>1, <1>2, PTL

\* A set that is made afresh finds no members under its version if
\* generate_version is what its comment says (encoding.rs:3).
THEOREM Fresh == UniqueVersions => (Spec => FreshSetIsEmpty)
<1> SUFFICES ASSUME UniqueVersions PROVE Spec => FreshSetIsEmpty
  OBVIOUS
<1>1. ASSUME IInv, NEW args \in Puts, ~Live, SAdd(args)
      PROVE  Members(meta'.ver) = {}
  <2>1. PICK v \in GenerateVersion : SAddTo(NewMeta("set", v), args)
    BY <1>1 DEF SAdd
  <2>2. v \in Versions \ drawn
    BY DEF GenerateVersion
  <2>3. meta'.ver = v
    BY <2>1 DEF SAddTo, NewMeta
  <2> QED
    BY <1>1, <2>2, <2>3 DEF IInv, DrawnInv, NoFields, Members
<1>2. IInv => [\A args \in Puts : ~Live /\ SAdd(args) => Members(meta'.ver) = {}]_keyVars
  BY <1>1
<1>3. Spec => []IInv
  BY Invariance
<1> QED
  BY <1>2, <1>3, PTL DEF FreshSetIsEmpty

\* The column families stay well typed.
THEOREM TypeCorrect == UniqueVersions => (Spec => []TypeOK)
<1> SUFFICES ASSUME UniqueVersions PROVE Spec => []TypeOK
  OBVIOUS
<1>1. IInv => TypeOK
  BY DEF IInv, TypeOK
<1>2. Spec => []IInv
  BY Invariance
<1> QED
  BY <1>1, <1>2, PTL

-----------------------------------------------------------------------------
\* The refinement of MapADT

\* Cardinality is the same in the instance.
LEMMA SameFinite == \A S : ADT!IsFiniteSet(S) = IsFiniteSet(S)
  BY DEF IsFiniteSet, ADT!IsFiniteSet
LEMMA SameCard == \A S : ADT!Cardinality(S) = Cardinality(S)
  BY SameFinite DEF Cardinality, ADT!Cardinality
\* A set of numbers has a least one, and a bounded one a greatest.
LEMMA Least ==
    ASSUME NEW T \in SUBSET Nat, T # {}
    PROVE  \E n \in T : \A m \in T : n <= m
<1> DEFINE R == OpToRel(<, Nat)
<1>1. IsWellFoundedOn(R, Nat)
  BY Zenon, NatLessThanWellFounded
<1>2. \A x, y \in Nat : <<y, x>> \in R <=> y < x
  BY DEF OpToRel
<1> HIDE DEF R
<1>3. PICK n \in T : \A y \in T : ~ (<<y, n>> \in R)
  BY Zenon, <1>1, WFMin
<1>4. \A m \in T : m \in Nat /\ n \in Nat /\ ~ (m < n)
  BY Zenon, <1>2, <1>3
<1> QED
  BY <1>4

LEMMA Greatest ==
    ASSUME NEW n \in Nat, NEW S \in SUBSET (1..n), S # {}
    PROVE  \E i \in S : \A j \in S : j <= i
<1> DEFINE T == {m \in Nat : n - m \in S}
<1>1. \A j \in S : j \in Int /\ n - j \in Nat /\ n - (n - j) = j
  OBVIOUS
<1>2. \A j \in S : n - j \in T
  BY <1>1
<1>3. PICK k \in T : \A m \in T : k <= m
  BY Zenon, <1>2, Least
<1>4. n - k \in S
  OBVIOUS
<1> QED
  BY <1>1, <1>2, <1>3, <1>4

Pairs(args) == [i \in 1..Len(args) |-> <<args[i], SetValue>>]

\* What a list of arguments puts, as MapADT has it: the last pair counts.
LEMMA LastPair ==
    ASSUME NEW args \in Puts, NEW f \in Named(args)
    PROVE  LET at == CHOOSE i \in 1..Len(Pairs(args)) :
                       /\ Pairs(args)[i][1] = f
                       /\ \A j \in i+1..Len(Pairs(args)) : Pairs(args)[j][1] # f
           IN  Pairs(args)[at][2] = SetValue
<1> DEFINE n == Len(args)
           S == {i \in 1..n : args[i] = f}
<1>1. n \in Nat /\ Len(Pairs(args)) = n
  BY DEF Pairs
<1>2. S \in SUBSET (1..n) /\ S # {}
  BY DEF Named
<1>3. PICK i \in S : \A j \in S : j <= i
  BY Zenon, <1>1, <1>2, Greatest
<1>4. \A j \in 1..n : Pairs(args)[j][1] = args[j] /\ Pairs(args)[j][2] = SetValue
  BY DEF Pairs
<1>5. \E k \in 1..n : /\ Pairs(args)[k][1] = f
                      /\ \A j \in k+1..n : Pairs(args)[j][1] # f
  BY <1>1, <1>3, <1>4
<1> QED
  BY <1>1, <1>4, <1>5

LEMMA AbstractShown ==
    ASSUME KeyTypeOK, ~OtherType
    PROVE  /\ ADT!Shown = IF Live THEN sub[meta.ver] ELSE NoFields
           /\ Live => AbsType("set") = "composite" /\ ~ADT!Expired
           /\ AbsType("set") # "string"
  BY DEF ADT!Shown, ADT!Expired, AbsExp, AbsMap, AbsType, Live, OtherType, IsExpired, KeyTypeOK, Metas

LEMMA AnswerMaps ==
    ASSUME NEW command, NEW r, Replies(command, r), Unchanged
    PROVE  ADT!Answer(command, r)
  BY DEF Replies, Unchanged, ADT!Answer, ADT!Tell, AbsType, AbsMap, AbsExp

LEMMA InitMaps == Init => ADT!Init
  BY DEF Init, KeyInit, ADT!Init, AbsType, AbsMap, AbsExp, Nil

LEMMA KeyCommandMaps ==
    ASSUME IInv, KeyCommand
    PROVE  ADT!KeyCommand
<1>0. /\ NoComposite' => AbsMap' = NoFields
      /\ SameValue => AbsMap' = AbsMap
      /\ KeyTypeOK /\ DrawnInv /\ now \in Nat /\ "set" \in Types \ {"string"}
  BY DEF NoComposite, SameValue, AbsMap, IInv, KeyTypeOK, Types
<1>1. ASSUME NEW e \in Int, NEW command, SetString(e), Replies(command, Ok)
      PROVE  ADT!SetTo(e, command)
  BY <1>0, <1>1, SetAbs DEF Replies, Ok, ADT!SetTo, ADT!Become, ADT!Tell
<1>2. ASSUME NEW command, NEW r, meta' = None, now' = now, Replies(command, r)
      PROVE  ADT!Become("none", NoFields, 0, command, r)
  BY <1>0, <1>2, GoneAbs DEF Replies, ADT!Become, ADT!Tell
<1>3. ASSUME NEW e \in Int, NEW command, NEW r, meta # None, SetExpire(e), Replies(command, r)
      PROVE  ADT!Become(AbsType("set"), AbsMap, e, command, r)
  BY <1>0, <1>3, SetExpireAbs DEF Replies, ADT!Become, ADT!Tell
<1>4. /\ AbsType("set") = "none" <=> meta = None
      /\ KeyExists <=> ADT!Exists
      /\ HasExpiry <=> AbsType("set") # "none" /\ AbsExp > 0
  BY AbsExists DEF ADT!Exists, ADT!Expired
<1>5. ASSUME NEW ttl \in TTLs \cup {0}, ttl >= 0, Set(ttl) PROVE ADT!KeyCommand
  <2>1. CASE ttl = 0
    <3>1. ADT!SetTo(0, <<"set", 0>>)
      BY <1>1, <1>5, <2>1 DEF Set
    <3> QED
      BY Zenon, <3>1 DEF ADT!KeyCommand
  <2>2. CASE ttl # 0
    <3>1. ttl \in TTLs /\ ttl > 0 /\ now + ttl \in Int
      BY <1>0, <1>5, <2>2
    <3>2. ADT!SetTo(now + ttl, <<"set", ttl>>)
      BY <1>1, <1>5, <2>2, <3>1 DEF Set
    <3> QED
      BY Zenon, <3>1, <3>2 DEF ADT!KeyCommand
  <2> QED
    BY <2>1, <2>2
<1>6. CASE SetNX
  BY <1>1, <1>4, <1>6, AnswerMaps DEF SetNX, Nil, ADT!KeyCommand
<1>7. CASE SetXX
  BY <1>1, <1>4, <1>7, AnswerMaps DEF SetXX, Nil, ADT!KeyCommand
<1>8. CASE Del
  <2>1. ADT!Become("none", NoFields, 0, <<"del">>, <<"int", IF AbsType("set") = "none" THEN 0 ELSE 1>>)
    BY <1>2, <1>4, <1>8 DEF Del, Unchanged, Int64
  <2> QED
    BY Zenon, <2>1 DEF ADT!KeyCommand
<1>9. ASSUME NEW ttl \in TTLs, Expire(ttl) PROVE ADT!KeyCommand
  <2>1. now + ttl \in Int
    BY <1>0
  <2>2. IF AbsType("set") = "none" THEN ADT!Answer(<<"expire", ttl>>, <<"int", 0>>)
        ELSE ADT!Become(AbsType("set"), AbsMap, now + ttl, <<"expire", ttl>>, <<"int", 1>>)
    BY <1>3, <1>4, <1>9, <2>1, AnswerMaps DEF Expire, Int64
  <2> QED
    BY Zenon, <2>2 DEF ADT!KeyCommand
<1>10. CASE Persist
  <2>1. IF AbsType("set") # "none" /\ AbsExp > 0
        THEN ADT!Become(AbsType("set"), AbsMap, 0, <<"persist">>, <<"int", 1>>)
        ELSE ADT!Answer(<<"persist">>, <<"int", 0>>)
    BY <1>3, <1>4, <1>10, AnswerMaps DEF Persist, Int64
  <2> QED
    BY Zenon, <2>1 DEF ADT!KeyCommand
<1>11. CASE FlushDb
  <2>1. ADT!Become("none", NoFields, 0, <<"flushdb">>, <<"ok">>)
    BY <1>2, <1>11 DEF FlushDb, Ok
  <2> QED
    BY Zenon, <2>1 DEF ADT!KeyCommand
<1>12. CASE Tick
  BY <1>12 DEF Tick, ADT!KeyCommand, AbsType, AbsMap, AbsExp
<1> QED
  BY <1>5, <1>6, <1>7, <1>8, <1>9, <1>10, <1>11, <1>12 DEF KeyCommand

\* What the abstract set shows.
LEMMA ShownSet ==
    ASSUME IInv, ~OtherType
    PROVE  /\ ADT!Present(ADT!Shown) = IF Live THEN Members(meta.ver) ELSE {}
           /\ \A f \in Fields : ADT!Shown[f] = IF f \in ADT!Present(ADT!Shown) THEN SetValue
                                                ELSE None
<1>1. CASE Live
  <2>1. meta.ver \in Versions
    BY <1>1 DEF IInv, KeyTypeOK, Live, DrawnInv
  <2>2. ADT!Shown = sub[meta.ver] /\ sub[meta.ver] \in [Fields -> {SetValue, None}]
    BY <1>1, <2>1, AbstractShown DEF IInv, KeyTypeOK
  <2> QED
    BY <1>1, <2>2 DEF Members, ADT!Present
<1>2. CASE ~Live
  BY <1>2, AbstractShown DEF IInv, NoFields, ADT!Present
<1> QED
  BY <1>1, <1>2

LEMMA ReadsMap ==
    ASSUME IInv, Refused \/ SCard \/ SMembers \/ \E f \in Fields : SIsMember(f)
    PROVE  ADT!Next
<1>1. CASE Refused
  <2>1. AbsType("set") = "string"
    BY <1>1 DEF Refused, OtherType, AbsType
  <2> QED
    BY <1>1, <2>1, AnswerMaps DEF Refused, ADT!Next, ADT!Refused, WrongType
<1>2. ASSUME ~OtherType, ADT!MapCommand PROVE ADT!Next
  BY <1>2, AbstractShown DEF IInv, ADT!Next
<1>3. CASE SCard
  <2>1. ~OtherType /\ Unchanged /\ Replies(<<"card">>, Int64(IF Live THEN meta.size ELSE 0))
    BY <1>3 DEF SCard
  <2>2. Cardinality(ADT!Present(ADT!Shown)) = IF Live THEN meta.size ELSE 0
    BY Zenon, <2>1, ShownSet, FS_EmptySet DEF IInv, SizeInv, Live
  <2>3. ADT!Card
    BY Zenon, <2>1, <2>2, SameCard, AnswerMaps DEF Int64, ADT!Card
  <2> QED
    BY <1>2, <2>1, <2>3 DEF ADT!MapCommand
<1>4. CASE SMembers
  <2>1. [f \in ADT!Present(ADT!Shown) |-> ADT!Shown[f]]
          = [f \in IF Live THEN Members(meta.ver) ELSE {} |-> SetValue]
    BY <1>4, ShownSet DEF SMembers, ADT!Present
  <2>2. ADT!All
    BY Zenon, <1>4, <2>1, AnswerMaps DEF SMembers, ADT!All
  <2> QED
    BY <1>2, <1>4, <2>2 DEF SMembers, ADT!MapCommand
<1>5. ASSUME NEW f \in Fields, SIsMember(f) PROVE ADT!Next
  <2>1. ~OtherType /\ Unchanged
    BY <1>5 DEF SIsMember
  <2>2. (IF ADT!Shown[f] = None THEN 0 ELSE 1)
          = IF Live THEN IF f \in Members(meta.ver) THEN 1 ELSE 0 ELSE 0
    BY <2>1, ShownSet
  <2>3. ADT!Has(f)
    BY <1>5, <2>2, AnswerMaps DEF SIsMember, Int64, ADT!Has
  <2> QED
    BY <1>2, <2>1, <2>3 DEF ADT!MapCommand
<1> QED
  BY <1>1, <1>3, <1>4, <1>5

\* SADD writes the abstract set, a fresh one where the old one has expired.
LEMMA PutMaps ==
    ASSUME IInv, ~OtherType, NEW args \in Puts, NEW m \in Metas, SAddTo(m, args),
           m.t = "set", m.ver \in Versions, sub[m.ver] = ADT!Shown,
           m.exp = IF ADT!Expired THEN 0 ELSE AbsExp
    PROVE  ADT!Put(Pairs(args))
<1> DEFINE n == Len(args)
           shown == ADT!Shown
           final(f) == CHOOSE i \in 1..Len(Pairs(args)) :
                         /\ Pairs(args)[i][1] = f
                         /\ \A j \in i+1..Len(Pairs(args)) : Pairs(args)[j][1] # f
           named == {Pairs(args)[i][1] : i \in 1..Len(Pairs(args))}
           value == [f \in Fields |-> IF f \in named THEN Pairs(args)[final(f)][2] ELSE shown[f]]
           added == Named(args) \ Members(m.ver)
<1>1. named = Named(args)
  <2>1. Len(Pairs(args)) = n /\ \A i \in 1..n : Pairs(args)[i][1] = args[i]
    BY DEF Pairs
  <2> QED
    BY <2>1 DEF Named
<1>2. Members(m.ver) = ADT!Present(shown)
  BY DEF Members, ADT!Present
<1>3. /\ sub' = [sub EXCEPT ![m.ver] =
                   [f \in Fields |-> IF f \in added THEN SetValue ELSE sub[m.ver][f]]]
      /\ meta' = [m EXCEPT !.size = m.size + Cardinality(added)]
      /\ reply' = <<<<"put", Pairs(args)>>, <<"int", Cardinality(added)>>>>
      /\ now' = now
  BY DEF SAddTo, Replies, Int64, Pairs
<1>4. sub'[m.ver] = value
  <2>1. \A f \in Fields : (IF f \in added THEN SetValue ELSE sub[m.ver][f]) = value[f]
    <3> SUFFICES ASSUME NEW f \in Fields
                 PROVE  (IF f \in added THEN SetValue ELSE sub[m.ver][f]) = value[f]
      BY Zenon
    <3>1. sub[m.ver][f] = shown[f] /\ (f \in Members(m.ver) => shown[f] = SetValue)
      BY <1>2, ShownSet
    <3>2. f \in Named(args) => Pairs(args)[final(f)][2] = SetValue
      BY Zenon, LastPair
    <3> HIDE DEF final, shown, named
    <3> QED
      BY <1>1, <3>1, <3>2
  <2> HIDE DEF value
  <2>2. value = [f \in Fields |-> value[f]]
    BY DEF value
  <2> QED
    BY <1>3, <2>1, <2>2 DEF IInv, KeyTypeOK
<1>5. /\ AbsType("set")' = "composite" /\ AbsMap' = sub'[m.ver]
      /\ AbsExp' = m.exp
  <2>1. m.size + Cardinality(added) \in Nat
    BY NamedFields, FieldsFinite DEF Metas
  <2>2. meta' \in Metas /\ meta'.t = "set" /\ meta'.ver = m.ver /\ meta'.exp = m.exp
    BY <1>3, <2>1, Resized
  <2> QED
    BY <2>2 DEF AbsType, AbsMap, AbsExp
<1>6. Cardinality(added) = ADT!Cardinality(named \ ADT!Present(shown))
  BY Zenon, <1>1, <1>2, SameCard
<1> HIDE DEF value, added, named
<1>7. ADT!Write(value, <<"put", Pairs(args)>>,
                <<"int", ADT!Cardinality(named \ ADT!Present(shown))>>)
  BY <1>3, <1>4, <1>5, <1>6 DEF ADT!Write, ADT!Become, ADT!Tell
<1> QED
  BY Zenon, <1>7 DEF ADT!Put, value, named

LEMMA SAddMaps ==
    ASSUME UniqueVersions, IInv, NEW args \in Puts, SAdd(args)
    PROVE  ADT!Next
<1>0. ~OtherType
  BY DEF SAdd, OtherType, Live
<1>1. ADT!Put(Pairs(args))
  <2>1. CASE Live /\ SAddTo(meta, args)
    <3>1. /\ meta \in Metas /\ meta.t = "set" /\ meta.ver \in Versions
          /\ sub[meta.ver] = ADT!Shown /\ meta.exp = AbsExp /\ ~ADT!Expired
      BY <1>0, <2>1, AbstractShown DEF IInv, KeyTypeOK, DrawnInv, Live, AbsExp
    <3> QED
      BY <1>0, <2>1, <3>1, PutMaps
  <2>2. ASSUME ~Live, NEW v \in GenerateVersion, SAddTo(NewMeta("set", v), args)
        PROVE  ADT!Put(Pairs(args))
    <3>1. PICK m : m = NewMeta("set", v)
      OBVIOUS
    <3>2. v \in Versions /\ sub[v] = NoFields
      BY DEF GenerateVersion, IInv, DrawnInv
    <3>3. m \in Metas /\ m.t = "set" /\ m.ver = v /\ m.exp = 0
      BY <3>1, <3>2, NewMetaType DEF Types, NewMeta
    <3>4. sub[m.ver] = ADT!Shown /\ (ADT!Expired \/ AbsExp = 0)
      BY <1>0, <2>2, <3>2, <3>3, AbstractShown
         DEF IInv, Live, OtherType, IsExpired, ADT!Expired, AbsExp
    <3> QED
      BY <1>0, <2>2, <3>1, <3>2, <3>3, <3>4, PutMaps
  <2> QED
    BY <2>1, <2>2 DEF SAdd
<1> QED
  BY <1>0, <1>1, AbstractShown DEF IInv, ADT!Next, ADT!MapCommand, Pairs

LEMMA SRemMaps ==
    ASSUME IInv, NEW args \in Takes, SRem(args)
    PROVE  ADT!Next
<1> DEFINE removed == IF Live THEN Named(args) \cap Members(meta.ver) ELSE {}
           shown == ADT!Shown
           gone == {args[i] : i \in 1..Len(args)} \cap ADT!Present(shown)
           value == [f \in Fields |-> IF f \in gone THEN None ELSE shown[f]]
<1>0. /\ ~OtherType /\ UNCHANGED <<score, now, drawn>>
      /\ Replies(<<"take", args>>, Int64(Cardinality(removed)))
  BY DEF SRem
<1>1. gone = removed
  BY <1>0, ShownSet DEF Named
<1>2. ASSUME removed = {} PROVE ADT!Take(args)
  <2>1. Cardinality(removed) = 0 /\ Unchanged
    BY Zenon, <1>0, <1>2, FS_EmptySet DEF SRem, Unchanged
  <2>2. ADT!Answer(<<"take", args>>, <<"int", 0>>)
    BY <1>0, <2>1, AnswerMaps DEF Int64
  <2> QED
    BY Zenon, <1>1, <1>2, <2>2 DEF ADT!Take
<1>3. ASSUME removed # {} PROVE ADT!Take(args)
  <2>1. /\ Live
        /\ sub' = [sub EXCEPT ![meta.ver] =
                     [f \in Fields |-> IF f \in removed THEN None ELSE sub[meta.ver][f]]]
        /\ meta' = [meta EXCEPT !.size = SaturatingSub(meta.size, Cardinality(removed))]
    BY <1>3 DEF SRem
  <2>2. /\ meta \in Metas /\ meta.t = "set" /\ meta.ver \in Versions
        /\ sub[meta.ver] = shown /\ meta.exp = AbsExp /\ ~ADT!Expired
    BY <1>0, <2>1, AbstractShown DEF IInv, KeyTypeOK, DrawnInv, Live, AbsExp
  <2>3. /\ meta' \in Metas /\ meta'.t = "set" /\ meta'.ver = meta.ver /\ meta'.exp = AbsExp
    <3>1. removed \subseteq Fields
      BY NamedFields
    <3>2. meta.size \in Nat /\ Cardinality(removed) \in Nat
      BY <2>2, <3>1, FieldsFinite DEF Metas
    <3>3. SaturatingSub(meta.size, Cardinality(removed)) \in Nat
      BY <3>2 DEF SaturatingSub
    <3> QED
      BY <2>1, <2>2, <3>3, Resized
  <2>4. sub'[meta.ver] = value
    <3> HIDE DEF removed, gone, shown
    <3> QED
      BY <1>1, <2>1, <2>2 DEF IInv, KeyTypeOK
  <2>5. AbsType("set")' = "composite" /\ AbsMap' = value /\ AbsExp' = AbsExp
    BY <2>3, <2>4 DEF AbsType, AbsMap, AbsExp
  <2>6. Cardinality(removed) = ADT!Cardinality(gone)
    BY Zenon, <1>1, SameCard
  <2> HIDE DEF value, gone, removed
  <2>7. ADT!Write(value, <<"take", args>>, <<"int", ADT!Cardinality(gone)>>)
    BY <1>0, <2>2, <2>5, <2>6 DEF Replies, Int64, ADT!Write, ADT!Become, ADT!Tell
  <2> QED
    BY Zenon, <1>1, <1>3, <2>7 DEF ADT!Take, value, gone
<1>4. ADT!Take(args)
  BY <1>2, <1>3
<1> QED
  BY <1>0, <1>4, AbstractShown DEF IInv, ADT!Next, ADT!MapCommand

\* The Set commands implement MapADT (set.rs): through expiry, replacement,
\* DEL and FLUSHDB, and for arguments that name a member twice.
THEOREM Refinement == UniqueVersions => (Spec => ImplementsADT)
<1> SUFFICES ASSUME UniqueVersions PROVE Spec => ImplementsADT
  OBVIOUS
<1>1. Init => ADT!Init
  BY InitMaps
<1>2. IInv /\ [Next]_keyVars => [ADT!Next]_(ADT!vars)
  <2> SUFFICES ASSUME IInv, [Next]_keyVars PROVE [ADT!Next]_(ADT!vars)
    OBVIOUS
  <2>1. CASE UNCHANGED keyVars
    BY <2>1 DEF keyVars, ADT!vars, AbsType, AbsMap, AbsExp
  <2>2. CASE KeyCommand
    BY <2>2, KeyCommandMaps DEF ADT!Next
  <2>3. CASE SetCommand
    BY <2>3, ReadsMap, SAddMaps, SRemMaps DEF SetCommand
  <2> QED
    BY <2>1, <2>2, <2>3 DEF Next
<1> QED
  BY <1>1, <1>2, Invariance, PTL DEF Spec, ImplementsADT, ADT!Spec
=============================================================================
