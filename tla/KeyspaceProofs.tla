--------------------------- MODULE KeyspaceProofs ---------------------------
(***************************************************************************)
(* What the commands on keys of any type preserve, for the proofs about    *)
(* the composite types.                                                    *)
(***************************************************************************)
EXTENDS Keyspace, TLAPS

\* The version of a key that is not a string has been drawn, and nothing is
\* stored under a version that has not been.
DrawnInv ==
    /\ IF meta = None THEN TRUE ELSE meta.t # "string" => meta.ver \in drawn
    /\ \A v \in Versions \ drawn : sub[v] = NoFields /\ score[v] = {}

\* The value of the key is as it was.
SameValue ==
    /\ meta # None /\ meta' # None
    /\ meta'.t = meta.t /\ meta'.ver = meta.ver /\ meta'.size = meta.size
    /\ meta'.head = meta.head /\ meta'.tail = meta.tail
    /\ sub' = sub /\ score' = score

\* The key has no value of a composite type.
NoComposite == IF meta = None THEN TRUE ELSE meta.t = "string"

USE NoneAssumption, ClockAssumption

LEMMA NoFieldsType == NoFields \in [Fields -> Vals \cup {None}]
  BY DEF NoFields

LEMMA NewMetaType ==
    ASSUME NEW type \in Types, NEW v \in Versions
    PROVE  /\ NewMeta(type, v) \in Metas
           /\ NewMeta(type, v).t = type /\ NewMeta(type, v).ver = v
           /\ NewMeta(type, v).size = 0 /\ NewMeta(type, v).head = 0
           /\ NewMeta(type, v).tail = -1
  BY DEF NewMeta, Metas, Types, NoId

LEMMA StringMetaType ==
    ASSUME NEW e \in Int
    PROVE  StringMeta(e) \in Metas /\ StringMeta(e).t = "string"
  BY DEF StringMeta, NewMeta, Metas, Types, NoId

\* KeyInit establishes the invariants.
LEMMA KeyInitInv == KeyInit => KeyTypeOK /\ DrawnInv /\ NoComposite
<1> SUFFICES ASSUME KeyInit PROVE KeyTypeOK /\ DrawnInv /\ NoComposite
  OBVIOUS
<1> USE DEF KeyInit
<1>1. KeyTypeOK
  BY NoFieldsType DEF KeyTypeOK
<1> QED
  BY <1>1 DEF DrawnInv, NoComposite

\* encode_metadata(decode_metadata(..)) with another expiry
LEMMA ReencodedMeta ==
    ASSUME NEW m \in Metas, NEW e \in Int
    PROVE  LET r == [Reencoded(m) EXCEPT !.exp = e]
           IN  /\ r \in Metas
               /\ r.t = m.t /\ r.ver = m.ver /\ r.size = m.size
               /\ r.head = m.head /\ r.tail = m.tail
<1>1. NoId \in Nat \X Nat
  BY DEF NoId
<1>2. LET q == Reencoded(m)
      IN  /\ q \in Metas
          /\ q.t = m.t /\ q.ver = m.ver
          /\ q.head = m.head /\ q.tail = m.tail /\ q.size = m.size
  BY <1>1 DEF Metas, Reencoded
<1>3. ASSUME NEW q \in Metas
      PROVE  LET r == [q EXCEPT !.exp = e]
             IN  /\ r \in Metas
                 /\ r.t = q.t /\ r.ver = q.ver
                 /\ r.head = q.head /\ r.tail = q.tail /\ r.size = q.size
  BY DEF Metas
<1> QED
  BY <1>2, <1>3

-----------------------------------------------------------------------------

LEMMA SetStep ==
    ASSUME KeyTypeOK, DrawnInv, NEW e \in Int, SetString(e)
    PROVE  KeyTypeOK' /\ DrawnInv' /\ NoComposite'
<1>1. meta' \in Metas /\ meta'.t = "string" /\ UNCHANGED <<sub, score, now, drawn>>
  BY StringMetaType DEF SetString
<1> QED
  BY <1>1 DEF KeyTypeOK, DrawnInv, NoComposite

LEMMA SetExpireStep ==
    ASSUME KeyTypeOK, DrawnInv, meta # None, NEW e \in Int, SetExpire(e)
    PROVE  KeyTypeOK' /\ DrawnInv' /\ SameValue
<1>1. /\ meta' \in Metas /\ meta' # None
      /\ meta'.t = meta.t /\ meta'.ver = meta.ver /\ meta'.size = meta.size
      /\ meta'.head = meta.head /\ meta'.tail = meta.tail
      /\ UNCHANGED <<sub, score, now, drawn>>
  BY ReencodedMeta DEF SetExpire, KeyTypeOK
<1> QED
  BY <1>1 DEF KeyTypeOK, DrawnInv, SameValue

LEMMA DelStep ==
    ASSUME KeyTypeOK, DrawnInv, Del, meta # None
    PROVE  KeyTypeOK' /\ DrawnInv' /\ NoComposite'
<1>1. /\ meta' = None
      /\ UNCHANGED <<now, drawn>>
      /\ sub' = IF meta.t = "string" THEN sub
                ELSE [sub EXCEPT ![meta.ver] = NoFields]
      /\ score' = IF meta.t = "zset" THEN [score EXCEPT ![meta.ver] = {}] ELSE score
  BY DEF Del, Purge
<1>2. sub' \in [Versions -> [Fields -> Vals \cup {None}]]
  BY <1>1, NoFieldsType DEF KeyTypeOK
<1>3. score' \in [Versions -> SUBSET ScoreKeys]
  BY <1>1 DEF KeyTypeOK
<1>4. \A v \in Versions \ drawn : sub'[v] = NoFields /\ score'[v] = {}
  BY <1>1 DEF KeyTypeOK, DrawnInv
<1> QED
  BY <1>1, <1>2, <1>3, <1>4 DEF KeyTypeOK, DrawnInv, NoComposite

\* A command on keys keeps the value of a composite type as it is or leaves
\* none, and it keeps the versions that have not been drawn clean.
LEMMA KeyStep ==
    ASSUME KeyTypeOK, DrawnInv, KeyCommand
    PROVE  /\ KeyTypeOK' /\ DrawnInv'
           /\ NoComposite' \/ SameValue
<1> DEFINE Goal == KeyTypeOK' /\ DrawnInv' /\ (NoComposite' \/ SameValue)
<1>0. now \in Int
  BY DEF KeyTypeOK
<1>1. ASSUME Unchanged PROVE Goal
  BY <1>1 DEF Unchanged, KeyTypeOK, DrawnInv, NoComposite, SameValue
<1>2. ASSUME NEW ttl \in TTLs \cup {0}, Set(ttl) PROVE Goal
  <2>1. now + ttl \in Int
    BY <1>0
  <2> QED
    BY <1>2, <2>1, SetStep DEF Set
<1>3. CASE SetNX
  BY <1>1, <1>3, SetStep DEF SetNX
<1>4. CASE SetXX
  BY <1>1, <1>4, SetStep DEF SetXX
<1>5. CASE Del
  <2>1. CASE meta = None
    BY <1>1, <1>5, <2>1 DEF Del
  <2>2. CASE meta # None
    BY <1>5, <2>2, DelStep
  <2> QED
    BY <2>1, <2>2
<1>6. ASSUME NEW ttl \in TTLs, Expire(ttl) PROVE Goal
  <2>1. now + ttl \in Int
    BY <1>0
  <2> QED
    BY <1>1, <1>6, <2>1, SetExpireStep DEF Expire
<1>7. CASE Persist
  BY <1>1, <1>7, SetExpireStep DEF Persist, HasExpiry
<1>8. CASE FlushDb
  BY <1>8, NoFieldsType DEF FlushDb, KeyTypeOK, DrawnInv, NoComposite
<1>9. CASE Tick
  <2>1. UNCHANGED <<meta, sub, score, drawn>> /\ now' \in Nat
    BY <1>9 DEF Tick, KeyTypeOK
  <2>2. KeyTypeOK'
    BY <2>1 DEF KeyTypeOK
  <2> QED
    BY <2>1, <2>2 DEF DrawnInv, NoComposite, SameValue
<1> QED
  BY <1>2, <1>3, <1>4, <1>5, <1>6, <1>7, <1>8, <1>9 DEF KeyCommand

-----------------------------------------------------------------------------
\* The key as KeyADT sees it, for the refinements of the composite types

LEMMA AbsExists ==
    ASSUME NEW name
    PROVE  /\ AbsType(name) = "none" <=> meta = None
           /\ KeyExists <=> AbsType(name) # "none" /\ ~ (AbsExp > 0 /\ AbsExp <= now)
           /\ HasExpiry <=> AbsType(name) # "none" /\ AbsExp > 0
  BY DEF AbsType, AbsExp, KeyExists, IsExpired, HasExpiry

LEMMA SetAbs ==
    ASSUME NEW name \in Types \ {"string"}, NEW e \in Int, SetString(e)
    PROVE  /\ AbsType(name)' = "string" /\ AbsExp' = e /\ now' = now
           /\ NoComposite'
<1>1. meta' # None /\ meta'.t = "string" /\ meta'.exp = e /\ now' = now
  BY StringMetaType DEF SetString, StringMeta, NewMeta
<1> QED
  BY <1>1 DEF AbsType, AbsExp, NoComposite

LEMMA SetExpireAbs ==
    ASSUME KeyTypeOK, DrawnInv, meta # None, NEW name, NEW e \in Int, SetExpire(e)
    PROVE  /\ AbsType(name)' = AbsType(name) /\ AbsExp' = e /\ now' = now
           /\ SameValue
<1>1. SameValue /\ now' = now
  BY SetExpireStep DEF SetExpire
<1>2. meta'.exp = e
  BY DEF SetExpire, Reencoded, KeyTypeOK, Metas
<1> QED
  BY <1>1, <1>2 DEF AbsType, AbsExp, SameValue

LEMMA GoneAbs ==
    ASSUME NEW name, meta' = None
    PROVE  AbsType(name)' = "none" /\ AbsExp' = 0 /\ NoComposite'
  BY DEF AbsType, AbsExp, NoComposite
=============================================================================
