----------------------------- MODULE ListProofs -----------------------------
(***************************************************************************)
(* The window invariant of lists and the refinement of ListADT, for every  *)
(* set of versions, values, indices and arguments, provided no version is  *)
(* drawn twice.                                                            *)
(***************************************************************************)
EXTENDS ListType, KeyspaceProofs

-----------------------------------------------------------------------------
\* Numbers and sequences

\* The slice s..e of a window h..t of n indices
LEMMA SliceBounds ==
    ASSUME NEW h \in Int, NEW t \in Int, NEW n \in Nat, NEW s \in Nat, NEW e \in Int,
           n = t - h + 1, e < n, ~ (n = 0 \/ s > e)
    PROVE  /\ h + s \in Int /\ h + e \in Int
           /\ h <= h + s /\ h + s <= h + e /\ h + e <= t
           /\ s + 1 \in 1..n /\ e + 1 \in 1..n /\ s + 1 <= e + 1
  OBVIOUS

\* The elements of a list whose window begins at h and has n indices
Elements(fields, h, n) == [j \in 1..n |-> fields[h + j - 1]]

LEMMA ElementsLen ==
    ASSUME NEW fields, NEW h \in Int, NEW n \in Nat
    PROVE  Len(Elements(fields, h, n)) = n
  BY DEF Elements

\* A slice of the list is a list.
LEMMA ElementsSlice ==
    ASSUME NEW fields, NEW h \in Int, NEW n \in Nat, NEW s \in Nat, NEW e \in Int,
           s <= e, e < n
    PROVE  SubSeq(Elements(fields, h, n), s + 1, e + 1)
             = [j \in 1..(h + e) - (h + s) + 1 |-> fields[h + s + j - 1]]
  BY DEF Elements

\* What ListADT calls Mirror
Reversed(b) == [i \in 1..Len(b) |-> b[Len(b) + 1 - i]]

LEMMA Concat ==
    ASSUME NEW S, NEW a \in Seq(S), NEW b \in Seq(S)
    PROVE  a \o b = [i \in 1..Len(a)+Len(b) |-> IF i <= Len(a) THEN a[i] ELSE b[i-Len(a)]]
<1> DEFINE c == [i \in 1..Len(a)+Len(b) |-> IF i <= Len(a) THEN a[i] ELSE b[i-Len(a)]]
<1>1. a \o b \in Seq(S) /\ Len(a \o b) = Len(a) + Len(b)
  OBVIOUS
<1>2. Len(a) \in Nat /\ Len(b) \in Nat
  OBVIOUS
<1>3. DOMAIN (a \o b) = 1..Len(a)+Len(b)
  BY <1>1
<1>4. \A i \in 1..Len(a) : (a \o b)[i] = a[i]
  OBVIOUS
<1>5. \A i \in 1..Len(a)+Len(b) : ~(i <= Len(a)) => (a \o b)[i] = b[i-Len(a)]
  OBVIOUS
<1>6. PICK d : d = a \o b
  BY Zenon
<1>7. d = [i \in 1..Len(a)+Len(b) |-> d[i]]
  <2>1. d \in Seq(S) /\ Len(d) = Len(a) + Len(b)
    BY Zenon, <1>1, <1>6
  <2>2. d \in [1..Len(d) -> S]
    BY <2>1
  <2> QED
    BY Zenon, <2>1, <2>2
<1>8. \A i \in 1..Len(a)+Len(b) : d[i] = IF i <= Len(a) THEN a[i] ELSE b[i-Len(a)]
  BY <1>2, <1>4, <1>5, <1>6
<1> QED
  BY Zenon, <1>6, <1>7, <1>8

\* Subkeys with the same values from index i to index j.
Same(fields, g, i, j) == \A x \in i..j : g[x] = fields[x]

\* g is fields after a push of a batch beside the window of n elements from h.
IsPushedLeft(V, batch, fields, g, h, n) ==
    /\ \A i \in h..h + n - 1 : fields[i] \in V
    /\ \A i \in h - Len(batch)..h - 1 : g[i] = batch[h - i]
    /\ Same(fields, g, h, h + n - 1)

IsPushedRight(V, batch, fields, g, h, n) ==
    /\ \A i \in h..h + n - 1 : fields[i] \in V
    /\ Same(fields, g, h, h + n - 1)
    /\ \A i \in h + n..h + n - 1 + Len(batch) : g[i] = batch[i - (h + n - 1)]

\* What the list then is.
AddedLeft(batch, fields, g, h, n) ==
    Elements(g, h - Len(batch), n + Len(batch)) = Reversed(batch) \o Elements(fields, h, n)

AddedRight(batch, fields, g, h, n) ==
    Elements(g, h, n + Len(batch)) = Elements(fields, h, n) \o batch

LEMMA PushedLeft ==
    ASSUME NEW V, NEW batch \in Seq(V), NEW fields, NEW g, NEW h \in Int, NEW n \in Nat,
           IsPushedLeft(V, batch, fields, g, h, n)
    PROVE  AddedLeft(batch, fields, g, h, n)
<1> DEFINE a == Reversed(batch)
           b == Elements(fields, h, n)
           k == Len(batch)
<1>1. k \in Nat /\ \A i \in 1..k : batch[i] \in V
  OBVIOUS
<1>2. a \in Seq(V) /\ Len(a) = k /\ \A i \in 1..k : a[i] = batch[k + 1 - i]
  BY <1>1 DEF Reversed
<1>3. b \in Seq(V) /\ Len(b) = n /\ \A i \in 1..n : b[i] = fields[h + i - 1]
  <2>1. \A i \in 1..n : h + i - 1 \in h..h + n - 1
    OBVIOUS
  <2> QED
    BY <2>1 DEF Elements, IsPushedLeft
<1> HIDE DEF a, b, k
<1>4. a \o b = [i \in 1..k + n |-> IF i <= k THEN a[i] ELSE b[i - k]]
  <2>1. a \o b = [i \in 1..Len(a) + Len(b) |-> IF i <= Len(a) THEN a[i] ELSE b[i - Len(a)]]
    BY <1>2, <1>3, Concat
  <2> QED
    BY Zenon, <1>2, <1>3, <2>1
<1>5. \A i \in 1..n + k : g[h - k + i - 1] = IF i <= k THEN a[i] ELSE b[i - k]
  <2> SUFFICES ASSUME NEW i \in 1..n + k PROVE g[h - k + i - 1] = IF i <= k THEN a[i] ELSE b[i - k]
    BY Zenon
  <2>1. h - k + i - 1 \in h - k..h + n - 1
    BY <1>1
  <2>2. g[h - k + i - 1] = IF h - k + i - 1 < h THEN batch[h - (h - k + i - 1)] ELSE fields[h - k + i - 1]
    <3>1. \A x \in h - k..h - 1 : g[x] = batch[h - x]
      BY Zenon DEF k, IsPushedLeft
    <3>2. \A x \in h..h + n - 1 : g[x] = fields[x]
      BY Zenon DEF IsPushedLeft, Same
    <3> QED
      BY <1>1, <2>1, <3>1, <3>2
  <2>3. CASE i <= k
    <3>1. h - k + i - 1 < h /\ h - (h - k + i - 1) = k + 1 - i /\ i \in 1..k
      BY <1>1, <2>3
    <3> QED
      BY Zenon, <1>2, <2>2, <2>3, <3>1
  <2>4. CASE ~ (i <= k)
    <3>1. ~ (h - k + i - 1 < h) /\ h + (i - k) - 1 = h - k + i - 1 /\ i - k \in 1..n
      BY <1>1, <2>4
    <3> QED
      BY Zenon, <1>3, <2>2, <2>4, <3>1
  <2> QED
    BY Zenon, <2>3, <2>4
<1>6. k + n = n + k
  BY <1>1
<1> QED
  BY Zenon, <1>4, <1>5, <1>6 DEF AddedLeft, Elements, k, a, b

LEMMA PushedRight ==
    ASSUME NEW V, NEW batch \in Seq(V), NEW fields, NEW g, NEW h \in Int, NEW n \in Nat,
           IsPushedRight(V, batch, fields, g, h, n)
    PROVE  AddedRight(batch, fields, g, h, n)
<1> DEFINE a == Elements(fields, h, n)
           k == Len(batch)
<1>1. k \in Nat
  OBVIOUS
<1>3. a \in Seq(V) /\ Len(a) = n /\ \A i \in 1..n : a[i] = fields[h + i - 1]
  <2>1. \A i \in 1..n : h + i - 1 \in h..h + n - 1
    OBVIOUS
  <2> QED
    BY <2>1 DEF Elements, IsPushedRight
<1> HIDE DEF a, k
<1>4. a \o batch = [i \in 1..n + k |-> IF i <= n THEN a[i] ELSE batch[i - n]]
  <2>1. a \o batch = [i \in 1..Len(a) + Len(batch) |->
                        IF i <= Len(a) THEN a[i] ELSE batch[i - Len(a)]]
    BY Zenon, <1>3, Concat
  <2> QED
    BY Zenon, <1>3, <2>1 DEF k
<1>5. \A i \in 1..n + k : g[h + i - 1] = IF i <= n THEN a[i] ELSE batch[i - n]
  <2> SUFFICES ASSUME NEW i \in 1..n + k PROVE g[h + i - 1] = IF i <= n THEN a[i] ELSE batch[i - n]
    BY Zenon
  <2>1. h + i - 1 \in h..h + n - 1 + k
    BY <1>1
  <2>2. g[h + i - 1] = IF h + i - 1 > h + n - 1 THEN batch[(h + i - 1) - (h + n - 1)] ELSE fields[h + i - 1]
    <3>1. \A x \in h + n..h + n - 1 + k : g[x] = batch[x - (h + n - 1)]
      BY Zenon DEF k, IsPushedRight
    <3>2. \A x \in h..h + n - 1 : g[x] = fields[x]
      BY Zenon DEF IsPushedRight, Same
    <3> QED
      BY <1>1, <2>1, <3>1, <3>2
  <2>3. CASE i <= n
    <3>1. ~ (h + i - 1 > h + n - 1) /\ i \in 1..n
      BY <1>1, <2>3
    <3> QED
      BY Zenon, <1>3, <2>2, <2>3, <3>1
  <2>4. CASE ~ (i <= n)
    <3>1. h + i - 1 > h + n - 1 /\ (h + i - 1) - (h + n - 1) = i - n
      BY <1>1, <2>4
    <3> QED
      BY Zenon, <2>2, <2>4, <3>1
  <2> QED
    BY Zenon, <2>3, <2>4
<1> QED
  BY Zenon, <1>4, <1>5 DEF AddedRight, Elements, k, a

\* The indices a pop of k elements takes from the window h..t
LEMMA Taken ==
    ASSUME NEW left \in BOOLEAN, NEW h \in Int, NEW t \in Int, NEW k \in Int, NEW i \in Int
    PROVE  LET taken == {IF left THEN h + j - 1 ELSE t - j + 1 : j \in 1..k}
           IN  /\ left => (i \in taken <=> h <= i /\ i < h + k)
               /\ ~left => (i \in taken <=> t - k < i /\ i <= t)
<1>1. CASE left
  <2>1. {IF left THEN h + j - 1 ELSE t - j + 1 : j \in 1..k} = {h + j - 1 : j \in 1..k}
    BY Zenon, <1>1
  <2>2. ASSUME h <= i, i < h + k PROVE i - h + 1 \in 1..k /\ i = h + (i - h + 1) - 1
    BY <2>2
  <2>3. \A j \in 1..k : h <= h + j - 1 /\ h + j - 1 < h + k
    OBVIOUS
  <2> QED
    BY Zenon, <1>1, <2>1, <2>2, <2>3
<1>2. CASE ~left
  <2>1. {IF left THEN h + j - 1 ELSE t - j + 1 : j \in 1..k} = {t - j + 1 : j \in 1..k}
    BY Zenon, <1>2
  <2>2. ASSUME t - k < i, i <= t PROVE t - i + 1 \in 1..k /\ i = t - (t - i + 1) + 1
    BY <2>2
  <2>3. \A j \in 1..k : t - k < t - j + 1 /\ t - j + 1 <= t
    OBVIOUS
  <2> QED
    BY Zenon, <1>2, <2>1, <2>2, <2>3
<1> QED
  BY Zenon, <1>1, <1>2

\* The k values down from index t.
Backwards(fields, t, k) == [j \in 1..k |-> fields[t - j + 1]]

\* What a pop of k elements leaves and what it returns.
IsPoppedLeft(fields, g, h, n, k) ==
    /\ SubSeq(Elements(fields, h, n), k + 1, n) = Elements(g, h + k, n - k)
    /\ SubSeq(Elements(fields, h, n), 1, k) = Elements(fields, h, k)

IsPoppedRight(fields, g, h, n, k, t) ==
    /\ SubSeq(Elements(fields, h, n), 1, n - k) = Elements(g, h, n - k)
    /\ Reversed(SubSeq(Elements(fields, h, n), n - k + 1, n)) = Backwards(fields, t, k)

LEMMA PoppedLeft ==
    ASSUME NEW fields, NEW g, NEW h \in Int, NEW n \in Nat, NEW k \in 1..n,
           NEW t, t = h + n - 1, Same(fields, g, h + k, t)
    PROVE  IsPoppedLeft(fields, g, h, n, k)
<1>1. SubSeq(Elements(fields, h, n), k + 1, n) = [j \in 1..n - k |-> fields[h + k + j - 1]]
  BY DEF Elements
<1>2. \A j \in 1..n - k : h + k + j - 1 \in h + k..t
  OBVIOUS
<1>3. SubSeq(Elements(fields, h, n), k + 1, n) = Elements(g, h + k, n - k)
  BY Zenon, <1>1, <1>2 DEF Elements, Same
<1>4. SubSeq(Elements(fields, h, n), 1, k) = [j \in 1..k |-> fields[h + j - 1]]
  BY DEF Elements
<1> QED
  BY Zenon, <1>3, <1>4 DEF Elements, IsPoppedLeft

LEMMA PoppedRight ==
    ASSUME NEW fields, NEW g, NEW h \in Int, NEW n \in Nat, NEW k \in 1..n,
           NEW t, t = h + n - 1, Same(fields, g, h, t - k)
    PROVE  IsPoppedRight(fields, g, h, n, k, t)
<1>1. SubSeq(Elements(fields, h, n), 1, n - k) = [j \in 1..n - k |-> fields[h + j - 1]]
  BY DEF Elements
<1>2. \A j \in 1..n - k : h + j - 1 \in h..t - k
  OBVIOUS
<1>3. SubSeq(Elements(fields, h, n), 1, n - k) = Elements(g, h, n - k)
  BY Zenon, <1>1, <1>2 DEF Elements, Same
<1> DEFINE s == SubSeq(Elements(fields, h, n), n - k + 1, n)
<1>4. s = [j \in 1..k |-> fields[h + n - k + j - 1]]
  BY DEF Elements
<1>5. Len(s) = k
  BY <1>4
<1>6. \A j \in 1..k : s[k + 1 - j] = fields[t - j + 1]
  <2>1. \A j \in 1..k : k + 1 - j \in 1..k /\ h + n - k + (k + 1 - j) - 1 = t - j + 1
    OBVIOUS
  <2> HIDE DEF s
  <2>2. \A i \in 1..k : s[i] = fields[h + n - k + i - 1]
    BY Zenon, <1>4
  <2> QED
    BY Zenon, <2>1, <2>2
<1> HIDE DEF s
<1>7. Reversed(s) = [j \in 1..k |-> fields[t - j + 1]]
  BY Zenon, <1>5, <1>6 DEF Reversed
<1> QED
  BY Zenon, <1>3, <1>7 DEF s, Backwards, IsPoppedRight

-----------------------------------------------------------------------------
\* The window invariant

\* The inductive invariant: a new list starts under a version without
\* subkeys, which is why DrawnInv is needed.
IInv == KeyTypeOK /\ WindowInv /\ DrawnInv

USE NoneAssumption, ClockAssumption, ListAssumption

LEMMA InitIInv == Init => IInv
  BY Zenon, KeyInitInv DEF Init, IInv, WindowInv, NoComposite

LEMMA KeyCommandPreserves ==
    ASSUME IInv, KeyCommand
    PROVE  IInv'
<1>1. KeyTypeOK' /\ DrawnInv' /\ (NoComposite' \/ SameValue)
  BY Zenon, KeyStep DEF IInv
<1> QED
  BY Zenon, <1>1 DEF IInv, WindowInv, NoComposite, SameValue

-----------------------------------------------------------------------------

\* What a push makes of the metadata m it starts from.
LEMMA PushedMeta ==
    ASSUME NEW m \in Metas, NEW batch \in Batches, NEW left \in BOOLEAN,
           PushTo(m, batch, left)
    PROVE  /\ meta' \in Metas
           /\ meta'.t = m.t /\ meta'.ver = m.ver /\ meta'.exp = m.exp
           /\ meta'.size = m.size + Len(batch)
           /\ meta'.head = IF left THEN m.head - Len(batch) ELSE m.head
           /\ meta'.tail = IF left THEN m.tail ELSE m.tail + Len(batch)
<1> DEFINE n == Len(batch)
           h == IF left THEN m.head - n ELSE m.head
           t == IF left THEN m.tail ELSE m.tail + n
           z == m.size + n
<1>1. n \in Nat
  OBVIOUS
<1>2. m.head \in Int /\ m.tail \in Int /\ m.size \in Nat
  BY Zenon DEF Metas
<1>3. h \in Int /\ t \in Int /\ z \in Nat
  BY <1>1, <1>2
<1>4. meta' = [m EXCEPT !.head = h, !.tail = t, !.size = z]
  BY Zenon DEF PushTo
<1> HIDE DEF h, t, z
<1>5. meta' = [t |-> m.t, exp |-> m.exp, ver |-> m.ver, size |-> z,
               head |-> h, tail |-> t, last |-> m.last]
  BY Zenon, <1>4 DEF Metas
<1>6. /\ meta' \in Metas /\ meta'.t = m.t /\ meta'.ver = m.ver /\ meta'.exp = m.exp
      /\ meta'.size = z /\ meta'.head = h /\ meta'.tail = t
  BY Zenon, <1>3, <1>5 DEF Metas
<1> QED
  BY Zenon, <1>6 DEF h, t, z

\* A push onto a list whose window is right keeps it right.
LEMMA PushToPreserves ==
    ASSUME NEW m \in Metas, m.ver \in Versions, m.t = "list",
           KeyTypeOK,
           m.size = m.tail - m.head + 1,
           \A i \in Fields : sub[m.ver][i] # None <=> m.head <= i /\ i <= m.tail,
           NEW batch \in Batches, NEW left \in BOOLEAN,
           PushTo(m, batch, left)
    PROVE  /\ meta' \in Metas /\ meta'.t = "list" /\ meta'.ver = m.ver
           /\ sub' \in [Versions -> [Fields -> Vals \cup {None}]]
           /\ \A v \in Versions : v # m.ver => sub'[v] = sub[v]
           /\ WindowInv'
<1> DEFINE n == Len(batch)
           g == [i \in Fields |->
                   IF left /\ m.head - n <= i /\ i < m.head THEN batch[m.head - i]
                   ELSE IF ~left /\ m.tail < i /\ i <= m.tail + n THEN batch[i - m.tail]
                   ELSE sub[m.ver][i]]
<1>1. n \in Nat /\ \A j \in 1..n : batch[j] \in Vals
  OBVIOUS
<1>2. m.head \in Int /\ m.tail \in Int /\ m.size \in Nat
  BY Zenon DEF Metas
<1>3. sub' = [sub EXCEPT ![m.ver] = g]
  BY Zenon DEF PushTo
<1>4. g \in [Fields -> Vals \cup {None}]
  BY <1>1, <1>2 DEF KeyTypeOK
<1>5. sub' \in [Versions -> [Fields -> Vals \cup {None}]] /\ sub'[m.ver] = g
  BY Zenon, <1>3, <1>4 DEF KeyTypeOK
<1>6. \A v \in Versions : v # m.ver => sub'[v] = sub[v]
  BY Zenon, <1>3 DEF KeyTypeOK
<1>7. /\ meta' \in Metas /\ meta'.t = "list" /\ meta'.ver = m.ver
      /\ meta'.size = m.size + n
      /\ meta'.head = IF left THEN m.head - n ELSE m.head
      /\ meta'.tail = IF left THEN m.tail ELSE m.tail + n
  BY Zenon, PushedMeta
<1>8. \A i \in Fields : g[i] # None <=> meta'.head <= i /\ i <= meta'.tail
  <2> SUFFICES ASSUME NEW i \in Fields
               PROVE  g[i] # None <=> meta'.head <= i /\ i <= meta'.tail
    BY Zenon
  <2>1. i \in Int /\ (sub[m.ver][i] # None <=> m.head <= i /\ i <= m.tail)
    BY Zenon
  <2>2. m.head <= m.tail + 1
    BY <1>2
  <2>3. CASE left /\ m.head - n <= i /\ i < m.head
    <3>1. m.head - i \in 1..n
      BY <1>1, <1>2, <2>1, <2>3
    <3>2. g[i] = batch[m.head - i]
      BY Zenon, <2>3
    <3> QED
      BY <1>1, <1>2, <1>7, <2>1, <2>2, <2>3, <3>1, <3>2
  <2>4. CASE ~left /\ m.tail < i /\ i <= m.tail + n
    <3>1. i - m.tail \in 1..n
      BY <1>1, <1>2, <2>1, <2>4
    <3>2. g[i] = batch[i - m.tail]
      BY Zenon, <2>4
    <3> QED
      BY <1>1, <1>2, <1>7, <2>1, <2>2, <2>4, <3>1, <3>2
  <2>5. CASE /\ ~(left /\ m.head - n <= i /\ i < m.head)
             /\ ~(~left /\ m.tail < i /\ i <= m.tail + n)
    <3>1. g[i] = sub[m.ver][i]
      BY Zenon, <2>5
    <3> QED
      BY <1>1, <1>2, <1>7, <2>1, <2>2, <2>5, <3>1
  <2> QED
    BY Zenon, <2>3, <2>4, <2>5
<1>9. meta'.size = meta'.tail - meta'.head + 1
  BY <1>1, <1>2, <1>7
<1> QED
  BY <1>5, <1>6, <1>7, <1>8, <1>9 DEF WindowInv

LEMMA PushPreserves ==
    ASSUME IInv, UniqueVersions, NEW batch \in Batches, NEW left \in BOOLEAN,
           Push(batch, left)
    PROVE  IInv'
<1>1. CASE Live /\ PushTo(meta, batch, left) /\ UNCHANGED drawn
  <2>1. /\ meta \in Metas /\ meta.t = "list"
        /\ meta.ver \in drawn /\ meta.ver \in Versions
    BY Zenon, <1>1 DEF Live, IInv, KeyTypeOK, DrawnInv
  <2>2. /\ meta' \in Metas /\ meta'.t = "list" /\ meta'.ver = meta.ver
        /\ sub' \in [Versions -> [Fields -> Vals \cup {None}]]
        /\ \A v \in Versions : v # meta.ver => sub'[v] = sub[v]
        /\ WindowInv'
    BY Zenon, <1>1, <2>1, PushToPreserves DEF IInv, WindowInv
  <2>3. UNCHANGED <<score, now, drawn>>
    BY Zenon, <1>1 DEF PushTo
  <2> QED
    BY Zenon, <2>1, <2>2, <2>3 DEF IInv, KeyTypeOK, DrawnInv
<1>2. ASSUME ~Live, NEW v \in GenerateVersion,
             PushTo(NewMeta("list", v), batch, left), drawn' = drawn \cup {v}
      PROVE  IInv'
  <2> DEFINE m == NewMeta("list", v)
  <2>1. v \in Versions /\ v \notin drawn
    BY Zenon, <1>2 DEF GenerateVersion
  <2>2. /\ m \in Metas /\ m.t = "list" /\ m.ver = v
        /\ m.size = 0 /\ m.head = 0 /\ m.tail = -1
    BY <2>1, NewMetaType DEF Types
  <2>3. \A i \in Fields : sub[v][i] = None
    BY Zenon, <2>1 DEF IInv, DrawnInv, NoFields
  <2>4. \A i \in Fields : sub[m.ver][i] # None <=> m.head <= i /\ i <= m.tail
    BY <2>2, <2>3
  <2> HIDE DEF m
  <2>5. /\ meta' \in Metas /\ meta'.t = "list" /\ meta'.ver = v
        /\ sub' \in [Versions -> [Fields -> Vals \cup {None}]]
        /\ \A u \in Versions : u # v => sub'[u] = sub[u]
        /\ WindowInv'
    <3>1. m.size = m.tail - m.head + 1 /\ KeyTypeOK
      BY <2>2 DEF IInv
    <3>2. PushTo(m, batch, left)
      BY Zenon, <1>2 DEF m
    <3> QED
      BY Zenon, <2>1, <2>2, <2>4, <3>1, <3>2, PushToPreserves
  <2>6. UNCHANGED <<score, now>>
    BY Zenon, <1>2 DEF PushTo
  <2> QED
    BY Zenon, <1>2, <2>1, <2>5, <2>6 DEF IInv, KeyTypeOK, DrawnInv
<1> QED
  BY Zenon, <1>1, <1>2 DEF Push

-----------------------------------------------------------------------------

\* The window after k elements have left it at one end.
LEMMA PoppedMeta ==
    ASSUME NEW m \in Metas, m = meta, NEW k \in Nat, k <= m.size,
           NEW left \in BOOLEAN, NEW q, q = Popped(k, left)
    PROVE  /\ q \in Metas /\ q.t = m.t /\ q.ver = m.ver /\ q.exp = m.exp
           /\ q.size = m.size - k
           /\ k = m.size => q.head = 0 /\ q.tail = -1
           /\ k # m.size /\ left => q.head = m.head + k /\ q.tail = m.tail
           /\ k # m.size /\ ~left => q.head = m.head /\ q.tail = m.tail - k
<1> DEFINE h == IF k = m.size THEN 0 ELSE IF left THEN m.head + k ELSE m.head
           t == IF k = m.size THEN -1 ELSE IF left THEN m.tail ELSE m.tail - k
           z == m.size - k
<1>1. h \in Int /\ t \in Int /\ z \in Nat
  BY DEF Metas
<1>2. Popped(k, left) = [m EXCEPT !.head = h, !.tail = t, !.size = z]
  <2>1. CASE k = m.size
    <3>1. z = 0
      BY <2>1 DEF Metas
    <3> QED
      BY Zenon, <2>1, <3>1 DEF Popped
  <2>2. CASE k # m.size
    BY Zenon, <2>2 DEF Popped
  <2> QED
    BY Zenon, <2>1, <2>2
<1> HIDE DEF h, t, z
<1>3. Popped(k, left) = [t |-> m.t, exp |-> m.exp, ver |-> m.ver, size |-> z,
                         head |-> h, tail |-> t, last |-> m.last]
  BY Zenon, <1>2 DEF Metas
<1> QED
  <2>1. /\ q \in Metas /\ q.t = m.t /\ q.ver = m.ver /\ q.exp = m.exp
        /\ q.size = z /\ q.head = h /\ q.tail = t
    BY <1>1, <1>3 DEF Metas
  <2>2. /\ q.size = m.size - k
        /\ k = m.size => q.head = 0 /\ q.tail = -1
        /\ k # m.size /\ left => q.head = m.head + k /\ q.tail = m.tail
        /\ k # m.size /\ ~left => q.head = m.head /\ q.tail = m.tail - k
    BY Zenon, <2>1 DEF h, t, z
  <2> QED
    BY Zenon, <2>1, <2>2

\* What a pop finds, and what it makes of the metadata.
LEMMA PopFacts ==
    ASSUME IInv, NEW n \in Counts, NEW left \in BOOLEAN, Pop(n, left),
           NEW k, k = Smaller(n, meta.size)
    PROVE  /\ meta \in Metas /\ meta # None /\ meta.t = "list"
           /\ meta.ver \in drawn /\ meta.ver \in Versions
           /\ meta.head \in Int /\ meta.tail \in Int /\ meta.size \in Nat
           /\ meta.size = meta.tail - meta.head + 1
           /\ \A i \in Fields : sub[meta.ver][i] # None <=> meta.head <= i /\ i <= meta.tail
           /\ k \in 1..meta.size
           /\ meta' \in Metas /\ meta'.t = "list" /\ meta'.ver = meta.ver
           /\ meta'.exp = meta.exp
           /\ meta'.size = meta.size - k
           /\ k = meta.size => meta'.head = 0 /\ meta'.tail = -1
           /\ k # meta.size /\ left => meta'.head = meta.head + k /\ meta'.tail = meta.tail
           /\ k # meta.size /\ ~left => meta'.head = meta.head /\ meta'.tail = meta.tail - k
<1>1. /\ meta \in Metas /\ meta # None /\ meta.t = "list"
      /\ meta.ver \in drawn /\ meta.ver \in Versions
      /\ meta.head \in Int /\ meta.tail \in Int /\ meta.size \in Nat
      /\ meta.size = meta.tail - meta.head + 1
      /\ \A i \in Fields : sub[meta.ver][i] # None <=> meta.head <= i /\ i <= meta.tail
  BY Zenon DEF Pop, Live, IInv, KeyTypeOK, DrawnInv, WindowInv, Metas
<1>2. k \in 1..meta.size
  <2>1. n > 0 /\ meta.size > 0 /\ n \in Nat
    BY Zenon, ListAssumption DEF Pop
  <2> QED
    BY <1>1, <2>1 DEF Smaller
<1>3. meta' = Popped(k, left)
  BY Zenon DEF Pop
<1>4. k \in Nat /\ k <= meta.size
  BY <1>1, <1>2
<1>5. /\ meta' \in Metas /\ meta'.t = "list" /\ meta'.ver = meta.ver
      /\ meta'.exp = meta.exp
      /\ meta'.size = meta.size - k
      /\ k = meta.size => meta'.head = 0 /\ meta'.tail = -1
      /\ k # meta.size /\ left => meta'.head = meta.head + k /\ meta'.tail = meta.tail
      /\ k # meta.size /\ ~left => meta'.head = meta.head /\ meta'.tail = meta.tail - k
  <2>1. PICK m, q : m = meta /\ q = meta'
    BY Zenon
  <2>2. m \in Metas /\ m = meta /\ k <= m.size /\ q = Popped(k, left)
    BY Zenon, <1>1, <1>3, <1>4, <2>1
  <2>3. /\ q \in Metas /\ q.t = m.t /\ q.ver = m.ver /\ q.exp = m.exp
        /\ q.size = m.size - k
        /\ k = m.size => q.head = 0 /\ q.tail = -1
        /\ k # m.size /\ left => q.head = m.head + k /\ q.tail = m.tail
        /\ k # m.size /\ ~left => q.head = m.head /\ q.tail = m.tail - k
    BY <1>4, <2>2, PoppedMeta
  <2> QED
    BY Zenon, <1>1, <2>1, <2>3
<1> QED
  BY Zenon, <1>1, <1>2, <1>5

LEMMA PopPreserves ==
    ASSUME IInv, NEW n \in Counts, NEW left \in BOOLEAN, Pop(n, left)
    PROVE  IInv'
<1> DEFINE k == Smaller(n, meta.size)
           index(j) == IF left THEN meta.head + j - 1 ELSE meta.tail - j + 1
           taken == {index(j) : j \in 1..k}
           g == [i \in Fields |-> IF i \in taken THEN None ELSE sub[meta.ver][i]]
<1>1. /\ meta \in Metas /\ meta # None /\ meta.t = "list"
      /\ meta.ver \in drawn /\ meta.ver \in Versions
      /\ meta.head \in Int /\ meta.tail \in Int /\ meta.size \in Nat
      /\ meta.size = meta.tail - meta.head + 1
      /\ \A i \in Fields : sub[meta.ver][i] # None <=> meta.head <= i /\ i <= meta.tail
  BY Zenon, PopFacts
<1>2. k \in 1..meta.size
  BY Zenon, PopFacts
<1>3. sub' = [sub EXCEPT ![meta.ver] = g]
  BY Zenon DEF Pop
<1>4. UNCHANGED <<score, now, drawn>>
  BY Zenon DEF Pop
<1>5. /\ meta' \in Metas /\ meta'.t = "list" /\ meta'.ver = meta.ver
      /\ meta'.size = meta.size - k
      /\ k = meta.size => meta'.head = 0 /\ meta'.tail = -1
      /\ k # meta.size /\ left => meta'.head = meta.head + k /\ meta'.tail = meta.tail
      /\ k # meta.size /\ ~left => meta'.head = meta.head /\ meta'.tail = meta.tail - k
  BY Zenon, PopFacts
<1> HIDE DEF k
<1>6. ASSUME NEW i \in Int
      PROVE  i \in taken <=> IF left THEN meta.head <= i /\ i < meta.head + k
                                     ELSE meta.tail - k < i /\ i <= meta.tail
  <2>0. meta.head \in Int /\ meta.tail \in Int /\ k \in Int
    BY <1>1, <1>2
  <2>1. i \in taken <=> \E j \in 1..k : i = index(j)
    BY Zenon
  <2>2. CASE left
    <3>1. ASSUME meta.head <= i, i < meta.head + k
          PROVE  i - meta.head + 1 \in 1..k /\ i = index(i - meta.head + 1)
      <4>1. i - meta.head + 1 \in 1..k
        BY <2>0, <3>1
      <4>2. index(i - meta.head + 1) = meta.head + (i - meta.head + 1) - 1
        BY Zenon, <2>2
      <4> QED
        BY <2>0, <4>1, <4>2
    <3>2. ASSUME NEW j \in 1..k, i = index(j)
          PROVE  meta.head <= i /\ i < meta.head + k
      <4>1. i = meta.head + j - 1
        BY Zenon, <2>2, <3>2
      <4> QED
        BY <2>0, <4>1
    <3> HIDE DEF index, taken
    <3>3. meta.head <= i /\ i < meta.head + k <=> i \in taken
      BY Zenon, <2>1, <3>1, <3>2
    <3> QED
      BY Zenon, <2>2, <3>3
  <2>3. CASE ~left
    <3>1. ASSUME meta.tail - k < i, i <= meta.tail
          PROVE  meta.tail - i + 1 \in 1..k /\ i = index(meta.tail - i + 1)
      <4>1. meta.tail - i + 1 \in 1..k
        BY <2>0, <3>1
      <4>2. index(meta.tail - i + 1) = meta.tail - (meta.tail - i + 1) + 1
        BY Zenon, <2>3
      <4> QED
        BY <2>0, <4>1, <4>2
    <3>2. ASSUME NEW j \in 1..k, i = index(j)
          PROVE  meta.tail - k < i /\ i <= meta.tail
      <4>1. i = meta.tail - j + 1
        BY Zenon, <2>3, <3>2
      <4> QED
        BY <2>0, <4>1
    <3> HIDE DEF index, taken
    <3>3. meta.tail - k < i /\ i <= meta.tail <=> i \in taken
      BY Zenon, <2>1, <3>1, <3>2
    <3> QED
      BY Zenon, <2>3, <3>3
  <2> QED
    BY Zenon, <2>2, <2>3
<1>7. g \in [Fields -> Vals \cup {None}]
  BY <1>1 DEF IInv, KeyTypeOK
<1>8. \A i \in Fields : g[i] # None <=> meta'.head <= i /\ i <= meta'.tail
  <2> SUFFICES ASSUME NEW i \in Fields
               PROVE  g[i] # None <=> meta'.head <= i /\ i <= meta'.tail
    BY Zenon
  <2>1. /\ i \in Int
        /\ sub[meta.ver][i] # None <=> meta.head <= i /\ i <= meta.tail
    BY Zenon, <1>1
  <2>2. g[i] # None <=> i \notin taken /\ meta.head <= i /\ i <= meta.tail
    BY Zenon, <2>1
  <2>3. i \in taken <=> IF left THEN meta.head <= i /\ i < meta.head + k
                               ELSE meta.tail - k < i /\ i <= meta.tail
    BY Zenon, <1>6, <2>1
  <2> HIDE DEF g, taken
  <2>0. /\ meta.head \in Int /\ meta.tail \in Int /\ meta.size \in Int /\ k \in Int
        /\ meta.size = meta.tail - meta.head + 1 /\ 1 <= k /\ k <= meta.size
    BY <1>1, <1>2
  <2>4. CASE k = meta.size
    <3>1. meta'.head = 0 /\ meta'.tail = -1
      BY Zenon, <1>5, <2>4
    <3> QED
      BY <2>0, <2>1, <2>2, <2>3, <2>4, <3>1
  <2>5. CASE k # meta.size /\ left
    <3>1. meta'.head = meta.head + k /\ meta'.tail = meta.tail
      BY Zenon, <1>5, <2>5
    <3> QED
      BY <2>0, <2>1, <2>2, <2>3, <2>5, <3>1
  <2>6. CASE k # meta.size /\ ~left
    <3>1. meta'.head = meta.head /\ meta'.tail = meta.tail - k
      BY Zenon, <1>5, <2>6
    <3> QED
      BY <2>0, <2>1, <2>2, <2>3, <2>6, <3>1
  <2> QED
    BY Zenon, <2>4, <2>5, <2>6
<1> HIDE DEF g
<1>9. /\ sub' \in [Versions -> [Fields -> Vals \cup {None}]]
      /\ sub'[meta.ver] = g
      /\ \A v \in Versions \ drawn : sub'[v] = NoFields
  BY Zenon, <1>1, <1>3, <1>7 DEF IInv, KeyTypeOK, DrawnInv
<1>10. meta'.size = meta'.tail - meta'.head + 1
  <2>1. /\ meta.head \in Int /\ meta.tail \in Int /\ meta.size \in Int /\ k \in Int
        /\ meta.size = meta.tail - meta.head + 1
    BY <1>1, <1>2
  <2>2. CASE k = meta.size
    BY <1>5, <2>1, <2>2
  <2>3. CASE k # meta.size /\ left
    BY <1>5, <2>1, <2>3
  <2>4. CASE k # meta.size /\ ~left
    BY <1>5, <2>1, <2>4
  <2> QED
    BY Zenon, <2>2, <2>3, <2>4
<1>11. WindowInv'
  BY Zenon, <1>5, <1>8, <1>9, <1>10 DEF WindowInv
<1> QED
  BY Zenon, <1>1, <1>4, <1>5, <1>9, <1>11 DEF IInv, KeyTypeOK, DrawnInv

-----------------------------------------------------------------------------

LEMMA NextIInv == UniqueVersions /\ IInv /\ [Next]_keyVars => IInv'
<1> SUFFICES ASSUME UniqueVersions, IInv, [Next]_keyVars PROVE IInv'
  BY Zenon
<1>1. ASSUME UNCHANGED <<meta, sub, score, now, drawn>> PROVE IInv'
  BY Zenon, <1>1 DEF IInv, KeyTypeOK, WindowInv, DrawnInv
<1>2. CASE Refused
  BY Zenon, <1>1, <1>2 DEF Refused, Unchanged
<1>3. ASSUME NEW n \in Counts, PopNothing(n) PROVE IInv'
  BY Zenon, <1>1, <1>3 DEF PopNothing, Unchanged
<1>4. CASE LLen
  BY Zenon, <1>1, <1>4 DEF LLen, Unchanged
<1>5. ASSUME NEW i \in Ranges, NEW j \in Ranges, LRange(i, j) PROVE IInv'
  BY Zenon, <1>1, <1>5 DEF LRange, Unchanged
<1>6. ASSUME NEW i \in Ranges, LIndex(i) PROVE IInv'
  BY Zenon, <1>1, <1>6 DEF LIndex, Unchanged
<1>7. CASE UNCHANGED keyVars
  BY Zenon, <1>1, <1>7 DEF keyVars
<1> QED
  BY Zenon, <1>2, <1>3, <1>4, <1>5, <1>6, <1>7, PushPreserves, PopPreserves,
     KeyCommandPreserves
  DEF Next

\* Lists keep to the inductive invariant.
THEOREM Invariance == UniqueVersions => (Spec => []IInv)
<1> SUFFICES ASSUME UniqueVersions PROVE Spec => []IInv
  BY Zenon
<1>1. IInv /\ [Next]_keyVars => IInv'
  BY Zenon, NextIInv
<1> QED
  BY <1>1, InitIInv, PTL DEF Spec

\* head, tail and size always describe exactly the stored elements
\* (list.rs:87-211), through expiry, SET over a list, DEL and FLUSHDB, if
\* generate_version does not repeat itself.
THEOREM Window == UniqueVersions => (Spec => []WindowInv)
<1> SUFFICES ASSUME UniqueVersions PROVE Spec => []WindowInv
  BY Zenon
<1>1. IInv => WindowInv
  BY Zenon DEF IInv
<1>2. Spec => []IInv
  BY Zenon, Invariance
<1> QED
  BY <1>1, <1>2, PTL

\* The column families stay well typed.
THEOREM TypeCorrect == UniqueVersions => (Spec => []TypeOK)
<1> SUFFICES ASSUME UniqueVersions PROVE Spec => []TypeOK
  BY Zenon
<1>1. IInv => TypeOK
  BY Zenon DEF IInv, TypeOK
<1>2. Spec => []IInv
  BY Zenon, Invariance
<1> QED
  BY <1>1, <1>2, PTL
-----------------------------------------------------------------------------
\* The refinement of ListADT

IsList == IF meta = None THEN FALSE ELSE meta.t = "list"

\* The ends of the window are indices.
RangeInv == IsList => meta.head \in Fields /\ meta.tail \in Fields

LEMMA IndexTypes == Fields \subseteq Int /\ -1 \in Fields /\ 0 \in Fields
  BY Zenon, IndexAssumption

LEMMA PushToRange ==
    ASSUME NEW m \in Metas, m.head \in Fields, m.tail \in Fields,
           NEW batch \in Batches, NEW left \in BOOLEAN, PushTo(m, batch, left)
    PROVE  meta'.head \in Fields /\ meta'.tail \in Fields
<1>1. Fits(m, Len(batch), left)
  BY Zenon DEF PushTo
<1>2. /\ meta'.head = IF left THEN m.head - Len(batch) ELSE m.head
      /\ meta'.tail = IF left THEN m.tail ELSE m.tail + Len(batch)
  BY Zenon, PushedMeta
<1> QED
  BY Zenon, <1>1, <1>2 DEF Fits

LEMMA NextRange == UniqueVersions /\ IInv /\ RangeInv /\ [Next]_keyVars => RangeInv'
<1> SUFFICES ASSUME UniqueVersions, IInv, RangeInv, [Next]_keyVars PROVE RangeInv'
  BY Zenon
<1>1. ASSUME UNCHANGED meta PROVE RangeInv'
  BY Zenon, <1>1 DEF RangeInv, IsList
<1>2. CASE UNCHANGED keyVars \/ Refused \/ LLen
  BY Zenon, <1>1, <1>2 DEF keyVars, Refused, LLen, Unchanged
<1>3. ASSUME NEW n \in Counts, PopNothing(n) PROVE RangeInv'
  BY Zenon, <1>1, <1>3 DEF PopNothing, Unchanged
<1>4. ASSUME NEW i \in Ranges, NEW j \in Ranges, LRange(i, j) \/ LIndex(i) PROVE RangeInv'
  BY Zenon, <1>1, <1>4 DEF LRange, LIndex, Unchanged
<1>5. CASE KeyCommand
  <2>1. NoComposite' \/ SameValue
    BY Zenon, <1>5, KeyStep DEF IInv
  <2> QED
    BY Zenon, <2>1 DEF NoComposite, SameValue, RangeInv, IsList
<1>6. ASSUME NEW batch \in Batches, NEW left \in BOOLEAN, Push(batch, left) PROVE RangeInv'
  <2>1. CASE Live /\ PushTo(meta, batch, left)
    BY <2>1, PushToRange DEF Live, IInv, KeyTypeOK, RangeInv, IsList
  <2>2. ASSUME NEW v \in GenerateVersion, PushTo(NewMeta("list", v), batch, left)
        PROVE  RangeInv'
    <3>1. v \in Versions
      BY Zenon DEF GenerateVersion
    <3>2. /\ NewMeta("list", v) \in Metas
          /\ NewMeta("list", v).head \in Fields /\ NewMeta("list", v).tail \in Fields
      BY <3>1, NewMetaType, IndexTypes DEF Types
    <3> QED
      BY Zenon, <2>2, <3>2, PushToRange DEF RangeInv
  <2> QED
    BY Zenon, <1>6, <2>1, <2>2 DEF Push
<1>7. ASSUME NEW n \in Counts, NEW left \in BOOLEAN, Pop(n, left) PROVE RangeInv'
  <2> DEFINE k == Smaller(n, meta.size)
  <2>1. /\ meta.head \in Int /\ meta.tail \in Int /\ meta.size \in Nat
        /\ meta.size = meta.tail - meta.head + 1
        /\ k \in 1..meta.size /\ IsList
    BY Zenon, <1>7, PopFacts DEF IsList
  <2>2. meta.head \in Fields /\ meta.tail \in Fields /\ k \in Nat /\ k <= meta.size
    BY <2>1 DEF RangeInv
  <2>3. /\ k = meta.size => meta'.head = 0 /\ meta'.tail = -1
        /\ k # meta.size /\ left => meta'.head = meta.head + k /\ meta'.tail = meta.tail
        /\ k # meta.size /\ ~left => meta'.head = meta.head /\ meta'.tail = meta.tail - k
    BY Zenon, <1>7, PopFacts
  <2> HIDE DEF k
  <2>4. \A i \in meta.head..meta.tail : i \in Fields
    BY Zenon, <2>1, <2>2, IndexAssumption
  <2>5. k # meta.size => meta.head + k \in meta.head..meta.tail /\ meta.tail - k \in meta.head..meta.tail
    <3>1. /\ meta.head \in Int /\ meta.tail \in Int /\ meta.size \in Nat
          /\ meta.size = meta.tail - meta.head + 1
          /\ k \in Nat /\ k <= meta.size
      BY Zenon, <2>1, <2>2
    <3> QED
      BY <3>1
  <2> QED
    BY Zenon, <2>2, <2>3, <2>4, <2>5, IndexTypes DEF RangeInv
<1> QED
  BY Zenon, <1>2, <1>3, <1>4, <1>5, <1>6, <1>7 DEF Next

-----------------------------------------------------------------------------
LEMMA AbstractShown ==
    ASSUME KeyTypeOK, ~OtherType
    PROVE  /\ ADT!Shown = IF Live THEN Elements(sub[meta.ver], meta.head, meta.size) ELSE << >>
           /\ Live => AbsType("list") = "composite" /\ ~ADT!Expired
           /\ AbsType("list") # "string"
  BY Zenon DEF ADT!Shown, ADT!Expired, AbsExp, AbsList, AbsType, Live, OtherType, IsExpired,
         KeyTypeOK, Metas, Elements

LEMMA AnswerMaps ==
    ASSUME NEW command, NEW r, Replies(command, r), Unchanged
    PROVE  ADT!Answer(command, r)
  BY Zenon DEF Replies, Unchanged, ADT!Answer, ADT!Tell, AbsType, AbsList, AbsExp

LEMMA InitMaps == Init => ADT!Init
  BY Zenon DEF Init, KeyInit, ADT!Init, AbsType, AbsList, AbsExp, Nil

LEMMA KeyCommandMaps ==
    ASSUME IInv, KeyCommand
    PROVE  ADT!KeyCommand
<1>0. /\ NoComposite' => AbsList' = << >>
      /\ SameValue => AbsList' = AbsList
      /\ KeyTypeOK /\ DrawnInv /\ now \in Nat /\ "list" \in Types \ {"string"}
  BY Zenon DEF NoComposite, SameValue, AbsList, AbsType, IInv, KeyTypeOK, Types
<1>1. ASSUME NEW e \in Int, NEW command, SetString(e), Replies(command, Ok)
      PROVE  ADT!SetTo(e, command)
  BY Zenon, <1>0, <1>1, SetAbs DEF Replies, Ok, ADT!SetTo, ADT!Become, ADT!Tell
<1>2. ASSUME NEW command, NEW r, meta' = None, now' = now, Replies(command, r)
      PROVE  ADT!Become("none", << >>, 0, command, r)
  BY Zenon, <1>0, <1>2, GoneAbs DEF Replies, ADT!Become, ADT!Tell
<1>3. ASSUME NEW e \in Int, NEW command, NEW r, meta # None, SetExpire(e), Replies(command, r)
      PROVE  ADT!Become(AbsType("list"), AbsList, e, command, r)
  BY Zenon, <1>0, <1>3, SetExpireAbs DEF Replies, ADT!Become, ADT!Tell
<1>4. /\ AbsType("list") = "none" <=> meta = None
      /\ KeyExists <=> ADT!Exists
      /\ HasExpiry <=> AbsType("list") # "none" /\ AbsExp > 0
  BY Zenon, AbsExists DEF ADT!Exists, ADT!Expired
<1>5. ASSUME NEW ttl \in TTLs \cup {0}, ttl >= 0, Set(ttl) PROVE ADT!KeyCommand
  <2>1. CASE ttl = 0
    <3>1. ADT!SetTo(0, <<"set", 0>>)
      BY <1>1, <1>5, <2>1 DEF Set
    <3> QED
      BY Zenon, <3>1 DEF ADT!KeyCommand
  <2>2. CASE ttl # 0
    <3>1. ttl \in TTLs /\ ttl > 0 /\ now + ttl \in Int
      BY <1>0, <1>5, <2>2
    <3>2. ADT!SetTo(now + ttl, <<"set", ttl>>)
      BY Zenon, <1>1, <1>5, <2>2, <3>1 DEF Set
    <3> QED
      BY Zenon, <3>1, <3>2 DEF ADT!KeyCommand
  <2> QED
    BY Zenon, <2>1, <2>2
<1>6. CASE SetNX
  BY <1>1, <1>4, <1>6, AnswerMaps DEF SetNX, Nil, ADT!KeyCommand
<1>7. CASE SetXX
  BY <1>1, <1>4, <1>7, AnswerMaps DEF SetXX, Nil, ADT!KeyCommand
<1>8. CASE Del
  <2>1. ADT!Become("none", << >>, 0, <<"del">>, <<"int", IF AbsType("list") = "none" THEN 0 ELSE 1>>)
    BY Zenon, <1>2, <1>4, <1>8 DEF Del, Unchanged, Int64
  <2> QED
    BY Zenon, <2>1 DEF ADT!KeyCommand
<1>9. ASSUME NEW ttl \in TTLs, Expire(ttl) PROVE ADT!KeyCommand
  <2>1. now + ttl \in Int
    BY <1>0
  <2>2. IF AbsType("list") = "none" THEN ADT!Answer(<<"expire", ttl>>, <<"int", 0>>)
        ELSE ADT!Become(AbsType("list"), AbsList, now + ttl, <<"expire", ttl>>, <<"int", 1>>)
    BY Zenon, <1>3, <1>4, <1>9, <2>1, AnswerMaps DEF Expire, Int64
  <2> QED
    BY Zenon, <2>2 DEF ADT!KeyCommand
<1>10. CASE Persist
  <2>1. IF AbsType("list") # "none" /\ AbsExp > 0
        THEN ADT!Become(AbsType("list"), AbsList, 0, <<"persist">>, <<"int", 1>>)
        ELSE ADT!Answer(<<"persist">>, <<"int", 0>>)
    BY <1>3, <1>4, <1>10, AnswerMaps DEF Persist, Int64
  <2> QED
    BY Zenon, <2>1 DEF ADT!KeyCommand
<1>11. CASE FlushDb
  <2>1. ADT!Become("none", << >>, 0, <<"flushdb">>, <<"ok">>)
    BY Zenon, <1>2, <1>11 DEF FlushDb, Ok
  <2> QED
    BY Zenon, <2>1 DEF ADT!KeyCommand
<1>12. CASE Tick
  BY Zenon, <1>12 DEF Tick, ADT!KeyCommand, AbsType, AbsList, AbsExp
<1> QED
  BY <1>5, <1>6, <1>7, <1>8, <1>9, <1>10, <1>11, <1>12 DEF KeyCommand

\* A live list: its window, its elements, and what ListADT shows of it.
LEMMA LiveList ==
    ASSUME IInv, RangeInv, Live
    PROVE  /\ ~OtherType /\ meta \in Metas /\ meta # None /\ meta.t = "list"
           /\ meta.ver \in Versions
           /\ meta.head \in Fields /\ meta.tail \in Fields
           /\ meta.head \in Int /\ meta.tail \in Int /\ meta.size \in Nat
           /\ meta.size = meta.tail - meta.head + 1
           /\ \A i \in Fields : sub[meta.ver][i] # None <=> meta.head <= i /\ i <= meta.tail
           /\ ADT!Shown = Elements(sub[meta.ver], meta.head, meta.size)
           /\ Len(ADT!Shown) = meta.size
<1>1. ~OtherType /\ meta \in Metas /\ meta # None /\ meta.t = "list" /\ meta.ver \in Versions
  BY Zenon DEF Live, OtherType, IInv, KeyTypeOK, DrawnInv
<1>2. meta.head \in Int /\ meta.tail \in Int /\ meta.size \in Nat
  BY Zenon, <1>1 DEF Metas
<1>3. ADT!Shown = Elements(sub[meta.ver], meta.head, meta.size)
  BY Zenon, <1>1, AbstractShown DEF IInv
<1>4. Len(ADT!Shown) = meta.size
  BY Zenon, <1>2, <1>3, ElementsLen
<1>5. meta.head \in Fields /\ meta.tail \in Fields
  BY Zenon, <1>1 DEF RangeInv, IsList
<1>6. /\ meta.size = meta.tail - meta.head + 1
      /\ \A i \in Fields : sub[meta.ver][i] # None <=> meta.head <= i /\ i <= meta.tail
  BY Zenon, <1>1 DEF IInv, WindowInv
<1> QED
  BY Zenon, <1>1, <1>2, <1>3, <1>4, <1>5, <1>6

LEMMA DeadList ==
    ASSUME IInv, ~Live, ~OtherType
    PROVE  ADT!Shown = << >> /\ Len(ADT!Shown) = 0
  BY AbstractShown DEF IInv

LEMMA CommandMaps ==
    ASSUME IInv, ~OtherType, ADT!ListCommand
    PROVE  ADT!Next
  BY Zenon, AbstractShown DEF IInv, ADT!Next

\* Positions count from 1, indices from 0.
LEMMA Positions ==
    ASSUME IInv, RangeInv, Live, NEW i \in Ranges
    PROVE  ADT!Position(i) = FromEnd(i) + 1 /\ FromEnd(i) \in Int
<1>1. meta.size \in Nat /\ Len(ADT!Shown) = meta.size
  BY Zenon, LiveList
<1> QED
  BY <1>1 DEF ADT!Position, FromEnd

LEMMA SimpleReadsMap ==
    ASSUME IInv, RangeInv,
           Refused \/ LLen \/ (\E n \in Counts : PopNothing(n)) \/ \E i \in Ranges : LIndex(i)
    PROVE  ADT!Next
<1>1. CASE Refused
  <2>1. AbsType("list") = "string"
    BY Zenon, <1>1 DEF Refused, OtherType, AbsType
  <2> QED
    BY Zenon, <1>1, <2>1, AnswerMaps DEF Refused, ADT!Next, ADT!Refused, WrongType
<1>2. CASE LLen
  <2>1. ~OtherType /\ Unchanged /\ Replies(<<"llen">>, Int64(IF Live THEN meta.size ELSE 0))
    BY Zenon, <1>2 DEF LLen
  <2>2. Len(ADT!Shown) = IF Live THEN meta.size ELSE 0
    BY Zenon, <2>1, LiveList, DeadList
  <2>3. ADT!LLen
    BY Zenon, <2>1, <2>2, AnswerMaps DEF Int64, ADT!LLen
  <2> QED
    BY Zenon, <2>1, <2>3, CommandMaps DEF ADT!ListCommand
<1>3. ASSUME NEW n \in Counts, PopNothing(n) PROVE ADT!Next
  <2>1. Unchanged /\ Replies(<<"pop", n>>, Bulks(<< >>))
    BY Zenon, <1>3 DEF PopNothing
  <2>2. CASE n = 0
    <3>1. ADT!PopZero(n)
      BY Zenon, <2>1, <2>2, AnswerMaps DEF Bulks, ADT!PopZero
    <3> QED
      BY Zenon, <3>1 DEF ADT!Next
  <2>3. CASE n # 0
    <3>1. ~OtherType /\ (Live => meta.size = 0)
      BY Zenon, <1>3, <2>3 DEF PopNothing
    <3>2. ASSUME Live, meta.size = 0 PROVE ADT!Shown = << >>
      BY <3>2, LiveList DEF Elements
    <3>3. ADT!Shown = << >>
      BY Zenon, <3>1, <3>2, DeadList
    <3>4. ADT!PopNothing(n)
      BY Zenon, <2>1, <3>3, AnswerMaps DEF Bulks, ADT!PopNothing
    <3> QED
      BY Zenon, <3>1, <3>4, CommandMaps DEF ADT!ListCommand
  <2> QED
    BY Zenon, <2>2, <2>3
<1>4. ASSUME NEW i \in Ranges, LIndex(i) PROVE ADT!Next
  <2> DEFINE p == ADT!Position(i)
             r == IF p \in 1..Len(ADT!Shown) THEN <<"bulks", <<ADT!Shown[p]>> >> ELSE <<"nil">>
  <2>1. ~OtherType /\ Unchanged /\ Replies(<<"lindex", i>>, IF Live THEN LIndexOf(i) ELSE Nil)
    BY Zenon, <1>4 DEF LIndex
  <2>2. (IF Live THEN LIndexOf(i) ELSE Nil) = r
    <3>1. CASE ~Live
      <4>1. Len(ADT!Shown) = 0
        BY Zenon, <2>1, <3>1, DeadList
      <4> QED
        BY <3>1, <4>1 DEF Nil
    <3>2. CASE Live
      <4>1. /\ meta.head \in Int /\ meta.size \in Nat /\ Len(ADT!Shown) = meta.size
            /\ ADT!Shown = Elements(sub[meta.ver], meta.head, meta.size)
        BY Zenon, <3>2, LiveList
      <4>2. p = FromEnd(i) + 1 /\ FromEnd(i) \in Int
        BY Zenon, <3>2, Positions
      <4>3. CASE FromEnd(i) < 0 \/ FromEnd(i) >= meta.size
        <5>1. p \notin 1..Len(ADT!Shown)
          BY <4>1, <4>2, <4>3
        <5> QED
          BY Zenon, <3>2, <4>3, <5>1 DEF LIndexOf, Nil
      <4>4. CASE ~ (FromEnd(i) < 0 \/ FromEnd(i) >= meta.size)
        <5>1. p \in 1..meta.size /\ meta.head + p - 1 = meta.head + FromEnd(i)
          BY <4>1, <4>2, <4>4
        <5> HIDE DEF p
        <5>2. ADT!Shown[p] = sub[meta.ver][meta.head + FromEnd(i)]
          BY Zenon, <4>1, <5>1 DEF Elements
        <5> QED
          BY Zenon, <3>2, <4>1, <4>4, <5>1, <5>2 DEF LIndexOf, Bulks
      <4> QED
        BY Zenon, <4>3, <4>4
    <3> QED
      BY Zenon, <3>1, <3>2
  <2>3. ADT!LIndex(i)
    <3> HIDE DEF r
    <3>1. ADT!Answer(<<"lindex", i>>, r)
      BY Zenon, <2>1, <2>2, AnswerMaps
    <3> QED
      BY Zenon, <3>1 DEF r, ADT!LIndex
  <2> QED
    BY Zenon, <2>1, <2>3, CommandMaps DEF ADT!ListCommand
<1> QED
  BY Zenon, <1>1, <1>2, <1>3, <1>4

LEMMA MirrorIs == \A b : ADT!Mirror(b) = Reversed(b)
  BY Zenon DEF ADT!Mirror, Reversed

\* A push onto a list, or onto a fresh one where the old one has expired.
LEMMA PushToMaps ==
    ASSUME KeyTypeOK, NEW m \in Metas, m.t = "list", m.ver \in Versions,
           m.head \in Fields, m.tail \in Fields,
           m.size = m.tail - m.head + 1,
           \A i \in Fields : sub[m.ver][i] # None <=> m.head <= i /\ i <= m.tail,
           ADT!Shown = Elements(sub[m.ver], m.head, m.size),
           m.exp = IF ADT!Expired THEN 0 ELSE AbsExp,
           NEW batch \in Batches, NEW left \in BOOLEAN, PushTo(m, batch, left)
    PROVE  ADT!Push(batch, left)
<1> DEFINE n == Len(batch)
           value == IF left THEN ADT!Mirror(batch) \o ADT!Shown ELSE ADT!Shown \o batch
<1>1. /\ m.head \in Int /\ m.tail \in Int /\ m.size \in Nat
      /\ batch \in Seq(Vals) /\ n \in Nat
  BY DEF Metas
<1>2. PICK f, g, h, z : f = sub[m.ver] /\ g = sub'[m.ver] /\ h = m.head /\ z = m.size
  BY Zenon
<1>3. /\ h \in Int /\ z \in Nat /\ m.tail = h + z - 1 /\ h \in Fields /\ h + z - 1 \in Fields
  BY <1>1, <1>2
<1>4. \A i \in Fields :
        g[i] = IF left /\ h - n <= i /\ i < h THEN batch[h - i]
               ELSE IF ~left /\ h + z - 1 < i /\ i <= h + z - 1 + n THEN batch[i - (h + z - 1)]
               ELSE f[i]
  <2>1. sub' = [sub EXCEPT ![m.ver] = [i \in Fields |->
             IF left /\ m.head - n <= i /\ i < m.head THEN batch[m.head - i]
             ELSE IF ~left /\ m.tail < i /\ i <= m.tail + n THEN batch[i - m.tail]
             ELSE sub[m.ver][i]]]
    BY Zenon DEF PushTo
  <2>2. g = [i \in Fields |->
             IF left /\ m.head - n <= i /\ i < m.head THEN batch[m.head - i]
             ELSE IF ~left /\ m.tail < i /\ i <= m.tail + n THEN batch[i - m.tail]
             ELSE sub[m.ver][i]]
    BY Zenon, <1>2, <2>1 DEF KeyTypeOK
  <2> QED
    BY Zenon, <1>2, <1>3, <2>2
<1>5. \A i \in h..h + z - 1 : i \in Fields /\ f[i] \in Vals
  <2>1. \A i \in h..h + z - 1 : i \in Fields
    BY Zenon, <1>3, IndexAssumption
  <2>2. \A i \in Fields : f[i] \in Vals \cup {None}
    <3>1. f \in [Fields -> Vals \cup {None}]
      BY Zenon, <1>2 DEF KeyTypeOK
    <3> QED
      BY Zenon, <3>1
  <2>3. \A i \in Fields : f[i] # None <=> h <= i /\ i <= h + z - 1
    BY Zenon, <1>2, <1>3
  <2> QED
    BY <1>3, <2>1, <2>2, <2>3
<1>6. /\ meta' \in Metas /\ meta'.t = "list" /\ meta'.ver = m.ver /\ meta'.exp = m.exp
      /\ meta'.size = z + n
      /\ meta'.head = IF left THEN h - n ELSE h
  BY Zenon, <1>2, PushedMeta
<1>7. Fits(m, n, left) /\ reply' = <<<<"push", batch, left>>, <<"int", m.size + n>>>> /\ now' = now
  BY Zenon DEF PushTo, Replies, Int64
<1>8. Elements(g, meta'.head, meta'.size) = value
  <2>1. CASE left
    <3>1. h - n \in Fields
      BY Zenon, <1>2, <1>7, <2>1 DEF Fits
    <3>2. \A i \in h - n..h + z - 1 : i \in Fields
      BY Zenon, <1>3, <3>1, IndexAssumption
    <3>3. \A i \in h - n..h - 1 : g[i] = batch[h - i]
      BY <1>1, <1>3, <1>4, <2>1, <3>2
    <3>5. \A i \in h..h + z - 1 : g[i] = f[i]
      BY <1>1, <1>3, <1>4, <2>1, <3>2
    <3>6. IsPushedLeft(Vals, batch, f, g, h, z)
      BY Zenon, <1>5, <3>3, <3>5 DEF IsPushedLeft, Same
    <3>4. Elements(g, h - n, z + n) = Reversed(batch) \o Elements(f, h, z)
      <4>1. AddedLeft(batch, f, g, h, z)
        BY Zenon, <1>1, <1>3, <3>6, PushedLeft
      <4> QED
        BY Zenon, <4>1 DEF AddedLeft
    <3> QED
      BY Zenon, <1>2, <1>6, <2>1, <3>4, MirrorIs
  <2>2. CASE ~left
    <3>1. h + z - 1 + n \in Fields
      BY Zenon, <1>3, <1>7, <2>2 DEF Fits
    <3>2. \A i \in h..h + z - 1 + n : i \in Fields
      BY Zenon, <1>3, <3>1, IndexAssumption
    <3>3. \A i \in h + z..h + z - 1 + n : g[i] = batch[i - (h + z - 1)]
      BY <1>1, <1>3, <1>4, <2>2, <3>2
    <3>5. \A i \in h..h + z - 1 : g[i] = f[i]
      BY <1>1, <1>3, <1>4, <2>2, <3>2
    <3>6. IsPushedRight(Vals, batch, f, g, h, z)
      BY Zenon, <1>5, <3>3, <3>5 DEF IsPushedRight, Same
    <3>4. Elements(g, h, z + n) = Elements(f, h, z) \o batch
      <4>1. AddedRight(batch, f, g, h, z)
        BY Zenon, <1>1, <1>3, <3>6, PushedRight
      <4> QED
        BY Zenon, <4>1 DEF AddedRight
    <3> QED
      BY Zenon, <1>2, <1>6, <2>2, <3>4
  <2> QED
    BY Zenon, <2>1, <2>2
<1>9. AbsType("list")' = "composite" /\ AbsList' = value /\ AbsExp' = m.exp
  <2>1. meta' # None
    BY Zenon, <1>6
  <2> QED
    BY Zenon, <1>2, <1>6, <1>8, <2>1 DEF AbsType, AbsList, AbsExp, Elements
<1>10. m.size + n = Len(batch) + Len(ADT!Shown)
  BY <1>1, ElementsLen
<1> HIDE DEF value
<1>11. ADT!Write(value, <<"push", batch, left>>, <<"int", Len(batch) + Len(ADT!Shown)>>)
  BY Zenon, <1>7, <1>9, <1>10 DEF ADT!Write, ADT!Become, ADT!Tell
<1> QED
  BY Zenon, <1>11 DEF ADT!Push, value

LEMMA PushMaps ==
    ASSUME UniqueVersions, IInv, RangeInv, NEW batch \in Batches, NEW left \in BOOLEAN,
           Push(batch, left)
    PROVE  ADT!Next
<1>0. ~OtherType
  BY Zenon DEF Push, OtherType, Live
<1>1. ADT!Push(batch, left)
  <2>1. CASE Live /\ PushTo(meta, batch, left)
    <3>1. KeyTypeOK /\ meta.exp = IF ADT!Expired THEN 0 ELSE AbsExp
      BY Zenon, <1>0, <2>1, AbstractShown DEF IInv, Live, AbsExp
    <3> QED
      BY Zenon, <2>1, <3>1, LiveList, PushToMaps
  <2>2. ASSUME ~Live, NEW v \in GenerateVersion, PushTo(NewMeta("list", v), batch, left)
        PROVE  ADT!Push(batch, left)
    <3>1. PICK m : m = NewMeta("list", v)
      BY Zenon
    <3>2. v \in Versions /\ sub[v] = NoFields
      BY Zenon DEF GenerateVersion, IInv, DrawnInv
    <3>3. /\ m \in Metas /\ m.t = "list" /\ m.ver = v /\ m.exp = 0
          /\ m.size = 0 /\ m.head = 0 /\ m.tail = -1
      BY Zenon, <3>1, <3>2, NewMetaType DEF Types, NewMeta
    <3>4. \A i \in Fields : sub[m.ver][i] # None <=> m.head <= i /\ i <= m.tail
      BY <3>2, <3>3 DEF NoFields
    <3>5. m.size = m.tail - m.head + 1 /\ m.head \in Fields /\ m.tail \in Fields
      BY <3>3, IndexTypes
    <3>6. ADT!Shown = Elements(sub[m.ver], m.head, m.size)
      BY <1>0, <2>2, <3>3, DeadList DEF Elements
    <3>7. m.exp = IF ADT!Expired THEN 0 ELSE AbsExp
      BY Zenon, <1>0, <2>2, <3>3 DEF IInv, Live, OtherType, IsExpired, ADT!Expired, AbsExp
    <3> QED
      BY Zenon, <2>2, <3>1, <3>2, <3>3, <3>4, <3>5, <3>6, <3>7, PushToMaps DEF IInv
  <2> QED
    BY Zenon, <2>1, <2>2 DEF Push
<1> QED
  BY Zenon, <1>0, <1>1, CommandMaps DEF ADT!ListCommand

LEMMA PopMaps ==
    ASSUME IInv, RangeInv, NEW c \in Counts, NEW left \in BOOLEAN, Pop(c, left)
    PROVE  ADT!Next
<1>1. PICK k, f, g, h, n, t :
        /\ k = Smaller(c, meta.size) /\ f = sub[meta.ver] /\ g = sub'[meta.ver]
        /\ h = meta.head /\ n = meta.size /\ t = meta.tail
  BY Zenon
<1> DEFINE index(j) == IF left THEN h + j - 1 ELSE t - j + 1
<1>2. /\ Live /\ c > 0 /\ meta.size > 0 /\ now' = now
      /\ reply' = <<<<"pop", c, left>>, <<"bulks", [j \in 1..k |->
             f[IF left THEN meta.head + j - 1 ELSE meta.tail - j + 1]]>>>>
      /\ sub' = [sub EXCEPT ![meta.ver] = [i \in Fields |->
             IF i \in {IF left THEN meta.head + j - 1 ELSE meta.tail - j + 1 : j \in 1..k}
             THEN None ELSE sub[meta.ver][i]]]
  BY Zenon, <1>1 DEF Pop, Replies, Bulks
<1>3. /\ meta.ver \in Versions /\ k \in 1..n
      /\ meta' \in Metas /\ meta'.t = "list" /\ meta'.ver = meta.ver
      /\ meta'.exp = meta.exp /\ meta'.size = n - k
      /\ k = n => meta'.head = 0
      /\ k # n /\ left => meta'.head = h + k
      /\ k # n /\ ~left => meta'.head = h
  BY Zenon, <1>1, PopFacts
<1>4. /\ ~OtherType /\ meta # None
      /\ h \in Int /\ n \in Nat /\ h \in Fields /\ t \in Fields
      /\ n = t - h + 1 /\ t \in Int
      /\ ADT!Shown = Elements(f, h, n) /\ Len(ADT!Shown) = n
  BY Zenon, <1>1, <1>2, LiveList
<1>5. t = h + n - 1 /\ h \in Int /\ n \in Nat /\ k \in 1..n
  BY <1>3, <1>4
<1>6. ADT!AtMost(c, Len(ADT!Shown)) = k /\ ADT!Shown # << >>
  <2>1. Len(ADT!Shown) # 0
    BY <1>1, <1>2, <1>4
  <2>2. ADT!Shown # << >>
    BY <2>1
  <2> QED
    BY Zenon, <1>1, <1>4, <2>2 DEF ADT!AtMost, Smaller
<1>7. reply' = <<<<"pop", c, left>>, <<"bulks", [j \in 1..k |-> f[index(j)]]>>>>
  BY Zenon, <1>1, <1>2
<1>8. ASSUME NEW x \in Int, NEW y \in Int, h <= x, y <= t,
             IF left THEN h + k <= x ELSE y <= t - k
      PROVE  Same(f, g, x, y)
  <2>1. g = [i \in Fields |-> IF i \in {index(j) : j \in 1..k} THEN None ELSE f[i]]
    BY Zenon, <1>1, <1>2, <1>3 DEF IInv, KeyTypeOK
  <2> SUFFICES ASSUME NEW i \in x..y PROVE g[i] = f[i]
    BY Zenon DEF Same
  <2>2. i \in h..t /\ k \in Int /\ i \in Int
    BY <1>5, <1>8
  <2>3. i \in Fields
    BY Zenon, <1>4, <2>2, IndexAssumption
  <2>4. i \notin {index(j) : j \in 1..k}
    <3>1. CASE left
      <4>1. ~ (h <= i /\ i < h + k)
        BY <1>5, <1>8, <2>2, <3>1
      <4> QED
        BY Zenon, <1>4, <2>2, <3>1, <4>1, Taken
    <3>2. CASE ~left
      <4>1. ~ (t - k < i /\ i <= t)
        BY <1>4, <1>5, <1>8, <2>2, <3>2
      <4> QED
        BY Zenon, <1>4, <2>2, <3>2, <4>1, Taken
    <3> QED
      BY Zenon, <3>1, <3>2
  <2> QED
    BY Zenon, <2>1, <2>3, <2>4
<1>9. AbsType("list")' = "composite" /\ AbsList' = Elements(g, meta'.head, n - k) /\ AbsExp' = AbsExp
  <2>1. meta' # None
    BY Zenon, <1>3
  <2> QED
    BY Zenon, <1>1, <1>3, <1>4, <2>1 DEF AbsType, AbsList, AbsExp, Elements
<1>10. ~ADT!Expired
  BY Zenon, <1>2, <1>4, AbstractShown DEF IInv
<1>11. ASSUME NEW value, AbsList' = value, NEW r, reply' = <<<<"pop", c, left>>, <<"bulks", r>>>>
       PROVE  ADT!Write(value, <<"pop", c, left>>, <<"bulks", r>>)
  BY <1>2, <1>9, <1>10, <1>11 DEF ADT!Write, ADT!Become, ADT!Tell
<1>12. ADT!Pop(c, left)
  <2>1. \A x : Elements(g, x, 0) = Elements(g, h, 0)
    BY DEF Elements
  <2>2. CASE left
    <3>1. Same(f, g, h + k, t)
      <4>1. h + k \in Int /\ h <= h + k /\ h + k <= h + k
        BY <1>5
      <4> QED
        BY <1>4, <1>5, <1>8, <2>2, <4>1
    <3>2. /\ SubSeq(Elements(f, h, n), k + 1, n) = Elements(g, h + k, n - k)
          /\ SubSeq(Elements(f, h, n), 1, k) = Elements(f, h, k)
      <4>1. IsPoppedLeft(f, g, h, n, k)
        BY SMT, <1>5, <3>1, PoppedLeft
      <4> QED
        BY Zenon, <4>1 DEF IsPoppedLeft
    <3>3. Elements(g, meta'.head, n - k) = Elements(g, h + k, n - k)
      <4>1. CASE k = n
        <5>1. n - k = 0
          BY <1>4, <4>1
        <5> QED
          BY Zenon, <2>1, <5>1
      <4> QED
        BY Zenon, <1>3, <2>2, <4>1
    <3>4. [j \in 1..k |-> f[index(j)]] = Elements(f, h, k)
      BY Zenon, <2>2 DEF Elements
    <3>5. ADT!Write(SubSeq(ADT!Shown, k + 1, Len(ADT!Shown)),
                    <<"pop", c, left>>, <<"bulks", SubSeq(ADT!Shown, 1, k)>>)
      BY Zenon, <1>4, <1>7, <1>9, <1>11, <3>2, <3>3, <3>4
    <3> QED
      BY Zenon, <1>2, <1>6, <2>2, <3>5 DEF ADT!Pop
  <2>3. CASE ~left
    <3>1. Same(f, g, h, t - k)
      <4>1. t - k \in Int /\ h <= h /\ t - k <= t /\ t - k <= t - k
        BY <1>4, <1>5
      <4> QED
        BY Zenon, <1>5, <1>8, <2>3, <4>1
    <3>2. /\ SubSeq(Elements(f, h, n), 1, n - k) = Elements(g, h, n - k)
          /\ Reversed(SubSeq(Elements(f, h, n), n - k + 1, n)) = Backwards(f, t, k)
      <4>1. IsPoppedRight(f, g, h, n, k, t)
        BY Zenon, <1>5, <3>1, PoppedRight
      <4> QED
        BY Zenon, <4>1 DEF IsPoppedRight
    <3>3. Elements(g, meta'.head, n - k) = Elements(g, h, n - k)
      <4>1. CASE k = n
        <5>1. n - k = 0
          BY <1>4, <4>1
        <5> QED
          BY Zenon, <2>1, <5>1
      <4> QED
        BY Zenon, <1>3, <2>3, <4>1
    <3>4. [j \in 1..k |-> f[index(j)]] = Backwards(f, t, k)
      BY Zenon, <2>3 DEF Backwards
    <3>5. ADT!Write(SubSeq(ADT!Shown, 1, Len(ADT!Shown) - k), <<"pop", c, left>>,
             <<"bulks", ADT!Mirror(SubSeq(ADT!Shown, Len(ADT!Shown) - k + 1, Len(ADT!Shown)))>>)
      BY Zenon, <1>4, <1>7, <1>9, <1>11, <3>2, <3>3, <3>4, MirrorIs
    <3> QED
      BY Zenon, <1>2, <1>6, <2>3, <3>5 DEF ADT!Pop
  <2> QED
    BY Zenon, <2>2, <2>3
<1> QED
  BY Zenon, <1>4, <1>12, CommandMaps DEF ADT!ListCommand

-----------------------------------------------------------------------------
\* The scan of LRANGE

INSTANCE FiniteSetTheorems

LEMMA IntervalCard ==
    ASSUME NEW a \in Int, NEW b \in Int, a <= b + 1
    PROVE  Cardinality(a..b) = b - a + 1
<1>1. Cardinality(a..b) = IF a > b THEN 0 ELSE b - a + 1
  BY Zenon, FS_Interval
<1>2. (IF a > b THEN 0 ELSE b - a + 1) = b - a + 1
  OBVIOUS
<1> QED
  BY Zenon, <1>1, <1>2

\* What a scan inside the window reads.
LEMMA ScanWindow ==
    ASSUME IInv, RangeInv, Live, NEW first \in Int, NEW last \in Int,
           meta.head <= first, first <= last, last <= meta.tail
    PROVE  Scan(first, last) = [j \in 1..last - first + 1 |-> sub[meta.ver][first + j - 1]]
<1> DEFINE present == {i \in Fields : /\ first <= i /\ i <= last
                                      /\ sub[meta.ver][i] # None}
           at(j) == CHOOSE i \in present : Cardinality({h \in present : h < i}) = j - 1
           n == last - first + 1
<1>0. first <= last + 1
  OBVIOUS
<1>1. /\ meta.head \in Int /\ meta.tail \in Int /\ meta.head \in Fields /\ meta.tail \in Fields
      /\ \A i \in Fields : sub[meta.ver][i] # None <=> meta.head <= i /\ i <= meta.tail
  BY Zenon, LiveList
<1>2. present = first..last
  <2>1. first..last \subseteq meta.head..meta.tail
    BY <1>1
  <2>2. first..last \subseteq Fields
    BY Zenon, <1>1, <2>1, IndexAssumption
  <2>3. \A i \in first..last : i \in Fields /\ first <= i /\ i <= last /\ sub[meta.ver][i] # None
    BY <1>1, <2>1, <2>2
  <2>4. \A i \in Fields : first <= i /\ i <= last => i \in first..last
    OBVIOUS
  <2> QED
    BY Zenon, <2>3, <2>4
<1>3. Cardinality(present) = n
  BY Zenon, <1>2, <1>0, IntervalCard
<1>4. \A i \in first..last : Cardinality({h \in first..last : h < i}) = i - first
  <2> SUFFICES ASSUME NEW i \in first..last
               PROVE  Cardinality({h \in first..last : h < i}) = i - first
    BY Zenon
  <2>1. {h \in first..last : h < i} = first..i-1
    OBVIOUS
  <2>2. Cardinality(first..i-1) = i - first
    <3>1. i - 1 \in Int /\ first <= (i - 1) + 1 /\ (i - 1) - first + 1 = i - first
      OBVIOUS
    <3> QED
      BY Zenon, <3>1, IntervalCard
  <2> QED
    BY Zenon, <2>1, <2>2
<1>5. \A j \in 1..n : at(j) = first + j - 1
  <2> SUFFICES ASSUME NEW j \in 1..n PROVE at(j) = first + j - 1
    BY Zenon
  <2>1. first + j - 1 \in first..last /\ (first + j - 1) - first = j - 1
    OBVIOUS
  <2>2. \A i \in first..last : i - first = j - 1 => i = first + j - 1
    OBVIOUS
  <2> QED
    BY Zenon, <1>2, <1>4, <2>1, <2>2
<1>6. Scan(first, last) = [j \in 1..Cardinality(present) |-> sub[meta.ver][at(j)]]
  BY Zenon DEF Scan
<1> HIDE DEF at, present
<1> QED
  BY Zenon, <1>3, <1>5, <1>6

LEMMA LRangeMaps ==
    ASSUME IInv, RangeInv, NEW i \in Ranges, NEW j \in Ranges, LRange(i, j)
    PROVE  ADT!Next
<1>1. /\ ~OtherType /\ Unchanged
      /\ Replies(<<"lrange", i, j>>, Bulks(IF Live THEN LRangeOf(i, j) ELSE << >>))
  BY Zenon DEF LRange
<1>2. ASSUME ADT!Between(i, j) = {}, Replies(<<"lrange", i, j>>, Bulks(<< >>))
      PROVE  ADT!LRange(i, j)
  BY Zenon, <1>1, <1>2, AnswerMaps DEF ADT!LRange, Bulks
<1>3. CASE ~Live
  <2>1. ADT!Between(i, j) = {}
    BY <1>1, <1>3, DeadList DEF ADT!Between
  <2> QED
    BY Zenon, <1>1, <1>2, <1>3, <2>1, CommandMaps DEF ADT!ListCommand
<1>4. CASE Live
  <2> DEFINE s == IF FromEnd(i) < 0 THEN 0 ELSE FromEnd(i)
             e == IF FromEnd(j) >= meta.size THEN meta.size - 1 ELSE FromEnd(j)
  <2>1. /\ meta.head \in Int /\ meta.tail \in Int /\ meta.size \in Nat
        /\ meta.size = meta.tail - meta.head + 1
        /\ ADT!Shown = Elements(sub[meta.ver], meta.head, meta.size)
        /\ Len(ADT!Shown) = meta.size
    BY Zenon, <1>4, LiveList
  <2>2. /\ ADT!Position(i) = FromEnd(i) + 1 /\ FromEnd(i) \in Int
        /\ ADT!Position(j) = FromEnd(j) + 1 /\ FromEnd(j) \in Int
    BY Zenon, <1>4, Positions
  <2>3. s \in Nat /\ e \in Int
    BY <2>1, <2>2
  <2>4. ADT!Between(i, j) = {p \in 1..meta.size : s + 1 <= p /\ p <= e + 1}
    BY <2>1, <2>2 DEF ADT!Between
  <2>5. LRangeOf(i, j) = IF meta.size = 0 \/ s > e THEN << >>
                         ELSE Scan(meta.head + s, meta.head + e)
    BY Zenon, <1>4 DEF LRangeOf
  <2>6. e < meta.size
    BY <2>1, <2>2
  <2> HIDE DEF s, e
  <2>7. CASE meta.size = 0 \/ s > e
    <3>1. ADT!Between(i, j) = {}
      BY <2>1, <2>3, <2>4, <2>7
    <3> QED
      BY Zenon, <1>1, <1>2, <1>4, <2>5, <2>7, <3>1, CommandMaps DEF ADT!ListCommand
  <2>8. CASE ~ (meta.size = 0 \/ s > e)
    <3>1. /\ meta.head + s \in Int /\ meta.head + e \in Int /\ meta.head <= meta.head + s
          /\ meta.head + s <= meta.head + e /\ meta.head + e <= meta.tail
          /\ s + 1 \in 1..meta.size /\ e + 1 \in 1..meta.size /\ s + 1 <= e + 1
      BY Zenon, <2>1, <2>3, <2>6, <2>8, SliceBounds
    <3>2. /\ s + 1 \in ADT!Between(i, j) /\ e + 1 \in ADT!Between(i, j)
          /\ \A r \in ADT!Between(i, j) : s + 1 <= r /\ r <= e + 1
      BY <2>3, <2>4, <3>1
    <3>3. Scan(meta.head + s, meta.head + e)
            = [x \in 1..(meta.head + e) - (meta.head + s) + 1 |->
                 sub[meta.ver][meta.head + s + x - 1]]
      BY Zenon, <1>4, <3>1, ScanWindow
    <3>4. s <= e
      BY <2>3, <2>8
    <3>5. SubSeq(Elements(sub[meta.ver], meta.head, meta.size), s + 1, e + 1)
            = [x \in 1..(meta.head + e) - (meta.head + s) + 1 |->
                 sub[meta.ver][meta.head + s + x - 1]]
      <4>1. PICK f, h, n : f = sub[meta.ver] /\ h = meta.head /\ n = meta.size
        BY Zenon
      <4>2. h \in Int /\ n \in Nat /\ e < n /\ s \in Nat /\ e \in Int
        BY Zenon, <2>1, <2>3, <2>6, <4>1
      <4>3. SubSeq(Elements(f, h, n), s + 1, e + 1)
              = [x \in 1..(h + e) - (h + s) + 1 |-> f[h + s + x - 1]]
        BY <3>4, <4>2, ElementsSlice
      <4> QED
        BY Zenon, <4>1, <4>3
    <3>6. Scan(meta.head + s, meta.head + e) = SubSeq(ADT!Shown, s + 1, e + 1)
      BY Zenon, <2>1, <3>3, <3>5
    <3>7. ADT!Answer(<<"lrange", i, j>>, <<"bulks", SubSeq(ADT!Shown, s + 1, e + 1)>>)
      BY Zenon, <1>1, <1>4, <2>5, <2>8, <3>6, AnswerMaps DEF Bulks
    <3>8. ADT!LRange(i, j)
      BY Zenon, <3>2, <3>7 DEF ADT!LRange
    <3> QED
      BY Zenon, <1>1, <3>8, CommandMaps DEF ADT!ListCommand
  <2> QED
    BY Zenon, <2>7, <2>8
<1> QED
  BY Zenon, <1>3, <1>4

\* The List commands implement ListADT (list.rs): what a client reads through
\* the indices of the subkeys is the sequence its pushes and pops make, through
\* expiry, replacement, DEL and FLUSHDB.
THEOREM Refinement == UniqueVersions => (Spec => ImplementsADT)
<1> SUFFICES ASSUME UniqueVersions PROVE Spec => ImplementsADT
  BY Zenon
<1>1. Init => ADT!Init /\ RangeInv
  BY Zenon, InitMaps DEF Init, KeyInit, RangeInv, IsList
<1>2. IInv /\ RangeInv /\ [Next]_keyVars => RangeInv'
  BY Zenon, NextRange
<1>3. IInv /\ RangeInv /\ [Next]_keyVars => [ADT!Next]_(ADT!vars)
  <2> SUFFICES ASSUME IInv, RangeInv, [Next]_keyVars PROVE [ADT!Next]_(ADT!vars)
    BY Zenon
  <2>1. CASE UNCHANGED keyVars
    BY Zenon, <2>1 DEF keyVars, ADT!vars, AbsType, AbsList, AbsExp
  <2>2. CASE KeyCommand
    BY Zenon, <2>2, KeyCommandMaps DEF ADT!Next
  <2>3. CASE Refused \/ LLen \/ (\E n \in Counts : PopNothing(n)) \/ \E i \in Ranges : LIndex(i)
    BY Zenon, <2>3, SimpleReadsMap
  <2>4. CASE \E i, j \in Ranges : LRange(i, j)
    BY Zenon, <2>4, LRangeMaps
  <2>5. CASE \E batch \in Batches, left \in BOOLEAN : Push(batch, left)
    BY Zenon, <2>5, PushMaps
  <2>6. CASE \E n \in Counts, left \in BOOLEAN : Pop(n, left)
    BY Zenon, <2>6, PopMaps
  <2> QED
    BY Zenon, <2>1, <2>2, <2>3, <2>4, <2>5, <2>6 DEF Next
<1> QED
  BY <1>1, <1>2, <1>3, Invariance, PTL DEF Spec, ImplementsADT, ADT!Spec
=============================================================================
