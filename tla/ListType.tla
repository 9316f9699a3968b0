------------------------------ MODULE ListType ------------------------------
(***************************************************************************)
(* src/cmd/list.rs: a list is a window head..tail of indices; each element *)
(* is a subkey under its index.  LPUSH grows the window downwards, RPUSH   *)
(* upwards, and a list that has been emptied starts again at 0 under the   *)
(* same version.                                                           *)
(***************************************************************************)
EXTENDS Keyspace, FiniteSets

CONSTANTS
    Batches,  \* argument lists of LPUSH and RPUSH
    Counts,   \* count arguments of LPOP and RPOP
    Ranges    \* index arguments of LRANGE and LINDEX

ASSUME ListAssumption ==
    /\ Fields \subseteq Int
    /\ Batches \subseteq Seq(Vals) \ {<< >>}
    /\ Counts \subseteq Nat
    /\ Ranges \subseteq Int

\* The indices are an interval, as i64 is, around those of the empty list.
ASSUME IndexAssumption ==
    {-1, 0} \subseteq Fields /\ \A i, j \in Fields : i..j \subseteq Fields

\* load_list_meta: another type is an error even when it has expired.
OtherType == meta # None /\ meta.t # "list"
Live == meta # None /\ meta.t = "list" /\ ~IsExpired(meta)

Smaller(m, n) == IF m < n THEN m ELSE n

Refused == OtherType /\ Replies(<<"list">>, WrongType) /\ Unchanged

\* The bound: the indices a push writes are among Fields.
Fits(m, n, left) ==
    IF left THEN m.head - n \in Fields ELSE m.tail + n \in Fields

\* push: element i of the arguments goes to head - i or tail + i; one batch
\* writes the elements and the metadata.
PushTo(m, batch, left) ==
    LET n == Len(batch)
    IN  /\ Fits(m, n, left)
        /\ sub' = [sub EXCEPT ![m.ver] = [i \in Fields |->
             IF left /\ m.head - n <= i /\ i < m.head THEN batch[m.head - i]
             ELSE IF ~left /\ m.tail < i /\ i <= m.tail + n THEN batch[i - m.tail]
             ELSE sub[m.ver][i]]]
        /\ meta' = [m EXCEPT !.head = IF left THEN @ - n ELSE @,
                             !.tail = IF left THEN @ ELSE @ + n,
                             !.size = @ + n]
        /\ Replies(<<"push", batch, left>>, Int64(m.size + n))
        /\ UNCHANGED <<score, now>>

Push(batch, left) ==
    \/ /\ Live
       /\ PushTo(meta, batch, left)
       /\ UNCHANGED drawn
    \/ /\ ~Live /\ ~OtherType
       /\ \E v \in GenerateVersion :
            /\ PushTo(NewMeta("list", v), batch, left)
            /\ drawn' = drawn \cup {v}

\* pop of nothing: a count of 0 is answered before the key is looked at.
PopNothing(n) ==
    /\ n = 0 \/ (~OtherType /\ (Live => meta.size = 0))
    /\ Replies(<<"pop", n>>, Bulks(<< >>))
    /\ Unchanged

\* The metadata of a list that has lost k elements at one end.
PoppedKeepsTail(k, left) ==
    IF k = meta.size
    THEN [meta EXCEPT !.head = 0, !.size = 0]
    ELSE [meta EXCEPT !.head = IF left THEN @ + k ELSE @,
                      !.tail = IF left THEN @ ELSE @ - k,
                      !.size = @ - k]

Popped(k, left) ==
    IF k = meta.size
    THEN [meta EXCEPT !.head = 0, !.tail = -1, !.size = 0]
    ELSE [meta EXCEPT !.head = IF left THEN @ + k ELSE @,
                      !.tail = IF left THEN @ ELSE @ - k,
                      !.size = @ - k]

\* pop, of one or of `count` elements.
Pop(n, left) ==
    LET k == Smaller(n, meta.size)
        index(j) == IF left THEN meta.head + j - 1 ELSE meta.tail - j + 1
        taken == {index(j) : j \in 1..k}
    IN  /\ Live
        /\ n > 0 /\ meta.size > 0
        /\ sub' = [sub EXCEPT ![meta.ver] =
                     [i \in Fields |-> IF i \in taken THEN None ELSE sub[meta.ver][i]]]
        /\ meta' = Popped(k, left)
        /\ Replies(<<"pop", n, left>>, Bulks([j \in 1..k |-> sub[meta.ver][index(j)]]))
        /\ UNCHANGED <<score, now, drawn>>

-----------------------------------------------------------------------------

\* LLEN
LLen ==
    /\ ~OtherType
    /\ Replies(<<"llen">>, Int64(IF Live THEN meta.size ELSE 0))
    /\ Unchanged

FromEndOffByOne(i) == IF i < 0 THEN i + meta.size - 1 ELSE i
FromEnd(i) == IF i < 0 THEN i + meta.size ELSE i

\* The subkeys of the list between two indices, in the order of the scan:
\* before the j-th come j - 1 others.
Scan(first, last) ==
    LET present == {i \in Fields : /\ first <= i /\ i <= last
                                   /\ sub[meta.ver][i] # None}
        at(j) == CHOOSE i \in present : Cardinality({h \in present : h < i}) = j - 1
    IN  [j \in 1..Cardinality(present) |-> sub[meta.ver][at(j)]]

\* LRANGE
LRangeOf(start, stop) ==
    LET s == IF FromEnd(start) < 0 THEN 0 ELSE FromEnd(start)
        e == IF FromEnd(stop) >= meta.size THEN meta.size - 1 ELSE FromEnd(stop)
    IN  IF ~Live \/ meta.size = 0 \/ s > e THEN << >>
        ELSE Scan(meta.head + s, meta.head + e)

LRange(start, stop) ==
    /\ ~OtherType
    /\ Replies(<<"lrange", start, stop>>,
               Bulks(IF Live THEN LRangeOf(start, stop) ELSE << >>))
    /\ Unchanged

\* LINDEX
LIndexOf(index) ==
    LET i == FromEnd(index)
    IN  IF i < 0 \/ i >= meta.size THEN Nil
        ELSE Bulks(<<sub[meta.ver][meta.head + i]>>)

LIndex(index) ==
    /\ ~OtherType
    /\ Replies(<<"lindex", index>>, IF Live THEN LIndexOf(index) ELSE Nil)
    /\ Unchanged

-----------------------------------------------------------------------------

Init == KeyInit

Next ==
    \/ Refused
    \/ \E batch \in Batches, left \in BOOLEAN : Push(batch, left)
    \/ \E n \in Counts : PopNothing(n)
    \/ \E n \in Counts, left \in BOOLEAN : Pop(n, left)
    \/ LLen
    \/ \E i, j \in Ranges : LRange(i, j)
    \/ \E i \in Ranges : LIndex(i)
    \/ KeyCommand

Spec == Init /\ [][Next]_keyVars

-----------------------------------------------------------------------------

\* Type invariant.
TypeOK == KeyTypeOK

\* The window head..tail of a list is exactly where its subkeys are, and its
\* size is the length of the window, whatever pushes, pops, expiries and
\* replacements have come before (list.rs:97-115, 148-165, 180-209).
WindowInv ==
    meta # None /\ meta.t = "list" =>
        /\ meta.size = meta.tail - meta.head + 1
        /\ \A i \in Fields : sub[meta.ver][i] # None <=> meta.head <= i /\ i <= meta.tail

\* The abstract list this state stands for.
AbsList ==
    IF AbsType("list") = "composite"
    THEN [j \in 1..meta.size |-> sub[meta.ver][meta.head + j - 1]]
    ELSE << >>

ADT == INSTANCE ListADT WITH
    type <- AbsType("list"), content <- AbsList, exp <- AbsExp, Empty <- << >>

\* The List commands, with expiry, replacement by SET, DEL and FLUSHDB, are
\* those of a sequence: every reply and every effect of LPUSH, RPUSH, LPOP,
\* RPOP, LLEN, LRANGE and LINDEX is the one ListADT prescribes.  A key of
\* another type is refused by all of them but LPOP and RPOP of 0 elements.
ImplementsADT == ADT!Spec
=============================================================================
