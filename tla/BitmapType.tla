----------------------------- MODULE BitmapType -----------------------------
(***************************************************************************)
(* src/cmd/bitmap.rs: a bitmap is cut into fragments, a subkey each.  Only *)
(* the fragments that were written are stored, and a fragment only up to   *)
(* its last byte that was written.  The size in the metadata counts bytes. *)
(*                                                                         *)
(* A byte is the set of its one bits.  This key is read and written by     *)
(* SETBIT, GETBIT and BITCOUNT and is the destination of BITOP, whose      *)
(* sources are this key and others; of the others BITOP only reads what    *)
(* they hold, which is a constant here.                                    *)
(***************************************************************************)
EXTENDS Keyspace, FiniteSets

CONSTANTS
    ByteBits,   \* bits in a byte, 8
    FragBytes,  \* FRAGMENT_BYTES
    Offsets,    \* arguments of SETBIT and GETBIT
    Ranges,     \* arguments <<start, end>> of BITCOUNT
    Self,       \* this key, as a source of BITOP
    OtherKeys,  \* the other sources
    Stored,     \* what they hold: a size and fragments, or None for another type
    BitOps      \* arguments <<operation, sources>> of BITOP

FragBits == FragBytes * ByteBits
Byte == SUBSET (0 .. ByteBits - 1)
Fragments == UNION {[1 .. n -> Byte] : n \in 1 .. FragBytes}

\* The fragments go as far as the size, and no further.
Extent(frags) ==
    {f * FragBytes + Len(frags[f]) : f \in {g \in Fields : frags[g] # None}}
Covers(size, frags) ==
    /\ \A end \in Extent(frags) : end <= size
    /\ size > 0 => size \in Extent(frags)

ASSUME BitmapAssumption ==
    /\ ByteBits \in Nat \ {0} /\ FragBytes \in Nat \ {0}
    /\ Fields \subseteq Nat
    /\ Vals = Fragments
    /\ Offsets \subseteq Nat
    /\ \A offset \in Offsets : offset \div FragBits \in Fields
    /\ Ranges \subseteq Int \X Int

ASSUME SourceAssumption ==
    /\ Self \notin OtherKeys
    /\ Stored \in [OtherKeys ->
                     [size : Nat, frags : [Fields -> Vals \cup {None}]] \cup {None}]
    /\ \A k \in OtherKeys :
         Stored[k] # None => Covers(Stored[k].size, Stored[k].frags)
    /\ BitOps \subseteq {"and", "or", "xor", "not"} \X Seq(OtherKeys \cup {Self})
    /\ \A b \in BitOps : b[2] # << >>

-----------------------------------------------------------------------------

\* read_bitmap_meta: the type is looked at first, then the expiry.
OtherType == meta # None /\ meta.t # "bitmap"
Live == IF meta = None THEN FALSE ELSE meta.t = "bitmap" /\ ~IsExpired(meta)

Refused == OtherType /\ Replies(<<"bitmap">>, WrongType) /\ Unchanged

\* read_fragment: one that is not stored is empty.
ReadFragment(frags, index) == IF frags[index] = None THEN << >> ELSE frags[index]

\* Bytes past the end of a fragment are zero.
ByteAt(frag, i) == IF i <= Len(frag) THEN frag[i] ELSE {}

Bit(b) == Int64(IF b THEN 1 ELSE 0)

\* Where a bit is: its fragment, its byte therein, its place in the byte.
Index(offset) == offset \div FragBits
FragOffGlobal(offset) == offset \div ByteBits
FragOff(offset) == (offset % FragBits) \div ByteBits
BitOff(offset) == offset % ByteBits

-----------------------------------------------------------------------------

\* A size that is only set for a bitmap that is made.
SetBitKeepsSize(m, offset, bit) ==
    LET index == Index(offset)
        at    == FragOff(offset) + 1
        old   == ReadFragment(sub[m.ver], index)
        frag  == [i \in 1 .. IF Len(old) < at THEN at ELSE Len(old) |-> ByteAt(old, i)]
        byte  == IF bit = 1 THEN frag[at] \cup {BitOff(offset)}
                            ELSE frag[at] \ {BitOff(offset)}
        size  == offset \div ByteBits + 1
    IN  /\ sub' = [sub EXCEPT ![m.ver][index] = [frag EXCEPT ![at] = byte]]
        /\ meta' = [m EXCEPT !.size = IF @ = 0 THEN size ELSE @]
        /\ Replies(<<"setbit", offset, bit>>, Bit(BitOff(offset) \in frag[at]))
        /\ UNCHANGED <<score, now>>

\* setbit, on the metadata it found or has just made.  A zero is written as
\* well, and may make the bitmap longer.
SetBitIn(m, offset, bit) ==
    LET index == Index(offset)
        at    == FragOff(offset) + 1
        old   == ReadFragment(sub[m.ver], index)
        frag  == [i \in 1 .. IF Len(old) < at THEN at ELSE Len(old) |-> ByteAt(old, i)]
        byte  == IF bit = 1 THEN frag[at] \cup {BitOff(offset)}
                            ELSE frag[at] \ {BitOff(offset)}
        size  == offset \div ByteBits + 1
    IN  /\ sub' = [sub EXCEPT ![m.ver][index] = [frag EXCEPT ![at] = byte]]
        /\ meta' = [m EXCEPT !.size = IF size > @ THEN size ELSE @]
        /\ Replies(<<"setbit", offset, bit>>, Bit(BitOff(offset) \in frag[at]))
        /\ UNCHANGED <<score, now>>

SetBit(offset, bit) ==
    \/ Live /\ SetBitIn(meta, offset, bit) /\ UNCHANGED drawn
    \/ /\ ~OtherType /\ ~Live
       /\ \E v \in GenerateVersion :
            /\ SetBitIn(NewMeta("bitmap", v), offset, bit)
            /\ drawn' = drawn \cup {v}

\* getbit
GetBit(offset) ==
    LET byte == IF Live THEN ByteAt(ReadFragment(sub[meta.ver], Index(offset)),
                                    FragOff(offset) + 1)
                ELSE {}
    IN  /\ ~OtherType
        /\ Replies(<<"getbit", offset>>, Bit(BitOff(offset) \in byte))
        /\ Unchanged

\* normalize_index: an index past the end is the last one.
NormalizeIndex(idx, size) ==
    LET i == IF idx < 0 THEN size + idx ELSE idx
    IN  IF i < 0 THEN 0 ELSE IF i >= size THEN size - 1 ELSE i

SmallerOf(a, b) == IF a < b THEN a ELSE b

CountedFromStart(frags, start, end) ==
    {<<f, i, b>> \in Fields \X (0 .. FragBytes - 1) \X (0 .. ByteBits - 1) :
       /\ f \in start \div FragBytes .. end \div FragBytes
       /\ LET frag == ReadFragment(frags, f)
              localStart == start % FragBytes
              localEnd == SmallerOf(SmallerOf(end - f * FragBytes, FragBytes - 1),
                                    Len(frag) - 1)
          IN  i \in localStart .. localEnd /\ b \in frag[i + 1]}

\* The one bits that bitcount comes by, fragment for fragment, from byte
\* `start` to byte `end`.
Counted(frags, start, end) ==
    {<<f, i, b>> \in Fields \X (0 .. FragBytes - 1) \X (0 .. ByteBits - 1) :
       /\ f \in start \div FragBytes .. end \div FragBytes
       /\ LET frag == ReadFragment(frags, f)
              localStart == IF start > f * FragBytes THEN start - f * FragBytes ELSE 0
              localEnd == SmallerOf(SmallerOf(end - f * FragBytes, FragBytes - 1),
                                    Len(frag) - 1)
          IN  i \in localStart .. localEnd /\ b \in frag[i + 1]}

\* bitcount: without a range it is that of <<0, -1>>.
BitCount(range) ==
    LET start == NormalizeIndex(range[1], meta.size)
        end   == NormalizeIndex(range[2], meta.size)
        empty == IF Live THEN meta.size = 0 ELSE TRUE
    IN  /\ ~OtherType
        /\ Replies(<<"bitcount", range>>,
                   Int64(IF empty THEN 0
                         ELSE Cardinality(Counted(sub[meta.ver], start, end))))
        /\ Unchanged

-----------------------------------------------------------------------------

\* What BITOP reads of a source: a size and fragments, no bytes if it is
\* missing or has expired, None if it is of another type.
Source(k) ==
    IF k # Self THEN Stored[k]
    ELSE IF OtherType THEN None
    ELSE IF Live THEN [size |-> meta.size, frags |-> sub[meta.ver]]
    ELSE [size |-> 0, frags |-> NoFields]

\* The inner loop of bitop: the bytes of the sources one after the other.
Combined(op, bytes) ==
    LET result[i \in 1 .. Len(bytes)] ==
          IF i = 1 THEN bytes[1]
          ELSE CASE op = "and" -> result[i - 1] \cap bytes[i]
                 [] op = "or"  -> result[i - 1] \cup bytes[i]
                 [] op = "xor" -> (result[i - 1] \ bytes[i]) \cup (bytes[i] \ result[i - 1])
    IN  IF op = "not" THEN (0 .. ByteBits - 1) \ bytes[1] ELSE result[Len(bytes)]

\* Fragment f of the result, whose last byte is the last of the longest source.
ResultFragment(op, found, size, f) ==
    [i \in 1 .. SmallerOf(FragBytes, size - f * FragBytes) |->
       Combined(op, [s \in 1 .. Len(found) |->
                       ByteAt(ReadFragment(found[s].frags, f), i)])]

MaxSize(found) ==
    CHOOSE n \in {found[s].size : s \in 1 .. Len(found)} :
      \A s \in 1 .. Len(found) : found[s].size <= n

\* bitop with this key as its destination.  Whatever the key held, it gets
\* new metadata without expiry, also when the sources are all empty.
BitOp(op, srcs) ==
    LET found == [s \in 1 .. Len(srcs) |-> Source(srcs[s])]
        size  == MaxSize(found)
        one   == op = "not" => Len(srcs) = 1
        typed == \A s \in 1 .. Len(srcs) : found[s] # None
        command == <<"bitop", op, srcs>>
    IN  \/ ~one /\ Replies(command, <<"error">>) /\ Unchanged
        \/ one /\ ~typed /\ Replies(command, WrongType) /\ Unchanged
        \/ /\ one /\ typed
           /\ \E v \in GenerateVersion :
                /\ meta' = [NewMeta("bitmap", v) EXCEPT !.size = size]
                /\ sub' = [sub EXCEPT ![v] = [f \in Fields |->
                             IF f * FragBytes < size
                             THEN ResultFragment(op, found, size, f) ELSE @[f]]]
                /\ drawn' = drawn \cup {v}
           /\ Replies(command, Int64(size))
           /\ UNCHANGED <<score, now>>

BitmapCommand ==
    \/ Refused
    \/ \E offset \in Offsets, bit \in {0, 1} : SetBit(offset, bit)
    \/ \E offset \in Offsets : GetBit(offset)
    \/ \E range \in Ranges \cup {<<0, -1>>} : BitCount(range)
    \/ \E b \in BitOps : BitOp(b[1], b[2])

Init == KeyInit
Next == BitmapCommand \/ KeyCommand
Spec == Init /\ [][Next]_keyVars

-----------------------------------------------------------------------------

\* Type invariant.
TypeOK == KeyTypeOK

\* The size in the metadata of a bitmap is the end of its last stored byte,
\* through zeros that are written, sparse fragments and results of BITOP.
\* BITCOUNT and BITOP go no further than the size: a byte beyond it would be
\* seen by GETBIT and by nobody else.
ExtentInv ==
    IF meta = None THEN TRUE
    ELSE meta.t = "bitmap" => Covers(meta.size, sub[meta.ver])

\* The offsets of the one bits in fragments.
BitsOf(frags) ==
    UNION {{f * FragBits + (i - 1) * ByteBits + b : b \in ReadFragment(frags, f)[i]} :
             <<f, i>> \in {p \in Fields \X (1 .. FragBytes) :
                             p[2] <= Len(ReadFragment(frags, p[1]))}}

AbsBitmap ==
    IF meta = None THEN [size |-> 0, bits |-> {}]
    ELSE IF meta.t = "bitmap" THEN [size |-> meta.size, bits |-> BitsOf(sub[meta.ver])]
    ELSE [size |-> 0, bits |-> {}]

ADT == INSTANCE BitmapADT WITH
    type <- AbsType("bitmap"), content <- AbsBitmap, exp <- AbsExp,
    Empty <- [size |-> 0, bits |-> {}],
    Foreign <- [k \in OtherKeys |->
                  IF Stored[k] = None THEN None
                  ELSE [size |-> Stored[k].size, bits |-> BitsOf(Stored[k].frags)]]

\* The Bitmap commands are those of a set of bits and a length in bytes,
\* across fragments, for ranges that start or end anywhere, for sources of
\* different lengths, missing ones and the destination itself, and through
\* expiry, replacement, DEL and FLUSHDB.
ImplementsADT == ADT!Spec
=============================================================================
