----------------------------- MODULE BitmapADT ------------------------------
(***************************************************************************)
(* What the Bitmap commands promise: a key that holds a set of bit offsets *)
(* and a length in bytes.  There are no fragments.                         *)
(***************************************************************************)
EXTENDS KeyADT, FiniteSets

CONSTANTS
    ByteBits,
    Offsets,
    Ranges,
    Self,
    Foreign,  \* the other sources of BITOP: their values, or None for another type
    BitOps,
    None

SetBit(offset, bit) ==
    LET size == offset \div ByteBits + 1
    IN  Write([size |-> IF size > Shown.size THEN size ELSE Shown.size,
               bits |-> IF bit = 1 THEN Shown.bits \cup {offset}
                                   ELSE Shown.bits \ {offset}],
              <<"setbit", offset, bit>>,
              <<"int", IF offset \in Shown.bits THEN 1 ELSE 0>>)

GetBit(offset) ==
    Answer(<<"getbit", offset>>, <<"int", IF offset \in Shown.bits THEN 1 ELSE 0>>)

\* Negative places count from the end; one outside is moved to the nearest byte.
Place(i) ==
    LET fromStart == IF i < 0 THEN Shown.size + i ELSE i
    IN  IF fromStart < 0 THEN 0
        ELSE IF fromStart >= Shown.size THEN Shown.size - 1 ELSE fromStart

BitCount(range) ==
    Answer(<<"bitcount", range>>,
           <<"int", Cardinality({o \in Shown.bits :
                       o \div ByteBits \in Place(range[1]) .. Place(range[2])})>>)

\* Every bit of the result by the bits of the sources: in all of them, in
\* one, in an odd number of them, or not in the only one.
Holds(op, o, values) ==
    LET having == {s \in DOMAIN values : o \in values[s].bits}
    IN  CASE op = "and" -> having = DOMAIN values
          [] op = "or"  -> having # {}
          [] op = "xor" -> Cardinality(having) % 2 = 1
          [] op = "not" -> having = {}

BitOp(op, srcs) ==
    LET values == [s \in 1 .. Len(srcs) |->
                     IF srcs[s] # Self THEN Foreign[srcs[s]]
                     ELSE IF type = "string" THEN None ELSE Shown]
        size == CHOOSE n \in {values[s].size : s \in 1 .. Len(srcs)} :
                  \A s \in 1 .. Len(srcs) : values[s].size <= n
        command == <<"bitop", op, srcs>>
    IN  IF op = "not" /\ Len(srcs) # 1 THEN Answer(command, <<"error">>)
        ELSE IF \E s \in 1 .. Len(srcs) : values[s] = None
        THEN Answer(command, <<"wrongtype">>)
        ELSE Become("composite",
                    [size |-> size,
                     bits |-> {o \in 0 .. size * ByteBits - 1 : Holds(op, o, values)}],
                    0, command, <<"int", size>>)

Next ==
    \/ Refused("bitmap")
    \/ /\ type # "string"
       /\ \/ \E offset \in Offsets, bit \in {0, 1} : SetBit(offset, bit)
          \/ \E offset \in Offsets : GetBit(offset)
          \/ \E range \in Ranges \cup {<<0, -1>>} : BitCount(range)
    \/ \E b \in BitOps : BitOp(b[1], b[2])
    \/ KeyCommand

Spec == Init /\ [][Next]_vars
=============================================================================
