------------------------------- MODULE MapADT -------------------------------
(***************************************************************************)
(* What the commands of hashes and sets promise: a key that holds a finite *)
(* map.  A set is a map from its members to one value.  A field that comes *)
(* twice in the arguments of a command counts once.                        *)
(***************************************************************************)
EXTENDS KeyADT, FiniteSets

CONSTANTS
    Name,    \* of the type
    Fields,
    Puts,    \* argument lists of HSET or SADD: pairs of a field and a value
    Takes,   \* argument lists of HDEL or SREM: fields
    None

Present(m) == {f \in Fields : m[f] # None}

Put(pairs) ==
    LET named == {pairs[i][1] : i \in 1..Len(pairs)}
        final(f) == CHOOSE i \in 1..Len(pairs) :
                      /\ pairs[i][1] = f
                      /\ \A j \in i+1..Len(pairs) : pairs[j][1] # f
    IN  Write([f \in Fields |-> IF f \in named THEN pairs[final(f)][2] ELSE Shown[f]],
              <<"put", pairs>>, <<"int", Cardinality(named \ Present(Shown))>>)

Take(fields) ==
    LET gone == {fields[i] : i \in 1..Len(fields)} \cap Present(Shown)
        command == <<"take", fields>>
    IN  \/ gone = {} /\ Answer(command, <<"int", 0>>)
        \/ /\ gone # {}
           /\ Write([f \in Fields |-> IF f \in gone THEN None ELSE Shown[f]],
                    command, <<"int", Cardinality(gone)>>)

\* HGET and HMGET
Get(fields) ==
    Answer(<<"get", fields>>, <<"bulks", [i \in 1..Len(fields) |-> Shown[fields[i]]]>>)

\* HEXISTS, SISMEMBER
Has(f) == Answer(<<"has", f>>, <<"int", IF Shown[f] = None THEN 0 ELSE 1>>)

Card == Answer(<<"card">>, <<"int", Cardinality(Present(Shown))>>)

All == Answer(<<"all">>, <<"map", [f \in Present(Shown) |-> Shown[f]]>>)

\* A page of HSCAN lists some of the fields.
Scan ==
    /\ reply'[1][1] = "hscan"
    /\ reply'[2][1] = "page" /\ reply'[2][3] \subseteq Present(Shown)
    /\ UNCHANGED <<type, content, exp, now>>

MapCommand ==
    \/ \E pairs \in Puts : Put(pairs)
    \/ \E fields \in Takes : Take(fields)
    \/ \E fields \in Takes : Get(fields)
    \/ \E f \in Fields : Has(f)
    \/ Card
    \/ All
    \/ Scan

Next ==
    \/ Refused(Name)
    \/ type # "string" /\ MapCommand
    \/ KeyCommand

Spec == Init /\ [][Next]_vars
=============================================================================
