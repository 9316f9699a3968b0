------------------------------ MODULE ListADT -------------------------------
(* What the List commands promise: a key that holds a sequence.            *)
EXTENDS KeyADT

CONSTANTS
    Batches, \* argument lists of LPUSH and RPUSH
    Counts,  \* count arguments of LPOP and RPOP
    Ranges   \* index arguments of LRANGE and LINDEX

Mirror(s) == [i \in 1..Len(s) |-> s[Len(s) + 1 - i]]
AtMost(m, n) == IF m < n THEN m ELSE n

Push(b, left) ==
    Write(IF left THEN Mirror(b) \o Shown ELSE Shown \o b,
          <<"push", b, left>>, <<"int", Len(b) + Len(Shown)>>)

PopNothing(n) == Shown = << >> /\ Answer(<<"pop", n>>, <<"bulks", << >> >>)

\* A pop of no elements has the same answer for every key.
PopZero(n) == n = 0 /\ Answer(<<"pop", n>>, <<"bulks", << >> >>)

\* LPOP takes elements from the front, RPOP from the end of the list.
Pop(n, left) ==
    LET k == AtMost(n, Len(Shown))
        rest == Len(Shown) - k
    IN  /\ n > 0 /\ Shown # << >>
        /\ IF left
           THEN Write(SubSeq(Shown, k + 1, Len(Shown)),
                      <<"pop", n, left>>, <<"bulks", SubSeq(Shown, 1, k)>>)
           ELSE Write(SubSeq(Shown, 1, rest), <<"pop", n, left>>,
                      <<"bulks", Mirror(SubSeq(Shown, rest + 1, Len(Shown)))>>)

LLen == Answer(<<"llen">>, <<"int", Len(Shown)>>)

\* Negative positions count from the end; what lies outside is left out.
Position(i) == IF i < 0 THEN Len(Shown) + i + 1 ELSE i + 1

Between(i, j) == {p \in 1..Len(Shown) : Position(i) <= p /\ p <= Position(j)}

LRange(i, j) ==
    \/ /\ Between(i, j) = {}
       /\ Answer(<<"lrange", i, j>>, <<"bulks", << >> >>)
    \/ \E p, q \in Between(i, j) :
         /\ \A r \in Between(i, j) : p <= r /\ r <= q
         /\ Answer(<<"lrange", i, j>>, <<"bulks", SubSeq(Shown, p, q)>>)

LIndex(i) ==
    Answer(<<"lindex", i>>,
           IF Position(i) \in 1..Len(Shown)
           THEN <<"bulks", <<Shown[Position(i)]>> >> ELSE <<"nil">>)

ListCommand ==
    \/ \E b \in Batches, left \in BOOLEAN : Push(b, left)
    \/ \E n \in Counts : PopNothing(n)
    \/ \E n \in Counts, left \in BOOLEAN : Pop(n, left)
    \/ LLen
    \/ \E i, j \in Ranges : LRange(i, j)
    \/ \E i \in Ranges : LIndex(i)

Next ==
    \/ Refused("list")
    \/ type # "string" /\ ListCommand
    \/ \E n \in Counts : PopZero(n)
    \/ KeyCommand

Spec == Init /\ [][Next]_vars
=============================================================================
