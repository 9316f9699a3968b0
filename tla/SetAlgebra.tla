----------------------------- MODULE SetAlgebra -----------------------------
(***************************************************************************)
(* SINTER, SDIFF and SUNION of src/cmd/set.rs: reads of several sets, what *)
(* they answer in the states of Database.  An answer is a set of members,  *)
(* or an error.  The pages of iter_members_page are those of Paging.       *)
(***************************************************************************)
EXTENDS Database

CONSTANTS
    UnionLimit,   \* SET_UNION_RESULT_LIMIT
    AlgebraArgs   \* argument lists

ASSUME AlgebraAssumption ==
    /\ UnionLimit \in Nat /\ Elems \subseteq Int
    /\ AlgebraArgs \subseteq Seq(Keys) \ {<<>>}

Answer(ms) == [error |-> "none", members |-> ms]
WrongType == [error |-> "WRONGTYPE", members |-> {}]
TooLarge == [error |-> "SUNION result exceeds memory limit", members |-> {}]

IsSet(k) == metadata[k] # None /\ metadata[k].t = "set"

\* iter_members_page over all pages; members come in the order of their keys.
MembersOf(k) == {e[3] : e \in Held(subkey, k)}

member_exists(k, m) == \E e \in Held(subkey, k) : e[3] = m

First(S) == CHOOSE i \in S : \A j \in S : i <= j
Last(S) == CHOOSE i \in S : \A j \in S : j <= i

\* The base is the first of the smallest sets by metadata (the sort is stable);
\* a key that is missing or of another type ends the look at the keys.
Sinter(args) ==
    LET other == {i \in DOMAIN args : ~IsSet(args[i])}
        Size(i) == metadata[args[i]].size
        base == First({i \in DOMAIN args : \A j \in DOMAIN args : Size(i) <= Size(j)})
    IN  IF other # {}
        THEN IF metadata[args[First(other)]] = None THEN Answer({}) ELSE WrongType
        ELSE Answer({m \in MembersOf(args[base]) :
                       \A i \in DOMAIN args \ {base} : member_exists(args[i], m)})

\* An error in reading one of the other keys is dropped.
Sdiff(args) ==
    IF metadata[args[1]] = None THEN Answer({})
    ELSE IF ~IsSet(args[1]) THEN WrongType
    ELSE Answer({m \in MembersOf(args[1]) :
                   ~ \E i \in DOMAIN args \ {1} :
                       IsSet(args[i]) /\ member_exists(args[i], m)})

\* What a bug in the bound would do: one member too many.
OverLimitByOne(seen, ms) ==
    ms # {} /\ Cardinality(seen \cup (ms \ {Last(ms)})) > UnionLimit

\* The limit is tested before each member, one that was seen before too; the
\* last of them meets the most.
OverLimit(seen, ms) ==
    ms # {} /\ Cardinality(seen \cup (ms \ {Last(ms)})) >= UnionLimit

UnionStep(sofar, k) ==
    IF sofar.error # "none" \/ metadata[k] = None THEN sofar
    ELSE IF ~IsSet(k) THEN WrongType
    ELSE IF OverLimit(sofar.members, MembersOf(k)) THEN TooLarge
    ELSE Answer(sofar.members \cup MembersOf(k))

Sunion(args) ==
    LET upto[i \in 0 .. Len(args)] ==
          IF i = 0 THEN Answer({}) ELSE UnionStep(upto[i - 1], args[i])
    IN  upto[Len(args)]

-----------------------------------------------------------------------------

\* Members that a key shows: none if it is missing.
Shown(k) == IF metadata[k] = None THEN {} ELSE MembersOf(k)

\* Where no argument is of another type, SINTER, SDIFF and SUNION answer the
\* intersection, the difference and the union of what the keys show, in any
\* order of the arguments, also with sizes that a cut DEL made wrong, by which
\* SINTER picks its base (set.rs:249).  SUNION gives up only if the union has
\* as many members as the limit, and never answers more than those.
AlgebraInv ==
    job = None =>
      \A args \in AlgebraArgs :
        (\A i \in DOMAIN args : metadata[args[i]] = None \/ IsSet(args[i])) =>
          LET all == UNION {Shown(args[i]) : i \in DOMAIN args}
              rest == UNION {Shown(args[i]) : i \in DOMAIN args \ {1}}
          IN  /\ Sinter(args) =
                   Answer({m \in all : \A i \in DOMAIN args : m \in Shown(args[i])})
              /\ Sdiff(args) = Answer(Shown(args[1]) \ rest)
              /\ \/ Sunion(args) = Answer(all) /\ Cardinality(all) <= UnionLimit
                 \/ Sunion(args) = TooLarge /\ Cardinality(all) >= UnionLimit
=============================================================================
