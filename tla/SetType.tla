------------------------------ MODULE SetType -------------------------------
(***************************************************************************)
(* src/cmd/set.rs: a set is a subkey without value per member and the      *)
(* number of members in its metadata.                                      *)
(***************************************************************************)
EXTENDS Keyspace, FiniteSets

CONSTANTS
    Puts,   \* argument lists of SADD: members
    Takes   \* argument lists of SREM

\* SET_VALUE, the value of every subkey
SetValue == "1"

ASSUME SetAssumption ==
    /\ IsFiniteSet(Fields)
    /\ Vals = {SetValue}
    /\ Puts \subseteq Seq(Fields) \ {<< >>}
    /\ Takes \subseteq Seq(Fields) \ {<< >>}

\* read_set_metadata: the type is looked at first, then the expiry.
OtherType == meta # None /\ meta.t # "set"
Live == IF meta = None THEN FALSE ELSE meta.t = "set" /\ ~IsExpired(meta)

Refused == OtherType /\ Replies(<<"set">>, WrongType) /\ Unchanged

\* The members a list of arguments names: `seen` drops the repetitions.
Named(args) == {args[i] : i \in 1..Len(args)}

Members(version) == {f \in Fields : sub[version][f] # None}

-----------------------------------------------------------------------------

SAddCountsArgs(m, args) ==
    LET added == Named(args) \ Members(m.ver)
    IN  /\ sub' = [sub EXCEPT ![m.ver] =
                     [f \in Fields |-> IF f \in added THEN SetValue ELSE sub[m.ver][f]]]
        /\ meta' = [m EXCEPT !.size = @ + Len(args)]
        /\ Replies(<<"put", [i \in 1..Len(args) |-> <<args[i], SetValue>>]>>,
                   Int64(Cardinality(added)))
        /\ UNCHANGED <<score, now>>

\* sadd, on the metadata it found or has just made.  Where it adds nothing
\* and writes nothing, it would write what is there.
SAddTo(m, args) ==
    LET added == Named(args) \ Members(m.ver)
    IN  /\ sub' = [sub EXCEPT ![m.ver] =
                     [f \in Fields |-> IF f \in added THEN SetValue ELSE sub[m.ver][f]]]
        /\ meta' = [m EXCEPT !.size = @ + Cardinality(added)]
        /\ Replies(<<"put", [i \in 1..Len(args) |-> <<args[i], SetValue>>]>>,
                   Int64(Cardinality(added)))
        /\ UNCHANGED <<score, now>>

SAddRevives(args) ==
    \/ /\ ~OtherType /\ meta # None
       /\ SAddTo([meta EXCEPT !.exp = 0], args)
       /\ UNCHANGED drawn
    \/ /\ meta = None
       /\ \E v \in GenerateVersion :
            /\ SAddTo(NewMeta("set", v), args)
            /\ drawn' = drawn \cup {v}

SAdd(args) ==
    \/ /\ Live
       /\ SAddTo(meta, args)
       /\ UNCHANGED drawn
    \/ /\ ~OtherType /\ ~Live
       /\ \E v \in GenerateVersion :
            /\ SAddTo(NewMeta("set", v), args)
            /\ drawn' = drawn \cup {v}

\* u64::saturating_sub
SaturatingSub(n, removed) == IF n > removed THEN n - removed ELSE 0

\* srem
SRem(args) ==
    LET removed == IF Live THEN Named(args) \cap Members(meta.ver) ELSE {}
    IN  /\ ~OtherType
        /\ IF removed = {}
           THEN UNCHANGED <<meta, sub>>
           ELSE /\ sub' = [sub EXCEPT ![meta.ver] =
                             [f \in Fields |-> IF f \in removed THEN None
                                               ELSE sub[meta.ver][f]]]
                /\ meta' = [meta EXCEPT !.size =
                              SaturatingSub(@, Cardinality(removed))]
        /\ Replies(<<"take", args>>, Int64(Cardinality(removed)))
        /\ UNCHANGED <<score, now, drawn>>

-----------------------------------------------------------------------------

\* sismember
SIsMember(f) ==
    /\ ~OtherType
    /\ Replies(<<"has", f>>,
               Int64(IF Live THEN IF f \in Members(meta.ver) THEN 1 ELSE 0 ELSE 0))
    /\ Unchanged

\* scard
SCard ==
    /\ ~OtherType
    /\ Replies(<<"card">>, Int64(IF Live THEN meta.size ELSE 0))
    /\ Unchanged

SMembersExpired ==
    /\ ~OtherType
    /\ Replies(<<"all">>,
               <<"map", [f \in IF meta # None THEN Members(meta.ver) ELSE {} |-> SetValue]>>)
    /\ Unchanged

\* smembers
SMembers ==
    /\ ~OtherType
    /\ Replies(<<"all">>,
               <<"map", [f \in IF Live THEN Members(meta.ver) ELSE {} |-> SetValue]>>)
    /\ Unchanged

SetCommand ==
    \/ Refused
    \/ \E args \in Puts : SAdd(args)
    \/ \E args \in Takes : SRem(args)
    \/ \E f \in Fields : SIsMember(f)
    \/ SCard
    \/ SMembers

Init == KeyInit
Next == SetCommand \/ KeyCommand
Spec == Init /\ [][Next]_keyVars

-----------------------------------------------------------------------------

\* Type invariant.
TypeOK == KeyTypeOK

\* types.rs:81: the size in the metadata is the number of elements, of an
\* expired set as well.  SCARD and the choice of the smallest set in SINTER
\* trust it.
SizeInv ==
    IF meta = None THEN TRUE
    ELSE meta.t = "set" => meta.size = Cardinality(Members(meta.ver))

AbsMap == IF meta = None THEN NoFields
          ELSE IF meta.t = "set" THEN sub[meta.ver] ELSE NoFields

ADT == INSTANCE MapADT WITH
    Name <- "set", type <- AbsType("set"), content <- AbsMap, exp <- AbsExp,
    Puts <- {[i \in 1..Len(args) |-> <<args[i], SetValue>>] : args \in Puts},
    Empty <- NoFields

\* The Set commands are those of a set, through expiry, replacement, DEL and
\* FLUSHDB, and for arguments that name a member twice: an expired set is
\* empty, and its members do not come back when it is filled again.
ImplementsADT == ADT!Spec

\* A set that is made afresh finds no members under its version, although
\* those of its expired or replaced predecessors are all still stored.  It
\* rests on what encoding.rs:3 says of generate_version, that its values are
\* unique.
FreshSetIsEmpty ==
    [][\A args \in Puts : ~Live /\ SAdd(args) => Members(meta'.ver) = {}]_keyVars
=============================================================================
