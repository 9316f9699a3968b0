------------------------------ MODULE HashType ------------------------------
(***************************************************************************)
(* src/cmd/hash.rs: a hash is a subkey per field and the number of fields  *)
(* in its metadata.  HSET and HDEL look up each field in the database,     *)
(* collect the writes in one batch and write it with the metadata.         *)
(* HGETALL and HSCAN read pages of subkeys (prefix_scan_page in            *)
(* src/storage.rs).                                                        *)
(***************************************************************************)
EXTENDS Keyspace, Paging

CONSTANTS
    Puts,      \* argument lists of HSET: pairs of a field and a value
    Takes,     \* argument lists of HDEL and HMGET: fields
    PageSize   \* HASH_PAGE_SIZE

\* Versions and fields are numbers that stand for their byte order.
ASSUME HashAssumption ==
    /\ Versions \subseteq Nat /\ Fields \subseteq Nat
    /\ Puts \subseteq Seq(Fields \X Vals) \ {<< >>}
    /\ Takes \subseteq Seq(Fields) \ {<< >>}
    /\ PageSize \in Nat \ {0}

\* read_hash_meta, which does not look at the expiry.
OtherType == meta # None /\ meta.t # "hash"
Found == meta # None /\ meta.t = "hash"

Refused == OtherType /\ Replies(<<"hash">>, WrongType) /\ Unchanged

-----------------------------------------------------------------------------

HSetCountsAll(m, pairs) ==
    LET added == Len(pairs)
        at(f) == {i \in 1..Len(pairs) : pairs[i][1] = f}
    IN  /\ sub' = [sub EXCEPT ![m.ver] =
                     [f \in Fields |-> IF at(f) = {} THEN sub[m.ver][f]
                                       ELSE pairs[Max(at(f))][2]]]
        /\ meta' = [m EXCEPT !.size = @ + added]
        /\ Replies(<<"put", pairs>>, Int64(added))
        /\ UNCHANGED <<score, now>>

\* hset, on the metadata it found or has just made.  Fields are counted by
\* argument: one that comes twice counts twice.
HSetTo(m, pairs) ==
    LET added == Cardinality({i \in 1..Len(pairs) : sub[m.ver][pairs[i][1]] = None})
        at(f) == {i \in 1..Len(pairs) : pairs[i][1] = f}
    IN  /\ sub' = [sub EXCEPT ![m.ver] =
                     [f \in Fields |-> IF at(f) = {} THEN sub[m.ver][f]
                                       ELSE pairs[Max(at(f))][2]]]
        /\ meta' = [m EXCEPT !.size = @ + added]
        /\ Replies(<<"put", pairs>>, Int64(added))
        /\ UNCHANGED <<score, now>>

HSet(pairs) ==
    \/ /\ Found
       /\ HSetTo(meta, pairs)
       /\ UNCHANGED drawn
    \/ /\ meta = None
       /\ \E v \in GenerateVersion :
            /\ HSetTo(NewMeta("hash", v), pairs)
            /\ drawn' = drawn \cup {v}

\* hdel: the size is counted down without going below zero.
HDel(fields) ==
    LET hits == {i \in 1..Len(fields) : sub[meta.ver][fields[i]] # None}
        deleted == IF Found THEN Cardinality(hits) ELSE 0
    IN  /\ ~OtherType
        /\ IF deleted = 0
           THEN UNCHANGED <<meta, sub>>
           ELSE /\ sub' = [sub EXCEPT ![meta.ver] =
                             [f \in Fields |-> IF f \in Range(fields) THEN None ELSE @[f]]]
                /\ meta' = [meta EXCEPT !.size = IF @ > deleted THEN @ - deleted ELSE 0]
        /\ Replies(<<"take", fields>>, Int64(deleted))
        /\ UNCHANGED <<score, now, drawn>>

-----------------------------------------------------------------------------

Value(f) == IF Found THEN sub[meta.ver][f] ELSE None

\* hget, hmget
HGet(fields) ==
    /\ ~OtherType
    /\ Replies(<<"get", fields>>, Bulks([i \in 1..Len(fields) |-> Value(fields[i])]))
    /\ Unchanged

\* hexists
HExists(f) ==
    /\ ~OtherType
    /\ Replies(<<"has", f>>, Int64(IF Value(f) = None THEN 0 ELSE 1))
    /\ Unchanged

\* hlen
HLen ==
    /\ ~OtherType
    /\ Replies(<<"card">>, Int64(IF Found THEN meta.size ELSE 0))
    /\ Unchanged

\* The keys of the column family
Entries == {e \in Versions \X Fields : sub[e[1]][e[2]] # None}

\* hgetall
HGetAll ==
    LET all == IF Found THEN PrefixScanPages(Entries, meta.ver, << >>, PageSize, FALSE)
               ELSE << >>
        fields == {all[i][2] : i \in 1..Len(all)}
    IN  /\ ~OtherType
        /\ Replies(<<"all">>, <<"map", [f \in fields |-> sub[meta.ver][f]]>>)
        /\ Unchanged

HashCommand ==
    \/ Refused
    \/ \E pairs \in Puts : HSet(pairs)
    \/ \E fields \in Takes : HDel(fields)
    \/ \E fields \in Takes : HGet(fields)
    \/ \E f \in Fields : HExists(f)
    \/ HLen
    \/ HGetAll

Init == KeyInit
Next == HashCommand \/ KeyCommand
Spec == Init /\ [][Next]_keyVars

-----------------------------------------------------------------------------

\* types.rs:81: the size in the metadata is the number of elements.
SizeInv ==
    Found => meta.size = Cardinality({f \in Fields : sub[meta.ver][f] # None})

AbsMap == IF Found THEN sub[meta.ver] ELSE NoFields

ADT == INSTANCE MapADT WITH
    Name <- "hash", type <- AbsType("hash"), content <- AbsMap, exp <- AbsExp,
    Empty <- NoFields

\* The Hash commands are those of a map: fields of a hash that was replaced
\* or deleted do not come back, HLEN counts what HGETALL lists, and paging
\* loses nothing.  (Of hashes that do not expire: read_hash_meta, hash.rs:49,
\* takes no notice of the expiry.  And of argument lists without repetitions,
\* which HSET and HDEL count one by one, hash.rs:72, 169.)
ImplementsADT == ADT!Spec
=============================================================================
