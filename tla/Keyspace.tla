------------------------------ MODULE Keyspace ------------------------------
(***************************************************************************)
(* One user key in the three column families (src/storage.rs): its entry   *)
(* in `metadata`, its entries in `subkey` and in `zset_score`, and the     *)
(* commands that work on a key of any type (src/cmd/string.rs, FLUSHDB in  *)
(* src/cmd/admin.rs).  The modules of the composite types extend this one. *)
(*                                                                         *)
(* Subkeys carry the version of the metadata they were written under       *)
(* (src/encoding.rs), so a key that is replaced leaves its old subkeys     *)
(* behind under a version nobody reads.  Keys do not share subkeys, which  *)
(* are prefixed with the length of the key and the key; one key is enough. *)
(*                                                                         *)
(* A command is one step: the commands run as jobs of the thread pool, one *)
(* at a time (ThreadPool).  Time passes between commands.                  *)
(***************************************************************************)
EXTENDS Integers, Sequences

CONSTANTS
    Versions,       \* values of generate_version
    UniqueVersions, \* TRUE: no value of it comes twice
    Fields,         \* what follows the version in a subkey
    Vals,           \* values of subkeys
    ScoreKeys,      \* what follows the version in a zset_score key
    TTLs,           \* arguments of EXPIRE and PEXPIRE
    MaxNow,         \* bound on the clock
    None

ASSUME UniqueAssumption == UniqueVersions \in BOOLEAN
ASSUME ClockAssumption == MaxNow \in Nat /\ TTLs \subseteq Int

VARIABLES
    meta,   \* metadata: None, or the decoded value
    sub,    \* subkey: [version -> [field -> value or None]]
    score,  \* zset_score: [version -> set of keys]
    now,    \* the clock, in milliseconds
    drawn,  \* versions generate_version has returned
    reply   \* the last command and its answer

keyVars == <<meta, sub, score, now, drawn, reply>>

Types == {"string", "hash", "list", "set", "zset", "bitmap", "stream"}
NoId == <<0, 0>>

\* struct Metadata, with the last id that streams append to it.
Metas ==
    [t : Types, exp : Int, ver : Versions \cup {None}, size : Nat,
     head : Int, tail : Int, last : Nat \X Nat]

ASSUME NoneAssumption ==
    None \notin Versions /\ None \notin Vals /\ None \notin Metas

\* Metadata::new
NewMeta(type, version) ==
    [t |-> type, exp |-> 0, ver |-> version, size |-> 0, head |-> 0,
     tail |-> -1, last |-> NoId]

\* encode_string: a string has its payload where the others have these.
StringMeta(expire) == [NewMeta("string", None) EXCEPT !.exp = expire]

KeyTypeOK ==
    /\ meta \in Metas \cup {None}
    /\ sub \in [Versions -> [Fields -> Vals \cup {None}]]
    /\ score \in [Versions -> SUBSET ScoreKeys]
    /\ now \in Nat
    /\ drawn \subseteq Versions

NoFields == [f \in Fields |-> None]

\* Answers, tagged by their kind, and what a client sees of a command.
Ok == <<"ok">>
Nil == <<"nil">>
WrongType == <<"wrongtype">>
Int64(n) == <<"int", n>>
Bulks(values) == <<"bulks", values>>
Replies(command, answer) == reply' = <<command, answer>>

KeyInit ==
    /\ meta = None
    /\ sub = [v \in Versions |-> NoFields]
    /\ score = [v \in Versions |-> {}]
    /\ now = 2
    /\ drawn = {}
    /\ reply = <<<<"none">>, Nil>>

-----------------------------------------------------------------------------

\* Metadata::is_expired
IsExpired(m) == m.exp > 0 /\ m.exp <= now

\* key_exists
KeyExists == meta # None /\ ~IsExpired(meta)

\* generate_version: the milliseconds and 16 random bits.  Only the random
\* bits keep two calls of one millisecond apart.
GenerateVersion == IF UniqueVersions THEN Versions \ drawn ELSE Versions

\* encode_metadata(decode_metadata(..)): it has no room for the last id of a
\* stream.
Reencoded(m) == [m EXCEPT !.last = NoId]

-----------------------------------------------------------------------------

Unchanged == UNCHANGED <<meta, sub, score, now, drawn>>

\* SET and MSET, with the expiry of EX / PX or none: whatever the key held
\* is replaced in `metadata`, its subkeys stay.
SetString(expire) ==
    /\ meta' = StringMeta(expire)
    /\ UNCHANGED <<sub, score, now, drawn>>

Set(ttl) ==
    /\ SetString(IF ttl = 0 THEN 0 ELSE now + ttl)
    /\ Replies(<<"set", ttl>>, Ok)

SetNX ==
    \/ ~KeyExists /\ SetString(0) /\ Replies(<<"setnx">>, Ok)
    \/ KeyExists /\ Unchanged /\ Replies(<<"setnx">>, Nil)

SetXX ==
    \/ KeyExists /\ SetString(0) /\ Replies(<<"setxx">>, Ok)
    \/ ~KeyExists /\ Unchanged /\ Replies(<<"setxx">>, Nil)

\* purge_subkeys
Purge(m) ==
    /\ sub' = IF m.t = "string" THEN sub ELSE [sub EXCEPT ![m.ver] = NoFields]
    /\ score' = IF m.t = "zset" THEN [score EXCEPT ![m.ver] = {}] ELSE score

\* DEL: subkeys first, then the metadata; an expired key counts as well.
Del ==
    \/ /\ meta = None
       /\ Unchanged
       /\ Replies(<<"del">>, Int64(0))
    \/ /\ meta # None
       /\ Purge(meta)
       /\ meta' = None
       /\ Replies(<<"del">>, Int64(1))
       /\ UNCHANGED <<now, drawn>>

\* set_expire_ms, which does not ask whether the key has expired.
SetExpire(expire) ==
    /\ meta' = [Reencoded(meta) EXCEPT !.exp = expire]
    /\ UNCHANGED <<sub, score, now, drawn>>

\* EXPIRE, PEXPIRE
Expire(ttl) ==
    \/ meta # None /\ SetExpire(now + ttl) /\ Replies(<<"expire", ttl>>, Int64(1))
    \/ meta = None /\ Unchanged /\ Replies(<<"expire", ttl>>, Int64(0))

\* PERSIST: only a key with an expiry is written.
HasExpiry == IF meta = None THEN FALSE ELSE meta.exp > 0

Persist ==
    \/ HasExpiry /\ SetExpire(0) /\ Replies(<<"persist">>, Int64(1))
    \/ ~HasExpiry /\ Unchanged /\ Replies(<<"persist">>, Int64(0))

\* FLUSHDB
FlushDb ==
    /\ meta' = None
    /\ sub' = [v \in Versions |-> NoFields]
    /\ score' = [v \in Versions |-> {}]
    /\ Replies(<<"flushdb">>, Ok)
    /\ UNCHANGED <<now, drawn>>

Tick ==
    /\ now < MaxNow
    /\ now' = now + 1
    /\ UNCHANGED <<meta, sub, score, drawn, reply>>

\* What can happen to a key of any type.
KeyCommand ==
    \/ \E ttl \in TTLs \cup {0} : ttl >= 0 /\ Set(ttl)
    \/ SetNX
    \/ SetXX
    \/ Del
    \/ \E ttl \in TTLs : Expire(ttl)
    \/ Persist
    \/ FlushDb
    \/ Tick

-----------------------------------------------------------------------------

\* The key as KeyADT sees it.
AbsType(name) ==
    IF meta = None THEN "none" ELSE IF meta.t = name THEN "composite" ELSE "string"
AbsExp == IF meta = None THEN 0 ELSE meta.exp
=============================================================================
