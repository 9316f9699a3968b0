------------------------------ MODULE Database ------------------------------
(***************************************************************************)
(* Several keys in the three column families, at the grain of the writes   *)
(* that reach RocksDB (src/storage.rs), with a process that may end        *)
(* between any two of them and be started again on what it left.           *)
(*                                                                         *)
(* Every command but two is a single write: a put, or a batch, which is    *)
(* applied whole or not at all.  The two are DEL (src/cmd/string.rs),      *)
(* which purges the subkeys page by page and then deletes the metadata,    *)
(* and FLUSHDB (src/cmd/admin.rs), which empties one column family after   *)
(* the other, the metadata first.  The pool runs one command at a time     *)
(* (ThreadPool), so that nothing but a crash falls between their writes.   *)
(*                                                                         *)
(* Sets stand for the types with subkeys only, sorted sets for the type    *)
(* with two indices.  ZADD's options are in ZSetType, expiry and the other *)
(* commands on metadata in Keyspace.                                       *)
(***************************************************************************)
EXTENDS Integers, Sequences, FiniteSets

CONSTANTS
    Keys,
    Versions,  \* values of generate_version
    Elems,     \* members
    Scores,
    NoScore,   \* what stands in its place in an entry of a set
    Members,   \* the sets of members that one command may name
    DelArgs,   \* argument lists of DEL
    PageSize,  \* DEL_BATCH_SIZE, FLUSH_BATCH_SIZE
    MetadataOrder, SubkeyOrder, ScoreOrder,  \* the places of keys in byte order
    MaxSize,   \* bound on sizes, which cut DELs let grow past the members
    None

VARIABLES
    metadata,  \* [key -> None, or its type, version and size]
    subkey,    \* entries <<key, version, member, score>>, the score their value
    zscore,    \* entries of zset_score, the same fields all in their key
    drawn,     \* versions generate_version has returned
    job,       \* None, or the DEL or FLUSHDB under way, with the place of the
               \* start key of delete_prefix, 0 if it is empty
    cut        \* history: keys whose DEL was under way when the process ended

vars == <<metadata, subkey, zscore, drawn, job, cut>>
cfs == <<metadata, subkey, zscore>>

Entries == Keys \X Versions \X Elems \X (Scores \cup {NoScore})
Strings == [t : {"string"}, ver : {None}, size : {0}]
Composites == [t : {"set", "zset"}, ver : Versions, size : Nat]
Jobs ==
    [op : {"del"}, args : Seq(Keys), at : Nat \ {0},
     stage : {"look", "subkey", "score", "metadata"}, start : Nat]
    \cup [op : {"flush"}, stage : {"metadata", "subkey", "score", "done"}, start : Nat]

ASSUME DatabaseAssumption ==
    /\ IsFiniteSet(Keys) /\ IsFiniteSet(Elems) /\ IsFiniteSet(Scores)
    /\ Members \subseteq SUBSET Elems
    /\ DelArgs \subseteq Seq(Keys)
    /\ PageSize \in Nat \ {0} /\ MaxSize \in Nat
    /\ NoScore \notin Scores
    /\ None \notin Strings \cup Composites /\ None \notin Jobs /\ None \notin Versions

ASSUME OrderAssumption ==
    /\ MetadataOrder \in [Keys -> Nat \ {0}]
    /\ SubkeyOrder \in [Entries -> Nat \ {0}]
    /\ ScoreOrder \in [Entries -> Nat \ {0}]

TypeOK ==
    /\ metadata \in [Keys -> Strings \cup Composites \cup {None}]
    /\ subkey \subseteq Entries
    /\ zscore \subseteq Entries
    /\ drawn \subseteq Versions
    /\ job \in Jobs \cup {None}
    /\ cut \subseteq Keys

Init ==
    /\ metadata = [k \in Keys |-> None]
    /\ subkey = {} /\ zscore = {}
    /\ drawn = {} /\ job = None /\ cut = {}

-----------------------------------------------------------------------------

IsComposite(k) == metadata[k] # None /\ metadata[k].t # "string"

\* The entries of a key under a version, the prefix of purge_subkeys.
Under(cf, k, v) == {e \in cf : e[1] = k /\ e[2] = v}

\* The entries of a key that its metadata lead to.
Held(cf, k) == Under(cf, k, metadata[k].ver)

\* The entries that ZADD writes for members, or SADD.
Batch(k, v, ms, sc) == {<<k, v, m, sc>> : m \in ms}

Idle == job = None /\ UNCHANGED job

-----------------------------------------------------------------------------
\* Commands of one write

\* One batch: the entries of the members, in one index or both, instead of
\* those that the subkeys hold of them, and the size.
AddTo(k, t, v, size, ms, sc) ==
    LET old == {e \in Under(subkey, k, v) : e[3] \in ms}
        new == Batch(k, v, ms, sc)
        n == size + Cardinality(new) - Cardinality(old)
    IN  /\ n <= MaxSize
        /\ subkey' = (subkey \ old) \cup new
        /\ zscore' = IF t = "zset" THEN (zscore \ old) \cup new ELSE zscore
        /\ metadata' = [metadata EXCEPT ![k] = [t |-> t, ver |-> v, size |-> n]]

\* sadd; zadd, with one score
Add(k, t, ms, sc) ==
    /\ Idle
    /\ (t = "set") <=> (sc = NoScore)
    /\ \/ /\ metadata[k] # None /\ metadata[k].t = t
          /\ AddTo(k, t, metadata[k].ver, metadata[k].size, ms, sc)
          /\ UNCHANGED drawn
       \/ /\ metadata[k] = None
          /\ \E v \in Versions \ drawn :
               AddTo(k, t, v, 0, ms, sc) /\ drawn' = drawn \cup {v}
    /\ UNCHANGED cut

\* srem; zrem: the entries that the subkeys hold of the members.  One that
\* removes nothing writes nothing.
Remove(k, ms) ==
    LET gone == {e \in Held(subkey, k) : e[3] \in ms}
        n == Cardinality(gone)
    IN  /\ Idle
        /\ IsComposite(k) /\ gone # {}
        /\ subkey' = subkey \ gone
        /\ zscore' = IF metadata[k].t = "zset" THEN zscore \ gone ELSE zscore
        /\ metadata' = [metadata EXCEPT ![k].size = IF @ > n THEN @ - n ELSE 0]
        /\ UNCHANGED <<drawn, cut>>

\* SET, MSET: one put, or one batch of puts.  What the keys held stays in the
\* other column families.
MSet(ks) ==
    /\ Idle
    /\ metadata' = [k \in Keys |->
                      IF k \in ks THEN [t |-> "string", ver |-> None, size |-> 0]
                      ELSE metadata[k]]
    /\ cut' = cut \ ks
    /\ UNCHANGED <<subkey, zscore, drawn>>

-----------------------------------------------------------------------------
\* delete_prefix, one turn of its loop at a time

\* What the page is taken from: what the prefix still has after the start key.
FromStart(order, cf) == {e \in cf : order[e] > job.start}

\* The page: as many as a batch holds, the first in byte order; none if there
\* are none.
PagesOf(order, left) ==
    {page \in SUBSET left :
       /\ Cardinality(page) = IF Cardinality(left) < PageSize THEN Cardinality(left)
                              ELSE PageSize
       /\ \A d \in page, e \in left \ page : order[d] < order[e]}

\* After the batch is written: on from the last key of the page, which is no
\* longer there, or to the next stage if nothing came after the page.
Continue(order, left, page, stage) ==
    \/ /\ page = left
       /\ job' = [job EXCEPT !.stage = stage, !.start = 0]
    \/ /\ page # left
       /\ \E last \in page : /\ \A e \in page : order[e] <= order[last]
                             /\ job' = [job EXCEPT !.start = order[last]]

-----------------------------------------------------------------------------
\* DEL

DelKey == job.args[job.at]
DelAt(stage) == job # None /\ job.op = "del" /\ job.stage = stage

Del(args) ==
    /\ job = None
    /\ job' = [op |-> "del", args |-> args, at |-> 1, stage |-> "look", start |-> 0]
    /\ UNCHANGED <<cfs, drawn, cut>>

\* A missing key is not passed over.
DelLookStays ==
    /\ DelAt("look") /\ job.at <= Len(job.args)
    /\ job' = IF metadata[DelKey] = None THEN job
              ELSE [job EXCEPT !.stage =
                      IF metadata[DelKey].t = "string" THEN "metadata" ELSE "subkey"]
    /\ UNCHANGED <<cfs, drawn, cut>>

\* zset_score is purged instead of the subkeys.
DelLookScores ==
    /\ DelAt("look") /\ job.at <= Len(job.args)
    /\ job' = IF metadata[DelKey] = None THEN [job EXCEPT !.at = @ + 1]
              ELSE [job EXCEPT !.stage =
                      CASE metadata[DelKey].t = "string" -> "metadata"
                        [] metadata[DelKey].t = "set" -> "subkey"
                        [] metadata[DelKey].t = "zset" -> "score"]
    /\ UNCHANGED <<cfs, drawn, cut>>

\* get_meta of the next key: a missing one is passed over.
DelLook ==
    /\ DelAt("look") /\ job.at <= Len(job.args)
    /\ job' = IF metadata[DelKey] = None THEN [job EXCEPT !.at = @ + 1]
              ELSE [job EXCEPT !.stage =
                      IF metadata[DelKey].t = "string" THEN "metadata" ELSE "subkey"]
    /\ UNCHANGED <<cfs, drawn, cut>>

AfterPurge == IF metadata[DelKey].t = "zset" THEN "score" ELSE "metadata"

\* delete_prefix skips the first key it finds, as if the start key were still
\* there.
DelSubkeysSkipping ==
    LET from == FromStart(SubkeyOrder, Held(subkey, DelKey))
        left == IF job.start = 0 THEN from
                ELSE {e \in from : \E d \in from : SubkeyOrder[d] < SubkeyOrder[e]}
    IN  /\ DelAt("subkey")
        /\ \E page \in PagesOf(SubkeyOrder, left) :
             /\ subkey' = subkey \ page
             /\ Continue(SubkeyOrder, left, page, AfterPurge)
        /\ UNCHANGED <<metadata, zscore, drawn, cut>>

\* purge_subkeys
DelSubkeys ==
    LET left == FromStart(SubkeyOrder, Held(subkey, DelKey))
    IN  /\ DelAt("subkey")
        /\ \E page \in PagesOf(SubkeyOrder, left) :
             /\ subkey' = subkey \ page
             /\ Continue(SubkeyOrder, left, page, AfterPurge)
        /\ UNCHANGED <<metadata, zscore, drawn, cut>>

DelScores ==
    LET left == FromStart(ScoreOrder, Held(zscore, DelKey))
    IN  /\ DelAt("score")
        /\ \E page \in PagesOf(ScoreOrder, left) :
             /\ zscore' = zscore \ page
             /\ Continue(ScoreOrder, left, page, "metadata")
        /\ UNCHANGED <<metadata, subkey, drawn, cut>>

\* The next key is passed over.
DelMetadataSkips ==
    /\ DelAt("metadata")
    /\ metadata' = [metadata EXCEPT ![DelKey] = None]
    /\ cut' = cut \ {DelKey}
    /\ job' = [job EXCEPT !.at = @ + 2, !.stage = "look"]
    /\ UNCHANGED <<subkey, zscore, drawn>>

DelMetadata ==
    /\ DelAt("metadata")
    /\ metadata' = [metadata EXCEPT ![DelKey] = None]
    /\ cut' = cut \ {DelKey}
    /\ job' = [job EXCEPT !.at = @ + 1, !.stage = "look"]
    /\ UNCHANGED <<subkey, zscore, drawn>>

\* The answer of DEL
DelDone ==
    /\ DelAt("look") /\ job.at > Len(job.args)
    /\ job' = None
    /\ UNCHANGED <<cfs, drawn, cut>>

-----------------------------------------------------------------------------
\* FLUSHDB

FlushAt(stage) == job # None /\ job.op = "flush" /\ job.stage = stage
FlushFrom(stage) == job' = [op |-> "flush", stage |-> stage, start |-> 0]

\* FLUSHDB that leaves out the metadata, or comes to them later.
FlushDbSubkeysFirst ==
    /\ job = None
    /\ FlushFrom("subkey")
    /\ UNCHANGED <<cfs, drawn, cut>>

FlushDb ==
    /\ job = None
    /\ FlushFrom("metadata")
    /\ UNCHANGED <<cfs, drawn, cut>>

FlushMetadata ==
    LET left == FromStart(MetadataOrder, {k \in Keys : metadata[k] # None})
    IN  /\ FlushAt("metadata")
        /\ \E page \in PagesOf(MetadataOrder, left) :
             /\ metadata' = [k \in Keys |-> IF k \in page THEN None ELSE metadata[k]]
             /\ cut' = cut \ page
             /\ Continue(MetadataOrder, left, page, "subkey")
        /\ UNCHANGED <<subkey, zscore, drawn>>

FlushSubkeys ==
    LET left == FromStart(SubkeyOrder, subkey)
    IN  /\ FlushAt("subkey")
        /\ \E page \in PagesOf(SubkeyOrder, left) :
             /\ subkey' = subkey \ page
             /\ Continue(SubkeyOrder, left, page, "score")
        /\ UNCHANGED <<metadata, zscore, drawn, cut>>

FlushScores ==
    LET left == FromStart(ScoreOrder, zscore)
    IN  /\ FlushAt("score")
        /\ \E page \in PagesOf(ScoreOrder, left) :
             /\ zscore' = zscore \ page
             /\ Continue(ScoreOrder, left, page, "done")
        /\ UNCHANGED <<metadata, subkey, drawn, cut>>

\* The answer of FLUSHDB
FlushDone ==
    /\ FlushAt("done")
    /\ job' = None
    /\ UNCHANGED <<cfs, drawn, cut>>

-----------------------------------------------------------------------------

\* A DEL is at work on the elements of key k.
Purging(k) ==
    IF job = None THEN FALSE
    ELSE IF job.op = "del" THEN job.stage # "look" /\ DelKey = k ELSE FALSE

\* The process ends, and StorageEngine::open finds the column families as the
\* last write left them.
Crash ==
    /\ job # None
    /\ job' = None
    /\ cut' = cut \cup {k \in Keys : Purging(k) /\ IsComposite(k)}
    /\ UNCHANGED <<cfs, drawn>>

JobStep ==
    \/ DelLook \/ DelSubkeys \/ DelScores \/ DelMetadata \/ DelDone
    \/ FlushMetadata \/ FlushSubkeys \/ FlushScores \/ FlushDone

Next ==
    \/ \E k \in Keys, t \in {"set", "zset"}, ms \in Members,
          sc \in Scores \cup {NoScore} : Add(k, t, ms, sc)
    \/ \E k \in Keys, ms \in Members : Remove(k, ms)
    \/ \E ks \in (SUBSET Keys) \ {{}} : MSet(ks)
    \/ \E args \in DelArgs : Del(args)
    \/ FlushDb
    \/ JobStep
    \/ Crash

\* A thread of the pool that has a command to run goes on running it.
Fairness == WF_vars(JobStep)

Spec == Init /\ [][Next]_vars /\ Fairness

-----------------------------------------------------------------------------

\* A key whose metadata are stored is whole: its size is the number of its
\* members, and a sorted set has the same members in both indices.  The only
\* exception is a key whose DEL is under way or was cut by a crash.  So a
\* FLUSHDB that is cut (admin.rs:116) leaves every key whole or gone, and a
\* key that is made again finds nothing of what a cut command left.
Whole(k) ==
    /\ metadata[k].size = Cardinality(Held(subkey, k))
    /\ metadata[k].t = "zset" => Held(zscore, k) = Held(subkey, k)

WholeInv == \A k \in Keys : IsComposite(k) => Whole(k) \/ Purging(k) \/ k \in cut

\* What a cut DEL (string.rs:324) leaves is bounded, also after later commands
\* on the key: the size is at least the number of members, and the score index
\* lacks none of them, because the subkeys go first.
CutInv ==
    \A k \in Keys : IsComposite(k) =>
      /\ Cardinality(Held(subkey, k)) <= metadata[k].size
      /\ metadata[k].t = "zset" => Held(subkey, k) \subseteq Held(zscore, k)

\* Entries that no metadata lead to.
Garbage == {e \in subkey \cup zscore : metadata[e[1]] = None
                                       \/ metadata[e[1]].ver # e[2]}

\* DEL leaves no entries behind that nobody can reach any more, finished, cut
\* or taken up again after a crash (string.rs:324 before string.rs:329); only a
\* FLUSHDB, whose next call takes them away, and SET over another type do.
DelLeavesNoGarbage ==
    [][(job # None /\ job.op = "del") => Garbage' \subseteq Garbage]_vars

\* When DEL answers, the keys it was given are gone, each of them also if it
\* was given twice; when FLUSHDB answers, nothing is left at all, neither of
\* commands that were cut before.
AnsweredMeansGone ==
    /\ DelAt("look") /\ job.at > Len(job.args) =>
         \A i \in 1 .. Len(job.args) : metadata[job.args[i]] = None
    /\ FlushAt("done") =>
         subkey = {} /\ zscore = {} /\ \A k \in Keys : metadata[k] = None

\* The loops of delete_prefix (storage.rs:340) and of DEL over its arguments
\* end: a command that has begun ends, unless the process does.
EveryCommandEnds == (job # None) ~> (job = None)
=============================================================================
