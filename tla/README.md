# kvdb.rs in TLA+

kvdb.rs is a Redis-compatible server on RocksDB. This directory holds TLA+
models of it, the TLC configurations that check them on small instances, and
proofs checked by TLAPS. `PROJECT.json` lists components, runs, the source lines
behind every definition, hazards, findings and theorems.

## The system and its parts

| Part | State | Operations | What is hard about it |
|---|---|---|---|
| thread pool (`thread_pool.rs`) | mpsc channel, one mutex around its receiver, worker threads | spawn, worker loop, panic, end of the pool | the guard of `rx.lock()` is a temporary of `while let` and lives through `job()`; a panic poisons the mutex; callers wait on oneshots |
| connections (`server.rs`) | per connection `TransactionState`: in_multi, queue, watched snapshot | parse, MULTI, EXEC, DISCARD, WATCH, commands, disconnect | a transaction is several jobs; other connections' jobs fall in between; WATCH compares metadata |
| keys (`encoding.rs`, `types.rs`, `cmd/string.rs`, FLUSHDB) | a metadata entry per key; subkeys under (key, version) | SET, DEL, EXPIRE, PERSIST, ... | old subkeys of a replaced key stay under their version; expiry is lazy and every type checks it for itself |
| strings (`cmd/string.rs`) | metadata only | GET, SET, INCR, DECR, APPEND, ... | read-modify-write; only INCR, DECR and APPEND take the key lock |
| lists (`cmd/list.rs`) | head, tail, size; an element per index | LPUSH, RPUSH, LPOP, RPOP, LRANGE, LINDEX, LLEN | window, size and stored elements must agree |
| hashes, sets, sorted sets, streams, bitmaps (`cmd/*.rs`) | size; subkeys; a second index for sorted sets; last id for streams | the commands of each type | two indices in step, sizes against contents, ids that grow |
| storage (`storage.rs`) | column families, key lock shards | get, put, write batch, paged prefix scans and deletions | paging forwards and backwards, atomic batches, crashes between two of them |
| Pub/Sub (`pubsub.rs`) | channel -> subscribers | subscribe, unsubscribe, publish | removal of empty channels against a concurrent subscribe |
| Lua (`lua.rs`), config (`config.rs`), RESP (`protocol.rs`), cluster, replication | globals of one interpreter; current configuration; none; slots; role | EVAL, EVALSHA; update; parse; ... | shared globals; validation before replacement; partial input |

There are two ways to run commands. In the server every command is a job of the
pool, and `ThreadPool` shows that jobs run one at a time: a command is atomic, a
transaction is not. Embedded (the benchmark and the storage tests) many threads
call the command table directly, and commands interleave at every storage call.

## Modules

```
SerialExecutor  <-- implemented by -- ThreadPool      (ThreadProofs)
      ^ assumed by Server (ServerProofs), PubSub, and by every "command = one step" below
PubSubADT       <-- implemented by -- PubSub          (ThreadProofs)
AtomicStrings   <-- implemented by -- StringRmw       (ThreadProofs)
KeyADT <- ListADT <-- implemented by -- ListType      (ListProofs)      -> Keyspace
       <- MapADT  <-- implemented by -- HashType, SetType (SetProofs)   -> Keyspace
       <- ZSetADT <-- implemented by -- ZSetType      (ZSetProofs)      -> Keyspace
       <- BitmapADT <-- implemented by -- BitmapType                    -> Keyspace
Database (DatabaseProofs): several keys, write by write, with crashes;
SetAlgebra -> Database: SINTER, SDIFF, SUNION
StreamType (StreamProofs) -> Keyspace;  HashScan, StreamReader: a client beside the type
Paging: the page scans of storage.rs;  Scores: f64 scores;  KeyspaceProofs: lemmas
```

`MC*` modules give the constants their values. The `map` of `PROJECT.json`
names the lines behind each definition; the following is how to read them.

**ThreadPool** (`thread_pool.rs`). `queue` is the mpsc channel, `mutex` and
`poisoned` the mutex around its receiver, `wpc` and `job` the worker loop,
`answer` the oneshots. The guard of `rx.lock()` is a temporary of the `while let`
and lives to the end of the loop body; therefore `Recv` keeps the mutex and
`Release` or `Unwind` gives it up. `SerialExecutor` is what this amounts to: a
queue of jobs that take effect one at a time, and nothing after a panic.

**Server** (`server.rs`). One task per connection with its `TransactionState`
(`inMulti`, `queued`, `watched`); `pc` says which job it awaits. WATCH, the
check of EXEC and each command are separate jobs. A key is a string, whose
metadata is its value, or a hash, whose metadata does not show its fields: the
two kinds of key that WATCH can tell apart. `block`, `owed` and `seen` are
history. A client may go while its task reads (`Disconnect`), and writing a message
of a subscription may fail while a command is awaited (`MessageFails`,
`server.rs:227`): the task ends and its job runs all the same, with nobody to
answer to. Jobs may fail (`FailJob`; a DEL of a hash that fails may have purged the
fields and kept the metadata) or panic (`PanicJob`, before the command has written).

**Keyspace** (`encoding.rs`, `types.rs`, `cmd/string.rs`, FLUSHDB). One user
key: its `metadata` entry, its subkeys and score keys by version, the clock, the
versions drawn. SET, SET NX, SET XX, DEL, EXPIRE, PERSIST, FLUSHDB. A command
is one step because the pool is serial. Every type module adds its commands and
maps `meta` and the subkeys of the current version to the value of its ADT. The
ADTs share `KeyADT`: a key is missing, a string, or a value of the type, with
an expiry. `UniqueVersions` says whether `generate_version`, which is a
time stamp and 16 random bits, may return a value twice.

**ListType**, **HashType**, **SetType**, **ZSetType**, **StreamType**
(`cmd/list.rs`, `hash.rs`, `set.rs`, `zset.rs`, `stream.rs`). One action per
command, from `meta` and the subkeys to the reply. Every command records its
arguments and its answer in `reply`, so that the refinement compares answers as
well as contents. **Paging** has `prefix_scan_page` and its reverse as
operators; HGETALL, HSCAN, XRANGE, XREAD and the sorted set ranges are defined
through it. **HashScan** adds a client that iterates with HSCAN, and
**StreamReader** one that follows a stream with XREAD; in each the others
write at any moment.

**BitmapType** (`cmd/bitmap.rs`). A bitmap is stored in fragments, each up to
its last written byte. A byte is the set of its one bits. The key is read and
written by SETBIT, GETBIT, BITCOUNT and is the destination of BITOP; the other
sources of BITOP are constants: a longer and a shorter bitmap, a missing key, a
key of another type. `BitmapADT` is a set of bit offsets and a length in bytes.

**Database** (`cmd/string.rs`, `cmd/admin.rs`, `delete_prefix` of `storage.rs`).
Several keys in the three column families, and a process that may end between
any two writes. All commands but DEL and FLUSHDB write once, a put or a batch, and
are one action. DEL and FLUSHDB are a `job` of one step per write: the purge of
a page, the deletion of the metadata. A page is the first entries in byte order
after the start key, which is the last key of the page before and already
deleted; `start` in the job is its place, and `MetadataOrder`, `SubkeyOrder` and
`ScoreOrder` give the places of all keys. `Crash` drops the job and keeps what was
written; `cut` remembers the keys whose DEL it interrupted. Sets and sorted sets
stand for the types with one and with two indices. **SetAlgebra** evaluates
SINTER, SDIFF and SUNION in the states of `Database`.

**StringRmw** (`cmd/string.rs`, `key_lock` of `storage.rs`). The embedded mode:
threads that call the command table directly. Each RocksDB call is a step. INCR,
DECR and APPEND hold the lock of their shard from read to return, the others
look and write without one.

**PubSub** (`pubsub.rs`, `cmd/pubsub.rs`, the select loop of `server.rs`). The
calls on the concurrent map are steps of a job, and so is every send of a
publication; the client tasks read messages, and end, meanwhile. The list of a
channel is the number of times each client is in it. `pending` is the queue of the
pool, `rx` the messages that wait for each client, `written` those its task has
written. `PubSubADT` is a set of subscriptions that commands change in one step.

## Runs

| Run | Checks | Shows |
|---|---|---|
| `pool` | `OneJobAtATime`, `ImplementsExecutor`, `EveryCallerAnswered` | three workers run four jobs one at a time in the order of `spawn`; panics, poisoning and the end of the pool leave no caller waiting |
| `server` | `TypeOK`, `AnsweredMeansDone`, `RunsWhatWasSent`, `WatchDetects`, `EveryRequestAnswered` | what runs for a client is what it sent; EXEC notices changed keys as far as metadata show it; tasks never hang, and leave nothing in the pool but a command (`TypeOK`) |
| `commit_after_check` (violated) | `CommitsOnWatchedState` | another connection's job can fall between the check and the first command |
| `list`, `set`, `hash`, `zset` | `ImplementsADT`, and `WindowInv`, `SizeInv`, `IndexInv`, `FreshSetIsEmpty`, `ScanComplete`, `ReturnedOnce` | the commands of each type are those of a sequence, set, map, ordered map; the redundant parts of the encoding agree; an HSCAN among writes returns what stays, and nothing twice |
| `stream` | `TypeOK`, `SizeInv`, `NothingMissed`, `IdsGrow` | ids grow with any clock, and a reader that follows the stream misses nothing |
| `bitmap` | `TypeOK`, `ExtentInv`, `ImplementsADT` | bitmap commands are those of a set of bits with a length, whatever fragments are stored; the size is the end of the last stored byte |
| `recovery` | `WholeInv`, `CutInv`, `AnsweredMeansGone`, `DelLeavesNoGarbage`, `EveryCommandEnds`, `AlgebraInv` | a crash leaves keys whole or gone, except the one whose DEL it cut, and that one within bounds; DEL and FLUSHDB end and take everything away; set algebra is right on what is left |
| `strings` | `LockInv`, `ImplementsAtomic`, `EveryCallReturns` | INCR, DECR, APPEND are atomic on keys that get no other writes; no error path keeps a lock |
| `pubsub` | `HubTypeOK`, `GoneAreSwept`, `ImplementsADT`, `EveryMessageArrives` | messages go to exactly the subscribers, once and in order; closed clients are taken out by the next publication |

Each property has a mutant in `PROJECT.json`: a plausible slip in a mapped
definition that makes it fail.

### Bounds

* `pool`: three workers, so that one dies, one holds the lock and one waits; four
  jobs, so that some are queued when the pool breaks.
* `server`: five requests of one client are a whole WATCH, MULTI, two commands,
  EXEC; the other client makes one request, which falls at every point of it.
* types: two or three versions, so that a key is replaced and made again; a
  clock that reaches an expiry and goes past it (not in `hash` and `stream`,
  whose keys do not expire; the clock of `stream` goes back and forth); pages of one or two entries,
  so that a scan is cut at every place and ends exactly at the end of a page.
  Versions are used up where `UniqueVersions` is TRUE: a run ends in states in
  which nothing is created any more, and the commands on existing keys go on.
* `strings`: `i64` is -2..1, so that INCR and DECR overflow and APPEND leaves the
  range; two threads with two calls each, two keys in one shard.
* `bitmap`: bytes of two bits and fragments of two bytes, so that offsets fall on
  both sides of every boundary; ranges with negative, reversed and too large ends.
* `recovery`: two keys, two members, two scores, pages of one entry, so that a
  purge takes several writes and a crash falls between each two of them; DEL of
  one key, and of `b a b`. Two versions: a key is made, cut, deleted and made
  again. `MaxSize` bounds sizes, which a DEL that is cut again and again would
  otherwise let grow. `UnionLimit` is 1, so that SUNION meets it.
* `pubsub`: three clients; one subscribes and unsubscribes, one also publishes,
  one only publishes; a command names a channel twice.
* `VIEW` leaves out `reply`, which no action reads. The actions that differ only
  in their answer are still evaluated from every state, and the refinements check
  every such step. Symmetry is over versions, and only without liveness.
* `CHECK_DEADLOCK FALSE` where clients stop after their last request. The type
  runs check for deadlock.

### Fairness

Weak fairness of every worker thread, of the pool, and of a task whose awaited
job has been answered or that has a message to write, and of the command under way
in `Database`: the operating system and tokio schedule what can run. None for clients, who may stop at any time, and none
that prefers a return to a panic. For `StringRmw`, weak fairness of each thread
is enough because calls are finitely many: a lock that is released again and
again is free for ever in the end. The mutexes of the code are not fair, and with
unboundedly many calls a thread could starve.

## Proofs

All are for arbitrary values of the constants under the named assumptions of the
modules, and are checked by `tlapm <module>.tla`.

* **ThreadProofs**, the pool. `PoolIInv` = `TypeOK`, `HolderInv` (a worker past the
  lock is the one that holds the mutex) and `PoisonInv` (a poisoned mutex is never
  held again). `OneJobAtATime` alone is not inductive: it needs to know why a second
  worker cannot get past the lock. From it: `Serial`, `PoolTypes` and
  `PoolRefinement`, that every step of the worker loop is a step of
  `SerialExecutor` or a stutter.
* **ThreadProofs**, the strings. `LockingInv` = `TypeOK`, `PathInv` (which command is
  at which place) and `LockInv` gives `TypeCorrect` and `Locked`. `Atomicity` needs
  `GotInv` as well: what a thread inside its shard has read from a counter is
  still what is stored. With it the write of a command is the atomic step of
  `AtomicStrings`, and every other step is a stutter or concerns another key.
* **ThreadProofs**, Pub/Sub. `HubInv` = `HubTypeOK`, `TurnInv` (one command runs, the
  others wait), `CallInv` (what a command has done to the lists for the arguments it
  has gone through, and whom a message has reached) and `SweptInv` (who is gone is out
  of the list, or the publication will come to it). `Swept` and `HubRefinement` need
  all four, because a client may go between any two sends.
* **ServerProofs.** `IInv` ties the three places a request can be in: the pool's
  queue (`PoolInv`: each job belongs to the task that waits for it, or is the command
  of a task that has ended, and no task has two), the task (`ConnInv`: what is queued, watched and awaited at each `pc`) and
  the history (`owed` is what the task and the pool still hold). `AnsweredIsDone` and
  `RunsTheSent` follow from the last, `TypeCorrect` from the first two; `CheckDetects` from what `watched` holds
  while the check is in the pool and from versions that only grow.
* **ListProofs.** `IInv` = `KeyTypeOK`, `WindowInv` and `DrawnInv` (a version
  with subkeys has been drawn). `DrawnInv` is why a list that is made again starts
  without elements: its version is new. The theorems assume `UniqueVersions`,
  which the code has only with overwhelming probability. `Refinement` adds
  `RangeInv` (head and tail are indices, which `IndexAssumption` makes an interval)
  and shows that what lies between head and tail is the sequence of `ListADT`, for
  pushes and pops of several elements at both ends. **KeyspaceProofs** has
  the steps that all types share: a key command leaves the value of the current
  version as it is, or leaves no composite value.
* **SetProofs.** The same plan with `SizeInv`; the counting is by the cardinality
  theorems of the library. Also `Fresh`, an action property, and `Refinement`: the
  Set commands are steps of `MapADT`, repeated arguments included.
* **ZSetProofs.** `IInv` = `KeyTypeOK`, `DrawnInv`, `IndexInv` and `SizeInv`. The
  core is the lemma `Indexed`: writing scores over old ones and replacing their
  entries in the index give the index of the new scores. `IndicesAgree` holds for
  all arguments; `Size` assumes `DistinctTakes`, finitely many members and no ZREM
  that names one twice, because with such a ZREM it is false (see below).
* **StreamProofs.** `IInv` = `KeyTypeOK`, `DrawnInv`, `SizeInv`, `LastInv` (no entry
  is after the last id of the metadata), `Forever` (no expiry) and the range of the
  clock. `IdsGrow` speaks of all entries, `generate_id` compares with the last id
  only: `LastInv` is the link. `Size` follows because an id after all others is new.
  Both assume what they are false without (see below): `UniqueVersions`, `NoExpiry`,
  that no EXPIRE writes the metadata back without the last id, and `[]Below`, that the sequence
  number stays below `u64::MAX`. The clock may go back and forth. `WellTyped` assumes
  none of the three.
* **DatabaseProofs.** `IInv` = `TypeOK`, `WholeInv`, `CutInv` and: the column
  families are finite; the version of every entry has been drawn, and a set has no
  entries in `zset_score` (`EntryInv`, why a new key finds nothing); a DEL that
  has reached a stage has emptied the earlier ones, and the arguments behind it are
  gone (`DelInv`); likewise FLUSHDB (`FlushInv`); all that `delete_prefix` has still to
  delete comes after its start key (`CursorInv`, why a page starts where the last one
  ended without missing an entry; for any byte order). `CutBounded` rests on the order of
  `purge_subkeys`: the subkeys go before their scores. `Wholeness` rests on the order
  of FLUSHDB, metadata first. All for any keys, members, page size, argument lists.

Only model-checked: liveness (`EveryCallerAnswered`, `EveryRequestAnswered`,
`EveryCallReturns`, `EveryMessageArrives`, `EveryCommandEnds`), which is beyond the
prover; what is computed by a recursive function over pages, sets or
sequences, which would need induction (the refinements of `HashType` and `ZSetType`,
`NothingMissed`, `AlgebraInv`, `BitmapType`); and, so far, `SizeInv` of `HashType`,
`ScanComplete` and `ReturnedOnce`. That `Server` and `PubSub` run their jobs one at a
time is built into them: `PoolRefinement` is why they may, and no theorem composes
the three.

## Findings

The run that is violated, with the text it disagrees with, is under `findings` in
`PROJECT.json`: EXEC runs its commands after another connection has changed a
watched key.

### Other disagreements

Behaviour met while modelling that has no run of its own. The runs named keep
the inputs out by their constants, and the constants that bring them in are given.

* EXPIRE and PERSIST write the metadata of a stream back without its last id
  (`string.rs:210`), and the next XADD may make a smaller id, against
  `stream.rs:272` ("若小于等于最后生成的 ID 则拒绝，保证单调递增"): `TTLs <- MCTTLs` in
  `MCStreamReader.cfg` violates `IdsGrow`.
* EXPIRE and PERSIST read a payload and write it back without the key lock
  (`string.rs:193`), and an INCR in between is acknowledged and then lost, against
  `string.rs:366` ("防止并发丢失更新"): `Ops <- IncrAndExpire` and `MaxInt = 3` in
  `MCStringRmw.cfg` violate `NoLostIncrement`. Embedded mode only.
* HSET that names a new field twice counts it twice (`hash.rs:72`), and HDEL
  likewise (`hash.rs:169`): in `MCHashScan`, `<< <<1, a>>, <<1, b>> >>` among
  `MCPuts` violates `SizeInv`, against `types.rs:81`. ZREM with a repeated
  member (`zset.rs:657`): `<<1, 1>>` among `MCTakes` of `MCZSetType`.
* An expired hash is still read and written (`hash.rs:49`): `TTLs = {1}` and
  `MaxNow = 3` in `MCHashScan.cfg` violate `ImplementsADT`.
* Versions are not unique (`encoding.rs:4-11`; the comment in line 3 says they
  are): `UniqueVersions = FALSE` in `MCSetType.cfg` violates `FreshSetIsEmpty`.
* ZRANGEBYSCORE from a score skips the empty member with that score, and from 0
  the members with score -0 (`zset.rs:492`): a member 0 among `Fields`, or
  `NegZero` among the scores of `MCAdds`.
* The sequence number after `u64::MAX` (`stream.rs:254`): `MaxSeq = 1` and an id
  that reaches it violate `IdsGrow`. The first id of a stream may be 0-0, which an
  XREAD from 0-0 never returns: `Id(0, 0)` among `MCSpecs` violates
  `NothingMissed`.
* LPOP and RPOP with the count 0 answer the empty array before they look at the key
  (`list.rs:171`), also if it is not a list, against `cmd/mod.rs:29`
  ("所有命令在遇到类型不匹配时必须返回该消息"). `PopNothing` and `ListADT!PopZero` have it so:
  the refinement holds with this exception, and `OtherType` refuses every other command.
* Two threads that call SET NX at once may both write (`string.rs:127`);
  embedded mode only.
* DEL of a key that is stored without a namespace finds it by the fallback of
  `get_meta` (`cmd/mod.rs:83`), purges under the namespace, deletes the namespaced
  metadata key (`string.rs:328`) and answers 1: the key is still there. No run has
  namespaces.
* Behaviour without a text to compare it with: a BITCOUNT whose start is past the
  end counts the last byte; BITOP of missing keys stores an empty bitmap; SDIFF takes
  a key of another type for an empty set, other than SINTER and SUNION; SUNION of
  exactly as many members as the limit fails if one of them comes again; a DEL of a
  sorted set that a crash cuts leaves members in its ranges that ZSCORE denies, until
  the next DEL or FLUSHDB (`CutInv` says how far this goes); one panic in a command ends the
  pool for all connections; a second WATCH replaces the first; a change of a hash
  field that keeps the number of fields is invisible to WATCH; commands of other
  connections run between those of a transaction; EXPIRE and PERSIST bring an
  expired key back; DEL counts an expired key; a message may be written before the
  confirmation of the SUBSCRIBE it answers to.

## Not modelled

Namespaces and the fallback to keys without one; Lua, where a script is one job
and its calls are those of the command table; configuration, which is read,
validated and replaced under one lock. Byte layouts, RESP parsing and formatting,
HTTP, command line, benchmark, INFO, DBSIZE: conversions, reads and output without
state of their own. RocksDB is external and taken to be a map whose write batches are
atomic and survive the process; the loss of a log that was not yet on disk, with the
machine, is not modelled. Replication and
cluster are a role and a slot table that nothing acts on.

## Plan

1. Done: pool, server, keys, lists, strings and locks; hashes, sets, sorted sets,
   streams, bitmaps; Pub/Sub; crashes; set algebra; proofs for pool, connections,
   lists, sets, sorted sets, streams, strings, Pub/Sub and crashes; the refinements of
   pool, strings, lists, sets and Pub/Sub.
2. Namespaces, with keys of an earlier version of the program in `Database`.
3. Proofs: the sizes and the iteration of hashes, with page scans defined without
   recursion; `Server` over `ThreadPool` itself instead of a serial pool.
4. Lua (nested EVAL and the shared globals), `ConfigManager::update` with the
   arithmetic of `validate` in 64 bits.
