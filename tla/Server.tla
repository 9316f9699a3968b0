------------------------------- MODULE Server -------------------------------
(***************************************************************************)
(* src/server.rs: the connection tasks, their MULTI / EXEC / DISCARD /     *)
(* WATCH state, and the jobs they hand to the thread pool.                 *)
(*                                                                         *)
(* Each connection task parses one request at a time and does not read the *)
(* next one before it has answered.  Everything that touches the store is  *)
(* a job of the pool, which is the SerialExecutor of that module: jobs run *)
(* one at a time in the order of their spawn.  WATCH is one job, the check *)
(* EXEC makes is one job, and then every queued command is a job of its    *)
(* own, spawned when the previous one has been answered; jobs of other     *)
(* connections fall in between.                                            *)
(*                                                                         *)
(* A key holds a String, whose value is its metadata, or a Hash with one   *)
(* field, whose metadata is type, version and size and whose field value   *)
(* is a subkey.  That is what WATCH tells apart.                           *)
(***************************************************************************)
EXTENDS Naturals, Sequences

CONSTANTS
    Conns,       \* client connections
    Keys,        \* user keys
    Vals,        \* values of strings and of hash fields
    Commands,    \* the data commands each client may send
    MaxRequests, \* [Conns -> Nat]: requests a client sends (bound)
    InitStore,   \* the store the clients find
    None

Absent == [t |-> "absent"]
StringOf(v) == [t |-> "string", v |-> v]
HashOf(n, v) == [t |-> "hash", ver |-> n, v |-> v]

Ops == {"set", "hset", "del"}

ASSUME CommandsAssumption == Commands \in [Conns -> SUBSET [op : Ops, key : Keys, val : Vals]]
ASSUME RequestsAssumption == MaxRequests \in [Conns -> Nat]

\* The hashes the clients find are older than any that is made.
ASSUME StoreAssumption ==
    InitStore \in [Keys -> {Absent} \cup {StringOf(v) : v \in Vals}
                             \cup {HashOf(0, v) : v \in Vals}]

VARIABLES
    \* connection tasks: TransactionState and the position in the handler
    pc, inMulti, queued, watched,
    rest,     \* execute_queue: the commands not yet spawned
    replies,  \* execute_queue: the replies collected so far
    requests, \* requests the client may still send
    \* the pool
    pool, result, broken, closed,
    \* the store
    store, nextVersion,
    \* history, read by no action: what the client has sent since its MULTI,
    \* what it may expect to be carried out, the keys as WATCH found them
    block, owed, seen

connVars == <<pc, inMulti, queued, watched, rest, replies, requests>>
poolVars == <<pool, result, broken, closed>>
storeVars == <<store, nextVersion>>
vars == <<connVars, poolVars, storeVars, block, owed, seen>>

-----------------------------------------------------------------------------

\* The bytes of the metadata column family, as get_meta returns them.
MetaOf(x) ==
    CASE x.t = "hash" -> [t |-> "hash", ver |-> x.ver]
      [] OTHER -> x

Metas ==
    {Absent} \cup {StringOf(v) : v \in Vals} \cup [t : {"hash"}, ver : Nat]

\* What a job answers.
Results ==
    [tag : {"wrote", "none", "err", "aborted", "changed", "unchanged"}]
      \cup [tag : {"snapshot"}, snapshot : UNION {[ks -> Metas] : ks \in SUBSET Keys}]

ASSUME NoneAssumption == None \notin Results

EmptyMap == [k \in {} |-> None]

\* SET writes the string whatever was there; HSET refuses a string, creates
\* the hash with a new version, or rewrites the metadata with what it was
\* and the field with its new value; DEL removes the key.
Apply(cmd, x) ==
    CASE cmd.op = "set" -> [val |-> StringOf(cmd.val), reply |-> "wrote"]
      [] cmd.op = "hset" /\ x.t = "string" -> [val |-> x, reply |-> "err"]
      [] cmd.op = "hset" /\ x.t = "hash" ->
           [val |-> [x EXCEPT !.v = cmd.val], reply |-> "wrote"]
      [] cmd.op = "hset" /\ x.t = "absent" ->
           [val |-> HashOf(nextVersion, cmd.val), reply |-> "wrote"]
      [] cmd.op = "del" /\ x.t = "absent" -> [val |-> x, reply |-> "none"]
      [] cmd.op = "del" /\ x.t # "absent" -> [val |-> Absent, reply |-> "wrote"]

Creates(cmd) == cmd.op = "hset" /\ store[cmd.key].t = "absent"

Jobs ==
    [conn : Conns, kind : {"watch", "check"}, keys : SUBSET Keys]
      \cup [conn : Conns, kind : {"command"}, cmd : UNION {Commands[c] : c \in Conns}]

Init ==
    /\ pc = [c \in Conns |-> "ready"]
    /\ inMulti = [c \in Conns |-> FALSE]
    /\ queued = [c \in Conns |-> << >>]
    /\ watched = [c \in Conns |-> EmptyMap]
    /\ rest = [c \in Conns |-> << >>]
    /\ replies = [c \in Conns |-> << >>]
    /\ requests = MaxRequests
    /\ pool = << >>
    /\ result = [c \in Conns |-> None]
    /\ broken = FALSE
    /\ closed = FALSE
    /\ store = InitStore
    /\ nextVersion = 1
    /\ block = [c \in Conns |-> << >>]
    /\ owed = [c \in Conns |-> << >>]
    /\ seen = [c \in Conns |-> EmptyMap]

-----------------------------------------------------------------------------
(* The connection task: requests it answers itself *)

Request(c) ==
    /\ pc[c] = "ready"
    /\ requests[c] > 0
    /\ requests' = [requests EXCEPT ![c] = @ - 1]

\* A nested MULTI, a WATCH inside MULTI, a DISCARD or EXEC outside, an empty
\* command: an error reply and nothing else.
Rejected(c) ==
    /\ Request(c)
    /\ UNCHANGED <<pc, inMulti, queued, watched, rest, replies, poolVars,
                   storeVars, block, owed, seen>>

Multi(c) ==
    /\ Request(c)
    /\ ~inMulti[c]
    /\ inMulti' = [inMulti EXCEPT ![c] = TRUE]
    /\ UNCHANGED <<pc, queued, watched, rest, replies, poolVars, storeVars,
                   block, owed, seen>>

ResetKeepsQueue(c) ==
    /\ inMulti' = [inMulti EXCEPT ![c] = FALSE]
    /\ queued' = queued
    /\ watched' = [watched EXCEPT ![c] = EmptyMap]

\* TransactionState::reset
Reset(c) ==
    /\ inMulti' = [inMulti EXCEPT ![c] = FALSE]
    /\ queued' = [queued EXCEPT ![c] = << >>]
    /\ watched' = [watched EXCEPT ![c] = EmptyMap]

Discard(c) ==
    /\ Request(c)
    /\ inMulti[c]
    /\ Reset(c)
    /\ block' = [block EXCEPT ![c] = << >>]
    /\ seen' = [seen EXCEPT ![c] = EmptyMap]
    /\ UNCHANGED <<pc, rest, replies, poolVars, storeVars, owed>>

Enqueue(c, cmd) ==
    /\ Request(c)
    /\ inMulti[c]
    /\ queued' = [queued EXCEPT ![c] = Append(@, cmd)]
    /\ block' = [block EXCEPT ![c] = Append(@, cmd)]
    /\ UNCHANGED <<pc, inMulti, watched, rest, replies, poolVars, storeVars,
                   owed, seen>>

\* The client closes: a task that waits for input notices at once, one that
\* answers it when it writes, which is here the next step.
Disconnect(c) ==
    /\ pc[c] = "ready"
    /\ pc' = [pc EXCEPT ![c] = "closed"]
    /\ UNCHANGED <<inMulti, queued, watched, rest, replies, requests, poolVars,
                   storeVars, block, owed, seen>>

-----------------------------------------------------------------------------
(* The connection task: requests that need the pool *)

\* ThreadPool::spawn.  On a closed pool it panics and the task ends.
Spawn(c, job, location) ==
    /\ pool' = IF closed THEN pool ELSE Append(pool, job)
    /\ pc' = [pc EXCEPT ![c] = IF closed THEN "closed" ELSE location]
    /\ UNCHANGED <<broken, closed>>

Command(c, cmd) ==
    /\ Request(c)
    /\ ~inMulti[c]
    /\ Spawn(c, [conn |-> c, kind |-> "command", cmd |-> cmd], "command")
    /\ owed' = [owed EXCEPT ![c] = Append(@, cmd)]
    /\ UNCHANGED <<inMulti, queued, watched, rest, replies, result, storeVars,
                   block, seen>>

Watch(c, keys) ==
    /\ Request(c)
    /\ ~inMulti[c]
    /\ Spawn(c, [conn |-> c, kind |-> "watch", keys |-> keys], "watch")
    /\ UNCHANGED <<inMulti, queued, watched, rest, replies, result, storeVars,
                   block, owed, seen>>

\* take(queued), reset(), and the first turn of execute_queue's loop.
BeginExec(c) ==
    /\ rest' = [rest EXCEPT ![c] = IF queued[c] = << >> THEN << >>
                                   ELSE Tail(queued[c])]
    /\ IF queued[c] = << >>
       THEN pc' = [pc EXCEPT ![c] = "ready"] /\ UNCHANGED <<pool, broken, closed>>
       ELSE Spawn(c, [conn |-> c, kind |-> "command", cmd |-> Head(queued[c])],
                  "exec")
    /\ Reset(c)
    /\ replies' = [replies EXCEPT ![c] = << >>]
    /\ owed' = [owed EXCEPT ![c] = @ \o block[c]]
    /\ block' = [block EXCEPT ![c] = << >>]

\* EXEC without watched keys goes on without a job.
ExecUnwatched(c) ==
    /\ Request(c)
    /\ inMulti[c]
    /\ DOMAIN watched[c] = {}
    /\ BeginExec(c)
    /\ seen' = [seen EXCEPT ![c] = EmptyMap]
    /\ UNCHANGED <<result, storeVars>>

ExecWatched(c) ==
    /\ Request(c)
    /\ inMulti[c]
    /\ DOMAIN watched[c] # {}
    /\ Spawn(c, [conn |-> c, kind |-> "check", keys |-> DOMAIN watched[c]],
             "check")
    /\ UNCHANGED <<inMulti, queued, watched, rest, replies, result, storeVars,
                   block, owed, seen>>

-----------------------------------------------------------------------------
(* The connection task: an awaited job has been answered *)

Answered(c, location) ==
    /\ pc[c] = location
    /\ result[c] # None
    /\ result' = [result EXCEPT ![c] = None]

MessageFailureIgnored(c) ==
    /\ pc[c] = "command"
    /\ pc' = [pc EXCEPT ![c] = "ready"]
    /\ result' = [result EXCEPT ![c] = None]
    /\ UNCHANGED <<inMulti, queued, watched, rest, replies, requests, pool,
                   broken, closed, storeVars, block, owed, seen>>

\* While a command is awaited the task writes the messages of the channels
\* its client has subscribed to.  When that fails the task ends, with its job
\* still in the pool or just answered; it runs all the same.  Nothing is
\* written while WATCH, the check or a command of EXEC is awaited.
MessageFails(c) ==
    /\ pc[c] = "command"
    /\ pc' = [pc EXCEPT ![c] = "closed"]
    /\ result' = [result EXCEPT ![c] = None]
    /\ UNCHANGED <<inMulti, queued, watched, rest, replies, requests, pool,
                   broken, closed, storeVars, block, owed, seen>>

CommandDone(c) ==
    /\ Answered(c, "command")
    /\ pc' = [pc EXCEPT ![c] = "ready"]
    /\ UNCHANGED <<inMulti, queued, watched, rest, replies, requests, pool,
                   broken, closed, storeVars, block, owed, seen>>

\* The snapshot of this WATCH takes the place of any earlier one.
WatchDone(c) ==
    /\ Answered(c, "watch")
    /\ result[c].tag = "snapshot"
    /\ watched' = [watched EXCEPT ![c] = result[c].snapshot]
    /\ pc' = [pc EXCEPT ![c] = "ready"]
    /\ UNCHANGED <<inMulti, queued, rest, replies, requests, pool, broken,
                   closed, storeVars, block, owed, seen>>

\* `watched_keys_changed(..).await?`: changed, so the transaction is dropped.
ExecNull(c) ==
    /\ Answered(c, "check")
    /\ result[c].tag = "changed"
    /\ Reset(c)
    /\ pc' = [pc EXCEPT ![c] = "ready"]
    /\ block' = [block EXCEPT ![c] = << >>]
    /\ seen' = [seen EXCEPT ![c] = EmptyMap]
    /\ UNCHANGED <<rest, replies, requests, pool, broken, closed, storeVars,
                   owed>>

ExecGoesOn(c) ==
    /\ Answered(c, "check")
    /\ result[c].tag = "unchanged"
    /\ BeginExec(c)
    /\ UNCHANGED <<requests, storeVars, seen>>

HandlerWaitsOn(c) ==
    /\ Answered(c, "watch") \/ Answered(c, "check")
    /\ result[c].tag = "err"
    /\ pc' = [pc EXCEPT ![c] = "closed"]
    /\ UNCHANGED <<inMulti, queued, watched, rest, replies, requests, pool,
                   broken, closed, storeVars, block, owed, seen>>

\* An aborted or failed WATCH or check job is an error of the handler: the
\* connection is closed.
HandlerFails(c) ==
    /\ Answered(c, "watch") \/ Answered(c, "check")
    /\ result[c].tag \in {"aborted", "err"}
    /\ pc' = [pc EXCEPT ![c] = "closed"]
    /\ UNCHANGED <<inMulti, queued, watched, rest, replies, requests, pool,
                   broken, closed, storeVars, block, owed, seen>>

ExecStopsEarly(c) ==
    /\ Answered(c, "exec")
    /\ replies' = [replies EXCEPT ![c] = Append(@, result[c].tag)]
    /\ pc' = [pc EXCEPT ![c] = "ready"]
    /\ UNCHANGED <<inMulti, queued, watched, rest, requests, pool, broken,
                   closed, storeVars, block, owed, seen>>

\* One more turn of execute_queue's loop, or its end and the Array reply.
ExecContinues(c) ==
    /\ Answered(c, "exec")
    /\ replies' = [replies EXCEPT ![c] = Append(@, result[c].tag)]
    /\ IF rest[c] = << >>
       THEN /\ pc' = [pc EXCEPT ![c] = "ready"]
            /\ UNCHANGED <<pool, broken, closed, rest>>
       ELSE /\ Spawn(c, [conn |-> c, kind |-> "command", cmd |-> Head(rest[c])],
                     "exec")
            /\ rest' = [rest EXCEPT ![c] = Tail(@)]
    /\ seen' = [seen EXCEPT ![c] = EmptyMap]
    /\ UNCHANGED <<inMulti, queued, watched, requests, storeVars, block, owed>>

-----------------------------------------------------------------------------
(* The pool: the oldest job, and no other *)

\* An answer to a task that has ended is dropped.
Answer(c, r) ==
    /\ result' = IF pc[c] = "closed" THEN result ELSE [result EXCEPT ![c] = r]
    /\ pool' = Tail(pool)

RunCommand ==
    /\ pool # << >> /\ ~broken
    /\ Head(pool).kind = "command"
    /\ LET cmd == Head(pool).cmd
           c == Head(pool).conn
           done == Apply(cmd, store[cmd.key])
       IN  /\ store' = [store EXCEPT ![cmd.key] = done.val]
           /\ nextVersion' = IF Creates(cmd) THEN nextVersion + 1 ELSE nextVersion
           /\ Answer(c, [tag |-> done.reply])
           /\ owed' = [owed EXCEPT ![c] = IF @ = << >> THEN @ ELSE Tail(@)]
    /\ UNCHANGED <<connVars, broken, closed, block, seen>>

\* watch_keys
RunWatch ==
    /\ pool # << >> /\ ~broken
    /\ Head(pool).kind = "watch"
    /\ LET c == Head(pool).conn
           keys == Head(pool).keys
       IN  /\ Answer(c, [tag |-> "snapshot",
                         snapshot |-> [k \in keys |-> MetaOf(store[k])]])
           /\ seen' = [seen EXCEPT ![c] = [k \in keys |-> store[k]]]
    /\ UNCHANGED <<connVars, broken, closed, storeVars, block, owed>>

AllChanged(c, keys) == \A k \in keys : MetaOf(store[k]) # watched[c][k]

\* watched_keys_changed
Changed(c, keys) == \E k \in keys : MetaOf(store[k]) # watched[c][k]

RunCheck ==
    /\ pool # << >> /\ ~broken
    /\ Head(pool).kind = "check"
    /\ LET c == Head(pool).conn
       IN  Answer(c, [tag |-> IF Changed(c, Head(pool).keys)
                              THEN "changed" ELSE "unchanged"])
    /\ UNCHANGED <<connVars, broken, closed, storeVars, block, owed, seen>>

\* A RocksDB error: the job answers with it and has changed nothing, except
\* that a DEL may have purged the field of a hash and not its metadata.
FailJob ==
    /\ pool # << >> /\ ~broken
    /\ \/ UNCHANGED store
       \/ /\ Head(pool).kind = "command"
          /\ LET cmd == Head(pool).cmd
             IN  /\ cmd.op = "del" /\ store[cmd.key].t = "hash"
                 /\ store' = [store EXCEPT ![cmd.key].v = None]
    /\ LET c == Head(pool).conn
       IN  /\ Answer(c, [tag |-> "err"])
           /\ owed' = [owed EXCEPT ![c] = IF Head(pool).kind = "command"
                                          THEN Tail(@) ELSE @]
    /\ UNCHANGED <<connVars, broken, closed, nextVersion, block, seen>>

\* A command panics before it writes: the pool is broken from here on.
PanicJob ==
    /\ pool # << >> /\ ~broken
    /\ Head(pool).kind = "command"
    /\ Answer(Head(pool).conn, [tag |-> "aborted"])
    /\ broken' = TRUE
    /\ UNCHANGED <<connVars, closed, storeVars, block, owed, seen>>

\* The last worker is gone: queued jobs are dropped unanswered.
DropQueue ==
    /\ broken /\ ~closed
    /\ closed' = TRUE
    /\ pool' = << >>
    /\ result' = [c \in Conns |->
                    IF pc[c] # "closed" /\ \E i \in 1..Len(pool) : pool[i].conn = c
                    THEN [tag |-> "aborted"] ELSE result[c]]
    /\ UNCHANGED <<connVars, broken, storeVars, block, owed, seen>>

-----------------------------------------------------------------------------

ClientStep(c) ==
    \/ Rejected(c)
    \/ Multi(c)
    \/ Discard(c)
    \/ \E cmd \in Commands[c] : Enqueue(c, cmd) \/ Command(c, cmd)
    \/ \E keys \in SUBSET Keys : Watch(c, keys)
    \/ ExecUnwatched(c)
    \/ ExecWatched(c)
    \/ Disconnect(c)
    \/ MessageFails(c)

TaskStep(c) ==
    \/ CommandDone(c)
    \/ WatchDone(c)
    \/ ExecNull(c)
    \/ ExecGoesOn(c)
    \/ HandlerFails(c)
    \/ ExecContinues(c)

PoolStep ==
    \/ RunCommand
    \/ RunWatch
    \/ RunCheck
    \/ FailJob
    \/ PanicJob
    \/ DropQueue

Next == PoolStep \/ \E c \in Conns : ClientStep(c) \/ TaskStep(c)

Spec == Init /\ [][Next]_vars

\* Tokio polls a task whose awaited job has been answered, and the pool's
\* threads are scheduled; clients are free to stop.
FairSpec == Spec /\ WF_vars(PoolStep) /\ \A c \in Conns : WF_vars(TaskStep(c))

-----------------------------------------------------------------------------

Locations == {"ready", "command", "watch", "check", "exec", "closed"}
Values == {Absent} \cup {StringOf(v) : v \in Vals}
            \cup {HashOf(n, v) : n \in 0..nextVersion, v \in Vals \cup {None}}

\* Type invariant.  A task waits for at most one job: the one it has in the
\* pool, or the one whose answer it has not picked up.  A task that has ended
\* may have left a command in the pool (server.rs:225), but no other job and
\* no answer.
TypeOK ==
    /\ pc \in [Conns -> Locations]
    /\ inMulti \in [Conns -> BOOLEAN]
    /\ \A c \in Conns :
         /\ queued[c] \in Seq(Commands[c])
         /\ rest[c] \in Seq(Commands[c])
         /\ DOMAIN watched[c] \subseteq Keys
         /\ LET asked == {i \in 1..Len(pool) : pool[i].conn = c}
            IN  /\ pc[c] \in {"ready", "closed"} => result[c] = None
                /\ pc[c] = "ready" => asked = {}
                /\ pc[c] = "closed" => \A i \in asked : pool[i].kind = "command"
                /\ pc[c] \notin {"ready", "closed"} => (asked = {} <=> result[c] # None)
    /\ pool \in Seq(Jobs)
    /\ \A i, j \in 1..Len(pool) : pool[i].conn = pool[j].conn => i = j
    /\ store \in [Keys -> Values]

\* What runs for a client is exactly what it has asked for, in that order:
\* a command sent outside MULTI, or the commands between MULTI and an EXEC
\* that went on (server.rs:193-211).  Commands of a transaction that was
\* discarded or found its keys changed never run, and no command runs twice.
RunsWhatWasSent ==
    [][RunCommand => LET mine == owed[Head(pool).conn]
                     IN  mine # << >> /\ Head(mine) = Head(pool).cmd]_vars

\* When a request has been answered nothing of it is left to run: EXEC
\* replies after the last of its commands (server.rs:195-196), unless the
\* pool has broken down under it.
AnsweredMeansDone ==
    \A c \in Conns : pc[c] = "ready" /\ ~broken => owed[c] = << >>

\* A task that waits for the pool gets its answer and goes back to its
\* client, or ends; a pool that breaks down while it waits is no exception.
EveryRequestAnswered ==
    \A c \in Conns : pc[c] \in {"command", "watch", "check", "exec"}
                       ~> pc[c] \in {"ready", "closed"}

\* server.rs:270: EXEC finds out if any watched key is no longer what WATCH
\* saw, be it another value, another type or gone.  A hash that is still the
\* same hash is excepted: a change of its fields alone leaves its metadata,
\* and they are all that WATCH and EXEC compare.
WatchDetects ==
    [][RunCheck => LET c == Head(pool).conn
                   IN  result'[c].tag = "unchanged" =>
                         \A k \in DOMAIN seen[c] :
                           \/ store[k] = seen[c][k]
                           \/ /\ store[k].t = "hash" /\ seen[c][k].t = "hash"
                              /\ store[k].ver = seen[c][k].ver]_vars

\* The first command of a transaction that watched keys runs on keys whose
\* metadata are still those WATCH saw: a modification by another connection
\* makes EXEC fail (tests/transactions.rs).
CommitsOnWatchedState ==
    [][RunCommand => LET c == Head(pool).conn
                     IN  pc[c] = "exec" /\ replies[c] = << >> =>
                           \A k \in DOMAIN seen[c] :
                             MetaOf(store[k]) = MetaOf(seen[c][k])]_vars
=============================================================================
