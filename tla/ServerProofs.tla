---------------------------- MODULE ServerProofs ----------------------------
(***************************************************************************)
(* Transactions, for any connections, keys, values, commands and stores:   *)
(* what runs for a client is what it has sent, an answered request is      *)
(* done, and the check of EXEC finds out what WATCH can tell apart.        *)
(***************************************************************************)
EXTENDS Server, TLAPS

Waiting == {"command", "watch", "check", "exec"}

Shape ==
    /\ pc \in [Conns -> Locations] /\ inMulti \in [Conns -> BOOLEAN]
    /\ DOMAIN queued = Conns /\ DOMAIN rest = Conns /\ DOMAIN block = Conns
    /\ DOMAIN owed = Conns /\ DOMAIN watched = Conns /\ DOMAIN seen = Conns
    /\ DOMAIN result = Conns

StoreInv == nextVersion \in Nat /\ store \in [Keys -> Values]

\* What WATCH has kept is what it saw, as far as metadata tell.
HasSnapshot(c) == IF result[c] = None THEN FALSE ELSE result[c].tag = "snapshot"
SeenMetas(c) == [k \in DOMAIN seen[c] |-> MetaOf(seen[c][k])]

WatchOf(c) ==
    /\ DOMAIN watched[c] \subseteq Keys
    /\ pc[c] = "exec" => DOMAIN watched[c] = {}
    /\ pc[c] = "check" => DOMAIN watched[c] # {}
    /\ DOMAIN watched[c] # {} /\ pc[c] \notin {"watch", "closed"} =>
         watched[c] = SeenMetas(c)
    /\ pc[c] = "watch" /\ HasSnapshot(c) => result[c].snapshot = SeenMetas(c)

\* The queue holds what the client has sent since MULTI; nothing is owed to
\* it except, in the middle of EXEC, what execute_queue has left.  (A task
\* that has ended may still have a command in the pool.)
ConnInv(c) ==
    /\ queued[c] \in Seq(Commands[c]) /\ rest[c] \in Seq(Commands[c])
    /\ block[c] = queued[c]
    /\ result[c] # None => result[c] \in Results /\ pc[c] \in Waiting
    /\ WatchOf(c)
    /\ ~broken => /\ pc[c] \notin {"command", "exec", "closed"} => owed[c] = << >>
                  /\ pc[c] = "command" /\ result[c] # None => owed[c] = << >>
                  /\ pc[c] = "exec" /\ result[c] # None => owed[c] = rest[c]

\* A job is the one its connection waits for or, if it is a command, the one
\* it waited for when it ended; a command is the first that is owed.
JobInv(job) ==
    LET c == job.conn
    IN  /\ result[c] = None
        /\ job.kind = "watch" => pc[c] = "watch"
        /\ job.kind = "check" => pc[c] = "check" /\ job.keys = DOMAIN watched[c]
        /\ job.kind = "command" =>
             /\ pc[c] \in {"command", "exec", "closed"} /\ job.cmd \in Commands[c]
             /\ ~broken => owed[c] = IF pc[c] = "exec" THEN <<job.cmd>> \o rest[c]
                                     ELSE <<job.cmd>>

\* Jobs are of different connections, and a connection that waits has a job
\* in the pool or an answer.
PoolInv ==
    /\ pool \in Seq(Jobs)
    /\ closed => broken
    /\ \A i \in 1..Len(pool) : JobInv(pool[i])
    /\ \A i, j \in 1..Len(pool) : pool[i].conn = pool[j].conn => i = j
    /\ \A c \in Conns : pc[c] \in Waiting /\ result[c] = None =>
                          \E i \in 1..Len(pool) : pool[i].conn = c

\* The inductive invariant.
IInv == Shape /\ StoreInv /\ PoolInv /\ \A c \in Conns : ConnInv(c)

USE NoneAssumption

-----------------------------------------------------------------------------
\* Sequences

LEMMA AppendFacts ==
    ASSUME NEW S, NEW q \in Seq(S), NEW x \in S
    PROVE  /\ Append(q, x) \in Seq(S)
           /\ Len(Append(q, x)) = Len(q) + 1
           /\ \A i \in 1..Len(q) : Append(q, x)[i] = q[i]
           /\ Append(q, x)[Len(q) + 1] = x
  OBVIOUS

LEMMA TailFacts ==
    ASSUME NEW S, NEW q \in Seq(S), q # << >>
    PROVE  /\ Head(q) = q[1] /\ Head(q) \in S /\ 1 \in 1..Len(q)
           /\ Tail(q) \in Seq(S)
           /\ Len(Tail(q)) = Len(q) - 1
           /\ \A i \in 1..Len(Tail(q)) : i + 1 \in 1..Len(q) /\ Tail(q)[i] = q[i + 1]
           /\ <<Head(q)>> \o Tail(q) = q
  OBVIOUS

LEMMA ConsFacts ==
    ASSUME NEW S, NEW q \in Seq(S), NEW x \in S
    PROVE  /\ <<x>> \o q \in Seq(S) /\ <<x>> \o q # << >>
           /\ Head(<<x>> \o q) = x /\ Tail(<<x>> \o q) = q
  OBVIOUS

LEMMA OneFacts ==
    ASSUME NEW S, NEW x \in S
    PROVE  /\ <<x>> \in Seq(S) /\ <<x>> # << >>
           /\ Head(<<x>>) = x /\ Tail(<<x>>) = << >>
  OBVIOUS

LEMMA FirstFacts ==
    ASSUME NEW S, NEW q \in Seq(S)
    PROVE  << >> \o q = q /\ \A x : Append(<< >>, x) = <<x>>
  OBVIOUS

-----------------------------------------------------------------------------
\* Types

LEMMA CommandTypes ==
    ASSUME NEW c \in Conns, NEW cmd \in Commands[c]
    PROVE  cmd.op \in Ops /\ cmd.key \in Keys /\ cmd.val \in Vals
  BY CommandsAssumption

LEMMA JobTypes ==
    /\ \A job \in Jobs : /\ job.conn \in Conns
                         /\ job.kind \in {"watch", "check", "command"}
                         /\ job.kind # "command" => job.keys \in SUBSET Keys
    /\ \A c \in Conns : \A cmd \in Commands[c] :
         LET job == [conn |-> c, kind |-> "command", cmd |-> cmd]
         IN  job \in Jobs /\ job.conn = c /\ job.kind = "command" /\ job.cmd = cmd
    /\ \A c \in Conns, ks \in SUBSET Keys, kind \in {"watch", "check"} :
         LET job == [conn |-> c, kind |-> kind, keys |-> ks]
         IN  job \in Jobs /\ job.conn = c /\ job.kind = kind /\ job.keys = ks
  BY DEF Jobs

\* Versions of hashes that are made grow, and old values stay values.
LEMMA ValueTypes ==
    ASSUME nextVersion \in Nat
    PROVE  \A x \in Values :
             /\ x.t \in {"absent", "string", "hash"}
             /\ x.t = "absent" => x = Absent
             /\ x.t = "string" => \E v \in Vals : x = StringOf(v)
             /\ x.t = "hash" =>
                  \E n \in 0..nextVersion, v \in Vals \cup {None} : x = HashOf(n, v)
  BY DEF Values, Absent, StringOf, HashOf

LEMMA MetaTypes ==
    ASSUME nextVersion \in Nat
    PROVE  \A x \in Values : MetaOf(x) \in Metas
<1> SUFFICES ASSUME NEW x \in Values PROVE MetaOf(x) \in Metas
  OBVIOUS
<1>1. CASE x.t = "hash"
  <2>1. PICK n \in 0..nextVersion, v \in Vals \cup {None} : x = HashOf(n, v)
    BY <1>1, ValueTypes
  <2>2. MetaOf(x) = [t |-> "hash", ver |-> n]
    BY <2>1 DEF MetaOf, HashOf
  <2> QED
    BY <2>2 DEF Metas
<1>2. CASE x.t # "hash"
  BY <1>2 DEF MetaOf, Metas, Values, HashOf
<1> QED
  BY <1>1, <1>2

\* Values with the same metadata are the same, or versions of one hash.
LEMMA MetaTells ==
    ASSUME NEW x, NEW y, MetaOf(x) = MetaOf(y)
    PROVE  x = y \/ (x.t = "hash" /\ y.t = "hash" /\ x.ver = y.ver)
  BY DEF MetaOf

LEMMA ApplyTypes ==
    ASSUME StoreInv, NEW c \in Conns, NEW cmd \in Commands[c]
    PROVE  LET done == Apply(cmd, store[cmd.key])
               n == IF Creates(cmd) THEN nextVersion + 1 ELSE nextVersion
           IN  /\ done.reply \in {"wrote", "none", "err"}
               /\ n \in Nat /\ nextVersion <= n
               /\ done.val \in Values
<1> DEFINE x == store[cmd.key]
<1>0. x \in Values /\ cmd.op \in Ops /\ cmd.val \in Vals /\ nextVersion \in Nat
  BY CommandTypes DEF StoreInv
<1>1. x.t \in {"absent", "string", "hash"}
  BY <1>0, ValueTypes
<1>2. CASE cmd.op = "set"
  BY <1>0, <1>2 DEF Apply, Values, Creates
<1>3. CASE cmd.op = "del"
  BY <1>0, <1>1, <1>3 DEF Apply, Values, Creates
<1>4. CASE cmd.op = "hset" /\ x.t = "string"
  BY <1>0, <1>4 DEF Apply, Creates
<1>5. CASE cmd.op = "hset" /\ x.t = "absent"
  <2>1. HashOf(nextVersion, cmd.val) \in Values
    BY <1>0 DEF Values
  <2> QED
    BY <1>0, <1>5, <2>1 DEF Apply, Creates
<1>6. CASE cmd.op = "hset" /\ x.t = "hash"
  <2>1. PICK n \in 0..nextVersion, v \in Vals \cup {None} : x = HashOf(n, v)
    BY <1>0, <1>6, ValueTypes
  <2>2. [x EXCEPT !.v = cmd.val] = HashOf(n, cmd.val)
    BY <2>1 DEF HashOf
  <2>3. HashOf(n, cmd.val) \in Values
    BY <1>0 DEF Values
  <2> QED
    BY <1>0, <1>6, <2>2, <2>3 DEF Apply, Creates
<1> QED
  BY <1>0, <1>1, <1>2, <1>3, <1>4, <1>5, <1>6 DEF Ops

\* Values stay values when the next version grows.
LEMMA ValuesGrow ==
    ASSUME nextVersion \in Nat, nextVersion' \in Nat, nextVersion <= nextVersion'
    PROVE  Values \subseteq Values'
  BY DEF Values

LEMMA StoreKept ==
    ASSUME StoreInv, UNCHANGED storeVars
    PROVE  StoreInv'
<1>1. Values \subseteq Values'
  BY ValuesGrow DEF StoreInv, storeVars
<1> QED
  BY <1>1 DEF StoreInv, storeVars

-----------------------------------------------------------------------------
\* The initial state
LEMMA InitIInv == Init => IInv
<1> SUFFICES ASSUME Init PROVE IInv
  OBVIOUS
<1>1. Shape
  BY Zenon DEF Init, Shape, Locations
<1>2. StoreInv
  BY StoreAssumption DEF Init, StoreInv, Values
<1>3. PoolInv
  <2>1. Len(pool) = 0 /\ pool \in Seq(Jobs)
    BY DEF Init
  <2> QED
    BY <2>1 DEF Init, PoolInv, Waiting
<1>4. ASSUME NEW c \in Conns PROVE ConnInv(c)
  <2>1. << >> \in Seq(Commands[c])
    OBVIOUS
  <2>2. WatchOf(c)
    BY Zenon DEF Init, WatchOf, HasSnapshot, EmptyMap
  <2> QED
    BY <2>1, <2>2 DEF Init, ConnInv
<1> QED
  BY <1>1, <1>2, <1>3, <1>4 DEF IInv

-----------------------------------------------------------------------------
\* A step changes the state of one connection

Only(c) ==
    \A d \in Conns \ {c} :
        /\ pc'[d] = pc[d] /\ queued'[d] = queued[d] /\ rest'[d] = rest[d]
        /\ block'[d] = block[d] /\ owed'[d] = owed[d] /\ result'[d] = result[d]
        /\ watched'[d] = watched[d] /\ seen'[d] = seen[d]

LEMMA OthersKept ==
    ASSUME IInv, NEW c \in Conns, Only(c), ~broken' => ~broken, ConnInv(c)'
    PROVE  \A d \in Conns : ConnInv(d)'
<1> SUFFICES ASSUME NEW d \in Conns, d # c PROVE ConnInv(d)'
  OBVIOUS
<1>1. ConnInv(d)
  BY DEF IInv
<1>2. /\ pc'[d] = pc[d] /\ queued'[d] = queued[d] /\ rest'[d] = rest[d]
      /\ block'[d] = block[d] /\ owed'[d] = owed[d] /\ result'[d] = result[d]
      /\ watched'[d] = watched[d] /\ seen'[d] = seen[d]
  BY DEF Only
<1>3. SeenMetas(d)' = SeenMetas(d) /\ HasSnapshot(d)' = HasSnapshot(d)
  BY <1>2 DEF SeenMetas, HasSnapshot
<1>4. WatchOf(d)'
  BY <1>1, <1>2, <1>3 DEF ConnInv, WatchOf
<1> QED
  BY <1>1, <1>2, <1>4 DEF ConnInv

LEMMA JobKept ==
    ASSUME NEW c \in Conns, Only(c), ~broken' => ~broken,
           NEW job, job.conn \in Conns \ {c}, JobInv(job)
    PROVE  JobInv(job)'
  BY DEF Only, JobInv

\* It has no job in the pool.
Free(c) == pc[c] = "ready" \/ result[c] # None

LEMMA FreeHasNoJob ==
    ASSUME PoolInv
    PROVE  \A i \in 1..Len(pool) :
             /\ pool[i] \in Jobs /\ pool[i].conn \in Conns /\ ~Free(pool[i].conn)
<1> SUFFICES ASSUME NEW i \in 1..Len(pool)
             PROVE  pool[i] \in Jobs /\ pool[i].conn \in Conns /\ ~Free(pool[i].conn)
  OBVIOUS
<1>1. pool[i] \in Jobs /\ JobInv(pool[i])
  BY DEF PoolInv
<1>2. pool[i].conn \in Conns /\ pool[i].kind \in {"watch", "check", "command"}
  BY <1>1, JobTypes
<1> QED
  BY <1>1, <1>2 DEF JobInv, Free, Waiting

\* The pool stays as it is: the connection answers its client itself, or
\* takes an answer and waits for no other.
LEMMA SettleStep ==
    ASSUME IInv, NEW c \in Conns, Free(c), Only(c), Shape', ConnInv(c)',
           pc'[c] \in {"ready", "closed"},
           UNCHANGED <<pool, broken, closed>>, UNCHANGED storeVars
    PROVE  IInv'
<1>1. \A i \in 1..Len(pool) : pool[i].conn \in Conns \ {c} /\ JobInv(pool[i])
  BY FreeHasNoJob DEF IInv, PoolInv
<1>2. (\A i \in 1..Len(pool) : JobInv(pool[i]))'
  <2> SUFFICES ASSUME NEW i \in 1..Len(pool') PROVE JobInv(pool[i])'
    OBVIOUS
  <2>1. PICK job : job = pool[i]
    OBVIOUS
  <2>2. JobInv(job)' /\ pool'[i] = job
    BY <1>1, <2>1, JobKept
  <2> QED
    BY <2>2 DEF JobInv
<1>3. ASSUME NEW d \in Conns, pc'[d] \in Waiting, result'[d] = None
      PROVE  \E i \in 1..Len(pool') : pool'[i].conn = d
  BY <1>3 DEF IInv, PoolInv, Only, Waiting
<1>4. PoolInv'
  BY <1>2, <1>3 DEF IInv, PoolInv
<1>5. \A d \in Conns : ConnInv(d)'
  BY OthersKept
<1> QED
  BY <1>4, <1>5, StoreKept DEF IInv

\* ThreadPool::spawn
LEMMA SpawnStep ==
    ASSUME IInv, NEW c \in Conns, Free(c), Only(c), Shape', ConnInv(c)',
           NEW job \in Jobs, job.conn = c, NEW location \in Waiting, Spawn(c, job, location),
           result'[c] = None, ~closed => JobInv(job)', UNCHANGED storeVars
    PROVE  IInv'
<1>0. UNCHANGED <<broken, closed>>
  BY DEF Spawn
<1>1. CASE closed
  <2>1. pc'[c] = "closed" /\ UNCHANGED pool
    BY <1>1 DEF Spawn, IInv, Shape
  <2> QED
    BY <1>0, <2>1, SettleStep
<1>2. CASE ~closed
  <2>0. /\ pool' = Append(pool, job) /\ pool \in Seq(Jobs) /\ Len(pool) \in Nat
    BY <1>2 DEF Spawn, IInv, PoolInv
  <2>1. /\ pool' \in Seq(Jobs) /\ Len(pool') = Len(pool) + 1
        /\ \A i \in 1..Len(pool) : pool'[i] = pool[i]
        /\ pool'[Len(pool) + 1] = job
    BY <2>0, AppendFacts
  <2>2. \A i \in 1..Len(pool') : i \in 1..Len(pool) \/ i = Len(pool) + 1
    BY <2>0, <2>1
  <2>3. \A i \in 1..Len(pool) : pool[i].conn \in Conns \ {c} /\ JobInv(pool[i])
    BY FreeHasNoJob DEF IInv, PoolInv
  <2>4. (\A i \in 1..Len(pool) : JobInv(pool[i]))'
    <3> SUFFICES ASSUME NEW i \in 1..Len(pool') PROVE JobInv(pool[i])'
      OBVIOUS
    <3>1. PICK a : a = pool'[i]
      OBVIOUS
    <3>2. CASE i \in 1..Len(pool)
      <4>1. JobInv(a)'
        BY <1>0, <2>1, <2>3, <3>1, <3>2, JobKept
      <4> QED
        BY <3>1, <4>1 DEF JobInv
    <3>3. CASE i = Len(pool) + 1
      <4>1. JobInv(a)'
        BY <1>2, <2>1, <3>1, <3>3
      <4> QED
        BY <3>1, <4>1 DEF JobInv
    <3> QED
      BY <2>2, <3>2, <3>3
  <2>5. \A i, j \in 1..Len(pool') : pool'[i].conn = pool'[j].conn => i = j
    BY <2>1, <2>2, <2>3 DEF IInv, PoolInv
  <2>6. ASSUME NEW d \in Conns, pc'[d] \in Waiting, result'[d] = None
        PROVE  \E i \in 1..Len(pool') : pool'[i].conn = d
    <3>1. CASE d = c
      <4>1. Len(pool) + 1 \in 1..Len(pool')
        BY <2>0, <2>1
      <4> QED
        BY <2>1, <3>1, <4>1
    <3>2. CASE d # c
      <4>1. PICK i \in 1..Len(pool) : pool[i].conn = d
        BY <2>6, <3>2 DEF IInv, PoolInv, Only
      <4>2. i \in 1..Len(pool')
        BY <2>0, <2>1
      <4> QED
        BY <2>1, <4>1, <4>2
    <3> QED
      BY <3>1, <3>2
  <2>7. PoolInv'
    BY <1>0, <2>1, <2>4, <2>5, <2>6 DEF IInv, PoolInv
  <2>8. \A d \in Conns : ConnInv(d)'
    BY <1>0, OthersKept
  <2> QED
    BY <2>7, <2>8, StoreKept DEF IInv
<1> QED
  BY <1>1, <1>2

\* The pool answers its oldest job.
LEMMA AnswerStep ==
    ASSUME IInv, pool # << >>, NEW c \in Conns, Head(pool).conn = c,
           pool' = Tail(pool), UNCHANGED <<pc, closed>>, result'[c] # None \/ pc[c] = "closed",
           Only(c), Shape', ConnInv(c)', ~broken' => ~broken, StoreInv'
    PROVE  IInv'
<1>1. pool \in Seq(Jobs) /\ Len(pool) \in Nat
  BY DEF IInv, PoolInv
<1>2. /\ Head(pool) = pool[1] /\ 1 \in 1..Len(pool)
      /\ pool' \in Seq(Jobs) /\ Len(pool') = Len(pool) - 1
      /\ \A i \in 1..Len(pool') : i + 1 \in 1..Len(pool) /\ pool'[i] = pool[i + 1]
  BY <1>1, TailFacts
<1>3. ASSUME NEW i \in 1..Len(pool')
      PROVE  JobInv(pool[i])'
  <2>1. PICK a : a = pool[i + 1]
    OBVIOUS
  <2>2. i + 1 \in 1..Len(pool) /\ pool'[i] = a /\ i + 1 # 1
    BY <1>2, <2>1
  <2>3. JobInv(a) /\ a.conn \in Conns /\ a.conn # c
    BY <1>2, <2>1, <2>2, FreeHasNoJob DEF IInv, PoolInv
  <2>4. JobInv(a)'
    BY <2>3, JobKept
  <2> QED
    BY <2>2, <2>4 DEF JobInv
<1>4. \A i, j \in 1..Len(pool') : pool'[i].conn = pool'[j].conn => i = j
  <2> SUFFICES ASSUME NEW i \in 1..Len(pool'), NEW j \in 1..Len(pool'),
                      pool'[i].conn = pool'[j].conn
               PROVE  i = j
    BY Zenon
  <2>1. /\ i + 1 \in 1..Len(pool) /\ pool'[i] = pool[i + 1]
        /\ j + 1 \in 1..Len(pool) /\ pool'[j] = pool[j + 1]
    BY <1>2
  <2>2. i + 1 = j + 1
    BY <2>1 DEF IInv, PoolInv
  <2> QED
    BY <2>2
<1>5. ASSUME NEW d \in Conns, pc'[d] \in Waiting, result'[d] = None
      PROVE  \E i \in 1..Len(pool') : pool'[i].conn = d
  <2>1. d # c /\ result[d] = None /\ pc[d] \in Waiting
    BY <1>5 DEF Only, Waiting
  <2>2. PICK i \in 1..Len(pool) : pool[i].conn = d
    BY <2>1 DEF IInv, PoolInv
  <2>3. i # 1
    BY <1>2, <2>1, <2>2
  <2>4. i - 1 \in 1..Len(pool') /\ (i - 1) + 1 = i
    BY <1>1, <1>2, <2>3
  <2>5. pool'[i - 1] = pool[i]
    BY <1>2, <2>4
  <2> QED
    BY <2>2, <2>4, <2>5
<1>6. closed' => broken'
  BY DEF IInv, PoolInv
<1>7. PoolInv'
  BY <1>2, <1>3, <1>4, <1>5, <1>6 DEF PoolInv
<1>8. \A d \in Conns : ConnInv(d)'
  BY OthersKept
<1> QED
  BY <1>7, <1>8 DEF IInv

-----------------------------------------------------------------------------
\* Steps of a connection that need no job

LEMMA WatchKept ==
    ASSUME NEW c \in Conns, WatchOf(c), pc[c] \notin {"watch", "closed"} \/ pc'[c] = "closed",
           watched'[c] = watched[c], seen'[c] = seen[c], result'[c] = None,
           pc'[c] = "exec" => DOMAIN watched[c] = {},
           pc'[c] = "check" => DOMAIN watched[c] # {}
    PROVE  WatchOf(c)'
  BY DEF WatchOf, SeenMetas, HasSnapshot

LEMMA WatchCleared ==
    ASSUME NEW c \in Conns, watched'[c] = EmptyMap, result'[c] = None, pc'[c] # "check"
    PROVE  WatchOf(c)'
<1>1. DOMAIN EmptyMap = {}
  BY DEF EmptyMap
<1> QED
  BY <1>1 DEF WatchOf, HasSnapshot

\* A client that is being read from waits for nothing.
LEMMA ReadyFacts ==
    ASSUME IInv, NEW c \in Conns, pc[c] = "ready"
    PROVE  /\ Free(c) /\ result[c] = None /\ ConnInv(c) /\ WatchOf(c)
           /\ queued[c] \in Seq(Commands[c]) /\ rest[c] \in Seq(Commands[c])
           /\ block[c] = queued[c]
           /\ ~broken => owed[c] = << >>
  BY DEF IInv, ConnInv, Free, Waiting

LEMMA LocalPreserves ==
    ASSUME IInv, NEW c \in Conns, Rejected(c) \/ Multi(c) \/ Discard(c) \/ Disconnect(c)
    PROVE  IInv'
<1>0. pc[c] = "ready"
  BY DEF Rejected, Multi, Discard, Disconnect, Request
<1>1. UNCHANGED <<pool, broken, closed>> /\ UNCHANGED storeVars
  BY DEF Rejected, Multi, Discard, Disconnect, poolVars
<1>2. Shape'
  BY Zenon DEF IInv, Shape, Locations, Rejected, Multi, Discard, Disconnect, Reset, poolVars
<1>3. /\ Only(c) /\ pc'[c] \in {"ready", "closed"} /\ rest'[c] = rest[c] /\ owed'[c] = owed[c]
      /\ result'[c] = result[c]
      /\ \/ queued'[c] = queued[c] /\ block'[c] = block[c] /\ watched'[c] = watched[c]
            /\ seen'[c] = seen[c]
         \/ queued'[c] = << >> /\ block'[c] = << >> /\ watched'[c] = EmptyMap
  BY <1>0 DEF IInv, Shape, Only, Rejected, Multi, Discard, Disconnect, Reset, poolVars
<1>4. WatchOf(c)'
  BY <1>0, <1>3, ReadyFacts, WatchKept, WatchCleared
<1>5. ConnInv(c)'
  <2>1. << >> \in Seq(Commands[c])
    OBVIOUS
  <2> QED
    BY Zenon, <1>0, <1>1, <1>3, <1>4, <2>1, ReadyFacts DEF ConnInv
<1> QED
  BY <1>0, <1>1, <1>2, <1>3, <1>5, ReadyFacts, SettleStep

LEMMA EnqueuePreserves ==
    ASSUME IInv, NEW c \in Conns, NEW cmd \in Commands[c], Enqueue(c, cmd)
    PROVE  IInv'
<1>0. pc[c] = "ready"
  BY DEF Enqueue, Request
<1>1. Shape' /\ UNCHANGED <<pool, broken, closed>> /\ UNCHANGED storeVars
  BY DEF IInv, Shape, Enqueue, poolVars
<1>2. /\ Only(c) /\ pc'[c] = "ready" /\ rest'[c] = rest[c] /\ owed'[c] = owed[c]
      /\ result'[c] = result[c] /\ watched'[c] = watched[c] /\ seen'[c] = seen[c]
      /\ queued'[c] = Append(queued[c], cmd) /\ block'[c] = Append(block[c], cmd)
  BY <1>0 DEF IInv, Shape, Only, Enqueue, poolVars
<1>3. Append(queued[c], cmd) \in Seq(Commands[c])
  BY Zenon, <1>0, ReadyFacts, AppendFacts
<1>4. WatchOf(c)'
  BY <1>0, <1>2, ReadyFacts, WatchKept
<1>5. ConnInv(c)'
  BY <1>0, <1>1, <1>2, <1>3, <1>4, ReadyFacts DEF ConnInv
<1> QED
  BY <1>0, <1>1, <1>2, <1>5, ReadyFacts, SettleStep

\* A connection that takes its answer: nothing is owed to it for a WATCH, a
\* check or a command, and what is left of its queue in the middle of EXEC.
LEMMA AnsweredFacts ==
    ASSUME IInv, NEW c \in Conns, NEW location \in Waiting, Answered(c, location)
    PROVE  /\ Free(c) /\ pc[c] = location /\ result[c] \in Results /\ result'[c] = None
           /\ DOMAIN result' = Conns /\ \A d \in Conns \ {c} : result'[d] = result[d]
           /\ ConnInv(c) /\ WatchOf(c)
           /\ queued[c] \in Seq(Commands[c]) /\ rest[c] \in Seq(Commands[c])
           /\ block[c] = queued[c]
           /\ ~broken => owed[c] = IF location = "exec" THEN rest[c] ELSE << >>
  BY Zenon DEF IInv, Shape, Answered, ConnInv, Free, Waiting

LEMMA DonePreserves ==
    ASSUME IInv, NEW c \in Conns,
           CommandDone(c) \/ WatchDone(c) \/ ExecNull(c) \/ HandlerFails(c)
    PROVE  IInv'
<1>0. PICK location \in {"command", "watch", "check"} : Answered(c, location)
  BY Zenon DEF CommandDone, WatchDone, ExecNull, HandlerFails
<1>1. /\ location \in Waiting /\ location # "exec" /\ result[c] \in Results
      /\ Free(c) /\ pc[c] = location /\ result'[c] = None
      /\ DOMAIN result' = Conns /\ \A e \in Conns \ {c} : result'[e] = result[e]
      /\ WatchOf(c) /\ queued[c] \in Seq(Commands[c]) /\ rest[c] \in Seq(Commands[c])
      /\ block[c] = queued[c] /\ (~broken => owed[c] = << >>)
  BY <1>0, AnsweredFacts DEF Waiting
<1>2. UNCHANGED <<pool, broken, closed>> /\ UNCHANGED storeVars
  BY Zenon DEF CommandDone, WatchDone, ExecNull, HandlerFails
<1>3. Shape'
  <2>1. pc' \in [Conns -> Locations] /\ inMulti' \in [Conns -> BOOLEAN]
    BY Zenon DEF IInv, Shape, Locations, CommandDone, WatchDone, ExecNull, HandlerFails, Reset
  <2> QED
    BY <1>1, <2>1
       DEF IInv, Shape, CommandDone, WatchDone, ExecNull, HandlerFails, Reset
<1>4. /\ Only(c) /\ pc'[c] \in {"ready", "closed"} /\ rest'[c] = rest[c] /\ owed'[c] = owed[c]
      /\ \/ queued'[c] = queued[c] /\ block'[c] = block[c]
         \/ queued'[c] = << >> /\ block'[c] = << >>
  BY <1>1
     DEF IInv, Shape, Only, CommandDone, WatchDone, ExecNull, HandlerFails, Reset
<1>5. WatchOf(c)'
  <2>1. CASE CommandDone(c)
    <3>1. pc[c] = "command" /\ pc'[c] = "ready" /\ watched'[c] = watched[c] /\ seen'[c] = seen[c]
      BY Zenon, <2>1 DEF IInv, Shape, CommandDone, Answered
    <3> QED
      BY Zenon, <1>1, <3>1, WatchKept
  <2>2. CASE WatchDone(c)
    <3>1. /\ pc[c] = "watch" /\ pc'[c] = "ready" /\ watched'[c] = result[c].snapshot
          /\ seen'[c] = seen[c] /\ result[c].tag = "snapshot" /\ result[c] # None
      BY Zenon, <2>2 DEF IInv, Shape, WatchDone, Answered
    <3>2. watched'[c] = SeenMetas(c) /\ SeenMetas(c)' = SeenMetas(c)
      BY Zenon, <1>1, <3>1 DEF WatchOf, HasSnapshot, SeenMetas
    <3>3. DOMAIN result[c].snapshot \subseteq Keys
      BY <1>1, <3>1 DEF Results
    <3> QED
      BY Zenon, <1>1, <3>1, <3>2, <3>3 DEF WatchOf, HasSnapshot
  <2>3. CASE ExecNull(c)
    BY Zenon, <1>1, <1>4, <2>3, WatchCleared DEF IInv, Shape, ExecNull, Reset
  <2>4. CASE HandlerFails(c)
    <3>1. pc'[c] = "closed" /\ watched'[c] = watched[c] /\ seen'[c] = seen[c]
      BY Zenon, <2>4 DEF IInv, Shape, HandlerFails
    <3> QED
      BY Zenon, <1>1, <3>1, WatchKept
  <2> QED
    BY Zenon, <2>1, <2>2, <2>3, <2>4
<1>6. ConnInv(c)'
  <2>1. << >> \in Seq(Commands[c])
    OBVIOUS
  <2> QED
    BY Zenon, <1>1, <1>2, <1>4, <1>5, <2>1 DEF ConnInv
<1> QED
  BY Zenon, <1>1, <1>2, <1>3, <1>4, <1>6, SettleStep

\* A task that ends while it waits leaves its command to the pool.
LEMMA LeavePreserves ==
    ASSUME IInv, NEW c \in Conns, MessageFails(c)
    PROVE  IInv'
<1>1. /\ pc[c] = "command" /\ pc'[c] = "closed" /\ result'[c] = None
      /\ UNCHANGED <<pool, broken, closed>> /\ UNCHANGED storeVars
      /\ queued'[c] = queued[c] /\ rest'[c] = rest[c] /\ block'[c] = block[c]
      /\ owed'[c] = owed[c] /\ watched'[c] = watched[c] /\ seen'[c] = seen[c]
  BY DEF MessageFails, IInv, Shape
<1>2. Shape' /\ Only(c)
  BY DEF MessageFails, IInv, Shape, Only, Locations
<1>3. ConnInv(c) /\ WatchOf(c)
  BY DEF IInv, ConnInv
<1>4. WatchOf(c)'
  BY Zenon, <1>1, <1>3, WatchKept
<1>5. ConnInv(c)'
  BY Zenon, <1>1, <1>3, <1>4 DEF ConnInv
<1>6. \A d \in Conns : ConnInv(d)'
  BY Zenon, <1>1, <1>2, <1>5, OthersKept
<1>7. ASSUME NEW i \in 1..Len(pool')
      PROVE  JobInv(pool[i])'
  <2>1. PICK a : a = pool[i]
    OBVIOUS
  <2>2. pool'[i] = a /\ JobInv(a) /\ a.conn \in Conns /\ a.kind \in {"watch", "check", "command"}
    BY <1>1, <2>1, JobTypes DEF IInv, PoolInv
  <2>3. CASE a.conn # c
    <3>1. JobInv(a)'
      BY Zenon, <1>1, <1>2, <2>2, <2>3, JobKept
    <3> QED
      BY <2>2, <3>1 DEF JobInv
  <2>4. CASE a.conn = c
    <3>1. JobInv(a)'
      BY <1>1, <2>2, <2>4 DEF JobInv
    <3> QED
      BY <2>2, <3>1 DEF JobInv
  <2> QED
    BY Zenon, <2>3, <2>4
<1>8. ASSUME NEW d \in Conns, pc'[d] \in Waiting, result'[d] = None
      PROVE  \E i \in 1..Len(pool') : pool'[i].conn = d
  BY <1>1, <1>2, <1>8 DEF IInv, PoolInv, Only, Waiting
<1>9. PoolInv'
  BY <1>1, <1>7, <1>8 DEF IInv, PoolInv
<1> QED
  BY Zenon, <1>1, <1>2, <1>6, <1>9, StoreKept DEF IInv

-----------------------------------------------------------------------------
\* Steps of a connection that hand a job to the pool

\* Only the location of the connection changes; on a closed pool its end.
LEMMA SpawnFacts ==
    ASSUME IInv, NEW c \in Conns, NEW job, NEW location \in Waiting, Spawn(c, job, location)
    PROVE  /\ pc' \in [Conns -> Locations] /\ \A d \in Conns \ {c} : pc'[d] = pc[d]
           /\ pc'[c] = IF closed THEN "closed" ELSE location
           /\ UNCHANGED <<broken, closed>>
           /\ closed => broken
  BY Zenon DEF Spawn, IInv, Shape, PoolInv, Waiting, Locations

\* The state of a connection that has spawned a command.
LEMMA CommandSpawned ==
    ASSUME IInv, NEW c \in Conns, Free(c), Only(c), Shape', NEW cmd \in Commands[c],
           NEW location \in {"command", "exec"},
           Spawn(c, [conn |-> c, kind |-> "command", cmd |-> cmd], location),
           result'[c] = None, UNCHANGED storeVars, WatchOf(c)',
           queued'[c] \in Seq(Commands[c]), rest'[c] \in Seq(Commands[c]),
           block'[c] = queued'[c],
           ~broken => owed'[c] = IF location = "exec" THEN <<cmd>> \o rest'[c] ELSE <<cmd>>
    PROVE  IInv'
<1>1. location \in Waiting
  BY DEF Waiting
<1>2. /\ pc'[c] = IF closed THEN "closed" ELSE location
      /\ UNCHANGED <<broken, closed>>
      /\ closed => broken
  BY Zenon, <1>1, SpawnFacts
<1>3. ConnInv(c)'
  BY Zenon, <1>2 DEF ConnInv
<1>4. PICK job : job = [conn |-> c, kind |-> "command", cmd |-> cmd]
  BY Zenon
<1>5. job \in Jobs /\ job.conn = c /\ job.kind = "command" /\ job.cmd = cmd
  BY Zenon, <1>4, JobTypes
<1>6. ~closed => JobInv(job)'
  BY <1>2, <1>5 DEF JobInv
<1> QED
  BY Zenon, <1>1, <1>3, <1>4, <1>5, <1>6, SpawnStep

LEMMA CommandPreserves ==
    ASSUME IInv, NEW c \in Conns, NEW cmd \in Commands[c], Command(c, cmd)
    PROVE  IInv'
<1>0. pc[c] = "ready" /\ UNCHANGED storeVars
  BY DEF Command, Request
<1>1. "command" \in Waiting /\ Spawn(c, [conn |-> c, kind |-> "command", cmd |-> cmd], "command")
  BY Zenon DEF Command, Waiting
<1>2. Shape' /\ Only(c)
  BY <1>1, SpawnFacts DEF IInv, Shape, Only, Command
<1>3. /\ rest'[c] = rest[c] /\ result'[c] = result[c] /\ watched'[c] = watched[c]
      /\ seen'[c] = seen[c] /\ queued'[c] = queued[c] /\ block'[c] = block[c]
      /\ owed'[c] = Append(owed[c], cmd)
  BY Zenon DEF IInv, Shape, Command
<1>4. WatchOf(c)'
  BY Zenon, <1>0, <1>1, <1>3, SpawnFacts, ReadyFacts, WatchKept
<1>5. ~broken => owed'[c] = <<cmd>>
  BY Zenon, <1>0, <1>3, ReadyFacts, FirstFacts
<1> QED
  BY Zenon, <1>0, <1>1, <1>2, <1>3, <1>4, <1>5, ReadyFacts, CommandSpawned

\* WATCH, and EXEC with watched keys
LEMMA AskPreserves ==
    ASSUME IInv, NEW c \in Conns,
           (\E keys \in SUBSET Keys : Watch(c, keys)) \/ ExecWatched(c)
    PROVE  IInv'
<1>0. pc[c] = "ready" /\ UNCHANGED storeVars
  BY Zenon DEF Watch, ExecWatched, Request
<1>1. PICK kind \in {"watch", "check"}, keys \in SUBSET Keys :
        /\ Spawn(c, [conn |-> c, kind |-> kind, keys |-> keys], kind)
        /\ kind = "check" => keys = DOMAIN watched[c] /\ DOMAIN watched[c] # {}
  BY Zenon, <1>0, ReadyFacts DEF Watch, ExecWatched, WatchOf
<1>2. kind \in Waiting
  BY DEF Waiting
<1>3. Shape' /\ Only(c)
  BY Zenon, <1>1, <1>2, SpawnFacts DEF IInv, Shape, Only, Watch, ExecWatched
<1>4. /\ rest'[c] = rest[c] /\ result'[c] = result[c] /\ watched'[c] = watched[c]
      /\ seen'[c] = seen[c] /\ queued'[c] = queued[c] /\ block'[c] = block[c]
      /\ owed'[c] = owed[c]
  BY Zenon DEF Watch, ExecWatched
<1>5. /\ pc'[c] = IF closed THEN "closed" ELSE kind
      /\ UNCHANGED <<broken, closed>>
      /\ closed => broken
  BY Zenon, <1>1, <1>2, SpawnFacts
<1>6. WatchOf(c)'
  BY Zenon, <1>0, <1>1, <1>4, <1>5, ReadyFacts, WatchKept
<1>7. ConnInv(c)'
  BY Zenon, <1>0, <1>4, <1>5, <1>6, ReadyFacts DEF ConnInv
<1>8. PICK job : job = [conn |-> c, kind |-> kind, keys |-> keys]
  BY Zenon
<1>9. job \in Jobs /\ job.conn = c /\ job.kind = kind /\ job.keys = keys
  BY Zenon, <1>8, JobTypes
<1>10. ~closed => JobInv(job)'
  BY Zenon, <1>0, <1>1, <1>4, <1>5, <1>9, ReadyFacts DEF JobInv
<1> QED
  BY Zenon, <1>0, <1>1, <1>2, <1>3, <1>4, <1>7, <1>8, <1>9, <1>10, ReadyFacts, SpawnStep

\* EXEC owes the client its block and spawns the first command of the queue.
LEMMA BeginExecPreserves ==
    ASSUME IInv, NEW c \in Conns, BeginExec(c), Free(c), UNCHANGED storeVars,
           DOMAIN result' = Conns, \A d \in Conns \ {c} : result'[d] = result[d],
           DOMAIN seen' = Conns, \A d \in Conns \ {c} : seen'[d] = seen[d],
           result'[c] = None, queued[c] \in Seq(Commands[c]), block[c] = queued[c],
           ~broken => owed[c] = << >>
    PROVE  IInv'
<1>0. << >> \in Seq(Commands[c])
  OBVIOUS
<1>1. /\ queued'[c] = << >> /\ block'[c] = << >> /\ watched'[c] = EmptyMap
      /\ owed'[c] = owed[c] \o block[c]
      /\ rest'[c] = IF queued[c] = << >> THEN << >> ELSE Tail(queued[c])
  BY Zenon DEF IInv, Shape, BeginExec, Reset
<1>2. inMulti' \in [Conns -> BOOLEAN]
  BY Zenon DEF IInv, Shape, BeginExec, Reset
<1>3. /\ DOMAIN queued' = Conns /\ DOMAIN rest' = Conns /\ DOMAIN block' = Conns
      /\ DOMAIN owed' = Conns /\ DOMAIN watched' = Conns
      /\ \A d \in Conns \ {c} :
           /\ queued'[d] = queued[d] /\ rest'[d] = rest[d] /\ block'[d] = block[d]
           /\ owed'[d] = owed[d] /\ watched'[d] = watched[d]
  BY DEF IInv, Shape, BeginExec, Reset
<1>4. ~broken => owed'[c] = queued[c]
  BY Zenon, <1>1, FirstFacts
<1>5. CASE queued[c] = << >>
  <2>1. pc' = [pc EXCEPT ![c] = "ready"] /\ UNCHANGED <<pool, broken, closed>>
    BY Zenon, <1>5 DEF BeginExec
  <2>2. Shape' /\ Only(c) /\ pc'[c] = "ready"
    BY Zenon, <1>2, <1>3, <2>1 DEF IInv, Shape, Only, Locations
  <2>3. WatchOf(c)'
    BY Zenon, <1>1, <2>2, WatchCleared
  <2>4. ConnInv(c)'
    BY Zenon, <1>0, <1>1, <1>4, <1>5, <2>1, <2>2, <2>3 DEF ConnInv
  <2> QED
    BY <2>1, <2>2, <2>4, SettleStep
<1>6. CASE queued[c] # << >>
  <2>1. PICK cmd : cmd = Head(queued[c])
    OBVIOUS
  <2>2. /\ cmd \in Commands[c] /\ <<cmd>> \o Tail(queued[c]) = queued[c]
        /\ rest'[c] = Tail(queued[c]) /\ rest'[c] \in Seq(Commands[c])
    BY Zenon, <1>1, <1>6, <2>1, TailFacts
  <2>3. Spawn(c, [conn |-> c, kind |-> "command", cmd |-> cmd], "exec") /\ "exec" \in Waiting
    BY Zenon, <1>6, <2>1 DEF BeginExec, Waiting
  <2>4. Shape' /\ Only(c) /\ pc'[c] # "check"
    BY <1>2, <1>3, <2>3, SpawnFacts DEF Shape, Only
  <2>5. WatchOf(c)'
    BY Zenon, <1>1, <2>4, WatchCleared
  <2> QED
    BY Zenon, <1>0, <1>1, <1>4, <2>2, <2>3, <2>4, <2>5, CommandSpawned
<1> QED
  BY <1>5, <1>6

LEMMA ExecPreserves ==
    ASSUME IInv, NEW c \in Conns, ExecUnwatched(c) \/ ExecGoesOn(c)
    PROVE  IInv'
<1>1. CASE ExecUnwatched(c)
  <2>1. pc[c] = "ready" /\ BeginExec(c) /\ UNCHANGED storeVars /\ UNCHANGED result
    BY Zenon, <1>1 DEF ExecUnwatched, Request
  <2>2. /\ DOMAIN result' = Conns /\ \A d \in Conns \ {c} : result'[d] = result[d]
        /\ DOMAIN seen' = Conns /\ \A d \in Conns \ {c} : seen'[d] = seen[d]
    BY <1>1, <2>1 DEF IInv, Shape, ExecUnwatched
  <2> QED
    BY Zenon, <2>1, <2>2, ReadyFacts, BeginExecPreserves
<1>2. CASE ExecGoesOn(c)
  <2>1. /\ Answered(c, "check") /\ "check" \in Waiting /\ BeginExec(c)
        /\ UNCHANGED storeVars /\ UNCHANGED seen
    BY <1>2 DEF ExecGoesOn, Waiting
  <2>2. DOMAIN seen' = Conns /\ \A d \in Conns \ {c} : seen'[d] = seen[d]
    BY <2>1 DEF IInv, Shape
  <2> QED
    BY <2>1, <2>2, AnsweredFacts, BeginExecPreserves
<1> QED
  BY <1>1, <1>2

LEMMA ContinuePreserves ==
    ASSUME IInv, NEW c \in Conns, ExecContinues(c)
    PROVE  IInv'
<1>0. /\ UNCHANGED storeVars /\ Free(c) /\ pc[c] = "exec" /\ result'[c] = None
      /\ DOMAIN result' = Conns /\ \A e \in Conns \ {c} : result'[e] = result[e]
      /\ WatchOf(c) /\ queued[c] \in Seq(Commands[c]) /\ rest[c] \in Seq(Commands[c])
      /\ block[c] = queued[c] /\ (~broken => owed[c] = rest[c])
  <2>1. Answered(c, "exec") /\ "exec" \in Waiting /\ UNCHANGED storeVars
    BY Zenon DEF ExecContinues, Waiting
  <2> QED
    BY <2>1, AnsweredFacts
<1>1. /\ queued'[c] = queued[c] /\ block'[c] = block[c] /\ watched'[c] = watched[c]
      /\ owed'[c] = owed[c]
      /\ DOMAIN watched[c] = {}
  BY Zenon, <1>0 DEF ExecContinues, WatchOf
<1>2. /\ inMulti' \in [Conns -> BOOLEAN] /\ DOMAIN queued' = Conns /\ DOMAIN block' = Conns
      /\ DOMAIN owed' = Conns /\ DOMAIN watched' = Conns /\ DOMAIN seen' = Conns
      /\ \A d \in Conns \ {c} :
           /\ queued'[d] = queued[d] /\ block'[d] = block[d] /\ owed'[d] = owed[d]
           /\ watched'[d] = watched[d] /\ seen'[d] = seen[d]
  BY Zenon DEF ExecContinues, IInv, Shape
<1>3. ASSUME pc'[c] # "check" PROVE WatchOf(c)'
  BY Zenon, <1>0, <1>1, <1>3 DEF WatchOf, HasSnapshot
<1>4. CASE rest[c] = << >>
  <2>1. pc' = [pc EXCEPT ![c] = "ready"] /\ UNCHANGED <<pool, broken, closed, rest>>
    BY <1>4 DEF ExecContinues
  <2>2. Shape' /\ Only(c) /\ pc'[c] = "ready" /\ rest'[c] = rest[c]
    BY <1>0, <1>2, <2>1 DEF IInv, Shape, Only, Locations
  <2>3. ConnInv(c)'
    BY Zenon, <1>0, <1>1, <1>3, <1>4, <2>1, <2>2 DEF ConnInv
  <2> QED
    BY Zenon, <1>0, <2>1, <2>2, <2>3, SettleStep
<1>5. CASE rest[c] # << >>
  <2>1. PICK cmd : cmd = Head(rest[c])
    BY Zenon
  <2>2. /\ DOMAIN rest' = Conns /\ \A d \in Conns \ {c} : rest'[d] = rest[d]
        /\ rest'[c] = Tail(rest[c])
    BY <1>5 DEF ExecContinues, IInv, Shape
  <2>3. cmd \in Commands[c] /\ <<cmd>> \o rest'[c] = rest[c] /\ rest'[c] \in Seq(Commands[c])
    <3>1. /\ Head(rest[c]) \in Commands[c] /\ Tail(rest[c]) \in Seq(Commands[c])
          /\ <<Head(rest[c])>> \o Tail(rest[c]) = rest[c]
      BY Zenon, <1>0, <1>5, TailFacts
    <3> QED
      BY Zenon, <2>1, <2>2, <3>1
  <2>4. Spawn(c, [conn |-> c, kind |-> "command", cmd |-> cmd], "exec") /\ "exec" \in Waiting
    BY <1>5, <2>1 DEF ExecContinues, Waiting
  <2>5. /\ pc' \in [Conns -> Locations] /\ \A d \in Conns \ {c} : pc'[d] = pc[d]
        /\ pc'[c] # "check"
    BY <2>4, SpawnFacts
  <2>6. Shape' /\ Only(c)
    BY Zenon, <1>0, <1>2, <2>2, <2>5 DEF Shape, Only
  <2> QED
    BY Zenon, <1>0, <1>1, <1>3, <2>3, <2>4, <2>5, <2>6, CommandSpawned
<1> QED
  BY Zenon, <1>4, <1>5

-----------------------------------------------------------------------------
\* Steps of the pool

LEMMA HeadFacts ==
    ASSUME IInv, pool # << >>
    PROVE  /\ Head(pool) \in Jobs /\ JobInv(Head(pool))
           /\ Head(pool).conn \in Conns /\ ConnInv(Head(pool).conn)
           /\ Head(pool).kind \in {"watch", "check", "command"}
<1>1. Head(pool) = pool[1] /\ Head(pool) \in Jobs /\ 1 \in 1..Len(pool)
  BY TailFacts DEF IInv, PoolInv
<1>2. JobInv(pool[1])
  BY <1>1 DEF IInv, PoolInv
<1>3. \A job \in Jobs : job.conn \in Conns /\ job.kind \in {"watch", "check", "command"}
  BY Zenon, JobTypes
<1>4. Head(pool).conn \in Conns /\ Head(pool).kind \in {"watch", "check", "command"}
  BY Zenon, <1>1, <1>3
<1>5. ConnInv(Head(pool).conn)
  BY Zenon, <1>4 DEF IInv
<1> QED
  BY Zenon, <1>1, <1>2, <1>4, <1>5

\* The command at the head of the pool is the first that is owed.
LEMMA OwedHead ==
    ASSUME NEW job, JobInv(job), job.kind = "command", ~broken,
           job.conn \in Conns, ConnInv(job.conn)
    PROVE  /\ owed[job.conn] # << >> /\ Head(owed[job.conn]) = job.cmd
           /\ Tail(owed[job.conn]) = IF pc[job.conn] = "exec" THEN rest[job.conn] ELSE << >>
<1> DEFINE c == job.conn
<1>1. job.cmd \in Commands[c] /\ rest[c] \in Seq(Commands[c])
  BY DEF JobInv, ConnInv
<1>2. CASE pc[c] = "exec"
  <2>1. owed[c] = <<job.cmd>> \o rest[c]
    BY <1>2 DEF JobInv
  <2> QED
    BY <1>1, <1>2, <2>1, ConsFacts
<1>3. CASE pc[c] # "exec"
  <2>1. owed[c] = <<job.cmd>>
    BY <1>3 DEF JobInv
  <2> QED
    BY <1>1, <1>3, <2>1, OneFacts
<1> QED
  BY <1>2, <1>3

LEMMA WatchAnswered ==
    ASSUME NEW c \in Conns, WatchOf(c), UNCHANGED <<pc, watched, seen>>,
           NEW r \in Results, r.tag # "snapshot",
           result'[c] = IF pc[c] = "closed" THEN result[c] ELSE r
    PROVE  WatchOf(c)'
  BY Zenon DEF WatchOf, SeenMetas, HasSnapshot

\* What an answer leaves alone.
LEMMA AnswerFacts ==
    ASSUME IInv, NEW c \in Conns, NEW r \in Results, Answer(c, r), UNCHANGED connVars,
           UNCHANGED <<closed, block>>,
           DOMAIN owed' = Conns, \A d \in Conns \ {c} : owed'[d] = owed[d],
           DOMAIN seen' = Conns, \A d \in Conns \ {c} : seen'[d] = seen[d]
    PROVE  /\ Shape' /\ Only(c) /\ pool' = Tail(pool)
           /\ result'[c] = IF pc[c] = "closed" THEN result[c] ELSE r
<1>1. CASE pc[c] = "closed"
  BY Zenon, <1>1 DEF IInv, Shape, Only, Answer, connVars
<1>2. CASE pc[c] # "closed"
  BY Zenon, <1>2 DEF IInv, Shape, Only, Answer, connVars
<1> QED
  BY Zenon, <1>1, <1>2

\* A job that tells no snapshot; a command it was is owed no more.
LEMMA AnswerPreserves ==
    ASSUME IInv, pool # << >>, ~broken, NEW r \in Results, r.tag # "snapshot",
           NEW c, c = Head(pool).conn, Answer(c, r), UNCHANGED connVars,
           UNCHANGED <<closed, block, seen>>, StoreInv',
           DOMAIN owed' = Conns, \A d \in Conns \ {c} : owed'[d] = owed[d],
           ~broken' => owed'[c] = IF Head(pool).kind = "command" THEN Tail(owed[c]) ELSE owed[c]
    PROVE  IInv'
<1>0. PICK job : job = Head(pool)
  OBVIOUS
<1>1. /\ job.conn = c /\ c \in Conns /\ JobInv(job) /\ ConnInv(c)
      /\ job.kind \in {"watch", "check", "command"}
  BY Zenon, <1>0, HeadFacts
<1>2. /\ Shape' /\ Only(c) /\ pool' = Tail(pool)
      /\ result'[c] = IF pc[c] = "closed" THEN result[c] ELSE r
  <2>1. DOMAIN seen' = Conns /\ \A d \in Conns \ {c} : seen'[d] = seen[d]
    BY DEF IInv, Shape
  <2> QED
    BY Zenon, <1>1, <2>1, AnswerFacts
<1>3. UNCHANGED <<pc, watched, queued, rest>>
  BY Zenon DEF connVars
<1>4. WatchOf(c)'
  BY Zenon, <1>1, <1>2, <1>3, WatchAnswered DEF ConnInv
<1>5. ~broken' => /\ pc[c] \notin {"command", "exec", "closed"} => owed'[c] = << >>
                  /\ pc[c] = "command" => owed'[c] = << >>
                  /\ pc[c] = "exec" => owed'[c] = rest[c]
  <2>1. CASE job.kind = "command"
    <3>1. Tail(owed[c]) = IF pc[c] = "exec" THEN rest[c] ELSE << >>
      BY <1>1, <2>1, OwedHead
    <3> QED
      BY Zenon, <1>0, <2>1, <3>1
  <2>2. CASE job.kind # "command"
    <3>1. pc[c] \in {"watch", "check"} /\ owed[c] = << >>
      BY Zenon, <1>1, <2>2 DEF JobInv, ConnInv
    <3> QED
      BY Zenon, <1>0, <2>2, <3>1
  <2> QED
    BY <2>1, <2>2
<1>6. ConnInv(c)'
  <2>1. pc[c] # "closed" => pc[c] \in Waiting
    BY Zenon, <1>1 DEF JobInv, Waiting
  <2> QED
    BY Zenon, <1>1, <1>2, <1>3, <1>4, <1>5, <2>1 DEF ConnInv
<1> QED
  BY Zenon, <1>0, <1>1, <1>2, <1>3, <1>6, AnswerStep

LEMMA ReplyTypes ==
    \A tag \in {"wrote", "none", "err", "aborted", "changed", "unchanged"} :
      [tag |-> tag] \in Results /\ [tag |-> tag].tag = tag
  BY DEF Results

LEMMA RunPreserves ==
    ASSUME IInv, RunCommand \/ RunCheck \/ FailJob \/ PanicJob
    PROVE  IInv'
<1>0. PICK job, c : job = Head(pool) /\ c = job.conn
  OBVIOUS
<1>1. pool # << >> /\ ~broken /\ UNCHANGED connVars /\ UNCHANGED <<closed, block, seen>>
  BY DEF RunCommand, RunCheck, FailJob, PanicJob
<1>2. c \in Conns /\ JobInv(job) /\ ConnInv(c)
  BY Zenon, <1>0, <1>1, HeadFacts
<1>3. DOMAIN owed' = Conns /\ \A d \in Conns \ {c} : owed'[d] = owed[d]
  BY Zenon, <1>0 DEF IInv, Shape, RunCommand, RunCheck, FailJob, PanicJob
<1>4. CASE RunCommand
  <2>0. job.kind = "command" /\ job.cmd \in Commands[c]
    BY <1>0, <1>2, <1>4 DEF RunCommand, JobInv
  <2>1. PICK cmd, done : cmd = job.cmd /\ done = Apply(cmd, store[cmd.key])
    BY Zenon
  <2>2. /\ store' = [store EXCEPT ![cmd.key] = done.val]
        /\ nextVersion' = IF Creates(cmd) THEN nextVersion + 1 ELSE nextVersion
        /\ Answer(c, [tag |-> done.reply])
        /\ owed'[c] = IF owed[c] = << >> THEN owed[c] ELSE Tail(owed[c])
    BY Zenon, <1>0, <1>2, <1>4, <2>1 DEF RunCommand, IInv, Shape
  <2>3. /\ done.reply \in {"wrote", "none", "err"} /\ done.val \in Values
        /\ nextVersion' \in Nat /\ nextVersion <= nextVersion'
        /\ cmd.key \in Keys
    BY <1>2, <2>0, <2>1, <2>2, ApplyTypes, CommandTypes DEF IInv
  <2>4. StoreInv'
    <3>1. Values \subseteq Values' /\ store \in [Keys -> Values]
      BY Zenon, <2>3, ValuesGrow DEF IInv, StoreInv
    <3> QED
      BY <2>2, <2>3, <3>1 DEF StoreInv
  <2>5. owed'[c] = Tail(owed[c])
    BY Zenon, <1>0, <1>1, <1>2, <2>0, <2>2, OwedHead
  <2> QED
    BY Zenon, <1>0, <1>1, <1>3, <2>0, <2>2, <2>3, <2>4, <2>5, ReplyTypes, AnswerPreserves
<1>5. CASE RunCheck
  <2>1. UNCHANGED storeVars /\ UNCHANGED owed /\ job.kind = "check"
    BY <1>0, <1>5 DEF RunCheck
  <2>2. PICK tag \in {"changed", "unchanged"} : Answer(c, [tag |-> tag])
    BY Zenon, <1>0, <1>5 DEF RunCheck
  <2> QED
    BY Zenon, <1>0, <1>1, <1>3, <2>1, <2>2, ReplyTypes, StoreKept, AnswerPreserves DEF IInv
<1>6. CASE FailJob
  <2>1. /\ UNCHANGED nextVersion /\ Answer(c, [tag |-> "err"])
        /\ owed'[c] = IF Head(pool).kind = "command" THEN Tail(owed[c]) ELSE owed[c]
    BY Zenon, <1>0, <1>2, <1>6 DEF FailJob, IInv, Shape
  <2>2. StoreInv'
    <3>1. CASE UNCHANGED store
      BY Zenon, <2>1, <3>1, StoreKept DEF IInv, storeVars
    <3>2. ASSUME NEW k \in Keys, store[k].t = "hash", store' = [store EXCEPT ![k].v = None]
          PROVE  StoreInv'
      <4>1. nextVersion \in Nat /\ store \in [Keys -> Values] /\ nextVersion' = nextVersion
        BY Zenon, <2>1 DEF IInv, StoreInv
      <4>2. PICK n \in 0..nextVersion, v \in Vals \cup {None} : store[k] = HashOf(n, v)
        BY <3>2, <4>1, ValueTypes
      <4>3. [store[k] EXCEPT !.v = None] = HashOf(n, None) /\ HashOf(n, None) \in Values
        BY <4>2 DEF HashOf, Values
      <4>4. store' \in [Keys -> Values] /\ Values' = Values
        BY <3>2, <4>1, <4>3 DEF Values
      <4> QED
        BY Zenon, <4>1, <4>4 DEF StoreInv
    <3> QED
      BY <1>0, <1>2, <1>6, <3>1, <3>2, CommandTypes DEF FailJob, JobInv
  <2> QED
    BY <1>0, <1>1, <1>3, <2>1, <2>2, ReplyTypes, AnswerPreserves
<1>7. CASE PanicJob
  <2>1. UNCHANGED storeVars /\ broken' /\ Answer(c, [tag |-> "aborted"])
    BY Zenon, <1>0, <1>7 DEF PanicJob
  <2> QED
    BY Zenon, <1>0, <1>1, <1>3, <2>1, ReplyTypes, StoreKept, AnswerPreserves DEF IInv
<1> QED
  BY <1>4, <1>5, <1>6, <1>7

LEMMA RunWatchPreserves ==
    ASSUME IInv, RunWatch
    PROVE  IInv'
<1>0. PICK job, c, keys : job = Head(pool) /\ c = job.conn /\ keys = job.keys
  OBVIOUS
<1>1. /\ pool # << >> /\ UNCHANGED connVars /\ UNCHANGED <<broken, closed, block, owed>>
      /\ UNCHANGED storeVars /\ job.kind = "watch"
  BY <1>0 DEF RunWatch
<1>2. c \in Conns /\ JobInv(job) /\ ConnInv(c) /\ job \in Jobs
  BY Zenon, <1>0, <1>1, HeadFacts
<1>3. keys \in SUBSET Keys
  BY <1>0, <1>1, <1>2, JobTypes
<1>4. PICK r : r = [tag |-> "snapshot", snapshot |-> [k \in keys |-> MetaOf(store[k])]]
  BY Zenon
<1>5. Answer(c, r) /\ seen' = [seen EXCEPT ![c] = [k \in keys |-> store[k]]]
  BY <1>0, <1>4 DEF RunWatch
<1>6. r \in Results /\ r.tag = "snapshot" /\ r.snapshot = [k \in keys |-> MetaOf(store[k])]
  <2>1. [k \in keys |-> MetaOf(store[k])] \in [keys -> Metas]
    BY Zenon, <1>3, MetaTypes DEF IInv, StoreInv
  <2> QED
    BY <1>3, <1>4, <2>1 DEF Results
<1>7. /\ DOMAIN owed' = Conns /\ \A d \in Conns \ {c} : owed'[d] = owed[d]
      /\ DOMAIN seen' = Conns /\ \A d \in Conns \ {c} : seen'[d] = seen[d]
      /\ seen'[c] = [k \in keys |-> store[k]]
  BY <1>1, <1>2, <1>5 DEF IInv, Shape
<1>8. UNCHANGED <<pc, watched, queued, rest>> /\ pc[c] = "watch"
  BY <1>0, <1>1, <1>2 DEF connVars, JobInv
<1>9. Shape' /\ Only(c) /\ result'[c] = r /\ pool' = Tail(pool)
  BY Zenon, <1>1, <1>2, <1>5, <1>6, <1>7, <1>8, AnswerFacts
<1>10. SeenMetas(c)' = r.snapshot
  BY Zenon, <1>6, <1>7 DEF SeenMetas
<1>11. WatchOf(c)'
  BY <1>2, <1>9, <1>8, <1>10 DEF WatchOf, ConnInv
<1>12. ConnInv(c)'
  BY Zenon, <1>1, <1>2, <1>6, <1>9, <1>8, <1>11 DEF ConnInv, Waiting
<1> QED
  BY Zenon, <1>0, <1>1, <1>2, <1>6, <1>9, <1>8, <1>12, AnswerStep, StoreKept DEF IInv

LEMMA DropQueuePreserves ==
    ASSUME IInv, DropQueue
    PROVE  IInv'
<1>1. /\ broken' /\ closed' /\ pool' = << >> /\ UNCHANGED storeVars /\ broken
      /\ UNCHANGED <<pc, inMulti, queued, watched, rest, block, owed, seen>>
      /\ DOMAIN result' = Conns
  BY DEF DropQueue, connVars
<1>2. Shape'
  BY <1>1 DEF IInv, Shape
<1>3. [tag |-> "aborted"] \in Results /\ [tag |-> "aborted"].tag = "aborted"
  BY ReplyTypes
<1>4. ASSUME NEW c \in Conns PROVE ConnInv(c)'
  <2>0. ConnInv(c) /\ WatchOf(c)
    BY Zenon DEF IInv, ConnInv
  <2>1. CASE result'[c] = result[c]
    BY <1>1, <2>0, <2>1 DEF ConnInv, WatchOf, SeenMetas, HasSnapshot
  <2>2. CASE result'[c] # result[c]
    <3>1. /\ \E i \in 1..Len(pool) : pool[i].conn = c
          /\ pc[c] # "closed" /\ result'[c] = [tag |-> "aborted"]
      BY <2>2 DEF DropQueue
    <3>2. pc[c] \in Waiting
      BY Zenon, <3>1, FreeHasNoJob DEF IInv, Shape, Locations, Waiting, Free
    <3>3. WatchOf(c)'
      BY Zenon, <1>1, <1>3, <2>0, <3>1, WatchAnswered
    <3> QED
      BY Zenon, <1>1, <1>3, <2>0, <3>1, <3>2, <3>3 DEF ConnInv
  <2> QED
    BY Zenon, <2>1, <2>2
<1>5. ASSUME NEW c \in Conns, pc'[c] \in Waiting
      PROVE  result'[c] # None
  <2>0. pc[c] # "closed"
    BY <1>1, <1>5 DEF Waiting
  <2>1. CASE \E i \in 1..Len(pool) : pool[i].conn = c
    BY <1>3, <2>0, <2>1 DEF DropQueue
  <2>2. CASE ~ \E i \in 1..Len(pool) : pool[i].conn = c
    <3>1. result'[c] = result[c]
      BY <2>2 DEF DropQueue
    <3> QED
      BY <1>1, <1>5, <2>2, <3>1 DEF IInv, PoolInv
  <2> QED
    BY <2>1, <2>2
<1>6. PoolInv'
  <2>1. pool' \in Seq(Jobs) /\ Len(pool') = 0
    BY <1>1
  <2> QED
    BY <1>1, <1>5, <2>1 DEF PoolInv
<1> QED
  BY Zenon, <1>1, <1>2, <1>4, <1>6, StoreKept DEF IInv

-----------------------------------------------------------------------------

LEMMA StutterPreserves ==
    ASSUME IInv, UNCHANGED vars
    PROVE  IInv'
<1>1. /\ UNCHANGED <<pc, inMulti, queued, watched, rest, pool, result, broken, closed,
                     block, owed, seen>>
      /\ UNCHANGED storeVars
  BY Zenon DEF vars, connVars, poolVars
<1>2. Shape' /\ StoreInv'
  BY Zenon, <1>1, StoreKept DEF IInv, Shape
<1>3. PoolInv'
  BY Zenon, <1>1 DEF IInv, PoolInv, JobInv
<1>4. \A c \in Conns : ConnInv(c)'
  BY Zenon, <1>1 DEF IInv, ConnInv, WatchOf, SeenMetas, HasSnapshot
<1> QED
  BY <1>2, <1>3, <1>4 DEF IInv

LEMMA NextPreserves ==
    ASSUME IInv, [Next]_vars
    PROVE  IInv'
<1>1. CASE UNCHANGED vars
  BY <1>1, StutterPreserves
<1>2. CASE PoolStep
  BY <1>2, RunPreserves, RunWatchPreserves, DropQueuePreserves DEF PoolStep
<1>3. ASSUME NEW c \in Conns, ClientStep(c)
      PROVE  IInv'
  BY Zenon, <1>3, LocalPreserves, EnqueuePreserves, CommandPreserves, AskPreserves, ExecPreserves,
     LeavePreserves DEF ClientStep
<1>4. ASSUME NEW c \in Conns, TaskStep(c)
      PROVE  IInv'
  BY <1>4, DonePreserves, ExecPreserves, ContinuePreserves DEF TaskStep
<1> QED
  BY <1>1, <1>2, <1>3, <1>4 DEF Next

LEMMA Invariance == Spec => []IInv
<1>1. IInv /\ [Next]_vars => IInv'
  BY NextPreserves
<1> QED
  BY <1>1, InitIInv, PTL DEF Spec

\* A connection task waits for at most one job, which is in the pool or has
\* been answered, and for none while it reads (server.rs:97-121); a task that
\* has ended may have left a command in the pool but waits for no answer; its
\* queue and what EXEC has left of it are commands of its own client; the
\* store keeps to the versions given out.
THEOREM TypeCorrect == Spec => []TypeOK
<1>1. ASSUME IInv PROVE TypeOK
  <2>1. ASSUME NEW c \in Conns
        PROVE  LET asked == {i \in 1..Len(pool) : pool[i].conn = c}
               IN  /\ pc[c] \in {"ready", "closed"} => result[c] = None
                   /\ pc[c] = "ready" => asked = {}
                   /\ pc[c] = "closed" => \A i \in asked : pool[i].kind = "command"
                   /\ pc[c] \notin {"ready", "closed"} => (asked = {} <=> result[c] # None)
    <3> DEFINE asked == {i \in 1..Len(pool) : pool[i].conn = c}
    <3>1. pc[c] \notin {"ready", "closed"} <=> pc[c] \in Waiting
      BY <1>1 DEF IInv, Shape, Locations, Waiting
    <3>2. Free(c) => asked = {}
      BY <1>1, FreeHasNoJob DEF IInv
    <3>3. /\ result[c] # None => pc[c] \in Waiting
          /\ pc[c] \in Waiting /\ result[c] = None => asked # {}
      BY <1>1 DEF IInv, ConnInv, PoolInv
    <3>4. ASSUME pc[c] = "closed", NEW i \in asked PROVE pool[i].kind = "command"
      <4>1. pool[i] \in Jobs /\ JobInv(pool[i])
        BY <1>1 DEF IInv, PoolInv
      <4>2. pool[i].kind \in {"watch", "check", "command"}
        BY <4>1, JobTypes
      <4> QED
        BY <3>4, <4>1, <4>2 DEF JobInv
    <3> QED
      BY Zenon, <3>1, <3>2, <3>3, <3>4 DEF Free
  <2>2. \A c \in Conns : /\ queued[c] \in Seq(Commands[c]) /\ rest[c] \in Seq(Commands[c])
                         /\ DOMAIN watched[c] \subseteq Keys
    BY Zenon, <1>1 DEF IInv, ConnInv, WatchOf
  <2> QED
    BY Zenon, <1>1, <2>1, <2>2 DEF TypeOK, IInv, Shape, StoreInv, PoolInv
<1> QED
  BY <1>1, Invariance, PTL

\* A request that has been answered is done: no command of it is still to
\* run when its task reads again, whatever the other connections do meanwhile
\* (server.rs:195-196, 209-211), as long as no job has panicked.
THEOREM AnsweredIsDone == Spec => []AnsweredMeansDone
<1>1. IInv => AnsweredMeansDone
  BY DEF IInv, ConnInv, AnsweredMeansDone
<1> QED
  BY <1>1, Invariance, PTL

\* The pool runs for a client the commands it has sent, each once, in their
\* order: none of a transaction that was discarded or found its watched keys
\* changed, none before EXEC has asked for it (server.rs:130-211).
THEOREM RunsTheSent == Spec => RunsWhatWasSent
<1>1. IInv /\ [Next]_vars =>
        [RunCommand => LET mine == owed[Head(pool).conn]
                       IN  mine # << >> /\ Head(mine) = Head(pool).cmd]_vars
  <2> SUFFICES ASSUME IInv, RunCommand
               PROVE  owed[Head(pool).conn] # << >>
                        /\ Head(owed[Head(pool).conn]) = Head(pool).cmd
    OBVIOUS
  <2>1. pool # << >> /\ ~broken /\ Head(pool).kind = "command"
    BY DEF RunCommand
  <2> QED
    BY <2>1, HeadFacts, OwedHead
<1> QED
  BY <1>1, Invariance, PTL DEF Spec, RunsWhatWasSent

\* If the check of EXEC finds nothing changed, every key is what WATCH saw,
\* or still the same hash (server.rs:259-279).
THEOREM CheckDetects == Spec => WatchDetects
<1>1. IInv /\ [Next]_vars =>
        [RunCheck => LET c == Head(pool).conn
                     IN  result'[c].tag = "unchanged" =>
                           \A k \in DOMAIN seen[c] :
                             \/ store[k] = seen[c][k]
                             \/ /\ store[k].t = "hash" /\ seen[c][k].t = "hash"
                                /\ store[k].ver = seen[c][k].ver]_vars
  <2> SUFFICES ASSUME IInv, RunCheck,
                      result'[Head(pool).conn].tag = "unchanged",
                      NEW k \in DOMAIN seen[Head(pool).conn]
               PROVE  LET c == Head(pool).conn
                      IN  \/ store[k] = seen[c][k]
                          \/ /\ store[k].t = "hash" /\ seen[c][k].t = "hash"
                             /\ store[k].ver = seen[c][k].ver
    OBVIOUS
  <2>1. pool # << >> /\ Head(pool).kind = "check"
    BY DEF RunCheck
  <2>2. PICK c \in Conns : Head(pool).conn = c
    BY Zenon, <2>1, HeadFacts
  <2>3. pc[c] = "check" /\ Head(pool).keys = DOMAIN watched[c] /\ WatchOf(c)
    BY Zenon, <2>1, <2>2, HeadFacts DEF JobInv, ConnInv
  <2>4. watched[c] = SeenMetas(c)
    BY <2>3 DEF WatchOf
  <2>5. DOMAIN watched[c] = DOMAIN seen[c] /\ watched[c][k] = MetaOf(seen[c][k])
    BY Zenon, <2>2, <2>4 DEF SeenMetas
  <2>6. result'[c].tag = IF Changed(c, Head(pool).keys) THEN "changed" ELSE "unchanged"
    <3>1. result' = [result EXCEPT ![c] = [tag |-> IF Changed(c, Head(pool).keys)
                                                   THEN "changed" ELSE "unchanged"]]
      BY Zenon, <2>2, <2>3 DEF RunCheck, Answer
    <3> QED
      BY <3>1 DEF IInv, Shape
  <2>7. MetaOf(store[k]) = MetaOf(seen[c][k])
    BY Zenon, <2>2, <2>3, <2>5, <2>6 DEF Changed
  <2> QED
    BY Zenon, <2>2, <2>7, MetaTells
<1> QED
  BY <1>1, Invariance, PTL DEF Spec, WatchDetects
=============================================================================
