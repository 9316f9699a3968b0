----------------------------- MODULE ThreadPool -----------------------------
(***************************************************************************)
(* src/thread_pool.rs: the pool of OS threads that runs every command.     *)
(*                                                                         *)
(* The workers share one std::sync::mpsc receiver behind one Mutex and     *)
(* loop on                                                                 *)
(*     while let Ok(job) = rx.lock().unwrap().recv() { job(); }            *)
(* The MutexGuard is a temporary of the scrutinee, so it lives until the   *)
(* end of the loop body: a worker waits in recv() and runs its job with    *)
(* the mutex held.  A job that panics unwinds through the guard and        *)
(* poisons the mutex; the unwrap() of every other worker then panics too.  *)
(* When the last worker is gone the receiver is dropped together with the  *)
(* queued closures, whose oneshot senders are dropped unanswered.          *)
(***************************************************************************)
EXTENDS Naturals, Sequences, FiniteSets

CONSTANTS
    Workers,  \* the `size` threads ThreadPool::new starts
    Jobs,     \* closures handed to spawn, each once
    Nothing

\* bind() takes the size from available_parallelism(), which is at least 1.
ASSUME WorkersAssumption == Workers # {} /\ IsFiniteSet(Workers)
ASSUME NothingAssumption == Nothing \notin Workers /\ Nothing \notin Jobs

VARIABLES
    queue,     \* the mpsc channel
    open,      \* some clone of the pool, hence the Sender, is alive
    mutex,     \* the worker holding the receiver's mutex, or Nothing
    poisoned,  \* the mutex's poison flag
    wpc,       \* where each worker is in its loop
    job,       \* the worker's local `job`
    answer     \* the state of the oneshot channel spawn(j) returned

poolVars == <<queue, open, mutex, poisoned, wpc, job, answer>>

Replies == {"new", "waiting", "ok", "aborted", "refused"}

\* "lock": about to lock; "recv": blocked in recv(); "run": in job();
\* "release": job() has returned, guard still held; "unwind": job()
\* panicked, guard still held; "dead": the thread has ended.
Locations == {"lock", "recv", "run", "release", "unwind", "dead"}

\* The locations at which a worker has a job in hand.
Busy == {"run", "release", "unwind"}

\* Type invariant.  A worker has a `job` exactly from recv() to the end of
\* its loop body.
PoolTypeOK ==
    /\ queue \in Seq(Jobs)
    /\ open \in BOOLEAN
    /\ mutex \in Workers \cup {Nothing}
    /\ poisoned \in BOOLEAN
    /\ wpc \in [Workers -> Locations]
    /\ job \in [Workers -> Jobs \cup {Nothing}]
    /\ \A w \in Workers : job[w] \in Jobs <=> wpc[w] \in Busy
    /\ answer \in [Jobs -> Replies]

PoolInit ==
    /\ queue = << >>
    /\ open = TRUE
    /\ mutex = Nothing
    /\ poisoned = FALSE
    /\ wpc = [w \in Workers |-> "lock"]
    /\ job = [w \in Workers |-> Nothing]
    /\ answer = [j \in Jobs |-> "new"]

\* The Arc around the receiver lives as long as some worker does.
ReceiverAlive == \E w \in Workers : wpc[w] # "dead"

Queued(j) == \E i \in 1..Len(queue) : queue[i] = j

-----------------------------------------------------------------------------

\* spawn: build the oneshot pair, box the closure, send it.
Spawn(j) ==
    /\ open
    /\ answer[j] = "new"
    /\ ReceiverAlive
    /\ queue' = Append(queue, j)
    /\ answer' = [answer EXCEPT ![j] = "waiting"]
    /\ UNCHANGED <<open, mutex, poisoned, wpc, job>>

\* spawn on a pool without receiver: expect("thread pool is closed") panics
\* in the calling task.
SpawnPanics(j) ==
    /\ open
    /\ answer[j] = "new"
    /\ ~ReceiverAlive
    /\ answer' = [answer EXCEPT ![j] = "refused"]
    /\ UNCHANGED <<queue, open, mutex, poisoned, wpc, job>>

\* The last clone of the pool, and with it the Sender, is dropped.
DropPool ==
    /\ open
    /\ open' = FALSE
    /\ UNCHANGED <<queue, mutex, poisoned, wpc, job, answer>>

ExitLeaksQueue(w) ==
    /\ wpc' = [wpc EXCEPT ![w] = "dead"]
    /\ UNCHANGED <<queue, answer>>

\* The thread of w ends.  The last one to end drops the receiver: the queued
\* closures go with it and their callers see a closed oneshot channel.
Exit(w) ==
    /\ wpc' = [wpc EXCEPT ![w] = "dead"]
    /\ IF \E v \in Workers \ {w} : wpc[v] # "dead"
       THEN UNCHANGED <<queue, answer>>
       ELSE /\ queue' = << >>
            /\ answer' = [j \in Jobs |-> IF Queued(j) THEN "aborted" ELSE answer[j]]

RxLockIgnoresPoison(w) ==
    /\ wpc[w] = "lock"
    /\ mutex = Nothing
    /\ mutex' = w
    /\ wpc' = [wpc EXCEPT ![w] = "recv"]
    /\ UNCHANGED <<queue, open, poisoned, job, answer>>

\* rx.lock() on a healthy mutex.
RxLock(w) ==
    /\ wpc[w] = "lock"
    /\ mutex = Nothing
    /\ ~poisoned
    /\ mutex' = w
    /\ wpc' = [wpc EXCEPT ![w] = "recv"]
    /\ UNCHANGED <<queue, open, poisoned, job, answer>>

\* rx.lock() on a poisoned mutex: unwrap() panics and the thread ends.
RxLockPoisoned(w) ==
    /\ wpc[w] = "lock"
    /\ mutex = Nothing
    /\ poisoned
    /\ Exit(w)
    /\ UNCHANGED <<open, mutex, poisoned, job>>

RecvDropsGuard(w) ==
    /\ wpc[w] = "recv"
    /\ queue # << >>
    /\ job' = [job EXCEPT ![w] = Head(queue)]
    /\ queue' = Tail(queue)
    /\ wpc' = [wpc EXCEPT ![w] = "run"]
    /\ mutex' = Nothing
    /\ UNCHANGED <<open, poisoned, answer>>

\* recv() returns the oldest message; the guard stays alive.
Recv(w) ==
    /\ wpc[w] = "recv"
    /\ queue # << >>
    /\ job' = [job EXCEPT ![w] = Head(queue)]
    /\ queue' = Tail(queue)
    /\ wpc' = [wpc EXCEPT ![w] = "run"]
    /\ UNCHANGED <<open, mutex, poisoned, answer>>

\* recv() on an empty channel without senders: Err ends the loop normally.
RecvDisconnected(w) ==
    /\ wpc[w] = "recv"
    /\ queue = << >>
    /\ ~open
    /\ Exit(w)
    /\ mutex' = Nothing
    /\ UNCHANGED <<open, poisoned, job>>

\* job() runs f() to its end and sends the result.
RunJob(w) ==
    /\ wpc[w] = "run"
    /\ answer' = [answer EXCEPT ![job[w]] = "ok"]
    /\ wpc' = [wpc EXCEPT ![w] = "release"]
    /\ UNCHANGED <<queue, open, mutex, poisoned, job>>

\* The end of the loop body drops the guard.
Release(w) ==
    /\ wpc[w] = "release"
    /\ mutex' = Nothing
    /\ job' = [job EXCEPT ![w] = Nothing]
    /\ wpc' = [wpc EXCEPT ![w] = "lock"]
    /\ UNCHANGED <<queue, open, poisoned, answer>>

\* f() panics: the closure's oneshot sender is dropped first ...
PanicJob(w) ==
    /\ wpc[w] = "run"
    /\ answer' = [answer EXCEPT ![job[w]] = "aborted"]
    /\ wpc' = [wpc EXCEPT ![w] = "unwind"]
    /\ UNCHANGED <<queue, open, mutex, poisoned, job>>

\* ... then the guard, which poisons the mutex, and the thread ends.
Unwind(w) ==
    /\ wpc[w] = "unwind"
    /\ poisoned' = TRUE
    /\ mutex' = Nothing
    /\ job' = [job EXCEPT ![w] = Nothing]
    /\ Exit(w)
    /\ UNCHANGED open

WorkerStep(w) ==
    \/ RxLock(w)
    \/ RxLockPoisoned(w)
    \/ Recv(w)
    \/ RecvDisconnected(w)
    \/ RunJob(w)
    \/ Release(w)
    \/ PanicJob(w)
    \/ Unwind(w)

CallerStep ==
    \/ \E j \in Jobs : Spawn(j) \/ SpawnPanics(j)
    \/ DropPool

PoolNext == CallerStep \/ \E w \in Workers : WorkerStep(w)

PoolSpec == PoolInit /\ [][PoolNext]_poolVars

\* The operating system schedules every thread that can run; it owes the
\* callers nothing, and it does not choose between a return and a panic.
FairPool == PoolSpec /\ \A w \in Workers : WF_poolVars(WorkerStep(w))

-----------------------------------------------------------------------------

\* No two jobs ever overlap, whatever the number of workers: the guard of
\* `rx.lock()` in the loop header (thread_pool.rs:21) is held through job().
\* Every "one command is atomic" argument of the server rests on this.
OneJobAtATime ==
    \A v, w \in Workers : wpc[v] \in Busy /\ wpc[w] \in Busy => v = w

\* The jobs the executor has accepted and not answered: the one in job(),
\* then the channel.
Pending ==
    IF mutex # Nothing /\ wpc[mutex] = "run"
    THEN <<job[mutex]>> \o queue
    ELSE queue

Broken == poisoned \/ \E w \in Workers : wpc[w] = "unwind"

Executor == INSTANCE SerialExecutor WITH
    pending <- Pending,
    broken <- Broken,
    reply <- answer,
    closed <- ~ReceiverAlive

\* The pool implements the serial executor: jobs take effect one at a time
\* in the order spawn accepted them, and after a panic none does.
ImplementsExecutor == Executor!Spec

\* Nobody waits for ever on the Receiver spawn returned: the job is carried
\* out, or it panics, or it is dropped with the queue when a panic elsewhere
\* has taken all the workers down.
EveryCallerAnswered ==
    \A j \in Jobs : answer[j] = "waiting" ~> answer[j] \in {"ok", "aborted"}
=============================================================================
