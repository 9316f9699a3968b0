--------------------------- MODULE SerialExecutor ---------------------------
(***************************************************************************)
(* What the command thread pool promises to the connection tasks: it is a  *)
(* queue of jobs that are carried out one at a time, in the order in which *)
(* they were accepted, each answered once.  A job that panics breaks the   *)
(* executor: nothing runs any more, and what is still queued is aborted    *)
(* when the queue is thrown away.                                          *)
(*                                                                         *)
(* ThreadPool implements this specification; Server is written against it. *)
(***************************************************************************)
EXTENDS Naturals, Sequences

CONSTANT Jobs

VARIABLES
    pending,  \* accepted jobs that have no answer yet, oldest first
    reply,    \* what the caller of spawn(job) has seen so far
    broken,   \* a job has panicked
    closed    \* the receiving end is gone

vars == <<pending, reply, broken, closed>>

Replies == {"new", "waiting", "ok", "aborted", "refused"}

TypeOK ==
    /\ pending \in Seq(Jobs)
    /\ reply \in [Jobs -> Replies]
    /\ broken \in BOOLEAN
    /\ closed \in BOOLEAN

Init ==
    /\ pending = << >>
    /\ reply = [j \in Jobs |-> "new"]
    /\ broken = FALSE
    /\ closed = FALSE

Accept(j) ==
    /\ reply[j] = "new"
    /\ ~closed
    /\ pending' = Append(pending, j)
    /\ reply' = [reply EXCEPT ![j] = "waiting"]
    /\ UNCHANGED <<broken, closed>>

Refuse(j) ==
    /\ reply[j] = "new"
    /\ closed
    /\ reply' = [reply EXCEPT ![j] = "refused"]
    /\ UNCHANGED <<pending, broken, closed>>

\* The oldest pending job, and no other, is carried out to its end.
Complete ==
    /\ pending # << >>
    /\ ~broken
    /\ reply' = [reply EXCEPT ![Head(pending)] = "ok"]
    /\ pending' = Tail(pending)
    /\ UNCHANGED <<broken, closed>>

\* The oldest pending job panics: its caller sees an abort.
Break ==
    /\ pending # << >>
    /\ ~broken
    /\ reply' = [reply EXCEPT ![Head(pending)] = "aborted"]
    /\ pending' = Tail(pending)
    /\ broken' = TRUE
    /\ UNCHANGED closed

\* The queue is thrown away with everything in it.
Close ==
    /\ ~closed
    /\ broken \/ pending = << >>
    /\ closed' = TRUE
    /\ pending' = << >>
    /\ reply' = [j \in Jobs |-> IF \E i \in 1..Len(pending) : pending[i] = j
                                THEN "aborted" ELSE reply[j]]
    /\ UNCHANGED broken

Next ==
    \/ \E j \in Jobs : Accept(j) \/ Refuse(j)
    \/ Complete
    \/ Break
    \/ Close

Spec == Init /\ [][Next]_vars
=============================================================================
