----------------------------- MODULE StringRmw ------------------------------
(***************************************************************************)
(* String commands called from several threads at once (src/cmd/string.rs  *)
(* on src/storage.rs), as the embedded benchmark and the storage tests do. *)
(* A RocksDB get, put or delete is one step; everything else of a command  *)
(* may be interrupted.  INCR, DECR and APPEND hold the lock of the shard   *)
(* their key hashes to; the others hold none.                              *)
(*                                                                         *)
(* A payload is an integer: INCR and DECR parse and format it, and APPEND  *)
(* puts the digit 1 behind it.  Expiry times lie beyond the horizon: a key *)
(* has one or not.                                                         *)
(***************************************************************************)
EXTENDS Integers

CONSTANTS
    Threads, Keys, Shards,
    ShardOf,     \* shard_index: [Keys -> Shards]
    Ops,         \* the commands the threads issue on each key
    MaxInt,      \* i64::MAX
    MaxCalls,    \* commands per thread (bound)
    None

Locking == {"incr", "decr", "append"}
Plain == {"set", "setnx", "expire", "persist", "del"}

ASSUME ShardAssumption == ShardOf \in [Keys -> Shards]
ASSUME OpsAssumption == Ops \in [Keys -> SUBSET (Locking \cup Plain)]
ASSUME IntAssumption == MaxInt \in Nat /\ MaxCalls \in Nat

Strings == [n : Int, exp : BOOLEAN]

ASSUME NoneAssumption ==
    None \notin Threads /\ None \notin Keys /\ None \notin Int /\ None \notin Strings

VARIABLES
    val,    \* the metadata column family
    lock,   \* key_locks: [Shards -> holder or None]
    pc,
    op, key, got,  \* its command, and what it has read; None when idle
    reply,  \* key and answer of its last command, None for an error or a nil
    calls   \* commands it may still issue

vars == <<val, lock, pc, op, key, got, reply, calls>>

Init ==
    /\ val = [k \in Keys |-> None]
    /\ lock = [s \in Shards |-> None]
    /\ pc = [t \in Threads |-> "idle"]
    /\ op = [t \in Threads |-> None]
    /\ key = [t \in Threads |-> None]
    /\ got = [t \in Threads |-> None]
    /\ reply = [t \in Threads |-> <<None, None>>]
    /\ calls = [t \in Threads |-> MaxCalls]

-----------------------------------------------------------------------------

\* dispatch
Call(t, o, k) ==
    /\ pc[t] = "idle" /\ calls[t] > 0
    /\ op' = [op EXCEPT ![t] = o]
    /\ key' = [key EXCEPT ![t] = k]
    /\ pc' = [pc EXCEPT ![t] = IF o \in Locking THEN "lock" ELSE "look"]
    /\ calls' = [calls EXCEPT ![t] = @ - 1]
    /\ UNCHANGED <<val, lock, got, reply>>

\* The command returns.
Return(t) ==
    /\ pc' = [pc EXCEPT ![t] = "idle"]
    /\ op' = [op EXCEPT ![t] = None]
    /\ key' = [key EXCEPT ![t] = None]
    /\ got' = [got EXCEPT ![t] = None]

LockIgnored(t) ==
    /\ pc[t] = "lock"
    /\ lock' = [lock EXCEPT ![ShardOf[key[t]]] = t]
    /\ pc' = [pc EXCEPT ![t] = "read"]
    /\ UNCHANGED <<val, op, key, got, reply, calls>>

\* key_lock
Lock(t) ==
    /\ pc[t] = "lock"
    /\ lock[ShardOf[key[t]]] = None
    /\ lock' = [lock EXCEPT ![ShardOf[key[t]]] = t]
    /\ pc' = [pc EXCEPT ![t] = "read"]
    /\ UNCHANGED <<val, op, key, got, reply, calls>>

\* The value a missing key counts as, the new value, and whether parsing and
\* checked_add / checked_sub let it pass.
Number(v) == IF v = None THEN 0 ELSE v.n

Updated(o, n) ==
    CASE o = "incr" -> n + 1
      [] o = "decr" -> n - 1
      [] OTHER -> IF n < 0 THEN 10 * n - 1 ELSE 10 * n + 1

InRange(n) == -MaxInt - 1 <= n /\ n <= MaxInt
Unchecked(o, n) == TRUE
Accepted(o, n) == o = "append" \/ (InRange(n) /\ InRange(Updated(o, n)))

\* read_string, and what follows up to the write or the error.
Read(t) ==
    /\ pc[t] = "read"
    /\ got' = [got EXCEPT ![t] = val[key[t]]]
    /\ IF Accepted(op[t], Number(val[key[t]]))
       THEN /\ pc' = [pc EXCEPT ![t] = "write"]
            /\ UNCHANGED reply
       ELSE /\ pc' = [pc EXCEPT ![t] = "unlock"]
            /\ reply' = [reply EXCEPT ![t] = <<key[t], None>>]
    /\ UNCHANGED <<val, lock, op, key, calls>>

\* write_string
Write(t) ==
    LET n == Updated(op[t], Number(got[t]))
    IN  /\ pc[t] = "write"
        /\ val' = [val EXCEPT ![key[t]] = [n |-> n, exp |-> FALSE]]
        /\ reply' = [reply EXCEPT ![t] = <<key[t], n>>]
        /\ pc' = [pc EXCEPT ![t] = "unlock"]
        /\ UNCHANGED <<lock, op, key, got, calls>>

UnlockForgotten(t) ==
    /\ pc[t] = "unlock"
    /\ Return(t)
    /\ UNCHANGED <<val, lock, reply, calls>>

\* The guard is dropped when the command returns, with or without an error.
Unlock(t) ==
    /\ pc[t] = "unlock"
    /\ lock' = [lock EXCEPT ![ShardOf[key[t]]] = None]
    /\ Return(t)
    /\ UNCHANGED <<val, reply, calls>>

-----------------------------------------------------------------------------
(* SET, SET NX, EXPIRE, PERSIST and DEL: look, then write, without a lock. *)

\* The command ends after its first look at the key.
GivesUp(o, v) ==
    \/ o = "setnx" /\ v # None
    \/ o \in {"expire", "del"} /\ v = None
    \/ o = "persist" /\ (v = None \/ (v # None => ~v.exp))

\* key_exists, read_expire, get_meta
Look(t) ==
    LET v == val[key[t]]
    IN  /\ pc[t] = "look"
        /\ IF GivesUp(op[t], v)
           THEN Return(t)
           ELSE /\ pc' = [pc EXCEPT ![t] = IF op[t] = "persist" THEN "lookAgain" ELSE "put"]
                /\ got' = [got EXCEPT ![t] = v]
                /\ UNCHANGED <<op, key>>
        /\ reply' = [reply EXCEPT ![t] = <<key[t], None>>]
        /\ UNCHANGED <<val, lock, calls>>

\* PERSIST has asked for the expiry; clear_expire reads the key once more and
\* PERSIST answers 1 even if it is gone.
LookAgain(t) ==
    LET v == val[key[t]]
    IN  /\ pc[t] = "lookAgain"
        /\ IF v = None
           THEN /\ Return(t)
                /\ reply' = [reply EXCEPT ![t] = <<key[t], 1>>]
           ELSE /\ pc' = [pc EXCEPT ![t] = "put"]
                /\ got' = [got EXCEPT ![t] = v]
                /\ UNCHANGED <<op, key, reply>>
        /\ UNCHANGED <<val, lock, calls>>

\* What is written: set the payload 0, or the payload that was read with
\* another expiry; None deletes.
Put(t) ==
    /\ pc[t] = "put"
    /\ val' = [val EXCEPT ![key[t]] =
                 CASE op[t] \in {"set", "setnx"} -> [n |-> 0, exp |-> FALSE]
                   [] op[t] = "expire" -> [n |-> got[t].n, exp |-> TRUE]
                   [] op[t] = "persist" -> [n |-> got[t].n, exp |-> FALSE]
                   [] OTHER -> None]
    /\ reply' = [reply EXCEPT ![t] = <<key[t], 1>>]
    /\ Return(t)
    /\ UNCHANGED <<lock, calls>>

-----------------------------------------------------------------------------

LockingStep(t) == Lock(t) \/ Read(t) \/ Write(t) \/ Unlock(t)
PlainStep(t) == Look(t) \/ LookAgain(t) \/ Put(t)

Next ==
    \E t \in Threads :
        \/ \E k \in Keys : \E o \in Ops[k] : Call(t, o, k)
        \/ LockingStep(t)
        \/ PlainStep(t)

Spec == Init /\ [][Next]_vars

\* Threads are scheduled; a lock is free again after finitely many steps and
\* every thread issues finitely many commands.
FairSpec == Spec /\ \A t \in Threads : WF_vars(LockingStep(t) \/ PlainStep(t))

-----------------------------------------------------------------------------

Inside == {"read", "write", "unlock"}

\* Type invariant.  A command that writes back what it has read has read
\* something.
TypeOK ==
    /\ val \in [Keys -> Strings \cup {None}]
    /\ lock \in [Shards -> Threads \cup {None}]
    /\ pc \in [Threads -> {"idle", "lock", "look", "lookAgain", "put"} \cup Inside]
    /\ op \in [Threads -> Locking \cup Plain \cup {None}]
    /\ key \in [Threads -> Keys \cup {None}]
    /\ \A t \in Threads : pc[t] # "idle" => key[t] \in Keys /\ op[t] \in Ops[key[t]]
    /\ got \in [Threads -> Strings \cup {None}]
    /\ \A t \in Threads : pc[t] = "put" /\ op[t] \in {"expire", "persist"} => got[t] # None
    /\ reply \in [Threads -> (Keys \cup {None}) \X (Int \cup {None})]
    /\ calls \in [Threads -> Nat]

\* A thread between key_lock and the end of its command is the holder of its
\* shard, so that no two of them are inside the same shard, whatever keys
\* collide in it (storage.rs:125-128, string.rs:369, 381, 393).
LockInv ==
    \A t \in Threads : pc[t] \in Inside => lock[ShardOf[key[t]]] = t

\* The keys that nothing but INCR, DECR and APPEND touches.
Counters == {k \in Keys : Ops[k] \subseteq Locking}

Atomic == INSTANCE AtomicStrings WITH
    Keys <- Counters, Ops <- Locking, val <- [k \in Counters |-> val[k]]

\* string.rs:366: INCR, DECR and APPEND of any number of threads are atomic.
\* Every answer and every stored value of a counter is one that some order
\* of whole commands gives, an overflow included, whatever the threads do to
\* other keys of its shard without a lock; no update is lost.
ImplementsAtomic == Atomic!Spec

\* Every command that has been issued returns: no error path keeps a lock
\* (string.rs:371, 374), and keys that share a shard do not block each other
\* for good.
EveryCallReturns == \A t \in Threads : pc[t] # "idle" ~> pc[t] = "idle"

\* string.rs:366: the lock prevents lost updates.  Where nobody decrements,
\* sets or deletes, no counter ever goes back.
NoLostIncrement ==
    [][\A k \in Keys : val[k] # None => val'[k] # None /\ val'[k].n >= val[k].n]_vars
=============================================================================
