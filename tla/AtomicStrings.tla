--------------------------- MODULE AtomicStrings ----------------------------
(***************************************************************************)
(* What INCR, DECR and APPEND promise to threads that share the database:  *)
(* each takes effect in one step, on the value its predecessor left.       *)
(***************************************************************************)
EXTENDS Integers

CONSTANTS
    Threads, Keys, MaxInt,
    Ops,     \* among "incr", "decr" and "append"
    None

VARIABLES
    val,     \* [Keys -> None or [n, exp]]
    reply    \* [Threads -> key and answer of the last command, None for an error]

Init ==
    /\ val = [k \in Keys |-> None]
    /\ reply = [t \in Threads |-> <<None, None>>]

Old(k) == IF val[k] = None THEN 0 ELSE val[k].n

New(op, n) ==
    CASE op = "incr" -> n + 1
      [] op = "decr" -> n - 1
      [] OTHER -> IF n < 0 THEN 10 * n - 1 ELSE 10 * n + 1

Fits(op, n) ==
    \/ op = "append"
    \/ -MaxInt - 1 <= n /\ n <= MaxInt /\ -MaxInt - 1 <= New(op, n) /\ New(op, n) <= MaxInt

Succeed(t, k, op) ==
    /\ Fits(op, Old(k))
    /\ val' = [val EXCEPT ![k] = [n |-> New(op, Old(k)), exp |-> FALSE]]
    /\ reply' = [reply EXCEPT ![t] = <<k, New(op, Old(k))>>]

Fail(t, k, op) ==
    /\ ~Fits(op, Old(k))
    /\ reply' = [reply EXCEPT ![t] = <<k, None>>]
    /\ UNCHANGED val

\* A command on another key than these is answered.
Elsewhere(t) ==
    /\ reply'[t][1] \notin Keys
    /\ \A u \in Threads \ {t} : reply'[u] = reply[u]
    /\ UNCHANGED val

Next ==
    \E t \in Threads :
        \/ \E k \in Keys, op \in Ops : Succeed(t, k, op) \/ Fail(t, k, op)
        \/ Elsewhere(t)

Spec == Init /\ [][Next]_<<val, reply>>
=============================================================================
