------------------------------ MODULE MCServer ------------------------------
(* Two connections: c1 has requests for WATCH, MULTI, two commands and     *)
(* EXEC, c2 for a command or a small transaction of its own.               *)
EXTENDS Server, TLC

CONSTANTS c1, c2, k1, k2

MCConns == {c1, c2}
MCKeys == {k1, k2}
MCVals == {1, 2}
MCRequests == (c1 :> 5) @@ (c2 :> 1)

\* k1 is a hash, k2 a string.
MCStore == (k1 :> HashOf(0, 1)) @@ (k2 :> StringOf(1))

Cmd(op, k, v) == [op |-> op, key |-> k, val |-> v]

\* c1 writes the string and a field of the hash; c2 deletes the hash, after
\* which HSET makes another one, overwrites the string, or fails on it.
MCCommands ==
    (c1 :> {Cmd("set", k2, 2), Cmd("hset", k1, 2)})
      @@ (c2 :> {Cmd("del", k1, 1), Cmd("set", k2, 2), Cmd("hset", k2, 1)})

\* Strings only: the metadata is the value.
StringCommands ==
    [c \in MCConns |-> {Cmd("set", k2, 2), Cmd("set", k2, 1), Cmd("del", k1, 1)}]
=============================================================================
