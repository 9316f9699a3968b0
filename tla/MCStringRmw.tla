---------------------------- MODULE MCStringRmw -----------------------------
(* Two keys in one shard: k1 is a counter, k2 gets all the commands.  The  *)
(* range of i64 is -2..1, so that INCR and DECR overflow and APPEND leaves *)
(* it.                                                                     *)
EXTENDS StringRmw, TLC

CONSTANTS t1, t2, k1, k2, s1, s2

MCThreads == {t1, t2}
MCKeys == {k1, k2}
MCShards == {s1, s2}
MCShardOf == [k \in MCKeys |-> s1]
MCOps == (k1 :> Locking) @@ (k2 :> {"incr"} \cup Plain)

\* INCR of a key that also gets EXPIRE
IncrAndExpire == (k1 :> {"incr", "expire"}) @@ (k2 :> {})
=============================================================================
