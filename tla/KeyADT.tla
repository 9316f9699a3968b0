------------------------------- MODULE KeyADT -------------------------------
(***************************************************************************)
(* What a key promises: it is missing, or holds a string, or a value of    *)
(* the one composite type this is about.  There are no versions, subkeys   *)
(* or column families.  An expired value is kept until the key is written  *)
(* again, since EXPIRE and PERSIST bring it back.                          *)
(***************************************************************************)
EXTENDS Integers, Sequences

CONSTANTS
    TTLs,
    Empty     \* the value of a fresh key of this type

VARIABLES
    type,     \* "none", "string" or "composite"
    content,  \* the value, Empty unless type = "composite"
    exp,      \* 0, or when the key expires
    now,
    reply     \* the last command and its answer

vars == <<type, content, exp, now, reply>>

Expired == exp > 0 /\ exp <= now
Exists == type # "none" /\ ~Expired
Shown == IF Expired THEN Empty ELSE content

Init ==
    /\ type = "none" /\ content = Empty /\ exp = 0
    /\ now = 2 /\ reply = <<<<"none">>, <<"nil">>>>

\* The first conjunct spares TLC the answers of all the other commands.
Tell(command, r) ==
    /\ reply'[1] = command
    /\ reply' = <<command, r>>

Answer(command, r) ==
    /\ Tell(command, r)
    /\ UNCHANGED <<type, content, exp, now>>

Become(t, value, e, command, r) ==
    /\ Tell(command, r)
    /\ type' = t /\ content' = value /\ exp' = e
    /\ UNCHANGED now

\* Commands of the type: an expired value is forgotten with its expiry when
\* it is written; another type is in the way, expired or not.
Write(value, command, r) ==
    Become("composite", value, IF Expired THEN 0 ELSE exp, command, r)

Refused(name) == type = "string" /\ Answer(<<name>>, <<"wrongtype">>)

SetTo(e, command) == Become("string", Empty, e, command, <<"ok">>)

\* SET, SET NX, SET XX, DEL, EXPIRE, PERSIST, FLUSHDB and the clock.
KeyCommand ==
    \/ \E ttl \in TTLs : ttl > 0 /\ SetTo(now + ttl, <<"set", ttl>>)
    \/ SetTo(0, <<"set", 0>>)
    \/ IF Exists THEN Answer(<<"setnx">>, <<"nil">>) ELSE SetTo(0, <<"setnx">>)
    \/ IF Exists THEN SetTo(0, <<"setxx">>) ELSE Answer(<<"setxx">>, <<"nil">>)
    \/ Become("none", Empty, 0, <<"del">>, <<"int", IF type = "none" THEN 0 ELSE 1>>)
    \/ \E ttl \in TTLs :
         IF type = "none" THEN Answer(<<"expire", ttl>>, <<"int", 0>>)
         ELSE Become(type, content, now + ttl, <<"expire", ttl>>, <<"int", 1>>)
    \/ IF type # "none" /\ exp > 0
       THEN Become(type, content, 0, <<"persist">>, <<"int", 1>>)
       ELSE Answer(<<"persist">>, <<"int", 0>>)
    \/ Become("none", Empty, 0, <<"flushdb">>, <<"ok">>)
    \/ now' = now + 1 /\ UNCHANGED <<type, content, exp, reply>>
=============================================================================
