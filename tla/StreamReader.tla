---------------------------- MODULE StreamReader ----------------------------
(***************************************************************************)
(* A client that follows a stream with XREAD (src/cmd/stream.rs), always   *)
(* from the last id it has seen, while others write the stream.            *)
(***************************************************************************)
EXTENDS StreamType

VARIABLES
    cursor,     \* the last id the reader has seen, 0-0 at first
    following,  \* the version of the stream it saw it in
    known       \* the entries that stream had then

readerVars == <<cursor, following, known>>

ReaderInit == Init /\ cursor = NoId /\ following = None /\ known = {}

\* An XREAD of the reader.  A stream that was deleted and made again is
\* another one, which it reads from its start.
Follow ==
    LET from == IF Live THEN IF following = meta.ver THEN cursor ELSE NoId ELSE cursor
        got == EntriesAfter(from)
    IN  /\ XRead(from)
        /\ cursor' = IF got = << >> THEN from ELSE got[Len(got)]
        /\ following' = IF Live THEN meta.ver ELSE following
        /\ known' = IF Live
                    THEN (IF following = meta.ver THEN known ELSE {})
                           \cup {got[i] : i \in 1..Len(got)}
                    ELSE known

Others == Next /\ UNCHANGED readerVars

ReaderSpec == ReaderInit /\ [][Follow \/ Others]_<<keyVars, readerVars>>

-----------------------------------------------------------------------------

\* A reader misses nothing: an entry of the stream it follows has been
\* delivered to it or is still ahead of it, whatever clock the ids come from
\* and through changes of the clock.
NothingMissed ==
    Live /\ following = meta.ver =>
        \A id \in EntryIds(meta.ver) : id \in known \/ Less(cursor, id)
=============================================================================
