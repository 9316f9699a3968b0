----------------------------- MODULE StreamType -----------------------------
(***************************************************************************)
(* src/cmd/stream.rs: a stream is a subkey per entry, under the id of the  *)
(* entry; its metadata hold the number of entries and the last id, in an   *)
(* encoding of their own that the commands on keys do not know.            *)
(***************************************************************************)
EXTENDS Keyspace, Paging

CONSTANTS
    MaxMs, MaxSeq,  \* ids are <<ms, seq>>; MaxSeq stands for u64::MAX
    MaxSize,        \* bound on the number of entries
    PageSize,       \* STREAM_PAGE_LIMIT
    Specs,          \* id arguments of XADD
    RangeBounds,    \* start and end of XRANGE
    RangeCounts     \* COUNT of XRANGE, or None

Ids == (0..MaxMs) \X (0..MaxSeq)

\* "*", "ms-*", or an id.
IdSpecs ==
    [kind : {"auto"}] \cup [kind : {"ms"}, ms : 0..MaxMs] \cup [kind : {"id"}, id : Ids]

ASSUME StreamAssumption ==
    /\ Versions \subseteq Nat
    /\ MaxMs \in Nat /\ MaxNow \in 2 .. MaxMs /\ MaxSeq \in Nat
    /\ MaxSize \in Nat /\ PageSize \in Nat \ {0}
    /\ Fields = Ids
    /\ Specs \subseteq IdSpecs
    /\ RangeBounds \subseteq Ids /\ RangeCounts \subseteq Nat \cup {None}

\* read_stream_meta
OtherType == meta # None /\ meta.t # "stream"
Live == IF meta = None THEN FALSE ELSE meta.t = "stream" /\ ~IsExpired(meta)

Refused == OtherType /\ Replies(<<"stream">>, WrongType) /\ Unchanged

EntryIds(version) == {id \in Fields : sub[version][id] # None}

AtMost(a, b) == a = b \/ Less(a, b)

-----------------------------------------------------------------------------

PreviousInMs(m) == {<<m.last[1], m.last[2] - 1>>}

\* last_seq + 1 in u64: beyond the maximum a build with overflow checks
\* panics, the others start again at 0.
NextInMs(m) ==
    IF m.last[2] < MaxSeq THEN {<<m.last[1], m.last[2] + 1>>}
    ELSE {<<m.last[1], 0>>, <<"panic">>}

GenerateIdFromClock(spec, m) ==
    CASE spec.kind = "auto" -> {<<now, 0>>}
      [] spec.kind = "ms" -> IF spec.ms > m.last[1] THEN {<<spec.ms, 0>>} ELSE NextInMs(m)
      [] spec.kind = "id" ->
           IF m.size > 0 /\ AtMost(spec.id, m.last) THEN {<<"error">>} ELSE {spec.id}

GenerateIdInGivenMs(spec, m) ==
    CASE spec.kind = "auto" -> IF now > m.last[1] THEN {<<now, 0>>} ELSE NextInMs(m)
      [] spec.kind = "ms" -> IF spec.ms > m.last[1] THEN {<<spec.ms, 0>>}
                             ELSE {<<spec.ms, m.last[2] + 1>>}
      [] spec.kind = "id" ->
           IF m.size > 0 /\ AtMost(spec.id, m.last) THEN {<<"error">>} ELSE {spec.id}

\* generate_id: an id, or how it fails
GenerateId(spec, m) ==
    CASE spec.kind = "auto" -> IF now > m.last[1] THEN {<<now, 0>>} ELSE NextInMs(m)
      [] spec.kind = "ms" -> IF spec.ms > m.last[1] THEN {<<spec.ms, 0>>} ELSE NextInMs(m)
      [] spec.kind = "id" ->
           IF m.size > 0 /\ AtMost(spec.id, m.last) THEN {<<"error">>} ELSE {spec.id}

\* The end of xadd: entry and metadata in one batch.
XAddTo(spec, m, id, value) ==
    /\ m.size < MaxSize
    /\ sub' = [sub EXCEPT ![m.ver][id] = value]
    /\ meta' = [m EXCEPT !.size = @ + 1, !.last = id]
    /\ drawn' = drawn \cup {m.ver}
    /\ Replies(<<"xadd", spec>>, <<"id", id>>)
    /\ UNCHANGED <<score, now>>

\* xadd
XAdd(spec, value) ==
    /\ ~OtherType
    /\ \E m \in IF Live THEN {meta} ELSE {NewMeta("stream", v) : v \in GenerateVersion} :
         \E id \in GenerateId(spec, m) :
           \/ Len(id) = 2 /\ XAddTo(spec, m, id, value)
           \/ Len(id) = 1 /\ Unchanged /\ Replies(<<"xadd", spec>>, id)

\* xlen
XLen ==
    /\ ~OtherType
    /\ Replies(<<"xlen">>, Int64(IF Live THEN meta.size ELSE 0))
    /\ Unchanged

\* The entries of the stream in pages from the first one
StreamPages ==
    LET keys == {<<v, id[1], id[2]>> : v \in Versions, id \in Fields}
        stored == {k \in keys : sub[k[1]][<<k[2], k[3]>>] # None}
        read == PrefixScanPages(stored, meta.ver, << >>, PageSize, FALSE)
    IN  IF Live THEN [i \in 1..Len(read) |-> <<read[i][2], read[i][3]>>] ELSE << >>

\* xrange.  `*n -= 1` of COUNT 0 panics with overflow checks and counts down
\* from usize::MAX without.
XRange(start, end, count) ==
    LET in(id) == AtMost(start, id) /\ AtMost(id, end)
        all == SelectSeq(StreamPages, in)
        n == IF count = None THEN Len(all) ELSE IF count < Len(all) THEN count ELSE Len(all)
        answers == IF count # 0 \/ all = << >> THEN {<<"ids", SubSeq(all, 1, n)>>}
                   ELSE {<<"ids", all>>, <<"panic">>}
    IN  /\ ~OtherType
        /\ \E r \in answers : Replies(<<"xrange", start, end, count>>, r)
        /\ Unchanged

EntriesAfterLastPage(id) ==
    LET later(e) == ~AtMost(e, id)
        all == SelectSeq(StreamPages, later)
    IN  SubSeq(all, IF Len(all) > PageSize THEN Len(all) - PageSize + 1 ELSE 1, Len(all))

\* xread of this one stream: the entries after an id
EntriesAfter(id) ==
    LET later(e) == ~AtMost(e, id)
    IN  SelectSeq(StreamPages, later)

XRead(id) ==
    /\ ~OtherType
    /\ Replies(<<"xread", id>>, <<"ids", EntriesAfter(id)>>)
    /\ Unchanged

\* The wall clock is set back.
ClockBack ==
    /\ now > 0
    /\ now' = now - 1
    /\ UNCHANGED <<meta, sub, score, drawn, reply>>

StreamWrite == \E spec \in Specs, value \in Vals : XAdd(spec, value)

StreamRead ==
    \/ Refused
    \/ XLen
    \/ \E start, end \in RangeBounds, count \in RangeCounts : XRange(start, end, count)

Init == KeyInit
Next == StreamWrite \/ StreamRead \/ ClockBack \/ KeyCommand
Spec == Init /\ [][Next]_keyVars

-----------------------------------------------------------------------------

\* Type invariant.
TypeOK == KeyTypeOK

IsStream == IF meta = None THEN FALSE ELSE meta.t = "stream"

\* types.rs:81: the size in the metadata is the number of entries; an XADD
\* never replaces an entry.
SizeInv == IsStream => meta.size = Cardinality(EntryIds(meta.ver))

\* stream.rs:244, 265 and 272: ids grow.  An entry XADD adds to a stream has
\* a greater id than every entry it has.
IdsGrow ==
    [][StreamWrite /\ Live /\ meta' # meta =>
         \A id \in EntryIds(meta.ver) : Less(id, meta'.last)]_keyVars
=============================================================================
