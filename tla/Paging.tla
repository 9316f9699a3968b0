------------------------------- MODULE Paging -------------------------------
(***************************************************************************)
(* prefix_scan_page and prefix_scan_page_reverse (src/storage.rs): an      *)
(* iterator over a column family in byte order, from a start key, that     *)
(* stops when a page is full or a key has another prefix.                  *)
(*                                                                         *)
(* A key is a tuple whose first component stands for the prefix (user key  *)
(* and version) and whose others are numbers in the order of their bytes.  *)
(* << >> is the empty start key and the absent next key.                   *)
(***************************************************************************)
EXTENDS Integers, FiniteSets, SequencesExt

Less(d, e) ==
    \E i \in 1..Len(d) : d[i] < e[i] /\ \A j \in 1..i-1 : d[j] = e[j]

\* d comes before e in the order of the scan
Before(d, e, reverse) == IF reverse THEN Less(e, d) ELSE Less(d, e)

FromStartSkipping(keys, prefix, start) ==
    IF start = << >> THEN {e \in keys : e[1] >= prefix}
    ELSE LET from == {e \in keys : ~Less(e, start)}
         IN  {e \in from : \E d \in from : Less(d, e)}

FromStartInclusive(keys, prefix, start) ==
    IF start = << >> THEN {e \in keys : e[1] >= prefix}
    ELSE {e \in keys : ~Less(e, start)}

\* Where the iterator starts: at the prefix, or after the start key, which
\* is skipped if it is (still) there.
FromStart(keys, prefix, start) ==
    IF start = << >> THEN {e \in keys : e[1] >= prefix}
    ELSE {e \in keys : Less(start, e)}

\* The reverse iterator: from the end of the prefix, or before the start key.
FromEnd(keys, prefix, start) ==
    IF start = << >> THEN {e \in keys : e[1] <= prefix}
    ELSE {e \in keys : Less(e, start)}

\* The next start key after a page of k: its last key, if the key after it
\* has the prefix as well.
NextKey(order, k) == IF k < Len(order) THEN order[k] ELSE << >>

\* The page and the next start key: up to `limit` keys until one of another
\* prefix comes.
PageOf(from, prefix, limit, reverse) ==
    LET before(d, e) == Before(d, e, reverse)
        boundary == {e \in from : e[1] # prefix}
        matching == {e \in from : \A d \in boundary : before(e, d)}
        order == SetToSortSeq(matching, before)
        k == IF limit < Len(order) THEN limit ELSE Len(order)
    IN  [items |-> SubSeq(order, 1, k), next |-> NextKey(order, k)]

PrefixScanPage(keys, prefix, start, limit) ==
    PageOf(FromStart(keys, prefix, start), prefix, limit, FALSE)

PrefixScanPageReverse(keys, prefix, start, limit) ==
    PageOf(FromEnd(keys, prefix, start), prefix, limit, TRUE)

FirstPageOnly(keys, prefix, start, limit, reverse) ==
    IF reverse THEN PrefixScanPageReverse(keys, prefix, start, limit).items
    ELSE PrefixScanPage(keys, prefix, start, limit).items

\* The loop the commands read with: page after page until there is no next
\* key.
PrefixScanPages(keys, prefix, start, limit, reverse) ==
    LET page(from) == IF reverse THEN PrefixScanPageReverse(keys, prefix, from, limit)
                      ELSE PrefixScanPage(keys, prefix, from, limit)
        \* what the first n + 1 pages have read, and the next key
        read[n \in 0..Cardinality(keys)] ==
            IF n = 0 THEN page(start)
            ELSE IF read[n-1].next = << >> THEN read[n-1]
            ELSE LET p == page(read[n-1].next)
                 IN  [items |-> read[n-1].items \o p.items, next |-> p.next]
    IN  read[Cardinality(keys)].items
=============================================================================
