------------------------------ MODULE HashScan ------------------------------
(***************************************************************************)
(* A client that iterates over a hash with HSCAN (src/cmd/hash.rs) while   *)
(* other clients write it.  The cursor is the last subkey of the page, so  *)
(* the server keeps nothing between two calls.                             *)
(***************************************************************************)
EXTENDS HashType

CONSTANT Counts   \* COUNT arguments

ASSUME CountsAssumption == Counts \subseteq Nat

VARIABLES
    cursor,    \* << >> for the cursor "0", or the subkey it encodes
    scanning,  \* the client is in the middle of an iteration
    stable,    \* fields the hash has had since the iteration began
    returned   \* fields of this hash the iteration has returned

scanVars == <<cursor, scanning, stable, returned>>

HashFields == IF Found THEN {f \in Fields : sub[meta.ver][f] # None} ELSE {}

ScanInit ==
    /\ Init
    /\ cursor = << >> /\ scanning = FALSE
    /\ stable = {} /\ returned = {}

\* hscan, from the cursor of the last answer.  A page holds an entry even if
\* COUNT is 0.
HScan(count) ==
    LET page == IF Found
                THEN PrefixScanPage(Entries, meta.ver, cursor,
                                    IF count = 0 THEN 1 ELSE count)
                ELSE [items |-> << >>, next |-> << >>]
        got == {page.items[i][2] : i \in 1..Len(page.items)}
    IN  /\ ~OtherType
        /\ cursor' = page.next
        /\ scanning' = (page.next # << >>)
        /\ stable' = IF scanning THEN stable ELSE HashFields
        /\ returned' = IF scanning THEN returned \cup got ELSE got
        /\ Replies(<<"hscan", cursor, count>>, <<"page", page.next, got>>)
        /\ Unchanged

\* A command of anybody else.  Fields are stable in one hash: those of a
\* hash that was deleted and made again are new ones.
Other ==
    /\ Next
    /\ LET same == Found' /\ meta'.ver = meta.ver
       IN  /\ stable' = {f \in stable : same /\ sub'[meta.ver][f] # None}
           /\ returned' = {f \in returned : same}
    /\ UNCHANGED <<cursor, scanning>>

ScanNext == Other \/ \E count \in Counts : HScan(count)

ScanSpec == ScanInit /\ [][ScanNext]_<<keyVars, scanVars>>

-----------------------------------------------------------------------------

\* An iteration that has come to its end has returned every field that was
\* there from its first call to its last, whatever was written in between
\* and even if the field the cursor names has been deleted.
ScanComplete == ~scanning => stable \subseteq returned

\* An iteration returns no field of a hash twice, not even one that was
\* deleted and set again between two calls: a page starts after the entry
\* that the cursor of the last one names (hash.rs:272-286).
ReturnedOnce ==
    [][scanning /\ reply'[1][1] = "hscan" => reply'[2][3] \cap returned = {}]_<<keyVars, scanVars>>
=============================================================================
