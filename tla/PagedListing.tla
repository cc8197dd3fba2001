---------------------------- MODULE PagedListing ----------------------------
(***************************************************************************)
(* The listings a client reads page by page, with a number of rows to skip *)
(* as the token: the log entries (QueryLogs, newest first by the time the  *)
(* sender gave), the audit events (QueryAuditTrail, in the order of seq)   *)
(* and the cases of a status (ListCases, newest first). Each page is a     *)
(* query of its own with LIMIT and OFFSET, and rows arrive between two of  *)
(* them: anywhere, as a log's time, a seq and a created_at are all chosen  *)
(* before the row is committed.                                            *)
(***************************************************************************)
EXTENDS Naturals, Sequences, SequencesExt

CONSTANTS Rows, Places, \* the rows, and where in the order one may stand
          Sizes,        \* the page sizes asked for, after the default
          MaxPage       \* the cap of 500 rows

VARIABLES listing, \* which of the listings
          place,   \* where each row that meets the filter stands; 0 for the others
          walk     \* the client's walk through the pages

vars == <<listing, place, walk>>

Listings == {"logs", "audit", "cases"}

NoWalk == [at |-> "none"]

Init ==
    /\ listing \in Listings
    /\ place = [r \in Rows |-> 0]
    /\ walk = NoWalk

Listed == {r \in Rows : place[r] # 0}

\* Rows that share their place with no other: ORDER BY leaves the others in any
\* order, which may differ from one query to the next.
Distinct(rs) == {r \in rs : \A other \in Listed \ {r} : place[other] # place[r]}

-----------------------------------------------------------------------------
(* Rows *)

\* Insert of IngestLog and of the log consumer, AppendEvent, CreateCase.
InsertRow(r, p) ==
    /\ place[r] = 0
    /\ place' = [place EXCEPT ![r] = p]
    /\ walk' = IF walk = NoWalk THEN walk
               ELSE [walk EXCEPT !.watched = {x \in @ : place[x] # p}]
    /\ UNCHANGED listing

\* A case takes another status. Those behind it move up.
LeaveFilter(r) ==
    /\ listing = "cases"
    /\ place[r] # 0
    /\ place' = [place EXCEPT ![r] = 0]
    /\ walk' = IF walk = NoWalk THEN walk
               ELSE [walk EXCEPT !.watched = {x \in @ : place[x] < place[r]}]
    /\ UNCHANGED listing

-----------------------------------------------------------------------------
(* Pages *)

Capped(size) == IF size > MaxPage THEN MaxPage ELSE size

\* pageSize in the handler.
PageSize(size) == IF listing = "audit" THEN Capped(size) ELSE size

\* LIMIT in the store.
RowLimit(size) == IF listing = "logs" THEN Capped(size) ELSE PageSize(size)

\* Fault: the token is made from the size that was asked for.
NextOffset_Asked(size) == walk.offset + size

\* The next token, an offset.
NextOffset(size) == walk.offset + PageSize(size)

Orders == {s \in SetToSeqs(Listed) :
              \A i, j \in DOMAIN s : i < j => place[s[i]] <= place[s[j]]}

StartWalk(size) ==
    /\ walk = NoWalk
    /\ walk' = [at |-> "paging", size |-> size, offset |-> 0, seen |-> {},
                watched |-> Distinct(Listed)]
    /\ UNCHANGED <<listing, place>>

\* A page as long as pageSize carries the token of the next one.
NextPage ==
    /\ walk.at = "paging"
    /\ \E order \in Orders :
        LET last == walk.offset + RowLimit(walk.size)
            page == SubSeq(order, walk.offset + 1,
                           IF last > Len(order) THEN Len(order) ELSE last)
            full == Len(page) = PageSize(walk.size)
        IN  walk' = [walk EXCEPT
                !.at = IF full THEN "paging" ELSE "ended",
                !.offset = IF full THEN NextOffset(walk.size) ELSE @,
                !.seen = @ \cup ToSet(page)]
    /\ UNCHANGED <<listing, place>>

LeaveWalk ==
    /\ walk # NoWalk
    /\ walk' = NoWalk
    /\ UNCHANGED <<listing, place>>

Next ==
    \/ \E r \in Rows, p \in Places : InsertRow(r, p)
    \/ \E r \in Rows : LeaveFilter(r)
    \/ \E size \in Sizes : StartWalk(size)
    \/ NextPage
    \/ LeaveWalk

-----------------------------------------------------------------------------
(* Properties *)

TypeOK ==
    /\ listing \in Listings
    /\ place \in [Rows -> Places \cup {0}]
    /\ walk \in {NoWalk} \cup
           [at : {"paging", "ended"}, size : Sizes, offset : Nat,
            seen : SUBSET Rows, watched : SUBSET Rows]

\* A walk to the last page returns every row that was there when it began, however
\* many arrive meanwhile, unless the row shares its place in the order with
\* another or a row before it has left the filter. (Only QueryLogs must not be
\* asked for pages above its cap: its handler compares with the size asked for,
\* its store returns no more than the cap, and the walk ends at the first page.)
WalksMissNothing ==
    (walk # NoWalk /\ walk.at = "ended" /\ (listing = "logs" => walk.size <= MaxPage)) =>
        walk.watched \subseteq walk.seen
=============================================================================
