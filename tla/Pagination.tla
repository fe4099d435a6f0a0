------------------------------ MODULE Pagination ------------------------------
(***************************************************************************)
(* The cursor-paginated lists: payments, customers and the deliveries of a *)
(* webhook endpoint.  A client follows next_cursor from page to page while *)
(* rows are inserted, possibly with an older createdAt than rows it has    *)
(* seen, and deliveries change their status.  Times and ids are numbers:   *)
(* createdAt is encoded to the millisecond it is stored with, so a cursor  *)
(* names its row.  The rows are those of one merchant and environment.     *)
(***************************************************************************)
EXTENDS Naturals, Sequences

CONSTANTS
    RowIds,    \* ids of the rows, compared as ObjectIds
    Times,     \* values of createdAt
    Statuses,  \* statuses a delivery can be filtered by
    Limits     \* page sizes a client asks for

ASSUME RowsAssumption == RowIds \subseteq Nat \ {0} /\ Times \subseteq Nat
ASSUME LimitsAssumption == Limits \subseteq Nat \ {0}

Resources == {"payments", "customers", "deliveries"}

VARIABLES
    table,     \* the rows of the collection
    resource,  \* the list the client reads
    filter,    \* the status asked for, or "any"
    cursor,    \* the next_cursor of the last page
    pages,     \* what the responses showed so far, page after page
    reading,   \* "no", "yes", "done" or "rejected"
    \* history, read by properties only
    steady     \* rows that were there and matched ever since the first page

pagingVars == <<table, resource, filter, cursor, pages, reading, steady>>

Row == [id : RowIds, at : Times, status : Statuses]
NoCursor == [id |-> 0, at |-> 0]

(* A client may send what is no cursor. *)
GarbledCursor == [id |-> 0, at |-> 1]

PagingInit ==
    /\ table = {}
    /\ resource \in Resources
    /\ filter \in IF resource = "deliveries" THEN Statuses \cup {"any"} ELSE {"any"}
    /\ cursor = NoCursor
    /\ pages = <<>>
    /\ reading = "no"
    /\ steady = {}

Matches(row) == filter \in {"any", row.status}
Matching == {row \in table : Matches(row)}

-----------------------------------------------------------------------------
(* Pages *)

(* orderBy createdAt desc, id desc *)
Newer(r, s) == r.at > s.at \/ (r.at = s.at /\ r.id > s.id)

(* Mutant: the cursor compares createdAt only. *)
BeyondTime(row, c) == c = NoCursor \/ row.at < c.at
Beyond(row, c) == c = NoCursor \/ row.at < c.at \/ (row.at = c.at /\ row.id < c.id)

encodeCursor(row) == [id |-> row.id, at |-> row.at]

(* A cursor without t or id, or that is no JSON, counts as none: the first page. *)
decodeCursor(c) == IF c = GarbledCursor THEN NoCursor ELSE c

(* The first rows of the order, as many as asked for or all there are. *)
FirstRows(rows, take) ==
    CHOOSE s \in UNION {[1..n -> rows] : n \in 0..take} :
        /\ \A i, j \in DOMAIN s : i < j => Newer(s[i], s[j])
        /\ \A row \in rows : \/ \E i \in DOMAIN s : s[i] = row
                             \/ Len(s) = take /\ \A i \in DOMAIN s : Newer(s[i], row)

(* What is fetched beyond the limit tells whether there are more. *)
Page(rows, limit) ==
    LET hasMore == Len(rows) > limit
        data == IF hasMore THEN SubSeq(rows, 1, limit) ELSE rows
    IN [data |-> data, hasMore |-> hasMore,
        nextCursor |-> IF hasMore THEN encodeCursor(data[Len(data)]) ELSE NoCursor]

findAllPayments(limit, c) ==
    Page(FirstRows({row \in table : Beyond(row, c)}, limit + 1), limit)

findAllCustomerRows(take, c) == FirstRows({row \in table : Beyond(row, c)}, take)
findAllCustomers(limit, c) == Page(findAllCustomerRows(limit + 1, c), limit)

listDeliveries(limit, c) ==
    Page(FirstRows({row \in Matching : Beyond(row, c)}, limit + 1), limit)

(* Responses show a row by its public id, never by the id the cursor holds. *)
toPaymentResponse(row) == [public |-> row.id, created_at |-> row.at]
toCustomerResponse(row) == [public |-> row.id, created_at |-> row.at]
toWebhookDeliveryResponse(row) == [public |-> row.id, created_at |-> row.at]

ListResponse(page, data) ==
    [data |-> data, has_more |-> page.hasMore, next_cursor |-> page.nextCursor]
toPaymentListResponse(page) ==
    ListResponse(page, [i \in DOMAIN page.data |-> toPaymentResponse(page.data[i])])
toCustomerListResponse(page) ==
    ListResponse(page, [i \in DOMAIN page.data |-> toCustomerResponse(page.data[i])])
toWebhookDeliveryListResponse(page) ==
    ListResponse(page, [i \in DOMAIN page.data |-> toWebhookDeliveryResponse(page.data[i])])

List(limit, c) ==
    CASE resource = "payments" -> toPaymentListResponse(findAllPayments(limit, c))
      [] resource = "customers" -> toCustomerListResponse(findAllCustomers(limit, c))
      [] OTHER -> toWebhookDeliveryListResponse(listDeliveries(limit, c))

Receive(response) ==
    /\ pages' = pages \o response.data
    /\ cursor' = response.next_cursor
    /\ reading' = IF response.has_more THEN "yes" ELSE "done"

(* The first page, asked for without a cursor or with one that is none. *)
FirstPage(limit, c) ==
    /\ reading = "no"
    /\ Receive(List(limit, decodeCursor(c)))
    /\ steady' = {row.id : row \in Matching}
    /\ UNCHANGED <<table, resource, filter>>

(* The query with an invalid Date rejects. *)
BadDate ==
    /\ reading = "no"
    /\ reading' = "rejected"
    /\ UNCHANGED <<table, resource, filter, cursor, pages, steady>>

NextPage(limit) ==
    /\ reading = "yes"
    /\ Receive(List(limit, decodeCursor(cursor)))
    /\ UNCHANGED <<table, resource, filter, steady>>

-----------------------------------------------------------------------------
(* What changes beside *)

Insert(row) ==
    /\ \A other \in table : other.id # row.id
    /\ table' = table \cup {row}
    /\ UNCHANGED <<resource, filter, cursor, pages, reading, steady>>

SetStatus(row, s) ==
    /\ resource = "deliveries" /\ row.status # s
    /\ table' = (table \ {row}) \cup {[row EXCEPT !.status = s]}
    /\ steady' = steady \ (IF Matches([row EXCEPT !.status = s]) THEN {} ELSE {row.id})
    /\ UNCHANGED <<resource, filter, cursor, pages, reading>>

PagingNext ==
    /\ reading \in {"no", "yes"}
    /\ \/ \E limit \in Limits, c \in {NoCursor, GarbledCursor} : FirstPage(limit, c)
       \/ \E limit \in Limits : NextPage(limit)
       \/ BadDate
       \/ \E row \in Row : Insert(row)
       \/ \E row \in table, s \in Statuses : SetStatus(row, s)

PagingSpec == PagingInit /\ [][PagingNext]_pagingVars

-----------------------------------------------------------------------------
(* A client that follows the cursors sees no row twice and none out of order,     *)
(* and, once has_more is false, every row that was there and matched throughout,  *)
(* whatever was inserted or changed between its pages.                            *)
PagesAreComplete ==
    /\ \A i \in 1..Len(pages) - 1 :
          LET p == pages[i]  q == pages[i + 1]
          IN Newer([id |-> p.public, at |-> p.created_at], [id |-> q.public, at |-> q.created_at])
    /\ reading = "done" => steady \subseteq {pages[i].public : i \in DOMAIN pages}
=============================================================================
