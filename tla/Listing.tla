------------------------------- MODULE Listing -------------------------------
(***************************************************************************)
(* The list endpoints (app.py) and their queries in the two databases       *)
(* (db.py for SQLite, db_pg.py for Postgres): pages newest first, by a       *)
(* timestamp of the row and, within a second, by its id; each page begins    *)
(* after the cursor that the page before returned in x-next-cursor.          *)
(*                                                                          *)
(* A table, as one query sees it, is a set of rows.  Timestamps and ids are  *)
(* numbers, with 0 for the empty string and None for no value; a filter that *)
(* is not given is NULL.  A cursor without a "|", or in a dead letter queue  *)
(* with an id that is no number, is a 422 and not modelled.                  *)
(***************************************************************************)
EXTENDS Integers, SequencesExt

CONSTANTS
    RowIds,    \* ids of rows
    MaxStamp,  \* BOUND: the timestamps are 1 .. MaxStamp
    PageCap,   \* the largest page: 200 of cases, 500 of everything else
    Limits,    \* the limits a client asks for
    Fetches    \* BOUND: the pages of one traversal

ASSUME ListingAssumption ==
    /\ RowIds \subseteq Nat \ {0} /\ IsFiniteSet(RowIds) /\ Limits \subseteq Int
    /\ {MaxStamp, PageCap, Fetches} \subseteq Nat \ {0}

NULL == "null"
None == -1
NoCursor == [stamp |-> None, id |-> None]
Cursors == {NoCursor} \union [stamp : 0 .. MaxStamp, id : RowIds \union {0}]

\* Python's truth of an optional filter, and its test for None.
Given(filter) == filter \notin {NULL, ""}
Present(filter) == filter # NULL

-----------------------------------------------------------------------------
\* ORDER BY ts DESC, id DESC.
Newer(r, s) == r.stamp > s.stamp \/ (r.stamp = s.stamp /\ r.id > s.id)

\* The n-th row is the one with n - 1 newer rows.
Sorted(rows) ==
    [n \in 1 .. Cardinality(rows) |->
        CHOOSE r \in rows : Cardinality({q \in rows : Newer(q, r)}) = n - 1]

\* Mutant of After: rows of the cursor's second count as listed.
AfterSecond(cursor, r) == r.stamp < cursor.stamp

\* ts < ? OR (ts = ? AND id < ?)
After(cursor, r) ==
    r.stamp < cursor.stamp \/ (r.stamp = cursor.stamp /\ r.id < cursor.id)

\* limit_n = max(1, min(cap, limit)).
Clamp(limit) == Max({1, Min({PageCap, limit})})

Fetched(rows, limit) ==
    SubSeq(Sorted(rows), 1, Min({Cardinality(rows), Clamp(limit)}))

\* The rows after the cursor, where SQLite's queries of cases and subscriptions
\* look at the truth of both parts of the cursor and all others at None.
SqlitePage(rows, limit, cursor) ==
    Fetched({r \in rows : cursor.stamp > 0 /\ cursor.id > 0
                          => After(cursor, r)}, limit)
Page(rows, limit, cursor) ==
    Fetched({r \in rows : cursor.stamp # None /\ cursor.id # None
                          => After(cursor, r)}, limit)

\* Mutant of CaseSelected: with a status the assignee is not looked at.
CaseSelectedByOne(r, status, assignee) ==
    IF Given(status) THEN r.status = status
    ELSE Given(assignee) => r.assignee = assignee

\* The four queries of list_cases: both filters, one, the other, none.
CaseSelected(r, status, assignee) ==
    \/ Given(status) /\ Given(assignee) /\ r.status = status /\ r.assignee = assignee
    \/ Given(status) /\ ~Given(assignee) /\ r.status = status
    \/ ~Given(status) /\ Given(assignee) /\ r.assignee = assignee
    \/ ~Given(status) /\ ~Given(assignee)

ListCases(table, customer, status, assignee, limit, cursor) ==
    SqlitePage({r \in table : r.owner = customer /\ CaseSelected(r, status, assignee)},
               limit, cursor)

\* Postgres: a filter that is there filters, the empty string included.
ListCasesPg(table, customer, status, assignee, limit, cursor) ==
    Page({r \in table : /\ r.owner = customer
                        /\ Present(status) => r.status = status
                        /\ Present(assignee) => r.assignee = assignee},
         limit, cursor)

ListSubscriptions(table, customer, limit, cursor) ==
    SqlitePage({r \in table : r.owner = customer}, limit, cursor)
ListSubscriptionsPg(table, customer, limit, cursor) ==
    Page({r \in table : r.owner = customer}, limit, cursor)

\* The two dead letter queues are an administrator's: of all customers.
ListFailedDeliveries(table, limit, cursor) ==
    Page({r \in table : r.status = "failed"}, limit, cursor)
ListFailedDeliveriesPg(table, limit, cursor) ==
    Page({r \in table : r.status = "failed"}, limit, cursor)
ListFailedJobs(table, limit, cursor) ==
    Page({r \in table : r.status = "failed"}, limit, cursor)
ListFailedJobsPg(table, limit, cursor) ==
    Page({r \in table : r.status = "failed"}, limit, cursor)

-----------------------------------------------------------------------------
\* The x-next-cursor header: a full page may have a next one.
NextCursor(page, limit) ==
    IF Len(page) >= Clamp(limit) THEN [stamp |-> Last(page).stamp, id |-> Last(page).id]
    ELSE NoCursor

Answer(page, limit) == [items |-> page, next |-> NextCursor(page, limit)]

v2_list_cases(table, customer, status, assignee, limit, cursor) ==
    Answer(ListCases(table, customer, status, assignee, limit, cursor), limit)
v2_list_webhook_subscriptions(table, customer, limit, cursor) ==
    Answer(ListSubscriptions(table, customer, limit, cursor), limit)

\* The dead letter queues clamp the limit before the query, too.
admin_webhook_dlq(table, limit, cursor) ==
    Answer(ListFailedDeliveries(table, Clamp(limit), cursor), Clamp(limit))
admin_jobs_dlq(table, limit, cursor) ==
    Answer(ListFailedJobs(table, Clamp(limit), cursor), Clamp(limit))

-----------------------------------------------------------------------------
\* What a client has seen that follows the cursors of an endpoint, one page of
\* each table of the history, until there is no cursor.
Endpoints == {"cases", "subscriptions", "deliveries", "jobs"}

Serve(endpoint, table, limit, cursor) ==
    CASE endpoint = "cases" -> v2_list_cases(table, "c1", NULL, NULL, limit, cursor)
      [] endpoint = "subscriptions" -> v2_list_webhook_subscriptions(table, "c1", limit, cursor)
      [] endpoint = "deliveries" -> admin_webhook_dlq(table, limit, cursor)
      [] endpoint = "jobs" -> admin_jobs_dlq(table, limit, cursor)

\* The rows the endpoint selects, by the timestamp of each; 0 when it does not.
RowsOf(stamps) ==
    {[id |-> i, stamp |-> stamps[i], owner |-> "c1", status |-> "failed", assignee |-> NULL] :
        i \in {j \in RowIds : stamps[j] > 0}}

Start == [seen |-> <<>>, cursor |-> NoCursor, done |-> FALSE]
Visit(endpoint, walk, stamps, limit) ==
    IF walk.done THEN walk
    ELSE LET answer == Serve(endpoint, RowsOf(stamps), limit, walk.cursor)
         IN  [seen |-> walk.seen \o answer.items, cursor |-> answer.next,
              done |-> answer.next = NoCursor]

Traverse(endpoint, history, limit) ==
    LET walk[n \in 0 .. Fetches] ==
            IF n = 0 THEN Start ELSE Visit(endpoint, walk[n - 1], history[n], limit)
    IN  walk[Fetches]

-----------------------------------------------------------------------------
Histories == [1 .. Fetches -> [RowIds -> 0 .. MaxStamp]]

\* Paging against writers: a row that nobody touches during a traversal is
\* listed at most once, and has been when the traversal is over; a row is
\* listed twice only if it was moved to an older place; of a table at rest the
\* pages are its rows in order.
ListedOnce ==
    \A endpoint \in Endpoints, history \in Histories, limit \in Limits :
        LET walk == Traverse(endpoint, history, limit)
            seen == walk.seen
            Seen(i) == {n \in DOMAIN seen : seen[n].id = i}
            Still(i) == \A f \in 1 .. Fetches : history[f][i] = history[1][i]
        IN  /\ \A i \in RowIds :
                 Still(i) /\ history[1][i] > 0
                 => /\ Cardinality(Seen(i)) <= 1
                    /\ walk.done => Seen(i) # {}
            /\ \A i \in RowIds : \A m, n \in Seen(i) :
                 m < n => seen[n].stamp < seen[m].stamp
            /\ (\A i \in RowIds : Still(i))
               => IsPrefix(seen, Sorted(RowsOf(history[1])))

-----------------------------------------------------------------------------
Attributes == [stamp : 1 .. MaxStamp, owner : {"c1", "c2"},
               status : {"open", "failed"}, assignee : {NULL, "ann"}]
Tables ==
    LET Row(i, a) == [id |-> i, stamp |-> a.stamp, owner |-> a.owner,
                      status |-> a.status, assignee |-> a.assignee]
    IN  UNION {{{Row(i, f[i]) : i \in ids} : f \in [ids -> Attributes]} :
               ids \in {s \in SUBSET RowIds : Cardinality(s) = 2}}

\* The two databases answer every list request alike, as long as no filter and
\* no part of a cursor is the empty string, which SQLite takes for absent and
\* Postgres for a value; no list mixes customers.
BackendsAgree ==
    \A table \in Tables, limit \in Limits,
       cursor \in {c \in Cursors : c.stamp # 0 /\ c.id # 0} :
        /\ \A status \in {NULL, "open", "failed"}, assignee \in {NULL, "ann"} :
             LET page == ListCases(table, "c1", status, assignee, limit, cursor) IN
             /\ page = ListCasesPg(table, "c1", status, assignee, limit, cursor)
             /\ \A r \in Range(page) : r.owner = "c1"
        /\ ListSubscriptions(table, "c1", limit, cursor)
           = ListSubscriptionsPg(table, "c1", limit, cursor)
        /\ ListFailedDeliveries(table, limit, cursor)
           = ListFailedDeliveriesPg(table, limit, cursor)
        /\ ListFailedJobs(table, limit, cursor) = ListFailedJobsPg(table, limit, cursor)
=============================================================================
