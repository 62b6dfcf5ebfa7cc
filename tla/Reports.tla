------------------------------ MODULE Reports -------------------------------
(***************************************************************************)
(* The read side: a restaurant's transaction list, the platform ledger     *)
(* with its CSV export, the admin list of subscribers and the subscription *)
(* status.  A reader walks through the pages of one list while rows are    *)
(* inserted and change; every page is answered by two queries, a count and *)
(* a findMany, which run side by side.  Lists are paged by offset; the     *)
(* ledger orders by createdAt and id, the other two by one column, and the *)
(* database may return ties in any order.                                  *)
(*                                                                         *)
(* Time is counted in half hours from 2023-01-01T00:00Z.  The ledger cuts  *)
(* days at midnight in India, 5.5 hours earlier than UTC, the transaction  *)
(* list at midnight UTC.  Each behaviour follows one of the three lists; a *)
(* row's id is its place in the table.                                     *)
(***************************************************************************)
EXTENDS Naturals, Sequences, FiniteSets

CONSTANTS
    Venues,         \* restaurants
    Times,          \* the instants at which something happens to each list
    Samples,        \* what rows are inserted with
    Queries,        \* what readers of each list ask for
    MaxRows,        \* rows ever inserted into each list
    DayLen,         \* half hours of a day
    Offset,         \* INDIA_TIMEZONE_OFFSET_MS
    Null

Kinds == {"ledger", "transactions", "subscribers"}

\* cls is the type or status that a row is filtered by.
Classes(kind) ==
    CASE kind = "ledger"       -> {"CUSTOMER_PAYMENT_INTAKE", "SETTLEMENT_DISBURSED",
                                   "REFUND_EXPENSE"}
      [] kind = "transactions" -> {"CREATED", "CAPTURED", "SUCCESS", "FAILED", "REFUNDED"}
      [] kind = "subscribers"  -> {"PENDING", "ACTIVE", "EXPIRED", "CANCELLED", "PAST_DUE"}

AnyClass == UNION {Classes(k) : k \in Kinds}

\* tag: where the row's texts contain the search term; amount and end belong to
\* transactions and subscriptions.
Row == [at : Nat, cls : AnyClass, venue : Venues, tag : {"none", "orderId", "other"},
        amount : Nat, end : Nat]

\* The choices of whoever inserts a row; the rest is computed.
Sample == [cls : Classes("ledger"), venue : Venues, tag : {"none", "orderId", "other"},
           amount : Nat, cycle : {"MONTHLY", "YEARLY"}]

\* from, to: dates as day numbers; min, max: amounts; each may be Null.
Query == [cls : AnyClass \cup {"ALL"}, venue : Venues \cup {Null},
          from : Nat \cup {Null}, to : Nat \cup {Null},
          min : Nat \cup {Null}, max : Nat \cup {Null}, search : BOOLEAN,
          method : {"ALL", "UPI", "CARD", "NETBANKING"},
          sort : {"createdAt", "amountPaise", "currentPeriodStart",
                  "currentPeriodEnd", "status"},
          dir : {"asc", "desc"}, limit : 1..100]

\* A query that restricts nothing.
Everything == [cls |-> "ALL", venue |-> Null, from |-> Null, to |-> Null,
               min |-> Null, max |-> Null, search |-> FALSE, method |-> "ALL",
               sort |-> "createdAt", dir |-> "desc", limit |-> 1]

ASSUME TimeAssumption ==
    /\ DayLen \in Nat \ {0} /\ Offset \in 0..DayLen
    /\ \A k \in Kinds : Times[k] \subseteq Nat /\ \A t \in Times[k] : t >= DayLen
ASSUME RowsAssumption == MaxRows \in [Kinds -> Nat]
ASSUME InputAssumption ==
    Queries \in [Kinds -> SUBSET Query] /\ Samples \in [Kinds -> SUBSET Sample]
ASSUME NullAssumption  == Null \notin Venues \cup Nat

VARIABLES
    kind,       \* the list this behaviour is about
    table,      \* its rows, in the order of their commits
    now,
    walk        \* the reader

vars == <<kind, table, now, walk>>

\* ids: the rows the search found, or Null before it; total, rows: the answers
\* of the two queries of the page being fetched.
\* history: the length of the table and the rows that matched when the walk
\* began, the rows shown so far, and whether a matching row stopped matching,
\* moved, or was not searched for.
Idle == [pc |-> "idle", q |-> Null, page |-> 1, ids |-> Null, total |-> Null, rows |-> Null,
         size |-> 0, begin |-> {}, seen |-> {}, disturbed |-> FALSE]

Init ==
    /\ kind \in Kinds
    /\ table = <<>>
    /\ now \in {t \in Times[kind] : \A u \in Times[kind] : t <= u}
    /\ walk = Idle

-----------------------------------------------------------------------------
(* The calendar, as JavaScript's Date computes it.                         *)

Leap(y) == y % 4 = 0 /\ (y % 100 # 0 \/ y % 400 = 0)

\* DayFromYear: the day on which year y begins, 2023 beginning on day 0.
LeapsUpTo(y) == (y \div 4) - (y \div 100) + (y \div 400)
YearStart(y) == 365 * (y - 2023) + (LeapsUpTo(y - 1) - LeapsUpTo(2022))

\* The days of a common year before each month.
DaysBefore == <<0, 31, 59, 90, 120, 151, 181, 212, 243, 273, 304, 334>>

\* Months are numbered from January 2023.
YearOf(i) == 2023 + (i \div 12)
MonthInYear(i) == (i % 12) + 1

MonthStart(i) ==
    LET y == YearOf(i)
        m == MonthInYear(i) IN
    YearStart(y) + DaysBefore[m] + (IF m > 2 /\ Leap(y) THEN 1 ELSE 0)

MonthLen(i) ==
    CASE MonthInYear(i) \in {4, 6, 9, 11} -> 30
      [] MonthInYear(i) = 2               -> IF Leap(YearOf(i)) THEN 29 ELSE 28
      [] OTHER                            -> 31

MonthOf(day) ==
    CHOOSE i \in (day \div 31)..(day \div 28) : MonthStart(i) <= day /\ day < MonthStart(i + 1)

\* setMonth and setFullYear keep the day of the month; a day the target month
\* does not have runs over into the next one.
addMonths(t, n) ==
    LET day == t \div DayLen
        i   == MonthOf(day) IN
    (MonthStart(i + n) + (day - MonthStart(i))) * DayLen + (t % DayLen)

\* Mutant of calculatePeriodEnd: thirty days to the month.
calculatePeriodEndOfDays(start, cycle) ==
    start + (IF cycle = "YEARLY" THEN 365 ELSE 30) * DayLen

calculatePeriodEnd(start, cycle) ==
    addMonths(start, IF cycle = "YEARLY" THEN 12 ELSE 1)

-----------------------------------------------------------------------------
(* The filters.                                                            *)

\* Mutant of istDayStart: the offset is forgotten, as in the transaction list.
utcDayStart(d) == d * DayLen

\* `${date}T00:00:00.000Z` less the offset.
istDayStart(d) == d * DayLen - Offset

BetweenAmounts(r, q) ==
    (q.min # Null => r.amount >= q.min) /\ (q.max # Null => r.amount <= q.max)

ledgerWhere(r, q) ==
    /\ q.cls \in {"ALL", r.cls}
    /\ q.venue \in {Null, r.venue}
    /\ q.from # Null => r.at >= istDayStart(q.from)
    /\ q.to # Null => r.at < istDayStart(q.to + 1)

\* T00:00:00.000Z to T23:59:59.999Z
BetweenDates(r, q) ==
    /\ q.from # Null => r.at >= q.from * DayLen
    /\ q.to # Null => r.at <= q.to * DayLen + (DayLen - 1)

\* Mutant of transactionWhere: the restaurant is only looked at when a status
\* is asked for.
transactionWhereLoose(r, q) ==
    /\ q.cls = "ALL" \/ (r.cls = q.cls /\ r.venue = q.venue)
    /\ BetweenDates(r, q) /\ BetweenAmounts(r, q)

\* The method is looked up as metadata.paymentMethod, which no row has: the
\* webhook stores metadata.method.
transactionWhere(r, q) ==
    /\ r.venue = q.venue
    /\ q.cls \in {"ALL", r.cls}
    /\ q.method = "ALL"
    /\ BetweenDates(r, q) /\ BetweenAmounts(r, q)

subscriberWhere(r, q) == q.cls \in {"ALL", r.cls}

where(r, q) ==
    /\ q.search => r.tag # "none"
    /\ CASE kind = "ledger"       -> ledgerWhere(r, q)
         [] kind = "transactions" -> transactionWhere(r, q)
         [] kind = "subscribers"  -> subscriberWhere(r, q)

Matching(tab, q) == {i \in DOMAIN tab : where(tab[i], q)}

\* The rows the two queries of a page look at: where.id is the search's answer.
Selected == Matching(table, walk.q) \cap walk.ids

\* The middlewares in front of the routes; the gateway before them vouches for
\* role and restaurant.
adminAuth(role) == role = "admin"
restaurantAdminAuth(role, venue) == role \in {"admin", "staff"} /\ venue # Null

\* The validators: what may be asked for, and ranges in order.
InOrderOrOpen(a, b) == a # Null /\ b # Null => a <= b

\* The ledger's order is not asked for.
ledgerQuery(q) ==
    /\ q.cls \in Classes("ledger") \cup {"ALL"}
    /\ InOrderOrOpen(q.from, q.to)
    /\ q.sort = "createdAt" /\ q.dir = "desc"

listTransactionsQuery(q) ==
    /\ q.cls \in {"ALL", "SUCCESS", "PENDING", "FAILED", "REFUNDED"}
    /\ q.sort \in {"createdAt", "amountPaise"}
    /\ InOrderOrOpen(q.from, q.to) /\ InOrderOrOpen(q.min, q.max)

listAdminSubscribersQuery(q) ==
    /\ q.cls \in Classes("subscribers") \cup {"ALL"}
    /\ q.sort \in {"createdAt", "currentPeriodStart", "currentPeriodEnd", "status"}

-----------------------------------------------------------------------------
(* The order of the rows, and pages of it.                                 *)

\* An enum's values are ordered as the schema lists them.
StatusRank(c) == IF c = "ACTIVE" THEN 1 ELSE 2

\* A subscription's period starts when it is created.
SortKey(i, q) ==
    CASE q.sort \in {"createdAt", "currentPeriodStart"} -> table[i].at
      [] q.sort = "amountPaise"      -> table[i].amount
      [] q.sort = "currentPeriodEnd" -> table[i].end
      [] q.sort = "status"           -> StatusRank(table[i].cls)

Before(a, b, q) == IF q.dir = "asc" THEN a < b ELSE a > b

\* Mutant of InOrder: the ledger without its second column.
InOrderOfTime(i, j, q) == ~Before(SortKey(j, q), SortKey(i, q), q)

\* Whether row i may come before row j; the ledger's ties are ordered by id.
InOrder(i, j, q) ==
    \/ Before(SortKey(i, q), SortKey(j, q), q)
    \/ SortKey(i, q) = SortKey(j, q) /\ (kind = "ledger" => i > j)

\* The sequences in which the database may return the rows M.
Results(M, q) ==
    {s \in [1..Cardinality(M) -> M] :
        \A a, b \in DOMAIN s : a < b => s[a] # s[b] /\ InOrder(s[a], s[b], q)}

skip(page, limit) == (page - 1) * limit

\* Mutant of PageOf: one row more is fetched, as for a look-ahead, and kept.
PageOfOneMore(s, page, limit) ==
    {s[n] : n \in {m \in DOMAIN s : skip(page, limit) < m /\ m <= skip(page, limit) + limit + 1}}

\* The rows at the places that skip and take select.
PageOf(s, page, limit) ==
    {s[n] : n \in {m \in DOMAIN s : skip(page, limit) < m /\ m <= skip(page, limit) + limit}}

-----------------------------------------------------------------------------
(* The tables change.                                                      *)

Tick(t) ==
    /\ t > now
    /\ now' = t
    /\ UNCHANGED <<kind, table, walk>>

\* A ledger entry, written by the services that move money.
ledgerEntry(x, t) ==
    [at |-> t, cls |-> x.cls, venue |-> x.venue, tag |-> x.tag, amount |-> x.amount, end |-> 0]

\* createOrderPayment: a transaction in status CREATED.
newTransaction(x, t) ==
    [at |-> t, cls |-> "CREATED", venue |-> x.venue, tag |-> x.tag, amount |-> x.amount, end |-> 0]

\* activateSubscriptionWithOutbox: an ACTIVE subscription from now on.
newSubscription(x) ==
    [at |-> now, cls |-> "ACTIVE", venue |-> x.venue, tag |-> x.tag, amount |-> 0,
     end |-> calculatePeriodEnd(now, x.cycle)]

\* createdAt of an entry or a transaction is taken before its commit: a row may
\* be committed after a later one.
Insert(x) ==
    /\ Len(table) < MaxRows[kind]
    /\ \/ \E t \in Times[kind] : kind = "ledger" /\ t <= now /\ table' = Append(table, ledgerEntry(x, t))
       \/ \E t \in Times[kind] : kind = "transactions" /\ t <= now /\ table' = Append(table, newTransaction(x, t))
       \/ kind = "subscribers" /\ table' = Append(table, newSubscription(x))
    /\ UNCHANGED <<kind, now, walk>>

\* Mutant of PastDue: the period's last instant is not part of it.
PastDueAtEnd(r) == r.cls = "ACTIVE" /\ r.end <= now

\* expirePastDueSubscriptions
PastDue(r) == r.cls = "ACTIVE" /\ r.end < now

SetClass(i, c) ==
    /\ table' = [table EXCEPT ![i].cls = c]
    /\ walk' = [walk EXCEPT !.disturbed =
                   @ \/ (/\ walk.pc # "idle"
                         /\ i \in Matching(table, walk.q)
                         /\ i \notin Matching(table', walk.q) \/ walk.q.sort = "status")]
    /\ UNCHANGED <<kind, now>>

\* A payment is captured or activates, fails, is refunded, or its order is used
\* again.  Writes that race let any status follow any other, as OrderPayment and
\* Subscription show, so none is excluded here.
Settle(i, c) ==
    /\ kind = "transactions"
    /\ table[i].cls # c
    /\ SetClass(i, c)

Expire(i) == kind = "subscribers" /\ PastDue(table[i]) /\ SetClass(i, "EXPIRED")

-----------------------------------------------------------------------------
(* A reader walks through the pages, up to the first that is not full.     *)

Begin(q) ==
    /\ walk.pc = "idle"
    /\ walk' = [Idle EXCEPT !.pc = "page", !.q = q,
                             !.size = Len(table), !.begin = Matching(table, q)]
    /\ UNCHANGED <<kind, table, now>>

getLedger(role, q) ==
    kind = "ledger" /\ adminAuth(role) /\ ledgerQuery(q) /\ Begin(q)

\* The column's enum has no PENDING: that query throws, and the answer is a 500.
listTransactions(role, q) ==
    /\ kind = "transactions"
    /\ restaurantAdminAuth(role, q.venue) /\ listTransactionsQuery(q)
    /\ q.cls # "PENDING"
    /\ Begin(q)

listSubscribers(role, q) ==
    kind = "subscribers" /\ adminAuth(role) /\ listAdminSubscribersQuery(q) /\ Begin(q)

\* The transaction list looks the search term up in a query of its own and asks
\* for the ids it got.
Search ==
    /\ walk.pc = "page" /\ walk.ids = Null
    /\ walk' = [walk EXCEPT !.ids =
                  IF kind = "transactions" /\ walk.q.search
                    THEN {i \in DOMAIN table : /\ table[i].venue = walk.q.venue
                                               /\ table[i].tag # "none"}
                    ELSE 1..MaxRows[kind]]
    /\ UNCHANGED <<kind, table, now>>

\* That query fails: the conditions that take its place leave razorpayOrderId out.
SearchFails ==
    /\ walk.pc = "page" /\ walk.ids = Null
    /\ kind = "transactions" /\ walk.q.search
    /\ walk' = [walk EXCEPT !.ids = {i \in 1..MaxRows[kind] :
                                       i \in DOMAIN table => table[i].tag = "other"},
                            !.disturbed = TRUE]
    /\ UNCHANGED <<kind, table, now>>

\* count({ where })
Count ==
    /\ walk.pc = "page"
    /\ walk.ids # Null /\ walk.total = Null
    /\ walk' = [walk EXCEPT !.total = Cardinality(Selected)]
    /\ UNCHANGED <<kind, table, now>>

\* findMany({ where, orderBy, skip, take })
List ==
    /\ walk.pc = "page"
    /\ walk.ids # Null /\ walk.rows = Null
    /\ \E s \in Results(Selected, walk.q) :
        walk' = [walk EXCEPT !.rows = PageOf(s, walk.page, walk.q.limit)]
    /\ UNCHANGED <<kind, table, now>>

\* Both queries are back: the page is answered, with its total.
Respond ==
    /\ walk.pc = "page"
    /\ walk.total # Null /\ walk.rows # Null
    /\ walk' = [walk EXCEPT
                  !.pc    = IF Cardinality(walk.rows) < walk.q.limit THEN "done" ELSE "page",
                  !.page  = @ + 1,
                  !.ids   = Null,
                  !.total = Null,
                  !.rows  = Null,
                  !.seen  = @ \cup walk.rows]
    /\ UNCHANGED <<kind, table, now>>

Next ==
    \/ \E t \in Times[kind] : Tick(t)
    \/ \E x \in Samples[kind] : Insert(x)
    \/ \E i \in DOMAIN table : Expire(i) \/ \E c \in Classes(kind) : Settle(i, c)
    \/ \E role \in {"admin", "staff", "other"}, q \in Queries[kind] :
        getLedger(role, q) \/ listTransactions(role, q) \/ listSubscribers(role, q)
    \/ Search \/ SearchFails \/ Count \/ List \/ Respond

Spec == Init /\ [][Next]_vars

-----------------------------------------------------------------------------
(* What the other endpoints answer.                                        *)

\* Mutant of exportInput: the end date is not handed on.
exportInputNoEnd(q) ==
    [Everything EXCEPT !.search = q.search, !.cls = q.cls, !.venue = q.venue, !.from = q.from]

\* The fields of the request that the export hands on to the ledger's query.
exportInput(q) ==
    [Everything EXCEPT !.search = q.search, !.cls = q.cls, !.venue = q.venue,
                       !.from = q.from, !.to = q.to]

\* The rows of the CSV file, in its order: neither take nor skip.
export(q) == CHOOSE s \in Results(Matching(table, exportInput(q)), exportInput(q)) : TRUE

\* findFirst({ id, restaurantId })
findTransactionById(i, v) ==
    IF i \in DOMAIN table /\ table[i].venue = v THEN i ELSE Null

\* findFirst({ OR: [{ id }, { restaurantId }] }): ids are unique.
findSubscriberDetailById(i) == IF i \in DOMAIN table THEN i ELSE Null

isActive(r) == r.cls = "ACTIVE" /\ now <= r.end

\* findFirst of these takes the one that ends last.
findActiveByRestaurantId(v) ==
    {i \in DOMAIN table : /\ table[i].venue = v
                          /\ table[i].cls = "ACTIVE"
                          /\ table[i].end >= now}

isSubscriptionActive(v) ==
    \E i \in findActiveByRestaurantId(v) :
        /\ \A j \in findActiveByRestaurantId(v) : table[j].end <= table[i].end
        /\ isActive(table[i])

-----------------------------------------------------------------------------
\* The shape of the tables and of a walk: a page never holds more rows than
\* its limit.
TypeOK ==
    /\ kind \in Kinds
    /\ table \in Seq(Row) /\ Len(table) <= MaxRows[kind]
    /\ now \in Times[kind]
    /\ walk.pc \in {"idle", "page", "done"}
    /\ walk.pc # "idle" => walk.q \in Query
    /\ walk.begin \cup walk.seen \subseteq DOMAIN table
    /\ walk.size \in 0..Len(table)
    /\ walk.rows # Null => /\ walk.rows \subseteq DOMAIN table
                           /\ Cardinality(walk.rows) <= walk.q.limit
    /\ walk.total # Null => walk.total \in 0..MaxRows[kind]
    /\ walk.ids # Null => walk.ids \subseteq 1..MaxRows[kind]

\* Whether two rows of the walked list are equal in the column it is sorted by.
Tied ==
    \E i, j \in Matching(table, walk.q) :
        i # j /\ SortKey(i, walk.q) = SortKey(j, walk.q)

\* A walk through all the pages shows every row that matched when it began,
\* whatever is inserted meanwhile.  A row can only be missed when one that
\* matched stopped matching or changed its place, when a search fell back, or
\* in a list without a second sort column among rows that tie; in the ledger
\* none of that happens.
WalkMissesNothing ==
    walk.pc = "done" /\ ~walk.disturbed /\ (kind = "ledger" \/ ~Tied) =>
        walk.begin \subseteq walk.seen

\* The CSV export and the pages of the ledger answer the same filters with the
\* same rows in the same order, though each page is a query of its own while
\* entries are added: what pages have shown is in the export, and of the entries
\* there were when the walk began they have shown those that the export begins
\* with, at its end all of them.
ExportAgrees ==
    kind = "ledger" /\ walk.pc # "idle" =>
        LET s == export(walk.q) IN
        /\ \A i \in walk.seen : \E a \in DOMAIN s : s[a] = i
        /\ \A a \in DOMAIN s :
              s[a] \notin walk.seen /\ s[a] <= walk.size =>
                  walk.pc # "done" /\ \A b \in DOMAIN s : s[b] \in walk.seen => b < a

\* The calendar day in India on which entry i was written.
indiaDay(i) == (table[i].at + Offset) \div DayLen

\* The ledger of a period of days holds the entries written on these days in
\* India and no others: days leave no gap and do not overlap, whichever instant
\* around midnight an entry is written at.
LedgerDays ==
    kind = "ledger" =>
        \A i, j \in DOMAIN table :
            Matching(table, [Everything EXCEPT !.from = indiaDay(i), !.to = indiaDay(j)]) =
                {k \in DOMAIN table : indiaDay(i) <= indiaDay(k) /\ indiaDay(k) <= indiaDay(j)}

\* A restaurant inside a paid period, its last instant included, is active to
\* the status query, however late or early the expiry job ran; no other is.
PaidIsActive ==
    kind = "subscribers" =>
        {v \in Venues : isSubscriptionActive(v)} =
            {table[i].venue : i \in {j \in DOMAIN table : now <= table[j].end}}

\* A month paid for ends on the same day of the next month, or up to three days
\* into the month after it when there is no such day: 28 days at the least.
\* A year ends on the same day of the next year, 29 February on 1 March.
PeriodHonoured ==
    kind = "subscribers" =>
        \A i \in DOMAIN table :
            LET first == table[i].at \div DayLen
                last  == table[i].end \div DayLen
                days  == last - first
                m     == MonthOf(first)
                dom(d) == d - MonthStart(MonthOf(d)) IN
            /\ table[i].end % DayLen = table[i].at % DayLen
            /\ days \in 28..31 \/ days \in 365..366
            /\ \/ dom(last) = dom(first) /\ MonthOf(last) \in {m + 1, m + 12}
               \/ /\ MonthOf(last) \in {m + 2, m + 13}
                  /\ dom(last) = dom(first) - MonthLen(MonthOf(last) - 1)

\* What a list shows can be opened, whatever was inserted and settled meanwhile:
\* a transaction's detail is found by its id and the reader's own restaurant, so
\* no other restaurant's row is ever listed; a subscriber's detail by its id.
ListedIsFound ==
    \A i \in walk.seen :
        /\ kind = "transactions" => findTransactionById(i, walk.q.venue) = i
        /\ kind = "subscribers" => findSubscriberDetailById(i) = i
=============================================================================
