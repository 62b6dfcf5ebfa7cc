----------------------------- MODULE MCReports ------------------------------
(***************************************************************************)
(* Reports for TLC.  The instants, in half hours from 2023-01-01T00:00Z,   *)
(* lie where the calendars disagree: around midnight in India (18:30Z),    *)
(* at the end of January and February of a leap year, and at the exact     *)
(* ends of two periods.                                                    *)
(***************************************************************************)
EXTENDS Reports

CONSTANTS v1, v2

Day(d, halfHour) == d * 48 + halfHour

\* Ledger: 2024-01-31 18:00Z and 18:30Z, 2024-02-01 18:30Z.  Transactions: the
\* last and the first half hour around midnight UTC.  Subscribers: 2024-01-31
\* and 2024-02-29; 2024-03-02 is where a month paid for on 31 January ends,
\* 2025-03-01 where a year paid for on 29 February does, then half an hour more.
Instants ==
    [ledger       |-> {Day(395, 36), Day(395, 37), Day(396, 37)},
     transactions |-> {Day(395, 47), Day(396, 0)},
     subscribers  |-> {Day(395, 36), Day(424, 36), Day(426, 36), Day(790, 36), Day(790, 37)}]

RowBound == [ledger |-> 3, transactions |-> 2, subscribers |-> 2]

Plain == [cls |-> "CUSTOMER_PAYMENT_INTAKE", venue |-> v1, tag |-> "other", amount |-> 1,
          cycle |-> "MONTHLY"]

RowSamples ==
    [ledger       |-> {Plain, [Plain EXCEPT !.cls = "REFUND_EXPENSE", !.venue = v2, !.tag = "none"]},
     transactions |-> {Plain, [Plain EXCEPT !.amount = 2, !.tag = "orderId"],
                       [Plain EXCEPT !.venue = v2, !.tag = "none"]},
     subscribers  |-> {Plain, [Plain EXCEPT !.venue = v2, !.cycle = "YEARLY", !.tag = "none"]}]

ReaderQueries ==
    [ledger |->
        {[Everything EXCEPT !.limit = n] : n \in {1, 2}} \cup
        {[Everything EXCEPT !.cls = "CUSTOMER_PAYMENT_INTAKE", !.venue = v1, !.search = TRUE],
         [Everything EXCEPT !.from = 396, !.to = 396]},
     transactions |->
        {[Everything EXCEPT !.venue = v1, !.sort = "amountPaise"],
         [Everything EXCEPT !.venue = v1, !.dir = "asc", !.cls = "FAILED"],
         [Everything EXCEPT !.venue = v1, !.from = 395, !.to = 395, !.limit = 2],
         [Everything EXCEPT !.venue = v1, !.min = 1, !.max = 2, !.search = TRUE],
         [Everything EXCEPT !.venue = v1, !.method = "UPI"],
         [Everything EXCEPT !.venue = v1, !.cls = "PENDING"]},
     subscribers |->
        {[Everything EXCEPT !.cls = "ACTIVE"],
         [Everything EXCEPT !.sort = "status"],
         [Everything EXCEPT !.search = TRUE, !.dir = "asc", !.sort = "currentPeriodEnd"]}]
=============================================================================
