--------------------------- MODULE ReportsProofs ----------------------------
(***************************************************************************)
(* Proofs of the safety properties of Reports, for any restaurants,        *)
(* instants, rows, queries, page sizes and lengths of a table.             *)
(***************************************************************************)
EXTENDS CalendarProofs, FiniteSetTheorems, SequenceTheorems

-----------------------------------------------------------------------------
(* The order of the rows.                                                  *)

\* The rows of M that come before row i.
Ahead(M, i, q) == {j \in M : j # i /\ InOrder(j, i, q)}

LEMMA SortKeys ==
    ASSUME table \in Seq(Row), NEW q \in Query, NEW i \in DOMAIN table
    PROVE  SortKey(i, q) \in Nat
<1>1. table[i] \in Row
    BY ElementOfSeq, LenProperties
<1>2. q.sort \in {"createdAt", "amountPaise", "currentPeriodStart", "currentPeriodEnd", "status"}
    BY DEF Query
<1> QED BY <1>1, <1>2 DEF SortKey, Row, StatusRank

\* Two rows come one before the other, and never both, when they do not tie or
\* ties are ordered by id.
LEMMA Order ==
    ASSUME table \in Seq(Row), NEW q \in Query, NEW i \in DOMAIN table, NEW j \in DOMAIN table,
           i # j, kind = "ledger" \/ SortKey(i, q) # SortKey(j, q)
    PROVE  /\ InOrder(i, j, q) \/ InOrder(j, i, q)
           /\ ~(InOrder(i, j, q) /\ InOrder(j, i, q))
<1>1. SortKey(i, q) \in Nat /\ SortKey(j, q) \in Nat
    BY SortKeys
<1>2. i \in Nat /\ j \in Nat
    BY LenProperties
<1> QED BY <1>1, <1>2 DEF InOrder, Before

LEMMA OrderTransitive ==
    ASSUME table \in Seq(Row), NEW q \in Query, NEW i \in DOMAIN table, NEW j \in DOMAIN table,
           NEW k \in DOMAIN table, kind = "ledger", InOrder(i, j, q), InOrder(j, k, q)
    PROVE  InOrder(i, k, q)
<1>1. SortKey(i, q) \in Nat /\ SortKey(j, q) \in Nat /\ SortKey(k, q) \in Nat
    BY SortKeys
<1>2. i \in Nat /\ j \in Nat /\ k \in Nat
    BY LenProperties
<1> QED BY <1>1, <1>2 DEF InOrder, Before

-----------------------------------------------------------------------------
(* What the database returns, and pages of it.                             *)

LEMMA Interval ==
    ASSUME NEW a \in Int, NEW n \in Nat
    PROVE  IsFiniteSet((a + 1)..(a + n)) /\ Cardinality((a + 1)..(a + n)) = n
<1>1. a + 1 \in Int /\ a + n \in Int
    OBVIOUS
<1>2. /\ IsFiniteSet((a + 1)..(a + n))
      /\ Cardinality((a + 1)..(a + n)) =
            IF a + 1 > a + n THEN 0 ELSE (a + n) - (a + 1) + 1
    BY <1>1, FS_Interval
<1> QED BY <1>1, <1>2

\* A result holds every row once.
LEMMA ResultHoldsAll ==
    ASSUME NEW M, IsFiniteSet(M), NEW q, NEW s \in Results(M, q)
    PROVE  /\ Cardinality(M) \in Nat
           /\ s \in [1..Cardinality(M) -> M] /\ DOMAIN s = 1..Cardinality(M)
           /\ \A a, b \in 1..Cardinality(M) : s[a] = s[b] => a = b
           /\ \A i \in M : \E a \in 1..Cardinality(M) : s[a] = i
           /\ \A a, b \in 1..Cardinality(M) : a < b => InOrder(s[a], s[b], q)
<1> PICK N : N = Cardinality(M)
    OBVIOUS
<1>1. N \in Nat
    BY FS_CardinalityType
<1>2. s \in [1..N -> M] /\ DOMAIN s = 1..N
    BY DEF Results
<1>3. \A a, b \in 1..N : a < b => s[a] # s[b] /\ InOrder(s[a], s[b], q)
    BY <1>2 DEF Results
<1>4. \A a, b \in 1..N : s[a] = s[b] => a = b
    BY <1>1, <1>3
<1>5. s \in Injection(1..N, M)
    BY <1>2, <1>4 DEF Injection, IsInjective
<1>6. Cardinality(1..N) = N
    BY <1>1, FS_Interval
<1>7. s \in Surjection(1..N, M)
    BY <1>5, <1>6, FS_Injection
<1> QED BY <1>1, <1>2, <1>3, <1>4, <1>7 DEF Surjection

\* The place of a row is the number of rows before it.
LEMMA Place ==
    ASSUME NEW M, IsFiniteSet(M), NEW q, NEW s \in Results(M, q), NEW i \in M,
           \A j \in M \ {i} : ~(InOrder(i, j, q) /\ InOrder(j, i, q))
    PROVE  \E a \in 1..Cardinality(M) : s[a] = i /\ Cardinality(Ahead(M, i, q)) = a - 1
<1> PICK N \in Nat : N = Cardinality(M)
    BY ResultHoldsAll
<1>1. /\ s \in [1..N -> M]
      /\ \A a, b \in 1..N : s[a] = s[b] => a = b
      /\ \A j \in M : \E a \in 1..N : s[a] = j
      /\ \A a, b \in 1..N : a < b => InOrder(s[a], s[b], q)
    BY ResultHoldsAll
<1>2. PICK a \in 1..N : s[a] = i
    BY <1>1
<1> DEFINE f == [b \in 1..(a - 1) |-> s[b]]
<1>3. \A b \in 1..(a - 1) : b \in 1..N /\ b < a /\ f[b] = s[b]
    OBVIOUS
<1>4. \A b \in 1..(a - 1) : f[b] \in Ahead(M, i, q)
    BY <1>1, <1>2, <1>3 DEF Ahead
<1>5. ASSUME NEW j \in Ahead(M, i, q) PROVE \E b \in 1..(a - 1) : f[b] = j
    <2>1. PICK b \in 1..N : s[b] = j
        BY <1>1, <1>5 DEF Ahead
    <2>2. j # i /\ InOrder(j, i, q) /\ ~InOrder(i, j, q)
        BY <1>5 DEF Ahead
    <2>3. ~(a < b) /\ a # b
        BY <1>1, <1>2, <2>1, <2>2
    <2>4. b \in 1..(a - 1)
        BY <2>3
    <2> QED BY <1>3, <2>1, <2>4
<1>6. f \in Surjection(1..(a - 1), Ahead(M, i, q))
    BY <1>4, <1>5 DEF Surjection
<1>7. f \in Injection(1..(a - 1), Ahead(M, i, q))
    BY <1>1, <1>3, <1>4 DEF Injection, IsInjective
<1>8. IsFiniteSet(1..(a - 1)) /\ Cardinality(1..(a - 1)) = a - 1
    <2>1. a - 1 \in Nat /\ (0 + 1)..(0 + (a - 1)) = 1..(a - 1)
        OBVIOUS
    <2>2. 0 \in Int
        OBVIOUS
    <2> QED BY <2>1, <2>2, Interval
<1> HIDE DEF f
<1>9. Cardinality(Ahead(M, i, q)) = a - 1
    BY <1>6, <1>7, <1>8, FS_Surjection
<1> QED BY <1>2, <1>9

LEMMA SkipTypes ==
    ASSUME NEW page \in Nat \ {0}, NEW limit \in Nat \ {0}
    PROVE  skip(page, limit) \in Nat /\ skip(page + 1, limit) = skip(page, limit) + limit
<1>1. page - 1 \in Nat
    OBVIOUS
<1> QED BY <1>1 DEF skip

\* A page has its limit of rows, unless the result ends before.
LEMMA PageSize ==
    ASSUME NEW M, IsFiniteSet(M), NEW q, NEW s \in Results(M, q),
           NEW page \in Nat \ {0}, NEW limit \in Nat \ {0}
    PROVE  /\ PageOf(s, page, limit) \subseteq M
           /\ Cardinality(PageOf(s, page, limit)) \in Nat
           /\ Cardinality(PageOf(s, page, limit)) <= limit
           /\ skip(page, limit) + limit <= Cardinality(M) =>
                 Cardinality(PageOf(s, page, limit)) = limit
<1> PICK N \in Nat : N = Cardinality(M)
    BY ResultHoldsAll
<1> PICK k \in Nat : k = skip(page, limit)
    BY SkipTypes
<1>1. /\ s \in [1..N -> M] /\ DOMAIN s = 1..N
      /\ \A a, b \in 1..N : s[a] = s[b] => a = b
    BY ResultHoldsAll
<1> DEFINE S == {m \in 1..N : k < m /\ m <= k + limit}
           T == {s[n] : n \in S}
           f == [n \in S |-> s[n]]
<1>2. PageOf(s, page, limit) = T
    BY <1>1 DEF PageOf
<1>3. T \subseteq M
    BY <1>1
<1>4. f \in Surjection(S, T) /\ f \in Injection(S, T)
    BY <1>1 DEF Surjection, Injection, IsInjective
<1>5. IsFiniteSet((k + 1)..(k + limit)) /\ Cardinality((k + 1)..(k + limit)) = limit
    <2>1. k \in Int /\ limit \in Nat
        OBVIOUS
    <2> QED BY <2>1, Interval
<1>6. S \subseteq (k + 1)..(k + limit)
    OBVIOUS
<1>7. IsFiniteSet(S) /\ Cardinality(S) <= limit
    BY <1>5, <1>6, FS_Subset
<1>8. k + limit <= N => S = (k + 1)..(k + limit)
    OBVIOUS
<1> HIDE DEF S, T, f
<1>9. IsFiniteSet(T) /\ Cardinality(T) = Cardinality(S)
    BY <1>4, <1>7, FS_Surjection
<1>10. Cardinality(S) \in Nat
    BY <1>7, FS_CardinalityType
<1> QED BY <1>2, <1>3, <1>5, <1>7, <1>8, <1>9, <1>10

\* The ledger's order is total: there is a way to return its rows.
LEMMA ResultsExist ==
    ASSUME table \in Seq(Row), kind = "ledger", NEW q \in Query, NEW M \in SUBSET DOMAIN table
    PROVE  IsFiniteSet(M) /\ Results(M, q) # {}
<1>1. IsFiniteSet(M)
    <2>1. IsFiniteSet(1..Len(table)) /\ DOMAIN table = 1..Len(table)
        BY LenProperties, FS_Interval
    <2> QED BY <2>1, FS_Subset
<1> PICK N \in Nat : N = Cardinality(M)
    BY <1>1, FS_CardinalityType
<1> DEFINE UpTo(i) == {j \in M : j = i \/ InOrder(j, i, q)}
           r == [i \in M |-> Cardinality(UpTo(i))]
<1>2. ASSUME NEW i \in M PROVE IsFiniteSet(UpTo(i)) /\ r[i] \in 1..N /\ r[i] = Cardinality(UpTo(i))
    <2>1. IsFiniteSet(UpTo(i)) /\ Cardinality(UpTo(i)) <= N
        BY <1>1, FS_Subset
    <2>2. i \in UpTo(i)
        OBVIOUS
    <2>3. Cardinality(UpTo(i)) \in Nat /\ Cardinality(UpTo(i)) # 0
        <3> HIDE DEF UpTo
        <3> QED BY <2>1, <2>2, FS_CardinalityType, FS_EmptySet
    <2> QED BY <2>1, <2>3
<1>3. ASSUME NEW i \in M, NEW j \in M, i # j, InOrder(i, j, q) PROVE r[i] < r[j]
    <2>1. ~InOrder(j, i, q)
        BY <1>3, Order
    <2>2. UpTo(i) \subseteq UpTo(j) \ {j}
        BY <1>3, <2>1, OrderTransitive
    <2>3. j \in UpTo(j)
        OBVIOUS
    <2> HIDE DEF UpTo
    <2>4. IsFiniteSet(UpTo(j)) /\ IsFiniteSet(UpTo(i))
        BY <1>2
    <2>5. IsFiniteSet(UpTo(j) \ {j}) /\ Cardinality(UpTo(j) \ {j}) = Cardinality(UpTo(j)) - 1
        BY <2>3, <2>4, FS_RemoveElement
    <2>6. Cardinality(UpTo(i)) <= Cardinality(UpTo(j) \ {j})
        BY <2>2, <2>5, FS_Subset
    <2>7. Cardinality(UpTo(i)) \in Nat /\ Cardinality(UpTo(j)) \in Nat
        BY <2>4, FS_CardinalityType
    <2> QED BY <2>5, <2>6, <2>7
<1>4. r \in [M -> 1..N]
    BY <1>2
<1> HIDE DEF r
<1>5. \A i, j \in M : r[i] = r[j] => i = j
    <2> SUFFICES ASSUME NEW i \in M, NEW j \in M, r[i] = r[j], i # j PROVE FALSE
        OBVIOUS
    <2>1. InOrder(i, j, q) \/ InOrder(j, i, q)
        BY Order
    <2>2. r[i] < r[j] \/ r[j] < r[i]
        BY <1>3, <2>1
    <2> QED BY <1>4, <2>2
<1>6. r \in Injection(M, 1..N)
    BY <1>4, <1>5 DEF Injection, IsInjective
<1>7. IsFiniteSet(1..N) /\ Cardinality(1..N) = N
    BY FS_Interval
<1>8. r \in Surjection(M, 1..N)
    BY <1>6, <1>7, FS_Injection
<1>9. \A a \in 1..N : \E i \in M : r[i] = a
    BY <1>8 DEF Surjection
<1> DEFINE s == [a \in 1..N |-> CHOOSE i \in M : r[i] = a]
<1>10. \A a \in 1..N : s[a] \in M /\ r[s[a]] = a
    BY <1>9
<1>11. s \in [1..N -> M] /\ DOMAIN s = 1..N
    BY <1>10
<1> HIDE DEF s
<1>12. ASSUME NEW a \in 1..N, NEW b \in 1..N, a < b PROVE s[a] # s[b] /\ InOrder(s[a], s[b], q)
    <2>1. s[a] # s[b]
        BY <1>10, <1>12
    <2>2. ~InOrder(s[b], s[a], q)
        <3>1. InOrder(s[b], s[a], q) => r[s[b]] < r[s[a]]
            BY <1>3, <1>10, <2>1
        <3> QED BY <1>10, <1>12, <3>1
    <2>3. s[a] \in DOMAIN table /\ s[b] \in DOMAIN table
        BY <1>10
    <2> QED BY <2>1, <2>2, <2>3, Order
<1>13. s \in Results(M, q)
    BY <1>11, <1>12 DEF Results
<1> QED BY <1>1, <1>13

-----------------------------------------------------------------------------
(* The inductive invariant.                                                *)

Walk == [pc : {"idle", "page", "done"}, q : Query \cup {Null}, page : Nat \ {0},
         ids : (SUBSET Nat) \cup {Null}, total : Nat \cup {Null},
         rows : (SUBSET Nat) \cup {Null}, size : Nat, begin : SUBSET Nat,
         seen : SUBSET Nat, disturbed : BOOLEAN]

\* The rows of the page being answered, and the pages fetched so far and one.
Fetched  == IF walk.rows = Null THEN {} ELSE walk.rows
NextPage == IF walk.rows = Null THEN walk.page ELSE walk.page + 1

\* The rows that the page being answered is cut from.
Base == IF walk.ids = Null THEN Matching(table, walk.q) ELSE Selected

\* Listed rows exist, and belong to the restaurant that asked.
Shown ==
    \A i \in walk.seen \cup Fetched :
        i \in DOMAIN table /\ (kind = "transactions" => table[i].venue = walk.q.venue)

\* An EXPIRED subscription is past its end, which lies within a year of now.
PaidRows ==
    kind = "subscribers" =>
        \A i \in DOMAIN table :
            /\ table[i].at <= now
            /\ \E n \in {1, 12} : table[i].end = addMonths(table[i].at, n)
            /\ table[i].cls \in {"ACTIVE", "EXPIRED"}
            /\ table[i].cls = "EXPIRED" => table[i].end < now

Clean == ~walk.disturbed /\ (kind = "ledger" \/ ~Tied)

\* A row that is still to be shown lies behind the pages fetched so far: rows
\* that are inserted only push it further back.
Progress ==
    walk.pc # "idle" /\ Clean =>
        /\ walk.pc = "page" =>
              /\ walk.begin \subseteq Base
              /\ \A i \in walk.begin \ (walk.seen \cup Fetched) :
                    Cardinality(Ahead(Base, i, walk.q)) >= skip(NextPage, walk.q.limit)
              /\ walk.rows # Null /\ Cardinality(walk.rows) < walk.q.limit =>
                    walk.begin \subseteq walk.seen \cup walk.rows
        /\ walk.pc = "done" => walk.begin \subseteq walk.seen

\* In the ledger rows keep their place: what a walk has shown comes before what
\* it has yet to show of the rows there were when it began.
LedgerWalk ==
    kind = "ledger" /\ walk.pc # "idle" =>
        /\ ~walk.disturbed
        /\ walk.q.sort = "createdAt" /\ walk.q.dir = "desc"
        /\ walk.begin = {i \in Matching(table, walk.q) : i <= walk.size}
        /\ walk.seen \cup Fetched \subseteq Matching(table, walk.q)
        /\ \A i \in walk.begin \ walk.seen, j \in walk.seen : InOrder(j, i, walk.q)
        /\ \A i \in walk.begin \ (walk.seen \cup Fetched), j \in walk.seen \cup Fetched :
              InOrder(j, i, walk.q)

Inv == TypeOK /\ walk \in Walk /\ Shown /\ PaidRows /\ Progress /\ LedgerWalk

-----------------------------------------------------------------------------
\* What the type invariant says of the rows and the query at hand.
LEMMA Facts ==
    ASSUME Inv
    PROVE  /\ kind \in Kinds /\ MaxRows[kind] \in Nat /\ now \in Nat
           /\ table \in Seq(Row) /\ Len(table) \in Nat /\ Len(table) <= MaxRows[kind]
           /\ DOMAIN table = 1..Len(table) /\ DOMAIN table \subseteq 1..MaxRows[kind]
           /\ \A i \in DOMAIN table : table[i] \in Row /\ i \in Nat
           /\ IsFiniteSet(DOMAIN table)
           /\ walk.pc # "idle" => walk.q \in Query /\ walk.q.limit \in Nat \ {0}
           /\ walk.page \in Nat \ {0} /\ walk.size \in 0..Len(table)
<1>1. /\ kind \in Kinds /\ table \in Seq(Row) /\ Len(table) <= MaxRows[kind] /\ now \in Times[kind]
      /\ walk.pc # "idle" => walk.q \in Query
    BY DEF Inv, TypeOK
<1>2. MaxRows[kind] \in Nat /\ now \in Nat
    BY <1>1, RowsAssumption, TimeAssumption
<1>3. Len(table) \in Nat /\ DOMAIN table = 1..Len(table)
    BY <1>1, LenProperties
<1>4. \A i \in DOMAIN table : table[i] \in Row
    BY <1>1, <1>3, ElementOfSeq
<1>5. IsFiniteSet(1..Len(table))
    BY <1>3, FS_Interval
<1>6. walk.q \in Query => walk.q.limit \in Nat \ {0}
    BY DEF Query
<1>7. walk.page \in Nat \ {0} /\ walk.size \in 0..Len(table)
    BY DEF Inv, Walk, TypeOK
<1> QED BY <1>1, <1>2, <1>3, <1>4, <1>5, <1>6, <1>7

LEMMA Finite ==
    ASSUME Inv
    PROVE  /\ Matching(table, walk.q) \subseteq DOMAIN table /\ IsFiniteSet(Matching(table, walk.q))
           /\ Selected \subseteq Matching(table, walk.q) /\ IsFiniteSet(Selected)
           /\ Base \subseteq Matching(table, walk.q) /\ IsFiniteSet(Base)
<1>1. IsFiniteSet(DOMAIN table)
    BY Facts
<1>2. /\ Matching(table, walk.q) \subseteq DOMAIN table
      /\ Selected \subseteq Matching(table, walk.q)
      /\ Base \subseteq Matching(table, walk.q)
    BY DEF Matching, Selected, Base
<1>3. IsFiniteSet(Matching(table, walk.q))
    BY <1>1, <1>2, FS_Subset
<1> QED BY <1>2, <1>3, FS_Subset

\* The list that a behaviour follows stays the same: so do filter and order.
LEMMA SameList ==
    ASSUME UNCHANGED kind
    PROVE  /\ Matching(table, walk.q)' = Matching(table', walk'.q)
           /\ Selected' = Matching(table', walk'.q) \cap walk'.ids
BY DEF Matching, Selected, where, ledgerWhere, transactionWhere, subscriberWhere

LEMMA SameOrder ==
    ASSUME UNCHANGED kind, walk'.q = walk.q, NEW i, NEW j,
           SortKey(i, walk.q)' = SortKey(i, walk.q), SortKey(j, walk.q)' = SortKey(j, walk.q)
    PROVE  InOrder(i, j, walk.q)' = InOrder(i, j, walk.q)
BY DEF InOrder, Before

\* More rows before a row push it back.
LEMMA AheadGrows ==
    ASSUME Inv, UNCHANGED kind, walk'.q = walk.q, IsFiniteSet(Base'), Base \subseteq Base',
           \A j \in Base : SortKey(j, walk.q)' = SortKey(j, walk.q),
           NEW i \in Base
    PROVE  /\ Cardinality(Ahead(Base, i, walk.q)) \in Nat
           /\ Cardinality(Ahead(Base, i, walk.q)') \in Nat
           /\ Cardinality(Ahead(Base, i, walk.q)) <= Cardinality(Ahead(Base, i, walk.q)')
<1>1. \A j \in Base : InOrder(j, i, walk.q)' = InOrder(j, i, walk.q)
    BY SameOrder
<1>2. Ahead(Base, i, walk.q)' = {j \in Base' : j # i /\ InOrder(j, i, walk.q)'}
    BY DEF Ahead
<1>3. Ahead(Base, i, walk.q) \subseteq Ahead(Base, i, walk.q)'
    BY <1>1, <1>2 DEF Ahead
<1>4. Ahead(Base, i, walk.q)' \subseteq Base'
    BY <1>2
<1>5. IsFiniteSet(Ahead(Base, i, walk.q)')
    BY <1>4, FS_Subset
<1> QED BY <1>3, <1>5, FS_Subset, FS_CardinalityType

\* A step that keeps the matching rows where they are, and the walk where it is.
LEMMA ProgressStays ==
    ASSUME Inv, UNCHANGED kind,
           /\ walk'.q = walk.q /\ walk'.pc = walk.pc /\ walk'.page = walk.page
           /\ walk'.rows = walk.rows /\ walk'.begin = walk.begin /\ walk'.seen = walk.seen,
           ~walk'.disturbed => ~walk.disturbed,
           ~walk'.disturbed /\ walk.pc # "idle" =>
              /\ Base \subseteq Base' /\ IsFiniteSet(Base')
              /\ Matching(table, walk.q) \subseteq Matching(table, walk.q)'
              /\ \A j \in Matching(table, walk.q) : SortKey(j, walk.q)' = SortKey(j, walk.q)
    PROVE  Progress'
<1> SUFFICES ASSUME Clean', walk.pc # "idle"
             PROVE  /\ walk.pc = "page" =>
                         /\ walk.begin \subseteq Base'
                         /\ \A i \in walk.begin \ (walk.seen \cup Fetched) :
                              Cardinality(Ahead(Base, i, walk.q)') >= skip(NextPage, walk.q.limit)
                         /\ walk.rows # Null /\ Cardinality(walk.rows) < walk.q.limit =>
                              walk.begin \subseteq walk.seen \cup walk.rows
                    /\ walk.pc = "done" => walk.begin \subseteq walk.seen
    BY DEF Progress, Ahead, Fetched, NextPage, skip
<1>1. /\ Base \subseteq Base' /\ IsFiniteSet(Base')
      /\ Matching(table, walk.q) \subseteq Matching(table, walk.q)'
      /\ \A j \in Matching(table, walk.q) : SortKey(j, walk.q)' = SortKey(j, walk.q)
    BY DEF Clean
<1>2. Tied => Tied'
    BY <1>1 DEF Tied
<1>3. Clean
    BY <1>2 DEF Clean
<1>4. Base \subseteq Matching(table, walk.q)
    BY Finite
<1>5. CASE walk.pc = "page"
    <2>1. /\ walk.begin \subseteq Base
          /\ \A i \in walk.begin \ (walk.seen \cup Fetched) :
                Cardinality(Ahead(Base, i, walk.q)) >= skip(NextPage, walk.q.limit)
          /\ walk.rows # Null /\ Cardinality(walk.rows) < walk.q.limit =>
                walk.begin \subseteq walk.seen \cup walk.rows
        BY <1>3, <1>5 DEF Inv, Progress
    <2>2. skip(NextPage, walk.q.limit) \in Int
        <3>1. NextPage \in Nat \ {0} /\ walk.q.limit \in Nat \ {0}
            BY Facts DEF NextPage
        <3> QED BY <3>1, SkipTypes
    <2>3. ASSUME NEW i \in walk.begin \ (walk.seen \cup Fetched)
          PROVE  Cardinality(Ahead(Base, i, walk.q)') >= skip(NextPage, walk.q.limit)
        <3>1. i \in Base
            BY <2>1
        <3>2. /\ Cardinality(Ahead(Base, i, walk.q)) \in Nat
              /\ Cardinality(Ahead(Base, i, walk.q)') \in Nat
              /\ Cardinality(Ahead(Base, i, walk.q)) <= Cardinality(Ahead(Base, i, walk.q)')
            BY <1>1, <1>4, <3>1, AheadGrows
        <3> QED BY <2>1, <2>2, <3>2
    <2> QED BY <1>1, <1>5, <2>1, <2>3
<1>6. CASE walk.pc = "done"
    BY <1>3, <1>6 DEF Inv, Progress
<1> QED BY <1>5, <1>6

\* The same of the ledger's invariant; rows may be added behind the others.
LEMMA LedgerStays ==
    ASSUME Inv, UNCHANGED kind,
           /\ walk'.q = walk.q /\ walk'.pc = walk.pc /\ walk'.size = walk.size
           /\ walk'.begin = walk.begin
           /\ walk'.seen = walk.seen /\ walk'.rows = walk.rows,
           kind = "ledger" =>
              /\ walk'.disturbed = walk.disturbed
              /\ DOMAIN table \subseteq DOMAIN table' /\ DOMAIN table' \subseteq Nat \ {0}
              /\ \A i \in DOMAIN table : table'[i] = table[i]
    PROVE  LedgerWalk'
<1> SUFFICES ASSUME kind = "ledger", walk.pc # "idle"
             PROVE  /\ ~walk'.disturbed
                    /\ walk.q.sort = "createdAt" /\ walk.q.dir = "desc"
                    /\ walk.begin = {i \in Matching(table', walk.q) : i <= walk.size}
                    /\ walk.seen \cup Fetched \subseteq Matching(table', walk.q)
                    /\ \A i \in walk.begin \ walk.seen, j \in walk.seen : InOrder(j, i, walk.q)'
                    /\ \A i \in walk.begin \ (walk.seen \cup Fetched), j \in walk.seen \cup Fetched :
                          InOrder(j, i, walk.q)'
    <2>1. Matching(table, walk.q)' = Matching(table', walk.q)
        BY SameList
    <2>2. Fetched' = Fetched
        BY DEF Fetched
    <2> QED BY <2>1, <2>2 DEF LedgerWalk
<1>1. /\ ~walk.disturbed /\ walk.q.sort = "createdAt" /\ walk.q.dir = "desc"
      /\ walk.begin = {i \in Matching(table, walk.q) : i <= walk.size}
      /\ walk.seen \cup Fetched \subseteq Matching(table, walk.q)
      /\ \A i \in walk.begin \ walk.seen, j \in walk.seen : InOrder(j, i, walk.q)
      /\ \A i \in walk.begin \ (walk.seen \cup Fetched), j \in walk.seen \cup Fetched :
            InOrder(j, i, walk.q)
    BY DEF Inv, LedgerWalk
<1>2. /\ DOMAIN table \subseteq DOMAIN table' /\ DOMAIN table' \subseteq Nat \ {0}
      /\ \A i \in DOMAIN table : table'[i] = table[i]
      /\ DOMAIN table = 1..Len(table) /\ walk.size \in 0..Len(table) /\ Len(table) \in Nat
    BY Facts
<1>3. \A i \in DOMAIN table : i \in Matching(table', walk.q) <=> i \in Matching(table, walk.q)
    BY <1>2 DEF Matching
<1>4. walk.begin = {i \in Matching(table', walk.q) : i <= walk.size}
    <2>1. ASSUME NEW i \in Matching(table', walk.q), i <= walk.size PROVE i \in DOMAIN table
        <3>1. i \in Nat \ {0}
            BY <1>2 DEF Matching
        <3> QED BY <1>2, <2>1, <3>1
    <2> QED BY <1>1, <1>3, <2>1, Finite
<1>5. walk.seen \cup Fetched \subseteq Matching(table', walk.q)
    BY <1>1, <1>3, Finite
<1>6. ASSUME NEW i \in Matching(table, walk.q), NEW j \in Matching(table, walk.q)
      PROVE  InOrder(j, i, walk.q)' <=> InOrder(j, i, walk.q)
    <2>1. SortKey(i, walk.q)' = SortKey(i, walk.q) /\ SortKey(j, walk.q)' = SortKey(j, walk.q)
        BY <1>2, Finite DEF SortKey
    <2> QED BY <2>1, SameOrder
<1> QED BY <1>1, <1>4, <1>5, <1>6

-----------------------------------------------------------------------------
(* The tables change.                                                      *)

LEMMA InitInv == Init => Inv
<1> SUFFICES ASSUME Init PROVE Inv
    OBVIOUS
<1>1. table \in Seq(Row) /\ Len(table) = 0 /\ DOMAIN table = {}
    <2>1. table = <<>>
        BY DEF Init
    <2>2. Len(table) = 0 /\ table \in Seq(Row)
        BY <2>1
    <2>3. DOMAIN table = 1..Len(table)
        BY <2>2, LenProperties
    <2> QED BY <2>2, <2>3
<1>2. walk = Idle /\ kind \in Kinds /\ now \in Times[kind]
    BY DEF Init
<1>3. 0 <= MaxRows[kind]
    BY <1>2, RowsAssumption
<1>4. /\ walk.pc = "idle" /\ walk.q = Null /\ walk.begin = {} /\ walk.seen = {}
      /\ walk.rows = Null /\ walk.total = Null /\ walk.ids = Null /\ walk.size = 0
    BY <1>2 DEF Idle
<1>5. walk \in Walk
    BY <1>2 DEF Idle, Walk
<1>6. TypeOK
    BY <1>1, <1>2, <1>3, <1>4 DEF TypeOK
<1>7. Shown
    BY <1>4 DEF Shown, Fetched
<1>8. PaidRows
    BY <1>1 DEF PaidRows
<1>9. Progress /\ LedgerWalk
    BY <1>4 DEF Progress, LedgerWalk
<1> QED BY <1>5, <1>6, <1>7, <1>8, <1>9 DEF Inv

\* Time passes, or a row is inserted behind the others.
LEMMA TableGrows ==
    ASSUME Inv, UNCHANGED <<kind, walk>>, now' \in Times[kind],
           table' \in Seq(Row), Len(table') <= MaxRows[kind],
           DOMAIN table \subseteq DOMAIN table', \A i \in DOMAIN table : table'[i] = table[i],
           PaidRows'
    PROVE  Inv'
<1>1. walk' = walk /\ kind' = kind
    OBVIOUS
<1>2. walk.begin \cup walk.seen \subseteq DOMAIN table
    BY DEF Inv, TypeOK
<1>3. TypeOK'
    <2>1. walk.rows # Null => walk.rows \subseteq DOMAIN table /\ Cardinality(walk.rows) <= walk.q.limit
        BY DEF Inv, TypeOK
    <2>2. /\ walk.pc \in {"idle", "page", "done"} /\ kind \in Kinds
          /\ walk.pc # "idle" => walk.q \in Query
          /\ walk.total # Null => walk.total \in 0..MaxRows[kind]
          /\ walk.ids # Null => walk.ids \subseteq 1..MaxRows[kind]
        BY DEF Inv, TypeOK
    <2>3. walk.size \in 0..Len(table')
        <3>1. DOMAIN table = 1..Len(table) /\ walk.size \in 0..Len(table) /\ Len(table) \in Nat
            BY Facts
        <3>2. DOMAIN table' = 1..Len(table') /\ Len(table') \in Nat
            BY LenProperties
        <3>3. walk.size = 0 \/ walk.size \in DOMAIN table'
            BY <3>1
        <3> QED BY <3>1, <3>2, <3>3
    <2> QED BY <1>1, <1>2, <2>1, <2>2, <2>3 DEF TypeOK
<1>4. walk' \in Walk
    BY <1>1 DEF Inv
<1>5. Shown'
    <2>1. ASSUME NEW i \in walk.seen \cup Fetched
          PROVE  i \in DOMAIN table /\ (kind = "transactions" => table[i].venue = walk.q.venue)
        BY DEF Inv, Shown
    <2>2. Fetched' = Fetched
        BY <1>1 DEF Fetched
    <2> QED BY <1>1, <2>1, <2>2 DEF Shown
<1>6. Progress'
    <2>1. Matching(table, walk.q)' = Matching(table', walk.q) /\ Selected' = Matching(table', walk.q) \cap walk.ids
        BY <1>1, SameList
    <2>2. Matching(table, walk.q) \subseteq Matching(table', walk.q)
        BY DEF Matching
    <2>3. Base' = IF walk.ids = Null THEN Matching(table', walk.q) ELSE Matching(table', walk.q) \cap walk.ids
        BY <1>1, <2>1 DEF Base
    <2>4. Base \subseteq Base'
        BY <2>2, <2>3 DEF Base, Selected
    <2>5. IsFiniteSet(Base')
        <3>1. IsFiniteSet(1..Len(table')) /\ DOMAIN table' = 1..Len(table')
            BY LenProperties, FS_Interval
        <3>2. Base' \subseteq DOMAIN table'
            BY <2>3 DEF Matching
        <3> QED BY <3>1, <3>2, FS_Subset
    <2>6. \A j \in Matching(table, walk.q) : SortKey(j, walk.q)' = SortKey(j, walk.q)
        BY <1>1 DEF SortKey, Matching
    <2> QED BY <1>1, <2>1, <2>2, <2>4, <2>5, <2>6, ProgressStays
<1>7. LedgerWalk'
    <2>1. DOMAIN table' \subseteq Nat \ {0}
        BY LenProperties
    <2> QED BY <1>1, <2>1, LedgerStays
<1> QED BY <1>3, <1>4, <1>5, <1>6, <1>7 DEF Inv

LEMMA TickInv ==
    ASSUME Inv, NEW t \in Times[kind], Tick(t)
    PROVE  Inv'
<1>1. UNCHANGED <<kind, table, walk>> /\ now' = t /\ t > now
    BY DEF Tick
<1>2. table \in Seq(Row) /\ Len(table) <= MaxRows[kind]
    BY DEF Inv, TypeOK
<1>3. PaidRows'
    <2>1. now \in Nat /\ t \in Nat
        BY Facts, TimeAssumption
    <2> SUFFICES ASSUME kind = "subscribers", NEW i \in DOMAIN table
                 PROVE  /\ table[i].at <= t
                        /\ \E n \in {1, 12} : table[i].end = addMonths(table[i].at, n)
                        /\ table[i].cls \in {"ACTIVE", "EXPIRED"}
                        /\ table[i].cls = "EXPIRED" => table[i].end < t
        BY <1>1 DEF PaidRows
    <2>2. table[i].at \in Nat /\ table[i].end \in Nat
        BY Facts DEF Row
    <2>3. /\ table[i].at <= now
          /\ \E n \in {1, 12} : table[i].end = addMonths(table[i].at, n)
          /\ table[i].cls \in {"ACTIVE", "EXPIRED"}
          /\ table[i].cls = "EXPIRED" => table[i].end < now
        BY DEF Inv, PaidRows
    <2> QED BY <1>1, <2>1, <2>2, <2>3
<1> QED BY <1>1, <1>2, <1>3, TableGrows

\* A period ends no earlier than it begins, and within 366 days.
LEMMA EndType ==
    ASSUME NEW t \in Nat, NEW n \in {1, 12}
    PROVE  addMonths(t, n) \in Nat /\ t <= addMonths(t, n) /\ addMonths(t, n) <= t + 366 * DayLen
BY PeriodEnd

LEMMA ClassTypes ==
    /\ Classes("ledger") \subseteq AnyClass
    /\ Classes("transactions") \subseteq AnyClass
    /\ Classes("subscribers") \subseteq AnyClass
    /\ "CREATED" \in AnyClass /\ "ACTIVE" \in AnyClass /\ "EXPIRED" \in AnyClass
<1>1. "ledger" \in Kinds /\ "transactions" \in Kinds /\ "subscribers" \in Kinds
    BY DEF Kinds
<1>2. /\ "CREATED" \in Classes("transactions")
      /\ "ACTIVE" \in Classes("subscribers") /\ "EXPIRED" \in Classes("subscribers")
    BY DEF Classes
<1>3. \A k \in Kinds : Classes(k) \subseteq AnyClass
    BY DEF AnyClass
<1> QED BY <1>1, <1>2, <1>3

LEMMA NewRows ==
    ASSUME NEW x \in Sample, NEW t \in Nat, now \in Nat
    PROVE  /\ ledgerEntry(x, t) \in Row
           /\ newTransaction(x, t) \in Row
           /\ newSubscription(x) \in Row
           /\ newSubscription(x).at = now /\ newSubscription(x).cls = "ACTIVE"
           /\ \E n \in {1, 12} : newSubscription(x).end = addMonths(now, n)
<1>1. /\ x.cls \in AnyClass /\ x.venue \in Venues /\ x.tag \in {"none", "orderId", "other"}
      /\ x.amount \in Nat
    BY ClassTypes DEF Sample
<1>2. PICK n \in {1, 12} : calculatePeriodEnd(now, x.cycle) = addMonths(now, n)
    BY DEF calculatePeriodEnd
<1>3. calculatePeriodEnd(now, x.cycle) \in Nat
    BY <1>2, EndType
<1>4. newSubscription(x) \in Row
    BY <1>1, <1>3, ClassTypes DEF newSubscription, Row
<1>5. /\ newSubscription(x).at = now /\ newSubscription(x).cls = "ACTIVE"
      /\ newSubscription(x).end = calculatePeriodEnd(now, x.cycle)
    BY DEF newSubscription
<1> QED BY <1>1, <1>2, <1>4, <1>5, ClassTypes DEF ledgerEntry, newTransaction, Row

LEMMA InsertInv ==
    ASSUME Inv, NEW x \in Samples[kind], Insert(x)
    PROVE  Inv'
<1>1. x \in Sample
    BY Facts, InputAssumption
<1>2. UNCHANGED <<kind, now, walk>> /\ Len(table) < MaxRows[kind]
    BY DEF Insert
<1>3. PICK r \in Row : /\ table' = Append(table, r)
                       /\ kind = "subscribers" =>
                            /\ r.at = now /\ r.cls = "ACTIVE"
                            /\ \E n \in {1, 12} : r.end = addMonths(now, n)
    <2>1. CASE \E t \in Times[kind] : kind = "ledger" /\ t <= now /\ table' = Append(table, ledgerEntry(x, t))
        <3>1. PICK t \in Times[kind] : kind = "ledger" /\ table' = Append(table, ledgerEntry(x, t))
            BY <2>1
        <3>2. t \in Nat
            BY Facts, TimeAssumption
        <3> QED BY <1>1, <3>1, <3>2, NewRows, Facts
    <2>2. CASE \E t \in Times[kind] : kind = "transactions" /\ t <= now /\ table' = Append(table, newTransaction(x, t))
        <3>1. PICK t \in Times[kind] : kind = "transactions" /\ table' = Append(table, newTransaction(x, t))
            BY <2>2
        <3>2. t \in Nat
            BY Facts, TimeAssumption
        <3> QED BY <1>1, <3>1, <3>2, NewRows, Facts
    <2>3. CASE kind = "subscribers" /\ table' = Append(table, newSubscription(x))
        <3>1. now \in Nat
            BY Facts
        <3> QED BY <1>1, <2>3, <3>1, NewRows
    <2> QED BY <2>1, <2>2, <2>3 DEF Insert
<1>4. table \in Seq(Row) /\ Len(table) \in Nat /\ MaxRows[kind] \in Nat /\ DOMAIN table = 1..Len(table)
    BY Facts
<1>5. /\ table' \in Seq(Row) /\ Len(table') = Len(table) + 1
      /\ \A i \in 1..Len(table) : table'[i] = table[i]
      /\ table'[Len(table) + 1] = r
    BY <1>3, <1>4, AppendProperties
<1>6. DOMAIN table' = 1..(Len(table) + 1)
    BY <1>5, LenProperties
<1>7. PaidRows'
    <2> SUFFICES ASSUME kind = "subscribers", NEW i \in DOMAIN table'
                 PROVE  /\ table'[i].at <= now
                        /\ \E n \in {1, 12} : table'[i].end = addMonths(table'[i].at, n)
                        /\ table'[i].cls \in {"ACTIVE", "EXPIRED"}
                        /\ table'[i].cls = "EXPIRED" => table'[i].end < now
        BY <1>2 DEF PaidRows
    <2>1. CASE i \in DOMAIN table
        <3>1. table'[i] = table[i]
            BY <1>4, <1>5, <2>1
        <3> QED BY <2>1, <3>1 DEF Inv, PaidRows
    <2>2. CASE i = Len(table) + 1
        <3>1. table'[i] = r /\ r.at = now
            BY <1>3, <1>5, <2>2
        <3>2. now \in Nat
            BY Facts
        <3> QED BY <1>3, <3>1, <3>2
    <2> QED BY <1>4, <1>6, <2>1, <2>2
<1>8. now' \in Times[kind]
    BY <1>2 DEF Inv, TypeOK
<1>9. Len(table') <= MaxRows[kind] /\ DOMAIN table \subseteq DOMAIN table'
    BY <1>2, <1>4, <1>5, <1>6
<1>10. \A i \in DOMAIN table : table'[i] = table[i]
    BY <1>4, <1>5
<1> QED BY <1>2, <1>5, <1>7, <1>8, <1>9, <1>10, TableGrows

\* A row's status changes: the walk is disturbed, or its rows stay.
LEMMA ReclassInv ==
    ASSUME Inv, NEW i \in DOMAIN table, NEW c \in AnyClass, SetClass(i, c), PaidRows',
           kind # "ledger"
    PROVE  Inv'
<1>1. /\ UNCHANGED <<kind, now>>
      /\ table' = [table EXCEPT ![i].cls = c]
    BY DEF SetClass
<1>2. PICK d \in BOOLEAN : /\ walk' = [walk EXCEPT !.disturbed = d]
                           /\ ~d => ~walk.disturbed
                           /\ ~d /\ walk.pc # "idle" /\ i \in Matching(table, walk.q) =>
                                 i \in Matching(table', walk.q) /\ walk.q.sort # "status"
    <2>1. PICK d : d = (walk.disturbed \/ (/\ walk.pc # "idle"
                                           /\ i \in Matching(table, walk.q)
                                           /\ i \notin Matching(table', walk.q) \/ walk.q.sort = "status"))
        OBVIOUS
    <2>2. walk' = [walk EXCEPT !.disturbed = d]
        BY <2>1 DEF SetClass
    <2>3. d \in BOOLEAN
        BY <2>1 DEF Inv, Walk
    <2> QED BY <2>1, <2>2, <2>3
<1>3. /\ table \in Seq(Row) /\ DOMAIN table = 1..Len(table) /\ table[i] \in Row /\ Len(table) \in Nat
      /\ Len(table) <= MaxRows[kind]
    BY Facts
<1>4. [table[i] EXCEPT !.cls = c] \in Row
    BY <1>3 DEF Row
<1>5. table' = [table EXCEPT ![i] = [table[i] EXCEPT !.cls = c]]
    BY <1>1
<1>6. table' \in Seq(Row) /\ Len(table') = Len(table) /\ DOMAIN table' = DOMAIN table
    BY <1>3, <1>4, <1>5, ExceptSeq, LenProperties
<1>7. /\ \A j \in DOMAIN table : j # i => table'[j] = table[j]
      /\ table'[i] = [table[i] EXCEPT !.cls = c]
    BY <1>3, <1>5
<1>8. \A j \in DOMAIN table : /\ table'[j].venue = table[j].venue /\ table'[j].at = table[j].at
                              /\ table'[j].amount = table[j].amount /\ table'[j].end = table[j].end
    BY <1>3, <1>7 DEF Row
<1>9. /\ walk' \in Walk
      /\ walk'.pc = walk.pc /\ walk'.q = walk.q /\ walk'.page = walk.page /\ walk'.ids = walk.ids
      /\ walk'.total = walk.total /\ walk'.rows = walk.rows /\ walk'.begin = walk.begin
      /\ walk'.seen = walk.seen /\ walk'.size = walk.size /\ walk'.disturbed = d
    BY <1>2 DEF Inv, Walk
<1>10. TypeOK'
    BY <1>1, <1>3, <1>6, <1>9 DEF Inv, TypeOK
<1>11. Shown'
    <2>1. Fetched' = Fetched
        BY <1>9 DEF Fetched
    <2>2. ASSUME NEW j \in walk.seen \cup Fetched
          PROVE  j \in DOMAIN table' /\ (kind = "transactions" => table'[j].venue = walk.q.venue)
        BY <1>6, <1>8 DEF Inv, Shown
    <2> QED BY <1>1, <1>9, <2>1, <2>2 DEF Shown
<1>12. Progress'
    <2>1. /\ Matching(table, walk.q)' = Matching(table', walk.q)
          /\ Selected' = Matching(table', walk.q) \cap walk.ids
        BY <1>1, <1>9, SameList
    <2>2. Base' = IF walk.ids = Null THEN Matching(table', walk.q) ELSE Matching(table', walk.q) \cap walk.ids
        BY <1>9, <2>1 DEF Base
    <2>3. IsFiniteSet(Base')
        <3>1. Base' \subseteq DOMAIN table
            BY <1>6, <2>2 DEF Matching
        <3> QED BY <3>1, Facts, FS_Subset
    <2>4. ASSUME ~d, walk.pc # "idle"
          PROVE  /\ Base \subseteq Base'
                 /\ Matching(table, walk.q) \subseteq Matching(table', walk.q)
                 /\ \A j \in Matching(table, walk.q) : SortKey(j, walk.q)' = SortKey(j, walk.q)
        <3>1. Matching(table, walk.q) \subseteq Matching(table', walk.q)
            BY <1>2, <1>6, <1>7, <2>4 DEF Matching
        <3>2. Base \subseteq Base'
            BY <2>2, <3>1 DEF Base, Selected
        <3>3. ASSUME NEW j \in Matching(table, walk.q) PROVE SortKey(j, walk.q)' = SortKey(j, walk.q)
            <4>1. j \in DOMAIN table
                BY DEF Matching
            <4>2. CASE j = i
                <5>1. walk.q.sort \in {"createdAt", "amountPaise", "currentPeriodStart", "currentPeriodEnd"}
                    BY <1>2, <2>4, <4>2, Facts DEF Query
                <5> QED BY <1>8, <1>9, <4>1, <5>1 DEF SortKey
            <4>3. CASE j # i
                BY <1>7, <1>9, <4>1, <4>3 DEF SortKey
            <4> QED BY <4>2, <4>3
        <3> QED BY <3>1, <3>2, <3>3
    <2> QED BY <1>1, <1>2, <1>9, <2>1, <2>3, <2>4, ProgressStays
<1>13. LedgerWalk'
    BY <1>1 DEF LedgerWalk
<1> QED BY <1>9, <1>10, <1>11, <1>12, <1>13 DEF Inv

LEMMA SettleInv ==
    ASSUME Inv, NEW i \in DOMAIN table, NEW c \in Classes(kind), Settle(i, c)
    PROVE  Inv'
<1>1. kind = "transactions" /\ SetClass(i, c) /\ c \in AnyClass
    BY ClassTypes DEF Settle
<1>2. PaidRows'
    BY <1>1 DEF PaidRows, SetClass
<1> QED BY <1>1, <1>2, ReclassInv

LEMMA ExpireInv ==
    ASSUME Inv, NEW i \in DOMAIN table, Expire(i)
    PROVE  Inv'
<1>1. /\ SetClass(i, "EXPIRED") /\ table[i].end < now /\ "EXPIRED" \in AnyClass
      /\ kind = "subscribers"
    BY ClassTypes DEF Expire, PastDue
<1>2. /\ UNCHANGED <<kind, now>> /\ table \in Seq(Row) /\ DOMAIN table = 1..Len(table)
      /\ table[i] \in Row /\ table' = [table EXCEPT ![i] = [table[i] EXCEPT !.cls = "EXPIRED"]]
    BY <1>1, Facts DEF SetClass
<1>3. DOMAIN table' = DOMAIN table
    BY <1>2
<1>4. \A j \in DOMAIN table : j # i => table'[j] = table[j]
    BY <1>2
<1>5. table'[i].at = table[i].at /\ table'[i].end = table[i].end /\ table'[i].cls = "EXPIRED"
    BY <1>2 DEF Row
<1>6. PaidRows'
    <2> SUFFICES ASSUME kind = "subscribers", NEW j \in DOMAIN table
                 PROVE  /\ table'[j].at <= now
                        /\ \E n \in {1, 12} : table'[j].end = addMonths(table'[j].at, n)
                        /\ table'[j].cls \in {"ACTIVE", "EXPIRED"}
                        /\ table'[j].cls = "EXPIRED" => table'[j].end < now
        BY <1>2, <1>3 DEF PaidRows
    <2>1. /\ table[j].at <= now
          /\ \E n \in {1, 12} : table[j].end = addMonths(table[j].at, n)
          /\ table[j].cls \in {"ACTIVE", "EXPIRED"}
          /\ table[j].cls = "EXPIRED" => table[j].end < now
        BY DEF Inv, PaidRows
    <2>2. CASE j = i
        BY <1>1, <1>5, <2>1, <2>2
    <2>3. CASE j # i
        BY <1>4, <2>1, <2>3
    <2> QED BY <2>2, <2>3
<1> QED BY <1>1, <1>6, ReclassInv

-----------------------------------------------------------------------------
(* The reader's steps.                                                     *)

LEMMA SamePaidRows ==
    ASSUME Inv, UNCHANGED <<kind, table, now>>
    PROVE  PaidRows'
BY DEF Inv, PaidRows

\* Nothing but the reader moves: what matches and how it is ordered stays.
LEMMA SameRows ==
    ASSUME UNCHANGED <<kind, table>>, walk'.q = walk.q
    PROVE  /\ Matching(table, walk.q)' = Matching(table, walk.q)
           /\ Selected' = Matching(table, walk.q) \cap walk'.ids
           /\ Base' = IF walk'.ids = Null THEN Matching(table, walk.q) ELSE Matching(table, walk.q) \cap walk'.ids
           /\ \A j : SortKey(j, walk.q)' = SortKey(j, walk.q)
           /\ Tied' = Tied
<1>1. /\ Matching(table, walk.q)' = Matching(table, walk.q)
      /\ Selected' = Matching(table, walk.q) \cap walk'.ids
    BY SameList
<1>2. \A j : SortKey(j, walk.q)' = SortKey(j, walk.q)
    BY DEF SortKey
<1> QED BY <1>1, <1>2 DEF Base, Tied

LEMMA BeginInv ==
    ASSUME Inv, NEW q \in Query, Begin(q),
           kind = "ledger" => q.sort = "createdAt" /\ q.dir = "desc"
    PROVE  Inv'
<1>1. /\ UNCHANGED <<kind, table, now>>
      /\ walk' = [Idle EXCEPT !.pc = "page", !.q = q,
                              !.size = Len(table), !.begin = Matching(table, q)]
    BY DEF Begin
<1>2. /\ walk'.pc = "page" /\ walk'.q = q /\ walk'.begin = Matching(table, q) /\ walk'.page = 1
      /\ walk'.ids = Null /\ walk'.total = Null /\ walk'.rows = Null /\ walk'.seen = {}
      /\ walk'.size = Len(table) /\ ~walk'.disturbed
    BY <1>1 DEF Idle
<1>3. Matching(table, q) \subseteq DOMAIN table
    BY DEF Matching
<1>4. walk' \in Walk
    <2>1. PICK M \in SUBSET Nat : M = Matching(table, q)
        BY <1>3, Facts
    <2>2. walk' = [pc |-> "page", q |-> q, page |-> 1, ids |-> Null, total |-> Null,
                   rows |-> Null, size |-> Len(table), begin |-> M, seen |-> {},
                   disturbed |-> FALSE]
        BY <1>1, <2>1 DEF Idle
    <2>3. Len(table) \in Nat
        BY Facts
    <2> QED BY <2>2, <2>3 DEF Walk
<1>5. TypeOK'
    BY <1>1, <1>2, <1>3, Facts DEF Inv, TypeOK
<1>6. Shown'
    BY <1>2 DEF Shown, Fetched
<1>7. Progress'
    <2>1. Matching(table, walk.q)' = Matching(table', walk'.q)
        BY <1>1, SameList
    <2>2. Base' = Matching(table, q)
        BY <1>1, <1>2, <2>1 DEF Base
    <2>3. skip(NextPage', q.limit) = 0
        <3>1. NextPage' = 1
            BY <1>2 DEF NextPage
        <3>2. q.limit \in 1..100
            BY DEF Query
        <3> QED BY <3>1, <3>2 DEF skip
    <2>4. ASSUME NEW i PROVE Cardinality(Ahead(Base, i, walk.q)') \in Nat
        <3>1. Ahead(Base, i, walk.q)' \subseteq DOMAIN table
            BY <1>3, <2>2 DEF Ahead
        <3> QED BY <3>1, Facts, FS_Subset, FS_CardinalityType
    <2>5. \A i : Cardinality(Ahead(Base, i, walk.q)') >= skip(NextPage, walk.q.limit)'
        BY <1>2, <2>3, <2>4 DEF skip
    <2> QED BY <1>2, <2>2, <2>5 DEF Progress
<1>8. PaidRows'
    BY <1>1, SamePaidRows
<1>9. LedgerWalk'
    <2>1. Matching(table, walk.q)' = Matching(table, q)
        BY <1>1, <1>2, SameList
    <2>2. \A i \in Matching(table, q) : i <= Len(table)
        BY <1>3, Facts
    <2> QED BY <1>1, <1>2, <2>1, <2>2 DEF LedgerWalk, Fetched
<1> QED BY <1>4, <1>5, <1>6, <1>7, <1>8, <1>9 DEF Inv

\* A query of the page being fetched that cuts no row off.
LEMMA QueryInv ==
    ASSUME Inv, UNCHANGED <<kind, table, now>>, walk' \in Walk,
           /\ walk'.q = walk.q /\ walk'.pc = walk.pc /\ walk'.page = walk.page
           /\ walk'.rows = walk.rows /\ walk'.begin = walk.begin /\ walk'.seen = walk.seen
           /\ walk'.size = walk.size,
           ~walk'.disturbed => ~walk.disturbed /\ Base \subseteq Base',
           kind = "ledger" => walk'.disturbed = walk.disturbed,
           walk'.total # Null => walk'.total \in 0..MaxRows[kind],
           walk'.ids # Null => walk'.ids \subseteq 1..MaxRows[kind]
    PROVE  Inv'
<1>1. TypeOK'
    BY DEF Inv, TypeOK
<1>2. Shown'
    <2>1. Fetched' = Fetched
        BY DEF Fetched
    <2> QED BY <2>1 DEF Inv, Shown
<1>3. PaidRows'
    BY SamePaidRows
<1>4. Progress'
    <2>1. /\ Matching(table, walk.q)' = Matching(table, walk.q)
          /\ \A j : SortKey(j, walk.q)' = SortKey(j, walk.q)
          /\ Base' \subseteq Matching(table, walk.q)
        BY SameRows
    <2>2. IsFiniteSet(Base')
        BY <2>1, Finite, FS_Subset
    <2> QED BY <2>1, <2>2, ProgressStays
<1>5. LedgerWalk'
    <2>1. DOMAIN table \subseteq Nat \ {0}
        BY Facts
    <2> QED BY <2>1, LedgerStays
<1> QED BY <1>1, <1>2, <1>3, <1>4, <1>5 DEF Inv

LEMMA SearchInv ==
    ASSUME Inv, Search \/ SearchFails
    PROVE  Inv'
<1>1. PICK S : /\ walk' = [walk EXCEPT !.ids = S]
                  \/ walk' = [walk EXCEPT !.ids = S, !.disturbed = TRUE]
               /\ S \subseteq 1..MaxRows[kind]
               /\ walk' = [walk EXCEPT !.ids = S] => Matching(table, walk.q) \subseteq S \/ walk'.disturbed
    <2>1. CASE Search
        <3>1. PICK S : S = IF kind = "transactions" /\ walk.q.search
                             THEN {i \in DOMAIN table : /\ table[i].venue = walk.q.venue
                                                        /\ table[i].tag # "none"}
                             ELSE 1..MaxRows[kind]
            OBVIOUS
        <3>2. Matching(table, walk.q) \subseteq S
            <4>1. CASE kind = "transactions" /\ walk.q.search
                BY <3>1, <4>1 DEF Matching, where, transactionWhere
            <4>2. CASE ~(kind = "transactions" /\ walk.q.search)
                BY <3>1, <4>2, Facts, Finite
            <4> QED BY <4>1, <4>2
        <3>3. S \subseteq 1..MaxRows[kind]
            BY <3>1, Facts
        <3> QED BY <2>1, <3>1, <3>2, <3>3 DEF Search
    <2>2. CASE SearchFails
        <3>1. PICK S : S = {i \in 1..MaxRows[kind] : i \in DOMAIN table => table[i].tag = "other"}
            OBVIOUS
        <3>2. walk' = [walk EXCEPT !.ids = S, !.disturbed = TRUE]
            BY <2>2, <3>1 DEF SearchFails
        <3>3. walk'.disturbed
            BY <3>2 DEF Inv, Walk
        <3> QED BY <3>1, <3>2, <3>3
    <2> QED BY <2>1, <2>2
<1>2. UNCHANGED <<kind, table, now>> /\ walk.ids = Null
    BY DEF Search, SearchFails
<1>3. S \in SUBSET Nat
    BY <1>1, Facts
<1>4. /\ walk' \in Walk
      /\ walk'.q = walk.q /\ walk'.pc = walk.pc /\ walk'.page = walk.page
      /\ walk'.rows = walk.rows /\ walk'.begin = walk.begin /\ walk'.seen = walk.seen
      /\ walk'.total = walk.total /\ walk'.ids = S /\ walk'.size = walk.size
    BY <1>1, <1>3 DEF Inv, Walk
<1>5. ~walk'.disturbed => walk' = [walk EXCEPT !.ids = S] /\ ~walk.disturbed
    BY <1>1 DEF Inv, Walk
<1>6. ~walk'.disturbed => Base \subseteq Base'
    <2>1. Base = Matching(table, walk.q)
        BY <1>2 DEF Base
    <2> QED BY <1>1, <1>2, <1>4, <1>5, <2>1, SameRows
<1>7. walk.total # Null => walk.total \in 0..MaxRows[kind]
    BY DEF Inv, TypeOK
<1>8. kind = "ledger" => walk'.disturbed = walk.disturbed
    BY DEF Search, SearchFails, Inv, Walk
<1> QED BY <1>1, <1>2, <1>4, <1>5, <1>6, <1>7, <1>8, QueryInv

LEMMA CountInv ==
    ASSUME Inv, Count
    PROVE  Inv'
<1>1. PICK n : n = Cardinality(Selected)
    OBVIOUS
<1>2. UNCHANGED <<kind, table, now>> /\ walk' = [walk EXCEPT !.total = n]
    BY <1>1 DEF Count
<1>3. n \in 0..MaxRows[kind] /\ n \in Nat
    <2>1. MaxRows[kind] \in Nat
        BY Facts
    <2>2. IsFiniteSet(1..MaxRows[kind]) /\ Cardinality(1..MaxRows[kind]) = MaxRows[kind]
        BY <2>1, FS_Interval
    <2>3. Selected \subseteq 1..MaxRows[kind]
        BY Finite, Facts
    <2>4. IsFiniteSet(Selected) /\ Cardinality(Selected) <= MaxRows[kind]
        BY <2>2, <2>3, FS_Subset
    <2>5. Cardinality(Selected) \in Nat
        BY <2>4, FS_CardinalityType
    <2> QED BY <1>1, <2>1, <2>4, <2>5
<1>4. /\ walk' \in Walk
      /\ walk'.q = walk.q /\ walk'.pc = walk.pc /\ walk'.page = walk.page
      /\ walk'.rows = walk.rows /\ walk'.begin = walk.begin /\ walk'.seen = walk.seen
      /\ walk'.total = n /\ walk'.ids = walk.ids /\ walk'.disturbed = walk.disturbed
      /\ walk'.size = walk.size
    BY <1>2, <1>3 DEF Inv, Walk
<1>5. Base' = Base
    BY <1>2, <1>4, SameRows DEF Base, Selected
<1>6. walk.ids # Null => walk.ids \subseteq 1..MaxRows[kind]
    BY DEF Inv, TypeOK
<1> QED BY <1>2, <1>3, <1>4, <1>5, <1>6, QueryInv

\* A row that is missing still after a page was cut has its place behind it.
LEMMA Behind ==
    ASSUME Inv, Clean, walk.pc = "page", walk.ids # Null, walk.rows = Null,
           NEW s \in Results(Selected, walk.q),
           NEW i \in walk.begin \ walk.seen, i \notin PageOf(s, walk.page, walk.q.limit)
    PROVE  \E a \in 1..Cardinality(Selected) :
              /\ s[a] = i /\ Cardinality(Ahead(Selected, i, walk.q)) = a - 1
              /\ skip(walk.page, walk.q.limit) + walk.q.limit < a
<1> PICK N : N = Cardinality(Selected)
    OBVIOUS
<1> PICK limit \in Nat \ {0} : limit = walk.q.limit
    BY Facts
<1>1. walk.q \in Query /\ walk.page \in Nat \ {0}
    BY Facts
<1> PICK k \in Nat : k = skip(walk.page, limit)
    BY <1>1, SkipTypes
<1>2. Base = Selected /\ Fetched = {} /\ NextPage = walk.page
    BY DEF Base, Fetched, NextPage
<1>3. i \in Selected /\ Cardinality(Ahead(Selected, i, walk.q)) >= k
    BY <1>2 DEF Inv, Progress
<1>4. i \in Matching(table, walk.q) /\ i \in DOMAIN table
    BY <1>3, Finite
<1>5. ASSUME NEW j \in Selected \ {i} PROVE ~(InOrder(i, j, walk.q) /\ InOrder(j, i, walk.q))
    <2>1. j \in Matching(table, walk.q) /\ j \in DOMAIN table /\ i # j
        BY Finite
    <2>2. kind = "ledger" \/ SortKey(i, walk.q) # SortKey(j, walk.q)
        BY <1>4, <2>1 DEF Clean, Tied
    <2> QED BY <1>1, <1>4, <2>1, <2>2, Order, Facts
<1>6. PICK a \in 1..N : s[a] = i /\ Cardinality(Ahead(Selected, i, walk.q)) = a - 1
    BY <1>3, <1>5, Finite, Place
<1>7. N \in Nat /\ DOMAIN s = 1..N
    BY Finite, ResultHoldsAll
<1>8. a - 1 >= k
    BY <1>3, <1>6
<1>9. ~(k < a /\ a <= k + limit)
    BY <1>6, <1>7 DEF PageOf
<1>10. k + limit < a
    BY <1>7, <1>8, <1>9
<1> QED BY <1>6, <1>10

\* The rows of a page are no longer missing, and a row that is still missing
\* lies behind the page.
LEMMA ListInv ==
    ASSUME Inv, List
    PROVE  Inv'
<1>1. PICK s \in Results(Selected, walk.q) : walk' = [walk EXCEPT !.rows = PageOf(s, walk.page, walk.q.limit)]
    BY DEF List
<1>2. /\ UNCHANGED <<kind, table, now>>
      /\ walk.pc = "page" /\ walk.ids # Null /\ walk.rows = Null
    BY DEF List
<1> PICK P : P = PageOf(s, walk.page, walk.q.limit)
    OBVIOUS
<1> PICK N : N = Cardinality(Selected)
    OBVIOUS
<1> PICK limit : limit = walk.q.limit
    OBVIOUS
<1>3. walk.q \in Query /\ limit \in Nat \ {0} /\ walk.page \in Nat \ {0}
    BY <1>2, Facts
<1>4. /\ P \subseteq Selected /\ Cardinality(P) \in Nat /\ Cardinality(P) <= limit
      /\ skip(walk.page, limit) + limit <= N => Cardinality(P) = limit
    BY <1>3, Finite, PageSize
<1>5. P \subseteq DOMAIN table /\ P \in SUBSET Nat
    BY <1>4, Finite, Facts
<1>6. /\ walk' \in Walk
      /\ walk'.q = walk.q /\ walk'.pc = walk.pc /\ walk'.page = walk.page
      /\ walk'.begin = walk.begin /\ walk'.seen = walk.seen /\ walk'.rows = P
      /\ walk'.total = walk.total /\ walk'.ids = walk.ids /\ walk'.disturbed = walk.disturbed
      /\ walk'.size = walk.size
    BY <1>1, <1>5 DEF Inv, Walk
<1>7. /\ walk.total # Null => walk.total \in 0..MaxRows[kind]
      /\ walk.ids # Null => walk.ids \subseteq 1..MaxRows[kind]
    BY DEF Inv, TypeOK
<1>8. Base' = Base /\ Base = Selected
    BY <1>2, <1>6, SameRows DEF Base, Selected
<1>9. CASE P = Null
    <2>1. walk'.rows = walk.rows
        BY <1>2, <1>6, <1>9
    <2> QED BY <1>2, <1>6, <1>7, <1>8, <2>1, QueryInv
<1>10. CASE P # Null
    <2>1. Fetched' = P /\ NextPage' = walk.page + 1 /\ Fetched = {} /\ NextPage = walk.page
        BY <1>2, <1>6, <1>10 DEF Fetched, NextPage
    <2>2. TypeOK'
        BY <1>2, <1>4, <1>5, <1>6 DEF Inv, TypeOK
    <2>3. Shown'
        <3>1. ASSUME NEW i \in P
              PROVE  i \in DOMAIN table /\ (kind = "transactions" => table[i].venue = walk.q.venue)
            BY <1>4, <1>5 DEF Selected, Matching, where, transactionWhere
        <3>2. \A i \in walk.seen : /\ i \in DOMAIN table
                                   /\ kind = "transactions" => table[i].venue = walk.q.venue
            BY DEF Inv, Shown
        <3> QED BY <1>2, <1>6, <2>1, <3>1, <3>2 DEF Shown
    <2>4. PaidRows'
        BY <1>2, SamePaidRows
    <2>5. Progress'
        <3> SUFFICES ASSUME Clean'
                     PROVE  /\ walk.begin \subseteq Base
                            /\ \A i \in walk.begin \ (walk.seen \cup P) :
                                  Cardinality(Ahead(Base, i, walk.q)') >= skip(walk.page + 1, limit)
                            /\ Cardinality(P) < limit => walk.begin \subseteq walk.seen \cup P
            BY <1>2, <1>6, <1>8, <2>1 DEF Progress, skip
        <3>1. Clean /\ Tied' = Tied
            BY <1>2, <1>6, SameRows DEF Clean
        <3>2. walk.begin \subseteq Base
            BY <1>2, <3>1 DEF Inv, Progress
        <3> PICK k \in Nat : k = skip(walk.page, limit) /\ skip(walk.page + 1, limit) = k + limit
            BY <1>3, SkipTypes
        <3>4. ASSUME NEW i \in walk.begin \ (walk.seen \cup P)
              PROVE  Cardinality(Ahead(Base, i, walk.q)) >= k + limit /\ k + limit <= N
            <4>1. PICK a \in 1..N : Cardinality(Ahead(Selected, i, walk.q)) = a - 1 /\ k + limit < a
                BY <1>2, <3>1, Behind
            <4>2. N \in Nat
                BY Finite, ResultHoldsAll
            <4> QED BY <1>3, <1>8, <4>1, <4>2
        <3>5. \A i : Ahead(Base, i, walk.q)' = Ahead(Base, i, walk.q)
            <4>1. \A j : SortKey(j, walk.q)' = SortKey(j, walk.q)
                BY <1>2, <1>6, SameRows
            <4>2. \A i, j : InOrder(j, i, walk.q)' = InOrder(j, i, walk.q)
                BY <1>2, <1>6, <4>1, SameOrder
            <4>3. \A i : Ahead(Base, i, walk.q)' = {j \in Base' : j # i /\ InOrder(j, i, walk.q)'}
                BY DEF Ahead
            <4> QED BY <1>8, <4>2, <4>3 DEF Ahead
        <3>6. Cardinality(P) < limit => walk.begin \subseteq walk.seen \cup P
            BY <1>3, <1>4, <3>4
        <3> QED BY <3>2, <3>4, <3>5, <3>6
    <2>6. LedgerWalk'
        <3> SUFFICES ASSUME kind = "ledger"
                     PROVE  /\ ~walk.disturbed
                            /\ walk.q.sort = "createdAt" /\ walk.q.dir = "desc"
                            /\ walk.begin = {i \in Matching(table, walk.q) : i <= walk.size}
                            /\ walk.seen \cup P \subseteq Matching(table, walk.q)
                            /\ \A i \in walk.begin \ walk.seen, j \in walk.seen :
                                  InOrder(j, i, walk.q)
                            /\ \A i \in walk.begin \ (walk.seen \cup P), j \in walk.seen \cup P :
                                  InOrder(j, i, walk.q)
            <4>1. Matching(table, walk.q)' = Matching(table, walk.q)
                BY <1>2, <1>6, SameRows
            <4>2. \A i, j : InOrder(j, i, walk.q)' = InOrder(j, i, walk.q)
                BY <1>2, <1>6, SameRows, SameOrder
            <4> QED BY <1>2, <1>6, <2>1, <4>1, <4>2 DEF LedgerWalk, InOrder, SortKey, Before
        <3>1. /\ ~walk.disturbed /\ walk.q.sort = "createdAt" /\ walk.q.dir = "desc"
              /\ walk.begin = {i \in Matching(table, walk.q) : i <= walk.size}
              /\ walk.seen \subseteq Matching(table, walk.q)
              /\ \A i \in walk.begin \ walk.seen, j \in walk.seen : InOrder(j, i, walk.q)
            BY <1>2, <2>1 DEF Inv, LedgerWalk
        <3>2. P \subseteq Matching(table, walk.q)
            BY <1>4, Finite
        <3>3. ASSUME NEW i \in walk.begin \ (walk.seen \cup P), NEW j \in P
              PROVE  InOrder(j, i, walk.q)
            <4>1. PICK a \in 1..N : s[a] = i /\ skip(walk.page, limit) + limit < a
                BY <1>2, <3>1, Behind DEF Clean
            <4>2. N \in Nat /\ DOMAIN s = 1..N /\ skip(walk.page, limit) \in Nat
                BY <1>3, Finite, ResultHoldsAll, SkipTypes
            <4>3. PICK b \in 1..N : s[b] = j /\ b <= skip(walk.page, limit) + limit
                BY <4>2 DEF PageOf
            <4>4. b < a
                BY <1>3, <4>1, <4>2, <4>3
            <4> QED BY <4>1, <4>3, <4>4, Finite, ResultHoldsAll
        <3> QED BY <3>1, <3>2, <3>3
    <2> QED BY <1>6, <2>2, <2>3, <2>4, <2>5, <2>6 DEF Inv
<1> QED BY <1>9, <1>10

LEMMA RespondInv ==
    ASSUME Inv, Respond
    PROVE  Inv'
<1> PICK pc \in {"done", "page"} :
        pc = IF Cardinality(walk.rows) < walk.q.limit THEN "done" ELSE "page"
    OBVIOUS
<1>1. /\ UNCHANGED <<kind, table, now>>
      /\ walk.pc = "page" /\ walk.rows # Null
      /\ walk' = [walk EXCEPT !.pc = pc, !.page = @ + 1, !.ids = Null, !.total = Null,
                              !.rows = Null, !.seen = @ \cup walk.rows]
    BY DEF Respond
<1>2. walk.rows \subseteq DOMAIN table /\ walk.rows \in SUBSET Nat /\ Fetched = walk.rows
    BY <1>1, Facts DEF Inv, TypeOK, Fetched
<1>3. walk \in Walk /\ walk.page \in Nat \ {0} /\ walk.page + 1 \in Nat \ {0}
    BY Facts DEF Inv
<1>4. walk.seen \cup walk.rows \in SUBSET Nat
    BY <1>2, <1>3 DEF Walk
<1>5. /\ walk'.q = walk.q /\ walk'.pc = pc /\ walk'.page = walk.page + 1
      /\ walk'.begin = walk.begin /\ walk'.seen = walk.seen \cup walk.rows /\ walk'.rows = Null
      /\ walk'.total = Null /\ walk'.ids = Null /\ walk'.disturbed = walk.disturbed
      /\ walk'.size = walk.size
    BY <1>1, <1>3 DEF Walk
<1>6. walk' \in Walk
    BY <1>1, <1>3, <1>4 DEF Walk
<1>7. TypeOK'
    BY <1>1, <1>2, <1>5 DEF Inv, TypeOK
<1>8. Shown'
    BY <1>1, <1>2, <1>5 DEF Inv, Shown, Fetched
<1>9. PaidRows'
    BY <1>1, SamePaidRows
<1>10. Progress'
    <2> SUFFICES ASSUME Clean'
                 PROVE  /\ pc = "page" =>
                             /\ walk.begin \subseteq Base'
                             /\ \A i \in walk.begin \ (walk.seen \cup walk.rows) :
                                  Cardinality(Ahead(Base, i, walk.q)') >= skip(walk.page + 1, walk.q.limit)
                        /\ pc = "done" => walk.begin \subseteq walk.seen \cup walk.rows
        BY <1>5 DEF Progress, Fetched, NextPage, Ahead, skip
    <2>1. /\ Base' = Matching(table, walk.q) /\ Tied' = Tied
          /\ \A j : SortKey(j, walk.q)' = SortKey(j, walk.q)
        BY <1>1, <1>5, SameRows
    <2>2. Clean
        BY <1>1, <1>5, <2>1 DEF Clean
    <2>3. /\ walk.begin \subseteq Base
          /\ \A i \in walk.begin \ (walk.seen \cup walk.rows) :
                Cardinality(Ahead(Base, i, walk.q)) >= skip(walk.page + 1, walk.q.limit)
          /\ Cardinality(walk.rows) < walk.q.limit => walk.begin \subseteq walk.seen \cup walk.rows
        BY <1>1, <1>2, <2>2 DEF Inv, Progress, NextPage
    <2>4. Base \subseteq Base' /\ IsFiniteSet(Base')
        BY <2>1, Finite
    <2>5. skip(walk.page + 1, walk.q.limit) \in Nat
        BY <1>1, <1>3, Facts, SkipTypes
    <2>6. ASSUME NEW i \in walk.begin \ (walk.seen \cup walk.rows)
          PROVE  Cardinality(Ahead(Base, i, walk.q)') >= skip(walk.page + 1, walk.q.limit)
        <3>1. i \in Base
            BY <2>3
        <3>2. /\ Cardinality(Ahead(Base, i, walk.q)) \in Nat
              /\ Cardinality(Ahead(Base, i, walk.q)') \in Nat
              /\ Cardinality(Ahead(Base, i, walk.q)) <= Cardinality(Ahead(Base, i, walk.q)')
            BY <1>1, <1>5, <2>1, <2>4, <3>1, AheadGrows
        <3> QED BY <2>3, <2>5, <3>2
    <2> QED BY <2>3, <2>4, <2>6
<1>11. LedgerWalk'
    <2>1. Fetched' = {}
        BY <1>5 DEF Fetched
    <2>2. Matching(table, walk.q)' = Matching(table, walk.q)
        BY <1>1, <1>5, SameRows
    <2>3. \A i, j : InOrder(j, i, walk.q)' = InOrder(j, i, walk.q)
        BY <1>1, <1>5, SameRows, SameOrder
    <2> QED BY <1>1, <1>2, <1>5, <2>1, <2>2, <2>3 DEF Inv, LedgerWalk
<1> QED BY <1>6, <1>7, <1>8, <1>9, <1>10, <1>11 DEF Inv

-----------------------------------------------------------------------------
(* Every step.                                                             *)

LEMMA NextInv == Inv /\ [Next]_vars => Inv'
<1> SUFFICES ASSUME Inv, [Next]_vars PROVE Inv'
    OBVIOUS
<1>1. CASE \E t \in Times[kind] : Tick(t)
    BY <1>1, TickInv
<1>2. CASE \E x \in Samples[kind] : Insert(x)
    BY <1>2, InsertInv
<1>3. CASE \E i \in DOMAIN table : Expire(i) \/ \E c \in Classes(kind) : Settle(i, c)
    BY <1>3, ExpireInv, SettleInv
<1>4. CASE \E role \in {"admin", "staff", "other"}, q \in Queries[kind] :
              getLedger(role, q) \/ listTransactions(role, q) \/ listSubscribers(role, q)
    <2>1. PICK q \in Queries[kind] :
              Begin(q) /\ (kind = "ledger" => q.sort = "createdAt" /\ q.dir = "desc")
        BY <1>4 DEF getLedger, ledgerQuery, listTransactions, listSubscribers
    <2>2. q \in Query
        BY <2>1, Facts, InputAssumption
    <2> QED BY <2>1, <2>2, BeginInv
<1>5. CASE Search \/ SearchFails
    BY <1>5, SearchInv
<1>6. CASE Count
    BY <1>6, CountInv
<1>7. CASE List
    BY <1>7, ListInv
<1>8. CASE Respond
    BY <1>8, RespondInv
<1>9. CASE UNCHANGED vars
    <2>1. UNCHANGED <<kind, table, now, walk>>
        BY <1>9 DEF vars
    <2>2. table \in Seq(Row) /\ Len(table) <= MaxRows[kind] /\ now \in Times[kind]
        BY DEF Inv, TypeOK
    <2>3. PaidRows'
        BY <2>1, SamePaidRows
    <2> QED BY <2>1, <2>2, <2>3, TableGrows
<1> QED BY <1>1, <1>2, <1>3, <1>4, <1>5, <1>6, <1>7, <1>8, <1>9 DEF Next

LEMMA Invariance == Spec => []Inv
<1>1. Init => Inv
    BY InitInv
<1>2. Inv /\ [Next]_vars => Inv'
    BY NextInv
<1> QED BY <1>1, <1>2, PTL DEF Spec

-----------------------------------------------------------------------------
(* The theorems.                                                           *)

\* The type invariant: the tables and the walk keep their shape, ids stay
\* within the table and a page never holds more rows than its limit.
THEOREM TypeCorrect == Spec => []TypeOK
<1>1. Inv => TypeOK
    BY DEF Inv
<1> QED BY <1>1, Invariance, PTL

\* A walk through all the pages shows every row that matched when it began,
\* however many rows findMany's skip and take meet that were inserted since,
\* unless a row it follows moved or ties in a list without a second sort column.
THEOREM NothingMissed == Spec => []WalkMissesNothing
<1>1. Inv => WalkMissesNothing
    BY DEF Inv, Progress, Clean, WalkMissesNothing
<1> QED BY <1>1, Invariance, PTL

\* Every row shown exists; in the transaction list it belongs to the restaurant
\* that asked, so findFirst finds it.
THEOREM ListedFound == Spec => []ListedIsFound
<1>1. Inv => ListedIsFound
    BY DEF Inv, Shown, ListedIsFound, findTransactionById, findSubscriberDetailById
<1> QED BY <1>1, Invariance, PTL

\* For every filter the CSV export and the pages hold the same rows in the same
\* order: a walk shows what the export begins with, but for rows added since.
THEOREM ExportAgreesAlways == Spec => []ExportAgrees
<1>1. Inv => ExportAgrees
    <2> SUFFICES ASSUME Inv, kind = "ledger", walk.pc # "idle"
                 PROVE  LET s == export(walk.q) IN
                        /\ \A i \in walk.seen : \E a \in DOMAIN s : s[a] = i
                        /\ \A a \in DOMAIN s :
                              s[a] \notin walk.seen /\ s[a] <= walk.size =>
                                  walk.pc # "done" /\ \A b \in DOMAIN s : s[b] \in walk.seen => b < a
        BY DEF ExportAgrees
    <2> PICK q : q = walk.q
        OBVIOUS
    <2> PICK e : e = exportInput(q)
        OBVIOUS
    <2> PICK M : M = Matching(table, q)
        OBVIOUS
    <2>1. q \in Query /\ table \in Seq(Row) /\ walk.pc \in {"page", "done"}
        BY Facts DEF Inv, TypeOK
    <2>2. /\ ~walk.disturbed /\ q.sort = "createdAt" /\ q.dir = "desc"
          /\ walk.begin = {i \in M : i <= walk.size}
          /\ walk.seen \subseteq M
          /\ \A i \in walk.begin \ walk.seen, j \in walk.seen : InOrder(j, i, q)
        BY DEF Inv, LedgerWalk
    <2>3. walk.pc = "done" => walk.begin \subseteq walk.seen
        BY <2>2 DEF Inv, Progress, Clean
    <2>4. /\ e.search = q.search /\ e.cls = q.cls /\ e.venue = q.venue
          /\ e.from = q.from /\ e.to = q.to /\ e.sort = "createdAt" /\ e.dir = "desc"
        BY DEF exportInput, Everything
    <2>5. e \in Query
        <3>1. /\ q.cls \in AnyClass \cup {"ALL"} /\ q.venue \in Venues \cup {Null}
              /\ q.from \in Nat \cup {Null} /\ q.to \in Nat \cup {Null} /\ q.search \in BOOLEAN
            BY <2>1 DEF Query
        <3>2. e = [cls |-> q.cls, venue |-> q.venue, from |-> q.from, to |-> q.to,
                   min |-> Null, max |-> Null, search |-> q.search, method |-> "ALL",
                   sort |-> "createdAt", dir |-> "desc", limit |-> 1]
            BY DEF exportInput, Everything
        <3>3. 1 \in 1..100
            OBVIOUS
        <3> QED BY <3>1, <3>2, <3>3 DEF Query
    <2>6. Matching(table, e) = M
        BY <2>4 DEF Matching, where, ledgerWhere
    <2>7. \A i, j : InOrder(i, j, e) <=> InOrder(i, j, q)
        BY <2>2, <2>4 DEF InOrder, Before, SortKey
    <2> PICK s : s = export(q)
        OBVIOUS
    <2>8. M \in SUBSET DOMAIN table
        BY DEF Matching
    <2>9. IsFiniteSet(M) /\ s \in Results(M, e)
        BY <2>1, <2>5, <2>6, <2>8, ResultsExist DEF export
    <2> PICK N \in Nat : N = Cardinality(M)
        BY <2>9, FS_CardinalityType
    <2>10. /\ DOMAIN s = 1..N /\ s \in [1..N -> M]
           /\ \A i \in M : \E a \in 1..N : s[a] = i
           /\ \A a, b \in 1..N : a < b => InOrder(s[a], s[b], e)
        BY <2>9, ResultHoldsAll
    <2>11. \A i \in walk.seen : \E a \in DOMAIN s : s[a] = i
        BY <2>2, <2>10
    <2>12. ASSUME NEW a \in 1..N, s[a] \notin walk.seen, s[a] <= walk.size
           PROVE  walk.pc # "done" /\ \A b \in 1..N : s[b] \in walk.seen => b < a
        <3>1. s[a] \in walk.begin \ walk.seen
            BY <2>2, <2>10, <2>12
        <3>2. ASSUME NEW b \in 1..N, s[b] \in walk.seen PROVE b < a
            <4>1. InOrder(s[b], s[a], q)
                BY <2>2, <3>1, <3>2
            <4>2. s[a] # s[b] /\ s[a] \in DOMAIN table /\ s[b] \in DOMAIN table
                BY <2>8, <2>10, <2>12, <3>2
            <4>3. ~InOrder(s[a], s[b], q)
                BY <2>1, <4>1, <4>2, Order
            <4>4. ~(a < b) /\ a # b
                BY <2>7, <2>10, <4>2, <4>3
            <4> QED BY <4>4
        <3> QED BY <2>3, <3>1, <3>2
    <2> QED BY <2>10, <2>11, <2>12
<1> QED BY <1>1, Invariance, PTL

\* Days compare as the instants that begin them.
LEMMA DayOf ==
    ASSUME NEW t \in Nat, NEW d \in Nat
    PROVE  /\ t \div DayLen \in Nat
           /\ d <= t \div DayLen <=> d * DayLen <= t
           /\ t \div DayLen <= d <=> t < (d + 1) * DayLen
<1> PICK l \in Nat : l = DayLen /\ l > 0
    BY TimeAssumption
<1> PICK x \in Nat : x = t \div l
    OBVIOUS
<1> PICK z \in 0..(l - 1) : z = t % l
    OBVIOUS
<1>1. t = l * x + z
    OBVIOUS
<1>2. ASSUME NEW c \in Nat, c <= x PROVE c * l <= t
    <2>1. c * l <= x * l
        BY <1>2
    <2>2. x * l = l * x /\ c * l \in Nat /\ l * x \in Nat
        OBVIOUS
    <2> QED BY <1>1, <2>1, <2>2
<1>3. ASSUME NEW c \in Nat, x < c PROVE t < c * l
    <2>1. PICK y \in Nat : c = x + 1 + y
        BY <1>3
    <2>2. c * l = l * x + l + y * l
        BY <2>1
    <2>3. y * l \in Nat /\ l * x \in Nat
        OBVIOUS
    <2> QED BY <1>1, <2>2, <2>3
<1>4. d <= x <=> d * l <= t
    <2>1. d * l \in Nat
        OBVIOUS
    <2>2. x < d => t < d * l
        BY <1>3
    <2> QED BY <1>2, <2>1, <2>2
<1>5. x <= d <=> t < (d + 1) * l
    <2>1. d + 1 \in Nat /\ (d + 1) * l \in Nat
        OBVIOUS
    <2>2. x < d + 1 => t < (d + 1) * l \/ d + 1 <= x
        <3>1. ASSUME x < d + 1 PROVE t < (d + 1) * l
            BY <1>3, <2>1, <3>1
        <3> QED BY <3>1
    <2>3. d + 1 <= x => (d + 1) * l <= t
        BY <1>2, <2>1
    <2> QED BY <2>1, <2>2, <2>3
<1> QED BY <1>4, <1>5

\* The ledger of a period holds exactly the entries written on its days in
\* India, for any length of a day and any offset within it.
THEOREM DaysKept == Spec => []LedgerDays
<1>1. Inv => LedgerDays
    <2> SUFFICES ASSUME Inv, kind = "ledger", NEW i \in DOMAIN table, NEW j \in DOMAIN table
                 PROVE  Matching(table, [Everything EXCEPT !.from = indiaDay(i), !.to = indiaDay(j)]) =
                          {k \in DOMAIN table : indiaDay(i) <= indiaDay(k) /\ indiaDay(k) <= indiaDay(j)}
        BY DEF LedgerDays
    <2>1. Offset \in Nat /\ DayLen \in Nat
        BY TimeAssumption
    <2>2. ASSUME NEW k \in DOMAIN table
          PROVE  table[k].at \in Nat /\ table[k].at + Offset \in Nat /\ indiaDay(k) \in Nat
        <3>1. table[k].at \in Nat
            BY Facts DEF Row
        <3> QED BY <2>1, <3>1, DayOf DEF indiaDay
    <2> PICK c \in Nat : c = indiaDay(i)
        BY <2>2
    <2> PICK d \in Nat : d = indiaDay(j)
        BY <2>2
    <2> PICK q : q = [Everything EXCEPT !.from = c, !.to = d]
        OBVIOUS
    <2>3. /\ q.cls = "ALL" /\ q.venue = Null /\ ~q.search
          /\ q.from = c /\ q.to = d /\ c # Null /\ d # Null
        BY NullAssumption DEF Everything
    <2>4. ASSUME NEW k \in DOMAIN table
          PROVE  where(table[k], q) <=> c <= indiaDay(k) /\ indiaDay(k) <= d
        <3> PICK t \in Nat : t = table[k].at
            BY <2>2
        <3>1. where(table[k], q) <=> t >= c * DayLen - Offset /\ t < (d + 1) * DayLen - Offset
            BY <2>3 DEF where, ledgerWhere, istDayStart
        <3>2. c * DayLen \in Nat /\ (d + 1) * DayLen \in Nat
            BY <2>1
        <3>3. where(table[k], q) <=> c * DayLen <= t + Offset /\ t + Offset < (d + 1) * DayLen
            BY <2>1, <3>1, <3>2
        <3>4. /\ c <= indiaDay(k) <=> c * DayLen <= t + Offset
              /\ indiaDay(k) <= d <=> t + Offset < (d + 1) * DayLen
            BY <2>2, DayOf DEF indiaDay
        <3> QED BY <3>3, <3>4
    <2> QED BY <2>4 DEF Matching
<1> QED BY <1>1, Invariance, PTL

\* Of finitely many subscriptions one ends last.
LEMMA LastEnd ==
    ASSUME Inv, kind = "subscribers", NEW S \in SUBSET DOMAIN table, S # {}
    PROVE  \E i \in S : \A j \in S : table[j].end <= table[i].end
<1> PICK b : b = now + 366 * DayLen
    OBVIOUS
<1>1. b \in Nat
    BY Facts, TimeAssumption
<1>2. ASSUME NEW i \in S PROVE table[i].end \in Nat /\ table[i].end <= b
    <2>1. table[i].at <= now /\ \E n \in {1, 12} : table[i].end = addMonths(table[i].at, n)
        BY DEF Inv, PaidRows
    <2>2. table[i].at \in Nat /\ table[i].end \in Nat /\ now \in Nat
        BY Facts DEF Row
    <2>3. table[i].end <= table[i].at + 366 * DayLen
        BY <2>1, <2>2, EndType
    <2>4. 366 * DayLen \in Nat
        BY TimeAssumption
    <2> QED BY <2>1, <2>2, <2>3, <2>4
<1> DEFINE D == {b - table[i].end : i \in S}
<1>3. D \subseteq Nat /\ D # {}
    BY <1>1, <1>2
<1>4. PICK d \in D : \A e \in D : ~(<<e, d>> \in OpToRel(<, Nat))
    <2> HIDE DEF D
    <2> QED BY <1>3, NatLessThanWellFounded, WFMin, Zenon
<1>5. PICK i \in S : d = b - table[i].end
    OBVIOUS
<1>6. \A j \in S : table[j].end <= table[i].end
    <2> TAKE j \in S
    <2>1. b - table[j].end \in D /\ b - table[j].end \in Nat /\ d \in Nat
        BY <1>3
    <2>2. ~(b - table[j].end < d)
        BY <1>4, <2>1 DEF OpToRel
    <2>3. table[i].end \in Nat /\ table[j].end \in Nat
        BY <1>2
    <2> QED BY <1>1, <1>5, <2>2, <2>3
<1> QED BY <1>6

\* Inside a paid period, and only there, a restaurant is active to the status
\* query: the expiry job never takes a period that still runs.
THEOREM PaidActive == Spec => []PaidIsActive
<1>1. Inv => PaidIsActive
    <2> SUFFICES ASSUME Inv, kind = "subscribers",
                        NEW paid, paid = {table[i].venue : i \in {j \in DOMAIN table : now <= table[j].end}}
                 PROVE  {v \in Venues : isSubscriptionActive(v)} = paid
        BY DEF PaidIsActive
    <2>1. ASSUME NEW i \in DOMAIN table
          PROVE  /\ now <= table[i].end => table[i].cls = "ACTIVE"
                 /\ table[i].venue \in Venues
                 /\ now <= table[i].end <=> table[i].end >= now
        <3>1. table[i].end \in Nat /\ now \in Nat /\ table[i].venue \in Venues
            BY Facts DEF Row
        <3> QED BY <3>1 DEF Inv, PaidRows
    <2>3. ASSUME NEW v \in Venues PROVE isSubscriptionActive(v) <=> v \in paid
        <3>1. ASSUME isSubscriptionActive(v) PROVE v \in paid
            BY <2>1, <3>1 DEF isSubscriptionActive, findActiveByRestaurantId
        <3>2. ASSUME v \in paid PROVE isSubscriptionActive(v)
            <4>1. findActiveByRestaurantId(v) # {}
                BY <2>1, <3>2 DEF findActiveByRestaurantId
            <4>2. PICK i \in findActiveByRestaurantId(v) :
                      \A j \in findActiveByRestaurantId(v) : table[j].end <= table[i].end
                <5>1. findActiveByRestaurantId(v) \in SUBSET DOMAIN table
                    BY DEF findActiveByRestaurantId
                <5> QED BY <4>1, <5>1, LastEnd
            <4>3. isActive(table[i])
                BY <2>1 DEF isActive, findActiveByRestaurantId
            <4> QED BY <4>2, <4>3 DEF isSubscriptionActive
        <3> QED BY <3>1, <3>2
    <2>4. paid \subseteq Venues
        BY <2>1
    <2> QED BY <2>3, <2>4
<1> QED BY <1>1, Invariance, PTL

\* Every subscription's period is the month or the year paid for, as setMonth
\* and setFullYear count them, in leap years too.
THEOREM PeriodKept == Spec => []PeriodHonoured
<1>1. Inv => PeriodHonoured
    <2> SUFFICES ASSUME Inv, kind = "subscribers", NEW i \in DOMAIN table
                 PROVE  LET first == table[i].at \div DayLen
                            last  == table[i].end \div DayLen
                            days  == last - first
                            m     == MonthOf(first)
                            dom(d) == d - MonthStart(MonthOf(d)) IN
                        /\ table[i].end % DayLen = table[i].at % DayLen
                        /\ days \in 28..31 \/ days \in 365..366
                        /\ \/ dom(last) = dom(first) /\ MonthOf(last) \in {m + 1, m + 12}
                           \/ /\ MonthOf(last) \in {m + 2, m + 13}
                              /\ dom(last) = dom(first) - MonthLen(MonthOf(last) - 1)
        BY DEF PeriodHonoured
    <2>1. PICK n \in {1, 12} : table[i].end = addMonths(table[i].at, n)
        BY DEF Inv, PaidRows
    <2>2. table[i].at \in Nat
        BY Facts DEF Row
    <2> PICK first : first = table[i].at \div DayLen
        OBVIOUS
    <2> PICK last : last = table[i].end \div DayLen
        OBVIOUS
    <2> PICK m : m = MonthOf(first)
        OBVIOUS
    <2>3. m \in Nat
        BY <2>2, Halves, MonthOfDay
    <2>4. /\ table[i].end % DayLen = table[i].at % DayLen
          /\ last - first \in 28..31 \/ last - first \in 365..366
          /\ \/ /\ last - MonthStart(MonthOf(last)) = first - MonthStart(MonthOf(first))
                /\ MonthOf(last) = m + n
             \/ /\ MonthOf(last) = m + n + 1
                /\ last - MonthStart(MonthOf(last)) =
                     first - MonthStart(MonthOf(first)) - MonthLen(MonthOf(last) - 1)
        BY <2>1, <2>2, PeriodEnd
    <2>5. m + n \in {m + 1, m + 12} /\ m + n + 1 \in {m + 2, m + 13}
        BY <2>3
    <2> QED BY <2>4, <2>5
<1> QED BY <1>1, Invariance, PTL
=============================================================================
