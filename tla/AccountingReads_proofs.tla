----------------------- MODULE AccountingReads_proofs -----------------------
(***************************************************************************)
(* Proofs about the accounting tools that read: the matches of a bank      *)
(* proposal, what was open together when it is recorded, the history of    *)
(* the rates, and the pages of the reports.  First what sorting and paging *)
(* do with any finite set of numbers; then a section for each part of the  *)
(* composition with the invariant it keeps; last the theorems.             *)
(***************************************************************************)
EXTENDS AccountingReads, FiniteSetTheorems, SequenceTheorems, WellFoundedInduction, TLAPS


----------------------------------------------------------------------------
\* Finite sets of numbers, and rows in order.

LEMMA NumberOrder ==
    \E R : IsWellFoundedOn(R, Nat) /\ \A x, y \in Nat : <<y, x>> \in R <=> y < x
  <1>1. IsWellFoundedOn(OpToRel(<, Nat), Nat)
    BY NatLessThanWellFounded
  <1>2. \A x, y \in Nat : <<y, x>> \in OpToRel(<, Nat) <=> y < x
    BY DEF OpToRel
  <1> QED
    BY <1>1, <1>2, Zenon

LEMMA LeastNumber ==
    ASSUME NEW T \in SUBSET Nat, T # {}
    PROVE  \E x \in T : \A y \in T : x <= y
  <1>1. PICK R : IsWellFoundedOn(R, Nat) /\ \A x, y \in Nat : <<y, x>> \in R <=> y < x
    BY NumberOrder
  <1>2. PICK x \in T : \A y \in T : ~ (<<y, x>> \in R)
    BY <1>1, WFMin
  <1>3. ASSUME NEW y \in T PROVE x <= y
    <2>1. x \in Nat /\ y \in Nat
      OBVIOUS
    <2>2. ~(y < x)
      BY <1>1, <1>2, <2>1, Zenon
    <2> QED
      BY <2>1, <2>2
  <1> QED
    BY <1>3

\* R orders S: what sorted needs.
Orders(R, S) ==
    /\ \A x \in S : <<x, x>> \notin R
    /\ \A x, y, z \in S : <<x, y>> \in R /\ <<y, z>> \in R => <<x, z>> \in R
    /\ \A x, y \in S : x # y => <<x, y>> \in R \/ <<y, x>> \in R

Under(S, R, x) == {y \in S : <<y, x>> \in R}

\* Of two rows the later has more before it.
LEMMA UnderGrows ==
    ASSUME NEW S, IsFiniteSet(S), NEW R, Orders(R, S), NEW x \in S, NEW y \in S, <<x, y>> \in R
    PROVE  /\ Cardinality(Under(S, R, x)) \in Nat /\ Cardinality(Under(S, R, y)) \in Nat
           /\ Cardinality(Under(S, R, x)) < Cardinality(Under(S, R, y))
  <1>1. Under(S, R, x) \subseteq Under(S, R, y) /\ x \in Under(S, R, y) /\ x \notin Under(S, R, x)
    BY DEF Orders, Under
  <1>2. IsFiniteSet(Under(S, R, y))
    BY FS_Subset DEF Under
  <1>3. /\ IsFiniteSet(Under(S, R, x))
        /\ Cardinality(Under(S, R, x)) <= Cardinality(Under(S, R, y))
        /\ Cardinality(Under(S, R, x)) # Cardinality(Under(S, R, y))
    BY <1>1, <1>2, FS_Subset
  <1> QED
    BY <1>2, <1>3, FS_CardinalityType

\* A finite set that is not empty has a first row.
LEMMA FirstRow ==
    ASSUME NEW S, IsFiniteSet(S), S # {}, NEW R, Orders(R, S)
    PROVE  \E x \in S : \A y \in S \ {x} : <<x, y>> \in R
  <1> DEFINE T == {Cardinality(Under(S, R, x)) : x \in S}
  <1>1. \A x \in S : Cardinality(Under(S, R, x)) \in Nat
    BY FS_Subset, FS_CardinalityType DEF Under
  <1>2. T \in SUBSET Nat /\ T # {}
    BY <1>1
  <1>3. PICK n \in T : \A m \in T : n <= m
    <2> HIDE DEF T
    <2> QED BY <1>2, LeastNumber
  <1>4. PICK x \in S : n = Cardinality(Under(S, R, x))
    BY <1>3
  <1>5. ASSUME NEW y \in S \ {x} PROVE <<x, y>> \in R
    <2>1. SUFFICES ASSUME <<y, x>> \in R PROVE FALSE
      BY DEF Orders
    <2>2. Cardinality(Under(S, R, y)) < Cardinality(Under(S, R, x))
      BY <2>1, UnderGrows
    <2>3. Cardinality(Under(S, R, x)) <= Cardinality(Under(S, R, y))
      BY <1>3, <1>4
    <2> QED
      BY <1>1, <2>2, <2>3
  <1> QED
    BY <1>5

LEMMA GreatestNumber ==
    ASSUME NEW S \in SUBSET Int, IsFiniteSet(S), S # {}
    PROVE  \E x \in S : \A y \in S : x >= y
  <1> DEFINE R == {p \in S \X S : p[1] > p[2]}
  <1>1. Orders(R, S)
    <2>1. \A x, y \in S : <<x, y>> \in R <=> x > y
      OBVIOUS
    <2> HIDE DEF R
    <2> QED BY <2>1 DEF Orders
  <1>2. PICK x \in S : \A y \in S \ {x} : <<x, y>> \in R
    <2> HIDE DEF R
    <2> QED BY <1>1, FirstRow
  <1>3. ASSUME NEW y \in S PROVE x >= y
    <2>1. CASE y \in S \ {x}
      <3>1. <<x, y>> \in R
        BY <1>2, <2>1
      <3>2. x > y
        BY <3>1
      <3> QED BY <3>2
    <2>2. CASE y = x
      BY <2>2
    <2> QED BY <2>1, <2>2
  <1> QED
    BY <1>3

LEMMA LeastOfFinite ==
    ASSUME NEW S \in SUBSET Int, IsFiniteSet(S), S # {}
    PROVE  \E x \in S : \A y \in S : x <= y
  <1> DEFINE R == {p \in S \X S : p[1] < p[2]}
  <1>1. Orders(R, S)
    <2>1. \A x, y \in S : <<x, y>> \in R <=> x < y
      OBVIOUS
    <2> HIDE DEF R
    <2> QED BY <2>1 DEF Orders
  <1>2. PICK x \in S : \A y \in S \ {x} : <<x, y>> \in R
    <2> HIDE DEF R
    <2> QED BY <1>1, FirstRow
  <1>3. ASSUME NEW y \in S PROVE x <= y
    <2>1. CASE y \in S \ {x}
      <3>1. <<x, y>> \in R
        BY <1>2, <2>1
      <3>2. x < y
        BY <3>1
      <3> QED BY <3>2
    <2>2. CASE y = x
      BY <2>2
    <2> QED BY <2>1, <2>2
  <1> QED
    BY <1>3

\* The rows of S by R.
Sorted(S, R) ==
    [k \in 1..Cardinality(S) |-> CHOOSE x \in S : Cardinality(Under(S, R, x)) = k - 1]

LEMMA SortedRows ==
    ASSUME NEW S, IsFiniteSet(S), NEW R, Orders(R, S)
    PROVE  /\ Sorted(S, R) \in Seq(S)
           /\ Len(Sorted(S, R)) = Cardinality(S)
           /\ Cardinality(S) \in Nat
           /\ \A x \in S : \E k \in 1..Cardinality(S) : Sorted(S, R)[k] = x
           /\ \A j, k \in 1..Cardinality(S) : j < k => <<Sorted(S, R)[j], Sorted(S, R)[k]>> \in R
  <1> DEFINE n == Cardinality(S)
             r == [x \in S |-> Cardinality(Under(S, R, x))]
             s == Sorted(S, R)
  <1>1. n \in Nat
    BY FS_CardinalityType
  <1>2. \A x \in S : r[x] \in 0..(n - 1)
    <2> SUFFICES ASSUME NEW x \in S PROVE r[x] \in 0..(n - 1)
      OBVIOUS
    <2>1. Under(S, R, x) \subseteq S /\ Under(S, R, x) # S
      BY DEF Under, Orders
    <2>2. /\ IsFiniteSet(Under(S, R, x)) /\ Cardinality(Under(S, R, x)) <= n
          /\ Cardinality(Under(S, R, x)) # n
      BY <2>1, FS_Subset
    <2>3. Cardinality(Under(S, R, x)) \in Nat
      BY <2>2, FS_CardinalityType
    <2> QED
      BY <1>1, <2>2, <2>3
  <1>3. \A x, y \in S : <<x, y>> \in R => r[x] < r[y]
    BY UnderGrows
  <1>4. r \in Injection(S, 0..(n - 1))
    <2>1. r \in [S -> 0..(n - 1)]
      BY <1>2
    <2>2. ASSUME NEW x \in S, NEW y \in S, r[x] = r[y] PROVE x = y
      <3>1. r[x] \in Nat /\ r[y] \in Nat
        BY <1>1, <1>2
      <3>2. /\ <<x, y>> \in R => r[x] < r[y]
            /\ <<y, x>> \in R => r[y] < r[x]
        BY <1>3
      <3>3. <<x, y>> \notin R /\ <<y, x>> \notin R
        <4> HIDE DEF r
        <4> QED BY <2>2, <3>1, <3>2
      <3> QED
        BY <3>3 DEF Orders
    <2> QED
      BY <2>1, <2>2 DEF Injection, IsInjective
  <1>5. Cardinality(0..(n - 1)) = n /\ IsFiniteSet(0..(n - 1))
    <2>1. 0 \in Int /\ n - 1 \in Int
      BY <1>1
    <2>2. IsFiniteSet(0..(n - 1)) /\ Cardinality(0..(n - 1)) = IF 0 > n - 1 THEN 0 ELSE (n - 1) - 0 + 1
      BY <2>1, FS_Interval
    <2> QED
      BY <1>1, <2>2
  <1>6. r \in Surjection(S, 0..(n - 1))
    BY <1>4, <1>5, FS_Injection
  <1> HIDE DEF r
  <1>7. \A k \in 1..n : s[k] \in S /\ r[s[k]] = k - 1
    <2> SUFFICES ASSUME NEW k \in 1..n PROVE s[k] \in S /\ r[s[k]] = k - 1
      OBVIOUS
    <2>1. k - 1 \in 0..(n - 1)
      BY <1>1
    <2>2. \E x \in S : r[x] = k - 1
      BY <1>6, <2>1 DEF Surjection
    <2>3. s[k] = CHOOSE x \in S : Cardinality(Under(S, R, x)) = k - 1
      BY DEF Sorted
    <2>4. \A x \in S : r[x] = Cardinality(Under(S, R, x))
      BY DEF r
    <2> QED
      BY <2>2, <2>3, <2>4
  <1>8. s \in [1..n -> S]
    BY <1>7 DEF Sorted
  <1>9. s \in Seq(S) /\ Len(s) = n
    <2> HIDE DEF s, n
    <2> QED BY <1>1, <1>8
  <1>10. ASSUME NEW x \in S PROVE \E k \in 1..n : s[k] = x
    <2>1. r[x] + 1 \in 1..n /\ (r[x] + 1) - 1 = r[x]
      BY <1>1, <1>2 DEF r
    <2>2. s[r[x] + 1] \in S /\ r[s[r[x] + 1]] = r[x]
      BY <1>7, <2>1
    <2>3. s[r[x] + 1] = x
      BY <1>4, <2>2 DEF Injection, IsInjective
    <2> QED
      BY <2>1, <2>3
  <1>11. ASSUME NEW j \in 1..n, NEW k \in 1..n, j < k PROVE <<s[j], s[k]>> \in R
    <2>1. s[j] \in S /\ s[k] \in S /\ r[s[j]] = j - 1 /\ r[s[k]] = k - 1
      BY <1>7
    <2>2. s[j] # s[k]
      BY <1>1, <1>11, <2>1
    <2>3. CASE <<s[k], s[j]>> \in R
      <3>1. r[s[k]] < r[s[j]]
        BY <1>3, <2>1, <2>3 DEF r
      <3> QED
        BY <1>1, <1>11, <2>1, <3>1
    <2> QED
      BY <2>1, <2>2, <2>3 DEF Orders
  <1> QED
    BY <1>1, <1>9, <1>10, <1>11

----------------------------------------------------------------------------
\* Pages.

\* The rows after the cursor, and the first n of them.
Ahead(S, c) == {i \in S : i > c}
UpTo(S, c) == {i \in S : i <= c}
IsLast(p, m) == m \in p /\ \A i \in p : m >= i
RowsAfter(S, c, n) == {i \in Ahead(S, c) : Cardinality({j \in Ahead(S, c) : j < i}) < n}

\* A page starts with the rows after the cursor that are not left for the next.
LEMMA PageRows ==
    ASSUME NEW S, S \subseteq Nat, IsFiniteSet(S), NEW c \in Nat, NEW n \in Nat \ {0}
    PROVE  /\ RowsAfter(S, c, n) \subseteq Ahead(S, c)
           /\ Ahead(S, c) # {} => RowsAfter(S, c, n) # {}
           /\ RowsAfter(S, c, n) # {} => \E m : IsLast(RowsAfter(S, c, n), m)
           /\ RowsAfter(S, c, n) # Ahead(S, c) =>
                \A m : IsLast(RowsAfter(S, c, n), m) => UpTo(S, c) \cup RowsAfter(S, c, n) = UpTo(S, m)
           /\ RowsAfter(S, c, n) = Ahead(S, c) => UpTo(S, c) \cup RowsAfter(S, c, n) = S
  <1> DEFINE ahead == Ahead(S, c)
             page == RowsAfter(S, c, n)
  <1>0. page = {i \in ahead : Cardinality({j \in ahead : j < i}) < n}
    BY DEF RowsAfter
  <1>1. IsFiniteSet(ahead) /\ ahead \subseteq Nat /\ page \subseteq ahead
    BY <1>0, FS_Subset DEF Ahead
  <1>1a. \A i \in page : Cardinality({j \in ahead : j < i}) < n
    BY <1>0
  <1>1b. \A i \in ahead : Cardinality({j \in ahead : j < i}) < n => i \in page
    BY <1>0
  <1>1c. \A i \in S : i <= c \/ i \in ahead
    BY <1>1 DEF Ahead
  <1>1d. \A i \in ahead : i \in S /\ i > c /\ i \in Nat
    BY <1>1 DEF Ahead
  <1> HIDE DEF page, ahead
  <1>2. IsFiniteSet(page)
    BY <1>1, FS_Subset
  <1>2a. page \in SUBSET Int /\ ahead \in SUBSET Int
    BY <1>1
  <1>3. ASSUME ahead # {} PROVE page # {}
    <2>1. PICK x \in ahead : \A y \in ahead : x <= y
      BY <1>1, <1>2a, <1>3, LeastOfFinite
    <2>2. {j \in ahead : j < x} = {}
      <3>1. \A j \in ahead : ~(j < x)
        BY <1>1d, <2>1
      <3> QED BY <3>1
    <2>3. Cardinality({j \in ahead : j < x}) = 0
      BY <2>2, FS_EmptySet
    <2> QED
      BY <1>3, <1>1b, <2>1, <2>3
  <1>4. ASSUME NEW i \in page, NEW j \in ahead, j < i PROVE j \in page
    <2>1. {k \in ahead : k < j} \subseteq {k \in ahead : k < i}
      <3>1. i \in Nat /\ j \in Nat
        BY <1>1, <1>1d
      <3>2. \A k \in ahead : k < j => k < i
        BY <1>1d, <1>4, <3>1
      <3> QED BY <3>2
    <2>2. IsFiniteSet({k \in ahead : k < i})
      BY <1>1, FS_Subset
    <2>3. /\ Cardinality({k \in ahead : k < j}) <= Cardinality({k \in ahead : k < i})
          /\ IsFiniteSet({k \in ahead : k < j})
      BY <2>1, <2>2, FS_Subset
    <2>4. Cardinality({k \in ahead : k < j}) \in Nat /\ Cardinality({k \in ahead : k < i}) \in Nat
      BY <2>2, <2>3, FS_CardinalityType
    <2>5. Cardinality({k \in ahead : k < i}) < n
      BY <1>1a, <1>4
    <2>6. Cardinality({k \in ahead : k < j}) < n
      BY <2>3, <2>4, <2>5
    <2> QED
      BY <1>1b, <1>4, <2>6
  <1>4a. ASSUME page # {} PROVE \E m : IsLast(page, m)
    BY <1>2, <1>2a, <1>4a, GreatestNumber DEF IsLast
  <1>5. ASSUME page # ahead, NEW m, IsLast(page, m)
        PROVE  UpTo(S, c) \cup page = UpTo(S, m)
    <2>2. m \in page /\ \A i \in page : m >= i
      BY <1>5 DEF IsLast
    <2>3. ASSUME NEW i \in ahead, i <= m PROVE i \in page
      BY <1>1, <1>4, <2>2, <2>3
    <2>4. ASSUME NEW i \in page PROVE i \in ahead /\ i <= m
      BY <1>1, <2>2, <2>4
    <2>6. m \in ahead /\ m \in Nat /\ m > c
      BY <1>1, <1>1d, <2>2
    <2>7. \A i \in UpTo(S, c) \cup page : i \in S /\ i <= m
      BY <1>1, <1>1d, <2>4, <2>6 DEF UpTo
    <2>8. \A i \in S : i <= m => i \in UpTo(S, c) \cup page
      BY <1>1c, <2>3 DEF UpTo
    <2>9. UpTo(S, c) \cup page = UpTo(S, m)
      BY <2>7, <2>8 DEF UpTo
    <2> QED
      BY <2>9
  <1>6. ASSUME page = ahead PROVE UpTo(S, c) \cup page = S
    BY <1>1c, <1>1d, <1>6 DEF UpTo
  <1> QED
    BY <1>1, <1>3, <1>4a, <1>5, <1>6 DEF page, ahead

\* Cutting the next page off a list joins up with what has been cut off before.
LEMMA PageJoins ==
    ASSUME NEW T, NEW s \in Seq(T), NEW k \in Nat, k <= Len(s), NEW m \in Nat, k <= m, m <= Len(s)
    PROVE  /\ SubSeq(s, k + 1, m) \in Seq(T) /\ Len(SubSeq(s, k + 1, m)) = m - k
           /\ \A i \in 1..(m - k) : SubSeq(s, k + 1, m)[i] = s[k + i]
           /\ SubSeq(s, 1, k) \o SubSeq(s, k + 1, m) = SubSeq(s, 1, m)
  <1>1. SubSeq(s, k + 1, m) = [i \in 1..(m - k) |-> s[k + i]]
    OBVIOUS
  <1>2. \A i \in 1..(m - k) : s[k + i] \in T
    OBVIOUS
  <1>3. SubSeq(s, k + 1, m) \in [1..(m - k) -> T]
    BY <1>1, <1>2
  <1>3a. m - k \in Nat
    OBVIOUS
  <1>4. SubSeq(s, k + 1, m) \in Seq(T) /\ Len(SubSeq(s, k + 1, m)) = m - k
    BY <1>3, <1>3a
  <1>5. SubSeq(s, 1, k) \in Seq(T) /\ Len(SubSeq(s, 1, k)) = k
    OBVIOUS
  <1>6. SubSeq(s, 1, m) \in Seq(T) /\ Len(SubSeq(s, 1, m)) = m
    OBVIOUS
  <1> DEFINE c == SubSeq(s, 1, k) \o SubSeq(s, k + 1, m)
  <1>7. c \in Seq(T) /\ Len(c) = m
    BY <1>4, <1>5
  <1>8. \A i \in 1..m : c[i] = SubSeq(s, 1, m)[i]
    BY <1>1, <1>4, <1>5
  <1>9. c = SubSeq(s, 1, m)
    <2> HIDE DEF c
    <2> QED BY <1>6, <1>7, <1>8, SeqEqual
  <1> QED
    BY <1>1, <1>4, <1>9

----------------------------------------------------------------------------
\* Currency rates.

LEMMA HistoryFiniteSets ==
    /\ \A S : History!IsFiniteSet(S) <=> IsFiniteSet(S)
    /\ \A S : History!Cardinality(S) = Cardinality(S)
  BY Zenon DEF History!IsFiniteSet, IsFiniteSet, History!Cardinality, Cardinality

LEMMA RatesFinite ==
    ASSUME NEW S \in SUBSET History!RateIds
    PROVE  /\ IsFiniteSet(S) /\ S \subseteq Nat \ {0}
           /\ \A r \in S : Rate[r].date \in Int /\ Rate[r].own \in BOOLEAN
  <1>1. IsFiniteSet(History!RateIds) /\ History!RateIds \subseteq Nat \ {0}
    BY AccountingReadsAssumption, HistoryFiniteSets DEF History!RateHistoryAssumption
  <1>2. IsFiniteSet(S)
    BY <1>1, FS_Subset
  <1> QED
    BY <1>1, <1>2, AccountingReadsAssumption DEF History!RateHistoryAssumption

\* Of the rates of one day one is above the others.
LEMMA DayHasRate ==
    ASSUME NEW S \in SUBSET History!RateIds, NEW r \in S
    PROVE  \E b \in History!ByDate(S) : Rate[b].date = Rate[r].date
  <1> DEFINE T == {q \in S : Rate[q].date = Rate[r].date}
             R == {p \in T \X T : History!Above(History!Rank(p[1]), History!Rank(p[2]))}
  <1>1. IsFiniteSet(T) /\ T # {} /\ T \subseteq Nat
    BY RatesFinite
  <1>2. \A x, y \in T : <<x, y>> \in R <=> History!Above(History!Rank(x), History!Rank(y))
    OBVIOUS
  <1>3. \A x \in T : History!Rank(x)[1] \in {0, 1} /\ History!Rank(x)[2] = x
    BY DEF History!Rank
  <1>4. Orders(R, T)
    <2> HIDE DEF R, T
    <2> QED
      BY <1>1, <1>2, <1>3 DEF Orders, History!Above
  <1>4a. \E b \in T : \A q \in T \ {b} : <<b, q>> \in R
    <2> HIDE DEF R, T
    <2>1. IsFiniteSet(T) /\ T # {}
      BY <1>1
    <2>2. \A Q : Orders(Q, T) => \E b \in T : \A q \in T \ {b} : <<b, q>> \in Q
      BY <2>1, FirstRow
    <2> QED
      BY <1>4, <2>2
  <1>5. PICK b \in T : \A q \in T \ {b} : <<b, q>> \in R
    BY <1>4a
  <1>6. \A q \in T \ {b} : History!Above(History!Rank(b), History!Rank(q))
    BY <1>2, <1>5
  <1> QED
    BY <1>5, <1>6 DEF History!ByDate

LEMMA ByDateOne ==
    ASSUME NEW S \in SUBSET History!RateIds, NEW a \in History!ByDate(S),
           NEW b \in History!ByDate(S), Rate[a].date = Rate[b].date
    PROVE  a = b
  <1>1. a \in Nat /\ b \in Nat
    BY RatesFinite DEF History!ByDate
  <1>2. History!Rank(a)[1] \in {0, 1} /\ History!Rank(b)[1] \in {0, 1}
        /\ History!Rank(a)[2] = a /\ History!Rank(b)[2] = b
    BY DEF History!Rank
  <1> QED
    BY <1>1, <1>2 DEF History!ByDate, History!Above

\* The rate that holds is the one by_date keeps of the last day.
LEMMA HoldsIs ==
    ASSUME NEW M \in SUBSET History!RateIds, NEW d \in Int, NEW b \in History!ByDate(M),
           Rate[b].date <= d,
           \A r \in M : Rate[r].date <= d => Rate[r].date <= Rate[b].date
    PROVE  History!Holds(M, d) = b
  <1> DEFINE days == {Rate[r].date : r \in {r \in M : Rate[r].date <= d}}
             day == {r \in M : Rate[r].date = History!Max(days)}
             own == {r \in day : Rate[r].own}
  <1>1. b \in M /\ \A q \in M \ {b} : Rate[q].date = Rate[b].date
                      => History!Above(History!Rank(b), History!Rank(q))
    BY DEF History!ByDate
  <1>2. M \subseteq Nat /\ \A r \in M : Rate[r].date \in Int /\ Rate[r].own \in BOOLEAN
    BY RatesFinite
  <1>3. Rate[b].date \in days /\ days \subseteq Int /\ \A x \in days : x <= Rate[b].date
    BY <1>1, <1>2
  <1>4. History!Max(days) = Rate[b].date
    <2> HIDE DEF days
    <2> QED BY <1>3 DEF History!Max
  <1>5. b \in day
    BY <1>1, <1>4
  <1>6. \A q \in day \ {b} : \/ Rate[b].own /\ ~Rate[q].own
                             \/ (Rate[b].own <=> Rate[q].own) /\ b > q
    <2> SUFFICES ASSUME NEW q \in day \ {b}
                 PROVE  \/ Rate[b].own /\ ~Rate[q].own
                        \/ (Rate[b].own <=> Rate[q].own) /\ b > q
      OBVIOUS
    <2>1. History!Above(History!Rank(b), History!Rank(q))
      BY <1>1, <1>4
    <2>2. b \in Nat /\ q \in Nat
      BY <1>1, <1>2
    <2> QED
      BY <2>1, <2>2 DEF History!Above, History!Rank
  <1> DEFINE top == IF own # {} THEN own ELSE day
  <1>6a. b \in Nat /\ day \subseteq Nat
    BY <1>1, <1>2
  <1>7. b \in top /\ (\A q \in top : b >= q) /\ top \subseteq Nat
    <2>1. CASE own # {}
      <3>1. PICK q \in own : TRUE
        BY <2>1
      <3>2. Rate[b].own
        <4>1. q \in day /\ Rate[q].own
          OBVIOUS
        <4> HIDE DEF day
        <4> QED BY <1>6, <4>1
      <3>3. top = own
        BY <2>1
      <3>4. \A p \in own : p \in day /\ Rate[p].own
        OBVIOUS
      <3>5. b \in own
        BY <1>5, <3>2
      <3>6. \A p \in own : p = b \/ b > p
        <4> HIDE DEF day, own
        <4> QED BY <1>6, <3>4
      <3> HIDE DEF day, own, top
      <3> QED BY <1>6a, <3>3, <3>4, <3>5, <3>6
    <2>2. CASE own = {}
      <3>1. \A q \in day : ~Rate[q].own
        BY <2>2
      <3>2. top = day
        BY <2>2
      <3>3. \A p \in day : p = b \/ b > p
        <4> HIDE DEF day, own, top
        <4> QED BY <1>5, <1>6, <3>1
      <3> HIDE DEF day, own, top
      <3> QED BY <1>5, <1>6a, <3>2, <3>3
    <2> QED BY <2>1, <2>2
  <1>8. History!Max(top) = b
    <2> HIDE DEF top
    <2>1. \A x \in top : (\A y \in top : x >= y) => x = b
      BY <1>7
    <2> QED BY <1>7, <2>1 DEF History!Max
  <1>9. days # {}
    BY <1>3
  <1> QED
    BY <1>8, <1>9 DEF History!Holds

LEMMA HoldsNone ==
    ASSUME NEW M, NEW d, \A r \in M : ~(Rate[r].date <= d)
    PROVE  History!Holds(M, d) = 0
  <1>1. {Rate[r].date : r \in {r \in M : Rate[r].date <= d}} = {}
    OBVIOUS
  <1> QED
    BY <1>1 DEF History!Holds

\* A list of rates of different days, the newest first.
LEMMA OrderedRows ==
    ASSUME NEW M \in SUBSET History!RateIds, NEW S \in SUBSET History!ByDate(M)
    PROVE  /\ History!Ordered(S) \in Seq(S)
           /\ Len(History!Ordered(S)) = Cardinality(S)
           /\ Cardinality(S) \in Nat
           /\ \A x \in S : \E k \in 1..Cardinality(S) : History!Ordered(S)[k] = x
           /\ \A j, k \in 1..Cardinality(S) :
                 j < k => Rate[History!Ordered(S)[j]].date > Rate[History!Ordered(S)[k]].date
  <1> DEFINE R == {p \in S \X S : Rate[p[1]].date > Rate[p[2]].date}
  <1>1. S \subseteq M
    BY DEF History!ByDate
  <1>2. IsFiniteSet(S) /\ \A r \in S : Rate[r].date \in Int
    BY <1>1, RatesFinite
  <1>3. \A x, y \in S : <<x, y>> \in R <=> Rate[x].date > Rate[y].date
    OBVIOUS
  <1>4. Orders(R, S)
    <2>1. \A x, y \in S : x # y => Rate[x].date # Rate[y].date
      BY ByDateOne
    <2> HIDE DEF R
    <2> QED
      BY <1>2, <1>3, <2>1 DEF Orders
  <1>5. \A x \in S : {y \in S : Rate[y].date > Rate[x].date} = Under(S, R, x)
    BY DEF Under
  <1>6. History!Ordered(S) = Sorted(S, R)
    <2> HIDE DEF R
    <2>1. History!Ordered(S)
            = [k \in 1..History!Cardinality(S) |->
                 CHOOSE x \in S :
                    History!Cardinality({y \in S : Rate[y].date > Rate[x].date}) = k - 1]
      BY Zenon DEF History!Ordered, History!InOrder
    <2>2. ASSUME NEW k
          PROVE  (CHOOSE x \in S :
                    History!Cardinality({y \in S : Rate[y].date > Rate[x].date}) = k - 1)
                   = (CHOOSE x \in S : Cardinality(Under(S, R, x)) = k - 1)
      BY <1>5, HistoryFiniteSets
    <2>3. History!Cardinality(S) = Cardinality(S)
      BY HistoryFiniteSets
    <2> QED
      BY <2>1, <2>2, <2>3, Zenon DEF Sorted
  <1>7. /\ Sorted(S, R) \in Seq(S)
        /\ Len(Sorted(S, R)) = Cardinality(S)
        /\ Cardinality(S) \in Nat
        /\ \A x \in S : \E k \in 1..Cardinality(S) : Sorted(S, R)[k] = x
        /\ \A j, k \in 1..Cardinality(S) : j < k => <<Sorted(S, R)[j], Sorted(S, R)[k]>> \in R
    <2> HIDE DEF R
    <2> QED BY <1>2, <1>4, SortedRows
  <1>8. \A k \in 1..Cardinality(S) : Sorted(S, R)[k] \in S
    <2> HIDE DEF R
    <2> QED BY <1>7
  <1> QED
    BY <1>3, <1>6, <1>7, <1>8


\* by_date does not mind rates after the period.
LEMMA ByDateUpTo ==
    ASSUME NEW M \in SUBSET History!RateIds, request.currency = Foreign
    PROVE  /\ History!Wanted(M) \in SUBSET History!RateIds
           /\ History!ByDate(History!Wanted(M)) = {r \in History!ByDate(M) : Rate[r].date <= request.end}
  <1>1. History!Wanted(M) = {r \in M : Rate[r].date <= request.end}
    BY DEF History!Wanted
  <1> DEFINE W == {r \in M : Rate[r].date <= request.end}
  <1>2. \A r \in W : \A q \in M : Rate[q].date = Rate[r].date => q \in W
    OBVIOUS
  <1>3. ASSUME NEW r \in W
        PROVE  (\A q \in W \ {r} : Rate[q].date = Rate[r].date
                     => History!Above(History!Rank(r), History!Rank(q)))
               <=> (\A q \in M \ {r} : Rate[q].date = Rate[r].date
                     => History!Above(History!Rank(r), History!Rank(q)))
    BY <1>2
  <1>4. History!ByDate(W) = {r \in History!ByDate(M) : r \in W}
    <2>1. \A r : r \in History!ByDate(W) <=> r \in History!ByDate(M) /\ r \in W
      BY <1>3 DEF History!ByDate
    <2> QED BY <2>1
  <1> QED
    BY <1>1, <1>4 DEF History!ByDate

LEMMA ItemsType ==
    ASSUME NEW M \in SUBSET History!RateIds, NEW q
    PROVE  /\ History!AllItems(M, q) \in Seq(History!RateIds)
           /\ \A k \in 1..Len(History!AllItems(M, q)) : History!AllItems(M, q)[k] \in History!ByDate(M)
  <1> DEFINE S == {r \in History!ByDate(M) : q.start <= Rate[r].date /\ Rate[r].date <= q.end}
  <1>1. S \in SUBSET History!ByDate(M) /\ S \subseteq History!RateIds
    BY DEF History!ByDate
  <1>2. History!Ordered(S) \in Seq(S)
    <2> HIDE DEF S
    <2> QED BY <1>1, OrderedRows
  <1>3. History!AllItems(M, q) = History!Ordered(S)
    BY DEF History!AllItems
  <1> HIDE DEF S
  <1> QED
    BY <1>1, <1>2, <1>3

\* The rates up to the end of the period tell what all of them would.
LEMMA Told ==
    ASSUME NEW M \in SUBSET History!RateIds, request \in RateRequests, request.currency = Foreign
    PROVE  /\ History!AllItems(History!Wanted(M), request) = History!AllItems(M, request)
           /\ History!Prior(History!Wanted(M), request) = History!Holds(M, request.start)
           /\ \A b \in History!ByDate(M) : b = History!Holds(M, Rate[b].date)
  <1>0. request.start \in Int /\ request.end \in Int /\ request.start <= request.end
    BY AccountingReadsAssumption DEF History!RateHistoryAssumption
  <1>1. \A r \in M : Rate[r].date \in Int
    BY RatesFinite
  <1>2. History!ByDate(M) \subseteq M
    BY DEF History!ByDate
  <1> DEFINE W == History!Wanted(M)
             within == {r \in History!ByDate(M) : request.start <= Rate[r].date
                                                  /\ Rate[r].date <= request.end}
             earlier == {r \in History!ByDate(M) : Rate[r].date <= request.start}
  <1>3. {r \in History!ByDate(W) : request.start <= Rate[r].date /\ Rate[r].date <= request.end}
          = within
    BY ByDateUpTo
  <1>4. {r \in History!ByDate(W) : Rate[r].date <= request.start} = earlier
    BY <1>0, <1>1, <1>2, ByDateUpTo
  <1>5. History!AllItems(W, request) = History!AllItems(M, request)
    BY <1>3 DEF History!AllItems
  <1>6. ASSUME NEW b \in History!ByDate(M) PROVE b = History!Holds(M, Rate[b].date)
    <2>1. Rate[b].date \in Int /\ Rate[b].date <= Rate[b].date
      BY <1>1, <1>2
    <2> QED
      BY <2>1, HoldsIs
  <1>7. History!Prior(W, request) = History!Holds(M, request.start)
    <2>1. CASE earlier = {}
      <3>1. ASSUME NEW r \in M, Rate[r].date <= request.start PROVE FALSE
        <4>1. PICK b \in History!ByDate(M) : Rate[b].date = Rate[r].date
          BY DayHasRate
        <4> QED
          BY <2>1, <3>1, <4>1
      <3>2. History!Holds(M, request.start) = 0
        BY <3>1, HoldsNone
      <3> QED
        BY <1>4, <2>1, <3>2 DEF History!Prior
    <2>2. CASE earlier # {}
      <3> DEFINE s == History!Ordered(earlier)
      <3>1. earlier \in SUBSET History!ByDate(M)
        OBVIOUS
      <3>2. /\ s \in Seq(earlier) /\ Len(s) = Cardinality(earlier) /\ Cardinality(earlier) \in Nat
            /\ \A x \in earlier : \E k \in 1..Cardinality(earlier) : s[k] = x
            /\ \A j, k \in 1..Cardinality(earlier) : j < k => Rate[s[j]].date > Rate[s[k]].date
        <4> HIDE DEF earlier
        <4> QED BY <3>1, OrderedRows
      <3>3. 1 \in 1..Cardinality(earlier)
        <4> HIDE DEF s, earlier
        <4> QED BY <2>2, <3>2
      <3>4. s[1] \in earlier
        <4> HIDE DEF s, earlier
        <4> QED BY <3>2, <3>3
      <3>5. s[1] \in History!ByDate(M) /\ Rate[s[1]].date <= request.start /\ Rate[s[1]].date \in Int
        <4> HIDE DEF s
        <4> QED BY <1>1, <1>2, <3>4
      <3>6. ASSUME NEW r \in M, Rate[r].date <= request.start
            PROVE  Rate[r].date <= Rate[s[1]].date
        <4>1. PICK b \in History!ByDate(M) : Rate[b].date = Rate[r].date
          BY DayHasRate
        <4>2. b \in earlier
          BY <3>6, <4>1
        <4>3. PICK k \in 1..Cardinality(earlier) : s[k] = b
          BY <3>2, <4>2
        <4>4. k = 1 \/ 1 < k
          BY <3>2
        <4>5. Rate[r].date \in Int
          BY <1>1
        <4> HIDE DEF s, earlier
        <4>6. k = 1 \/ Rate[s[1]].date > Rate[s[k]].date
          BY <3>2, <3>3, <4>4
        <4> QED
          BY <3>5, <4>1, <4>3, <4>5, <4>6
      <3>7. History!Holds(M, request.start) = s[1]
        <4> HIDE DEF s, earlier
        <4> QED BY <1>0, <3>5, <3>6, HoldsIs
      <3>8. Head(s) = s[1]
        <4> HIDE DEF s, earlier
        <4> QED BY <3>2, <3>3
      <3> QED
        BY <1>4, <2>2, <3>7, <3>8 DEF History!Prior
    <2> QED BY <2>1, <2>2
  <1> QED
    BY <1>5, <1>6, <1>7

\* A page of the rates wanted.
LEMMA RatePages ==
    ASSUME NEW S \in SUBSET History!RateIds, NEW c \in Nat
    PROVE  /\ History!PageAfter(S, c) \subseteq S
           /\ History!HasMore(S, c) =>
                /\ History!Max(History!PageAfter(S, c)) \in History!PageAfter(S, c)
                /\ UpTo(S, c) \cup History!PageAfter(S, c) = UpTo(S, History!Max(History!PageAfter(S, c)))
           /\ ~History!HasMore(S, c) => UpTo(S, c) \cup History!PageAfter(S, c) = S
  <1> DEFINE page == RowsAfter(S, c, RatePage)
  <1>1. IsFiniteSet(S) /\ S \subseteq Nat /\ RatePage \in Nat \ {0}
    BY RatesFinite, AccountingReadsAssumption DEF History!RateHistoryAssumption
  <1>2. History!PageAfter(S, c) = page
    BY HistoryFiniteSets DEF History!PageAfter, RowsAfter, Ahead
  <1>3. /\ page \subseteq Ahead(S, c)
        /\ Ahead(S, c) # {} => page # {}
        /\ page # {} => \E m : IsLast(page, m)
        /\ page # Ahead(S, c) => \A m : IsLast(page, m) => UpTo(S, c) \cup page = UpTo(S, m)
        /\ page = Ahead(S, c) => UpTo(S, c) \cup page = S
    BY <1>1, PageRows
  <1>4. History!HasMore(S, c) <=> page # Ahead(S, c)
    BY <1>2, <1>3 DEF History!HasMore, Ahead
  <1>5. page \subseteq S /\ page \subseteq Nat
    BY <1>1, <1>3 DEF Ahead
  <1> HIDE DEF page
  <1>6. ASSUME page # Ahead(S, c)
        PROVE  /\ History!Max(page) \in page
               /\ UpTo(S, c) \cup page = UpTo(S, History!Max(page))
    <2>1. PICK m : IsLast(page, m)
      BY <1>3, <1>6
    <2>2. \A x \in page : (\A y \in page : x >= y) => x = m
      BY <1>5, <2>1 DEF IsLast
    <2>3. History!Max(page) = m
      BY <2>1, <2>2 DEF History!Max, IsLast
    <2> QED
      BY <1>3, <1>6, <2>1, <2>3 DEF IsLast
  <1> QED
    BY <1>2, <1>3, <1>4, <1>5, <1>6

LEMMA HistoryStarts == History!Init => History!HistoryInv
  <1> SUFFICES ASSUME History!Init PROVE History!HistoryInv
    OBVIOUS
  <1> USE DEF History!Init
  <1>1. rates \in SUBSET History!RateIds /\ rates \subseteq Nat \ {0} /\ IsFiniteSet(rates)
    BY RatesFinite
  <1>2. lastRate \in Nat /\ \A r \in rates : r <= lastRate
    <2>1. rates \cup {0} \in SUBSET Int /\ IsFiniteSet(rates \cup {0}) /\ rates \cup {0} # {}
      BY <1>1, FS_AddElement
    <2>2. PICK x \in rates \cup {0} : \A y \in rates \cup {0} : x >= y
      BY <2>1, GreatestNumber
    <2>3. lastRate = CHOOSE z \in rates \cup {0} : \A y \in rates \cup {0} : z >= y
      BY DEF History!Max
    <2>4. lastRate \in rates \cup {0} /\ \A y \in rates \cup {0} : lastRate >= y
      BY <2>2, <2>3
    <2>5. 0 \in rates \cup {0} /\ rates \subseteq rates \cup {0}
      OBVIOUS
    <2> HIDE DEF History!Init
    <2>6. lastRate \in Nat
      BY <1>1, <2>4
    <2>7. ASSUME NEW r \in rates PROVE r <= lastRate
      BY <1>1, <2>4, <2>5, <2>6, <2>7
    <2> QED BY <2>6, <2>7
  <1>3. History!HistoryTypeOK
    <2>1. answer.next = History!NoCursor /\ answer.items = <<>>
      BY DEF History!NoAnswer
    <2>2. History!NoCursor \in [of : SUBSET RateRequests, offset : Nat]
      BY DEF History!NoCursor
    <2>3. <<>> \in Seq(History!RateIds)
      OBVIOUS
    <2>4. /\ moments = {rates} /\ request \in RateRequests /\ stage = "currency" /\ cursor = 0
          /\ seen = {} /\ given = {History!NoCursor} /\ token = History!NoCursor /\ follows = <<>>
      OBVIOUS
    <2>5. given \subseteq [of : SUBSET RateRequests, offset : Nat]
      BY <2>2, <2>4
    <2> HIDE DEF History!Init
    <2> QED
      BY <1>1, <1>2, <2>1, <2>2, <2>3, <2>4, <2>5, SMTT(30) DEF History!HistoryTypeOK
  <1>4. History!SeenInv
    BY DEF History!SeenInv
  <1>5. History!FollowsInv
    BY DEF History!FollowsInv
  <1>6. History!HistoryOfAMoment /\ History!PagesOfOneHistory
    BY DEF History!HistoryOfAMoment, History!PagesOfOneHistory, History!Answered
  <1> QED
    BY <1>3, <1>4, <1>5, <1>6 DEF History!HistoryInv

LEMMA HistoryStays ==
    ASSUME History!HistoryInv,
           UNCHANGED <<rates, lastRate, request, token, company, stage, cursor, seen, answer, given,
                       follows, moments>>
    PROVE  History!HistoryInv'
  <1> USE DEF History!HistoryInv
  <1>1. History!HistoryTypeOK'
    BY DEF History!HistoryTypeOK
  <1>2. /\ History!Wanted(rates)' = History!Wanted(rates)
        /\ \A M \in moments : History!Wanted(M)' = History!Wanted(M)
        /\ History!Grown' <=> History!Grown
    BY DEF History!Wanted, History!Grown
  <1>3. History!SeenInv'
    BY <1>2 DEF History!SeenInv
  <1>4. History!FollowsInv'
    BY DEF History!FollowsInv, History!CursorFits
  <1>5. History!HistoryOfAMoment'
    BY DEF History!HistoryOfAMoment, History!Answered, History!Tells
  <1>6. History!PagesOfOneHistory'
    BY DEF History!PagesOfOneHistory, History!Answered
  <1> QED
    BY <1>1, <1>3, <1>4, <1>5, <1>6

LEMMA HistoryAsk ==
    ASSUME History!HistoryInv, NEW q \in RateRequests, NEW t \in given, History!Ask(q, t)
    PROVE  History!HistoryInv'
  <1> USE DEF History!Ask, History!odoo, History!HistoryInv
  <1>1. History!HistoryTypeOK'
    BY DEF History!HistoryTypeOK
  <1>2. History!SeenInv'
    BY DEF History!SeenInv
  <1>3. ASSUME follows' # <<>>, token'.offset = Len(follows')
        PROVE  \E p \in RateRequests :
                  /\ token'.of = {p} /\ p.currency = Foreign
                  /\ follows' = SubSeq(History!AllItems(rates', p), 1, Len(follows'))
    <2>1. /\ stage = "done" /\ t # History!NoCursor /\ t = answer.next /\ moments = {rates}
          /\ follows' = follows
      BY <1>3
    <2>2. /\ request.currency = Foreign /\ company # Foreign
          /\ t = [of |-> {request}, offset |-> token.offset + Len(answer.items)]
      BY <2>1 DEF History!FollowsInv
    <2>3. token' = t /\ t.of = {request} /\ t.offset = token.offset + Len(answer.items)
      BY <2>2
    <2>4. follows = SubSeq(History!AllItems(rates, request), 1, Len(follows))
      BY <1>3, <2>1, <2>2, <2>3 DEF History!PagesOfOneHistory, History!Answered
    <2>5. request \in RateRequests /\ rates' = rates
      BY DEF History!HistoryTypeOK
    <2> QED
      BY <2>1, <2>2, <2>3, <2>4, <2>5
  <1>4. History!FollowsInv'
    BY <1>3 DEF History!FollowsInv
  <1>5. History!HistoryOfAMoment' /\ History!PagesOfOneHistory'
    BY DEF History!HistoryOfAMoment, History!PagesOfOneHistory, History!Answered
  <1> QED
    BY <1>1, <1>2, <1>4, <1>5

LEMMA HistoryCheckCursor ==
    ASSUME History!HistoryInv, History!CheckCursor PROVE History!HistoryInv'
  <1> USE DEF History!CheckCursor, History!odoo, History!HistoryInv
  <1>1. History!HistoryTypeOK'
    BY DEF History!HistoryTypeOK
  <1>2. History!SeenInv'
    <2>1. seen = {} /\ cursor = 0
      BY DEF History!SeenInv
    <2>2. \A r \in rates : r \in Nat \ {0}
      BY RatesFinite DEF History!HistoryTypeOK
    <2>3. {r \in History!Wanted(rates) : r <= 0} = {}
      BY <2>2 DEF History!Wanted
    <2>4. History!Wanted(rates)' = History!Wanted(rates)
      BY DEF History!Wanted
    <2> QED
      BY <2>1, <2>3, <2>4 DEF History!SeenInv, History!Grown
  <1>3. History!FollowsInv'
    BY DEF History!FollowsInv, History!CursorFits
  <1>4. History!HistoryOfAMoment' /\ History!PagesOfOneHistory'
    BY DEF History!HistoryOfAMoment, History!PagesOfOneHistory, History!Answered
  <1> QED
    BY <1>1, <1>2, <1>3, <1>4

LEMMA HistoryReadRates ==
    ASSUME History!HistoryInv, History!ReadRates PROVE History!HistoryInv'
  <1> USE DEF History!HistoryInv
  <1> DEFINE S == History!Wanted(rates)
             page == History!PageAfter(S, cursor)
  <1>1. /\ rates \in moments /\ S \in SUBSET History!RateIds /\ S \subseteq rates /\ cursor \in Nat
        /\ rates \subseteq Nat /\ \A r \in rates : r <= lastRate
    BY RatesFinite DEF History!HistoryTypeOK, History!Wanted
  <1>2. /\ page \subseteq S
        /\ History!HasMore(S, cursor) =>
             /\ History!Max(page) \in page
             /\ UpTo(S, cursor) \cup page = UpTo(S, History!Max(page))
        /\ ~History!HasMore(S, cursor) => UpTo(S, cursor) \cup page = S
    <2> HIDE DEF S
    <2> QED BY <1>1, RatePages
  <1>3. /\ stage = "rates" /\ request.currency # company
        /\ UNCHANGED <<rates, lastRate, companyCurrency, request, token, company, answer, given,
                       follows, moments>>
        /\ \/ stage' = "failed" /\ UNCHANGED <<cursor, seen>>
           \/ /\ seen' = seen \cup page
              /\ \/ History!HasMore(S, cursor) /\ cursor' = History!Max(page) /\ stage' = "rates"
                 \/ ~History!HasMore(S, cursor) /\ cursor' = 0 /\ stage' = "answer"
    BY DEF History!ReadRates, History!odoo, History!SeenInv
  <1>4. S' = S /\ (History!Grown' <=> History!Grown)
    BY <1>3 DEF History!Wanted, History!Grown
  <1>5. History!Wanted(rates)' = S
    BY <1>4
  <1>6. \A M \in moments' : History!Wanted(M)' = History!Wanted(M)
    BY <1>3 DEF History!Wanted
  <1> HIDE DEF S, page
  <1>7. cursor' \in Nat /\ cursor' <= lastRate /\ seen' \subseteq History!RateIds
    <2>1. cursor \in Nat /\ cursor <= lastRate /\ seen \subseteq History!RateIds /\ lastRate \in Nat
      BY DEF History!HistoryTypeOK
    <2>2. \A r \in page : r \in Nat /\ r <= lastRate /\ r \in History!RateIds
      BY <1>1, <1>2
    <2> QED
      BY <1>2, <1>3, <2>1, <2>2
  <1>8. History!HistoryTypeOK'
    BY <1>3, <1>7 DEF History!HistoryTypeOK
  <1>9. History!Grown => seen = UpTo(S, cursor)
    BY <1>3 DEF History!SeenInv, S, UpTo
  <1>10. request.currency # Foreign => S = {} /\ seen = {}
    BY DEF S, History!Wanted, History!SeenInv
  <1>11. History!SeenInv'
    <2>1. stage' # "currency"
      BY <1>3
    <2>2. request'.currency # Foreign => seen' = {}
      BY <1>2, <1>3, <1>10, <2>1 DEF History!SeenInv
    <2>3. stage' = "rates" => request'.currency # company'
      BY <1>3
    <2>4. stage' = "rates" /\ History!Grown' => seen' = {r \in History!Wanted(rates)' : r <= cursor'}
      <3>1. stage' = "rates" /\ History!Grown' => seen' = UpTo(S, cursor')
        BY <1>2, <1>3, <1>4, <1>9
      <3> QED
        BY <1>5, <3>1 DEF UpTo
    <2>5. stage' = "answer" /\ History!Grown' => seen' = History!Wanted(rates)'
      BY <1>2, <1>3, <1>4, <1>5, <1>9
    <2>6. rates' \in moments'
      BY <1>1, <1>3
    <2> QED
      BY <2>1, <2>2, <2>3, <2>4, <2>5, <2>6 DEF History!SeenInv
  <1>12. History!FollowsInv'
    BY <1>3 DEF History!FollowsInv, History!CursorFits
  <1>13. History!HistoryOfAMoment' /\ History!PagesOfOneHistory'
    BY <1>3 DEF History!HistoryOfAMoment, History!PagesOfOneHistory, History!Answered
  <1> QED
    BY <1>8, <1>11, <1>12, <1>13

\* What has been read tells what the rates of a moment tell.
LEMMA HistoryAnswer ==
    ASSUME History!HistoryInv, History!Answer PROVE History!HistoryInv'
  <1> USE DEF History!HistoryInv
  <1> DEFINE items == IF request.currency = company THEN <<>> ELSE History!AllItems(seen, request)
             cut == History!Min({token.offset + RateLimit, Len(items)})
             page == SubSeq(items, token.offset + 1, cut)
             after == token.offset + Len(page)
             next == IF after < Len(items) THEN [of |-> {request}, offset |-> after]
                                           ELSE History!NoCursor
  <1>1. /\ stage = "answer"
        /\ UNCHANGED <<rates, lastRate, companyCurrency, changes, request, token, company, cursor,
                       seen, moments>>
        /\ IF token.offset > Len(items)
           THEN stage' = "failed" /\ UNCHANGED <<answer, given, follows>>
           ELSE /\ stage' = "done"
                /\ answer' = [effective |-> IF request.currency = company THEN 0
                                            ELSE History!Prior(seen, request),
                              items |-> page, next |-> next]
                /\ given' = given \cup {next}
                /\ follows' = follows \o page
    BY DEF History!Answer, History!odoo
  <1>2. /\ rates \in moments /\ moments \subseteq SUBSET History!RateIds /\ seen \in SUBSET History!RateIds
        /\ request \in RateRequests /\ token \in given /\ token.offset \in Nat
        /\ given \subseteq [of : SUBSET RateRequests, offset : Nat]
        /\ follows \in Seq(History!RateIds) /\ RateLimit \in Nat \ {0}
    BY AccountingReadsAssumption DEF History!HistoryTypeOK, History!RateHistoryAssumption
  <1>3. CASE token.offset > Len(items)
    <2>1. stage' = "failed" /\ UNCHANGED <<answer, given, follows>>
      BY <1>1, <1>3
    <2>2. History!HistoryTypeOK'
      BY <1>1, <2>1 DEF History!HistoryTypeOK
    <2>3. History!SeenInv'
      BY <1>1, <2>1 DEF History!SeenInv
    <2>4. History!FollowsInv'
      BY <1>1, <2>1 DEF History!FollowsInv
    <2> QED
      BY <2>1, <2>2, <2>3, <2>4 DEF History!HistoryOfAMoment, History!PagesOfOneHistory, History!Answered
  <1>4. CASE ~(token.offset > Len(items))
    <2>1. /\ stage' = "done" /\ given' = given \cup {next} /\ follows' = follows \o page
          /\ answer'.items = page /\ answer'.next = next
          /\ request.currency # company => answer'.effective = History!Prior(seen, request)
      <3> HIDE DEF items, cut, page, next, after
      <3> QED BY <1>1, <1>4
    <2>2. /\ items \in Seq(History!RateIds) /\ Len(items) \in Nat
          /\ request.currency # company =>
                \A k \in 1..Len(items) : items[k] \in History!ByDate(seen)
      <3>1. History!AllItems(seen, request) \in Seq(History!RateIds)
        BY <1>2, ItemsType
      <3>2. <<>> \in Seq(History!RateIds)
        OBVIOUS
      <3>3. items \in Seq(History!RateIds)
        BY <3>1, <3>2
      <3>4. request.currency # company => \A k \in 1..Len(items) : items[k] \in History!ByDate(seen)
        BY <1>2, ItemsType
      <3> HIDE DEF items
      <3> QED BY <3>3, <3>4
    <2>3. /\ cut \in Nat /\ token.offset <= cut /\ cut <= Len(items) /\ Len(page) = cut - token.offset
          /\ page \in Seq(History!RateIds)
          /\ \A k \in 1..Len(page) : page[k] = items[token.offset + k]
          /\ SubSeq(items, 1, token.offset) \o page = SubSeq(items, 1, cut)
      <3>1. cut \in Nat /\ token.offset <= cut /\ cut <= Len(items)
        <4> HIDE DEF items
        <4>1. {token.offset + RateLimit, Len(items)} \subseteq Nat
          BY <1>2, <2>2
        <4>2. cut = IF token.offset + RateLimit < Len(items) THEN token.offset + RateLimit ELSE Len(items)
          BY <1>2, <2>2, <4>1 DEF History!Min
        <4> QED BY <1>2, <1>4, <2>2, <4>2
      <3>2. token.offset <= Len(items)
        <4> HIDE DEF items
        <4> QED BY <1>2, <1>4, <2>2
      <3> HIDE DEF items, cut
      <3>3. /\ page \in Seq(History!RateIds) /\ Len(page) = cut - token.offset
            /\ \A k \in 1..(cut - token.offset) : page[k] = items[token.offset + k]
            /\ SubSeq(items, 1, token.offset) \o page = SubSeq(items, 1, cut)
        BY <1>2, <2>2, <3>1, <3>2, PageJoins
      <3> QED BY <3>1, <3>3
    <2>4. after = cut
      <3> HIDE DEF items, cut, page
      <3> QED BY <1>2, <2>3
    <2>5. next = IF cut < Len(items) THEN [of |-> {request}, offset |-> cut] ELSE History!NoCursor
      BY <2>4
    <2>6. next \in [of : SUBSET RateRequests, offset : Nat]
      <3>1. History!NoCursor \in [of : SUBSET RateRequests, offset : Nat]
        BY DEF History!NoCursor
      <3> HIDE DEF items, cut, page
      <3>2. [of |-> {request}, offset |-> cut] \in [of : SUBSET RateRequests, offset : Nat]
        BY <1>2, <2>3
      <3> QED BY <2>5, <3>1, <3>2
    <2> HIDE DEF next, after
    <2>7. History!HistoryTypeOK'
      <3>1. follows' \in Seq(History!RateIds)
        <4> HIDE DEF items, cut, page
        <4> QED BY <1>2, <2>1, <2>3
      <3>2. /\ rates' \in moments' /\ moments' \subseteq SUBSET History!RateIds
            /\ lastRate' \in Nat /\ \A M \in moments' : \A r \in M : r <= lastRate'
            /\ request' \in RateRequests /\ cursor' \in Nat /\ cursor' <= lastRate'
            /\ seen' \subseteq History!RateIds
        <4> HIDE DEF items, cut, page
        <4> QED BY <1>1 DEF History!HistoryTypeOK
      <3>3. /\ token' \in given' /\ answer'.next \in given'
            /\ given' \subseteq [of : SUBSET RateRequests, offset : Nat]
        <4> HIDE DEF items, cut, page
        <4> QED BY <1>1, <1>2, <2>1, <2>6
      <3> HIDE DEF items, cut, page
      <3> QED
        BY <2>1, <2>3, <3>1, <3>2, <3>3 DEF History!HistoryTypeOK
    <2>8. History!SeenInv'
      <3> HIDE DEF items, cut, page
      <3> QED BY <1>1, <2>1 DEF History!SeenInv
    <2>9. cut < Len(items) => request.currency = Foreign /\ company # Foreign
      <3>1. SUFFICES ASSUME request.currency # Foreign \/ company = Foreign PROVE items = <<>>
        <4> HIDE DEF cut
        <4> QED BY <2>2, <2>3, <3>1
      <3>2. CASE request.currency = company
        BY <3>2
      <3>3. CASE request.currency # company
        <4>1. seen = {}
          BY <1>1, <3>1, <3>3 DEF History!SeenInv
        <4>2. History!ByDate(seen) = {}
          BY <4>1 DEF History!ByDate
        <4> HIDE DEF items
        <4>3. ~(1 \in 1..Len(items))
          BY <2>2, <3>3, <4>2
        <4> QED BY <2>2, <4>3
      <3> QED BY <3>2, <3>3
    <2>10. History!FollowsInv'
      <3> HIDE DEF items, cut, page
      <3>1. answer'.next # History!NoCursor =>
              /\ request'.currency = Foreign /\ company' # Foreign
              /\ answer'.next = [of |-> {request'}, offset |-> token'.offset + Len(answer'.items)]
        <4>1. token.offset + Len(page) = cut
          BY <1>2, <2>3
        <4> QED BY <1>1, <2>1, <2>5, <2>9, <4>1
      <3> QED BY <2>1, <3>1 DEF History!FollowsInv
    <2>11. ASSUME request.currency = Foreign, company # Foreign, History!Grown
           PROVE  \E M \in moments :
                    /\ items = History!AllItems(M, request)
                    /\ History!Prior(seen, request) = History!Holds(M, request.start)
                    /\ \A k \in 1..Len(items) : items[k] = History!Holds(M, Rate[items[k]].date)
      <3>1. PICK M \in moments : seen = History!Wanted(M)
        BY <1>1, <2>11 DEF History!SeenInv
      <3>2. M \in SUBSET History!RateIds
        BY <1>2
      <3>3. /\ History!AllItems(seen, request) = History!AllItems(M, request)
            /\ History!Prior(seen, request) = History!Holds(M, request.start)
            /\ \A b \in History!ByDate(M) : b = History!Holds(M, Rate[b].date)
        <4> HIDE DEF items, cut, page
        <4> QED BY <1>2, <2>11, <3>1, <3>2, Told
      <3>4. items = History!AllItems(M, request)
        BY <2>11, <3>3
      <3>5. \A k \in 1..Len(items) : items[k] \in History!ByDate(M)
        <4> HIDE DEF items
        <4> QED BY <3>2, <3>4, ItemsType
      <3> HIDE DEF items
      <3> QED BY <3>3, <3>4, <3>5
    <2>12. History!HistoryOfAMoment'
      <3>1. SUFFICES ASSUME History!Answered', (\A M \in moments : M \subseteq rates)'
                     PROVE  (\E M \in moments : History!Tells(M))'
        BY DEF History!HistoryOfAMoment
      <3>2. request.currency = Foreign /\ company # Foreign /\ History!Grown
        BY <1>1, <3>1 DEF History!Answered, History!Grown
      <3>3. PICK M \in moments :
                /\ History!Prior(seen, request) = History!Holds(M, request.start)
                /\ \A k \in 1..Len(items) : items[k] = History!Holds(M, Rate[items[k]].date)
        BY <2>11, <3>2
      <3> HIDE DEF items, cut, page
      <3>4. answer'.effective = History!Holds(M, request.start)
        BY <2>1, <3>2, <3>3
      <3>5. ASSUME NEW k \in 1..Len(page) PROVE page[k] = History!Holds(M, Rate[page[k]].date)
        <4>1. token.offset + k \in 1..Len(items)
          BY <1>2, <2>2, <2>3
        <4>2. page[k] = items[token.offset + k]
          BY <2>3
        <4> QED BY <3>3, <4>1, <4>2
      <3>6. M \in moments' /\ request' = request /\ answer'.items = page
        BY <1>1, <2>1
      <3>7. \A k \in 1..Len(answer'.items) :
                answer'.items[k] = History!Holds(M, Rate[answer'.items[k]].date)
        BY <3>5, <3>6
      <3>8. (History!Tells(M))'
        BY <3>4, <3>6, <3>7 DEF History!Tells
      <3> QED
        BY <3>6, <3>8
    <2>13. History!PagesOfOneHistory'
      <3>1. SUFFICES ASSUME History!Answered', moments' = {rates'}, follows' # <<>>,
                            token'.offset + Len(answer'.items) = Len(follows')
                     PROVE  follows' = SubSeq(History!AllItems(rates', request'), 1, Len(follows'))
        BY DEF History!PagesOfOneHistory
      <3>2. /\ request.currency = Foreign /\ company # Foreign /\ moments = {rates}
            /\ rates' = rates /\ request' = request
        BY <1>1, <3>1 DEF History!Answered
      <3>3. History!Grown
        BY <3>2 DEF History!Grown
      <3>4. items = History!AllItems(rates, request)
        BY <2>11, <3>2, <3>3
      <3> HIDE DEF items, cut, page
      <3>5. /\ Len(follows') = Len(follows) + Len(page)
            /\ token.offset + Len(page) = Len(follows')
            /\ Len(follows') = cut /\ token.offset = Len(follows)
        <4>1. Len(follows') = Len(follows) + Len(page) /\ Len(follows) \in Nat /\ Len(page) \in Nat
          <5>1. follows \o page \in Seq(History!RateIds) /\ Len(follows \o page) = Len(follows) + Len(page)
            BY <1>2, <2>3, ConcatProperties
          <5> QED BY <1>2, <2>1, <2>3, <5>1
        <4>2. token.offset + Len(page) = Len(follows')
          BY <1>1, <2>1, <3>1
        <4> QED BY <1>2, <2>3, <4>1, <4>2
      <3>6. follows = SubSeq(items, 1, token.offset)
        <4>1. CASE follows = <<>>
          <5>1. token.offset = 0
            BY <3>5, <4>1
          <5>2. SubSeq(items, 1, 0) = <<>>
            BY <2>2
          <5> QED BY <4>1, <5>1, <5>2
        <4>2. CASE follows # <<>>
          <5>1. PICK q \in RateRequests : /\ token.of = {q}
                                          /\ follows = SubSeq(History!AllItems(rates, q), 1, Len(follows))
            BY <1>1, <3>2, <3>5, <4>2 DEF History!FollowsInv
          <5>2. token = History!NoCursor \/ token.of = {request}
            BY <1>1 DEF History!FollowsInv, History!CursorFits
          <5>3. token # History!NoCursor
            BY <5>1 DEF History!NoCursor
          <5>4. q = request
            BY <5>1, <5>2, <5>3
          <5> QED BY <3>4, <3>5, <5>1, <5>4
        <4> QED BY <4>1, <4>2
      <3>7. follows' = SubSeq(items, 1, cut)
        <4>1. follows' = SubSeq(items, 1, token.offset) \o page
          BY <2>1, <3>6, Zenon
        <4> QED BY <2>3, <4>1, Zenon
      <3> QED
        BY <3>2, <3>4, <3>5, <3>7
    <2> QED
      BY <2>7, <2>8, <2>10, <2>12, <2>13
  <1> QED
    BY <1>3, <1>4

LEMMA HistoryAddRate ==
    ASSUME History!HistoryInv, NEW r \in History!RateIds, History!AddRate(r)
    PROVE  History!HistoryInv'
  <1> USE DEF History!HistoryInv
  <1>1. /\ r > lastRate /\ rates' = rates \cup {r} /\ lastRate' = r /\ moments' = moments \cup {rates'}
        /\ UNCHANGED <<request, token, company, stage, cursor, seen, answer, given, follows>>
    BY DEF History!AddRate, History!Happens
  <1>2. /\ rates \in moments /\ moments \subseteq SUBSET History!RateIds /\ lastRate \in Nat /\ r \in Nat
        /\ \A M \in moments : \A x \in M : x <= lastRate /\ x \in Nat
        /\ cursor \in Nat /\ cursor <= lastRate
    <2>1. History!RateIds \subseteq Nat
      BY RatesFinite
    <2> QED BY <2>1 DEF History!HistoryTypeOK
  <1>3. \A M \in moments : r \notin M
    BY <1>1, <1>2
  <1>4. moments' # {rates'}
    BY <1>1, <1>2, <1>3
  <1>5. History!Grown' => History!Grown
    BY <1>1, <1>3 DEF History!Grown
  <1>6. History!HistoryTypeOK'
    <2>1. lastRate' \in Nat /\ cursor' <= lastRate' /\ \A M \in moments' : \A x \in M : x <= lastRate'
      BY <1>1, <1>2
    <2> QED
      BY <1>1, <2>1 DEF History!HistoryTypeOK
  <1>7. \A M \in moments : History!Wanted(M)' = History!Wanted(M)
    BY <1>1 DEF History!Wanted
  <1>8. History!SeenInv'
    <2>1. {x \in History!Wanted(rates)' : x <= cursor} = {x \in History!Wanted(rates) : x <= cursor}
      BY <1>1, <1>2 DEF History!Wanted
    <2> QED
      BY <1>1, <1>5, <1>7, <2>1 DEF History!SeenInv
  <1>9. History!FollowsInv'
    BY <1>1, <1>4 DEF History!FollowsInv, History!CursorFits
  <1>10. History!HistoryOfAMoment'
    BY <1>1, <1>5 DEF History!HistoryOfAMoment, History!Answered, History!Tells, History!Grown
  <1>11. History!PagesOfOneHistory'
    BY <1>4 DEF History!PagesOfOneHistory
  <1> QED
    BY <1>6, <1>8, <1>9, <1>10, <1>11

LEMMA HistoryDeleteRate ==
    ASSUME History!HistoryInv, NEW r \in History!RateIds, History!DeleteRate(r)
    PROVE  History!HistoryInv'
  <1> USE DEF History!HistoryInv
  <1>1. /\ r \in rates /\ rates' = rates \ {r} /\ lastRate' = lastRate /\ moments' = moments \cup {rates'}
        /\ UNCHANGED <<request, token, company, stage, cursor, seen, answer, given, follows>>
    BY DEF History!DeleteRate, History!Happens
  <1>2. rates \in moments /\ moments \subseteq SUBSET History!RateIds
    BY DEF History!HistoryTypeOK
  <1>3. moments' # {rates'}
    BY <1>1, <1>2
  <1>4. ~ (\A M \in moments' : M \subseteq rates')
    BY <1>1, <1>2
  <1>5. ~ History!Grown'
    BY <1>4 DEF History!Grown
  <1>6. History!HistoryTypeOK'
    BY <1>1 DEF History!HistoryTypeOK
  <1>7. History!SeenInv'
    BY <1>1, <1>5 DEF History!SeenInv
  <1>8. History!FollowsInv'
    BY <1>1, <1>3 DEF History!FollowsInv, History!CursorFits
  <1>9. History!HistoryOfAMoment'
    BY <1>4 DEF History!HistoryOfAMoment
  <1>10. History!PagesOfOneHistory'
    BY <1>3 DEF History!PagesOfOneHistory
  <1> QED
    BY <1>6, <1>7, <1>8, <1>9, <1>10

LEMMA HistoryStep == History!HistoryInv /\ [History!Next]_History!vars => History!HistoryInv'
  <1> SUFFICES ASSUME History!HistoryInv, [History!Next]_History!vars PROVE History!HistoryInv'
    OBVIOUS
  <1>1. ASSUME NEW q \in RateRequests, NEW t \in given, History!Ask(q, t) PROVE History!HistoryInv'
    BY <1>1, HistoryAsk
  <1>2. CASE History!CheckCursor
    BY <1>2, HistoryCheckCursor
  <1>3. CASE History!ReadRates
    BY <1>3, HistoryReadRates
  <1>4. CASE History!Answer
    BY <1>4, HistoryAnswer
  <1>5. ASSUME NEW r \in History!RateIds, History!AddRate(r) PROVE History!HistoryInv'
    BY <1>5, HistoryAddRate
  <1>6. ASSUME NEW r \in History!RateIds, History!DeleteRate(r) PROVE History!HistoryInv'
    BY <1>6, HistoryDeleteRate
  <1>7. CASE History!ChangeCurrency
    <2>1. UNCHANGED <<rates, lastRate, request, token, company, stage, cursor, seen, answer, given,
                      follows, moments>>
      BY <1>7 DEF History!ChangeCurrency, History!Happens
    <2> QED
      BY <2>1, HistoryStays
  <1>8. CASE UNCHANGED History!vars
    BY <1>8, HistoryStays DEF History!vars
  <1> QED
    BY <1>1, <1>2, <1>3, <1>4, <1>5, <1>6, <1>7, <1>8 DEF History!Next

----------------------------------------------------------------------------
\* Bank reconciliation proposals.

LEMMA RacingTypes ==
    ASSUME Racing!BankTypeOK, [Racing!Next]_Racing!vars PROVE Racing!BankTypeOK'
  <1> USE DEF Racing!BankTypeOK, Racing!data, Racing!odoo
  <1>1. CASE Racing!ReadStatements
    <2> DEFINE read0 == IF cursor = 0 THEN Racing!NoRead ELSE read
    <2>1. read0 \in [statements : SUBSET RaceStatements, closed : SUBSET RaceStatements,
                    lines : SUBSET RaceItems]
      BY DEF Racing!NoRead
    <2> HIDE DEF read0
    <2>2. /\ UNCHANGED <<statement, line, closed, status, request>>
          /\ phase' \in {phase, "failed"} /\ stage' \in {stage, "selection"}
          /\ outcome' \in {outcome, "too_many"} /\ phase # "done"
          /\ \/ read' = read
             \/ \E page \in SUBSET RaceStatements :
                   read' = [read0 EXCEPT !.statements = @ \cup page, !.closed = @ \cup (page \cap closed)]
      BY <1>1 DEF Racing!ReadStatements, Racing!Fail, Racing!PageAfter, read0
    <2> QED
      BY <2>1, <2>2
  <1>2. CASE Racing!CheckSelection
    BY <1>2 DEF Racing!CheckSelection, Racing!Fail
  <1>3. CASE Racing!ReadLines
    <2>1. Racing!PageAfter(Racing!OpenLines, cursor) \subseteq RaceItems
      BY DEF Racing!PageAfter, Racing!OpenLines
    <2>2. /\ UNCHANGED <<statement, line, closed, status, request>>
          /\ phase' \in {phase, "failed"} /\ stage' \in {stage, "decide"}
          /\ outcome' \in {outcome, "too_many"} /\ phase # "done"
          /\ \/ read' = read
             \/ read' = [read EXCEPT !.lines = @ \cup Racing!PageAfter(Racing!OpenLines, cursor)]
      BY <1>3 DEF Racing!ReadLines, Racing!Fail
    <2> QED
      BY <2>1, <2>2
  <1>4. CASE Racing!Decide
    BY <1>4 DEF Racing!Decide, Racing!Fail
  <1>5. CASE Racing!PersistProposal
    BY <1>5 DEF Racing!PersistProposal
  <1>6. CASE Racing!UserStep
    <2>1. ASSUME Racing!Happens PROVE UNCHANGED <<statement, line, request, phase, stage, read, outcome>>
      BY <2>1 DEF Racing!Happens
    <2>2. ASSUME NEW l \in RaceItems, Racing!Post(l) PROVE Racing!BankTypeOK'
      BY <2>1, <2>2 DEF Racing!Post
    <2>3. ASSUME NEW S \in SUBSET Racing!OpenStatements, NEW L \in SUBSET Racing!OpenLines,
                 Racing!Reconcile(S, L)
          PROVE  Racing!BankTypeOK'
      <3>1. S \subseteq RaceStatements
        BY DEF Racing!OpenStatements
      <3> QED BY <2>1, <2>3, <3>1 DEF Racing!Reconcile
    <2>4. ASSUME NEW S \in SUBSET closed, NEW L, Racing!Undo(S, L) PROVE Racing!BankTypeOK'
      BY <2>1, <2>4 DEF Racing!Undo
    <2> QED
      BY <1>6, <2>2, <2>3, <2>4 DEF Racing!UserStep
  <1>7. CASE UNCHANGED Racing!vars
    BY <1>7 DEF Racing!vars
  <1> QED
    BY <1>1, <1>2, <1>3, <1>4, <1>5, <1>6, <1>7 DEF Racing!Next

\* What a statement line is matched with has been read.
LEMMA RacingMatches ==
    ASSUME NEW S, NEW L, NEW t, NEW s \in S
    PROVE  LET d == Racing!Decisions(S, L, t) IN
           DOMAIN d = S /\ (d[s].line # Racing!Absent => d[s].line \in L)
  <1>1. Racing!Best(s, L) \subseteq L
    BY DEF Racing!Best, Racing!Scored, Racing!Eligible
  <1>2. Racing!Provisional(s, L, t).line # Racing!Absent => Racing!Provisional(s, L, t).line \in L
    BY <1>1 DEF Racing!Provisional, Racing!Matched, Racing!Unmatched
  <1> QED
    BY <1>2 DEF Racing!Decisions, Racing!Unmatched

RaceInv == Racing!BankTypeOK /\ Racing!SelectionInv /\ Racing!TogetherInv

LEMMA RacingStarts == Racing!Init => RaceInv
  BY DEF Racing!Init, RaceInv, Racing!BankTypeOK, Racing!SelectionInv, Racing!TogetherInv,
         Racing!NoRead, Racing!NoProposal, Racing!PairsTogether

LEMMA RacingReads ==
    ASSUME RaceInv, Racing!ReadStatements PROVE Racing!SelectionInv' /\ Racing!TogetherInv'
  <1>1. /\ UNCHANGED <<closed, status, request, proposal, together, undone, statement>>
        /\ phase \in {"prepare", "validate"} /\ stage = "statements"
    BY DEF Racing!ReadStatements, Racing!odoo, Racing!data
  <1>2. Racing!OpenStatements' = Racing!OpenStatements /\ Racing!OpenLines' = Racing!OpenLines
    BY <1>1 DEF Racing!OpenStatements, Racing!OpenLines
  <1>3. CASE phase' = "failed" /\ outcome' = "too_many" /\ UNCHANGED <<read, cursor, stage>>
    BY <1>1, <1>2, <1>3 DEF RaceInv, Racing!BankTypeOK, Racing!SelectionInv, Racing!TogetherInv,
                            Racing!PairsTogether
  <1>4. ASSUME UNCHANGED <<phase, outcome>>, stage' \in {"statements", "selection"},
               NEW page \in SUBSET RaceStatements,
               read' = [(IF cursor = 0 THEN Racing!NoRead ELSE read)
                           EXCEPT !.statements = @ \cup page, !.closed = @ \cup (page \cap closed)]
        PROVE  Racing!SelectionInv' /\ Racing!TogetherInv'
    <2>1. CASE cursor = 0
      <3>1. read'.statements = page /\ read'.closed = page \cap closed /\ read'.lines = {}
        BY <1>4, <2>1 DEF Racing!NoRead
      <3> QED
        BY <1>1, <1>2, <1>4, <3>1 DEF RaceInv, Racing!BankTypeOK, Racing!SelectionInv,
              Racing!TogetherInv, Racing!PairsTogether, Racing!OpenStatements
    <2>2. CASE cursor # 0
      <3>1. /\ read'.statements = read.statements \cup page
            /\ read'.closed = read.closed \cup (page \cap closed) /\ read'.lines = read.lines
        BY <1>4, <2>2 DEF RaceInv, Racing!BankTypeOK
      <3>2. ~undone /\ phase = "validate" => /\ Racing!PairsTogether(read.statements \ read.closed)
                                            /\ Racing!PairsTogether(Racing!OpenStatements)
        BY <1>1, <2>2 DEF RaceInv, Racing!TogetherInv
      <3>3. ~undone /\ phase = "validate"
               => Racing!PairsTogether(read'.statements \ read'.closed)
        BY <3>1, <3>2 DEF Racing!PairsTogether, Racing!OpenStatements
      <3>4. ~undone' /\ phase' = "validate"
               => Racing!PairsTogether(read.statements \ read.closed)'
        BY <1>1, <1>4, <3>3 DEF Racing!PairsTogether
      <3> QED
        BY <1>1, <1>2, <1>4, <3>1, <3>4 DEF RaceInv, Racing!BankTypeOK, Racing!SelectionInv,
              Racing!TogetherInv, Racing!PairsTogether
    <2> QED
      BY <2>1, <2>2
  <1> QED
    BY <1>1, <1>3, <1>4 DEF Racing!ReadStatements, Racing!Fail, Racing!PageAfter

LEMMA RacingSelects ==
    ASSUME RaceInv, Racing!CheckSelection PROVE Racing!SelectionInv' /\ Racing!TogetherInv'
  <1>1. /\ UNCHANGED <<closed, status, request, cursor, read, proposal, together, undone>>
        /\ phase \in {"prepare", "validate"} /\ stage = "selection"
        /\ \/ phase' = phase /\ outcome' = outcome /\ stage' = "lines"
              /\ (request.tool = "flag" \/ request.ids \subseteq read.statements \ read.closed)
           \/ phase' = "failed" /\ stage' = stage
              /\ outcome' \in {"journal_not_found", "statement_line_not_found", "state_conflict"}
    BY DEF Racing!CheckSelection, Racing!Fail, Racing!odoo, Racing!data
  <1>2. Racing!SelectionInv'
    BY <1>1 DEF RaceInv, Racing!SelectionInv
  <1>3. Racing!TogetherInv'
    BY <1>1 DEF RaceInv, Racing!BankTypeOK, Racing!TogetherInv, Racing!OpenStatements,
                Racing!OpenLines, Racing!PairsTogether
  <1> QED
    BY <1>2, <1>3

LEMMA RacingReadsLines ==
    ASSUME RaceInv, Racing!ReadLines PROVE Racing!SelectionInv' /\ Racing!TogetherInv'
  <1>1. /\ UNCHANGED <<closed, status, request, proposal, together, undone>>
        /\ phase \in {"prepare", "validate"} /\ stage = "lines"
        /\ \/ phase' = "failed" /\ outcome' = "too_many" /\ UNCHANGED <<read, stage>>
           \/ /\ UNCHANGED <<phase, outcome>>
              /\ read' = [read EXCEPT !.lines = @ \cup Racing!PageAfter(Racing!OpenLines, cursor)]
              /\ stage' \in {"lines", "decide"}
    BY DEF Racing!ReadLines, Racing!Fail, Racing!odoo, Racing!data
  <1>2. read'.closed = read.closed /\ read'.statements = read.statements
    BY <1>1 DEF RaceInv, Racing!BankTypeOK
  <1>3. Racing!PageAfter(Racing!OpenLines, cursor) \subseteq Racing!OpenLines
    BY DEF Racing!PageAfter
  <1>4. \A l \in read'.lines : l \in read.lines \/ l \in Racing!OpenLines
    BY <1>1, <1>3 DEF RaceInv, Racing!BankTypeOK
  <1>5. Racing!SelectionInv'
    BY <1>1, <1>2 DEF RaceInv, Racing!SelectionInv
  <1>6. Racing!OpenStatements' = Racing!OpenStatements /\ Racing!OpenLines' = Racing!OpenLines
    BY <1>1 DEF Racing!OpenStatements, Racing!OpenLines
  <1>7. Racing!TogetherInv'
    <2>1. ~undone => \A s \in Racing!OpenStatements, l \in read'.lines : <<s, l>> \in together
      BY <1>4 DEF RaceInv, Racing!TogetherInv
    <2> QED
      BY <1>1, <1>2, <1>6, <2>1 DEF RaceInv, Racing!BankTypeOK, Racing!TogetherInv, Racing!PairsTogether
  <1> QED
    BY <1>5, <1>7

LEMMA RacingDecides ==
    ASSUME RaceInv, Racing!Decide PROVE Racing!SelectionInv' /\ Racing!TogetherInv'
  <1>1. /\ UNCHANGED <<closed, status, request, read, together, undone>>
        /\ phase \in {"prepare", "validate"} /\ stage = "decide" /\ stage' = "statements" /\ cursor' = 0
    BY DEF Racing!Decide, Racing!odoo, Racing!data
  <1>2. Racing!OpenStatements' = Racing!OpenStatements /\ Racing!OpenLines' = Racing!OpenLines
    BY <1>1 DEF Racing!OpenStatements, Racing!OpenLines
  <1>3. CASE UNCHANGED proposal /\ phase' = "failed" /\ outcome' \in {"source_error", "state_conflict"}
    BY <1>1, <1>2, <1>3 DEF RaceInv, Racing!BankTypeOK, Racing!TogetherInv, Racing!SelectionInv,
                            Racing!PairsTogether
  <1>4. CASE /\ phase = "prepare" /\ proposal' = Racing!Built
             /\ \/ phase' = "done" /\ outcome' = "previewed"
                \/ request.tool # "flag" /\ phase' = "validate" /\ outcome' = outcome
    <2>1. \A s \in DOMAIN proposal' : proposal'[s].line # Racing!Absent => proposal'[s].line \in read.lines
      <3> DEFINE S == Racing!Selection
      <3>1. DOMAIN Racing!Decisions(S, read.lines, request.threshold) = S
        BY DEF Racing!Decisions
      <3> HIDE DEF S
      <3>2. \A s \in S : LET d == Racing!Decisions(S, read.lines, request.threshold) IN
               d[s].line # Racing!Absent => d[s].line \in read.lines
        BY RacingMatches
      <3>3. proposal' = Racing!Decisions(S, read.lines, request.threshold)
        BY <1>4 DEF Racing!Built, S
      <3> QED BY <3>1, <3>2, <3>3
    <2>2. DOMAIN proposal' = Racing!Selection
      BY <1>4 DEF Racing!Built, Racing!Decisions
    <2>3. Racing!SelectionInv'
      BY <1>1, <1>4, <2>2 DEF Racing!SelectionInv, Racing!Selection
    <2>4. ~undone => Racing!PairsTogether(Racing!OpenStatements)'
      BY <1>1, <1>2, <2>1 DEF RaceInv, Racing!TogetherInv, Racing!PairsTogether
    <2> QED
      BY <1>1, <1>2, <1>4, <2>3, <2>4 DEF RaceInv, Racing!BankTypeOK, Racing!TogetherInv
  <1>5. CASE phase = "validate" /\ Racing!Unchanged /\ proposal' = Racing!Built /\ phase' = "persist"
             /\ outcome' = outcome
    <2>1. proposal' = proposal
      BY <1>5 DEF Racing!Unchanged
    <2>2. DOMAIN proposal \subseteq read.statements \ read.closed
      BY <1>1, <1>5 DEF RaceInv, Racing!BankTypeOK, Racing!SelectionInv
    <2>3. ~undone => Racing!PairsTogether(DOMAIN proposal)
      BY <1>1, <1>5, <2>2 DEF RaceInv, Racing!TogetherInv, Racing!PairsTogether
    <2>4. ~undone => Racing!PairsTogether(DOMAIN proposal)'
      BY <1>1, <2>1, <2>3 DEF Racing!PairsTogether
    <2> QED
      BY <1>1, <1>2, <1>5, <2>4 DEF RaceInv, Racing!BankTypeOK, Racing!TogetherInv, Racing!SelectionInv
  <1> QED
    BY <1>3, <1>4, <1>5 DEF Racing!Decide, Racing!Fail

LEMMA RacingPersists ==
    ASSUME RaceInv, Racing!PersistProposal PROVE Racing!SelectionInv' /\ Racing!TogetherInv'
  <1>1. /\ UNCHANGED <<closed, status, request, stage, read, proposal, together, undone>>
        /\ phase = "persist" /\ phase' = "done" /\ outcome' = "recorded"
    BY DEF Racing!PersistProposal, Racing!odoo, Racing!data
  <1> QED
    BY <1>1 DEF RaceInv, Racing!SelectionInv, Racing!TogetherInv, Racing!OpenStatements,
                Racing!OpenLines, Racing!PairsTogether

\* What users do keeps the pairs that were open together; only an undoing
\* opens again what was closed.
LEMMA RacingHappens ==
    ASSUME RaceInv, Racing!UserStep PROVE Racing!SelectionInv' /\ Racing!TogetherInv'
  <1>1. /\ UNCHANGED <<request, phase, stage, cursor, read, proposal, outcome>>
        /\ together' = together \cup (Racing!OpenStatements' \X Racing!OpenLines')
        /\ undone' \/ (undone' = undone /\ Racing!OpenStatements' \subseteq Racing!OpenStatements)
    BY DEF Racing!UserStep, Racing!Post, Racing!Reconcile, Racing!Undo, Racing!Happens,
           Racing!OpenStatements, Racing!data
  <1>2. Racing!SelectionInv'
    BY <1>1 DEF RaceInv, Racing!SelectionInv
  <1>3. \A S : Racing!PairsTogether(S) => Racing!PairsTogether(S)'
    BY <1>1 DEF Racing!PairsTogether
  <1>4. \A S, T : T \subseteq S /\ Racing!PairsTogether(S) => Racing!PairsTogether(T)
    BY DEF Racing!PairsTogether
  <1>5. Racing!TogetherInv'
    <2>1. CASE undone'
      BY <1>1, <2>1 DEF Racing!TogetherInv
    <2>2. CASE ~undone' /\ undone' = undone /\ Racing!OpenStatements' \subseteq Racing!OpenStatements
      <3>1. \A s \in Racing!OpenStatements', l \in read'.lines : <<s, l>> \in together'
        BY <1>1, <2>2 DEF RaceInv, Racing!TogetherInv
      <3>2. phase' = "validate" => Racing!PairsTogether(Racing!OpenStatements)'
        <4>1. SUFFICES ASSUME phase = "validate",
                              NEW s \in DOMAIN proposal \cap Racing!OpenStatements',
                              proposal[s].line # Racing!Absent
                       PROVE  <<s, proposal[s].line>> \in together'
          BY <1>1 DEF Racing!PairsTogether
        <4> QED
          BY <1>1, <2>2, <4>1 DEF RaceInv, Racing!TogetherInv, Racing!PairsTogether
      <3>3. phase' = "validate" /\ (stage' # "statements" \/ cursor' # 0)
               => Racing!PairsTogether(read.statements \ read.closed)'
        BY <1>1, <2>2 DEF RaceInv, Racing!TogetherInv, Racing!PairsTogether
      <3>4. phase' = "persist" \/ outcome' = "recorded" => Racing!PairsTogether(DOMAIN proposal)'
        BY <1>1, <2>2 DEF RaceInv, Racing!TogetherInv, Racing!PairsTogether
      <3> QED
        BY <1>1, <3>1, <3>2, <3>3, <3>4 DEF Racing!TogetherInv
    <2> QED BY <1>1, <2>1, <2>2
  <1> QED
    BY <1>2, <1>5

LEMMA RacingStep == RaceInv /\ [Racing!Next]_Racing!vars => RaceInv'
  <1> SUFFICES ASSUME RaceInv, [Racing!Next]_Racing!vars PROVE RaceInv'
    OBVIOUS
  <1>1. Racing!BankTypeOK'
    BY RacingTypes DEF RaceInv
  <1>2. CASE UNCHANGED Racing!vars
    BY <1>2 DEF RaceInv, Racing!vars, Racing!BankTypeOK, Racing!SelectionInv, Racing!TogetherInv,
                Racing!OpenStatements, Racing!OpenLines, Racing!PairsTogether
  <1>3. Racing!SelectionInv' /\ Racing!TogetherInv'
    BY <1>2, RacingReads, RacingSelects, RacingReadsLines, RacingDecides, RacingPersists, RacingHappens
       DEF Racing!Next, RaceInv
  <1> QED
    BY <1>1, <1>3 DEF RaceInv

LEMMA RacingSound == RaceInv => Racing!PairOpenTogether
  BY DEF RaceInv, Racing!TogetherInv, Racing!PairsTogether, Racing!PairOpenTogether

----------------------------------------------------------------------------
LEMMA MatchingTypes ==
    ASSUME Matching!BankTypeOK, [Matching!Next]_Matching!vars PROVE Matching!BankTypeOK'
  <1> USE DEF Matching!BankTypeOK, Matching!data, Matching!odoo
  <1>1. CASE Matching!ReadStatements
    <2> DEFINE read0 == IF cursor = 0 THEN Matching!NoRead ELSE read
    <2>1. read0 \in [statements : SUBSET Statements, closed : SUBSET Statements,
                    lines : SUBSET Items]
      BY DEF Matching!NoRead
    <2> HIDE DEF read0
    <2>2. /\ UNCHANGED <<statement, line, closed, status, request>>
          /\ phase' \in {phase, "failed"} /\ stage' \in {stage, "selection"}
          /\ outcome' \in {outcome, "too_many"} /\ phase # "done"
          /\ \/ read' = read
             \/ \E page \in SUBSET Statements :
                   read' = [read0 EXCEPT !.statements = @ \cup page, !.closed = @ \cup (page \cap closed)]
      BY <1>1 DEF Matching!ReadStatements, Matching!Fail, Matching!PageAfter, read0
    <2> QED
      BY <2>1, <2>2
  <1>2. CASE Matching!CheckSelection
    BY <1>2 DEF Matching!CheckSelection, Matching!Fail
  <1>3. CASE Matching!ReadLines
    <2>1. Matching!PageAfter(Matching!OpenLines, cursor) \subseteq Items
      BY DEF Matching!PageAfter, Matching!OpenLines
    <2>2. /\ UNCHANGED <<statement, line, closed, status, request>>
          /\ phase' \in {phase, "failed"} /\ stage' \in {stage, "decide"}
          /\ outcome' \in {outcome, "too_many"} /\ phase # "done"
          /\ \/ read' = read
             \/ read' = [read EXCEPT !.lines = @ \cup Matching!PageAfter(Matching!OpenLines, cursor)]
      BY <1>3 DEF Matching!ReadLines, Matching!Fail
    <2> QED
      BY <2>1, <2>2
  <1>4. CASE Matching!Decide
    BY <1>4 DEF Matching!Decide, Matching!Fail
  <1>5. CASE Matching!PersistProposal
    BY <1>5 DEF Matching!PersistProposal
  <1>6. CASE Matching!UserStep
    <2>1. ASSUME Matching!Happens PROVE UNCHANGED <<statement, line, request, phase, stage, read, outcome>>
      BY <2>1 DEF Matching!Happens
    <2>2. ASSUME NEW l \in Items, Matching!Post(l) PROVE Matching!BankTypeOK'
      BY <2>1, <2>2 DEF Matching!Post
    <2>3. ASSUME NEW S \in SUBSET Matching!OpenStatements, NEW L \in SUBSET Matching!OpenLines,
                 Matching!Reconcile(S, L)
          PROVE  Matching!BankTypeOK'
      <3>1. S \subseteq Statements
        BY DEF Matching!OpenStatements
      <3> QED BY <2>1, <2>3, <3>1 DEF Matching!Reconcile
    <2>4. ASSUME NEW S \in SUBSET closed, NEW L, Matching!Undo(S, L) PROVE Matching!BankTypeOK'
      BY <2>1, <2>4 DEF Matching!Undo
    <2> QED
      BY <1>6, <2>2, <2>3, <2>4 DEF Matching!UserStep
  <1>7. CASE UNCHANGED Matching!vars
    BY <1>7 DEF Matching!vars
  <1> QED
    BY <1>1, <1>2, <1>3, <1>4, <1>5, <1>6, <1>7 DEF Matching!Next



LEMMA MatchingFiniteSets ==
    /\ \A S : Matching!IsFiniteSet(S) <=> IsFiniteSet(S)
    /\ \A S : Matching!Cardinality(S) = Cardinality(S)
  BY Zenon DEF Matching!IsFiniteSet, IsFiniteSet, Matching!Cardinality, Cardinality

LEMMA Multiples ==
    ASSUME NEW m \in Nat, NEW n \in Nat, NEW u \in Nat \ {0}
    PROVE  m * u \in Nat /\ (m * u = 0 => m = 0) /\ (m * u = n * u => m = n)
  OBVIOUS

\* The whole units an amount rounds to.
Units(v, u) == (2 * Matching!Magnitude(v) + u) \div (2 * u)

LEMMA RoundedUnits ==
    ASSUME NEW v \in Int, NEW u \in Nat \ {0}
    PROVE  /\ Units(v, u) \in Nat
           /\ Units(-v, u) = Units(v, u)
           /\ v = 0 => Units(v, u) = 0
           /\ Matching!RoundedTo(v, u) = IF v < 0 THEN -(Units(v, u) * u) ELSE Units(v, u) * u
  <1>1. Matching!Magnitude(v) \in Nat /\ Matching!Magnitude(-v) = Matching!Magnitude(v)
        /\ (v < 0 => Matching!Magnitude(v) = -v) /\ (~(v < 0) => Matching!Magnitude(v) = v)
    BY DEF Matching!Magnitude
  <1> DEFINE w == 2 * Matching!Magnitude(v) + u
             d == 2 * u
  <1>2. w \in Nat /\ d \in Nat \ {0}
    BY <1>1
  <1>3. w \div d \in Nat
    <2> HIDE DEF w, d
    <2> QED BY <1>2
  <1>4. v = 0 => w \div d = 0
    <2>1. SUFFICES ASSUME v = 0 PROVE w \div d = 0
      OBVIOUS
    <2>2. w = u /\ u < d
      BY <1>1, <2>1
    <2> HIDE DEF w, d
    <2> QED BY <1>2, <2>2
  <1> QED
    BY <1>1, <1>3, <1>4 DEF Units, Matching!RoundedTo

\* Two amounts round to opposite ones when they cancel to the unit.
LEMMA OppositeAmounts ==
    ASSUME NEW a \in Int, NEW b \in Int, NEW u \in Nat \ {0}
    PROVE  /\ Matching!RoundedTo(a, u) = Matching!RoundedTo(-b, u)
                <=> /\ Units(a, u) = Units(b, u)
                    /\ Units(a, u) # 0 => ((a < 0) # (b < 0))
           /\ Matching!RoundedTo(b, u) = Matching!RoundedTo(-a, u)
                <=> /\ Units(a, u) = Units(b, u)
                    /\ Units(a, u) # 0 => ((a < 0) # (b < 0))
  <1> DEFINE m == Units(a, u)
             n == Units(b, u)
             mu == m * u
             nu == n * u
  <1>1. m \in Nat /\ n \in Nat /\ (a = 0 => m = 0) /\ (b = 0 => n = 0)
    BY RoundedUnits
  <1>2. /\ Matching!RoundedTo(a, u) = IF a < 0 THEN -mu ELSE mu
        /\ Matching!RoundedTo(b, u) = IF b < 0 THEN -nu ELSE nu
    BY RoundedUnits
  <1>3. /\ Matching!RoundedTo(-a, u) = IF -a < 0 THEN -mu ELSE mu
        /\ Matching!RoundedTo(-b, u) = IF -b < 0 THEN -nu ELSE nu
    <2>1. -a \in Int /\ -b \in Int /\ Units(-a, u) = m /\ Units(-b, u) = n
      BY RoundedUnits
    <2> QED BY <2>1, RoundedUnits
  <1>4. mu \in Nat /\ nu \in Nat /\ (mu = 0 <=> m = 0) /\ (nu = 0 <=> n = 0) /\ (mu = nu <=> m = n)
    <2> HIDE DEF m, n
    <2> QED BY <1>1, Multiples
  <1> HIDE DEF m, n, mu, nu
  <1> QED
    BY <1>1, <1>2, <1>3, <1>4 DEF m, n

\* The index by amount and the candidate's own check let the counterparts
\* through, and nothing else.
LEMMA ScoredIsCounterpart ==
    ASSUME Matching!BankTypeOK, NEW s \in Statements, NEW l \in Items,
           statement[s].journal \in DOMAIN JournalCurrency, NEW L, l \in L
    PROVE  l \in Matching!Scored(s, L) <=> Matching!Comparable(s, l) /\ Matching!Cancels(s, l)
  <1> DEFINE c == Matching!EffectiveCurrency(s)
             u == Increment[c]
             a == statement[s].amount
             b == Matching!CandidateAmount(s, l)
  <1>1. c \in DOMAIN Increment /\ u \in Nat \ {0}
    <2>1. JournalCurrency[statement[s].journal] \in DOMAIN Increment \cup {Matching!NoCurrency}
      BY AccountingReadsAssumption DEF Matching!BankMatchingAssumption
    <2>2. c \in DOMAIN Increment
      BY <2>1, AccountingReadsAssumption DEF Matching!BankMatchingAssumption, Matching!EffectiveCurrency
    <2> HIDE DEF c
    <2> QED
      BY <2>2, AccountingReadsAssumption DEF Matching!BankMatchingAssumption
  <1>2. a \in Int /\ b \in Int
    <2>1. statement[s] \in SomeStatements /\ line[l] \in SomeItems
      BY DEF Matching!BankTypeOK
    <2> QED
      BY <2>1, AccountingReadsAssumption DEF Matching!BankMatchingAssumption, Matching!CandidateAmount
  <1> DEFINE opposite == /\ Units(a, u) = Units(b, u)
                         /\ Units(a, u) # 0 => ((a < 0) # (b < 0))
  <1>3. /\ Matching!RoundedTo(a, u) = Matching!RoundedTo(-b, u) <=> opposite
        /\ Matching!RoundedTo(b, u) = Matching!RoundedTo(-a, u) <=> opposite
    <2> HIDE DEF a, b, u
    <2> QED BY <1>1, <1>2, OppositeAmounts
  <1>4. Matching!Cancels(s, l) <=> opposite
    BY DEF Matching!Cancels, Units
  <1>5. Matching!Candidate(s, l) <=> Matching!Comparable(s, l) /\ opposite
    <2>1. Matching!Candidate(s, l)
            <=> Matching!Comparable(s, l) /\ Matching!RoundedTo(a, u) = Matching!RoundedTo(-b, u)
      BY DEF Matching!Candidate, Matching!RoundCurrencyAmount
    <2> HIDE DEF opposite, a, b, u
    <2> QED BY <1>3, <2>1
  <1>6. l \in Matching!Eligible(s, L) <=>
            /\ line[l].currency \in DOMAIN Increment /\ line[l].currency = c
            /\ Matching!RoundedTo(b, u) = Matching!RoundedTo(-a, u)
    BY DEF Matching!Eligible, Matching!RoundCurrencyAmount
  <1>7. Matching!Comparable(s, l) => line[l].currency = c
    BY DEF Matching!Comparable
  <1> HIDE DEF opposite, a, b, u, c
  <1> QED
    BY <1>1, <1>3, <1>4, <1>5, <1>6, <1>7 DEF Matching!Scored

LEMMA ScoreIsNumber ==
    ASSUME Matching!BankTypeOK, NEW s \in Statements, NEW l \in Items
    PROVE  Matching!Score(s, l) \in Int
  <1>1. statement[s] \in SomeStatements /\ line[l] \in SomeItems
    BY DEF Matching!BankTypeOK
  <1>2. statement[s].day \in Int /\ line[l].day \in Int
    BY <1>1, AccountingReadsAssumption DEF Matching!BankMatchingAssumption
  <1> DEFINE x == statement[s].day - line[l].day
             y == line[l].day - statement[s].day
  <1>3. x \in Int /\ y \in Int
    BY <1>2
  <1>4. Matching!Days(s, l) \in Int
    <2>1. Matching!Days(s, l) = CHOOSE z \in {x, y} : \A w \in {x, y} : z >= w
      BY DEF Matching!Days, Matching!Max
    <2> HIDE DEF x, y
    <2>2. \E z \in {x, y} : \A w \in {x, y} : z >= w
      BY <1>3
    <2> QED BY <1>3, <2>1, <2>2
  <1> QED
    BY <1>4 DEF Matching!Score, Matching!Amount, Matching!Partner, Matching!Reference

\* The provisional match is the one best counterpart, if that is good enough.
LEMMA ProvisionalStands ==
    ASSUME Matching!BankTypeOK, NEW s \in Statements,
           statement[s].journal \in DOMAIN JournalCurrency, NEW l \in read.lines
    PROVE  /\ Matching!Provisional(s, read.lines, request.threshold) = Matching!Matched(l)
                <=> Matching!Stands(s, l)
           /\ Matching!Provisional(s, read.lines, request.threshold).line = l
                <=> Matching!Stands(s, l)
  <1> DEFINE C == Matching!Counterparts(s)
             best == Matching!Best(s, read.lines)
             p == Matching!Provisional(s, read.lines, request.threshold)
  <1>1. IsFiniteSet(Items) /\ Items \subseteq Nat \ {0} /\ read.lines \subseteq Items
    BY MatchingFiniteSets, AccountingReadsAssumption
    DEF Matching!BankMatchingAssumption, Matching!BankTypeOK
  <1>2. Matching!Scored(s, read.lines) = C
    <2>1. \A k \in read.lines : k \in Matching!Scored(s, read.lines)
                                  <=> Matching!Comparable(s, k) /\ Matching!Cancels(s, k)
      BY <1>1, ScoredIsCounterpart
    <2>2. Matching!Scored(s, read.lines) \subseteq read.lines
      BY DEF Matching!Scored, Matching!Eligible
    <2> QED
      BY <2>1, <2>2 DEF Matching!Counterparts
  <1>3. C \subseteq Items /\ \A k \in C : Matching!Score(s, k) \in Int
    BY <1>1, ScoreIsNumber DEF Matching!Counterparts
  <1>4. request.threshold \in Int
    BY AccountingReadsAssumption DEF Matching!BankMatchingAssumption, Matching!BankTypeOK
  <1>5. \A k : k \in best <=> k \in C /\ \A j \in C : Matching!Score(s, j) <= Matching!Score(s, k)
    BY <1>2 DEF Matching!Best
  <1>6. IsFiniteSet(best) /\ best \subseteq C
    BY <1>1, <1>3, <1>5, FS_Subset
  <1>7. Cardinality(best) \in Nat
    BY <1>6, FS_CardinalityType
  <1>8. \A k : best = {k} => Cardinality(best) = 1
    BY FS_Singleton
  <1>9. Cardinality(best) = 1 => \E k : best = {k}
    BY <1>6, FS_Singleton
  <1>10. Cardinality(best) = 0 <=> best = {}
    BY <1>6, FS_EmptySet
  <1>11. p = IF best = {} THEN Matching!Unmatched("no_eligible_candidate")
             ELSE IF Cardinality(best) > 1 THEN Matching!Unmatched("ambiguous_best_match")
             ELSE IF Matching!Score(s, CHOOSE k \in best : TRUE) < request.threshold
                  THEN Matching!Unmatched("below_confidence_threshold")
                  ELSE Matching!Matched(CHOOSE k \in best : TRUE)
    BY MatchingFiniteSets DEF Matching!Provisional
  <1>12. l # 0 /\ l \in Nat
    BY <1>1
  <1>13. /\ \A why : Matching!Unmatched(why).line = 0 /\ Matching!Unmatched(why) # Matching!Matched(l)
         /\ \A k : Matching!Matched(k).line = k /\ (Matching!Matched(k) = Matching!Matched(l) <=> k = l)
    <2>1. \A why : Matching!Unmatched(why).line = 0
      BY DEF Matching!Unmatched, Matching!Absent
    <2>2. \A k : Matching!Matched(k).line = k
      BY DEF Matching!Matched
    <2> QED BY <1>12, <2>1, <2>2
  <1>14. ASSUME Matching!Stands(s, l) PROVE p = Matching!Matched(l)
    <2>1. /\ l \in C /\ Matching!Score(s, l) >= request.threshold
          /\ \A k \in C \ {l} : Matching!Score(s, k) < Matching!Score(s, l)
      BY <1>14 DEF Matching!Stands
    <2> HIDE DEF C, best, p
    <2>2. best = {l}
      <3>1. l \in best
        BY <1>3, <1>5, <2>1
      <3>2. ASSUME NEW k \in best PROVE k = l
        <4>1. k \in C /\ Matching!Score(s, l) <= Matching!Score(s, k)
          BY <1>5, <2>1, <3>2
        <4> QED BY <1>3, <2>1, <4>1
      <3> QED BY <3>1, <3>2
    <2>3. (CHOOSE k \in best : TRUE) = l
      BY <2>2
    <2>4. ~(Cardinality(best) > 1) /\ best # {}
      BY <1>8, <2>2
    <2>5. ~(Matching!Score(s, l) < request.threshold)
      BY <1>3, <1>4, <2>1
    <2> QED
      BY <1>11, <2>3, <2>4, <2>5
  <1>15. ASSUME p.line = l PROVE Matching!Stands(s, l)
    <2> HIDE DEF best, p
    <2>1. /\ best # {} /\ ~(Cardinality(best) > 1)
          /\ ~(Matching!Score(s, CHOOSE k \in best : TRUE) < request.threshold)
          /\ p = Matching!Matched(CHOOSE k \in best : TRUE)
      BY <1>11, <1>12, <1>13, <1>15
    <2>2. l = CHOOSE k \in best : TRUE
      BY <1>13, <1>15, <2>1
    <2>3. best = {l}
      <3>1. Cardinality(best) = 1
        BY <1>7, <1>10, <2>1
      <3>2. PICK k : best = {k}
        BY <1>9, <3>1
      <3> QED BY <2>2, <3>2
    <2> HIDE DEF C
    <2>4. l \in C /\ \A j \in C : Matching!Score(s, j) <= Matching!Score(s, l)
      BY <1>5, <2>3
    <2>5. Matching!Score(s, l) >= request.threshold
      BY <1>3, <1>4, <2>1, <2>2, <2>4
    <2>6. ASSUME NEW k \in C \ {l} PROVE Matching!Score(s, k) < Matching!Score(s, l)
      <3>1. k \notin best
        BY <2>3
      <3>2. PICK j \in C : ~(Matching!Score(s, j) <= Matching!Score(s, k))
        BY <1>5, <3>1
      <3>3. Matching!Score(s, j) <= Matching!Score(s, l)
        BY <2>4
      <3> QED BY <1>3, <2>4, <3>2, <3>3
    <2> QED
      BY <2>4, <2>5, <2>6 DEF Matching!Stands, C
  <1> QED
    BY <1>13, <1>14, <1>15

LEMMA DecisionsJustified ==
    ASSUME Matching!BankTypeOK, NEW S \in SUBSET Statements,
           \A s \in S : statement[s].journal \in DOMAIN JournalCurrency,
           NEW s \in S, NEW l \in read.lines
    PROVE  Matching!Decisions(S, read.lines, request.threshold)[s].line = l
             <=> Matching!Stands(s, l) /\ \A r \in S \ {s} : ~Matching!Stands(r, l)
  <1> DEFINE p == [r \in S |-> Matching!Provisional(r, read.lines, request.threshold)]
             chosen(k) == {r \in S : p[r] = Matching!Matched(k)}
             d == Matching!Decisions(S, read.lines, request.threshold)
  <1>1. IsFiniteSet(S) /\ l \in Nat \ {0}
    <2>1. IsFiniteSet(Statements) /\ Items \subseteq Nat \ {0} /\ read.lines \subseteq Items
      BY MatchingFiniteSets, AccountingReadsAssumption
      DEF Matching!BankMatchingAssumption, Matching!BankTypeOK
    <2> QED BY <2>1, FS_Subset
  <1>2. \A r \in S : /\ p[r] = Matching!Matched(l) <=> Matching!Stands(r, l)
                     /\ p[r].line = l <=> Matching!Stands(r, l)
    BY ProvisionalStands
  <1>3. d[s] = IF p[s].line # 0 /\ Cardinality(chosen(p[s].line)) > 1
               THEN Matching!Unmatched("candidate_conflict")
               ELSE p[s]
    BY MatchingFiniteSets DEF Matching!Decisions, Matching!Absent
  <1>4. Matching!Unmatched("candidate_conflict").line = 0
    BY DEF Matching!Unmatched, Matching!Absent
  <1>5. chosen(l) = {r \in S : Matching!Stands(r, l)}
    BY <1>2
  <1> DEFINE T == {r \in S : Matching!Stands(r, l)}
  <1>6. IsFiniteSet(T) /\ Cardinality(T) \in Nat
    BY <1>1, FS_Subset, FS_CardinalityType
  <1>7. ASSUME Matching!Stands(s, l)
        PROVE  Cardinality(T) > 1 <=> \E r \in S \ {s} : Matching!Stands(r, l)
    <2>1. s \in T
      BY <1>7
    <2>2. ASSUME NEW r \in S \ {s}, Matching!Stands(r, l) PROVE Cardinality(T) > 1
      <3>1. r \in T /\ r # s
        BY <2>2
      <3> HIDE DEF T
      <3>2. Cardinality(T) # 0
        BY <1>6, <2>1, FS_EmptySet
      <3>3. Cardinality(T) # 1
        BY <1>6, <2>1, <3>1, FS_Singleton
      <3> QED BY <1>6, <3>2, <3>3
    <2>3. ASSUME \A r \in S \ {s} : ~Matching!Stands(r, l) PROVE ~(Cardinality(T) > 1)
      <3>1. T = {s}
        BY <2>1, <2>3
      <3>2. Cardinality(T) = 1
        BY <3>1, FS_Singleton
      <3> QED BY <3>2
    <2> QED BY <2>2, <2>3
  <1> HIDE DEF d, p, T
  <1>8. ASSUME d[s].line = l
        PROVE  Matching!Stands(s, l) /\ \A r \in S \ {s} : ~Matching!Stands(r, l)
    <2>1. d[s] = p[s] /\ ~(p[s].line # 0 /\ Cardinality(chosen(p[s].line)) > 1)
      BY <1>1, <1>3, <1>4, <1>8
    <2>2. p[s].line = l /\ ~(Cardinality(chosen(l)) > 1)
      BY <1>1, <1>8, <2>1
    <2> QED
      BY <1>2, <1>5, <1>7, <2>2 DEF T
  <1>9. ASSUME Matching!Stands(s, l), \A r \in S \ {s} : ~Matching!Stands(r, l) PROVE d[s].line = l
    <2>1. p[s].line = l
      BY <1>2, <1>9
    <2>2. ~(Cardinality(chosen(l)) > 1)
      BY <1>5, <1>7, <1>9 DEF T
    <2> QED
      BY <1>3, <2>1, <2>2
  <1> QED
    BY <1>8, <1>9 DEF d

MatchInv == Matching!BankTypeOK /\ Matching!SelectionInv /\ Matching!FinishedInv
            /\ Matching!MatchesJustified

LEMMA MatchingStarts == Matching!Init => MatchInv
  BY DEF Matching!Init, MatchInv, Matching!BankTypeOK, Matching!SelectionInv, Matching!FinishedInv,
         Matching!MatchesJustified, Matching!NoRead, Matching!NoProposal, Matching!Finished

\* What stands does not depend on what has become of the proposal.
LEMMA StandsStays ==
    ASSUME UNCHANGED <<statement, line, request, read>>, NEW s, NEW l
    PROVE  Matching!Stands(s, l)' <=> Matching!Stands(s, l)
  <1>1. \A r, k : /\ Matching!Comparable(r, k)' <=> Matching!Comparable(r, k)
                  /\ Matching!Cancels(r, k)' <=> Matching!Cancels(r, k)
                  /\ Matching!Score(r, k)' = Matching!Score(r, k)
    BY DEF Matching!Comparable, Matching!Cancels, Matching!Score, Matching!Days,
           Matching!EffectiveCurrency, Matching!CandidateAmount
  <1>2. Matching!Counterparts(s)' = Matching!Counterparts(s)
    BY <1>1 DEF Matching!Counterparts
  <1> QED
    BY <1>1, <1>2 DEF Matching!Stands

LEMMA MatchingReads ==
    ASSUME MatchInv, \/ Matching!ReadStatements \/ Matching!CheckSelection \/ Matching!ReadLines
    PROVE  Matching!SelectionInv' /\ Matching!FinishedInv' /\ Matching!MatchesJustified'
  <1>1. /\ UNCHANGED <<request, proposal>> /\ phase \in {"prepare", "validate"}
        /\ \/ phase' = phase /\ outcome' = outcome
           \/ phase' = "failed"
              /\ outcome' \in {"journal_not_found", "statement_line_not_found", "state_conflict",
                               "too_many"}
    BY DEF Matching!ReadStatements, Matching!CheckSelection, Matching!ReadLines, Matching!Fail,
           Matching!data, Matching!odoo
  <1>2. ~Matching!Finished'
    BY <1>1 DEF MatchInv, Matching!FinishedInv, Matching!Finished
  <1>3. stage' \in {"lines", "decide"} /\ request.tool # "flag"
           => request.ids \subseteq read'.statements \ read'.closed
    <2>1. CASE Matching!ReadStatements
      <3>1. stage = "statements" /\ stage' \in {"statements", "selection"}
        BY <2>1 DEF Matching!ReadStatements
      <3> QED BY <3>1
    <2>2. CASE Matching!CheckSelection
      BY <1>1, <2>2 DEF Matching!CheckSelection, MatchInv, Matching!SelectionInv
    <2>3. CASE Matching!ReadLines
      <3>1. stage = "lines" /\ (\/ read' = read
            \/ read' = [read EXCEPT !.lines = @ \cup Matching!PageAfter(Matching!OpenLines, cursor)])
        BY <2>3 DEF Matching!ReadLines
      <3>2. read'.closed = read.closed /\ read'.statements = read.statements
        BY <3>1 DEF MatchInv, Matching!BankTypeOK
      <3> QED
        BY <1>1, <3>1, <3>2 DEF MatchInv, Matching!SelectionInv
    <2> QED
      BY <2>1, <2>2, <2>3
  <1> QED
    BY <1>1, <1>2, <1>3
    DEF MatchInv, Matching!SelectionInv, Matching!FinishedInv, Matching!MatchesJustified

LEMMA MatchingDecides ==
    ASSUME MatchInv, Matching!Decide
    PROVE  Matching!SelectionInv' /\ Matching!FinishedInv' /\ Matching!MatchesJustified'
  <1>1. /\ UNCHANGED <<statement, line, request, read>>
        /\ phase \in {"prepare", "validate"} /\ stage = "decide" /\ stage' = "statements"
    BY DEF Matching!Decide, Matching!odoo, Matching!data
  <1>2. ~Matching!Finished
    BY <1>1 DEF MatchInv, Matching!FinishedInv, Matching!Finished
  <1>3. CASE UNCHANGED proposal /\ phase' = "failed" /\ outcome' \in {"source_error", "state_conflict"}
    BY <1>1, <1>3 DEF Matching!SelectionInv, Matching!FinishedInv, Matching!Finished,
                      Matching!MatchesJustified
  <1>4. CASE /\ Matching!Judged /\ proposal' = Matching!Built
             /\ \/ phase' = "done" /\ outcome' = "previewed"
                \/ request.tool # "flag" /\ phase' = "validate" /\ outcome' = outcome
                \/ phase' = "persist" /\ outcome' = outcome
    <2> DEFINE S == Matching!Selection
    <2>1. S \subseteq Statements
      BY <1>1 DEF MatchInv, Matching!BankTypeOK, Matching!SelectionInv, Matching!Selection
    <2>2. \A s \in S : statement[s].journal \in DOMAIN JournalCurrency
      BY <1>4 DEF Matching!Judged
    <2>3. request.tool # "flag" => S = request.ids
      BY DEF Matching!Selection
    <2> HIDE DEF S
    <2>4. proposal' = Matching!Decisions(S, read.lines, request.threshold)
      BY <1>4 DEF Matching!Built, S
    <2>5. DOMAIN proposal' = S
      BY <2>4 DEF Matching!Decisions
    <2>6. Matching!SelectionInv'
      BY <1>1, <1>4, <2>3, <2>5 DEF Matching!SelectionInv
    <2>7. \A s \in S, l \in read.lines :
             proposal'[s].line = l
               <=> Matching!Stands(s, l) /\ \A r \in S \ {s} : ~Matching!Stands(r, l)
      BY <2>1, <2>2, <2>4, DecisionsJustified DEF MatchInv
    <2>8. Matching!MatchesJustified'
      <3>1. \A s, l : Matching!Stands(s, l)' <=> Matching!Stands(s, l)
        BY <1>1, StandsStays
      <3> QED
        BY <1>1, <2>5, <2>7, <3>1 DEF Matching!MatchesJustified
    <2>9. Matching!FinishedInv'
      BY <1>2, <1>4 DEF Matching!Finished, Matching!FinishedInv
    <2> QED
      BY <2>6, <2>8, <2>9
  <1> QED
    BY <1>1, <1>3, <1>4 DEF Matching!Decide, Matching!Fail, MatchInv, Matching!SelectionInv

LEMMA MatchingPersists ==
    ASSUME MatchInv, Matching!PersistProposal \/ Matching!UserStep
    PROVE  Matching!SelectionInv' /\ Matching!FinishedInv' /\ Matching!MatchesJustified'
  <1>1. /\ UNCHANGED <<statement, line, request, read, stage, proposal>>
        /\ \/ UNCHANGED <<phase, outcome>>
           \/ phase = "persist" /\ phase' = "done" /\ outcome' = "recorded"
    BY DEF Matching!PersistProposal, Matching!UserStep, Matching!Post, Matching!Reconcile,
           Matching!Undo, Matching!Happens, Matching!data, Matching!odoo
  <1>2. Matching!SelectionInv' /\ Matching!FinishedInv'
    BY <1>1 DEF MatchInv, Matching!SelectionInv, Matching!FinishedInv, Matching!Finished
  <1>3. Matching!Finished' => Matching!Finished
    BY <1>1 DEF Matching!Finished
  <1>4. \A s, l : Matching!Stands(s, l)' <=> Matching!Stands(s, l)
    BY <1>1, StandsStays
  <1> QED
    BY <1>1, <1>2, <1>3, <1>4 DEF MatchInv, Matching!MatchesJustified

LEMMA MatchingStep == MatchInv /\ [Matching!Next]_Matching!vars => MatchInv'
  <1> SUFFICES ASSUME MatchInv, [Matching!Next]_Matching!vars PROVE MatchInv'
    OBVIOUS
  <1>1. Matching!BankTypeOK'
    BY MatchingTypes DEF MatchInv
  <1>2. CASE UNCHANGED Matching!vars
    <2>1. \A s, l : Matching!Stands(s, l)' <=> Matching!Stands(s, l)
      BY <1>2, StandsStays DEF Matching!vars
    <2> QED
      BY <1>1, <1>2, <2>1 DEF MatchInv, Matching!vars, Matching!SelectionInv, Matching!FinishedInv,
                              Matching!Finished, Matching!MatchesJustified
  <1> QED
    BY <1>1, <1>2, MatchingReads, MatchingDecides, MatchingPersists DEF Matching!Next, MatchInv

----------------------------------------------------------------------------
\* Accounting reports.

LEMMA LedgerFiniteSets ==
    /\ \A S : Ledger!IsFiniteSet(S) <=> IsFiniteSet(S)
    /\ \A S : Ledger!Cardinality(S) = Cardinality(S)
  BY Zenon DEF Ledger!IsFiniteSet, IsFiniteSet, Ledger!Cardinality, Cardinality

LEMMA RowIds ==
    ASSUME NEW s \in {"moves", "lines", "partials", "entries"}
    PROVE  /\ \A i : Ledger!RowOf(s, i).id = i
           /\ \A S : Ledger!Ids(Ledger!RowsOf(s, S)) = S
           /\ \A S, T : Ledger!RowsOf(s, S \cup T) = Ledger!RowsOf(s, S) \cup Ledger!RowsOf(s, T)
           /\ Ledger!RowsOf(s, {}) = {}
  <1>1. \A i : Ledger!RowOf(s, i).id = i
    BY DEF Ledger!RowOf
  <1> QED
    BY <1>1 DEF Ledger!Ids, Ledger!RowsOf

LEMMA FiniteImage ==
    ASSUME NEW S, IsFiniteSet(S), NEW f, DOMAIN f = S, NEW T, T = {f[x] : x \in S}
    PROVE  IsFiniteSet(T)
  <1> DEFINE g == [x \in S |-> f[x]]
  <1>1. g \in Surjection(S, T)
    BY DEF Surjection
  <1> HIDE DEF g
  <1> QED
    BY <1>1, FS_Surjection

\* What a report reads in whole is finite, and numbered from 1.
LEMMA WholeFinite ==
    ASSUME Ledger!LedgerTypeOK
    PROVE  /\ \A S \in {Ledger!WholeMoves, Ledger!WholeLines, Ledger!WholePartials} :
                 IsFiniteSet(S) /\ S \subseteq Nat \ {0}
           /\ Ledger!WholeLines \subseteq Ledger!LineIds
           /\ request.kind \in Ledger!Kinds /\ IsFiniteSet(request.accounts)
  <1>1. /\ IsFiniteSet(Ledger!LineIds) /\ Ledger!LineIds \subseteq Nat \ {0}
        /\ IsFiniteSet(DOMAIN Partials) /\ DOMAIN Partials \subseteq Nat \ {0}
        /\ \A i \in Ledger!LineIds : LedgerLines[i].move \in Nat \ {0}
        /\ request.kind \in Ledger!Kinds /\ IsFiniteSet(request.accounts)
    BY LedgerFiniteSets, AccountingReadsAssumption DEF Ledger!LedgerReportsAssumption, Ledger!LedgerTypeOK
  <1>2. IsFiniteSet(Ledger!Moves) /\ Ledger!Moves \subseteq Nat \ {0}
    <2>1. Ledger!Moves \subseteq Nat \ {0}
      BY <1>1 DEF Ledger!Moves
    <2> DEFINE f == [i \in Ledger!LineIds |-> LedgerLines[i].move]
    <2>2. DOMAIN f = Ledger!LineIds
      OBVIOUS
    <2>3. Ledger!Moves = {f[i] : i \in Ledger!LineIds}
      BY DEF Ledger!Moves
    <2> HIDE DEF f
    <2>4. IsFiniteSet(Ledger!Moves)
      BY <1>1, <2>2, <2>3, FiniteImage
    <2> QED BY <2>1, <2>4
  <1>3. Ledger!WholeMoves \subseteq Ledger!Moves
    BY DEF Ledger!WholeMoves, Ledger!MovesFirst, Ledger!Selected
  <1>4. Ledger!WholeLines \subseteq Ledger!LineIds
    BY DEF Ledger!WholeLines
  <1>5. Ledger!WholePartials \subseteq DOMAIN Partials
    BY DEF Ledger!WholePartials, Ledger!Selected, Ledger!LedgerTypeOK
  <1>6. IsFiniteSet(Ledger!WholeMoves) /\ IsFiniteSet(Ledger!WholeLines) /\ IsFiniteSet(Ledger!WholePartials)
    BY <1>1, <1>2, <1>3, <1>4, <1>5, FS_Subset
  <1> QED
    BY <1>1, <1>2, <1>3, <1>4, <1>5, <1>6

\* The reader changes nothing that a whole report depends on.
LEMMA WholeStays ==
    ASSUME UNCHANGED <<posted, applied, request>>, request.kind \in Ledger!Kinds
    PROVE  /\ Ledger!Whole' = Ledger!Whole
           /\ Ledger!WholeMoves' = Ledger!WholeMoves /\ Ledger!WholeLines' = Ledger!WholeLines
           /\ Ledger!WholePartials' = Ledger!WholePartials
           /\ \A s, S : Ledger!RowsOf(s, S)' = Ledger!RowsOf(s, S)
           /\ Ledger!Moment' = Ledger!Moment
           /\ Ledger!Keys(request, Ledger!Whole)' = Ledger!Keys(request, Ledger!Whole)
  <1>1. \A s, i : Ledger!RowOf(s, i)' = Ledger!RowOf(s, i)
    BY DEF Ledger!RowOf, Ledger!StateOf
  <1>2. \A s, S : Ledger!RowsOf(s, S)' = Ledger!RowsOf(s, S)
    BY <1>1 DEF Ledger!RowsOf
  <1>3. Ledger!WholeMoves' = Ledger!WholeMoves
    BY DEF Ledger!WholeMoves, Ledger!MovesFirst, Ledger!Selected, Ledger!OpenMove, Ledger!EntryMove,
           Ledger!StateOf
  <1>4. request.kind \notin {"open_documents", "journal_entries"}
           => \A i : Ledger!Selects(request, i)' = Ledger!Selects(request, i)
    BY DEF Ledger!Kinds, Ledger!Selects, Ledger!TrialBalanceLine, Ledger!ProfitAndLossLine,
           Ledger!BalanceSheetLine, Ledger!AgedLine, Ledger!CashbookLine
  <1>5. Ledger!WholeLines' = Ledger!WholeLines
    BY <1>3, <1>4 DEF Ledger!WholeLines
  <1>6. Ledger!WholePartials' = Ledger!WholePartials
    BY DEF Ledger!WholePartials, Ledger!Selected
  <1>7. Ledger!Whole' = Ledger!Whole
    BY <1>2, <1>3, <1>5, <1>6 DEF Ledger!Whole
  <1> QED
    BY <1>2, <1>3, <1>5, <1>6, <1>7 DEF Ledger!Moment

\* The rows of a whole report are about finitely many things.
LEMMA KeysFinite ==
    ASSUME Ledger!LedgerTypeOK
    PROVE  IsFiniteSet(IF request.kind = "journal_entries" THEN Ledger!Ids(Ledger!Whole.moves)
                       ELSE DOMAIN Ledger!Computed(request, Ledger!Whole))
  <1> DEFINE L == Ledger!Ids(Ledger!Whole.lines)
             accounts == {LedgerLines[i].account : i \in L}
             partners == {LedgerLines[i].partner : i \in L}
  <1>1. L = Ledger!WholeLines /\ Ledger!Ids(Ledger!Whole.moves) = Ledger!WholeMoves
    BY RowIds DEF Ledger!Whole
  <1>2. IsFiniteSet(L) /\ IsFiniteSet(Ledger!WholeMoves) /\ IsFiniteSet(request.accounts)
    BY <1>1, WholeFinite
  <1>3. IsFiniteSet(accounts)
    <2> DEFINE f == [i \in L |-> LedgerLines[i].account]
    <2>1. DOMAIN f = L /\ accounts = {f[i] : i \in L}
      OBVIOUS
    <2> HIDE DEF f, L, accounts
    <2> QED BY <1>2, <2>1, FiniteImage
  <1>4. IsFiniteSet(partners)
    <2> DEFINE f == [i \in L |-> LedgerLines[i].partner]
    <2>1. DOMAIN f = L /\ partners = {f[i] : i \in L}
      OBVIOUS
    <2> HIDE DEF f, L, partners
    <2> QED BY <1>2, <2>1, FiniteImage
  <1> DEFINE r == Ledger!Computed(request, Ledger!Whole)
  <1>5. request.kind \in Ledger!Kinds
    BY WholeFinite
  <1>6. CASE request.kind = "trial_balance"
    <2>1. DOMAIN r = request.accounts \cup accounts
      BY <1>6 DEF Ledger!Computed, Ledger!TrialBalance
    <2>2. IsFiniteSet(request.accounts \cup accounts)
      <3> HIDE DEF accounts
      <3> QED BY <1>2, <1>3, FS_Union
    <2> QED BY <1>6, <2>1, <2>2
  <1>7. CASE request.kind \in {"profit_and_loss", "balance_sheet"}
    <2>1. \A types : Ledger!Touched(request, L, types) \subseteq accounts
      BY DEF Ledger!Touched, Ledger!On
    <2>2. \/ r = Ledger!ProfitAndLoss(request, L)
          \/ r = Ledger!BalanceSheet(request, L)
      BY <1>7 DEF Ledger!Computed
    <2>3. DOMAIN r \subseteq accounts
      <3> HIDE DEF accounts, L, r
      <3> QED BY <2>1, <2>2 DEF Ledger!ProfitAndLoss, Ledger!BalanceSheet
    <2> HIDE DEF accounts
    <2> QED BY <1>3, <1>7, <2>3, FS_Subset
  <1>8. CASE request.kind = "aged_balance"
    <2>1. r = Ledger!AgedBalance(request, Ledger!Whole.lines, Ledger!Ids(Ledger!Whole.partials))
      BY <1>8 DEF Ledger!Computed
    <2>2. \A row \in Ledger!Whole.lines : row.id \in L
      BY DEF Ledger!Ids
    <2>3. DOMAIN r \subseteq partners
      <3> HIDE DEF r, L
      <3> QED BY <2>1, <2>2 DEF Ledger!AgedBalance
    <2> HIDE DEF partners
    <2> QED BY <1>4, <1>8, <2>3, FS_Subset
  <1>9. CASE request.kind = "open_documents"
    <2>1. r = Ledger!OpenDocuments(request, Ledger!Whole.moves, Ledger!Whole.lines,
                                   Ledger!Ids(Ledger!Whole.partials))
      BY <1>9 DEF Ledger!Computed
    <2>2. DOMAIN r \subseteq Ledger!WholeMoves
      <3> HIDE DEF r, L
      <3> QED BY <1>1, <2>1 DEF Ledger!OpenDocuments, Ledger!Ids
    <2> QED BY <1>2, <1>9, <2>2, FS_Subset
  <1>10. CASE request.kind = "cashbook"
    <2>1. r = Ledger!Cashbook(request, L)
      BY <1>10 DEF Ledger!Computed
    <2>2. DOMAIN r \subseteq L
      <3> HIDE DEF r, L
      <3> QED BY <2>1 DEF Ledger!Cashbook
    <2> HIDE DEF L
    <2> QED BY <1>2, <1>10, <2>2, FS_Subset
  <1>11. CASE request.kind = "journal_entries"
    BY <1>1, <1>2, <1>11
  <1> QED
    BY <1>5, <1>6, <1>7, <1>8, <1>9, <1>10, <1>11 DEF Ledger!Kinds

LEMMA KeysList ==
    ASSUME Ledger!LedgerTypeOK
    PROVE  \E T : Ledger!Keys(request, Ledger!Whole) \in Seq(T)
  <1> DEFINE S == IF request.kind = "journal_entries" THEN Ledger!Ids(Ledger!Whole.moves)
                  ELSE DOMAIN Ledger!Computed(request, Ledger!Whole)
             keys == Ledger!Keys(request, Ledger!Whole)
             n == Cardinality(S)
             T == {keys[k] : k \in 1..n}
  <1>1. n \in Nat
    <2> HIDE DEF S
    <2>1. IsFiniteSet(S)
      BY KeysFinite DEF S
    <2> QED BY <2>1, FS_CardinalityType
  <1>2. keys = [k \in 1..n |-> CHOOSE x \in S : Ledger!Cardinality({y \in S : y < x}) = k - 1]
    <2>1. Ledger!Cardinality(S) = n
      BY LedgerFiniteSets
    <2> QED
      BY <2>1, Zenon DEF Ledger!Keys, Ledger!InOrder
  <1>3. keys \in [1..n -> T]
    <2>1. DOMAIN keys = 1..n
      BY <1>2
    <2>2. keys = [k \in 1..n |-> keys[k]]
      <3> HIDE DEF n
      <3> QED BY <1>2
    <2> HIDE DEF keys, n
    <2> QED BY <2>1, <2>2
  <1>4. keys \in Seq(T)
    <2> HIDE DEF keys, n, T
    <2> QED BY <1>1, <1>3
  <1> QED
    BY <1>4

\* The stages of a report, one after the other.
StageSet(kind) ==
    CASE kind \in {"trial_balance", "profit_and_loss", "balance_sheet", "cashbook"} -> {"lines"}
      [] kind = "aged_balance" -> {"lines", "partials"}
      [] kind = "open_documents" -> {"moves", "lines", "partials"}
      [] kind = "journal_entries" -> {"moves", "entries"}

First(kind) == IF kind \in {"open_documents", "journal_entries"} THEN "moves" ELSE "lines"

After(kind, s) ==
    CASE s = "moves" /\ kind = "open_documents" -> "lines"
      [] s = "moves" /\ kind = "journal_entries" -> "entries"
      [] s = "lines" /\ kind \in {"aged_balance", "open_documents"} -> "partials"
      [] OTHER -> "compute"

LEMMA StageOrder ==
    ASSUME NEW kind \in Ledger!Kinds
    PROVE  /\ {Ledger!Stages(kind)[k] : k \in 1..Len(Ledger!Stages(kind))} = StageSet(kind)
           /\ Head(Ledger!Stages(kind)) = First(kind)
           /\ First(kind) \in StageSet(kind)
           /\ \A s \in StageSet(kind) : s # "entries" =>
                 /\ Ledger!NextStage(kind, s) = After(kind, s)
                 /\ After(kind, s) \in StageSet(kind) \cup {"compute"}
  <1> DEFINE st == Ledger!Stages(kind)
  <1>1. CASE kind \in {"trial_balance", "profit_and_loss", "balance_sheet", "cashbook"}
    <2>1. st = <<"lines">> /\ StageSet(kind) = {"lines"} /\ First(kind) = "lines"
          /\ After(kind, "lines") = "compute"
      BY <1>1 DEF Ledger!Stages, StageSet, First, After
    <2>2. Len(st) = 1 /\ 1..1 = {1} /\ st[1] = "lines" /\ Head(st) = "lines"
      BY <2>1
    <2>3. (CHOOSE k \in 1..Len(st) : st[k] = "lines") = 1
      BY <2>2
    <2>4. Ledger!NextStage(kind, "lines") = "compute"
      BY <2>2, <2>3 DEF Ledger!NextStage
    <2> HIDE DEF st
    <2> QED BY <2>1, <2>2, <2>4 DEF st
  <1>2. CASE kind = "aged_balance"
    <2>1. st = <<"lines", "partials">> /\ StageSet(kind) = {"lines", "partials"}
          /\ First(kind) = "lines"
          /\ After(kind, "lines") = "partials" /\ After(kind, "partials") = "compute"
      BY <1>2 DEF Ledger!Stages, StageSet, First, After
    <2>2. Len(st) = 2 /\ 1..2 = {1, 2} /\ st[1] = "lines" /\ st[2] = "partials" /\ Head(st) = "lines"
      BY <2>1
    <2>3. (CHOOSE k \in 1..Len(st) : st[k] = "lines") = 1
      BY <2>2
    <2>4. (CHOOSE k \in 1..Len(st) : st[k] = "partials") = 2
      BY <2>2
    <2>5. Ledger!NextStage(kind, "lines") = "partials" /\ Ledger!NextStage(kind, "partials") = "compute"
      BY <2>2, <2>3, <2>4 DEF Ledger!NextStage
    <2> HIDE DEF st
    <2> QED BY <2>1, <2>2, <2>5 DEF st
  <1>3. CASE kind = "open_documents"
    <2>1. st = <<"moves", "lines", "partials">> /\ StageSet(kind) = {"moves", "lines", "partials"}
          /\ First(kind) = "moves" /\ After(kind, "moves") = "lines"
          /\ After(kind, "lines") = "partials" /\ After(kind, "partials") = "compute"
      BY <1>3 DEF Ledger!Stages, StageSet, First, After
    <2>2. Len(st) = 3 /\ 1..3 = {1, 2, 3} /\ st[1] = "moves" /\ st[2] = "lines"
          /\ st[3] = "partials" /\ Head(st) = "moves"
      BY <2>1
    <2>3. (CHOOSE k \in 1..Len(st) : st[k] = "moves") = 1
      BY <2>2
    <2>4. (CHOOSE k \in 1..Len(st) : st[k] = "lines") = 2
      BY <2>2
    <2>5. (CHOOSE k \in 1..Len(st) : st[k] = "partials") = 3
      BY <2>2
    <2>6. /\ Ledger!NextStage(kind, "moves") = "lines" /\ Ledger!NextStage(kind, "lines") = "partials"
          /\ Ledger!NextStage(kind, "partials") = "compute"
      BY <2>2, <2>3, <2>4, <2>5 DEF Ledger!NextStage
    <2> HIDE DEF st
    <2> QED BY <2>1, <2>2, <2>6 DEF st
  <1>4. CASE kind = "journal_entries"
    <2>1. st = <<"moves", "entries">> /\ StageSet(kind) = {"moves", "entries"}
          /\ First(kind) = "moves" /\ After(kind, "moves") = "entries"
      BY <1>4 DEF Ledger!Stages, StageSet, First, After
    <2>2. Len(st) = 2 /\ 1..2 = {1, 2} /\ st[1] = "moves" /\ st[2] = "entries" /\ Head(st) = "moves"
      BY <2>1
    <2>3. (CHOOSE k \in 1..Len(st) : st[k] = "moves") = 1
      BY <2>2
    <2>5. Ledger!NextStage(kind, "moves") = "entries"
      BY <2>2, <2>3 DEF Ledger!NextStage
    <2> HIDE DEF st
    <2> QED BY <2>1, <2>2, <2>5 DEF st
  <1> QED
    BY <1>1, <1>2, <1>3, <1>4 DEF Ledger!Kinds

\* A page of a model.
LEMMA LedgerPages ==
    ASSUME NEW S, S \subseteq Nat \ {0}, IsFiniteSet(S), NEW c \in Nat
    PROVE  /\ Ledger!PageAfter(S, c) \subseteq S
           /\ Ledger!HasMore(S, c) =>
                /\ Ledger!Max(Ledger!PageAfter(S, c)) \in Ledger!PageAfter(S, c)
                /\ UpTo(S, c) \cup Ledger!PageAfter(S, c) = UpTo(S, Ledger!Max(Ledger!PageAfter(S, c)))
           /\ ~Ledger!HasMore(S, c) => UpTo(S, c) \cup Ledger!PageAfter(S, c) = S
           /\ UpTo(S, 0) = {}
  <1> DEFINE page == RowsAfter(S, c, LedgerPage)
  <1>1. S \subseteq Nat /\ LedgerPage \in Nat \ {0}
    BY AccountingReadsAssumption DEF Ledger!LedgerReportsAssumption
  <1>2. Ledger!PageAfter(S, c) = page
    BY LedgerFiniteSets DEF Ledger!PageAfter, RowsAfter, Ahead
  <1>3. /\ page \subseteq Ahead(S, c)
        /\ Ahead(S, c) # {} => page # {}
        /\ page # {} => \E m : IsLast(page, m)
        /\ page # Ahead(S, c) => \A m : IsLast(page, m) => UpTo(S, c) \cup page = UpTo(S, m)
        /\ page = Ahead(S, c) => UpTo(S, c) \cup page = S
    BY <1>1, PageRows
  <1>4. Ledger!HasMore(S, c) <=> page # Ahead(S, c)
    BY <1>2, <1>3 DEF Ledger!HasMore, Ahead
  <1>5. page \subseteq S /\ page \subseteq Nat
    BY <1>1, <1>3 DEF Ahead
  <1>5a. UpTo(S, 0) = {}
    <2>1. \A i \in S : ~(i <= 0)
      OBVIOUS
    <2> QED BY <2>1 DEF UpTo
  <1> HIDE DEF page
  <1>6. ASSUME page # Ahead(S, c)
        PROVE  /\ Ledger!Max(page) \in page
               /\ UpTo(S, c) \cup page = UpTo(S, Ledger!Max(page))
    <2>1. PICK m : IsLast(page, m)
      BY <1>3, <1>6
    <2>2. \A x \in page : (\A y \in page : x >= y) => x = m
      BY <1>5, <2>1 DEF IsLast
    <2>3. Ledger!Max(page) = m
      BY <2>1, <2>2 DEF Ledger!Max, IsLast
    <2> QED
      BY <1>3, <1>6, <2>1, <2>3 DEF IsLast
  <1> QED
    BY <1>2, <1>3, <1>4, <1>5, <1>5a, <1>6

LEMMA LedgerStages ==
    ASSUME Ledger!LedgerTypeOK
    PROVE  stage \in StageSet(request.kind) \cup {"idle", "compute", "done", "failed"}
  <1>1. request.kind \in Ledger!Kinds
    BY WholeFinite
  <1>2. {Ledger!Stages(request.kind)[k] : k \in 1..Len(Ledger!Stages(request.kind))} = StageSet(request.kind)
    BY <1>1, StageOrder
  <1> QED
    BY <1>2 DEF Ledger!LedgerTypeOK

\* A step of the reader leaves the ledger, the request and the session alone.
LEMMA ReaderKeeps ==
    ASSUME Ledger!PagesInv, UNCHANGED <<posted, applied, request, session>>,
           stage' \in StageSet(request.kind) \cup {"idle", "compute", "done", "failed"},
           cursor' \in Nat, DOMAIN rows' = {"moves", "lines", "partials", "entries"}
    PROVE  /\ Ledger!LedgerTypeOK'
           /\ Ledger!Quiet' <=> Ledger!Quiet
           /\ Ledger!Whole' = Ledger!Whole
           /\ Ledger!WholeMoves' = Ledger!WholeMoves /\ Ledger!WholeLines' = Ledger!WholeLines
           /\ Ledger!WholePartials' = Ledger!WholePartials
           /\ \A s, S : Ledger!RowsOf(s, S)' = Ledger!RowsOf(s, S)
           /\ Ledger!Keys(request, Ledger!Whole)' = Ledger!Keys(request, Ledger!Whole)
  <1>1. Ledger!LedgerTypeOK
    BY DEF Ledger!PagesInv
  <1>2. request.kind \in Ledger!Kinds
    BY <1>1, WholeFinite
  <1>3. {Ledger!Stages(request.kind)[k] : k \in 1..Len(Ledger!Stages(request.kind))} = StageSet(request.kind)
    BY <1>2, StageOrder
  <1>4. /\ Ledger!Whole' = Ledger!Whole
        /\ Ledger!WholeMoves' = Ledger!WholeMoves /\ Ledger!WholeLines' = Ledger!WholeLines
        /\ Ledger!WholePartials' = Ledger!WholePartials
        /\ \A s, S : Ledger!RowsOf(s, S)' = Ledger!RowsOf(s, S)
        /\ Ledger!Moment' = Ledger!Moment
        /\ Ledger!Keys(request, Ledger!Whole)' = Ledger!Keys(request, Ledger!Whole)
    BY <1>2, WholeStays
  <1>5. {Ledger!Stages(request.kind)[k] : k \in 1..Len(Ledger!Stages(request.kind))}' = StageSet(request.kind)
    BY <1>3
  <1>5a. Ledger!IsFiniteSet(session)' <=> Ledger!IsFiniteSet(session)
    BY LedgerFiniteSets DEF Ledger!IsFiniteSet
  <1>6. Ledger!LedgerTypeOK'
    BY <1>1, <1>4, <1>5, <1>5a DEF Ledger!LedgerTypeOK
  <1>7. Ledger!Quiet' <=> Ledger!Quiet
    BY <1>4 DEF Ledger!Quiet
  <1> QED
    BY <1>4, <1>6, <1>7

LEMMA NothingYet ==
    ASSUME Ledger!LedgerTypeOK
    PROVE  /\ UpTo(Ledger!WholeMoves, 0) = {} /\ UpTo(Ledger!WholeLines, 0) = {}
           /\ UpTo(Ledger!WholePartials, 0) = {}
  BY WholeFinite, LedgerPages

\* The read stages of RowsInv, at any cursor.
ReadUpTo(s, c) ==
    CASE s = "moves" -> [Ledger!NoRows EXCEPT !.moves = Ledger!RowsOf("moves", UpTo(Ledger!WholeMoves, c))]
      [] s = "lines" -> [Ledger!NoRows EXCEPT !.moves = Ledger!Whole.moves,
                                  !.lines = Ledger!RowsOf("lines", UpTo(Ledger!WholeLines, c))]
      [] s = "partials" ->
            [Ledger!Whole EXCEPT !.partials = Ledger!RowsOf("partials", UpTo(Ledger!WholePartials, c))]

LEMMA RowsInvIs ==
    Ledger!RowsInv <=>
        (Ledger!Quiet =>
            /\ stage \in {"moves", "lines", "partials"} => rows = ReadUpTo(stage, cursor)
            /\ stage \in {"entries", "compute", "done"} =>
                  /\ rows.moves = Ledger!Whole.moves /\ rows.lines = Ledger!Whole.lines
                  /\ rows.partials = Ledger!Whole.partials)
  <1>1. /\ Ledger!UpToCursor(Ledger!WholeMoves) = UpTo(Ledger!WholeMoves, cursor)
        /\ Ledger!UpToCursor(Ledger!WholeLines) = UpTo(Ledger!WholeLines, cursor)
        /\ Ledger!UpToCursor(Ledger!WholePartials) = UpTo(Ledger!WholePartials, cursor)
    BY DEF Ledger!UpToCursor, UpTo
  <1>2. /\ ReadUpTo("moves", cursor)
             = [Ledger!NoRows EXCEPT !.moves = Ledger!RowsOf("moves", UpTo(Ledger!WholeMoves, cursor))]
        /\ ReadUpTo("lines", cursor)
             = [Ledger!NoRows EXCEPT !.moves = Ledger!Whole.moves,
                                  !.lines = Ledger!RowsOf("lines", UpTo(Ledger!WholeLines, cursor))]
        /\ ReadUpTo("partials", cursor)
             = [Ledger!Whole EXCEPT !.partials = Ledger!RowsOf("partials", UpTo(Ledger!WholePartials, cursor))]
    BY DEF ReadUpTo
  <1> QED
    BY <1>1, <1>2, Zenon DEF Ledger!RowsInv

LEMMA RowsInvNext ==
    ASSUME Ledger!PagesInv, UNCHANGED <<posted, applied, request, session>>,
           Ledger!LedgerTypeOK', Ledger!Quiet' <=> Ledger!Quiet,
           Ledger!Whole' = Ledger!Whole,
           Ledger!WholeMoves' = Ledger!WholeMoves, Ledger!WholeLines' = Ledger!WholeLines,
           Ledger!WholePartials' = Ledger!WholePartials,
           \A s, S : Ledger!RowsOf(s, S)' = Ledger!RowsOf(s, S),
           Ledger!Quiet /\ stage' \in {"moves", "lines", "partials"} => rows' = ReadUpTo(stage', cursor'),
           Ledger!Quiet /\ stage' \in {"entries", "compute", "done"} =>
                  /\ rows'.moves = Ledger!Whole.moves /\ rows'.lines = Ledger!Whole.lines
                  /\ rows'.partials = Ledger!Whole.partials
    PROVE  Ledger!RowsInv'
  <1>1. /\ Ledger!UpToCursor(Ledger!WholeMoves)' = UpTo(Ledger!WholeMoves, cursor')
        /\ Ledger!UpToCursor(Ledger!WholeLines)' = UpTo(Ledger!WholeLines, cursor')
        /\ Ledger!UpToCursor(Ledger!WholePartials)' = UpTo(Ledger!WholePartials, cursor')
    BY DEF Ledger!UpToCursor, UpTo
  <1>2. Ledger!NoRows' = Ledger!NoRows
    BY DEF Ledger!NoRows
  <1>3. \A s, i : Ledger!RowOf(s, i)' = Ledger!RowOf(s, i)
    BY DEF Ledger!RowOf, Ledger!StateOf
  <1>4. /\ Ledger!RowsOf("moves", UpTo(Ledger!WholeMoves, cursor))'
              = Ledger!RowsOf("moves", UpTo(Ledger!WholeMoves, cursor'))
        /\ Ledger!RowsOf("lines", UpTo(Ledger!WholeLines, cursor))'
              = Ledger!RowsOf("lines", UpTo(Ledger!WholeLines, cursor'))
        /\ Ledger!RowsOf("partials", UpTo(Ledger!WholePartials, cursor))'
              = Ledger!RowsOf("partials", UpTo(Ledger!WholePartials, cursor'))
    BY <1>3 DEF Ledger!RowsOf, UpTo
  <1>5. ReadUpTo(stage, cursor)' = ReadUpTo(stage', cursor')
    BY <1>2, <1>4, Zenon DEF ReadUpTo
  <1>6. (Ledger!RowsInv <=>
        (Ledger!Quiet =>
            /\ stage \in {"moves", "lines", "partials"} => rows = ReadUpTo(stage, cursor)
            /\ stage \in {"entries", "compute", "done"} =>
                  /\ rows.moves = Ledger!Whole.moves /\ rows.lines = Ledger!Whole.lines
                  /\ rows.partials = Ledger!Whole.partials))'
    BY RowsInvIs, PTL
  <1> QED
    BY <1>5, <1>6

LEMMA LedgerStarts == Ledger!Init => Ledger!PagesInv
  <1> SUFFICES ASSUME Ledger!Init PROVE Ledger!PagesInv
    OBVIOUS
  <1> USE DEF Ledger!Init
  <1>1. Ledger!LedgerTypeOK
    <2>1. DOMAIN rows = {"moves", "lines", "partials", "entries"}
      BY DEF Ledger!NoRows
    <2>2. Ledger!IsFiniteSet(session)
      BY LedgerFiniteSets, FS_Singleton
    <2> QED BY <2>1, <2>2 DEF Ledger!LedgerTypeOK
  <1>2. Ledger!RowsInv
    BY DEF Ledger!RowsInv
  <1>3. Ledger!ShownInv
    <2>1. PICK T : Ledger!Keys(request, Ledger!Whole) \in Seq(T)
      BY <1>1, KeysList
    <2> DEFINE keys == Ledger!Keys(request, Ledger!Whole)
    <2>2. Len(<<>>) = 0 /\ Len(keys) \in Nat /\ SubSeq(keys, 1, 0) = <<>>
      <3> HIDE DEF keys
      <3>1. keys \in Seq(T)
        BY <2>1 DEF keys
      <3> QED BY <3>1
    <2> HIDE DEF keys
    <2>3. Len(shown) \in 0..Len(keys) /\ shown = SubSeq(keys, 1, Len(shown)) /\ stage # "done"
      BY <2>2
    <2> QED
      BY <2>3 DEF Ledger!ShownInv, keys
  <1> QED
    BY <1>1, <1>2, <1>3 DEF Ledger!PagesInv

LEMMA ShownStays ==
    ASSUME Ledger!ShownInv, Ledger!Quiet' <=> Ledger!Quiet, UNCHANGED shown, stage' # "done",
           Ledger!Keys(request, Ledger!Whole)' = Ledger!Keys(request, Ledger!Whole)
    PROVE  Ledger!ShownInv'
  BY Zenon DEF Ledger!ShownInv

LEMMA LedgerBegin ==
    ASSUME Ledger!PagesInv, Ledger!Begin PROVE Ledger!PagesInv'
  <1> USE DEF Ledger!Begin, Ledger!odoo
  <1>1. Ledger!LedgerTypeOK /\ Ledger!ShownInv
    BY DEF Ledger!PagesInv
  <1>2. request.kind \in Ledger!Kinds
    BY <1>1, WholeFinite
  <1>3. stage' = First(request.kind) /\ First(request.kind) \in StageSet(request.kind)
    BY <1>2, StageOrder
  <1>4. /\ stage' \in StageSet(request.kind) \cup {"idle", "compute", "done", "failed"}
        /\ cursor' \in Nat /\ DOMAIN rows' = {"moves", "lines", "partials", "entries"}
    BY <1>3 DEF Ledger!NoRows
  <1>5. /\ Ledger!LedgerTypeOK'
        /\ Ledger!Quiet' <=> Ledger!Quiet
        /\ Ledger!Whole' = Ledger!Whole
        /\ Ledger!WholeMoves' = Ledger!WholeMoves /\ Ledger!WholeLines' = Ledger!WholeLines
        /\ Ledger!WholePartials' = Ledger!WholePartials
        /\ \A s, S : Ledger!RowsOf(s, S)' = Ledger!RowsOf(s, S)
        /\ Ledger!Keys(request, Ledger!Whole)' = Ledger!Keys(request, Ledger!Whole)
    BY <1>4, ReaderKeeps
  <1>6. /\ stage' \in {"moves", "lines"} /\ cursor' = 0 /\ rows' = Ledger!NoRows
        /\ stage' = "lines" => Ledger!WholeMoves = {}
    BY <1>3 DEF First, Ledger!WholeMoves, Ledger!MovesFirst
  <1>7. rows' = ReadUpTo(stage', cursor')
    <2>1. UpTo(Ledger!WholeMoves, 0) = {} /\ UpTo(Ledger!WholeLines, 0) = {}
      BY <1>1, NothingYet
    <2>2. Ledger!RowsOf("moves", {}) = {} /\ Ledger!RowsOf("lines", {}) = {}
      BY RowIds
    <2>3. stage' = "lines" => Ledger!Whole.moves = {}
      BY <1>6, <2>2 DEF Ledger!Whole
    <2>4. ReadUpTo("moves", 0) = [Ledger!NoRows EXCEPT !.moves = {}]
      BY <2>1, <2>2 DEF ReadUpTo
    <2>5. ReadUpTo("lines", 0) = [Ledger!NoRows EXCEPT !.moves = Ledger!Whole.moves, !.lines = {}]
      BY <2>1, <2>2 DEF ReadUpTo
    <2> HIDE DEF Ledger!Begin
    <2> QED
      BY <1>6, <2>3, <2>4, <2>5 DEF Ledger!NoRows
  <1>8. Ledger!RowsInv'
    BY <1>5, <1>6, <1>7, RowsInvNext
  <1>9. Ledger!ShownInv'
    BY <1>1, <1>5, <1>6, ShownStays
  <1> QED
    BY <1>5, <1>8, <1>9 DEF Ledger!PagesInv

\* What a stage selects when nothing happens is what the whole report has.
WholeOf(s) == CASE s = "moves" -> Ledger!WholeMoves
                [] s = "lines" -> Ledger!WholeLines
                [] s = "partials" -> Ledger!WholePartials

LEMMA StageReads ==
    ASSUME Ledger!PagesInv, Ledger!Quiet, stage \in {"moves", "lines", "partials"}
    PROVE  /\ stage \in StageSet(request.kind)
           /\ Ledger!Selected(request, stage) = WholeOf(stage)
           /\ WholeOf(stage) \subseteq Nat \ {0} /\ IsFiniteSet(WholeOf(stage))
           /\ rows = ReadUpTo(stage, cursor)
           /\ Ledger!Ids(rows[stage]) = UpTo(WholeOf(stage), cursor)
  <1>0. Ledger!LedgerTypeOK /\ Ledger!RowsInv
    BY DEF Ledger!PagesInv
  <1>1. request.kind \in Ledger!Kinds
    BY <1>0, WholeFinite
  <1>2. stage \in StageSet(request.kind)
    BY <1>0, LedgerStages
  <1>3. rows = ReadUpTo(stage, cursor)
    BY <1>0, RowsInvIs
  <1>4. WholeOf(stage) \in {Ledger!WholeMoves, Ledger!WholeLines, Ledger!WholePartials}
    BY DEF WholeOf
  <1>5. WholeOf(stage) \subseteq Nat \ {0} /\ IsFiniteSet(WholeOf(stage))
    BY <1>0, <1>4, WholeFinite
  <1>6. CASE stage = "moves"
    <2>1. request.kind \in {"open_documents", "journal_entries"}
      BY <1>1, <1>2, <1>6 DEF StageSet, Ledger!Kinds
    <2>2. Ledger!Selected(request, stage) = WholeOf(stage)
      BY <1>6, <2>1 DEF WholeOf, Ledger!WholeMoves, Ledger!MovesFirst
    <2>3. rows[stage] = Ledger!RowsOf("moves", UpTo(WholeOf(stage), cursor))
      BY <1>3, <1>6 DEF WholeOf, ReadUpTo, Ledger!NoRows
    <2> QED
      BY <1>2, <1>3, <1>5, <2>2, <2>3, RowIds
  <1>7. CASE stage = "lines"
    <2>1. request.kind # "journal_entries"
      BY <1>1, <1>2, <1>7 DEF StageSet, Ledger!Kinds
    <2>2. rows[stage] = Ledger!RowsOf("lines", UpTo(WholeOf(stage), cursor))
      BY <1>3, <1>7 DEF WholeOf, ReadUpTo, Ledger!NoRows
    <2>3. rows.moves = Ledger!RowsOf("moves", Ledger!WholeMoves)
      BY <1>3, <1>7 DEF ReadUpTo, Ledger!NoRows, Ledger!Whole
    <2>4. {m.id : m \in rows.moves} = Ledger!WholeMoves
      BY <2>3, RowIds DEF Ledger!Ids
    <2>5. Ledger!Selected(request, stage) = {i \in Ledger!LineIds : Ledger!Selects(request, i)}
      BY <1>7 DEF Ledger!Selected
    <2>6. ASSUME request.kind = "open_documents"
          PROVE  {i \in Ledger!LineIds : Ledger!Selects(request, i)} = Ledger!WholeLines
      <3>1. \A i : Ledger!Selects(request, i) <=> Ledger!OpenLine(request, i)
        BY <2>6 DEF Ledger!Selects
      <3>2. \A i : Ledger!OpenLine(request, i) <=> /\ LedgerLines[i].move \in Ledger!WholeMoves
                                                   /\ AccountTypes[LedgerLines[i].account] = "asset_receivable"
        BY <2>4 DEF Ledger!OpenLine
      <3>3. Ledger!WholeLines = {i \in Ledger!LineIds :
                             /\ LedgerLines[i].move \in Ledger!WholeMoves
                             /\ AccountTypes[LedgerLines[i].account] = "asset_receivable"}
        BY <2>6 DEF Ledger!WholeLines
      <3> QED BY <3>1, <3>2, <3>3
    <2>7. request.kind # "open_documents" =>
             {i \in Ledger!LineIds : Ledger!Selects(request, i)} = Ledger!WholeLines
      BY <2>1 DEF Ledger!WholeLines
    <2>8. WholeOf(stage) = Ledger!WholeLines
      BY <1>7 DEF WholeOf
    <2> QED
      BY <1>2, <1>3, <1>5, <1>7, <2>2, <2>5, <2>6, <2>7, <2>8, RowIds
  <1>8. CASE stage = "partials"
    <2>1. request.kind \in {"aged_balance", "open_documents"}
      BY <1>1, <1>2, <1>8 DEF StageSet, Ledger!Kinds
    <2>2. Ledger!Selected(request, stage) = WholeOf(stage)
      BY <1>8, <2>1 DEF WholeOf, Ledger!WholePartials
    <2>3. rows[stage] = Ledger!RowsOf("partials", UpTo(WholeOf(stage), cursor))
      BY <1>3, <1>8 DEF WholeOf, ReadUpTo, Ledger!Whole
    <2> QED
      BY <1>2, <1>3, <1>5, <2>2, <2>3, RowIds
  <1> QED
    BY <1>6, <1>7, <1>8

LEMMA SelectedFinite ==
    ASSUME Ledger!LedgerTypeOK, stage \in {"moves", "lines", "partials"}
    PROVE  /\ Ledger!Selected(request, stage) \subseteq Nat \ {0}
           /\ IsFiniteSet(Ledger!Selected(request, stage))
           /\ stage \in StageSet(request.kind) /\ stage # "entries"
  <1>1. /\ IsFiniteSet(Ledger!LineIds) /\ Ledger!LineIds \subseteq Nat \ {0}
        /\ IsFiniteSet(DOMAIN Partials) /\ DOMAIN Partials \subseteq Nat \ {0}
        /\ \A i \in Ledger!LineIds : LedgerLines[i].move \in Nat \ {0}
    BY LedgerFiniteSets, AccountingReadsAssumption DEF Ledger!LedgerReportsAssumption
  <1>2. stage \in StageSet(request.kind) /\ request.kind \in Ledger!Kinds
    BY LedgerStages, WholeFinite
  <1>3. CASE stage = "moves"
    <2>1. request.kind \in {"open_documents", "journal_entries"}
      BY <1>2, <1>3 DEF StageSet, Ledger!Kinds
    <2>2. Ledger!Selected(request, stage) = Ledger!WholeMoves
      BY <1>3, <2>1 DEF Ledger!WholeMoves, Ledger!MovesFirst
    <2> QED
      BY <1>2, <1>3, <2>2, WholeFinite
  <1>4. CASE stage = "lines"
    <2>1. Ledger!Selected(request, stage) \subseteq Ledger!LineIds
      BY <1>4 DEF Ledger!Selected
    <2> QED
      BY <1>1, <1>2, <1>4, <2>1, FS_Subset
  <1>5. CASE stage = "partials"
    <2>1. Ledger!Selected(request, stage) \subseteq DOMAIN Partials
      BY <1>5 DEF Ledger!Selected, Ledger!LedgerTypeOK
    <2> QED
      BY <1>1, <1>2, <1>5, <2>1, FS_Subset
  <1> QED
    BY <1>3, <1>4, <1>5

LEMMA LedgerReadPage ==
    ASSUME Ledger!PagesInv, Ledger!ReadPage PROVE Ledger!PagesInv'
  <1> DEFINE S == Ledger!Selected(request, stage)
             page == Ledger!PageAfter(S, cursor)
             added == {Ledger!RowOf(stage, i) : i \in page}
  <1>1. Ledger!LedgerTypeOK /\ Ledger!ShownInv /\ cursor \in Nat
    BY DEF Ledger!PagesInv, Ledger!LedgerTypeOK
  <1>2. /\ stage \in {"moves", "lines", "partials"}
        /\ UNCHANGED <<posted, applied, request, session, shown>>
        /\ rows' = [rows EXCEPT ![stage] = rows[stage] \cup added]
        /\ \/ stage' = "failed" /\ cursor' = cursor
           \/ Ledger!HasMore(S, cursor) /\ cursor' = Ledger!Max(page) /\ stage' = stage
           \/ ~Ledger!HasMore(S, cursor) /\ cursor' = 0
                 /\ stage' = Ledger!NextStage(request.kind, stage)
    BY DEF Ledger!ReadPage, Ledger!odoo
  <1>3. /\ S \subseteq Nat \ {0} /\ IsFiniteSet(S)
        /\ stage \in StageSet(request.kind) /\ stage # "entries"
    BY <1>1, <1>2, SelectedFinite
  <1>4. request.kind \in Ledger!Kinds
    BY <1>1, WholeFinite
  <1>5. /\ Ledger!NextStage(request.kind, stage) = After(request.kind, stage)
        /\ After(request.kind, stage) \in StageSet(request.kind) \cup {"compute"}
    BY <1>3, <1>4, StageOrder
  <1> HIDE DEF S
  <1>6. /\ page \subseteq S
        /\ Ledger!HasMore(S, cursor) => Ledger!Max(page) \in page
                                        /\ UpTo(S, cursor) \cup page = UpTo(S, Ledger!Max(page))
        /\ ~Ledger!HasMore(S, cursor) => UpTo(S, cursor) \cup page = S
    BY <1>1, <1>3, LedgerPages
  <1> HIDE DEF page
  <1>7. /\ stage' \in StageSet(request.kind) \cup {"idle", "compute", "done", "failed"}
        /\ cursor' \in Nat
    <2> HIDE DEF added
    <2>1. \A i \in page : i \in Nat
      BY <1>3, <1>6
    <2>2. cursor' \in Nat
      BY <1>1, <1>2, <1>6, <2>1
    <2> QED
      BY <1>2, <1>3, <1>5, <2>2
  <1>8. DOMAIN rows = {"moves", "lines", "partials", "entries"} /\ DOMAIN rows' = DOMAIN rows
    BY <1>1, <1>2 DEF Ledger!LedgerTypeOK
  <1>9. /\ Ledger!LedgerTypeOK'
        /\ Ledger!Quiet' <=> Ledger!Quiet
        /\ Ledger!Whole' = Ledger!Whole
        /\ Ledger!WholeMoves' = Ledger!WholeMoves /\ Ledger!WholeLines' = Ledger!WholeLines
        /\ Ledger!WholePartials' = Ledger!WholePartials
        /\ \A s, T : Ledger!RowsOf(s, T)' = Ledger!RowsOf(s, T)
        /\ Ledger!Keys(request, Ledger!Whole)' = Ledger!Keys(request, Ledger!Whole)
    BY <1>2, <1>7, <1>8, ReaderKeeps
  <1>10. stage' \in {"moves", "lines", "partials", "entries", "compute", "failed"}
    BY <1>2, <1>5, <1>4 DEF After, Ledger!Kinds
  <1>11. Ledger!ShownInv'
    BY <1>1, <1>2, <1>9, <1>10, ShownStays
  <1>12. ASSUME Ledger!Quiet
         PROVE  /\ S = WholeOf(stage)
                /\ rows = ReadUpTo(stage, cursor)
                /\ rows[stage] = Ledger!RowsOf(stage, UpTo(S, cursor))
                /\ rows'[stage] = Ledger!RowsOf(stage, UpTo(S, cursor) \cup page)
    <2>1. S = WholeOf(stage) /\ rows = ReadUpTo(stage, cursor)
      BY <1>2, <1>12, StageReads DEF S
    <2>2. rows[stage] = Ledger!RowsOf(stage, UpTo(S, cursor))
      BY <1>2, <2>1 DEF ReadUpTo, WholeOf, Ledger!NoRows, Ledger!Whole
    <2>3. added = Ledger!RowsOf(stage, page)
      BY DEF Ledger!RowsOf
    <2>4. rows'[stage] = rows[stage] \cup added
      <3> HIDE DEF added
      <3> QED BY <1>2, <1>8
    <2>5. Ledger!RowsOf(stage, UpTo(S, cursor) \cup page)
             = Ledger!RowsOf(stage, UpTo(S, cursor)) \cup Ledger!RowsOf(stage, page)
      BY <1>2, RowIds
    <2> QED
      BY <2>1, <2>2, <2>3, <2>4, <2>5
  <1> HIDE DEF added
  <1>13. ASSUME Ledger!Quiet, stage' = stage
         PROVE  rows' = ReadUpTo(stage', cursor')
    <2>1. Ledger!HasMore(S, cursor) /\ cursor' = Ledger!Max(page)
      BY <1>2, <1>5, <1>13 DEF After
    <2>2. rows'[stage] = Ledger!RowsOf(stage, UpTo(WholeOf(stage), cursor'))
      BY <1>6, <1>12, <1>13, <2>1
    <2>3. rows' = [rows EXCEPT ![stage] = rows'[stage]]
      BY <1>2, <1>8
    <2> QED
      BY <1>2, <1>12, <1>13, <2>2, <2>3 DEF ReadUpTo, WholeOf, Ledger!NoRows, Ledger!Whole
  <1>14. ASSUME Ledger!Quiet, stage' # stage, stage' # "failed"
         PROVE  /\ stage' = After(request.kind, stage) /\ cursor' = 0
                /\ rows' = [rows EXCEPT ![stage] = Ledger!RowsOf(stage, WholeOf(stage))]
    <2>1. ~Ledger!HasMore(S, cursor) /\ cursor' = 0 /\ stage' = After(request.kind, stage)
      BY <1>2, <1>5, <1>14
    <2>2. rows'[stage] = Ledger!RowsOf(stage, WholeOf(stage))
      BY <1>6, <1>12, <1>14, <2>1
    <2>3. rows' = [rows EXCEPT ![stage] = rows'[stage]]
      BY <1>2, <1>8
    <2> QED
      BY <2>1, <2>2, <2>3
  <1>15. /\ UpTo(Ledger!WholeMoves, 0) = {} /\ UpTo(Ledger!WholeLines, 0) = {}
         /\ UpTo(Ledger!WholePartials, 0) = {}
         /\ Ledger!RowsOf("lines", {}) = {} /\ Ledger!RowsOf("partials", {}) = {}
    BY <1>1, NothingYet, RowIds
  <1>16. ASSUME Ledger!Quiet, stage' # stage, stage' \in {"moves", "lines", "partials"}
         PROVE  rows' = ReadUpTo(stage', cursor')
    <2>1. CASE stage = "moves" /\ stage' = "lines"
      <3>1. rows' = [Ledger!NoRows EXCEPT !.moves = Ledger!RowsOf("moves", Ledger!WholeMoves)]
        BY <1>12, <1>14, <1>16, <2>1 DEF ReadUpTo, WholeOf, Ledger!NoRows
      <3>2. ReadUpTo("lines", 0) = [Ledger!NoRows EXCEPT !.moves = Ledger!Whole.moves, !.lines = {}]
        BY <1>15 DEF ReadUpTo
      <3>3. Ledger!Whole.moves = Ledger!RowsOf("moves", Ledger!WholeMoves)
        BY DEF Ledger!Whole
      <3> DEFINE M == Ledger!RowsOf("moves", Ledger!WholeMoves)
      <3>4. rows' = [moves |-> M, lines |-> {}, partials |-> {}, entries |-> {}]
        BY <3>1 DEF Ledger!NoRows
      <3>6. ReadUpTo("lines", 0) = [moves |-> M, lines |-> {}, partials |-> {}, entries |-> {}]
        BY <3>2, <3>3 DEF Ledger!NoRows
      <3>5. cursor' = 0
        BY <1>14, <1>16, <2>1
      <3> QED
        BY <2>1, <3>4, <3>5, <3>6
    <2>2. CASE stage = "lines" /\ stage' = "partials"
      <3>1. rows' = [Ledger!NoRows EXCEPT !.moves = Ledger!Whole.moves,
                                         !.lines = Ledger!RowsOf("lines", Ledger!WholeLines)]
        BY <1>12, <1>14, <1>16, <2>2 DEF ReadUpTo, WholeOf, Ledger!NoRows
      <3>2. ReadUpTo("partials", 0) = [Ledger!Whole EXCEPT !.partials = {}]
        BY <1>15 DEF ReadUpTo
      <3> DEFINE M == Ledger!RowsOf("moves", Ledger!WholeMoves)
                 L == Ledger!RowsOf("lines", Ledger!WholeLines)
      <3>3. Ledger!Whole.moves = M
        BY DEF Ledger!Whole
      <3>4. rows' = [moves |-> M, lines |-> L, partials |-> {}, entries |-> {}]
        BY <3>1, <3>3 DEF Ledger!NoRows
      <3>6. ReadUpTo("partials", 0) = [moves |-> M, lines |-> L, partials |-> {}, entries |-> {}]
        BY <3>2 DEF Ledger!Whole
      <3>5. cursor' = 0
        BY <1>14, <1>16, <2>2
      <3> QED
        BY <2>2, <3>4, <3>5, <3>6
    <2> QED
      BY <1>2, <1>14, <1>16, <2>1, <2>2, <1>4 DEF After, Ledger!Kinds
  <1>17. ASSUME Ledger!Quiet, stage' \in {"entries", "compute", "done"}
         PROVE  /\ rows'.moves = Ledger!Whole.moves /\ rows'.lines = Ledger!Whole.lines
                /\ rows'.partials = Ledger!Whole.partials
    <2>1. /\ Ledger!Whole.moves = Ledger!RowsOf("moves", Ledger!WholeMoves)
          /\ Ledger!Whole.lines = Ledger!RowsOf("lines", Ledger!WholeLines)
          /\ Ledger!Whole.partials = Ledger!RowsOf("partials", Ledger!WholePartials)
      BY DEF Ledger!Whole
    <2>2. stage' # stage /\ stage' # "failed" /\ stage' = After(request.kind, stage)
      BY <1>2, <1>14, <1>17
    <2>3. CASE stage = "moves"
      <3>1. request.kind = "journal_entries"
        BY <1>3, <1>4, <1>17, <2>2, <2>3 DEF After, StageSet, Ledger!Kinds
      <3>2. Ledger!WholeLines = {} /\ Ledger!WholePartials = {}
        BY <3>1 DEF Ledger!WholeLines, Ledger!WholePartials
      <3>3. rows' = [Ledger!NoRows EXCEPT !.moves = Ledger!RowsOf("moves", Ledger!WholeMoves)]
        BY <1>12, <1>14, <1>17, <2>2, <2>3 DEF ReadUpTo, WholeOf, Ledger!NoRows
      <3> QED
        BY <1>15, <2>1, <3>2, <3>3 DEF Ledger!NoRows
    <2>4. CASE stage = "lines"
      <3>1. request.kind \notin {"aged_balance", "open_documents"}
        BY <1>4, <1>17, <2>2, <2>4 DEF After, Ledger!Kinds
      <3>2. Ledger!WholePartials = {}
        BY <3>1 DEF Ledger!WholePartials
      <3>3. rows' = [Ledger!NoRows EXCEPT !.moves = Ledger!Whole.moves,
                                         !.lines = Ledger!RowsOf("lines", Ledger!WholeLines)]
        BY <1>12, <1>14, <1>17, <2>2, <2>4 DEF ReadUpTo, WholeOf, Ledger!NoRows
      <3> QED
        BY <1>15, <2>1, <3>2, <3>3 DEF Ledger!NoRows
    <2>5. CASE stage = "partials"
      <3>1. rows' = [Ledger!Whole EXCEPT !.partials = Ledger!RowsOf("partials", Ledger!WholePartials)]
        BY <1>12, <1>14, <1>17, <2>2, <2>5 DEF ReadUpTo, WholeOf, Ledger!Whole
      <3> QED
        BY <2>1, <3>1 DEF Ledger!Whole
    <2> QED
      BY <1>2, <2>3, <2>4, <2>5
  <1>18. Ledger!RowsInv'
    BY <1>2, <1>9, <1>13, <1>16, <1>17, RowsInvNext
  <1> QED
    BY <1>9, <1>11, <1>18 DEF Ledger!PagesInv

LEMMA LedgerReadEntry ==
    ASSUME Ledger!PagesInv, Ledger!ReadEntry PROVE Ledger!PagesInv'
  <1>1. Ledger!LedgerTypeOK /\ Ledger!ShownInv /\ Ledger!RowsInv /\ cursor \in Nat
        /\ DOMAIN rows = {"moves", "lines", "partials", "entries"}
    BY DEF Ledger!PagesInv, Ledger!LedgerTypeOK
  <1>2. /\ stage = "entries"
        /\ UNCHANGED <<posted, applied, request, session, shown, cursor>>
        /\ \/ stage' = "compute" /\ rows' = rows
           \/ stage' = stage /\ \E E : rows' = [rows EXCEPT !.entries = E]
    BY DEF Ledger!ReadEntry, Ledger!odoo
  <1>3. /\ DOMAIN rows' = DOMAIN rows /\ rows'.moves = rows.moves /\ rows'.lines = rows.lines
        /\ rows'.partials = rows.partials
    BY <1>1, <1>2
  <1>4. stage \in StageSet(request.kind)
    BY <1>1, <1>2, LedgerStages
  <1>5. stage' \in StageSet(request.kind) \cup {"idle", "compute", "done", "failed"}
    BY <1>2, <1>4
  <1>9. /\ Ledger!LedgerTypeOK'
        /\ Ledger!Quiet' <=> Ledger!Quiet
        /\ Ledger!Whole' = Ledger!Whole
        /\ Ledger!WholeMoves' = Ledger!WholeMoves /\ Ledger!WholeLines' = Ledger!WholeLines
        /\ Ledger!WholePartials' = Ledger!WholePartials
        /\ \A s, T : Ledger!RowsOf(s, T)' = Ledger!RowsOf(s, T)
        /\ Ledger!Keys(request, Ledger!Whole)' = Ledger!Keys(request, Ledger!Whole)
    BY <1>1, <1>2, <1>3, <1>5, ReaderKeeps
  <1>10. Ledger!Quiet => /\ rows.moves = Ledger!Whole.moves /\ rows.lines = Ledger!Whole.lines
                         /\ rows.partials = Ledger!Whole.partials
    BY <1>1, <1>2, RowsInvIs
  <1>11. stage' \notin {"moves", "lines", "partials"}
    BY <1>2
  <1>18. Ledger!RowsInv'
    BY <1>2, <1>3, <1>9, <1>10, <1>11, RowsInvNext
  <1>19. Ledger!ShownInv'
    BY <1>1, <1>2, <1>9, ShownStays
  <1> QED
    BY <1>9, <1>18, <1>19 DEF Ledger!PagesInv

LEMMA LedgerUsers ==
    ASSUME Ledger!PagesInv, Ledger!Happens, Ledger!Moment' # Ledger!Moment,
           posted' \subseteq Ledger!Moves, applied' \subseteq DOMAIN Partials
    PROVE  Ledger!PagesInv'
  <1>1. Ledger!LedgerTypeOK /\ Ledger!Moment \in session
    BY DEF Ledger!PagesInv, Ledger!LedgerTypeOK
  <1>2. session' = session \cup {Ledger!Moment'} /\ UNCHANGED <<request, stage, cursor, rows, shown>>
    BY DEF Ledger!Happens, Ledger!reader
  <1>3. ~Ledger!Quiet'
    BY <1>1, <1>2 DEF Ledger!Quiet
  <1>2a. IsFiniteSet(session)
    BY <1>1, LedgerFiniteSets DEF Ledger!LedgerTypeOK
  <1>2b. Ledger!IsFiniteSet(session')
    BY <1>2, <1>2a, LedgerFiniteSets, FS_AddElement
  <1>4. Ledger!LedgerTypeOK'
    BY <1>1, <1>2, <1>2b DEF Ledger!LedgerTypeOK
  <1> QED
    BY <1>3, <1>4 DEF Ledger!PagesInv, Ledger!RowsInv, Ledger!ShownInv

LEMMA KeysOfRows ==
    ASSUME NEW r, NEW w, r.moves = w.moves, r.lines = w.lines, r.partials = w.partials,
           request.kind \in Ledger!Kinds
    PROVE  Ledger!Keys(request, r) = Ledger!Keys(request, w)
  <1>1. request.kind # "journal_entries" => Ledger!Computed(request, r) = Ledger!Computed(request, w)
    BY DEF Ledger!Computed, Ledger!Kinds
  <1> DEFINE A == IF request.kind = "journal_entries" THEN Ledger!Ids(r.moves)
                  ELSE DOMAIN Ledger!Computed(request, r)
             B == IF request.kind = "journal_entries" THEN Ledger!Ids(w.moves)
                  ELSE DOMAIN Ledger!Computed(request, w)
  <1>2. A = B
    BY <1>1, Zenon
  <1>3. /\ Ledger!Keys(request, r)
             = [k \in 1..Ledger!Cardinality(A) |->
                  CHOOSE x \in A : Ledger!Cardinality({y \in A : y < x}) = k - 1]
        /\ Ledger!Keys(request, w)
             = [k \in 1..Ledger!Cardinality(B) |->
                  CHOOSE x \in B : Ledger!Cardinality({y \in B : y < x}) = k - 1]
    BY Zenon DEF Ledger!Keys, Ledger!InOrder
  <1> HIDE DEF A, B
  <1> QED
    BY <1>2, <1>3, Zenon

LEMMA Lesser ==
    ASSUME NEW a \in Int, NEW b \in Int
    PROVE  Ledger!Smallest({a, b}) = IF a <= b THEN a ELSE b
  <1> DEFINE m == IF a <= b THEN a ELSE b
  <1>1. m \in {a, b} /\ \A y \in {a, b} : m <= y
    OBVIOUS
  <1>2. \A x \in {a, b} : (\A y \in {a, b} : x <= y) => x = m
    OBVIOUS
  <1>3. Ledger!Smallest({a, b}) = CHOOSE x \in {a, b} : \A y \in {a, b} : x <= y
    BY DEF Ledger!Smallest, Ledger!Min
  <1> HIDE DEF m
  <1>4. Ledger!Smallest({a, b}) = m
    BY <1>1, <1>2, <1>3
  <1> QED
    BY <1>4 DEF m

\* The client has the first rows of the list, and all of them at the end.
FirstOf(got, list, s) ==
    /\ Len(got) \in 0..Len(list) /\ got = SubSeq(list, 1, Len(got))
    /\ s = "done" => got = list

LEMMA LedgerAnswer ==
    ASSUME Ledger!PagesInv, Ledger!Answer PROVE Ledger!PagesInv'
  <1> DEFINE keys == Ledger!Keys(request, rows)
             whole == Ledger!Keys(request, Ledger!Whole)
  <1>1. Ledger!LedgerTypeOK /\ Ledger!ShownInv /\ Ledger!RowsInv /\ cursor \in Nat
        /\ DOMAIN rows = {"moves", "lines", "partials", "entries"}
    BY DEF Ledger!PagesInv, Ledger!LedgerTypeOK
  <1>2. /\ stage = "compute"
        /\ UNCHANGED <<posted, applied, request, session, rows, cursor>>
        /\ \/ stage' = "failed" /\ shown' = shown
           \/ /\ Len(shown) <= Len(keys)
              /\ shown' = shown \o Ledger!Slice(keys, Len(shown))
              /\ stage' = IF Len(shown') < Len(keys) THEN "idle" ELSE "done"
    BY DEF Ledger!Answer, Ledger!odoo
  <1>3. stage' \in {"idle", "done", "failed"}
    BY <1>2
  <1>4. /\ Ledger!LedgerTypeOK'
        /\ Ledger!Quiet' <=> Ledger!Quiet
        /\ Ledger!Whole' = Ledger!Whole
        /\ Ledger!WholeMoves' = Ledger!WholeMoves /\ Ledger!WholeLines' = Ledger!WholeLines
        /\ Ledger!WholePartials' = Ledger!WholePartials
        /\ \A s, T : Ledger!RowsOf(s, T)' = Ledger!RowsOf(s, T)
        /\ whole' = whole
    <2>1. stage' \in StageSet(request.kind) \cup {"idle", "compute", "done", "failed"}
      BY <1>3
    <2>2. DOMAIN rows' = {"moves", "lines", "partials", "entries"} /\ cursor' \in Nat
      BY <1>1, <1>2
    <2> QED
      BY <1>2, <2>1, <2>2, ReaderKeeps
  <1>5. Ledger!Quiet => /\ rows.moves = Ledger!Whole.moves /\ rows.lines = Ledger!Whole.lines
                        /\ rows.partials = Ledger!Whole.partials
    BY <1>1, <1>2, RowsInvIs
  <1>6. Ledger!RowsInv'
    BY <1>2, <1>3, <1>4, <1>5, RowsInvNext
  <1>7. Ledger!Quiet => keys = whole
    BY <1>1, <1>5, KeysOfRows, WholeFinite
  <1>8. PICK T : whole \in Seq(T)
    BY <1>1, KeysList
  <1>9. /\ Ledger!ShownInv <=> (Ledger!Quiet => FirstOf(shown, whole, stage))
        /\ Ledger!ShownInv' <=> (Ledger!Quiet' => FirstOf(shown', whole', stage'))
    <2> HIDE DEF keys
    <2> QED BY Zenon DEF Ledger!ShownInv, FirstOf
  <1> HIDE DEF keys, whole
  <1>10. ASSUME Ledger!Quiet
         PROVE  FirstOf(shown', whole, stage')
    <2>1. Len(shown) \in 0..Len(whole) /\ shown = SubSeq(whole, 1, Len(shown))
      BY <1>1, <1>9, <1>10 DEF FirstOf
    <2>2. CASE stage' = "failed" /\ shown' = shown
      BY <2>1, <2>2 DEF FirstOf
    <2>3. CASE /\ shown' = shown \o Ledger!Slice(whole, Len(shown))
               /\ stage' = IF Len(shown') < Len(whole) THEN "idle" ELSE "done"
      <3> DEFINE n == Len(whole)
                 k == Len(shown)
                 m == IF k + ReportLimit <= n THEN k + ReportLimit ELSE n
      <3>0. n \in Nat /\ ReportLimit \in Nat \ {0}
        BY <1>8, AccountingReadsAssumption DEF Ledger!LedgerReportsAssumption
      <3>1. k \in Nat /\ k <= n
        BY <2>1, <3>0
      <3>2. m \in Nat /\ k <= m /\ m <= n
        BY <3>0, <3>1
      <3>3. Ledger!Smallest({k + ReportLimit, n}) = m
        BY <3>0, <3>1, Lesser
      <3>4. Ledger!Slice(whole, k) = SubSeq(whole, k + 1, m)
        BY <3>3 DEF Ledger!Slice
      <3> HIDE DEF m
      <3>5. SubSeq(whole, 1, k) \o SubSeq(whole, k + 1, m) = SubSeq(whole, 1, m)
        BY <1>8, <2>1, <3>1, <3>2, PageJoins
      <3>6. shown' = SubSeq(whole, 1, m)
        BY <2>1, <2>3, <3>4, <3>5
      <3>7. Len(shown') = m
        BY <1>8, <3>2, <3>6
      <3>8. m = n => SubSeq(whole, 1, m) = whole
        BY <1>8
      <3> QED
        BY <2>3, <3>0, <3>2, <3>6, <3>7, <3>8 DEF FirstOf
    <2> QED
      BY <1>2, <1>7, <1>10, <2>2, <2>3
  <1>11. Ledger!ShownInv'
    BY <1>4, <1>9, <1>10
  <1> QED
    BY <1>4, <1>6, <1>11 DEF Ledger!PagesInv

LEMMA LedgerStep ==
    Ledger!PagesInv /\ [Ledger!Next]_(Ledger!vars) => Ledger!PagesInv'
  <1> SUFFICES ASSUME Ledger!PagesInv, [Ledger!Next]_(Ledger!vars) PROVE Ledger!PagesInv'
    OBVIOUS
  <1>0. posted \subseteq Ledger!Moves /\ applied \subseteq DOMAIN Partials
    BY DEF Ledger!PagesInv, Ledger!LedgerTypeOK
  <1>1. CASE Ledger!Begin
    BY <1>1, LedgerBegin
  <1>2. CASE Ledger!ReadPage
    BY <1>2, LedgerReadPage
  <1>3. CASE Ledger!ReadEntry
    BY <1>3, LedgerReadEntry
  <1>4. CASE Ledger!Answer
    BY <1>4, LedgerAnswer
  <1>5. ASSUME NEW m \in Ledger!Moves, Ledger!PostMove(m) PROVE Ledger!PagesInv'
    <2>1. /\ Ledger!Happens /\ Ledger!Moment' # Ledger!Moment
          /\ posted' \subseteq Ledger!Moves /\ applied' \subseteq DOMAIN Partials
      <3>1. posted' # posted
        BY <1>5 DEF Ledger!PostMove
      <3> QED
        BY <1>0, <1>5, <3>1 DEF Ledger!PostMove, Ledger!Moment
    <2> QED BY <2>1, LedgerUsers
  <1>6. ASSUME NEW p \in DOMAIN Partials, Ledger!Reconcile(p) PROVE Ledger!PagesInv'
    <2>1. /\ Ledger!Happens /\ Ledger!Moment' # Ledger!Moment
          /\ posted' \subseteq Ledger!Moves /\ applied' \subseteq DOMAIN Partials
      <3>1. applied' # applied
        BY <1>6 DEF Ledger!Reconcile
      <3> QED
        BY <1>0, <1>6, <3>1 DEF Ledger!Reconcile, Ledger!Moment
    <2> QED BY <2>1, LedgerUsers
  <1>7. CASE UNCHANGED Ledger!vars
    <2>1. UNCHANGED <<posted, applied, request, session, stage, cursor, rows, shown>>
      BY <1>7 DEF Ledger!vars
    <2>2. Ledger!LedgerTypeOK /\ Ledger!ShownInv /\ Ledger!RowsInv
      BY DEF Ledger!PagesInv
    <2>3. /\ stage' \in StageSet(request.kind) \cup {"idle", "compute", "done", "failed"}
          /\ cursor' \in Nat /\ DOMAIN rows' = {"moves", "lines", "partials", "entries"}
      BY <2>1, <2>2, LedgerStages DEF Ledger!LedgerTypeOK
    <2>4. /\ Ledger!LedgerTypeOK'
          /\ Ledger!Quiet' <=> Ledger!Quiet
          /\ Ledger!Whole' = Ledger!Whole
          /\ Ledger!WholeMoves' = Ledger!WholeMoves /\ Ledger!WholeLines' = Ledger!WholeLines
          /\ Ledger!WholePartials' = Ledger!WholePartials
          /\ \A s, S : Ledger!RowsOf(s, S)' = Ledger!RowsOf(s, S)
          /\ Ledger!Keys(request, Ledger!Whole)' = Ledger!Keys(request, Ledger!Whole)
      BY <2>1, <2>3, ReaderKeeps
    <2>5. Ledger!RowsInv'
      BY <2>1, <2>2, <2>4, RowsInvIs, RowsInvNext
    <2>6. Ledger!ShownInv'
      BY <2>1, <2>2, <2>4, Zenon DEF Ledger!ShownInv
    <2> QED
      BY <2>4, <2>5, <2>6 DEF Ledger!PagesInv
  <1> QED
    BY <1>1, <1>2, <1>3, <1>4, <1>5, <1>6, <1>7 DEF Ledger!Next

LEMMA LedgerSound == Ledger!PagesInv => Ledger!PagesCover
  <1> SUFFICES ASSUME Ledger!PagesInv, stage = "done", Ledger!Cardinality(session) = 1
               PROVE  shown = Ledger!Keys(request, rows)
    BY DEF Ledger!PagesCover
  <1>1. Ledger!LedgerTypeOK /\ Ledger!RowsInv /\ Ledger!ShownInv /\ Ledger!Moment \in session
    BY DEF Ledger!PagesInv, Ledger!LedgerTypeOK
  <1>2. Ledger!Quiet
    <2>1. IsFiniteSet(session) /\ Cardinality(session) = 1
      BY <1>1, LedgerFiniteSets DEF Ledger!LedgerTypeOK
    <2>2. PICK x : session = {x}
      BY <2>1, FS_Singleton
    <2> QED
      BY <1>1, <2>2 DEF Ledger!Quiet
  <1>3. shown = Ledger!Keys(request, Ledger!Whole)
    BY <1>1, <1>2, Zenon DEF Ledger!ShownInv
  <1>4. /\ rows.moves = Ledger!Whole.moves /\ rows.lines = Ledger!Whole.lines
        /\ rows.partials = Ledger!Whole.partials
    BY <1>1, <1>2, RowsInvIs
  <1> QED
    BY <1>1, <1>3, <1>4, KeysOfRows, WholeFinite

----------------------------------------------------------------------------
\* The composition: a behaviour is one of one part.

\* Each part, while it runs, keeps its invariant.
ReadsInv ==
    /\ part = "ledger" => Ledger!PagesInv
    /\ part = "matching" => MatchInv
    /\ part = "racing" => RaceInv
    /\ part = "rates" => History!HistoryInv

LEMMA ReadsStart == AllInit => ReadsInv
  BY LedgerStarts, MatchingStarts, RacingStarts, HistoryStarts DEF AllInit, ReadsInv

LEMMA ReadsStep == ReadsInv /\ [AllNext]_allVars => ReadsInv'
  <1> SUFFICES ASSUME ReadsInv, [AllNext]_allVars PROVE ReadsInv'
    OBVIOUS
  <1>1. CASE LedgerNext
    <2>1. part = "ledger" /\ part' = part /\ Ledger!Next
      BY <1>1 DEF LedgerNext
    <2> QED
      BY <2>1, LedgerStep DEF ReadsInv
  <1>2. CASE BankNext
    <2>1. /\ part' = part
          /\ \/ part = "matching" /\ Matching!Next
             \/ part = "racing" /\ Racing!Next
      BY <1>2 DEF BankNext
    <2> QED
      BY <2>1, MatchingStep, RacingStep DEF ReadsInv
  <1>3. CASE RatesNext
    <2>1. part = "rates" /\ part' = part /\ History!Next
      BY <1>3 DEF RatesNext
    <2> QED
      BY <2>1, HistoryStep DEF ReadsInv
  <1>4. CASE UNCHANGED allVars
    <2>1. UNCHANGED <<part, callVars, ledgerVars, bankVars, rateVars>>
      BY <1>4 DEF allVars
    <2>2. /\ part' = part /\ UNCHANGED Ledger!vars /\ UNCHANGED Matching!vars
          /\ UNCHANGED Racing!vars /\ UNCHANGED History!vars
      BY <2>1 DEF callVars, ledgerVars, bankVars, rateVars, Ledger!vars, Matching!vars, Racing!vars,
                  History!vars
    <2> QED
      BY <2>2, LedgerStep, MatchingStep, RacingStep, HistoryStep DEF ReadsInv
  <1> QED
    BY <1>1, <1>2, <1>3, <1>4 DEF AllNext

\* A recorded pair was open on both sides at one moment, and the rates of an
\* answer held together: validate_current_state of bank_reconciliation.py and
\* get_currency_rate_history of currency_rates.py.
THEOREM ReadsOfOneMoment == AllSpec => []OfOneMoment
  <1>1. ReadsInv => OfOneMoment
    BY RacingSound DEF ReadsInv, OfOneMoment, History!HistoryInv
  <1> QED
    BY <1>1, ReadsStart, ReadsStep, PTL DEF AllSpec

\* Every exact match of a proposal is the one best counterpart of its line,
\* and no other line's: _decisions and _candidate of bank_reconciliation.py.
THEOREM ReadsMatchesJustified == AllSpec => []MatchesJustified
  <1>1. ReadsInv => MatchesJustified
    BY DEF ReadsInv, MatchInv, MatchesJustified
  <1> QED
    BY <1>1, ReadsStart, ReadsStep, PTL DEF AllSpec

\* The pages a client follows are every row once and in order, when nothing
\* changes between them: _page of reports.py, _cursor of currency_rates.py.
THEOREM ReadsPagesCover == AllSpec => []PagesCover
  <1>1. ReadsInv => PagesCover
    BY LedgerSound DEF ReadsInv, PagesCover, History!HistoryInv
  <1> QED
    BY <1>1, ReadsStart, ReadsStep, PTL DEF AllSpec
=============================================================================
