-------------------------- MODULE CatalogueProofs ---------------------------
(***************************************************************************)
(* Theorems about Catalogue and the ActivityLog it composes, for any forms,*)
(* opening tables and overlapping edits, and about Listing, the public     *)
(* view of the products.                                                   *)
(*                                                                         *)
(* Three inductive invariants: Paged of the listing, Shelved of the prices *)
(* a request is about to write, and Filed of what the entries of the log   *)
(* rest on.                                                                *)
(***************************************************************************)
EXTENDS Listing, Catalogue, Sums

-----------------------------------------------------------------------------
(* The listing: Comes is a strict order of the matching rows, so each has a *)
(* rank, and every ordering the database may return puts it there.          *)

ListingTypeOK == shelf \in Stocks /\ asked \in Questions /\ asked.sort \in Sorts /\ asked.limit \in 1 .. MAX_PAGE_SIZE

LEMMA ComesOrders ==
  ASSUME NEW rows, DOMAIN rows \subseteq Int, \A i \in DOMAIN rows : IsRow(rows[i]), NEW sort \in Sorts
  PROVE  /\ \A i \in DOMAIN rows : ~ Comes(sort, rows, i, i)
         /\ \A i, j \in DOMAIN rows : i # j => Comes(sort, rows, i, j) \/ Comes(sort, rows, j, i)
         /\ \A i, j, k \in DOMAIN rows :
              Comes(sort, rows, i, j) /\ Comes(sort, rows, j, k) => Comes(sort, rows, i, k)
<1> DEFINE A(p, q) == Ahead(sort, p, q)
<1>1. /\ \A i \in DOMAIN rows : i \in Int
      /\ \A i \in DOMAIN rows :
           rows[i].name \in Int /\ rows[i].price \in Int /\ rows[i].stock \in Int /\ rows[i].created \in Int
  BY DEF IsRow, Unknown
<1>2. ASSUME NEW i \in DOMAIN rows, NEW j \in DOMAIN rows, NEW k \in DOMAIN rows
      PROVE  /\ ~ A(rows[i], rows[i])
             /\ A(rows[i], rows[j]) => ~ A(rows[j], rows[i])
             /\ A(rows[i], rows[j]) => A(rows[i], rows[k]) \/ A(rows[k], rows[j])
  <2>1. /\ rows[i].name \in Int /\ rows[j].name \in Int /\ rows[k].name \in Int
        /\ rows[i].price \in Int /\ rows[j].price \in Int /\ rows[k].price \in Int
        /\ rows[i].stock \in Int /\ rows[j].stock \in Int /\ rows[k].stock \in Int
        /\ rows[i].created \in Int /\ rows[j].created \in Int /\ rows[k].created \in Int
    BY <1>1
  <2>2. CASE sort = "name"
    BY <2>1, <2>2 DEF Ahead, Unknown
  <2>3. CASE sort = "name_desc"
    BY <2>1, <2>3 DEF Ahead, Unknown
  <2>4. CASE sort = "price_asc"
    BY <2>1, <2>4 DEF Ahead, Unknown
  <2>5. CASE sort = "price_desc"
    BY <2>1, <2>5 DEF Ahead, Unknown
  <2>6. CASE sort = "stock_asc"
    BY <2>1, <2>6 DEF Ahead, Unknown
  <2>7. CASE sort = "stock_desc"
    BY <2>1, <2>7 DEF Ahead, Unknown
  <2>8. CASE sort = "newest"
    BY <2>1, <2>8 DEF Ahead, Unknown
  <2>9. CASE sort = "oldest"
    BY <2>1, <2>9 DEF Ahead, Unknown
  <2> QED BY <2>2, <2>3, <2>4, <2>5, <2>6, <2>7, <2>8, <2>9 DEF Sorts
<1>3. \A i \in DOMAIN rows : ~ Comes(sort, rows, i, i)
  BY <1>1, <1>2 DEF Comes
<1>4. \A i, j \in DOMAIN rows : i # j => Comes(sort, rows, i, j) \/ Comes(sort, rows, j, i)
  BY <1>1, <1>2 DEF Comes
<1>5. ASSUME NEW i \in DOMAIN rows, NEW j \in DOMAIN rows, NEW k \in DOMAIN rows,
             Comes(sort, rows, i, j), Comes(sort, rows, j, k)
      PROVE  Comes(sort, rows, i, k)
  <2>1. i \in Int /\ j \in Int /\ k \in Int
    BY <1>1
  <2>2. /\ A(rows[i], rows[j]) \/ ~ A(rows[j], rows[i])
        /\ A(rows[j], rows[k]) \/ ~ A(rows[k], rows[j])
    BY <1>2, <1>5 DEF Comes
  <2>3. CASE A(rows[i], rows[k])
    BY <2>3 DEF Comes
  <2>4. CASE ~ A(rows[i], rows[k])
    <3>1. ~ A(rows[i], rows[j]) /\ ~ A(rows[j], rows[k]) /\ ~ A(rows[k], rows[i])
      BY <1>2, <2>2, <2>4
    <3> QED BY <1>5, <2>1, <3>1 DEF Comes
  <2> QED BY <2>3, <2>4
<1> QED BY <1>3, <1>4, <1>5

(* How many matching rows come before it. *)
Before(sort, m, i) == {j \in m : Comes(sort, shelf, j, i)}
Rank(sort, m, i) == Cardinality(Before(sort, m, i))

LEMMA SelectedOK ==
  ASSUME shelf \in Stocks, NEW f
  PROVE  IsFiniteSet(Selected(f)) /\ Selected(f) \subseteq DOMAIN shelf /\ Count(f) \in Nat
<1>1. Selected(f) \in SUBSET DOMAIN shelf /\ IsFiniteSet(DOMAIN shelf)
  BY ListingAssumption DEF Selected
<1> QED BY <1>1, FS_Subset, FS_CardinalityType DEF Count

(* A row's place in any of the orders is its rank. *)
LEMMA PlaceIsRank ==
  ASSUME ListingTypeOK, NEW s \in Orders(shelf, asked)
  PROVE  LET m == Selected(asked.filter)
             sort == EffectiveSort(asked.sort, asked.viewer)
         IN  /\ s \in [1 .. Count(asked.filter) -> m]
             /\ \A i \in m : \E n \in DOMAIN s : s[n] = i
             /\ \A n \in DOMAIN s : Rank(sort, m, s[n]) = n - 1
             /\ IsInjective(s)
<1> DEFINE m == Selected(asked.filter)
           sort == EffectiveSort(asked.sort, asked.viewer)
           N == Count(asked.filter)
<1>1. /\ s \in SetToSeqs(m)
      /\ \A i, j \in DOMAIN s : i < j => ~ Comes(sort, shelf, s[j], s[i])
  BY DEF Orders, Selected
<1>2. s \in [1 .. N -> m] /\ \A i, j \in 1 .. N : i # j => s[i] # s[j]
  BY <1>1 DEF SetToSeqs, Count
<1>3. sort \in Sorts
  BY DEF ListingTypeOK, EffectiveSort, Sorts
<1>4. /\ IsFiniteSet(m) /\ m \subseteq DOMAIN shelf /\ N \in Nat /\ N = Cardinality(m)
  BY SelectedOK DEF ListingTypeOK, Count
<1>5. /\ \A i \in m : ~ Comes(sort, shelf, i, i)
      /\ \A i, j \in m : i # j => Comes(sort, shelf, i, j) \/ Comes(sort, shelf, j, i)
  BY <1>3, <1>4, ComesOrders, ListingAssumption DEF ListingTypeOK
<1> HIDE DEF m, N, sort
<1>6. \A i \in m : \E n \in 1 .. N : s[n] = i
  <2>1. s \in Injection(1 .. N, m)
    BY <1>2 DEF Injection, IsInjective
  <2>2. Cardinality(1 .. N) = Cardinality(m)
    BY <1>4, FS_Interval
  <2>3. s \in Surjection(1 .. N, m)
    BY <1>4, <2>1, <2>2, FS_Injection
  <2> QED BY <2>3 DEF Surjection
<1>7. ASSUME NEW n \in 1 .. N PROVE Rank(sort, m, s[n]) = n - 1
  <2> DEFINE g == [k \in 1 .. n - 1 |-> s[k]]
             B == Before(sort, m, s[n])
  <2>0. n \in Int /\ \A k \in 1 .. n - 1 : k \in 1 .. N /\ k < n
    BY <1>4
  <2>1. \A k \in 1 .. n - 1 : s[k] \in B
    BY <1>1, <1>2, <1>5, <2>0 DEF Before
  <2>2. \A i \in B : \E k \in 1 .. n - 1 : s[k] = i
    <3> SUFFICES ASSUME NEW i \in B PROVE \E k \in 1 .. n - 1 : s[k] = i
      OBVIOUS
    <3>1. i \in m /\ Comes(sort, shelf, i, s[n])
      BY DEF Before
    <3>2. PICK k \in 1 .. N : s[k] = i
      BY <1>6, <3>1
    <3>3. ~ (n < k) /\ k # n
      BY <1>1, <1>2, <1>5, <3>1, <3>2
    <3>4. k \in 1 .. n - 1
      BY <1>4, <3>2, <3>3
    <3> QED BY <3>2, <3>4
  <2>3. g \in Bijection(1 .. n - 1, B)
    <3>1. g \in [1 .. n - 1 -> B]
      BY <2>1
    <3>2. \A a, b \in 1 .. n - 1 : g[a] = g[b] => a = b
      BY <1>2, <2>0
    <3>3. \A i \in B : \E k \in 1 .. n - 1 : g[k] = i
      BY <2>2
    <3> HIDE DEF g, B
    <3> QED BY <3>1, <3>2, <3>3 DEF Bijection, Injection, Surjection, IsInjective
  <2>4. IsFiniteSet(1 .. n - 1) /\ Cardinality(1 .. n - 1) = n - 1
    BY <2>0, FS_Interval
  <2> HIDE DEF g, B
  <2>5. Cardinality(B) = Cardinality(1 .. n - 1)
    BY <2>3, <2>4, FS_Bijection DEF ExistsBijection
  <2> QED BY <2>4, <2>5 DEF Rank, B
<1>8. IsInjective(s)
  BY <1>2 DEF IsInjective
<1> QED BY <1>2, <1>6, <1>7, <1>8 DEF m, N, sort

TheRows == Selected(asked.filter)
TheSort == EffectiveSort(asked.sort, asked.viewer)

(* What is on the pages so far are the rows ranked before the offset.       *)
Paged ==
  /\ ListingTypeOK /\ skip \in Nat
  /\ shown \in Seq(TheRows) /\ IsInjective(shown)
  /\ ToSet(shown) = {i \in TheRows : Rank(TheSort, TheRows, i) < skip}

LEMMA RankOK ==
  ASSUME ListingTypeOK, NEW i \in TheRows
  PROVE  Rank(TheSort, TheRows, i) \in Nat /\ Rank(TheSort, TheRows, i) < Count(asked.filter)
<1> DEFINE B == Before(TheSort, TheRows, i)
<1>1. /\ IsFiniteSet(TheRows) /\ TheRows \subseteq DOMAIN shelf
      /\ Count(asked.filter) = Cardinality(TheRows) /\ TheSort \in Sorts
  BY SelectedOK DEF ListingTypeOK, TheRows, TheSort, Count, EffectiveSort, Sorts
<1>2. B \in SUBSET TheRows /\ i \notin B
  BY <1>1, ComesOrders, ListingAssumption DEF ListingTypeOK, Before
<1> HIDE DEF B
<1>3. IsFiniteSet(B) /\ Cardinality(B) <= Cardinality(TheRows) /\ Cardinality(B) # Cardinality(TheRows)
  BY <1>1, <1>2, FS_Subset
<1>4. Cardinality(B) \in Nat /\ Cardinality(TheRows) \in Nat
  BY <1>1, <1>3, FS_CardinalityType
<1> QED BY <1>1, <1>3, <1>4 DEF Rank, B

LEMMA ListingInitOK == ListingInit => Paged
<1> SUFFICES ASSUME ListingInit PROVE Paged
  OBVIOUS
<1>1. ListingTypeOK /\ skip = 0 /\ shown = <<>>
  BY DEF ListingInit, ListingTypeOK
<1>2. \A i \in TheRows : ~ (Rank(TheSort, TheRows, i) < skip)
  BY <1>1, RankOK
<1> QED BY <1>1, <1>2 DEF Paged, IsInjective, ToSet

LEMMA Appended ==
  ASSUME NEW S, NEW s \in Seq(S), NEW t \in Seq(S)
  PROVE  /\ s \o t \in Seq(S) /\ Len(s \o t) = Len(s) + Len(t) /\ Len(s) \in Nat
         /\ DOMAIN (s \o t) = 1 .. Len(s) + Len(t)
         /\ \A n \in 1 .. Len(s) : (s \o t)[n] = s[n]
         /\ \A n \in 1 .. Len(t) : (s \o t)[Len(s) + n] = t[n]
OBVIOUS

LEMMA PageOK == ASSUME Paged, ListProducts PROVE Paged'
<1> DEFINE N == Count(asked.filter)
           R(i) == Rank(TheSort, TheRows, i)
<1>1. PICK s \in Orders(shelf, asked) :
        shown' = shown \o SubSeq(s, skip + 1, Min({skip + asked.limit, Len(s)}))
  BY DEF ListProducts
<1>2. skip < N /\ skip' = skip + asked.limit /\ UNCHANGED <<shelf, asked>>
  BY DEF ListProducts
<1>3. /\ ListingTypeOK /\ skip \in Nat /\ asked.limit \in Nat /\ asked.limit > 0
      /\ shown \in Seq(TheRows) /\ IsInjective(shown)
      /\ ToSet(shown) = {i \in TheRows : R(i) < skip}
      /\ N \in Nat
  <2>1. asked.limit \in 1 .. 500 /\ shelf \in Stocks
    BY DEF Paged, ListingTypeOK, MAX_PAGE_SIZE
  <2>2. N \in Nat
    BY <2>1, SelectedOK
  <2>3. ToSet(shown) = {i \in TheRows : R(i) < skip}
    BY DEF Paged
  <2>4. skip \in Nat /\ ListingTypeOK /\ shown \in Seq(TheRows) /\ IsInjective(shown)
    BY DEF Paged
  <2>5. asked.limit \in Nat /\ asked.limit > 0
    BY <2>1
  <2> QED BY ONLY <2>2, <2>3, <2>4, <2>5, Zenon
<1>4. /\ s \in [1 .. N -> TheRows] /\ \A i \in TheRows : \E n \in 1 .. N : s[n] = i
      /\ \A n \in 1 .. N : R(s[n]) = n - 1
      /\ IsInjective(s)
  BY <1>3, PlaceIsRank DEF TheRows, TheSort
<1> DEFINE last == Min({skip + asked.limit, Len(s)})
           page == SubSeq(s, skip + 1, last)
<1>5. \A i \in TheRows : R(i) \in Nat /\ R(i) < N
  BY <1>3, RankOK
<1> HIDE DEF N, R
<1>6. s \in Seq(TheRows) /\ Len(s) = N /\ DOMAIN s = 1 .. N
  BY <1>3, <1>4
<1>7. last = IF skip + asked.limit <= N THEN skip + asked.limit ELSE N
  BY <1>3, <1>6, MinOfTwo
<1> HIDE DEF last
<1>8. /\ last \in Nat /\ skip < last /\ last <= N /\ last <= skip + asked.limit
      /\ last = skip + asked.limit \/ last = N
  BY <1>2, <1>3, <1>7
<1>9. /\ page \in Seq(TheRows) /\ Len(page) = last - skip
      /\ \A n \in 1 .. last - skip : page[n] = s[skip + n] /\ skip + n \in 1 .. N
  BY <1>3, <1>4, <1>6, <1>8
<1>10. /\ \A n \in 1 .. last - skip : page[n] \in TheRows /\ R(page[n]) = skip + n - 1
       /\ \A n \in 1 .. Len(shown) : shown[n] \in TheRows /\ R(shown[n]) < skip
  <2>1. ASSUME NEW n \in 1 .. last - skip PROVE page[n] \in TheRows /\ R(page[n]) = skip + n - 1
    <3>1. page[n] = s[skip + n] /\ skip + n \in 1 .. N
      BY <1>9
    <3> HIDE DEF page
    <3>2. s[skip + n] \in TheRows /\ R(s[skip + n]) = skip + n - 1
      <4> DEFINE c == skip + n
      <4>1. c \in 1 .. N
        BY <3>1
      <4> HIDE DEF c
      <4>2. s[c] \in TheRows /\ R(s[c]) = c - 1
        BY <1>4, <4>1
      <4>3. c - 1 = skip + n - 1
        BY <1>3, <1>8 DEF c
      <4> QED BY <4>2, <4>3 DEF c
    <3> QED BY ONLY <3>1, <3>2
  <2>2. ASSUME NEW n \in 1 .. Len(shown) PROVE shown[n] \in TheRows /\ R(shown[n]) < skip
    <3>1. shown[n] \in ToSet(shown)
      BY <1>3 DEF ToSet
    <3> QED BY <1>3, <3>1
  <2> QED BY <2>1, <2>2
<1> HIDE DEF page
<1>11. shown' = shown \o page
  BY <1>1 DEF page, last
<1>12. /\ shown' \in Seq(TheRows) /\ Len(shown') = Len(shown) + (last - skip)
       /\ DOMAIN shown' = 1 .. Len(shown) + (last - skip) /\ Len(shown) \in Nat
       /\ \A n \in 1 .. Len(shown) : shown'[n] = shown[n]
       /\ \A n \in 1 .. last - skip : shown'[Len(shown) + n] = page[n]
  <2>1. page \in Seq(TheRows) /\ shown \in Seq(TheRows)
    BY <1>3, <1>9
  <2>2. /\ shown' \in Seq(TheRows) /\ Len(shown') = Len(shown) + Len(page) /\ Len(shown) \in Nat
        /\ DOMAIN shown' = 1 .. Len(shown) + Len(page)
        /\ \A n \in 1 .. Len(shown) : shown'[n] = shown[n]
        /\ \A n \in 1 .. Len(page) : shown'[Len(shown) + n] = page[n]
    BY ONLY <1>11, <2>1, Appended
  <2> QED BY ONLY <1>9, <2>2
<1>13. ASSUME NEW a \in DOMAIN shown', NEW b \in DOMAIN shown', shown'[a] = shown'[b]
       PROVE  a = b
  <2>0. /\ a \in 1 .. Len(shown) \/ a - Len(shown) \in 1 .. last - skip
        /\ b \in 1 .. Len(shown) \/ b - Len(shown) \in 1 .. last - skip
        /\ a \in Int /\ b \in Int /\ Len(shown) \in Nat
    <3>1. \A l \in Nat, w \in Int : \A c \in 1 .. l + w : c \in Int /\ (c \in 1 .. l \/ c - l \in 1 .. w)
      OBVIOUS
    <3>2. Len(shown) \in Nat /\ last - skip \in Int
      <4>1. last \in Int /\ skip \in Int
        BY <1>3, <1>8
      <4> QED BY ONLY <1>12, <4>1
    <3>3. a \in 1 .. Len(shown) + (last - skip) /\ b \in 1 .. Len(shown) + (last - skip)
      BY ONLY <1>12, <1>13
    <3> HIDE DEF last
    <3> QED BY ONLY <3>1, <3>2, <3>3
  <2>1. CASE a \in 1 .. Len(shown) /\ b \in 1 .. Len(shown)
    BY <1>3, <1>12, <1>13, <2>1 DEF IsInjective
  <2>2. CASE a - Len(shown) \in 1 .. last - skip /\ b - Len(shown) \in 1 .. last - skip
    <3> DEFINE c == a - Len(shown)
               d == b - Len(shown)
    <3>1. a = Len(shown) + c /\ b = Len(shown) + d
      BY <2>0
    <3> HIDE DEF c, d
    <3>2. c \in 1 .. last - skip /\ d \in 1 .. last - skip
      BY <2>2 DEF c, d
    <3>3. page[c] = page[d]
      BY <1>12, <1>13, <3>1, <3>2
    <3>4. skip + c - 1 = skip + d - 1
      BY <1>10, <3>2, <3>3
    <3> QED BY <1>3, <3>1, <3>2, <3>4
  <2>3. ASSUME NEW n \in 1 .. Len(shown), NEW k \in 1 .. last - skip
        PROVE  shown'[n] # shown'[Len(shown) + k]
    <3>1. R(shown[n]) < skip /\ R(page[k]) = skip + k - 1 /\ R(shown[n]) \in Nat
      BY <1>5, <1>10
    <3>2. shown[n] # page[k]
      BY <1>3, <3>1
    <3> QED BY <1>12, <3>2
  <2>4. CASE a \in 1 .. Len(shown) /\ b - Len(shown) \in 1 .. last - skip
    BY <1>13, <2>0, <2>3, <2>4
  <2>5. CASE b \in 1 .. Len(shown) /\ a - Len(shown) \in 1 .. last - skip
    BY <1>13, <2>0, <2>3, <2>5
  <2> QED BY <2>0, <2>1, <2>2, <2>4, <2>5
<1>14. ToSet(shown') = {i \in TheRows : R(i) < skip'}
  <2>1. ASSUME NEW a \in DOMAIN shown' PROVE shown'[a] \in TheRows /\ R(shown'[a]) < skip'
    <3>1. a \in 1 .. Len(shown) \/ \E n \in 1 .. last - skip : a = Len(shown) + n
      <4>1. /\ a \in 1 .. Len(shown) \/ a - Len(shown) \in 1 .. last - skip
            /\ a = Len(shown) + (a - Len(shown))
        BY <1>3, <1>8, <1>12
      <4> QED BY <4>1
    <3>2. CASE a \in 1 .. Len(shown)
      BY <1>2, <1>3, <1>5, <1>10, <1>12, <3>2
    <3>3. ASSUME NEW n \in 1 .. last - skip, a = Len(shown) + n
          PROVE  shown'[a] \in TheRows /\ R(shown'[a]) < skip'
      <4>1. shown'[a] = page[n] /\ R(page[n]) = skip + n - 1 /\ page[n] \in TheRows
        BY <1>10, <1>12, <3>3
      <4>2. skip + n - 1 < skip + asked.limit
        BY <1>3, <1>8
      <4> QED BY <1>2, <4>1, <4>2
    <3> QED BY <3>1, <3>2, <3>3
  <2>2. ASSUME NEW i \in TheRows, R(i) < skip'
        PROVE  \E a \in DOMAIN shown' : shown'[a] = i
    <3>1. CASE R(i) < skip
      <4>1. PICK n \in 1 .. Len(shown) : shown[n] = i
        BY <1>3, <3>1 DEF ToSet
      <4>2. n \in DOMAIN shown' /\ shown'[n] = i
        BY <1>3, <1>8, <1>12, <4>1
      <4> QED BY <4>2
    <3>2. CASE ~ (R(i) < skip)
      <4>1. PICK k \in 1 .. N : s[k] = i
        BY <1>4
      <4>2. R(i) = k - 1 /\ k \in Int
        BY <1>4, <4>1
      <4>3. k - skip \in 1 .. last - skip /\ skip + (k - skip) = k
        BY <1>2, <1>3, <1>8, <2>2, <3>2, <4>1, <4>2
      <4>4. page[k - skip] = i
        BY <1>9, <4>1, <4>3
      <4>5. /\ shown'[Len(shown) + (k - skip)] = i
            /\ Len(shown) + (k - skip) \in DOMAIN shown'
        <5> DEFINE n == k - skip
        <5>1. n \in 1 .. last - skip /\ page[n] = i
          BY <4>3, <4>4
        <5>2. n \in Int /\ 1 <= n /\ n <= last - skip
          BY <1>3, <1>8, <5>1
        <5> HIDE DEF n
        <5>3. shown'[Len(shown) + n] = i /\ Len(shown) + n \in 1 .. Len(shown) + (last - skip)
          BY <1>3, <1>8, <1>12, <5>1, <5>2
        <5> QED BY <1>12, <5>3 DEF n
      <4> QED BY <4>5
    <3> QED BY <3>1, <3>2
  <2> QED BY <2>1, <2>2 DEF ToSet
<1>15. TheRows' = TheRows /\ TheSort' = TheSort /\ \A i : Rank(TheSort, TheRows, i)' = R(i)
  BY <1>2 DEF TheRows, TheSort, Selected, Rank, Before, R
<1>16. ListingTypeOK' /\ skip' \in Nat
  BY <1>2, <1>3 DEF ListingTypeOK
<1> QED BY <1>12, <1>13, <1>14, <1>15, <1>16 DEF Paged, IsInjective

LEMMA AlwaysPaged == ListingSpec => []Paged
<1>1. Paged /\ UNCHANGED listingVars => Paged'
  BY DEF Paged, listingVars, ListingTypeOK, TheRows, TheSort, Selected, Rank, Before
<1> QED BY <1>1, ListingInitOK, PageOK, PTL DEF ListingSpec

(* For every catalogue, question, sort and page size: the pages show every  *)
(* matching product once, however the database orders each of its answers.  *)
THEOREM PagesAlwaysPartition == ListingSpec => []PagesPartition
<1>1. Paged => PagesPartition
  <2> SUFFICES ASSUME Paged PROVE PagesPartition
    OBVIOUS
  <2>1. ASSUME skip >= Count(asked.filter) PROVE ToSet(shown) = TheRows
    <3>1. Count(asked.filter) \in Nat /\ skip \in Nat
      BY SelectedOK DEF Paged, ListingTypeOK
    <3>2. \A i \in TheRows : Rank(TheSort, TheRows, i) < skip
      BY <2>1, <3>1, RankOK DEF Paged
    <3> QED BY <3>2 DEF Paged
  <2> QED BY <2>1 DEF Paged, PagesPartition, TheRows
<1> QED BY <1>1, AlwaysPaged, PTL

-----------------------------------------------------------------------------
(* Facets.                                                                 *)

LEMMA BucketsOK ==
  ASSUME shelf \in Stocks, NEW column, NEW f, NEW g, NEW v, v # Uncategorised,
         Selected(g) = {i \in Selected(f) : shelf[i][column] = v}
  PROVE  Promised(Buckets(column, f), v) = {Count(g)} \ {0}
<1> DEFINE values == {shelf[i][column] : i \in Selected(f)} \ {Uncategorised}
           number(u) == Cardinality({i \in Selected(f) : shelf[i][column] = u})
<1>1. Buckets(column, f) = {[id |-> u, count |-> number(u)] : u \in values}
  BY DEF Buckets
<1>2. number(v) = Count(g) /\ IsFiniteSet(Selected(g))
  BY SelectedOK DEF Count
<1>3. v \in values <=> Selected(g) # {}
  OBVIOUS
<1>4. Count(g) = 0 <=> Selected(g) = {}
  BY <1>2, FS_EmptySet DEF Count
<1> HIDE DEF values, number
<1>5. \A b \in Buckets(column, f) : b.id = v => b.count = number(v) /\ v \in values
  <2> SUFFICES ASSUME NEW b \in Buckets(column, f), b.id = v
               PROVE  b.count = number(v) /\ v \in values
    OBVIOUS
  <2>1. PICK u \in values : b = [id |-> u, count |-> number(u)]
    BY <1>1
  <2> QED BY <2>1
<1>6. v \in values => \E b \in Buckets(column, f) : b.id = v /\ b.count = number(v)
  <2> SUFFICES ASSUME v \in values
               PROVE  \E b \in Buckets(column, f) : b.id = v /\ b.count = number(v)
    OBVIOUS
  <2> DEFINE b == [id |-> v, count |-> number(v)]
  <2>1. b \in Buckets(column, f) /\ b.id = v /\ b.count = number(v)
    BY <1>1
  <2> HIDE DEF b
  <2> QED BY <2>1
<1> QED BY <1>2, <1>3, <1>4, <1>5, <1>6 DEF Promised

(* For every catalogue and question: the figure beside a category or brand  *)
(* is what a click on it yields, and one is shown only if that is not zero. *)
THEOREM FacetsAlwaysPromiseTruly == ListingSpec => []FacetsPromiseWhatAClickYields
<1>1. Paged => FacetsPromiseWhatAClickYields
  <2> SUFFICES ASSUME Paged, NEW i \in DOMAIN shelf
               PROVE  LET f == asked.filter
                      IN  /\ shelf[i].category # Uncategorised =>
                               Promised(Facets(f).categories, shelf[i].category)
                                 = {Count([f EXCEPT !.categories = {shelf[i].category}])} \ {0}
                          /\ Promised(Facets(f).brands, shelf[i].brand)
                                 = {Count([f EXCEPT !.brand = shelf[i].brand])} \ {0}
    BY DEF FacetsPromiseWhatAClickYields
  <2> DEFINE f     == asked.filter
             wide  == [f EXCEPT !.categories = {}]
             one   == [f EXCEPT !.categories = {shelf[i].category}]
             every == [f EXCEPT !.brand = All]
             only  == [f EXCEPT !.brand = shelf[i].brand]
  <2>1. /\ IsFilter(f) /\ shelf \in Stocks /\ \A j \in DOMAIN shelf : IsRow(shelf[j])
    BY ListingAssumption DEF Paged, ListingTypeOK
  <2>2. \A j \in DOMAIN shelf :
          Matches(shelf[j], one) <=> Matches(shelf[j], wide) /\ shelf[j]["category"] = shelf[i].category
    BY <2>1 DEF Matches, IsFilter
  <2>3. \A j \in DOMAIN shelf :
          Matches(shelf[j], only) <=> Matches(shelf[j], every) /\ shelf[j]["brand"] = shelf[i].brand
    BY <2>1 DEF Matches, IsFilter, IsRow
  <2> HIDE DEF wide, one, every, only
  <2>4. /\ Selected(one) = {j \in Selected(wide) : shelf[j]["category"] = shelf[i].category}
        /\ Selected(only) = {j \in Selected(every) : shelf[j]["brand"] = shelf[i].brand}
    BY <2>2, <2>3 DEF Selected
  <2>5. shelf[i].brand # Uncategorised
    BY <2>1 DEF IsRow
  <2>6. Facets(f).categories = Buckets("category", wide) /\ Facets(f).brands = Buckets("brand", every)
    BY DEF Facets, wide, every
  <2>7. shelf[i].category # Uncategorised =>
          Promised(Buckets("category", wide), shelf[i].category) = {Count(one)} \ {0}
    <3> DEFINE c == shelf[i].category
    <3>1. Selected(one) = {j \in Selected(wide) : shelf[j]["category"] = c}
      BY <2>4
    <3> HIDE DEF c
    <3>2. c # Uncategorised =>
            Promised(Buckets("category", wide), c) = {Count(one)} \ {0}
      BY <2>1, <3>1, BucketsOK
    <3> QED BY <3>2 DEF c
  <2>8. Promised(Buckets("brand", every), shelf[i].brand) = {Count(only)} \ {0}
    <3> DEFINE c == shelf[i].brand
    <3>1. Selected(only) = {j \in Selected(every) : shelf[j]["brand"] = c} /\ c # Uncategorised
      BY <2>4, <2>5
    <3> HIDE DEF c
    <3>2. Promised(Buckets("brand", every), c) = {Count(only)} \ {0}
      BY <2>1, <3>1, BucketsOK
    <3> QED BY <3>2 DEF c
  <2> QED BY <2>6, <2>7, <2>8 DEF one, only
<1> QED BY <1>1, AlwaysPaged, PTL

-----------------------------------------------------------------------------
(* Masked prices.                                                          *)

(* For every catalogue, question and other prices: a viewer whose prices    *)
(* are masked gets the same answers in the same order.                      *)
THEOREM MaskedAlwaysLearnNothing == ListingSpec => []MaskedLearnNothing
<1>1. Paged => MaskedLearnNothing
  <2> SUFFICES ASSUME Paged, ~ CanViewPrice(asked.viewer), NEW prices \in [DOMAIN shelf -> Figures]
               PROVE  LET repriced == [i \in DOMAIN shelf |->
                            [shelf[i] EXCEPT !.price = prices[i], !.list_price = prices[i], !.discount = 0]]
                      IN  Listings(repriced, asked) = Listings(shelf, asked)
    BY DEF MaskedLearnNothing
  <2> DEFINE other == [i \in DOMAIN shelf |->
                [shelf[i] EXCEPT !.price = prices[i], !.list_price = prices[i], !.discount = 0]]
             sort == EffectiveSort(asked.sort, asked.viewer)
             v == asked.viewer
             mask(r) == [r EXCEPT !.price = "XXXX", !.list_price = "null", !.discount = "null"]
  <2>1. \A i \in DOMAIN shelf : IsRow(shelf[i])
    BY ListingAssumption DEF Paged, ListingTypeOK
  <2>2. sort \in Sorts \ PriceSorts
    BY DEF Paged, ListingTypeOK, EffectiveSort, Sorts, PriceSorts
  <2>3. DOMAIN other = DOMAIN shelf
    OBVIOUS
  <2>4. ASSUME NEW i \in DOMAIN shelf
        PROVE  /\ \A c \in {"name", "words", "stock", "brand", "category", "section",
                            "is_purchasable", "delisted", "created"} : other[i][c] = shelf[i][c]
               /\ mask(other[i]) = mask(shelf[i])
    BY <2>1 DEF IsRow
  <2>5. ASSUME NEW i \in DOMAIN shelf
        PROVE  Matches(other[i], asked.filter) = Matches(shelf[i], asked.filter)
    <3>1. /\ other[i].is_purchasable = shelf[i].is_purchasable /\ other[i].delisted = shelf[i].delisted
          /\ other[i].section = shelf[i].section /\ other[i].brand = shelf[i].brand
          /\ other[i].category = shelf[i].category /\ other[i].words = shelf[i].words
      BY <2>4
    <3> HIDE DEF other
    <3> QED BY ONLY <3>1 DEF Matches
  <2>6. \A i, j \in DOMAIN shelf : Ahead(sort, other[i], other[j]) = Ahead(sort, shelf[i], shelf[j])
    <3> SUFFICES ASSUME NEW i \in DOMAIN shelf, NEW j \in DOMAIN shelf
                 PROVE  Ahead(sort, other[i], other[j]) = Ahead(sort, shelf[i], shelf[j])
      OBVIOUS
    <3> HIDE DEF other, sort, mask
    <3>1. /\ other[i].name = shelf[i].name /\ other[j].name = shelf[j].name
          /\ other[i].stock = shelf[i].stock /\ other[j].stock = shelf[j].stock
          /\ other[i].created = shelf[i].created /\ other[j].created = shelf[j].created
      BY <2>4
    <3>2. sort \in {"name", "name_desc", "stock_asc", "stock_desc", "newest", "oldest"}
      BY <2>2 DEF Sorts, PriceSorts
    <3>3. CASE sort = "name"
      BY <3>1, <3>3 DEF Ahead
    <3>4. CASE sort = "name_desc"
      BY <3>1, <3>4 DEF Ahead
    <3>5. CASE sort = "stock_asc"
      BY <3>1, <3>5 DEF Ahead
    <3>6. CASE sort = "stock_desc"
      BY <3>1, <3>6 DEF Ahead
    <3>7. CASE sort = "newest"
      BY <3>1, <3>7 DEF Ahead
    <3>8. CASE sort = "oldest"
      BY <3>1, <3>8 DEF Ahead
    <3> QED BY <3>2, <3>3, <3>4, <3>5, <3>6, <3>7, <3>8
  <2>7. \A i \in DOMAIN shelf : Serialize(i, other[i], v) = Serialize(i, shelf[i], v)
    BY <2>4 DEF Serialize
  <2> HIDE DEF other, sort
  <2>8. \A i, j \in DOMAIN shelf : Comes(sort, other, i, j) = Comes(sort, shelf, i, j)
    BY <2>6 DEF Comes
  <2> DEFINE m == {i \in DOMAIN shelf : Matches(shelf[i], asked.filter)}
             n == {i \in DOMAIN other : Matches(other[i], asked.filter)}
             places(rows) == {s \in SetToSeqs(m) :
                                \A i, j \in DOMAIN s : i < j => ~ Comes(sort, rows, s[j], s[i])}
  <2>9. m = n
    BY <2>3, <2>5
  <2>10. /\ Orders(shelf, asked) = places(shelf)
         /\ Orders(other, asked) = places(other)
    BY <2>9 DEF Orders, sort
  <2>11. \A s \in SetToSeqs(m) : \A i \in DOMAIN s : s[i] \in DOMAIN shelf
    BY DEF SetToSeqs
  <2>12. places(other) = places(shelf)
    BY <2>8, <2>11
  <2>13. ASSUME NEW s \in places(shelf)
         PROVE  [i \in DOMAIN s |-> Serialize(s[i], other[s[i]], v)]
                  = [i \in DOMAIN s |-> Serialize(s[i], shelf[s[i]], v)]
    BY <2>7, <2>11
  <2>14. Listings(other, asked) = Listings(shelf, asked)
    <3>1. /\ Listings(other, asked) =
               {[i \in DOMAIN s |-> Serialize(s[i], other[s[i]], v)] : s \in places(shelf)}
          /\ Listings(shelf, asked) =
               {[i \in DOMAIN s |-> Serialize(s[i], shelf[s[i]], v)] : s \in places(shelf)}
      BY <2>10, <2>12 DEF Listings
    <3> HIDE DEF places
    <3> QED BY <2>13, <3>1
  <2> QED BY <2>14 DEF other
<1> QED BY <1>1, AlwaysPaged, PTL

-----------------------------------------------------------------------------
(* The catalogue: what a request will write to prices covers them with the  *)
(* list price, over the row it has read; Crosses tells when the row is not  *)
(* what it read any more.                                                   *)

Goods(k) == Table(k) = "products"

Repriced(u) == {k \in DOMAIN u.dirty : Goods(k) /\ DOMAIN u.dirty[k] \cap PriceColumns # {}}

Fair(u) ==
  /\ \A k \in DOMAIN u.new : Goods(k) => Covered(u.new[k])
  /\ \A k \in Repriced(u) :
       k \in DOMAIN u.loaded /\ Priced(u.loaded[k]) /\ Covered(u.dirty[k] ++ u.loaded[k])

(* Work that rewrites no price.                                             *)
Plain(u) == Fair(u) /\ Repriced(u) = {}

Planned(flushes) ==
  flushes # <<>> =>
    /\ Len(flushes) \in {1, 2} /\ DOMAIN flushes = 1 .. Len(flushes)
    /\ \A i \in DOMAIN flushes : Fair(flushes[i]) /\ (Len(flushes) = 2 => Plain(flushes[i]))

Labelled(d, exempt) ==
  \A k \in DOMAIN d : Goods(k) =>
    Priced(d[k]) /\ (k \notin exempt => d[k].list_price >= d[k].price)

(* The inductive invariant. *)
Shelved ==
  /\ Labelled(db, crossed)
  /\ DOMAIN working = Editors
  /\ \A r \in Editors : Planned(working[r])

-----------------------------------------------------------------------------
(* Flushes and commits.                                                     *)

LEMMA WrittenOK ==
  ASSUME NEW d, NEW u, NEW exempt, Labelled(d, exempt), Fair(u),
         \A k \in Repriced(u) \cap DOMAIN d :
           k \in exempt \/ \A f \in PriceColumns : u.loaded[k][f] = d[k][f]
  PROVE  Labelled(Written(d, u), exempt)
<1> SUFFICES ASSUME NEW k \in DOMAIN Written(d, u), Goods(k)
             PROVE  /\ Priced(Written(d, u)[k])
                    /\ k \notin exempt => Written(d, u)[k].list_price >= Written(d, u)[k].price
  BY DEF Labelled
<1>1. CASE k \in DOMAIN u.new
  BY <1>1 DEF Written, ++, Fair, Covered
<1>2. CASE k \notin DOMAIN u.new /\ k \notin DOMAIN u.dirty
  BY <1>2 DEF Written, ++, Labelled
<1>3. CASE k \notin DOMAIN u.new /\ k \in DOMAIN u.dirty
  <2> DEFINE new == Written(d, u)[k]
  <2>1. k \in DOMAIN d /\ new = [f \in ChangedColumns(u, k) |-> u.dirty[k][f]] ++ d[k] /\ Priced(d[k])
    BY <1>3 DEF Written, ++, Labelled
  <2>2. /\ DOMAIN d[k] \subseteq DOMAIN new
        /\ \A f \in PriceColumns :
             new[f] = IF f \in ChangedColumns(u, k) THEN u.dirty[k][f] ELSE d[k][f]
    BY <2>1 DEF ++, Priced
  <2> HIDE DEF new
  <2>3. CASE k \notin Repriced(u)
    BY <1>3, <2>1, <2>2, <2>3 DEF Repriced, ChangedColumns, PriceColumns, Labelled, Priced, new
  <2>4. CASE k \in Repriced(u)
    <3> DEFINE meant == u.dirty[k] ++ u.loaded[k]
    <3>1. Priced(u.loaded[k]) /\ Covered(meant)
      BY <2>4 DEF Fair
    <3>2. \A f \in PriceColumns : meant[f] = IF f \in DOMAIN u.dirty[k] THEN u.dirty[k][f] ELSE u.loaded[k][f]
      BY <3>1 DEF ++, Priced
    <3> HIDE DEF meant
    <3>3. Priced(new)
      BY <2>1, <2>2, <3>1, <3>2 DEF Priced, Covered, PriceColumns, ChangedColumns
    <3>4. CASE k \in exempt
      BY <3>3, <3>4 DEF new
    <3>5. CASE \A f \in PriceColumns : u.loaded[k][f] = d[k][f]
      <4>1. \A f \in PriceColumns : new[f] = meant[f]
        BY <2>2, <3>2, <3>5 DEF ChangedColumns
      <4> QED BY <3>1, <3>3, <4>1 DEF Covered, PriceColumns, new
    <3> QED BY <2>1, <2>4, <3>4, <3>5
  <2> QED BY <2>3, <2>4
<1> QED BY <1>1, <1>2, <1>3

LEMMA FlushedOK ==
  ASSUME NEW d, NEW u, NEW exempt, Labelled(d, exempt), Fair(u), Flushed(d, u) # None,
         \A k \in Repriced(u) \cap DOMAIN d :
           k \in exempt \/ \A f \in PriceColumns : u.loaded[k][f] = d[k][f]
  PROVE  Labelled(Flushed(d, u), exempt) /\ d # None
<1> DEFINE after == Written(d, u)
           kept == DOMAIN after \ Gone(after, u.deleted \cup u.orphans)
<1>1. d # None /\ Flushed(d, u) = Restrict(after, kept)
  BY DEF Flushed
<1>2. Labelled(after, exempt)
  BY WrittenOK
<1> HIDE DEF after
<1> QED BY <1>1, <1>2 DEF Labelled, Restrict

LEMMA CommitOK ==
  ASSUME Shelved, NEW r \in Editors, CommitWork(r)
  PROVE  Shelved'
<1> DEFINE w == working[r]
           first == Flushed(db, w[1])
<1>1. /\ Planned(w) /\ w # <<>> /\ Labelled(db, crossed)
      /\ db' = Outcome(r) /\ db' # None
      /\ working' = [working EXCEPT ![r] = <<>>]
      /\ crossed' = crossed \cup {k \in In("products") : Crosses(r, k)}
  BY DEF Shelved, CommitWork
<1>2. Labelled(db, crossed')
  BY <1>1 DEF Labelled
<1>3. Labelled(db', crossed')
  <2>1. CASE Len(w) = 1
    <3>1. 1 \in DOMAIN w /\ Fair(w[1]) /\ db' = first
      BY <1>1, <2>1 DEF Planned, Outcome
    <3>2. ASSUME NEW k \in Repriced(w[1]) \cap DOMAIN db
          PROVE  k \in crossed' \/ \A f \in PriceColumns : w[1].loaded[k][f] = db[k][f]
      <4>1. k \in In("products") /\ k \in DOMAIN w[1].dirty /\ DOMAIN w[1].dirty[k] \cap PriceColumns # {}
        BY DEF Repriced, Goods, In
      <4>2. (\E f \in PriceColumns : w[1].loaded[k][f] # db[k][f]) => Crosses(r, k)
        BY <3>1, <4>1 DEF Crosses
      <4> QED BY <1>1, <4>1, <4>2
    <3> QED BY <1>1, <1>2, <3>1, <3>2, FlushedOK
  <2>2. CASE Len(w) = 2
    <3>1. {1, 2} \subseteq DOMAIN w /\ Plain(w[1]) /\ Plain(w[2]) /\ db' = Flushed(first, w[2])
      BY <1>1, <2>2 DEF Planned, Outcome
    <3>2. first # None
      BY <1>1, <3>1 DEF Flushed
    <3>3. Labelled(first, crossed')
      BY <1>2, <3>1, <3>2, FlushedOK DEF Plain
    <3> HIDE DEF first
    <3> QED BY <1>1, <3>1, <3>3, FlushedOK DEF Plain
  <2> QED BY <1>1, <2>1, <2>2 DEF Planned
<1>4. \A s \in Editors : working'[s] = working[s] \/ working'[s] = <<>>
  BY <1>1 DEF Shelved
<1> QED BY <1>1, <1>3, <1>4 DEF Shelved, Planned

LEMMA FailOK == ASSUME Shelved, NEW r \in Editors, WorkFails(r) PROVE Shelved'
<1>1. /\ working' = [working EXCEPT ![r] = <<>>] /\ db' = db /\ crossed' = crossed
  BY DEF WorkFails
<1>2. \A s \in Editors : working'[s] = working[s] \/ working'[s] = <<>>
  BY <1>1 DEF Shelved
<1> QED BY <1>1, <1>2 DEF Shelved, Planned

LEMMA BeginOK ==
  ASSUME Shelved, NEW r \in Editors, NEW flushes, Begin(r, flushes), Planned(flushes)
  PROVE  Shelved'
<1>1. working' = [working EXCEPT ![r] = flushes] /\ db' = db /\ crossed' = crossed
  BY DEF Begin
<1>2. \A s \in Editors : working'[s] = working[s] \/ working'[s] = flushes
  BY <1>1 DEF Shelved
<1> QED BY <1>1, <1>2 DEF Shelved

LEMMA EditOK ==
  ASSUME Shelved, NEW r \in Editors, NEW u, Edit(r, u), Fair(u)
  PROVE  Shelved'
<1> DEFINE flushes == <<u>>
<1>1. Planned(flushes)
  BY DEF Planned
<1>2. Begin(r, flushes)
  BY DEF Edit
<1> HIDE DEF flushes
<1> QED BY <1>1, <1>2, BeginOK

-----------------------------------------------------------------------------
(* Units of work.                                                           *)

LEMMA OnlyOK == ASSUME NEW k, NEW v PROVE DOMAIN Only(k, v) = {k} /\ Only(k, v)[k] = v
BY DEF Only

LEMMA NoWorkPlain == Plain(NoWork)
BY DEF Plain, Fair, Repriced, NoWork

LEMMA AddingOK ==
  ASSUME NEW new, \A k \in DOMAIN new : Goods(k) => Covered(new[k])
  PROVE  Plain(Adding(new))
BY DEF Plain, Fair, Repriced, NoWork, Adding

LEMMA AssigningOK ==
  ASSUME NEW k, NEW columns, Goods(k) => DOMAIN columns \cap PriceColumns = {}
  PROVE  Plain(Assigning(k, columns))
<1> DEFINE u == Assigning(k, columns)
<1>1. u.new = <<>> /\ u.dirty = Only(k, columns)
  BY DEF Assigning, NoWork
<1> HIDE DEF u
<1>2. Repriced(u) = {}
  <2>1. DOMAIN u.dirty = {k} /\ u.dirty[k] = columns
    BY <1>1, OnlyOK
  <2> QED BY <2>1 DEF Repriced
<1>3. Plain(u)
  BY <1>1, <1>2 DEF Plain, Fair
<1> QED BY <1>3 DEF u

LEMMA DeletingOK == ASSUME NEW keys PROVE Plain(Deleting(keys))
BY DEF Plain, Fair, Repriced, NoWork, Deleting

LEMMA BothOK ==
  ASSUME NEW u, NEW v, Fair(u), Plain(v)
  PROVE  /\ Fair(Both(u, v))
         /\ Plain(u) => Plain(Both(u, v))
<1> DEFINE w == Both(u, v)
<1>1. /\ w.new = u.new ++ v.new /\ w.dirty = u.dirty ++ v.dirty /\ w.loaded = u.loaded ++ v.loaded
  BY DEF Both
<1> HIDE DEF w
<1>2. \A k \in DOMAIN w.new : Goods(k) => Covered(w.new[k])
  BY <1>1 DEF Fair, Plain, ++
<1>3. ASSUME NEW k \in Repriced(w)
      PROVE  k \in Repriced(u) /\ w.dirty[k] = u.dirty[k]
  <2>1. CASE k \in DOMAIN u.dirty
    BY <1>1, <1>3, <2>1 DEF Repriced, ++
  <2>2. CASE k \notin DOMAIN u.dirty
    BY <1>1, <1>3, <2>2 DEF Repriced, ++, Plain
  <2> QED BY <2>1, <2>2
<1>4. \A k \in Repriced(w) :
        k \in DOMAIN w.loaded /\ Priced(w.loaded[k]) /\ Covered(w.dirty[k] ++ w.loaded[k])
  <2> SUFFICES ASSUME NEW k \in Repriced(w)
               PROVE  k \in DOMAIN w.loaded /\ Priced(w.loaded[k]) /\ Covered(w.dirty[k] ++ w.loaded[k])
    OBVIOUS
  <2>1. k \in Repriced(u) /\ w.dirty[k] = u.dirty[k]
    BY <1>3
  <2>2. k \in DOMAIN u.loaded /\ Priced(u.loaded[k]) /\ Covered(u.dirty[k] ++ u.loaded[k])
    BY <2>1 DEF Fair
  <2>3. k \in DOMAIN w.loaded /\ w.loaded[k] = u.loaded[k]
    BY <1>1, <2>2 DEF ++
  <2> QED BY <2>1, <2>2, <2>3
<1> QED BY <1>2, <1>3, <1>4 DEF Fair, Plain, w

-----------------------------------------------------------------------------
(* Contents lists and option groups are rows of other tables.               *)

LEMMA FreshOK == ASSUME NEW table, NEW n PROVE Table(Fresh(table, n)) = table
BY DEF Table, Fresh

LEMMA ContentsOK ==
  ASSUME NEW table \in Lists, NEW owner, NEW items
  PROVE  \A k \in DOMAIN Contents(table, owner, items) : ~ Goods(k)
BY FreshOK DEF Contents, Goods, Lists

LEMMA ReplaceOK ==
  ASSUME NEW table \in Lists, NEW owner, NEW items
  PROVE  Plain(ReplaceRows(table, owner, items))
<1> DEFINE u == ReplaceRows(table, owner, items)
<1>1. PICK fewer : u.new = Contents(table, owner, fewer)
  BY DEF ReplaceRows, NoWork
<1>2. DOMAIN u.dirty \subseteq Under(owner, {table})
  BY DEF ReplaceRows, NoWork
<1>3. \A k \in Under(owner, {table}) : ~ Goods(k)
  BY DEF Under, Goods, Lists
<1> HIDE DEF u
<1>4. Plain(u)
  BY <1>1, <1>2, <1>3, ContentsOK DEF Plain, Fair, Repriced
<1> QED BY <1>4 DEF u

LEMMA GroupsOK == ASSUME NEW owner, NEW groups PROVE Plain(Groups(owner, groups))
<1> DEFINE u == Groups(owner, groups)
<1>1. \A k \in DOMAIN u.new : Table(k) \in {"set_option_groups", "set_option_choices"}
  BY FreshOK DEF Groups, Adding, NoWork, ++
<1>2. u.dirty = <<>>
  BY DEF Groups, Adding, NoWork
<1> HIDE DEF u
<1>3. Plain(u)
  BY <1>1, <1>2 DEF Plain, Fair, Repriced, Goods
<1> QED BY <1>3 DEF u

LEMMA BundleOK ==
  ASSUME NEW k, NEW row, Goods(k) => Covered(row), NEW table \in Lists, NEW owner, NEW items
  PROVE  Plain(Adding(Only(k, row) ++ Contents(table, owner, items)))
<1> DEFINE listed == Contents(table, owner, items)
           new == Only(k, row) ++ listed
<1>1. \A j \in DOMAIN listed : ~ Goods(j)
  BY ContentsOK
<1> HIDE DEF listed
<1>2. \A j \in DOMAIN new : Goods(j) => Covered(new[j])
  <2> SUFFICES ASSUME NEW j \in DOMAIN new, Goods(j) PROVE Covered(new[j])
    OBVIOUS
  <2>1. DOMAIN Only(k, row) = {k} /\ Only(k, row)[k] = row
    BY OnlyOK
  <2>2. j = k
    BY <1>1, <2>1 DEF ++
  <2>3. new[k] = row
    BY <2>1 DEF ++
  <2> QED BY <2>2, <2>3
<1> HIDE DEF new
<1>3. Plain(Adding(new))
  BY <1>2, AddingOK
<1> QED BY <1>3 DEF new, listed

LEMMA RowOK ==
  ASSUME NEW table, table # "products", NEW n, NEW row
  PROVE  Plain(Adding(Only(Fresh(table, n), row)))
<1> DEFINE new == Only(Fresh(table, n), row)
<1>1. \A k \in DOMAIN new : Goods(k) => Covered(new[k])
  <2>1. DOMAIN new = {Fresh(table, n)} /\ Table(Fresh(table, n)) = table
    BY OnlyOK, FreshOK
  <2> HIDE DEF new
  <2> QED BY <2>1 DEF Goods
<1> HIDE DEF new
<1>2. Plain(Adding(new))
  BY <1>1, AddingOK
<1> QED BY <1>2 DEF new

-----------------------------------------------------------------------------
(* Prices.                                                                  *)

LEMMA HalfEvenOK ==
  ASSUME NEW n \in Nat, NEW d \in Nat \ {0}, NEW m \in Nat, m * d <= n
  PROVE  HalfEven(n, d) \in Int /\ HalfEven(n, d) >= m
<1>1. n \div d >= m
  OBVIOUS
<1> QED BY <1>1 DEF HalfEven

(* A price before the discount is not below the one after it.               *)
LEMMA DeriveOK ==
  ASSUME NEW price \in Nat, NEW discount \in Nat, NEW type \in {"percent", "cash"}
  PROVE  /\ DeriveListPrice(price, discount, type) \in Int
         /\ DeriveListPrice(price, discount, type) >= price
<1>1. CASE discount = 0 \/ type = "cash" \/ discount >= 10000
  BY <1>1 DEF DeriveListPrice
<1>2. CASE discount > 0 /\ type = "percent" /\ discount < 10000
  <2> DEFINE n == price * 10000
             d == 10000 - discount
  <2>1. DeriveListPrice(price, discount, type) = HalfEven(n, d)
    BY <1>2 DEF DeriveListPrice
  <2>2. n \in Nat /\ d \in Nat \ {0} /\ price * d <= n
    BY <1>2
  <2> HIDE DEF n, d
  <2> QED BY <2>1, <2>2, HalfEvenOK
<1> QED BY <1>1, <1>2

InCents(data) == \A f \in PriceColumns \cap DOMAIN data : data[f] \in Int

LEMMA SyncOK ==
  ASSUME NEW row, Priced(row), NEW data, InCents(data)
  PROVE  \/ DOMAIN SyncPriceFields(row, data) \cap PriceColumns = {}
         \/ Covered(SyncPriceFields(row, data) ++ row)
<1> DEFINE price == Sent(data, "price", row.price)
           sent == Sent(data, "list_price", row.list_price)
           list == Max({sent, price})
           discount == Sent(data, "discount",
             DiscountFromPrices(list, price, Sent(data, "discount_type", row.discount_type)))
           fields == [list_price |-> list, discount |-> discount] ++ data
<1>1. price \in Int /\ sent \in Int
  BY DEF InCents, PriceColumns, Priced, Sent
<1>2. list \in Int /\ list >= price
  <2> HIDE DEF price, sent
  <2> QED BY <1>1, MaxOfTwo
<1>3. CASE DOMAIN data \cap {"price", "list_price", "discount", "discount_type"} = {}
  BY <1>3 DEF SyncPriceFields, PriceColumns
<1>4. CASE DOMAIN data \cap {"price", "list_price", "discount", "discount_type"} # {}
  <2>1. SyncPriceFields(row, data) = fields
    BY <1>4 DEF SyncPriceFields
  <2> HIDE DEF list, discount
  <2>2. /\ "list_price" \in DOMAIN fields /\ fields["list_price"] = list
        /\ "price" \in DOMAIN fields <=> "price" \in DOMAIN data
        /\ "price" \in DOMAIN data => fields["price"] = data["price"]
    BY DEF ++
  <2> HIDE DEF fields
  <2>3. /\ PriceColumns \subseteq DOMAIN (fields ++ row)
        /\ (fields ++ row)["list_price"] = list
        /\ (fields ++ row)["price"] = price
    BY <2>2 DEF ++, Priced, PriceColumns, Sent
  <2> QED BY <1>1, <1>2, <2>1, <2>3 DEF Covered, Priced
<1> QED BY <1>3, <1>4

LEMMA RepricingOK ==
  ASSUME Shelved, NEW p \in In("products"), NEW data, InCents(data)
  PROVE  Fair(Assigning(p, SyncPriceFields(db[p], data)))
<1> DEFINE columns == SyncPriceFields(db[p], data)
           u == Assigning(p, columns)
<1>1. Priced(db[p])
  BY DEF Shelved, Labelled, In, Goods
<1>2. CASE DOMAIN columns \cap PriceColumns = {}
  BY <1>2, AssigningOK DEF Plain
<1>3. CASE Covered(columns ++ db[p])
  <2> HIDE DEF columns
  <2>1. u.new = <<>> /\ u.dirty = Only(p, columns) /\ u.loaded = Only(p, db[p])
    BY DEF Assigning, NoWork
  <2> HIDE DEF u
  <2>2. /\ DOMAIN u.dirty = {p} /\ u.dirty[p] = columns
        /\ DOMAIN u.loaded = {p} /\ u.loaded[p] = db[p]
    BY <2>1, OnlyOK
  <2>3. Fair(u)
    BY <1>1, <1>3, <2>1, <2>2 DEF Fair, Repriced
  <2> QED BY <2>3 DEF u, columns
<1> QED BY <1>1, <1>2, <1>3, SyncOK

-----------------------------------------------------------------------------
(* The handlers.                                                            *)

LEMMA PlainEditOK ==
  ASSUME Shelved, NEW r \in Editors, NEW u, Edit(r, u), Plain(u)
  PROVE  Shelved'
BY EditOK DEF Plain

LEMMA AssignOK ==
  ASSUME Shelved, NEW r \in Editors, NEW k, NEW columns, Edit(r, Assigning(k, columns)),
         Goods(k) => DOMAIN columns \cap PriceColumns = {}
  PROVE  Shelved'
BY PlainEditOK, AssigningOK

LEMMA PictureOK ==
  ASSUME Shelved, NEW r \in Editors, NEW k, NEW column \in {"image", "pdf", "banner", "detail"},
         \/ UploadFile(r, k, column)
         \/ \E folder, suffix : UploadNamedImage(r, k, column, folder, suffix)
  PROVE  Shelved'
<1>1. PICK file : Edit(r, Assigning(k, Only(column, file)))
  BY DEF UploadFile, UploadNamedImage
<1>2. DOMAIN Only(column, file) \cap PriceColumns = {}
  BY OnlyOK DEF PriceColumns
<1> QED BY <1>1, <1>2, AssignOK

LEMMA RemoveOK ==
  ASSUME Shelved, NEW r \in Editors, NEW keys, Edit(r, Deleting(keys))
  PROVE  Shelved'
BY PlainEditOK, DeletingOK

LEMMA UpdateProductOK ==
  ASSUME Shelved, NEW r \in Editors, NEW p \in In("products"), NEW data, InCents(data),
         NEW items, UpdateProduct(r, p, data, items)
  PROVE  Shelved'
<1> DEFINE u == Assigning(p, SyncPriceFields(db[p], data))
           v == IF items = None THEN NoWork ELSE ReplaceRows("product_free_items", p, items)
<1>1. Fair(u)
  BY RepricingOK
<1>2. Plain(v)
  BY NoWorkPlain, ReplaceOK DEF Lists
<1>3. Edit(r, Both(u, v))
  BY DEF UpdateProduct
<1> HIDE DEF u, v
<1> QED BY <1>1, <1>2, <1>3, BothOK, EditOK

LEMMA CreateProductOK ==
  ASSUME Shelved, NEW r \in Editors, NEW data \in ProductForms, NEW items,
         CreateProduct(r, data, items)
  PROVE  Shelved'
<1> DEFINE p == Fresh("products", 1)
           derived == DeriveListPrice(data.price, data.discount, data.discount_type)
           list == Sent(data, "list_price", derived)
           row == [list_price |-> list, image |-> None] ++ data
<1>1. /\ data.price \in Nat /\ "price" \in DOMAIN data
      /\ derived \in Int /\ derived >= data.price
      /\ "list_price" \in DOMAIN data => data.list_price \in Int
  BY FormsAssumption, DeriveOK DEF PriceColumns
<1> HIDE DEF derived
<1>2. /\ Acceptable(data, data)
      /\ Edit(r, Adding(Only(p, row) ++ Contents("product_free_items", p, items)))
  BY DEF CreateProduct, derived
<1>3. list \in Int /\ list >= data.price
  BY <1>1, <1>2 DEF Sent, Acceptable
<1> HIDE DEF list
<1>4. /\ PriceColumns \subseteq DOMAIN row
      /\ row["list_price"] = list /\ row["price"] = data.price
  BY <1>1 DEF ++, PriceColumns
<1>5. Covered(row)
  BY <1>1, <1>3, <1>4 DEF Covered, Priced
<1> HIDE DEF row, p
<1> QED BY <1>2, <1>5, BundleOK, PlainEditOK DEF Lists

LEMMA UpdateSetOK ==
  ASSUME Shelved, NEW r \in Editors, NEW k \in In("sets"), NEW data, NEW items, NEW groups,
         UpdateSet(r, k, data, items, groups)
  PROVE  Shelved'
<1> DEFINE contents == IF items = None THEN NoWork ELSE ReplaceRows("set_items", k, items)
           old == Under(k, {"set_option_groups"})
           removal == [NoWork EXCEPT !.orphans = old, !.loaded = Loaded(old)]
           fields == Assigning(k, data)
           once == <<Both(contents, fields)>>
           twice == <<Both(contents, removal), Both(Groups(k, groups), fields)>>
<1>1. Plain(contents)
  BY NoWorkPlain, ReplaceOK DEF Lists
<1>2. Plain(removal)
  BY DEF NoWork, Plain, Fair, Repriced
<1>3. Plain(fields)
  BY AssigningOK DEF In, Goods
<1>4. Begin(r, once) \/ Begin(r, twice)
  BY DEF UpdateSet
<1> HIDE DEF contents, removal, fields
<1>5. Plain(Both(contents, fields)) /\ Plain(Both(contents, removal)) /\ Plain(Both(Groups(k, groups), fields))
  BY <1>1, <1>2, <1>3, BothOK, GroupsOK DEF Plain
<1>6. Planned(once) /\ Planned(twice)
  BY <1>5 DEF Planned, Plain
<1> HIDE DEF once, twice
<1> QED BY <1>4, <1>6, BeginOK

-----------------------------------------------------------------------------
(* The desks.                                                               *)

LEMMA PricesOK == ASSUME Shelved, NEW r \in Editors, PricesDesk(r) PROVE Shelved'
<1>1. \A data \in PriceForms \cup ProductForms : InCents(data)
  BY FormsAssumption DEF InCents
<1>2. ASSUME NEW p \in In("products"), NEW data \in PriceForms, UpdateProductPrice(r, p, data)
      PROVE  Shelved'
  BY <1>1, <1>2, RepricingOK, EditOK DEF UpdateProductPrice
<1> QED BY <1>1, <1>2, UpdateProductOK, CreateProductOK DEF PricesDesk

LEMMA GalleryOK == ASSUME Shelved, NEW r \in Editors, GalleryDesk(r) PROVE Shelved'
<1>1. ASSUME NEW p, UploadProductImage(r, p) PROVE Shelved'
  BY <1>1, PictureOK DEF UploadProductImage
<1>2. ASSUME NEW p, NEW n, NEW kind, UploadGallery(r, p, n, kind) PROVE Shelved'
  <2>1. PICK new : Begin(r, <<Adding(new)>>) /\ \A k \in DOMAIN new : ~ Goods(k)
    BY <1>2, FreshOK DEF UploadGallery, Goods
  <2> QED BY <2>1, AddingOK, PlainEditOK DEF Edit
<1>3. ASSUME NEW p, NEW k, DeleteGalleryItem(r, p, k) PROVE Shelved'
  BY <1>3, RemoveOK DEF DeleteGalleryItem
<1>4. ASSUME NEW p, DeleteProduct(r, p) PROVE Shelved'
  BY <1>4, RemoveOK DEF DeleteProduct
<1> QED BY <1>1, <1>2, <1>3, <1>4 DEF GalleryDesk, UploadGalleryImages, UploadGalleryVideos

LEMMA BundlesOK == ASSUME Shelved, NEW r \in Editors, BundlesDesk(r) PROVE Shelved'
<1>1. ASSUME NEW title, NEW items, CreatePromotion(r, title, items) PROVE Shelved'
  BY <1>1, FreshOK, BundleOK, PlainEditOK DEF CreatePromotion, Lists, Goods
<1>2. ASSUME NEW data, NEW items, NEW groups, CreateSet(r, data, items, groups) PROVE Shelved'
  <2> DEFINE k == Fresh("sets", 1)
             u == Adding(Only(k, [image |-> None, detail |-> None] ++ data) ++ Contents("set_items", k, items))
  <2>1. Plain(u) /\ Plain(Groups(k, groups))
    BY FreshOK, BundleOK, GroupsOK DEF Lists, Goods
  <2>2. Edit(r, Both(u, Groups(k, groups)))
    BY <1>2 DEF CreateSet
  <2> HIDE DEF u
  <2> QED BY <2>1, <2>2, BothOK, EditOK DEF Plain
<1>3. ASSUME NEW k \in In("promotions"), NEW data, NEW items, UpdatePromotion(r, k, data, items)
      PROVE  Shelved'
  <2> DEFINE u == Assigning(k, data)
             v == IF items = None THEN NoWork ELSE ReplaceRows("promotion_items", k, items)
  <2>1. Plain(u) /\ Plain(v)
    BY AssigningOK, NoWorkPlain, ReplaceOK DEF Lists, In, Goods
  <2>2. Edit(r, Both(u, v))
    BY <1>3 DEF UpdatePromotion
  <2> HIDE DEF u, v
  <2> QED BY <2>1, <2>2, BothOK, EditOK DEF Plain
<1>4. ASSUME NEW k, UploadPromotionImage(r, k) \/ UploadPromotionBanner(r, k)
                      \/ UploadSetImage(r, k) \/ UploadSetDetailImage(r, k)
      PROVE  Shelved'
  BY <1>4, PictureOK
     DEF UploadPromotionImage, UploadPromotionBanner, UploadSetImage, UploadSetDetailImage
<1>5. ASSUME NEW k \in In("promotions"), DeleteBanner(r, k) PROVE Shelved'
  BY <1>5, AssignOK DEF DeleteBanner, In, Goods
<1>6. ASSUME NEW k, DeletePromotion(r, k) \/ DeleteSet(r, k) \/ DeleteProduct(r, k) PROVE Shelved'
  BY <1>6, RemoveOK DEF DeletePromotion, DeleteSet, DeleteProduct
<1>7. ASSUME NEW p \in In("products"), NEW items, UpdateProduct(r, p, <<>>, items) PROVE Shelved'
  <2>1. InCents(<<>>)
    BY DEF InCents, PriceColumns
  <2> QED BY <1>7, <2>1, UpdateProductOK
<1> QED BY <1>1, <1>2, <1>3, <1>4, <1>5, <1>6, <1>7, UpdateSetOK DEF BundlesDesk

LEMMA ShelvesOK == ASSUME Shelved, NEW r \in Editors, ShelvesDesk(r) PROVE Shelved'
<1>1. ASSUME NEW title, CreateBrand(r, title) \/ CreateCategory(r, title)
                          \/ CreateHeroSlide(r, title) \/ CreateQrCode(r, title)
      PROVE  Shelved'
  BY <1>1, RowOK, PlainEditOK DEF CreateBrand, CreateCategory, CreateHeroSlide, CreateQrCode, CreateCard
<1>2. ASSUME NEW title, UpdateBrand(r, title) \/ UpdateCategory(r, title)
                          \/ UpdateHeroSlide(r, title) \/ UpdateQrCode(r, title)
      PROVE  Shelved'
  <2>1. PICK k : Rename(r, k, title) /\ ~ Goods(k)
    BY <1>2 DEF UpdateBrand, UpdateCategory, UpdateHeroSlide, UpdateQrCode, In, Goods
  <2> QED BY <2>1, AssignOK DEF Rename
<1>3. ASSUME UploadBrandImage(r) \/ UploadHeroSlideImage(r) \/ UploadQrImage(r)
               \/ UploadManualImage(r) \/ UploadManualPdf(r)
      PROVE  Shelved'
  BY <1>3, PictureOK
     DEF UploadBrandImage, UploadHeroSlideImage, UploadQrImage, UploadManualImage, UploadManualPdf
<1>4. ASSUME \/ DeleteBrand(r) \/ DeleteCategory(r) \/ DeleteHeroSlide(r)
             \/ DeleteQrCode(r) \/ DeleteManual(r) \/ \E p : DeleteProduct(r, p)
      PROVE  Shelved'
  <2>1. PICK keys : Edit(r, Deleting(keys))
    BY <1>4 DEF DeleteBrand, DeleteCategory, DeleteHeroSlide, DeleteQrCode, DeleteManual, DeleteRow, DeleteProduct
  <2> QED BY <2>1, RemoveOK
<1>5. ASSUME NEW p, CreateManual(r, p) PROVE Shelved'
  BY <1>5, RowOK, PlainEditOK DEF CreateManual
<1>6. ASSUME NEW p, NEW k \in In("manuals"), UpdateManual(r, k, p) PROVE Shelved'
  BY <1>6, AssignOK DEF UpdateManual, In, Goods
<1>7. ASSUME NEW p \in In("products"), NEW form \in ProductForms,
             NEW c \in {"name", "code", "brand", "category"},
             UpdateProduct(r, p, Restrict(form, {c}), None)
      PROVE  Shelved'
  <2>1. InCents(Restrict(form, {c}))
    BY DEF InCents, PriceColumns, Restrict
  <2> QED BY <1>7, <2>1, UpdateProductOK
<1> QED BY <1>1, <1>2, <1>3, <1>4, <1>5, <1>6, <1>7, CreateProductOK DEF ShelvesDesk

-----------------------------------------------------------------------------
LEMMA ShelvedInit == CatalogueInit => Shelved
BY StoreroomsAssumption DEF CatalogueInit, Shelved, Labelled, Goods, Planned, Covered

LEMMA ShelvedStep == ASSUME Shelved, [CatalogueNext]_catalogueVars PROVE Shelved'
<1>1. CASE UNCHANGED catalogueVars
  BY <1>1 DEF catalogueVars, Shelved
<1>2. ASSUME NEW desk \in Desks, NEW r \in Editors,
             PricesDesk(r) \/ GalleryDesk(r) \/ BundlesDesk(r) \/ ShelvesDesk(r)
      PROVE  Shelved'
  BY <1>2, PricesOK, GalleryOK, BundlesOK, ShelvesOK
<1> QED BY <1>1, <1>2, CommitOK, FailOK DEF CatalogueNext, CatalogueStep

(* Whatever forms staff send and however they overlap, the list price of a  *)
(* product covers its price, unless a price was moved under the request.    *)
THEOREM ListAlwaysCoversPrice == CatalogueSpec => []ListCoversPrice
<1>1. Shelved => ListCoversPrice
  BY DEF Shelved, Labelled, ListCoversPrice, In, Goods
<1> QED BY <1>1, ShelvedInit, ShelvedStep, PTL DEF CatalogueSpec

-----------------------------------------------------------------------------
(* The catalogue and its log.  An entry is computed from a unit of work,    *)
(* the rows from the database it is flushed to: what makes the two agree    *)
(* is that keys are never drawn twice, that a row that is part of another   *)
(* stays part of it, and that the units of work come in two kinds.          *)

(* Rows of the right tables, with the group of every choice among them.     *)
Joined(d) ==
  /\ DOMAIN d \subseteq Tables \X Nat
  /\ \A k \in DOMAIN d : Linked(k, d[k])
  /\ \A k \in DOMAIN d : Table(k) = "set_option_choices" => d[k].parent \in DOMAIN d

SameParents(d, e) ==
  \A k \in DOMAIN d \cap DOMAIN e : Table(k) \in ChildTables => d[k].parent = e[k].parent

(* It adds rows, assigns columns and drops parts of what it assigns to.     *)
Saving(u) ==
  /\ u.deleted = {}
  /\ Joined(u.new)
  /\ DOMAIN u.loaded = DOMAIN u.dirty \cup u.orphans
  /\ DOMAIN u.dirty \cap u.orphans = {}
  /\ \A k \in DOMAIN u.loaded : Linked(k, u.loaded[k])
  /\ \A k \in DOMAIN u.dirty :
       /\ Table(k) \in ChildTables => Table(k) \in Lists
       /\ "member" \notin DOMAIN u.dirty[k]
       /\ "parent" \in DOMAIN u.dirty[k] =>
            Table(k) = "manuals" /\ u.dirty[k].parent \in {"products"} \X Nat
  /\ \A k \in u.orphans : Table(k) \in Lists \cup {"set_option_groups"}
  /\ u.orphans # {} => \A k \in DOMAIN u.new : Table(k) \in Lists
  /\ DOMAIN u.dirty # {} => \A k \in DOMAIN u.new : Table(k) \in ChildTables

(* It deletes rows it has loaded, with the groups of their choices.         *)
Removing(u) ==
  /\ u.new = <<>> /\ u.dirty = <<>> /\ u.orphans = {}
  /\ DOMAIN u.loaded = u.deleted
  /\ Joined(u.loaded)

(* The lists first, then the row itself and its option groups.              *)
Twofold(u, v) ==
  /\ v.orphans = {}
  /\ DOMAIN u.new \cap DOMAIN v.new = {}
  /\ \A k \in DOMAIN u.new \cup DOMAIN v.new \cup DOMAIN u.dirty : Table(k) \in ChildTables
  /\ \A k \in DOMAIN v.dirty : Table(k) \notin ChildTables

Orderly(flushes) ==
  flushes # <<>> =>
    /\ Len(flushes) \in {1, 2} /\ DOMAIN flushes = 1 .. Len(flushes)
    /\ Len(flushes) = 1 => Saving(flushes[1]) \/ Removing(flushes[1])
    /\ Len(flushes) = 2 =>
         Saving(flushes[1]) /\ Saving(flushes[2]) /\ Twofold(flushes[1], flushes[2])

Drawn == {k \in Tables \X Nat : k[2] <= ids[k[1]]}

NewBy(r) == UNION {DOMAIN working[r][i].new : i \in DOMAIN working[r]}

(* The inductive invariant. *)
Filed ==
  /\ ids \in [Tables -> Nat]
  /\ Joined(db) /\ DOMAIN db \subseteq Drawn
  /\ DOMAIN working = Editors
  /\ \A r \in Editors :
       /\ Orderly(working[r])
       /\ NewBy(r) \subseteq Drawn \ DOMAIN db
       /\ LoadedBy(r) \subseteq Drawn
       /\ \A s \in Editors :
            NewBy(r) \cap LoadedBy(s) = {} /\ (r # s => NewBy(r) \cap NewBy(s) = {})
       /\ \A i \in DOMAIN working[r] : SameParents(working[r][i].loaded, db)

-----------------------------------------------------------------------------
(* What the database makes of one unit of work.                             *)

(* o is what d becomes by the unit u.                                       *)
Seen(d, o, u) ==
  /\ \A k \in DOMAIN u.new : k \in DOMAIN o /\ o[k] = u.new[k]
  /\ \A k \in DOMAIN u.dirty : ChangedColumns(u, k) # {} => k \in DOMAIN d \cap DOMAIN o
  /\ \A k \in DOMAIN u.dirty \cap DOMAIN d : \A f \in ChangedColumns(u, k) : o[k][f] = u.dirty[k][f]
  /\ \A k \in u.deleted \cup u.orphans : k \notin DOMAIN o
  /\ \A k \in DOMAIN u.loaded \cap (DOMAIN d \ DOMAIN o) : k \in u.deleted \cup u.orphans

Moved(d, o, u) ==
  /\ Joined(o) /\ SameParents(o, d) /\ DOMAIN o \subseteq DOMAIN d \cup DOMAIN u.new
  /\ \A k \in DOMAIN d \cap DOMAIN o :
       /\ k \notin DOMAIN u.dirty => o[k] = d[k]
       /\ \A f \in DOMAIN d[k] :
            o[k][f] # d[k][f] => k \in DOMAIN u.dirty /\ f \in ChangedColumns(u, k)

(* A row keeps what its table has, and a choice its group.                  *)
LEMMA LinkedOK ==
  ASSUME NEW k, NEW row, Linked(k, row)
  PROVE  /\ Table(k) \in DOMAIN Owner => "parent" \in DOMAIN row /\ row.parent \in Tables \X Nat
                                           /\ Table(row.parent) = Owner[Table(k)]
         /\ "parent" \in DOMAIN row => Table(k) \in DOMAIN Owner
         /\ "member" \in DOMAIN row => row.member \in Tables \X Nat /\ Table(row.member) = "products"
                                         /\ Table(k) \in Lists \cup {"set_option_choices"}
<1>1. \A t \in DOMAIN Owner : Owner[t] \in Tables
  BY DEF Owner, Tables
<1>2. "products" \in Tables
  BY DEF Tables
<1> QED BY <1>1, <1>2 DEF Linked, Table

LEMMA OwnersOK ==
  /\ DOMAIN Owner = ChildTables \cup {"manuals"}
  /\ \A t \in DOMAIN Owner : Owner[t] \in {"products", "promotions", "sets", "set_option_groups"}
  /\ \A t \in DOMAIN Owner : Owner[t] = "set_option_groups" <=> t = "set_option_choices"
  /\ Owner["set_option_groups"] = "sets" /\ Owner["manuals"] = "products"
  /\ Lists \subseteq ChildTables /\ "set_option_choices" \in ChildTables /\ "set_option_groups" \in ChildTables
  /\ {"products", "promotions", "sets", "manuals"} \cap ChildTables = {}
  /\ {"set_option_groups", "set_option_choices"} \cap Lists = {}
BY DEF Owner, ChildTables, Lists

(* Who refers to whom by the keys that cascade.                             *)
LEMMA CascadeOK ==
  ASSUME NEW k, NEW row, Linked(k, row), NEW j \in References(row, {"parent", "member"})
  PROVE  \/ /\ "parent" \in DOMAIN row /\ j = row.parent /\ Table(k) \in DOMAIN Owner
            /\ Table(j) = Owner[Table(k)]
         \/ /\ "member" \in DOMAIN row /\ j = row.member /\ Table(j) = "products"
            /\ Table(k) \in Lists \cup {"set_option_choices"}
<1>1. PICK c \in {"parent", "member"} : c \in DOMAIN row /\ j = row[c]
  BY DEF References
<1> QED BY <1>1, LinkedOK

LEMMA RefersOK ==
  ASSUME NEW k, NEW row, Linked(k, row), "parent" \in DOMAIN row
  PROVE  row.parent \in References(row, {"parent", "member"})
<1>1. row.parent \in Tables \X Nat
  BY LinkedOK
<1>2. row.parent # None
  BY <1>1, StoreroomsAssumption
<1> QED BY <1>2 DEF References

Rewritten(u, k) == [f \in ChangedColumns(u, k) |-> u.dirty[k][f]]

(* A row after the columns that a unit of work saves were written.          *)
LEMMA SavedRow ==
  ASSUME NEW d, Joined(d), NEW u, Saving(u), NEW k \in DOMAIN d \cap DOMAIN u.dirty,
         NEW row, row = Rewritten(u, k) ++ d[k]
  PROVE  /\ Linked(k, row)
         /\ Table(k) \in ChildTables => row.parent = d[k].parent
         /\ \A f \in ChangedColumns(u, k) : row[f] = u.dirty[k][f]
         /\ \A f \in DOMAIN d[k] \ ChangedColumns(u, k) : row[f] = d[k][f]
<1> DEFINE cs == ChangedColumns(u, k)
           g == Rewritten(u, k)
<1>1. /\ DOMAIN row = cs \cup DOMAIN d[k] /\ \A c \in cs : row[c] = u.dirty[k][c]
      /\ \A c \in DOMAIN d[k] \ cs : row[c] = d[k][c]
  <2>1. DOMAIN g = cs /\ \A c \in cs : g[c] = u.dirty[k][c]
    BY DEF Rewritten
  <2> HIDE DEF g, cs
  <2>2. row = g ++ d[k]
    BY DEF g
  <2> QED BY <2>1, <2>2 DEF ++
<1>2. cs \subseteq DOMAIN u.dirty[k]
  BY DEF ChangedColumns
<1> HIDE DEF cs, g
<1>3. /\ Linked(k, d[k]) /\ "member" \notin cs
      /\ "parent" \in cs => Table(k) = "manuals" /\ u.dirty[k].parent \in {"products"} \X Nat
  BY <1>2 DEF Joined, Saving
<1>4. "manuals" \in DOMAIN Owner /\ Owner["manuals"] = "products" /\ "manuals" \notin ChildTables
  BY DEF Owner, ChildTables
<1>5. Linked(k, row)
  <2>1. CASE "parent" \in cs
    BY <1>1, <1>3, <1>4, <2>1 DEF Linked
  <2>2. CASE "parent" \notin cs
    <3>1. /\ "parent" \in DOMAIN row <=> "parent" \in DOMAIN d[k]
          /\ "parent" \in DOMAIN row => row.parent = d[k].parent
          /\ "member" \in DOMAIN row <=> "member" \in DOMAIN d[k]
          /\ "member" \in DOMAIN row => row.member = d[k].member
      BY <1>1, <1>3, <2>2
    <3> QED BY <1>3, <3>1 DEF Linked
  <2> QED BY <2>1, <2>2
<1>6. Table(k) \in ChildTables => row.parent = d[k].parent
  <2> SUFFICES ASSUME Table(k) \in ChildTables PROVE row.parent = d[k].parent
    OBVIOUS
  <2>1. "parent" \in DOMAIN d[k]
    BY <1>3, LinkedOK, OwnersOK
  <2> QED BY <1>1, <1>3, <1>4, <2>1
<1> QED BY <1>1, <1>5, <1>6 DEF cs

LEMMA WrittenJoined ==
  ASSUME NEW d, Joined(d), NEW u, Saving(u), DOMAIN u.new \cap DOMAIN d = {}
  PROVE  Joined(Written(d, u)) /\ SameParents(Written(d, u), d)
<1> DEFINE after == Written(d, u)
<1>1. /\ DOMAIN after = DOMAIN d \cup DOMAIN u.new
      /\ \A k \in DOMAIN u.new : after[k] = u.new[k]
      /\ \A k \in DOMAIN d : k \notin DOMAIN u.dirty => after[k] = d[k]
      /\ \A k \in DOMAIN d : k \in DOMAIN u.dirty =>
              after[k] = Rewritten(u, k) ++ d[k]
  BY DEF Written, Rewritten, ++
<1> HIDE DEF after
<1>2. Joined(u.new)
  BY DEF Saving
<1>3. ASSUME NEW k \in DOMAIN d
      PROVE  Linked(k, after[k]) /\ (Table(k) \in ChildTables => after[k].parent = d[k].parent)
  <2>1. CASE k \in DOMAIN u.dirty
    BY <1>1, <2>1, SavedRow
  <2>2. CASE k \notin DOMAIN u.dirty
    BY <1>1, <2>2 DEF Joined
  <2> QED BY <2>1, <2>2
<1>4. \A k \in DOMAIN u.new : Linked(k, after[k])
  BY <1>1, <1>2 DEF Joined
<1>5. DOMAIN after \subseteq Tables \X Nat
  BY <1>1, <1>2 DEF Joined
<1>6. ASSUME NEW k \in DOMAIN after, Table(k) = "set_option_choices"
      PROVE  after[k].parent \in DOMAIN after
  <2>1. CASE k \in DOMAIN d
    BY <1>1, <1>3, <1>6, <2>1, OwnersOK DEF Joined
  <2>2. CASE k \in DOMAIN u.new
    BY <1>1, <1>2, <1>6, <2>2 DEF Joined
  <2> QED BY <1>1, <2>1, <2>2
<1>7. Joined(after)
  BY <1>1, <1>3, <1>4, <1>5, <1>6 DEF Joined
<1>8. SameParents(after, d)
  BY <1>3 DEF SameParents
<1> QED BY <1>7, <1>8 DEF after

(* What a flush takes away beside the rows it drops: nothing but choices,   *)
(* and with a group all of its choices.                                     *)
LEMMA GoneOK ==
  ASSUME NEW d, Joined(d), NEW keys
  PROVE  /\ keys \subseteq Gone(d, keys)
         /\ keys = {} => Gone(d, keys) = {}
         /\ (\A k \in keys : Table(k) \in Lists \cup {"set_option_groups"}) =>
              \A k \in Gone(d, keys) : k \in keys \/ Table(k) = "set_option_choices"
         /\ \A k \in DOMAIN d \ Gone(d, keys) :
              Table(k) = "set_option_choices" => d[k].parent \notin Gone(d, keys)
<1> DEFINE near == AndDependants(d, keys)
           far == AndDependants(d, near)
<1>1. /\ Gone(d, keys) = far /\ keys \subseteq near /\ near \subseteq far
      /\ \A k \in near \ keys : k \in DOMAIN d /\ \E j \in keys : j \in References(d[k], {"parent", "member"})
      /\ \A k \in far \ near : k \in DOMAIN d /\ \E j \in near : j \in References(d[k], {"parent", "member"})
      /\ \A k \in DOMAIN d : \A j \in keys : j \in References(d[k], {"parent", "member"}) => k \in near
      /\ \A k \in DOMAIN d : \A j \in near : j \in References(d[k], {"parent", "member"}) => k \in far
  BY DEF Gone, AndDependants
<1> HIDE DEF near, far
<1>2. \A k \in DOMAIN d : Linked(k, d[k])
  BY DEF Joined
<1>3. \A k \in DOMAIN d : \A j \in References(d[k], {"parent", "member"}) :
        \/ /\ "parent" \in DOMAIN d[k] /\ j = d[k].parent /\ Table(k) \in DOMAIN Owner
           /\ Table(j) = Owner[Table(k)]
        \/ Table(j) = "products" /\ Table(k) \in Lists \cup {"set_option_choices"}
  BY <1>2, CascadeOK
<1>4. ASSUME keys = {} PROVE far = {}
  BY <1>1, <1>4
<1>5. ASSUME \A k \in keys : Table(k) \in Lists \cup {"set_option_groups"},
             NEW k \in far
      PROVE  k \in keys \/ Table(k) = "set_option_choices"
  <2>1. ASSUME NEW j \in near PROVE j \in keys \/ Table(j) = "set_option_choices"
    BY <1>1, <1>3, <1>5, OwnersOK
  <2> QED BY <1>1, <1>3, <1>5, <2>1, OwnersOK
<1>6. ASSUME NEW k \in DOMAIN d, k \notin far, Table(k) = "set_option_choices"
      PROVE  d[k].parent \notin far
  <2> DEFINE g == d[k].parent
  <2> SUFFICES ASSUME g \in far PROVE FALSE
    OBVIOUS
  <2>1. g \in DOMAIN d /\ Table(g) = "set_option_groups"
    BY <1>2, <1>6, LinkedOK, OwnersOK DEF Joined
  <2>2. g \in References(d[k], {"parent", "member"})
    BY <1>2, <1>6, LinkedOK, OwnersOK, RefersOK
  <2>3. g \notin near
    BY <1>1, <1>6, <2>2
  <2> HIDE DEF g
  <2>4. PICK s \in near : s \in References(d[g], {"parent", "member"})
    BY <1>1, <2>3
  <2>5. Table(s) = "sets"
    BY <1>3, <2>1, <2>4, OwnersOK
  <2>6. s \notin keys
    BY <1>1, <2>1, <2>3, <2>4
  <2> QED BY <1>1, <1>3, <2>4, <2>5, <2>6, OwnersOK
<1> QED BY <1>1, <1>4, <1>5, <1>6

(* A unit that saves is seen in the rows, and takes away no row that is not *)
(* a part of another.                                                       *)
LEMMA FlushSaves ==
  ASSUME NEW d, Joined(d), NEW u, Saving(u), DOMAIN u.new \cap (DOMAIN d \cup DOMAIN u.loaded) = {},
         NEW o, o = Flushed(d, u), o # None
  PROVE  /\ d # None /\ Seen(d, o, u) /\ Moved(d, o, u)
         /\ \A k \in DOMAIN d \ DOMAIN o : Table(k) \in ChildTables
         /\ u.orphans = {} => DOMAIN d \subseteq DOMAIN o
<1> DEFINE after == Written(d, u)
           gone == Gone(after, u.orphans)
<1>1. /\ d # None /\ ~ FlushFails(d, u) /\ u.deleted = {}
      /\ DOMAIN o = DOMAIN after \ gone /\ \A k \in DOMAIN o : o[k] = after[k]
  <2>1. /\ d # None /\ ~ FlushFails(d, u) /\ u.deleted \cup u.orphans = u.orphans
        /\ o = Restrict(after, DOMAIN after \ Gone(after, u.deleted \cup u.orphans))
    BY DEF Flushed, Saving
  <2>2. o = Restrict(after, DOMAIN after \ gone)
    BY <2>1
  <2> HIDE DEF after, gone
  <2> QED BY <2>1, <2>2 DEF Restrict, Saving
<1>2. Joined(after) /\ SameParents(after, d)
  BY WrittenJoined
<1>3. /\ DOMAIN after = DOMAIN d \cup DOMAIN u.new
      /\ \A k \in DOMAIN u.new : after[k] = u.new[k]
      /\ \A k \in DOMAIN d : k \notin DOMAIN u.dirty => after[k] = d[k]
      /\ \A k \in DOMAIN d : k \in DOMAIN u.dirty => after[k] = Rewritten(u, k) ++ d[k]
  BY DEF Written, Rewritten, ++
<1>4. \A k \in u.orphans : Table(k) \in Lists \cup {"set_option_groups"}
  BY DEF Saving
<1>5. /\ u.orphans \subseteq gone
      /\ u.orphans = {} => gone = {}
      /\ \A k \in gone : k \in u.orphans \/ Table(k) = "set_option_choices"
      /\ \A k \in DOMAIN after \ gone : Table(k) = "set_option_choices" => after[k].parent \notin gone
  <2> HIDE DEF after
  <2> QED BY <1>2, <1>4, GoneOK
<1>6. \A k \in DOMAIN u.dirty : ChangedColumns(u, k) # {} => k \in DOMAIN d
  BY <1>1 DEF FlushFails
<1> HIDE DEF after, gone
<1>7. \A k \in DOMAIN d \cap DOMAIN u.dirty :
        /\ \A f \in ChangedColumns(u, k) : after[k][f] = u.dirty[k][f]
        /\ \A f \in DOMAIN d[k] \ ChangedColumns(u, k) : after[k][f] = d[k][f]
  BY <1>3, SavedRow
<1>8. \A k \in DOMAIN u.new : k \in DOMAIN o
  <2> SUFFICES ASSUME NEW k \in DOMAIN u.new, k \in gone PROVE FALSE
    BY <1>1, <1>3
  <2>1. Table(k) \in Lists
    BY <1>5 DEF Saving
  <2>2. k \in u.orphans
    BY <1>5, <2>1, OwnersOK
  <2> QED BY <2>2 DEF Saving
<1>9. \A k \in DOMAIN d \cap DOMAIN u.dirty : k \in DOMAIN o
  <2> SUFFICES ASSUME NEW k \in DOMAIN d \cap DOMAIN u.dirty, k \in gone PROVE FALSE
    BY <1>1, <1>3
  <2> QED BY <1>5, OwnersOK DEF Saving
<1>10. Seen(d, o, u)
  <2>1. \A k \in DOMAIN u.new : o[k] = u.new[k]
    BY <1>1, <1>3, <1>8
  <2>2. \A k \in DOMAIN u.dirty \cap DOMAIN d : \A f \in ChangedColumns(u, k) : o[k][f] = u.dirty[k][f]
    BY <1>1, <1>7, <1>9
  <2>3. \A k \in u.orphans : k \notin DOMAIN o
    BY <1>1, <1>5
  <2>4. ASSUME NEW k \in DOMAIN u.loaded \cap (DOMAIN d \ DOMAIN o) PROVE k \in u.orphans
    BY <1>9 DEF Saving
  <2> QED BY <1>1, <1>6, <1>8, <1>9, <2>1, <2>2, <2>3, <2>4 DEF Seen
<1>11. Joined(o)
  <2>1. \A k \in DOMAIN o : Linked(k, o[k])
    BY <1>1, <1>2 DEF Joined
  <2>2. \A k \in DOMAIN o : Table(k) = "set_option_choices" => o[k].parent \in DOMAIN o
    BY <1>1, <1>2, <1>5 DEF Joined
  <2> QED BY <1>1, <1>2, <2>1, <2>2 DEF Joined
<1>12. SameParents(o, d)
  BY <1>1, <1>2, <1>3 DEF SameParents
<1>13. ASSUME NEW k \in DOMAIN d \cap DOMAIN o
       PROVE  /\ k \notin DOMAIN u.dirty => o[k] = d[k]
              /\ \A f \in DOMAIN d[k] :
                   o[k][f] # d[k][f] => k \in DOMAIN u.dirty /\ f \in ChangedColumns(u, k)
  BY <1>1, <1>3, <1>7
<1>14. Moved(d, o, u)
  BY <1>1, <1>3, <1>11, <1>12, <1>13 DEF Moved
<1>15. ASSUME NEW k \in DOMAIN d \ DOMAIN o PROVE Table(k) \in ChildTables /\ u.orphans # {}
  BY <1>1, <1>3, <1>4, <1>5, OwnersOK
<1> QED BY <1>1, <1>10, <1>14, <1>15

(* Nor does it see more in the rows than it deletes.                        *)
LEMMA FlushRemoves ==
  ASSUME NEW d, Joined(d), NEW u, Removing(u), NEW o, o = Flushed(d, u), o # None
  PROVE  d # None /\ Seen(d, o, u) /\ Moved(d, o, u)
<1> DEFINE gone == Gone(d, u.deleted)
<1>1. /\ u.new = <<>> /\ u.dirty = <<>> /\ u.orphans = {} /\ DOMAIN u.loaded = u.deleted
  BY DEF Removing
<1>2. DOMAIN Written(d, u) = DOMAIN d /\ \A k \in DOMAIN d : Written(d, u)[k] = d[k]
  BY <1>1 DEF Written, ++
<1>3. Gone(Written(d, u), u.deleted) = gone
  <2> DEFINE e == Written(d, u)
  <2>1. DOMAIN e = DOMAIN d /\ \A k \in DOMAIN d : e[k] = d[k]
    BY <1>2
  <2> HIDE DEF e
  <2>2. \A keys : AndDependants(e, keys) = AndDependants(d, keys)
    BY <2>1 DEF AndDependants
  <2> QED BY <2>2 DEF Gone, e
<1>4. d # None /\ DOMAIN o = DOMAIN d \ gone /\ \A k \in DOMAIN o : o[k] = d[k]
  <2> DEFINE e == Written(d, u)
  <2>1. u.deleted \cup u.orphans = u.deleted
    BY <1>1
  <2>2. d # None /\ o = Restrict(e, DOMAIN e \ gone)
    BY <1>3, <2>1 DEF Flushed
  <2> HIDE DEF e, gone
  <2>3. DOMAIN e = DOMAIN d /\ \A k \in DOMAIN d : e[k] = d[k]
    BY <1>2 DEF e
  <2> QED BY <2>2, <2>3 DEF Restrict
<1>5. /\ u.deleted \subseteq gone
      /\ \A k \in DOMAIN d \ gone : Table(k) = "set_option_choices" => d[k].parent \notin gone
  BY GoneOK
<1> HIDE DEF gone
<1>6. Joined(o)
  BY <1>4, <1>5 DEF Joined
<1>7. Seen(d, o, u)
  BY <1>1, <1>4, <1>5 DEF Seen
<1>8. Moved(d, o, u)
  BY <1>4, <1>6 DEF Moved, SameParents
<1> QED BY <1>4, <1>7, <1>8

-----------------------------------------------------------------------------
(* What becomes of the rows when a request commits.                         *)

(* Every unit of work of the request is seen in the outcome, and nothing    *)
(* else has changed.                                                        *)
Rendered(d, o, flushes) ==
  /\ Joined(o) /\ SameParents(o, d)
  /\ DOMAIN o \subseteq DOMAIN d \cup UNION {DOMAIN flushes[i].new : i \in DOMAIN flushes}
  /\ \A i \in DOMAIN flushes : Seen(d, o, flushes[i])
  /\ \A k \in DOMAIN d \cap DOMAIN o : \A f \in DOMAIN d[k] :
       o[k][f] # d[k][f] =>
         \E i \in DOMAIN flushes : k \in DOMAIN flushes[i].dirty /\ f \in ChangedColumns(flushes[i], k)

LEMMA RenderedOnce ==
  ASSUME NEW d, NEW o, NEW flushes, DOMAIN flushes = {1},
         Seen(d, o, flushes[1]), Moved(d, o, flushes[1])
  PROVE  Rendered(d, o, flushes)
<1>1. UNION {DOMAIN flushes[i].new : i \in DOMAIN flushes} = DOMAIN flushes[1].new
  OBVIOUS
<1> QED BY <1>1 DEF Rendered, Moved

LEMMA RenderedTwice ==
  ASSUME NEW d, Joined(d), NEW u, NEW v, Saving(u), Saving(v), Twofold(u, v),
         (DOMAIN u.new \cup DOMAIN v.new) \cap (DOMAIN d \cup DOMAIN u.loaded \cup DOMAIN v.loaded) = {},
         NEW m, m = Flushed(d, u), NEW o, o = Flushed(m, v), o # None, m # None
  PROVE  /\ Joined(o) /\ SameParents(o, d) /\ Seen(d, o, u) /\ Seen(d, o, v)
         /\ DOMAIN o \subseteq DOMAIN d \cup DOMAIN u.new \cup DOMAIN v.new
         /\ \A k \in DOMAIN d \cap DOMAIN o : \A f \in DOMAIN d[k] :
              o[k][f] # d[k][f] =>
                \/ k \in DOMAIN u.dirty /\ f \in ChangedColumns(u, k)
                \/ k \in DOMAIN v.dirty /\ f \in ChangedColumns(v, k)
<1>1. /\ Seen(d, m, u) /\ Moved(d, m, u)
      /\ \A k \in DOMAIN d \ DOMAIN m : Table(k) \in ChildTables
  BY FlushSaves
<1>2. DOMAIN v.new \cap (DOMAIN m \cup DOMAIN v.loaded) = {}
  BY <1>1 DEF Moved, Twofold
<1>3. Seen(m, o, v) /\ Moved(m, o, v) /\ DOMAIN m \subseteq DOMAIN o
  BY <1>1, <1>2, FlushSaves DEF Moved, Twofold
<1>4. /\ \A k \in DOMAIN u.new \cup DOMAIN u.dirty : Table(k) \in ChildTables
      /\ \A k \in DOMAIN v.dirty : Table(k) \notin ChildTables
      /\ DOMAIN u.dirty \subseteq DOMAIN u.loaded /\ DOMAIN v.dirty \subseteq DOMAIN v.loaded
      /\ u.deleted \cup u.orphans \subseteq DOMAIN u.loaded /\ u.deleted = {}
      /\ DOMAIN v.loaded = DOMAIN v.dirty /\ v.deleted = {} /\ v.orphans = {}
  BY DEF Twofold, Saving
<1>5. \A k \in DOMAIN m : k \notin DOMAIN v.dirty => o[k] = m[k]
  BY <1>3 DEF Moved
<1>6. DOMAIN o \subseteq DOMAIN m \cup DOMAIN v.new /\ DOMAIN m \subseteq DOMAIN d \cup DOMAIN u.new
  BY <1>1, <1>3 DEF Moved
<1>7. \A k \in DOMAIN d : k \in DOMAIN v.dirty => k \in DOMAIN m /\ m[k] = d[k]
  BY <1>1, <1>4 DEF Moved
<1>8. Seen(d, o, u)
  <2>1. \A k \in DOMAIN u.new : k \in DOMAIN o /\ o[k] = u.new[k]
    BY <1>1, <1>3, <1>4, <1>5 DEF Seen
  <2>2. \A k \in DOMAIN u.dirty : ChangedColumns(u, k) # {} => k \in DOMAIN d \cap DOMAIN o
    BY <1>1, <1>3 DEF Seen
  <2>3. \A k \in DOMAIN u.dirty \cap DOMAIN d : \A f \in ChangedColumns(u, k) : o[k][f] = u.dirty[k][f]
    BY <1>1, <1>4, <1>5 DEF Seen
  <2>4. \A k \in u.orphans : k \notin DOMAIN o
    BY <1>1, <1>4, <1>6 DEF Seen
  <2>5. \A k \in DOMAIN u.loaded \cap (DOMAIN d \ DOMAIN o) : k \in u.orphans
    BY <1>1, <1>3, <1>4 DEF Seen
  <2> QED BY <1>4, <2>1, <2>2, <2>3, <2>4, <2>5 DEF Seen
<1>9. Seen(d, o, v)
  <2>1. \A k \in DOMAIN v.dirty : ChangedColumns(v, k) # {} => k \in DOMAIN d \cap DOMAIN o
    BY <1>3, <1>4, <1>6 DEF Seen
  <2>2. \A k \in DOMAIN v.dirty \cap DOMAIN d : \A f \in ChangedColumns(v, k) : o[k][f] = v.dirty[k][f]
    BY <1>3, <1>7 DEF Seen
  <2>3. \A k \in DOMAIN v.loaded \cap DOMAIN d : k \in DOMAIN o
    BY <1>3, <1>4, <1>7
  <2> QED BY <1>3, <1>4, <2>1, <2>2, <2>3 DEF Seen
<1>10. SameParents(o, d)
  BY <1>1, <1>2, <1>3, <1>4, <1>5, <1>6 DEF Moved, SameParents
<1>11. ASSUME NEW k \in DOMAIN d \cap DOMAIN o, NEW f \in DOMAIN d[k], o[k][f] # d[k][f]
       PROVE  \/ k \in DOMAIN u.dirty /\ f \in ChangedColumns(u, k)
              \/ k \in DOMAIN v.dirty /\ f \in ChangedColumns(v, k)
  <2>1. k \in DOMAIN m
    BY <1>6
  <2>2. CASE k \in DOMAIN v.dirty
    BY <1>3, <1>7, <1>11, <2>1, <2>2 DEF Moved
  <2>3. CASE k \notin DOMAIN v.dirty
    BY <1>1, <1>5, <1>11, <2>1, <2>3 DEF Moved
  <2> QED BY <2>2, <2>3
<1> QED BY <1>3, <1>6, <1>8, <1>9, <1>10, <1>11 DEF Moved

LEMMA OutcomeOK ==
  ASSUME Filed, NEW r \in Editors, working[r] # <<>>, NEW o, o = Outcome(r), o # None
  PROVE  Rendered(db, o, working[r])
<1> DEFINE w == working[r]
<1>1. /\ Orderly(w) /\ w # <<>> /\ Joined(db)
      /\ NewBy(r) \cap DOMAIN db = {} /\ NewBy(r) \cap LoadedBy(r) = {}
  BY DEF Filed
<1>2. \A i \in DOMAIN w : DOMAIN w[i].new \subseteq NewBy(r) /\ DOMAIN w[i].loaded \subseteq LoadedBy(r)
  BY DEF NewBy, LoadedBy
<1>3. CASE Len(w) = 1
  <2>1. DOMAIN w = {1} /\ (Saving(w[1]) \/ Removing(w[1])) /\ o = Flushed(db, w[1])
    BY <1>1, <1>3 DEF Orderly, Outcome
  <2>2. DOMAIN w[1].new \cap (DOMAIN db \cup DOMAIN w[1].loaded) = {}
    BY <1>1, <1>2, <2>1
  <2>3. Seen(db, o, w[1]) /\ Moved(db, o, w[1])
    BY <1>1, <2>1, <2>2, FlushSaves, FlushRemoves
  <2> HIDE DEF w
  <2> QED BY <2>1, <2>3, RenderedOnce DEF w
<1>4. CASE Len(w) = 2
  <2> DEFINE m == Flushed(db, w[1])
  <2>1. /\ DOMAIN w = {1, 2} /\ Saving(w[1]) /\ Saving(w[2]) /\ Twofold(w[1], w[2])
        /\ o = Flushed(m, w[2])
    BY <1>1, <1>4 DEF Orderly, Outcome
  <2>2. m # None
    BY <2>1 DEF Flushed
  <2>3. (DOMAIN w[1].new \cup DOMAIN w[2].new)
          \cap (DOMAIN db \cup DOMAIN w[1].loaded \cup DOMAIN w[2].loaded) = {}
    BY <1>1, <1>2, <2>1
  <2> DEFINE u == w[1]
             v == w[2]
  <2> HIDE DEF m
  <2>4. /\ Joined(o) /\ SameParents(o, db) /\ Seen(db, o, u) /\ Seen(db, o, v)
        /\ DOMAIN o \subseteq DOMAIN db \cup DOMAIN u.new \cup DOMAIN v.new
        /\ \A k \in DOMAIN db \cap DOMAIN o : \A f \in DOMAIN db[k] :
             o[k][f] # db[k][f] =>
                \/ k \in DOMAIN u.dirty /\ f \in ChangedColumns(u, k)
                \/ k \in DOMAIN v.dirty /\ f \in ChangedColumns(v, k)
    BY <1>1, <2>1, <2>2, <2>3, RenderedTwice DEF m
  <2>5. UNION {DOMAIN w[i].new : i \in DOMAIN w} = DOMAIN u.new \cup DOMAIN v.new
    BY <2>1
  <2> QED BY <2>1, <2>4, <2>5 DEF Rendered
<1> QED BY <1>1, <1>3, <1>4 DEF Orderly

-----------------------------------------------------------------------------
(* The steps that end a request, and the step that begins one.              *)

(* Only the request that ends is about to write less.                       *)
LEMMA EndOK ==
  ASSUME Filed, NEW r \in Editors, working' = [working EXCEPT ![r] = <<>>]
  PROVE  /\ DOMAIN working' = Editors
         /\ \A s \in Editors :
              /\ working'[s] = IF s = r THEN <<>> ELSE working[s]
              /\ NewBy(s)' = (IF s = r THEN {} ELSE NewBy(s))
              /\ LoadedBy(s)' = (IF s = r THEN {} ELSE LoadedBy(s))
<1>1. DOMAIN working' = Editors /\ \A s \in Editors : working'[s] = IF s = r THEN <<>> ELSE working[s]
  BY DEF Filed
<1> QED BY <1>1 DEF NewBy, LoadedBy

LEMMA CommitFiled == ASSUME Filed, NEW r \in Editors, CommitWork(r) PROVE Filed'
<1>1. /\ working[r] # <<>> /\ db' = Outcome(r) /\ db' # None /\ ids' = ids
      /\ working' = [working EXCEPT ![r] = <<>>]
  BY DEF CommitWork
<1>2. /\ Joined(db') /\ SameParents(db', db)
      /\ DOMAIN db' \subseteq DOMAIN db \cup NewBy(r)
  BY <1>1, OutcomeOK DEF Rendered, NewBy
<1>3. /\ DOMAIN working' = Editors
      /\ \A s \in Editors :
           /\ working'[s] = IF s = r THEN <<>> ELSE working[s]
           /\ NewBy(s)' = (IF s = r THEN {} ELSE NewBy(s))
           /\ LoadedBy(s)' = (IF s = r THEN {} ELSE LoadedBy(s))
  BY <1>1, EndOK
<1>4. DOMAIN db' \subseteq Drawn /\ Drawn' = Drawn
  BY <1>1, <1>2 DEF Filed, Drawn
<1>5. ASSUME NEW s \in Editors
      PROVE  /\ Orderly(working'[s])
             /\ NewBy(s)' \subseteq Drawn \ DOMAIN db' /\ LoadedBy(s)' \subseteq Drawn
             /\ \A q \in Editors :
                  NewBy(s)' \cap LoadedBy(q)' = {} /\ (s # q => NewBy(s)' \cap NewBy(q)' = {})
  BY <1>2, <1>3 DEF Filed, Orderly
<1>6. ASSUME NEW s \in Editors, NEW i \in DOMAIN working'[s]
      PROVE  SameParents(working'[s][i].loaded, db')
  <2> DEFINE rows == working[s][i].loaded
  <2>1. s # r /\ working'[s] = working[s] /\ i \in DOMAIN working[s]
    BY <1>3, <1>6
  <2>2. SameParents(rows, db) /\ DOMAIN rows \subseteq LoadedBy(s) /\ NewBy(r) \cap LoadedBy(s) = {}
    BY <2>1 DEF Filed, LoadedBy
  <2> HIDE DEF rows
  <2>3. SameParents(rows, db')
    BY <1>2, <2>2 DEF SameParents
  <2> QED BY <2>1, <2>3 DEF rows
<1> QED BY <1>1, <1>2, <1>3, <1>4, <1>5, <1>6 DEF Filed

LEMMA FailFiled == ASSUME Filed, NEW r \in Editors, WorkFails(r) PROVE Filed'
<1>1. working' = [working EXCEPT ![r] = <<>>] /\ db' = db /\ ids' = ids
  BY DEF WorkFails
<1>2. /\ DOMAIN working' = Editors
      /\ \A s \in Editors :
           /\ working'[s] = IF s = r THEN <<>> ELSE working[s]
           /\ NewBy(s)' = (IF s = r THEN {} ELSE NewBy(s))
           /\ LoadedBy(s)' = (IF s = r THEN {} ELSE LoadedBy(s))
  BY <1>1, EndOK
<1>3. Drawn' = Drawn
  BY <1>1 DEF Drawn
<1>4. ASSUME NEW s \in Editors
      PROVE  /\ Orderly(working'[s])
             /\ NewBy(s)' \subseteq Drawn \ DOMAIN db' /\ LoadedBy(s)' \subseteq Drawn
             /\ \A q \in Editors :
                  NewBy(s)' \cap LoadedBy(q)' = {} /\ (s # q => NewBy(s)' \cap NewBy(q)' = {})
             /\ \A i \in DOMAIN working'[s] : SameParents(working'[s][i].loaded, db')
  BY <1>1, <1>2 DEF Filed, Orderly
<1> QED BY <1>1, <1>2, <1>3, <1>4 DEF Filed

-----------------------------------------------------------------------------
LEMMA LastIdOK ==
  ASSUME NEW table, NEW keys, IsFiniteSet(keys), keys \subseteq Tables \X Nat, NEW before \in Nat
  PROVE  /\ LastId(table, keys, before) \in Nat /\ before <= LastId(table, keys, before)
         /\ \A k \in keys : Table(k) = table => k[2] <= LastId(table, keys, before)
<1> DEFINE ks == {j \in keys : Table(j) = table}
           ns == {k[2] : k \in ks}
<1>1. IsFiniteSet(ns)
  <2>1. IsFiniteSet(ks)
    BY FS_Subset
  <2>2. [k \in ks |-> k[2]] \in Surjection(ks, ns)
    BY DEF Surjection
  <2> QED BY <2>1, <2>2, FS_Surjection
<1>2. IsFiniteSet(ns \cup {before}) /\ ns \cup {before} \in SUBSET Nat
  BY <1>1, FS_AddElement
<1> HIDE DEF ns
<1>3. /\ Max(ns \cup {before}) \in ns \cup {before}
      /\ \A n \in ns \cup {before} : n <= Max(ns \cup {before})
  BY <1>2, GreatestNumber
<1>4. LastId(table, keys, before) = Max(ns \cup {before})
  BY DEF LastId, ns
<1>5. \A k \in keys : Table(k) = table => k[2] \in ns
  BY DEF ns
<1> QED BY <1>2, <1>3, <1>4, <1>5

(* Work on the rows as they are, under keys nobody has drawn.               *)
Ready(u) ==
  /\ IsFiniteSet(DOMAIN u.new)
  /\ \A k \in DOMAIN u.new : k \in Tables \X Nat /\ ids[k[1]] < k[2]
  /\ \A k \in DOMAIN u.loaded : k \in DOMAIN db /\ u.loaded[k] = db[k]

LEMMA BeginFiled ==
  ASSUME Filed, NEW r \in Editors, NEW flushes, Begin(r, flushes), Orderly(flushes), flushes # <<>>,
         \A i \in DOMAIN flushes : Ready(flushes[i])
  PROVE  Filed'
<1> DEFINE drawn == UNION {DOMAIN flushes[i].new : i \in DOMAIN flushes}
           read == UNION {DOMAIN flushes[i].loaded : i \in DOMAIN flushes}
<1>1. /\ working[r] = <<>> /\ working' = [working EXCEPT ![r] = flushes] /\ db' = db
      /\ ids' = [t \in Tables |-> LastId(t, drawn, ids[t])]
  BY DEF Begin
<1>2. IsFiniteSet(drawn)
  <2>1. CASE Len(flushes) = 1
    <3>1. drawn = DOMAIN flushes[1].new /\ 1 \in DOMAIN flushes
      BY <2>1 DEF Orderly
    <3> QED BY <3>1 DEF Ready
  <2>2. CASE Len(flushes) = 2
    <3> DEFINE a == DOMAIN flushes[1].new
               b == DOMAIN flushes[2].new
    <3>1. drawn = a \cup b /\ {1, 2} \subseteq DOMAIN flushes
      BY <2>2 DEF Orderly
    <3>2. IsFiniteSet(a) /\ IsFiniteSet(b)
      BY <3>1 DEF Ready
    <3> HIDE DEF a, b
    <3>3. IsFiniteSet(a \cup b)
      BY <3>2, FS_Union
    <3> QED BY <3>1, <3>3
  <2> QED BY <2>1, <2>2 DEF Orderly
<1>3. /\ \A k \in drawn : k \in Tables \X Nat /\ ids[k[1]] < k[2]
      /\ \A k \in read : k \in DOMAIN db
  BY DEF Ready
<1>4. /\ DOMAIN working' = Editors
      /\ \A s \in Editors :
           /\ working'[s] = IF s = r THEN flushes ELSE working[s]
           /\ NewBy(s)' = (IF s = r THEN drawn ELSE NewBy(s))
           /\ LoadedBy(s)' = (IF s = r THEN read ELSE LoadedBy(s))
  <2>1. DOMAIN working' = Editors /\ \A s \in Editors : working'[s] = IF s = r THEN flushes ELSE working[s]
    BY <1>1 DEF Filed
  <2> QED BY <2>1 DEF NewBy, LoadedBy
<1> HIDE DEF drawn, read
<1>5. /\ \A t \in Tables : ids[t] \in Nat /\ ids'[t] \in Nat /\ ids[t] <= ids'[t]
      /\ \A k \in drawn : k[2] <= ids'[k[1]]
  <2>1. drawn \subseteq Tables \X Nat
    BY <1>3
  <2>2. \A t \in Tables : ids[t] \in Nat /\ ids'[t] = LastId(t, drawn, ids[t])
    BY <1>1 DEF Filed
  <2>3. \A t \in Tables : /\ ids'[t] \in Nat /\ ids[t] <= ids'[t]
                          /\ \A k \in drawn : Table(k) = t => k[2] <= ids'[t]
    BY <1>2, <2>1, <2>2, LastIdOK
  <2> QED BY <2>1, <2>2, <2>3 DEF Table
<1>6. Drawn \subseteq Drawn' /\ drawn \subseteq Drawn' /\ drawn \cap Drawn = {}
  <2>1. ASSUME NEW k \in Tables \X Nat PROVE ids[k[1]] \in Nat /\ ids'[k[1]] \in Nat /\ ids[k[1]] <= ids'[k[1]] /\ k[2] \in Nat
    BY <1>5
  <2> QED BY <1>3, <1>5, <2>1 DEF Drawn
<1>7. ids' \in [Tables -> Nat]
  BY <1>1, <1>5
<1>8. NewBy(r) = {} /\ LoadedBy(r) = {}
  BY <1>1 DEF NewBy, LoadedBy
<1>9. DOMAIN db \subseteq Drawn /\ Joined(db) /\ read \subseteq Drawn /\ drawn \cap read = {}
  BY <1>3, <1>6 DEF Filed
<1>10. ASSUME NEW s \in Editors
       PROVE  /\ Orderly(working'[s])
              /\ NewBy(s)' \subseteq Drawn' \ DOMAIN db' /\ LoadedBy(s)' \subseteq Drawn'
  BY <1>1, <1>4, <1>6, <1>9 DEF Filed
<1>11. ASSUME NEW s \in Editors, NEW q \in Editors
       PROVE  NewBy(s)' \cap LoadedBy(q)' = {} /\ (s # q => NewBy(s)' \cap NewBy(q)' = {})
  <2>1. /\ \A p \in Editors : NewBy(p) \subseteq Drawn \ DOMAIN db /\ LoadedBy(p) \subseteq Drawn
        /\ NewBy(s) \cap LoadedBy(q) = {} /\ (s # q => NewBy(s) \cap NewBy(q) = {})
    BY DEF Filed
  <2>2. read \subseteq DOMAIN db
    BY <1>3
  <2> QED BY <1>4, <1>6, <1>9, <2>1, <2>2
<1>12. ASSUME NEW s \in Editors, NEW i \in DOMAIN working'[s]
       PROVE  SameParents(working'[s][i].loaded, db')
  <2>1. CASE s = r
    BY <1>1, <1>4, <2>1 DEF Ready, SameParents
  <2>2. CASE s # r
    BY <1>1, <1>4, <2>2 DEF Filed
  <2> QED BY <2>1, <2>2
<1> QED BY <1>1, <1>4, <1>7, <1>9, <1>6, <1>10, <1>11, <1>12 DEF Filed

LEMMA EditFiled ==
  ASSUME Filed, NEW r \in Editors, NEW u, Edit(r, u), Ready(u), Saving(u) \/ Removing(u)
  PROVE  Filed'
<1> DEFINE flushes == <<u>>
<1>1. /\ Orderly(flushes) /\ flushes # <<>> /\ \A i \in DOMAIN flushes : Ready(flushes[i])
      /\ Begin(r, flushes)
  BY DEF Orderly, Edit
<1> HIDE DEF flushes
<1> QED BY <1>1, BeginFiled

-----------------------------------------------------------------------------
(* Units of work, of either kind.                                           *)

Fit(u) == Saving(u) /\ Ready(u)

LEMMA FreshKey ==
  ASSUME Filed, NEW table \in Tables, NEW n \in Nat \ {0}
  PROVE  LET k == Fresh(table, n)
         IN  /\ k \in Tables \X Nat /\ Table(k) = table /\ ids[k[1]] < k[2]
             /\ k[2] - ids[table] = n
BY DEF Filed, Fresh, Table

LEMMA StoredKey ==
  ASSUME Filed, NEW table, NEW k \in In(table)
  PROVE  k \in DOMAIN db /\ k \in Tables \X Nat /\ Table(k) = table /\ k \in {table} \X Nat
BY DEF Filed, Joined, In, Table

LEMMA NoWorkFit == Fit(NoWork)
<1>1. IsFiniteSet({})
  BY FS_EmptySet
<1> QED BY <1>1 DEF NoWork, Fit, Saving, Ready, Joined

(* New rows, to be written together.                                        *)
Newly(new) ==
  /\ Joined(new) /\ IsFiniteSet(DOMAIN new)
  /\ \A k \in DOMAIN new : ids[k[1]] < k[2]

LEMMA AddingFits == ASSUME NEW new, Newly(new) PROVE Fit(Adding(new))
<1> DEFINE u == Adding(new)
<1>1. u.new = new /\ u.dirty = <<>> /\ u.loaded = <<>> /\ u.deleted = {} /\ u.orphans = {}
  BY DEF Adding, NoWork
<1> HIDE DEF u
<1>2. Saving(u)
  BY <1>1 DEF Saving, Newly
<1>3. Ready(u)
  BY <1>1 DEF Ready, Newly, Joined
<1> QED BY <1>2, <1>3 DEF Fit, u

LEMMA NewlyBoth ==
  ASSUME NEW f, NEW g, Newly(f), Newly(g), NEW h, h = f ++ g
  PROVE  Newly(h) /\ DOMAIN h = DOMAIN f \cup DOMAIN g
<1>1. /\ DOMAIN h = DOMAIN f \cup DOMAIN g
      /\ \A k \in DOMAIN h : (k \in DOMAIN f /\ h[k] = f[k]) \/ (k \in DOMAIN g /\ h[k] = g[k])
  BY DEF ++
<1>2. IsFiniteSet(DOMAIN h)
  <2> DEFINE a == DOMAIN f
             b == DOMAIN g
  <2>1. IsFiniteSet(a) /\ IsFiniteSet(b) /\ DOMAIN h = a \cup b
    BY <1>1 DEF Newly
  <2> HIDE DEF a, b
  <2> QED BY <2>1, FS_Union
<1>3. Joined(h)
  <2>1. \A k \in DOMAIN h : Linked(k, h[k])
    BY <1>1 DEF Newly, Joined
  <2>2. \A k \in DOMAIN h : Table(k) = "set_option_choices" => h[k].parent \in DOMAIN h
    BY <1>1 DEF Newly, Joined
  <2> QED BY <1>1, <2>1, <2>2 DEF Newly, Joined
<1> QED BY <1>1, <1>2, <1>3 DEF Newly

LEMMA NewlyOne ==
  ASSUME Filed, NEW table \in Tables, table # "set_option_choices", NEW n \in Nat \ {0},
         NEW row, Linked(Fresh(table, n), row)
  PROVE  Newly(Only(Fresh(table, n), row)) /\ DOMAIN Only(Fresh(table, n), row) = {Fresh(table, n)}
<1> DEFINE k == Fresh(table, n)
           new == Only(k, row)
<1>1. DOMAIN new = {k} /\ new[k] = row
  BY DEF Only
<1>2. k \in Tables \X Nat /\ Table(k) = table /\ ids[k[1]] < k[2]
  BY FreshKey
<1> HIDE DEF k, new
<1>3. IsFiniteSet({k})
  BY FS_Singleton
<1>4. Linked(k, row)
  BY DEF k
<1>5. Newly(new)
  BY <1>1, <1>2, <1>3, <1>4 DEF Newly, Joined
<1> QED BY <1>1, <1>5 DEF new, k

(* A row nothing else is needed for.                                        *)
LEMMA OneRowFits ==
  ASSUME Filed, NEW table \in Tables, NEW n \in Nat \ {0}, NEW row, Linked(Fresh(table, n), row),
         table # "set_option_choices"
  PROVE  Fit(Adding(Only(Fresh(table, n), row)))
BY NewlyOne, AddingFits

LEMMA AssigningFits ==
  ASSUME Filed, NEW table, table \notin ChildTables, NEW k \in In(table), NEW columns,
         "member" \notin DOMAIN columns,
         "parent" \in DOMAIN columns => table = "manuals" /\ columns.parent \in {"products"} \X Nat
  PROVE  LET u == Assigning(k, columns) IN
         Fit(u) /\ DOMAIN u.new = {} /\ DOMAIN u.dirty = {k} /\ u.orphans = {}
<1> DEFINE u == Assigning(k, columns)
<1>1. /\ u.new = <<>> /\ DOMAIN u.dirty = {k} /\ u.dirty[k] = columns
      /\ DOMAIN u.loaded = {k} /\ u.loaded[k] = db[k] /\ u.deleted = {} /\ u.orphans = {}
  BY DEF Assigning, NoWork, Only
<1> HIDE DEF u
<1>2. k \in DOMAIN db /\ Table(k) = table /\ Linked(k, db[k])
  BY StoredKey DEF Filed, Joined
<1>3. Saving(u)
  BY <1>1, <1>2 DEF Saving, Joined
<1>4. Ready(u)
  BY <1>1, <1>2, FS_EmptySet DEF Ready
<1> QED BY <1>1, <1>3, <1>4 DEF Fit, u

LEMMA DeletingFits ==
  ASSUME Filed, NEW keys, keys \subseteq DOMAIN db,
         \A k \in keys : Table(k) = "set_option_choices" => db[k].parent \in keys
  PROVE  Removing(Deleting(keys)) /\ Ready(Deleting(keys))
<1> DEFINE u == Deleting(keys)
<1>1. /\ u.new = <<>> /\ u.dirty = <<>> /\ u.deleted = keys /\ u.orphans = {}
      /\ DOMAIN u.loaded = keys /\ \A k \in keys : u.loaded[k] = db[k]
  BY DEF Deleting, NoWork, Loaded
<1> HIDE DEF u
<1>2. Joined(u.loaded)
  BY <1>1 DEF Filed, Joined
<1>3. Removing(u)
  BY <1>1, <1>2 DEF Removing
<1>4. Ready(u)
  BY <1>1, FS_EmptySet DEF Ready
<1> QED BY <1>3, <1>4 DEF u

(* What one session does at once, if neither part touches what the other    *)
(* drops.                                                                   *)
LEMMA BothFit ==
  ASSUME NEW u, NEW v, Fit(u), Fit(v),
         DOMAIN u.dirty \cap v.orphans = {}, DOMAIN v.dirty \cap u.orphans = {},
         u.orphans \cup v.orphans # {} =>
           \A k \in DOMAIN u.new \cup DOMAIN v.new : Table(k) \in Lists,
         DOMAIN u.dirty \cup DOMAIN v.dirty # {} =>
           \A k \in DOMAIN u.new \cup DOMAIN v.new : Table(k) \in ChildTables
  PROVE  LET w == Both(u, v) IN
         /\ Fit(w) /\ DOMAIN w.new = DOMAIN u.new \cup DOMAIN v.new
         /\ DOMAIN w.dirty = DOMAIN u.dirty \cup DOMAIN v.dirty
         /\ w.orphans = u.orphans \cup v.orphans
<1> DEFINE w == Both(u, v)
<1>1. /\ w.new = u.new ++ v.new /\ w.dirty = u.dirty ++ v.dirty /\ w.loaded = u.loaded ++ v.loaded
      /\ w.deleted = u.deleted \cup v.deleted /\ w.orphans = u.orphans \cup v.orphans
  BY DEF Both
<1> HIDE DEF w
<1>2. /\ DOMAIN w.dirty = DOMAIN u.dirty \cup DOMAIN v.dirty
      /\ \A k \in DOMAIN w.dirty : \/ k \in DOMAIN u.dirty /\ w.dirty[k] = u.dirty[k]
                                   \/ k \in DOMAIN v.dirty /\ w.dirty[k] = v.dirty[k]
      /\ DOMAIN w.loaded = DOMAIN u.loaded \cup DOMAIN v.loaded
      /\ \A k \in DOMAIN w.loaded : \/ k \in DOMAIN u.loaded /\ w.loaded[k] = u.loaded[k]
                                    \/ k \in DOMAIN v.loaded /\ w.loaded[k] = v.loaded[k]
  BY <1>1 DEF ++
<1>3. \A x \in {u, v} : Newly(x.new) /\ Saving(x) /\ Ready(x)
  BY DEF Fit, Newly, Saving, Ready
<1>4. Newly(w.new) /\ DOMAIN w.new = DOMAIN u.new \cup DOMAIN v.new
  <2> DEFINE f == u.new
             g == v.new
             h == w.new
  <2>1. Newly(f) /\ Newly(g) /\ h = f ++ g
    BY <1>1, <1>3
  <2> HIDE DEF f, g, h
  <2>2. Newly(h) /\ DOMAIN h = DOMAIN f \cup DOMAIN g
    BY <2>1, NewlyBoth
  <2> QED BY <2>2 DEF f, g, h
<1>5. Saving(w)
  <2>1. \A k \in DOMAIN w.loaded : Linked(k, w.loaded[k])
    BY <1>2, <1>3 DEF Saving
  <2>2. ASSUME NEW k \in DOMAIN w.dirty
        PROVE  /\ Table(k) \in ChildTables => Table(k) \in Lists
               /\ "member" \notin DOMAIN w.dirty[k]
               /\ "parent" \in DOMAIN w.dirty[k] =>
                    Table(k) = "manuals" /\ w.dirty[k].parent \in {"products"} \X Nat
    BY <1>2, <1>3 DEF Saving
  <2>3. /\ w.deleted = {} /\ DOMAIN w.loaded = DOMAIN w.dirty \cup w.orphans
        /\ DOMAIN w.dirty \cap w.orphans = {}
        /\ \A k \in w.orphans : Table(k) \in Lists \cup {"set_option_groups"}
    BY <1>1, <1>2, <1>3 DEF Saving
  <2>4. /\ w.orphans # {} => \A k \in DOMAIN w.new : Table(k) \in Lists
        /\ DOMAIN w.dirty # {} => \A k \in DOMAIN w.new : Table(k) \in ChildTables
    BY <1>1, <1>2, <1>4
  <2> QED BY <1>4, <2>1, <2>2, <2>3, <2>4 DEF Saving, Newly
<1>6. Ready(w)
  <2>1. \A k \in DOMAIN w.loaded : k \in DOMAIN db /\ w.loaded[k] = db[k]
    BY <1>2, <1>3 DEF Ready
  <2> QED BY <1>4, <2>1 DEF Ready, Newly, Joined
<1> QED BY <1>1, <1>2, <1>4, <1>5, <1>6 DEF Fit, w

(* The elements of a finite set in some order.                              *)
LEMMA ListedOK ==
  ASSUME NEW S, IsFiniteSet(S)
  PROVE  Cardinality(S) \in Nat /\ SetToSeq(S) \in [1 .. Cardinality(S) -> S]
<1>1. Cardinality(S) \in Nat /\ ExistsBijection(1 .. Cardinality(S), S)
  BY FS_CardinalityType
<1>2. PICK f \in Bijection(1 .. Cardinality(S), S) : TRUE
  BY <1>1 DEF ExistsBijection
<1>3. f \in [1 .. Cardinality(S) -> S] /\ IsInjective(f)
  BY <1>2 DEF Bijection, Injection, IsInjective
<1> QED BY <1>1, <1>3 DEF SetToSeq

(* Keys nobody has drawn, in a row.                                         *)
LEMMA BatchOK ==
  ASSUME Filed, NEW table \in Tables, NEW n \in Nat,
         NEW new, DOMAIN new = {Fresh(table, i) : i \in 1 .. n}
  PROVE  /\ IsFiniteSet(DOMAIN new)
         /\ \A k \in DOMAIN new : /\ k \in Tables \X Nat /\ Table(k) = table /\ ids[k[1]] < k[2]
                                  /\ k[2] - ids[table] \in 1 .. n
<1>1. IsFiniteSet(1 .. n)
  BY FS_Interval
<1>2. [i \in 1 .. n |-> Fresh(table, i)] \in Surjection(1 .. n, DOMAIN new)
  BY DEF Surjection
<1>3. IsFiniteSet(DOMAIN new)
  BY <1>1, <1>2, FS_Surjection
<1>4. \A i \in 1 .. n : i \in Nat \ {0}
  OBVIOUS
<1>5. ASSUME NEW i \in 1 .. n
      PROVE  LET k == Fresh(table, i)
             IN  /\ k \in Tables \X Nat /\ Table(k) = table /\ ids[k[1]] < k[2]
                 /\ k[2] - ids[table] = i
  BY <1>4, FreshKey
<1> QED BY <1>3, <1>5

LEMMA ContentsFit ==
  ASSUME Filed, NEW table \in Lists, NEW owner \in {Owner[table]} \X Nat,
         NEW items, IsFiniteSet(DOMAIN items), DOMAIN items \subseteq {"products"} \X Nat,
         NEW new, new = Contents(table, owner, items)
  PROVE  Newly(new) /\ \A k \in DOMAIN new : Table(k) = table
<1> DEFINE n == Cardinality(DOMAIN items)
           listed == SetToSeq(DOMAIN items)
<1>1. n \in Nat /\ listed \in [1 .. n -> DOMAIN items]
  BY ListedOK
<1>2. /\ DOMAIN new = {Fresh(table, i) : i \in DOMAIN listed}
      /\ \A k \in DOMAIN new :
           /\ DOMAIN new[k] = {"parent", "member", "qty"}
           /\ new[k].parent = owner /\ new[k].member = listed[k[2] - ids[table]]
  BY DEF Contents
<1>3. table \in Tables /\ table \in DOMAIN Owner /\ table # "set_option_choices"
  BY DEF Lists, Tables, Owner
<1> HIDE DEF n, listed
<1>4. DOMAIN listed = 1 .. n
  BY <1>1
<1>5. /\ IsFiniteSet(DOMAIN new)
      /\ \A k \in DOMAIN new : /\ k \in Tables \X Nat /\ Table(k) = table /\ ids[k[1]] < k[2]
                               /\ k[2] - ids[table] \in 1 .. n
  BY <1>1, <1>2, <1>3, <1>4, BatchOK
<1>6. ASSUME NEW k \in DOMAIN new PROVE Linked(k, new[k])
  <2>1. new[k].member \in {"products"} \X Nat
    BY <1>1, <1>2, <1>5
  <2>2. "parent" \in DOMAIN new[k] /\ "member" \in DOMAIN new[k] /\ Table(k) = table
    BY <1>2, <1>5
  <2> QED BY <1>2, <1>3, <2>1, <2>2 DEF Linked
<1> QED BY <1>3, <1>5, <1>6 DEF Newly, Joined

LEMMA ReplaceFits ==
  ASSUME Filed, NEW table \in Lists, NEW owner \in {Owner[table]} \X Nat,
         NEW items, IsFiniteSet(DOMAIN items), DOMAIN items \subseteq {"products"} \X Nat,
         NEW u, u = ReplaceRows(table, owner, items)
  PROVE  /\ Fit(u)
         /\ \A k \in DOMAIN u.new \cup DOMAIN u.dirty \cup u.orphans : Table(k) = table
<1> DEFINE current == Under(owner, {table})
           members == {db[k].member : k \in current}
           kept == {k \in current : db[k].member \in DOMAIN items}
           rest == Restrict(items, DOMAIN items \ members)
<1>1. /\ u.new = Contents(table, owner, rest)
      /\ DOMAIN u.dirty = kept /\ \A k \in kept : DOMAIN u.dirty[k] = {"qty"}
      /\ u.orphans = current \ kept /\ DOMAIN u.loaded = current
      /\ \A k \in current : u.loaded[k] = db[k]
      /\ u.deleted = {}
  BY DEF ReplaceRows, NoWork, Loaded
<1>2. DOMAIN rest \subseteq DOMAIN items
  BY DEF Restrict
<1>3. IsFiniteSet(DOMAIN rest) /\ DOMAIN rest \subseteq {"products"} \X Nat
  BY <1>2, FS_Subset
<1> HIDE DEF rest
<1>4. Newly(u.new) /\ \A k \in DOMAIN u.new : Table(k) = table
  BY <1>1, <1>3, ContentsFit
<1>5. \A k \in current : k \in DOMAIN db /\ Table(k) = table /\ Linked(k, db[k])
  BY DEF Under, Filed, Joined
<1>6. kept \subseteq current
  OBVIOUS
<1> HIDE DEF current, kept
<1>7. \A k \in DOMAIN u.new \cup DOMAIN u.dirty \cup u.orphans : Table(k) = table
  BY <1>1, <1>4, <1>5, <1>6
<1>8. Saving(u)
  BY <1>1, <1>4, <1>5, <1>6, <1>7, OwnersOK DEF Saving, Newly
<1>9. Ready(u)
  BY <1>1, <1>4, <1>5 DEF Ready, Newly, Joined
<1> QED BY <1>7, <1>8, <1>9 DEF Fit

(* The groups of a set and, in the same unit, their choices.                *)
LEMMA GroupsFit ==
  ASSUME Filed, NEW owner \in {"sets"} \X Nat, NEW groups \in GroupForms,
         \A i \in DOMAIN groups : groups[i] \subseteq {"products"} \X Nat
  PROVE  LET u == Groups(owner, groups) IN
         /\ Fit(u) /\ u.dirty = <<>> /\ u.orphans = {} /\ u.loaded = <<>>
         /\ \A k \in DOMAIN u.new : Table(k) \in {"set_option_groups", "set_option_choices"}
<1> DEFINE pairs == UNION {{i} \X groups[i] : i \in DOMAIN groups}
           offered == SetToSeq(pairs)
           n == Len(groups)
           m == Cardinality(pairs)
           g == "set_option_groups"
           c == "set_option_choices"
           up == [k \in {Fresh(g, i) : i \in DOMAIN groups} |-> [parent |-> owner]]
           down == [k \in {Fresh(c, i) : i \in DOMAIN offered} |->
                      LET choice == offered[k[2] - ids[c]]
                      IN [parent |-> Fresh(g, choice[1]), member |-> choice[2]]]
           new == up ++ down
<1>1. Groups(owner, groups) = Adding(new)
  BY DEF Groups
<1>2. n \in Nat /\ DOMAIN groups = 1 .. n /\ \A i \in DOMAIN groups : IsFiniteSet(groups[i])
  BY FormsAssumption
<1>3. IsFiniteSet(pairs)
  <2> DEFINE parts == {{i} \X groups[i] : i \in DOMAIN groups}
  <2>1. [i \in 1 .. n |-> {i} \X groups[i]] \in Surjection(1 .. n, parts)
    BY <1>2 DEF Surjection
  <2>2. IsFiniteSet(1 .. n)
    BY <1>2, FS_Interval
  <2>3. ASSUME NEW T \in parts PROVE IsFiniteSet(T)
    <3>1. PICK i \in DOMAIN groups : T = {i} \X groups[i]
      OBVIOUS
    <3> DEFINE a == {i}
               b == groups[i]
    <3>2. IsFiniteSet(a)
      BY FS_Singleton
    <3>3. IsFiniteSet(b)
      BY <1>2
    <3> HIDE DEF a, b
    <3>4. IsFiniteSet(a \X b)
      BY <3>2, <3>3, FS_Product
    <3> QED BY <3>1, <3>4 DEF a, b
  <2> HIDE DEF parts
  <2>4. IsFiniteSet(parts)
    BY <2>1, <2>2, FS_Surjection
  <2>5. IsFiniteSet(UNION parts)
    BY <2>3, <2>4, FS_UNION
  <2> QED BY <2>5 DEF parts
<1>4. \A p \in pairs : p[1] \in DOMAIN groups /\ p[2] \in {"products"} \X Nat
  OBVIOUS
<1> HIDE DEF pairs
<1>5. m \in Nat /\ offered \in [1 .. m -> pairs]
  BY <1>3, ListedOK
<1>6. /\ DOMAIN up = {Fresh(g, i) : i \in 1 .. n}
      /\ \A k \in DOMAIN up : DOMAIN up[k] = {"parent"} /\ up[k].parent = owner
  BY <1>2
<1>7. /\ DOMAIN down = {Fresh(c, i) : i \in 1 .. m}
      /\ \A k \in DOMAIN down :
           /\ DOMAIN down[k] = {"parent", "member"}
           /\ down[k].parent = Fresh(g, offered[k[2] - ids[c]][1])
           /\ down[k].member = offered[k[2] - ids[c]][2]
  BY <1>5
<1>8. /\ DOMAIN new = DOMAIN up \cup DOMAIN down
      /\ \A k \in DOMAIN new : (k \in DOMAIN up /\ new[k] = up[k]) \/ (k \in DOMAIN down /\ new[k] = down[k])
  BY DEF ++
<1> HIDE DEF offered, n, m, up, down, new
<1>9. g \in Tables /\ c \in Tables /\ g \in DOMAIN Owner /\ c \in DOMAIN Owner /\ Owner[g] = "sets" /\ Owner[c] = g
  BY DEF Tables, Owner
<1>10. /\ IsFiniteSet(DOMAIN up)
       /\ \A k \in DOMAIN up : k \in Tables \X Nat /\ Table(k) = g /\ ids[k[1]] < k[2]
  BY <1>2, <1>6, <1>9, BatchOK
<1>11. /\ IsFiniteSet(DOMAIN down)
       /\ \A k \in DOMAIN down : /\ k \in Tables \X Nat /\ Table(k) = c /\ ids[k[1]] < k[2]
                                 /\ k[2] - ids[c] \in 1 .. m
  BY <1>5, <1>7, <1>9, BatchOK
<1>12. ASSUME NEW k \in DOMAIN up PROVE Linked(k, up[k])
  BY <1>6, <1>9, <1>10 DEF Linked
<1>13. ASSUME NEW k \in DOMAIN down PROVE Linked(k, down[k]) /\ down[k].parent \in DOMAIN up
  <2> DEFINE p == offered[k[2] - ids[c]]
  <2>1. p \in pairs
    BY <1>5, <1>11
  <2>2. p[1] \in 1 .. n /\ p[2] \in {"products"} \X Nat
    BY <1>2, <1>4, <2>1
  <2>3. /\ DOMAIN down[k] = {"parent", "member"}
        /\ down[k].parent = Fresh(g, p[1]) /\ down[k].member = p[2]
    BY <1>7
  <2> HIDE DEF p
  <2>4. down[k].parent \in DOMAIN up
    BY <1>6, <2>2, <2>3
  <2>5. down[k].parent \in {g} \X Nat
    BY <1>10, <2>4 DEF Table
  <2> QED BY <1>9, <1>11, <2>2, <2>3, <2>4, <2>5 DEF Linked
<1>14. IsFiniteSet(DOMAIN new)
  <2> DEFINE a == DOMAIN up
             b == DOMAIN down
  <2> HIDE DEF a, b
  <2>1. IsFiniteSet(a) /\ IsFiniteSet(b)
    BY <1>10, <1>11 DEF a, b
  <2>2. IsFiniteSet(a \cup b)
    BY <2>1, FS_Union
  <2> QED BY <1>8, <2>2 DEF a, b
<1>15. Joined(new)
  <2>1. DOMAIN new \subseteq Tables \X Nat
    BY <1>8, <1>10, <1>11
  <2>2. \A k \in DOMAIN new : Linked(k, new[k])
    BY <1>8, <1>12, <1>13
  <2>3. \A k \in DOMAIN new : Table(k) = c => new[k].parent \in DOMAIN new
    BY <1>8, <1>10, <1>13
  <2> QED BY <2>1, <2>2, <2>3 DEF Joined
<1>16. Newly(new)
  BY <1>8, <1>10, <1>11, <1>14, <1>15 DEF Newly
<1>17. Fit(Adding(new))
  BY <1>16, AddingFits
<1>18. /\ Adding(new).new = new /\ Adding(new).dirty = <<>> /\ Adding(new).orphans = {}
       /\ Adding(new).loaded = <<>>
  BY DEF Adding, NoWork
<1> QED BY <1>1, <1>8, <1>10, <1>11, <1>17, <1>18

-----------------------------------------------------------------------------
(* The handlers.                                                            *)

Loose(row) == DOMAIN row \cap {"parent", "member"} = {}

LEMMA CreateFiled ==
  ASSUME Filed, NEW r \in Editors, NEW table \in Tables \ DOMAIN Owner, NEW row, Loose(row),
         Edit(r, Adding(Only(Fresh(table, 1), row)))
  PROVE  Filed'
<1>1. Table(Fresh(table, 1)) = table
  BY DEF Fresh, Table
<1>2. Linked(Fresh(table, 1), row)
  BY <1>1 DEF Linked, Loose
<1>3. table # "set_option_choices"
  BY DEF Owner
<1> DEFINE u == Adding(Only(Fresh(table, 1), row))
<1>4. Fit(u)
  BY <1>2, <1>3, OneRowFits
<1>5. Edit(r, u)
  OBVIOUS
<1> HIDE DEF u
<1> QED BY <1>4, <1>5, EditFiled DEF Fit

LEMMA AssignFiled ==
  ASSUME Filed, NEW r \in Editors, NEW table, table \notin ChildTables, NEW k \in In(table),
         NEW columns, Loose(columns), Edit(r, Assigning(k, columns))
  PROVE  Filed'
<1> DEFINE u == Assigning(k, columns)
<1>1. "member" \notin DOMAIN columns /\ "parent" \notin DOMAIN columns
  BY DEF Loose
<1>2. Fit(u)
  BY <1>1, AssigningFits
<1>3. Edit(r, u)
  OBVIOUS
<1> HIDE DEF u
<1> QED BY <1>2, <1>3, EditFiled DEF Fit

LEMMA UploadFiled ==
  ASSUME Filed, NEW r \in Editors, NEW table, table \notin ChildTables, NEW k \in In(table),
         NEW column \in {"image", "pdf", "banner", "detail"}, NEW file,
         Edit(r, Assigning(k, Only(column, file)))
  PROVE  Filed'
<1>1. DOMAIN Only(column, file) = {column}
  BY DEF Only
<1>2. Loose(Only(column, file))
  BY <1>1 DEF Loose
<1> QED BY <1>2, AssignFiled

LEMMA DeleteFiled ==
  ASSUME Filed, NEW r \in Editors, NEW keys, keys \subseteq DOMAIN db,
         \A k \in keys : Table(k) = "set_option_choices" => db[k].parent \in keys,
         Edit(r, Deleting(keys))
  PROVE  Filed'
<1> DEFINE u == Deleting(keys)
<1>1. Removing(u) /\ Ready(u)
  BY DeletingFits
<1>2. Edit(r, u)
  OBVIOUS
<1> HIDE DEF u
<1> QED BY <1>1, <1>2, EditFiled

LEMMA DeleteRowFiled ==
  ASSUME Filed, NEW r \in Editors, NEW table, table # "set_option_choices", NEW k \in In(table),
         DeleteRow(r, k)
  PROVE  Filed'
<1> DEFINE keys == {k}
<1>1. keys \subseteq DOMAIN db /\ \A j \in keys : Table(j) = table
  BY DEF In
<1>2. Edit(r, Deleting(keys))
  BY DEF DeleteRow
<1> HIDE DEF keys
<1> QED BY <1>1, <1>2, DeleteFiled

LEMMA SyncedLoose == ASSUME NEW row, NEW data, Loose(data) PROVE Loose(SyncPriceFields(row, data))
<1> DEFINE list == Max({Sent(data, "list_price", row.list_price), Sent(data, "price", row.price)})
           discount == Sent(data, "discount",
             DiscountFromPrices(list, Sent(data, "price", row.price),
                                Sent(data, "discount_type", row.discount_type)))
           derived == [list_price |-> list, discount |-> discount]
<1>1. SyncPriceFields(row, data) = data \/ SyncPriceFields(row, data) = derived ++ data
  BY DEF SyncPriceFields
<1>2. DOMAIN derived = {"list_price", "discount"}
  OBVIOUS
<1> HIDE DEF derived
<1>3. DOMAIN (derived ++ data) = {"list_price", "discount"} \cup DOMAIN data
  BY <1>2 DEF ++
<1> QED BY <1>1, <1>3 DEF Loose

LEMMA GoodsOK ==
  ASSUME Filed, NEW items, NEW owner, Sellable(items, owner)
  PROVE  DOMAIN items \subseteq {"products"} \X Nat
BY StoredKey DEF Sellable

(* A row and the list of its contents, in one unit of work.                 *)
LEMMA BundleFits ==
  ASSUME Filed, NEW table \in {"products", "promotions", "sets"}, NEW list \in Lists, Owner[list] = table,
         NEW row, Loose(row), NEW items, IsFiniteSet(DOMAIN items), NEW other, Sellable(items, other)
  PROVE  LET k == Fresh(table, 1)
             u == Adding(Only(k, row) ++ Contents(list, k, items))
         IN  Fit(u) /\ u.dirty = <<>> /\ u.orphans = {}
<1> DEFINE k == Fresh(table, 1)
           f == Only(k, row)
           g == Contents(list, k, items)
           h == f ++ g
<1>1. table \in Tables \ DOMAIN Owner /\ table # "set_option_choices"
  BY DEF Tables, Owner
<1>2. k \in {table} \X Nat /\ Table(k) = table
  BY <1>1, FreshKey DEF Table
<1>3. Linked(k, row)
  BY <1>1, <1>2 DEF Linked, Loose
<1>4. Newly(f)
  <2> DEFINE one == 1
  <2>1. one \in Nat \ {0} /\ f = Only(Fresh(table, one), row) /\ Linked(Fresh(table, one), row)
    BY <1>3
  <2> HIDE DEF one, f
  <2>2. Newly(Only(Fresh(table, one), row))
    BY <1>1, <2>1, NewlyOne
  <2> QED BY <2>1, <2>2
<1>5. DOMAIN items \subseteq {"products"} \X Nat
  BY GoodsOK
<1>6. Newly(g)
  <2> HIDE DEF k
  <2> QED BY <1>2, <1>5, ContentsFit
<1> HIDE DEF f, g
<1>7. Newly(h)
  BY <1>4, <1>6, NewlyBoth
<1> HIDE DEF h
<1>8. Fit(Adding(h))
  BY <1>7, AddingFits
<1>9. Adding(h).dirty = <<>> /\ Adding(h).orphans = {}
  BY DEF Adding, NoWork
<1> QED BY <1>8, <1>9 DEF f, g, h

LEMMA BundleFiled ==
  ASSUME Filed, NEW r \in Editors,
         NEW table \in {"products", "promotions", "sets"}, NEW list \in Lists, Owner[list] = table,
         NEW row, Loose(row), NEW items, IsFiniteSet(DOMAIN items), NEW other, Sellable(items, other),
         Edit(r, Adding(Only(Fresh(table, 1), row) ++ Contents(list, Fresh(table, 1), items)))
  PROVE  Filed'
<1> DEFINE u == Adding(Only(Fresh(table, 1), row) ++ Contents(list, Fresh(table, 1), items))
<1>1. Fit(u)
  BY BundleFits
<1>2. Edit(r, u)
  OBVIOUS
<1> HIDE DEF u
<1> QED BY <1>1, <1>2, EditFiled DEF Fit

(* A row's columns, and its contents if they were sent.                     *)
LEMMA ReviseFiled ==
  ASSUME Filed, NEW r \in Editors,
         NEW table \in {"products", "promotions", "sets"}, NEW list \in Lists, Owner[list] = table,
         NEW k \in In(table), NEW columns, Loose(columns),
         NEW items, items # None => IsFiniteSet(DOMAIN items) /\ \E other : Sellable(items, other),
         NEW contents, contents = IF items = None THEN NoWork ELSE ReplaceRows(list, k, items),
         Edit(r, Both(Assigning(k, columns), contents)) \/ Edit(r, Both(contents, Assigning(k, columns)))
  PROVE  Filed'
<1> DEFINE fields == Assigning(k, columns)
<1>1. table \notin ChildTables
  BY OwnersOK
<1>2. "member" \notin DOMAIN columns /\ "parent" \notin DOMAIN columns
  BY DEF Loose
<1>3. /\ Fit(fields) /\ DOMAIN fields.new = {} /\ DOMAIN fields.dirty = {k}
      /\ fields.orphans = {}
  BY <1>1, <1>2, AssigningFits
<1>4. k \in {table} \X Nat /\ Table(k) = table
  BY StoredKey
<1>5. /\ Fit(contents)
      /\ \A j \in DOMAIN contents.new \cup DOMAIN contents.dirty \cup contents.orphans : Table(j) = list
  <2>1. CASE items = None
    BY <2>1, NoWorkFit DEF NoWork
  <2>2. CASE items # None
    <3>1. DOMAIN items \subseteq {"products"} \X Nat
      BY <2>2, GoodsOK
    <3> QED BY <1>4, <2>2, <3>1, ReplaceFits
  <2> QED BY <2>1, <2>2
<1>6. list \in ChildTables /\ list # table
  BY OwnersOK
<1> DEFINE u == Both(fields, contents)
           v == Both(contents, fields)
<1>7. Edit(r, u) \/ Edit(r, v)
  OBVIOUS
<1> HIDE DEF fields
<1>8. Fit(u) /\ Fit(v)
  BY <1>3, <1>4, <1>5, <1>6, BothFit
<1> HIDE DEF u, v
<1> QED BY <1>7, <1>8, EditFiled DEF Fit

LEMMA UpdateProductFiled ==
  ASSUME Filed, NEW r \in Editors, NEW p \in In("products"), NEW data, Loose(data),
         NEW items, items # None => IsFiniteSet(DOMAIN items), UpdateProduct(r, p, data, items)
  PROVE  Filed'
<1> DEFINE columns == SyncPriceFields(db[p], data)
           contents == IF items = None THEN NoWork ELSE ReplaceRows("product_free_items", p, items)
<1>1. Loose(columns)
  BY SyncedLoose
<1>2. /\ items # None => \E other : Sellable(items, other)
      /\ Edit(r, Both(Assigning(p, columns), contents))
  BY DEF UpdateProduct
<1>3. "product_free_items" \in Lists /\ Owner["product_free_items"] = "products"
  BY DEF Lists, Owner
<1> HIDE DEF columns
<1> QED BY <1>1, <1>2, <1>3, ReviseFiled

LEMMA CreateProductFiled ==
  ASSUME Filed, NEW r \in Editors, NEW data, Loose(data), CreateProduct(r, data, <<>>)
  PROVE  Filed'
<1> DEFINE list == Sent(data, "list_price",
                        DeriveListPrice(data.price, data.discount, data.discount_type))
           given == [list_price |-> list, image |-> None]
           row == given ++ data
           items == <<>>
<1>1. Sellable(items, None) /\ IsFiniteSet(DOMAIN items)
  BY FS_EmptySet DEF Sellable
<1>2. Edit(r, Adding(Only(Fresh("products", 1), row)
                     ++ Contents("product_free_items", Fresh("products", 1), items)))
  BY DEF CreateProduct
<1>3. DOMAIN given = {"list_price", "image"}
  OBVIOUS
<1> HIDE DEF given
<1>4. DOMAIN row = {"list_price", "image"} \cup DOMAIN data
  BY <1>3 DEF ++
<1>5. Loose(row)
  BY <1>4 DEF Loose
<1>6. "product_free_items" \in Lists /\ Owner["product_free_items"] = "products"
  BY DEF Lists, Owner
<1> HIDE DEF row, items
<1> QED BY <1>1, <1>2, <1>5, <1>6, BundleFiled

LEMMA PricesFiled == ASSUME Filed, NEW r \in Editors, PricesDesk(r) PROVE Filed'
<1>1. \A data \in PriceForms \cup ProductForms : Loose(data)
  BY FormsAssumption DEF Loose
<1>2. ASSUME NEW p \in In("products"), NEW data \in PriceForms, UpdateProductPrice(r, p, data)
      PROVE  Filed'
  <2> DEFINE columns == SyncPriceFields(db[p], data)
  <2>1. Loose(columns)
    BY <1>1, SyncedLoose
  <2>2. Edit(r, Assigning(p, columns)) /\ "products" \notin ChildTables
    BY <1>2, OwnersOK DEF UpdateProductPrice
  <2> HIDE DEF columns
  <2> QED BY <2>1, <2>2, AssignFiled
<1>3. ASSUME NEW p \in In("products"), NEW data \in PriceForms, UpdateProduct(r, p, data, None)
      PROVE  Filed'
  BY <1>1, <1>3, UpdateProductFiled
<1>4. ASSUME NEW data \in ProductForms, CreateProduct(r, data, <<>>) PROVE Filed'
  BY <1>1, <1>4, CreateProductFiled
<1> QED BY <1>2, <1>3, <1>4 DEF PricesDesk

LEMMA DeleteProductFiled ==
  ASSUME Filed, NEW r \in Editors, NEW p \in In("products"), DeleteProduct(r, p)
  PROVE  Filed'
<1> DEFINE keys == {p} \cup Under(p, {"manuals", "product_images", "product_free_items"})
<1>1. keys \subseteq DOMAIN db /\ \A k \in keys : Table(k) # "set_option_choices"
  BY DEF Under, In
<1>2. Edit(r, Deleting(keys))
  BY DEF DeleteProduct
<1> HIDE DEF keys
<1> QED BY <1>1, <1>2, DeleteFiled

LEMMA GalleryFiled == ASSUME Filed, NEW r \in Editors, GalleryDesk(r) PROVE Filed'
<1>1. PICK p \in In("products") :
        \/ UploadProductImage(r, p)
        \/ \E n \in 1 .. 2 : UploadGalleryImages(r, p, n) \/ UploadGalleryVideos(r, p, n)
        \/ \E k \in In("product_images") : DeleteGalleryItem(r, p, k)
        \/ DeleteProduct(r, p)
  BY DEF GalleryDesk
<1>2. ASSUME UploadProductImage(r, p) PROVE Filed'
  <2>1. Edit(r, Assigning(p, Only("image", <<db[p].section, db[p].name, "">>)))
    BY <1>2 DEF UploadProductImage, UploadNamedImage
  <2> QED BY <2>1, UploadFiled, OwnersOK
<1>3. ASSUME NEW n \in 1 .. 2, NEW kind, UploadGallery(r, p, n, kind) PROVE Filed'
  <2> DEFINE row(i) == [parent |-> p, sort_order |-> NextOrder(p) + i - 1, media_type |-> kind]
             batch == {Fresh("product_images", i) : i \in 1 .. n}
             new == [k \in batch |-> row(k[2] - ids["product_images"])]
             u == Adding(new)
  <2>1. Edit(r, u)
    BY <1>3 DEF UploadGallery, Edit
  <2>2. /\ DOMAIN new = {Fresh("product_images", i) : i \in 1 .. n}
        /\ \A k \in DOMAIN new :
             DOMAIN new[k] = {"parent", "sort_order", "media_type"} /\ new[k].parent = p
    OBVIOUS
  <2>3. n \in Nat /\ "product_images" \in Tables
    BY DEF Tables
  <2> HIDE DEF new
  <2>4. /\ IsFiniteSet(DOMAIN new)
        /\ \A k \in DOMAIN new : k \in Tables \X Nat /\ Table(k) = "product_images" /\ ids[k[1]] < k[2]
    BY <2>2, <2>3, BatchOK
  <2>5. p \in {"products"} \X Nat
    BY StoredKey
  <2>6. "product_images" \in DOMAIN Owner /\ Owner["product_images"] = "products"
    BY DEF Owner
  <2>7. \A k \in DOMAIN new : Linked(k, new[k])
    BY <2>2, <2>4, <2>5, <2>6 DEF Linked
  <2>8. Newly(new)
    BY <2>4, <2>7 DEF Newly, Joined
  <2>9. Fit(u)
    BY <2>8, AddingFits
  <2> HIDE DEF u
  <2> QED BY <2>1, <2>9, EditFiled DEF Fit
<1>4. ASSUME NEW k \in In("product_images"), DeleteGalleryItem(r, p, k) PROVE Filed'
  BY <1>4, DeleteRowFiled DEF DeleteGalleryItem, DeleteRow
<1> QED BY <1>1, <1>2, <1>3, <1>4, DeleteProductFiled DEF UploadGalleryImages, UploadGalleryVideos

(* PATCH of a set that sends its option groups flushes twice.               *)
LEMMA UpdateSetFiled ==
  ASSUME Filed, NEW r \in Editors, NEW k \in In("sets"), NEW data, Loose(data),
         NEW items, items # None => IsFiniteSet(DOMAIN items),
         NEW groups \in GroupForms \cup {None}, UpdateSet(r, k, data, items, groups)
  PROVE  Filed'
<1> DEFINE contents == IF items = None THEN NoWork ELSE ReplaceRows("set_items", k, items)
           old == Under(k, {"set_option_groups"})
           removal == [NoWork EXCEPT !.orphans = old, !.loaded = Loaded(old)]
           fields == Assigning(k, data)
           u == Both(contents, removal)
           added == Groups(k, groups)
           v == Both(added, fields)
<1>1. /\ items # None => \E other : Sellable(items, other)
      /\ groups # None => Offerable(groups)
      /\ groups = None => Begin(r, <<Both(contents, fields)>>)
      /\ groups # None => Begin(r, <<u, v>>)
  BY DEF UpdateSet
<1>2. "set_items" \in Lists /\ Owner["set_items"] = "sets" /\ "sets" \notin ChildTables
  BY DEF Lists, Owner, ChildTables
<1>3. CASE groups = None
  <2>1. Edit(r, Both(contents, fields))
    BY <1>1, <1>3 DEF Edit
  <2> QED BY <1>1, <1>2, <2>1, ReviseFiled
<1>4. CASE groups # None
  <2>1. k \in {"sets"} \X Nat /\ Table(k) = "sets"
    BY StoredKey
  <2>2. /\ Fit(contents)
        /\ \A j \in DOMAIN contents.new \cup DOMAIN contents.dirty \cup contents.orphans :
             Table(j) = "set_items"
    <3>1. CASE items = None
      BY <3>1, NoWorkFit DEF NoWork
    <3>2. CASE items # None
      <4>1. DOMAIN items \subseteq {"products"} \X Nat
        BY <1>1, <3>2, GoodsOK
      <4> QED BY <1>2, <2>1, <3>2, <4>1, ReplaceFits
    <3> QED BY <3>1, <3>2
  <2>3. /\ removal.new = <<>> /\ removal.dirty = <<>> /\ removal.deleted = {} /\ removal.orphans = old
        /\ DOMAIN removal.loaded = old /\ \A j \in old : removal.loaded[j] = db[j]
    BY DEF NoWork, Loaded
  <2>4. \A j \in old : j \in DOMAIN db /\ Table(j) = "set_option_groups" /\ Linked(j, db[j])
    BY DEF Under, Filed, Joined
  <2> HIDE DEF contents, old, removal
  <2>5. Fit(removal)
    <3>1. Saving(removal)
      BY <2>3, <2>4 DEF Saving, Joined
    <3>2. Ready(removal)
      BY <2>3, <2>4, FS_EmptySet DEF Ready
    <3> QED BY <3>1, <3>2 DEF Fit
  <2>6. /\ Fit(u) /\ DOMAIN u.new = DOMAIN contents.new /\ DOMAIN u.dirty = DOMAIN contents.dirty
    <3>1. DOMAIN removal.new = {} /\ DOMAIN removal.dirty = {} /\ removal.orphans = old
      BY <2>3
    <3>2. DOMAIN contents.dirty \cap removal.orphans = {}
      BY <2>2, <2>4, <3>1
    <3>3. DOMAIN removal.dirty \cap contents.orphans = {}
      BY <3>1
    <3>4. \A j \in DOMAIN contents.new \cup DOMAIN removal.new : Table(j) \in Lists
      BY <1>2, <2>2, <3>1
    <3>5. \A j \in DOMAIN contents.new \cup DOMAIN removal.new : Table(j) \in ChildTables
      BY <3>4, OwnersOK
    <3>6. /\ Fit(u) /\ DOMAIN u.new = DOMAIN contents.new \cup DOMAIN removal.new
          /\ DOMAIN u.dirty = DOMAIN contents.dirty \cup DOMAIN removal.dirty
      BY <2>2, <2>5, <3>2, <3>3, <3>4, <3>5, BothFit
    <3> QED BY <3>1, <3>6
  <2>7. \A i \in DOMAIN groups : groups[i] \subseteq {"products"} \X Nat
    BY <1>1, <1>4, StoredKey DEF Offerable
  <2>8. /\ Fit(added) /\ added.dirty = <<>> /\ added.orphans = {}
        /\ \A j \in DOMAIN added.new : Table(j) \in {"set_option_groups", "set_option_choices"}
    BY <1>4, <2>1, <2>7, GroupsFit
  <2>9. /\ Fit(fields) /\ DOMAIN fields.new = {} /\ DOMAIN fields.dirty = {k}
        /\ fields.orphans = {}
    <3>1. "member" \notin DOMAIN data /\ "parent" \notin DOMAIN data
      BY DEF Loose
    <3> QED BY <1>2, <3>1, AssigningFits
  <2> HIDE DEF added, fields
  <2>10. /\ Fit(v) /\ DOMAIN v.new = DOMAIN added.new /\ DOMAIN v.dirty = {k} /\ v.orphans = {}
    <3>1. \A j \in DOMAIN added.new \cup DOMAIN fields.new : Table(j) \in ChildTables
      BY <2>8, <2>9, OwnersOK
    <3>2. DOMAIN added.dirty = {} /\ added.orphans \cup fields.orphans = {}
      BY <2>8, <2>9
    <3>3. /\ DOMAIN added.dirty \cap fields.orphans = {}
          /\ DOMAIN fields.dirty \cap added.orphans = {}
      BY <2>8, <2>9
    <3>4. /\ Fit(v) /\ DOMAIN v.new = DOMAIN added.new \cup DOMAIN fields.new
          /\ DOMAIN v.dirty = DOMAIN added.dirty \cup DOMAIN fields.dirty
          /\ v.orphans = added.orphans \cup fields.orphans
      BY <2>8, <2>9, <3>1, <3>2, <3>3, BothFit
    <3> QED BY <2>9, <3>2, <3>4
  <2> DEFINE flushes == <<u, v>>
  <2>11. Twofold(u, v)
    BY <1>2, <2>1, <2>2, <2>6, <2>8, <2>10, OwnersOK DEF Twofold
  <2> HIDE DEF u, v
  <2>12. /\ Len(flushes) = 2 /\ DOMAIN flushes = 1 .. 2 /\ flushes[1] = u /\ flushes[2] = v
         /\ flushes # <<>>
    OBVIOUS
  <2>13. Begin(r, flushes)
    BY <1>1, <1>4
  <2> HIDE DEF flushes
  <2>14. Orderly(flushes)
    BY <2>6, <2>10, <2>11, <2>12 DEF Orderly, Fit
  <2>15. \A i \in DOMAIN flushes : Ready(flushes[i])
    BY <2>6, <2>10, <2>12 DEF Fit
  <2> QED BY <2>12, <2>13, <2>14, <2>15, BeginFiled
<1> QED BY <1>3, <1>4

LEMMA CreateSetFiled ==
  ASSUME Filed, NEW r \in Editors, NEW data, Loose(data),
         NEW items \in ItemForms, NEW groups \in GroupForms, CreateSet(r, data, items, groups)
  PROVE  Filed'
<1> DEFINE k == Fresh("sets", 1)
           given == [image |-> None, detail |-> None]
           row == given ++ data
           body == Adding(Only(k, row) ++ Contents("set_items", k, items))
           added == Groups(k, groups)
           u == Both(body, added)
<1>1. Sellable(items, None) /\ Offerable(groups) /\ Edit(r, u)
  BY DEF CreateSet
<1>2. "set_items" \in Lists /\ Owner["set_items"] = "sets" /\ "sets" \in Tables
  BY DEF Lists, Owner, Tables
<1>3. IsFiniteSet(DOMAIN items)
  BY FormsAssumption
<1>4. Loose(row)
  <2>1. DOMAIN given = {"image", "detail"}
    OBVIOUS
  <2> HIDE DEF given
  <2>2. DOMAIN row = {"image", "detail"} \cup DOMAIN data
    BY <2>1 DEF ++
  <2> QED BY <2>2 DEF Loose
<1>5. k \in {"sets"} \X Nat
  BY <1>2, FreshKey DEF Table
<1> HIDE DEF row
<1>6. Fit(body) /\ body.dirty = <<>> /\ body.orphans = {}
  BY <1>1, <1>2, <1>3, <1>4, BundleFits
<1>7. \A i \in DOMAIN groups : groups[i] \subseteq {"products"} \X Nat
  BY <1>1, StoredKey DEF Offerable
<1> HIDE DEF k
<1>8. Fit(added) /\ added.dirty = <<>> /\ added.orphans = {}
  BY <1>5, <1>7, GroupsFit
<1> HIDE DEF body, added
<1>9. Fit(u)
  <2>1. /\ DOMAIN body.dirty = {} /\ DOMAIN added.dirty = {}
    BY <1>6, <1>8
  <2> QED BY <1>6, <1>8, <2>1, BothFit
<1> HIDE DEF u
<1> QED BY <1>1, <1>9, EditFiled DEF Fit

LEMMA BundlesFiled == ASSUME Filed, NEW r \in Editors, BundlesDesk(r) PROVE Filed'
<1>0. /\ \A items \in ItemForms : IsFiniteSet(DOMAIN items)
      /\ {"promotions", "sets", "products"} \cap ChildTables = {}
      /\ "promotion_items" \in Lists /\ Owner["promotion_items"] = "promotions"
      /\ \A title : Loose([name |-> title])
      /\ \A title, b : Loose([name |-> title, brand |-> b])
      /\ Loose(<<>>) /\ Loose([banner |-> None])
      /\ \A title : Loose([name |-> title, image |-> None, banner |-> None])
  BY FormsAssumption DEF ChildTables, Lists, Owner, Loose
<1>1. ASSUME NEW items \in ItemForms, NEW title \in Titles, CreatePromotion(r, title, items)
      PROVE  Filed'
  <2> DEFINE row == [name |-> title, image |-> None, banner |-> None]
  <2>1. Loose(row) /\ Sellable(items, None)
        /\ Edit(r, Adding(Only(Fresh("promotions", 1), row)
                          ++ Contents("promotion_items", Fresh("promotions", 1), items)))
    BY <1>0, <1>1 DEF CreatePromotion
  <2> HIDE DEF row
  <2> QED BY <1>0, <2>1, BundleFiled
<1>2. ASSUME NEW items \in ItemForms, NEW title \in Titles, NEW groups \in GroupForms,
             NEW b \in In("brands") \cup {None},
             CreateSet(r, [name |-> title, brand |-> b], items, groups)
      PROVE  Filed'
  BY <1>0, <1>2, CreateSetFiled
<1>3. ASSUME NEW k \in In("promotions"), NEW title \in Titles, NEW items \in ItemForms \cup {None},
             UpdatePromotion(r, k, [name |-> title], items)
      PROVE  Filed'
  <2> DEFINE data == [name |-> title]
  <2>1. /\ Loose(data)
        /\ items # None => IsFiniteSet(DOMAIN items) /\ \E other : Sellable(items, other)
        /\ Edit(r, Both(Assigning(k, data),
                        IF items = None THEN NoWork ELSE ReplaceRows("promotion_items", k, items)))
    BY <1>0, <1>3 DEF UpdatePromotion
  <2> HIDE DEF data
  <2> QED BY <1>0, <2>1, ReviseFiled
<1>4. ASSUME NEW k \in In("promotions"),
             \/ UploadPromotionImage(r, k) \/ UploadPromotionBanner(r, k)
             \/ DeleteBanner(r, k) \/ DeletePromotion(r, k)
      PROVE  Filed'
  <2>1. ASSUME UploadPromotionImage(r, k) PROVE Filed'
    BY <1>0, <2>1, UploadFiled DEF UploadPromotionImage, UploadNamedImage
  <2>2. ASSUME UploadPromotionBanner(r, k) PROVE Filed'
    BY <1>0, <2>2, UploadFiled DEF UploadPromotionBanner, UploadNamedImage
  <2>3. ASSUME DeleteBanner(r, k) PROVE Filed'
    BY <1>0, <2>3, AssignFiled DEF DeleteBanner
  <2>4. ASSUME DeletePromotion(r, k) PROVE Filed'
    <3> DEFINE keys == {k} \cup Under(k, {"promotion_items"})
    <3>1. /\ keys \subseteq DOMAIN db /\ \A j \in keys : Table(j) # "set_option_choices"
          /\ Edit(r, Deleting(keys))
      BY <2>4 DEF DeletePromotion, Under, In
    <3> HIDE DEF keys
    <3> QED BY <3>1, DeleteFiled
  <2> QED BY <1>4, <2>1, <2>2, <2>3, <2>4
<1>5. ASSUME NEW k \in In("sets"), NEW title \in Titles, NEW items \in ItemForms \cup {None},
             NEW groups \in GroupForms \cup {None}, UpdateSet(r, k, [name |-> title], items, groups)
      PROVE  Filed'
  BY <1>0, <1>5, UpdateSetFiled
<1>6. ASSUME NEW k \in In("sets"), UploadSetImage(r, k) \/ UploadSetDetailImage(r, k) \/ DeleteSet(r, k)
      PROVE  Filed'
  <2>1. ASSUME UploadSetImage(r, k) PROVE Filed'
    BY <1>0, <2>1, UploadFiled DEF UploadSetImage, UploadNamedImage
  <2>2. ASSUME UploadSetDetailImage(r, k) PROVE Filed'
    BY <1>0, <2>2, UploadFiled DEF UploadSetDetailImage, UploadNamedImage
  <2>3. ASSUME DeleteSet(r, k) PROVE Filed'
    <3> DEFINE groups == Under(k, {"set_option_groups"})
               keys == {k} \cup groups \cup Under(k, {"set_items"})
                         \cup UNION {Under(g, {"set_option_choices"}) : g \in groups}
    <3>1. keys \subseteq DOMAIN db
      BY DEF Under, In
    <3>2. ASSUME NEW j \in keys, Table(j) = "set_option_choices" PROVE db[j].parent \in keys
      <4>1. PICK g \in groups : j \in Under(g, {"set_option_choices"})
        BY <3>2 DEF Under, In
      <4>2. db[j].parent = g
        BY <4>1 DEF Under
      <4> QED BY <4>1, <4>2
    <3>3. Edit(r, Deleting(keys))
      BY <2>3 DEF DeleteSet
    <3> HIDE DEF keys
    <3> QED BY <3>1, <3>2, <3>3, DeleteFiled
  <2> QED BY <1>6, <2>1, <2>2, <2>3
<1>7. ASSUME NEW p \in In("products"), NEW items \in ItemForms, UpdateProduct(r, p, <<>>, items)
      PROVE  Filed'
  BY <1>0, <1>7, UpdateProductFiled
<1> QED BY <1>1, <1>2, <1>3, <1>4, <1>5, <1>6, <1>7, DeleteProductFiled DEF BundlesDesk

LEMMA RenameFiled ==
  ASSUME Filed, NEW r \in Editors, NEW table, table \notin ChildTables, NEW k \in In(table),
         NEW title, Rename(r, k, title)
  PROVE  Filed'
<1>1. Loose([name |-> title])
  BY DEF Loose
<1> QED BY <1>1, AssignFiled DEF Rename

LEMMA ShelvesFiled == ASSUME Filed, NEW r \in Editors, ShelvesDesk(r) PROVE Filed'
<1>0. /\ {"brands", "categories", "hero_slides", "qr_codes", "manuals"} \cap ChildTables = {}
      /\ {"brands", "categories", "hero_slides", "qr_codes"} \subseteq Tables \ DOMAIN Owner
      /\ \A title : Loose([name |-> title])
      /\ \A title, picture : Loose([name |-> title, image |-> picture])
  BY DEF ChildTables, Owner, Tables, Loose
<1>1. ASSUME NEW title \in Titles,
             \/ CreateBrand(r, title) \/ CreateCategory(r, title)
             \/ CreateHeroSlide(r, title) \/ CreateQrCode(r, title)
      PROVE  Filed'
  <2>1. PICK table \in {"brands", "categories", "hero_slides", "qr_codes"}, picture \in {None, NewFile} :
          \/ Edit(r, Adding(Only(Fresh(table, 1), [name |-> title, image |-> picture])))
          \/ Edit(r, Adding(Only(Fresh(table, 1), [name |-> title])))
    BY <1>1 DEF CreateBrand, CreateCategory, CreateHeroSlide, CreateQrCode, CreateCard
  <2> DEFINE row == [name |-> title, image |-> picture]
             bare == [name |-> title]
  <2>2. Loose(row) /\ Loose(bare) /\ table \in Tables \ DOMAIN Owner
    BY <1>0
  <2>3. \/ Edit(r, Adding(Only(Fresh(table, 1), row)))
        \/ Edit(r, Adding(Only(Fresh(table, 1), bare)))
    BY <2>1
  <2> HIDE DEF row, bare
  <2> QED BY <2>2, <2>3, CreateFiled
<1>2. ASSUME NEW title \in Titles,
             \/ UpdateBrand(r, title) \/ UpdateCategory(r, title)
             \/ UpdateHeroSlide(r, title) \/ UpdateQrCode(r, title)
      PROVE  Filed'
  BY <1>0, <1>2, RenameFiled DEF UpdateBrand, UpdateCategory, UpdateHeroSlide, UpdateQrCode
<1>3. ASSUME \/ UploadBrandImage(r) \/ UploadHeroSlideImage(r) \/ UploadQrImage(r)
             \/ UploadManualImage(r) \/ UploadManualPdf(r)
      PROVE  Filed'
  <2>1. ASSUME NEW table \in {"brands", "hero_slides", "qr_codes", "manuals"}, NEW k \in In(table),
               NEW column \in {"image", "pdf"}, UploadFile(r, k, column)
        PROVE  Filed'
    BY <1>0, <2>1, UploadFiled DEF UploadFile
  <2>2. CASE UploadBrandImage(r)
    BY <2>1, <2>2 DEF UploadBrandImage
  <2>3. CASE UploadHeroSlideImage(r)
    BY <2>1, <2>3 DEF UploadHeroSlideImage
  <2>4. CASE UploadQrImage(r)
    BY <2>1, <2>4 DEF UploadQrImage
  <2>5. CASE UploadManualImage(r) \/ UploadManualPdf(r)
    BY <2>1, <2>5 DEF UploadManualImage, UploadManualPdf
  <2> QED BY <1>3, <2>2, <2>3, <2>4, <2>5
<1>4. ASSUME \/ DeleteBrand(r) \/ DeleteCategory(r) \/ DeleteHeroSlide(r) \/ DeleteQrCode(r)
             \/ DeleteManual(r)
      PROVE  Filed'
  BY <1>4, DeleteRowFiled
     DEF DeleteBrand, DeleteCategory, DeleteHeroSlide, DeleteQrCode, DeleteManual
<1>5. ASSUME NEW p \in In("products"), CreateManual(r, p) PROVE Filed'
  <2>1. PICK pdf : Edit(r, Adding(Only(Fresh("manuals", 1), [parent |-> p, image |-> None, pdf |-> pdf])))
    BY <1>5 DEF CreateManual
  <2> DEFINE row == [parent |-> p, image |-> None, pdf |-> pdf]
             one == 1
             u == Adding(Only(Fresh("manuals", one), row))
  <2>2. /\ "manuals" \in Tables /\ "manuals" \in DOMAIN Owner /\ Owner["manuals"] = "products"
        /\ one \in Nat \ {0}
    BY DEF Tables, Owner
  <2>3. p \in {"products"} \X Nat
    BY StoredKey
  <2>4. Table(Fresh("manuals", one)) = "manuals"
    BY DEF Fresh, Table
  <2>5. Linked(Fresh("manuals", one), row)
    BY <2>2, <2>3, <2>4 DEF Linked
  <2>6. Edit(r, u)
    BY <2>1
  <2> HIDE DEF row, one
  <2>7. Fit(u)
    BY <2>2, <2>5, OneRowFits
  <2> HIDE DEF u
  <2> QED BY <2>6, <2>7, EditFiled DEF Fit
<1>6. ASSUME NEW p \in In("products"), NEW k \in In("manuals"), UpdateManual(r, k, p) PROVE Filed'
  <2> DEFINE columns == [parent |-> p]
             u == Assigning(k, columns)
  <2>1. "member" \notin DOMAIN columns /\ columns.parent \in {"products"} \X Nat
    BY StoredKey
  <2>2. Edit(r, u)
    BY <1>6 DEF UpdateManual
  <2> HIDE DEF columns
  <2>3. Fit(u)
    BY <1>0, <2>1, AssigningFits
  <2> HIDE DEF u
  <2> QED BY <2>2, <2>3, EditFiled DEF Fit
<1>7. ASSUME NEW p \in In("products"), NEW form \in ProductForms, NEW c \in {"name", "code", "brand", "category"},
             UpdateProduct(r, p, Restrict(form, {c}), None)
      PROVE  Filed'
  <2>1. DOMAIN Restrict(form, {c}) = {c}
    BY DEF Restrict
  <2>2. Loose(Restrict(form, {c}))
    BY <2>1 DEF Loose
  <2> QED BY <1>7, <2>2, UpdateProductFiled
<1>8. ASSUME NEW form \in ProductForms, CreateProduct(r, form, <<>>) PROVE Filed'
  <2>1. Loose(form)
    BY FormsAssumption DEF Loose
  <2> QED BY <1>8, <2>1, CreateProductFiled
<1> QED BY <1>1, <1>2, <1>3, <1>4, <1>5, <1>6, <1>7, <1>8, DeleteProductFiled DEF ShelvesDesk

LEMMA FiledInit == CatalogueInit => Filed
<1> SUFFICES ASSUME CatalogueInit PROVE Filed
  OBVIOUS
<1>1. /\ IsFiniteSet(DOMAIN db) /\ DOMAIN db \subseteq Tables \X Nat
      /\ \A k \in DOMAIN db : Linked(k, db[k]) /\ References(db[k], ForeignKeys) \subseteq DOMAIN db
      /\ ids = [t \in Tables |-> LastId(t, DOMAIN db, 0)] /\ working = [r \in Editors |-> <<>>]
  BY StoreroomsAssumption DEF CatalogueInit
<1>2. ASSUME NEW t \in Tables
      PROVE  /\ LastId(t, DOMAIN db, 0) \in Nat
             /\ \A k \in DOMAIN db : Table(k) = t => k[2] <= LastId(t, DOMAIN db, 0)
  <2> DEFINE keys == DOMAIN db
             none == 0
  <2>1. IsFiniteSet(keys) /\ keys \subseteq Tables \X Nat /\ none \in Nat
    BY <1>1
  <2> HIDE DEF keys, none
  <2>2. /\ LastId(t, keys, none) \in Nat
        /\ \A k \in keys : Table(k) = t => k[2] <= LastId(t, keys, none)
    BY <2>1, LastIdOK
  <2> QED BY <2>2 DEF keys, none
<1>3. ids \in [Tables -> Nat] /\ DOMAIN db \subseteq Drawn
  BY <1>1, <1>2 DEF Drawn, Table
<1>4. ASSUME NEW k \in DOMAIN db, Table(k) = "set_option_choices" PROVE db[k].parent \in DOMAIN db
  <2>1. "parent" \in DOMAIN db[k] /\ db[k].parent # None
    BY <1>1, <1>4, OwnersOK, LinkedOK, StoreroomsAssumption
  <2>2. db[k].parent \in References(db[k], ForeignKeys)
    BY <2>1 DEF References, ForeignKeys
  <2> QED BY <1>1, <2>2
<1>5. Joined(db)
  BY <1>1, <1>4 DEF Joined
<1>6. \A r \in Editors : working[r] = <<>> /\ NewBy(r) = {} /\ LoadedBy(r) = {}
  BY <1>1 DEF NewBy, LoadedBy
<1> QED BY <1>1, <1>3, <1>5, <1>6 DEF Filed, Orderly

LEMMA FiledStep == ASSUME Filed, [CatalogueNext]_catalogueVars PROVE Filed'
<1>1. CASE UNCHANGED catalogueVars
  <2>1. db' = db /\ ids' = ids /\ working' = working
    BY <1>1 DEF catalogueVars
  <2>2. Drawn' = Drawn /\ \A r \in Editors : NewBy(r)' = NewBy(r) /\ LoadedBy(r)' = LoadedBy(r)
    BY <2>1 DEF Drawn, NewBy, LoadedBy
  <2> QED BY <2>1, <2>2 DEF Filed
<1>2. ASSUME NEW r \in Editors,
             \/ PricesDesk(r) \/ GalleryDesk(r) \/ BundlesDesk(r) \/ ShelvesDesk(r)
             \/ CommitWork(r) \/ WorkFails(r)
      PROVE  Filed'
  BY <1>2, PricesFiled, GalleryFiled, BundlesFiled, ShelvesFiled, CommitFiled, FailFiled
<1> QED BY <1>1, <1>2 DEF CatalogueNext, CatalogueStep

LEMMA AlwaysFiled == CatalogueSpec => []Filed
<1>1. Filed /\ [CatalogueNext]_catalogueVars => Filed'
  BY FiledStep
<1> QED BY <1>1, FiledInit, PTL DEF CatalogueSpec

-----------------------------------------------------------------------------
(* The entries of one unit of work.                                         *)

Actions == {"create", "update", "delete"}

(* What is noted of a part names what was done to it.                       *)
LEMMA NoteOK ==
  ASSUME NEW k, Table(k) \in ChildTables, NEW row, NEW action \in Actions, NEW note,
         note = <<Verb[action], ChildName(k, row)>>
  PROVE  note # None /\ note[1] = Verb[action]
<1> DEFINE name == ChildName(k, row)
           names == {"video", "photo", "free item", "included product", "option group", "option choice"}
<1>1. name \in names
  BY DEF ChildName, ChildTables
<1>2. Verb[action] \in Range(Verb)
  BY DEF Verb, Range, Actions
<1>3. \A verb \in Range(Verb) : \A n \in names : <<verb, n>> # None
  BY NotesAssumption
<1> HIDE DEF name, names
<1> QED BY <1>1, <1>2, <1>3 DEF name

LEMMA PendingOK ==
  ASSUME NEW u, NEW c \in Pending(u)
  PROVE  /\ c.action \in Actions
         /\ c.action = "create" =>
              /\ c.key \in DOMAIN u.new /\ c.row = u.new[c.key]
              /\ \A f \in DOMAIN c.changes : c.changes[f][2] = u.new[c.key][f]
         /\ c.action = "update" =>
              /\ c.key \in DOMAIN u.dirty /\ ChangedColumns(u, c.key) # {} /\ c.row = u.loaded[c.key]
              /\ DOMAIN c.changes = ChangedColumns(u, c.key)
              /\ \A f \in DOMAIN c.changes : c.changes[f][2] = u.dirty[c.key][f]
         /\ c.action = "delete" => c.key \in u.deleted \cup u.orphans /\ c.row = u.loaded[c.key]
<1>1. PICK action \in Actions : c \in Collected(u, action)
  BY DEF Pending, Actions
<1>2. CASE action = "create"
  <2>1. PICK k \in DOMAIN u.new : c = [key |-> k, row |-> u.new[k], action |-> action,
           changes |-> [f \in Given(u.new[k]) |-> <<None, u.new[k][f]>>]]
    BY <1>1, <1>2 DEF Collected
  <2> QED BY <1>2, <2>1 DEF Actions
<1>3. CASE action = "update"
  <2>1. PICK k \in {d \in DOMAIN u.dirty : ChangedColumns(u, d) # {}} :
           c = [key |-> k, row |-> u.loaded[k], action |-> action,
                changes |-> [f \in ChangedColumns(u, k) |-> <<u.loaded[k][f], u.dirty[k][f]>>]]
    BY <1>1, <1>3 DEF Collected
  <2> QED BY <1>3, <2>1 DEF Actions
<1>4. CASE action = "delete"
  <2>1. PICK k \in u.deleted \cup u.orphans :
           c = [key |-> k, row |-> u.loaded[k], action |-> action,
                changes |-> [f \in Given(u.loaded[k]) |-> <<u.loaded[k][f], None>>]]
    BY <1>1, <1>4 DEF Collected
  <2> QED BY <1>4, <2>1 DEF Actions
<1> QED BY <1>1, <1>2, <1>3, <1>4 DEF Actions

LEMMA AllPending ==
  ASSUME NEW u
  PROVE  /\ \A k \in DOMAIN u.new : \E c \in Pending(u) : c.key = k /\ c.action = "create"
         /\ \A k \in DOMAIN u.dirty : ChangedColumns(u, k) # {} =>
              \E c \in Pending(u) : c.key = k /\ c.action = "update"
         /\ \A k \in u.deleted \cup u.orphans : \E c \in Pending(u) : c.key = k /\ c.action = "delete"
<1>1. \A action \in Actions : Collected(u, action) \subseteq Pending(u)
  BY DEF Pending, Actions
<1>2. ASSUME NEW k \in DOMAIN u.new PROVE \E c \in Pending(u) : c.key = k /\ c.action = "create"
  <2> DEFINE c == [key |-> k, row |-> u.new[k], action |-> "create",
                   changes |-> [f \in Given(u.new[k]) |-> <<None, u.new[k][f]>>]]
  <2>1. c \in Collected(u, "create")
    BY DEF Collected
  <2>2. c.key = k /\ c.action = "create"
    OBVIOUS
  <2> HIDE DEF c
  <2> QED BY <1>1, <2>1, <2>2 DEF Actions
<1>3. ASSUME NEW k \in DOMAIN u.dirty, ChangedColumns(u, k) # {}
      PROVE  \E c \in Pending(u) : c.key = k /\ c.action = "update"
  <2> DEFINE c == [key |-> k, row |-> u.loaded[k], action |-> "update",
                   changes |-> [f \in ChangedColumns(u, k) |-> <<u.loaded[k][f], u.dirty[k][f]>>]]
  <2>1. c \in Collected(u, "update")
    BY <1>3 DEF Collected
  <2>2. c.key = k /\ c.action = "update"
    OBVIOUS
  <2> HIDE DEF c
  <2> QED BY <1>1, <2>1, <2>2 DEF Actions
<1>4. ASSUME NEW k \in u.deleted \cup u.orphans
      PROVE  \E c \in Pending(u) : c.key = k /\ c.action = "delete"
  <2> DEFINE c == [key |-> k, row |-> u.loaded[k], action |-> "delete",
                   changes |-> [f \in Given(u.loaded[k]) |-> <<u.loaded[k][f], None>>]]
  <2>1. c \in Collected(u, "delete")
    BY DEF Collected
  <2>2. c.key = k /\ c.action = "delete"
    OBVIOUS
  <2> HIDE DEF c
  <2> QED BY <1>1, <2>1, <2>2 DEF Actions
<1> QED BY <1>2, <1>3, <1>4

(* The entry filed for a change, if there is one.                           *)
LEMMA RowForOK ==
  ASSUME NEW u, NEW c \in Pending(u), NEW r, NEW e, e = RowFor(u, c, r)
  PROVE  /\ e.actor = r /\ e.changes = c.changes
         /\ Table(c.key) \in ChildTables =>
              /\ e.action = "update" /\ e.entity = RolledUpTo(u, c)
              /\ e.note # None /\ e.note[1] = Verb[c.action]
         /\ Table(c.key) \notin ChildTables =>
              e.action = c.action /\ e.entity = c.key /\ e.note = None
<1>1. c.action \in Actions
  BY PendingOK
<1>2. CASE Table(c.key) \in ChildTables
  <2> DEFINE note == <<Verb[c.action], ChildName(c.key, c.row)>>
  <2>1. note # None /\ note[1] = Verb[c.action]
    BY <1>1, <1>2, NoteOK
  <2> HIDE DEF note
  <2>2. e = [actor |-> r, action |-> "update", entity |-> RolledUpTo(u, c),
             changes |-> c.changes, note |-> note]
    BY <1>2 DEF RowFor, note
  <2> QED BY <1>2, <2>1, <2>2
<1>3. CASE Table(c.key) \notin ChildTables
  BY <1>3 DEF RowFor
<1> QED BY <1>2, <1>3

(* A change of a part is filed under what it is a part of, or the creation  *)
(* or removal of that is.                                                   *)
LEMMA FiledUnder ==
  ASSUME NEW u, NEW c \in Pending(u), Table(c.key) \in ChildTables,
         NEW top, top = RolledUpTo(u, c), Table(top) \notin ChildTables, NEW r
  PROVE  \E e \in Entries(u, r) :
           /\ e.entity = top
           /\ e.action \in {"create", "delete"} \/ (e.note # None /\ e.note[1] = Verb[c.action])
<1>1. ASSUME NEW p \in Pending(u), Table(p.key) \in ChildTables => RolledUpTo(u, p) \notin Structural(u)
      PROVE  RowFor(u, p, r) \in Entries(u, r)
  BY <1>1 DEF Entries
<1>2. CASE top \notin Structural(u)
  BY <1>1, <1>2, RowForOK
<1>3. CASE top \in Structural(u)
  <2>1. PICK p \in Pending(u) : p.key = top /\ p.action \in {"create", "delete"}
    BY <1>3 DEF Structural
  <2>2. RowFor(u, p, r) \in Entries(u, r)
    BY <1>1, <2>1
  <2>3. RowFor(u, p, r).entity = top /\ RowFor(u, p, r).action = p.action
    BY <2>1, RowForOK
  <2> QED BY <2>1, <2>2, <2>3
<1> QED BY <1>2, <1>3

-----------------------------------------------------------------------------
(* The log and the rows.                                                    *)

LEMMA UnitsOK ==
  ASSUME Filed, NEW r \in Editors, NEW i \in DOMAIN working[r], NEW u, u = working[r][i]
  PROVE  /\ Saving(u) \/ Removing(u)
         /\ SameParents(u.loaded, db) /\ DOMAIN u.new \cap DOMAIN db = {}
<1>1. Saving(u) \/ Removing(u)
  <2>1. Orderly(working[r]) /\ working[r] # <<>>
    BY DEF Filed
  <2>2. CASE Len(working[r]) = 1
    BY <2>1, <2>2 DEF Orderly
  <2>3. CASE Len(working[r]) = 2
    BY <2>1, <2>3 DEF Orderly
  <2> QED BY <2>1, <2>2, <2>3 DEF Orderly
<1>2. SameParents(u.loaded, db)
  BY DEF Filed
<1>3. DOMAIN u.new \subseteq NewBy(r) /\ NewBy(r) \cap DOMAIN db = {}
  BY DEF Filed, NewBy
<1> QED BY <1>1, <1>2, <1>3

LEMMA CommitOnly ==
  ASSUME Filed, [CatalogueNext]_catalogueVars, db' # db \/ log' # log
  PROVE  \E r \in Editors : CommitWork(r)
<1>1. ~ UNCHANGED catalogueVars
  BY DEF catalogueVars
<1>2. PICK r \in Editors :
        \/ PricesDesk(r) \/ GalleryDesk(r) \/ BundlesDesk(r) \/ ShelvesDesk(r)
        \/ CommitWork(r) \/ WorkFails(r)
  BY <1>1 DEF CatalogueNext, CatalogueStep
<1>3. ~ WorkFails(r)
  BY DEF WorkFails
<1>4. \A flushes : ~ Begin(r, flushes)
  BY DEF Begin
<1>5. \A work : ~ Edit(r, work)
  BY <1>4 DEF Edit
<1>6. ~ PricesDesk(r)
  BY <1>5 DEF PricesDesk, UpdateProductPrice, UpdateProduct, CreateProduct
<1>7. ~ GalleryDesk(r)
  BY <1>4, <1>5 DEF GalleryDesk, UploadProductImage, UploadNamedImage, UploadGalleryImages,
       UploadGalleryVideos, UploadGallery, DeleteGalleryItem, DeleteProduct
<1>8. ~ BundlesDesk(r)
  BY <1>4, <1>5 DEF BundlesDesk, CreatePromotion, CreateSet, UpdatePromotion, UploadPromotionImage,
       UploadPromotionBanner, UploadNamedImage, DeleteBanner, DeletePromotion, UpdateSet,
       UploadSetImage, UploadSetDetailImage, DeleteSet, UpdateProduct, DeleteProduct
<1>9. ~ ShelvesDesk(r)
  BY <1>5 DEF ShelvesDesk, CreateBrand, UpdateBrand, CreateCategory, UpdateCategory,
       CreateHeroSlide, UpdateHeroSlide, CreateQrCode, UpdateQrCode, CreateCard, Rename,
       UploadBrandImage, DeleteBrand, DeleteCategory, UploadHeroSlideImage, DeleteHeroSlide,
       UploadQrImage, DeleteQrCode, UploadManualImage, UploadManualPdf, DeleteManual, UploadFile,
       DeleteRow, CreateManual, UpdateManual, UpdateProduct, DeleteProduct, CreateProduct
<1> QED BY <1>2, <1>3, <1>6, <1>7, <1>8, <1>9

(* The request that commits is the only one to.                             *)
LEMMA CommittingOK ==
  ASSUME Filed, NEW r \in Editors, CommitWork(r)
  PROVE  Committing = {r}
BY DEF CommitWork, Filed, Committing

LEMMA TalesOK ==
  ASSUME Filed, NEW r \in Editors, CommitWork(r), NEW e \in Told(r)
  PROVE  /\ e.actor = r
         /\ e.action = "create" =>
              /\ e.entity \in DOMAIN db' \ DOMAIN db
              /\ \A f \in DOMAIN e.changes : db'[e.entity][f] = e.changes[f][2]
         /\ e.action = "update" /\ e.note = None =>
              /\ e.entity \in DOMAIN db'
              /\ \A f \in DOMAIN e.changes : db'[e.entity][f] = e.changes[f][2]
         /\ e.action = "delete" => e.entity \notin DOMAIN db'
<1>1. PICK i \in DOMAIN working[r] : e \in Entries(working[r][i], r)
  BY DEF Told
<1> DEFINE u == working[r][i]
<1>2. PICK c \in Pending(u) : e = RowFor(u, c, r)
  BY <1>1 DEF Entries
<1>3. Seen(db, db', u) /\ DOMAIN u.new \cap DOMAIN db = {}
  <2>1. working[r] # <<>> /\ db' = Outcome(r) /\ db' # None
    BY DEF CommitWork
  <2> QED BY <2>1, OutcomeOK, UnitsOK DEF Rendered
<1> HIDE DEF u
<1>4. /\ e.actor = r /\ e.changes = c.changes
      /\ Table(c.key) \in ChildTables => e.action = "update" /\ e.note # None
      /\ Table(c.key) \notin ChildTables => e.action = c.action /\ e.entity = c.key /\ e.note = None
  BY <1>2, RowForOK
<1>5. CASE c.action = "create"
  BY <1>3, <1>4, <1>5, PendingOK DEF Seen
<1>6. CASE c.action = "update"
  <2>1. /\ c.key \in DOMAIN u.dirty /\ ChangedColumns(u, c.key) # {}
        /\ DOMAIN c.changes = ChangedColumns(u, c.key)
        /\ \A f \in DOMAIN c.changes : c.changes[f][2] = u.dirty[c.key][f]
    BY <1>6, PendingOK
  <2>2. c.key \in DOMAIN db' /\ \A f \in DOMAIN c.changes : db'[c.key][f] = c.changes[f][2]
    BY <1>3, <2>1 DEF Seen
  <2> QED BY <1>4, <1>6, <2>2
<1>7. CASE c.action = "delete"
  BY <1>3, <1>4, <1>7, PendingOK DEF Seen
<1>8. c.action \in Actions
  BY PendingOK
<1> QED BY <1>5, <1>6, <1>7, <1>8 DEF Actions

LEMMA TablesApart ==
  \A t \in ChildTables : /\ t # "set_option_choices" => Owner[t] \notin ChildTables
                         /\ t \in DOMAIN Owner
BY DEF Owner, ChildTables

LEMMA AppearingTold ==
  ASSUME Filed, NEW r \in Editors, CommitWork(r), NEW k \in DOMAIN db' \ DOMAIN db
  PROVE  \E e \in Told(r) : Tells(e, db', k, "create")
<1>1. working[r] # <<>> /\ db' = Outcome(r) /\ db' # None
  BY DEF CommitWork
<1>2. Rendered(db, db', working[r])
  BY <1>1, OutcomeOK
<1>3. PICK i \in DOMAIN working[r] : k \in DOMAIN working[r][i].new
  BY <1>2 DEF Rendered
<1> DEFINE u == working[r][i]
<1>4. Seen(db, db', u) /\ Entries(u, r) \subseteq Told(r)
  BY <1>2 DEF Rendered, Told
<1>5. Joined(u.new)
  <2>1. Saving(u) \/ Removing(u)
    BY UnitsOK
  <2> QED BY <1>3, <2>1 DEF Saving, Removing
<1>6. k \in DOMAIN u.new
  BY <1>3
<1> HIDE DEF u
<1>7. PICK c \in Pending(u) : c.key = k /\ c.action = "create"
  BY <1>6, AllPending
<1>8. c.row = u.new[k] /\ db'[k] = u.new[k]
  BY <1>4, <1>6, <1>7, PendingOK DEF Seen
<1> DEFINE top == Subject(db', k)
<1>9. CASE Table(k) \notin ChildTables
  <2>1. top = k
    BY <1>9, OwnersOK DEF Subject
  <2>2. Table(c.key) \notin ChildTables => RowFor(u, c, r) \in Entries(u, r)
    BY DEF Entries
  <2>3. /\ RowFor(u, c, r) \in Told(r) /\ RowFor(u, c, r).entity = k
        /\ RowFor(u, c, r).action = "create" /\ RowFor(u, c, r).note = None
    BY <1>4, <1>7, <1>9, <2>2, RowForOK
  <2> QED BY <2>1, <2>3 DEF Tells
<1>10. CASE Table(k) \in ChildTables
  <2>1. top = RolledUpTo(u, c) /\ Table(top) \notin ChildTables
    <3>1. CASE Table(k) # "set_option_choices"
      <4>1. top = u.new[k].parent /\ RolledUpTo(u, c) = u.new[k].parent
        BY <1>7, <1>8, <1>10, <3>1 DEF Subject, RolledUpTo
      <4>2. Linked(k, u.new[k])
        BY <1>5, <1>6 DEF Joined
      <4>3. Table(u.new[k].parent) = Owner[Table(k)]
        BY <1>10, <4>2, LinkedOK, TablesApart
      <4> QED BY <1>10, <3>1, <4>1, <4>3, TablesApart
    <3>2. CASE Table(k) = "set_option_choices"
      <4> DEFINE g == u.new[k].parent
      <4>1. g \in DOMAIN u.new /\ Linked(g, u.new[g])
        BY <1>5, <1>6, <3>2 DEF Joined
      <4>2. Linked(k, u.new[k]) /\ Table(g) = "set_option_groups"
        BY <1>5, <1>6, <3>2, LinkedOK, OwnersOK DEF Joined
      <4>3. db'[g] = u.new[g]
        BY <1>4, <4>1 DEF Seen
      <4>4. top = u.new[g].parent /\ RolledUpTo(u, c) = u.new[g].parent
        BY <1>7, <1>8, <3>2, <4>1, <4>3 DEF Subject, RolledUpTo
      <4>5. Table(u.new[g].parent) = Owner["set_option_groups"]
        BY <4>1, <4>2, LinkedOK, OwnersOK
      <4> QED BY <4>4, <4>5, OwnersOK
    <3> QED BY <3>1, <3>2
  <2>2. top # k
    BY <1>10, <2>1
  <2> HIDE DEF top
  <2>3. PICK e \in Entries(u, r) :
          /\ e.entity = top
          /\ e.action \in {"create", "delete"} \/ (e.note # None /\ e.note[1] = Verb["create"])
    BY <1>7, <1>10, <2>1, FiledUnder
  <2> QED BY <1>4, <2>2, <2>3 DEF Tells, top
<1> QED BY <1>9, <1>10

LEMMA ChangesTold ==
  ASSUME Filed, NEW r \in Editors, CommitWork(r),
         NEW k \in DOMAIN db' \cap DOMAIN db, NEW f \in DOMAIN db[k], db'[k][f] # db[k][f]
  PROVE  \E e \in Told(r) : /\ Tells(e, db, k, "update")
                            /\ f \in DOMAIN e.changes /\ e.changes[f][2] = db'[k][f]
<1>1. working[r] # <<>> /\ db' = Outcome(r) /\ db' # None
  BY DEF CommitWork
<1>2. Rendered(db, db', working[r])
  BY <1>1, OutcomeOK
<1>3. PICK i \in DOMAIN working[r] :
        k \in DOMAIN working[r][i].dirty /\ f \in ChangedColumns(working[r][i], k)
  BY <1>2 DEF Rendered
<1> DEFINE u == working[r][i]
<1>4. Seen(db, db', u) /\ Entries(u, r) \subseteq Told(r)
  BY <1>2 DEF Rendered, Told
<1>5. Saving(u) /\ SameParents(u.loaded, db)
  <2>1. (Saving(u) \/ Removing(u)) /\ SameParents(u.loaded, db)
    BY UnitsOK
  <2> QED BY <1>3, <2>1 DEF Removing
<1>6. k \in DOMAIN u.dirty /\ f \in ChangedColumns(u, k) /\ db'[k][f] = u.dirty[k][f]
  BY <1>3, <1>4 DEF Seen
<1> HIDE DEF u
<1>7. PICK c \in Pending(u) : c.key = k /\ c.action = "update"
  BY <1>6, AllPending
<1>8. c.row = u.loaded[k] /\ f \in DOMAIN c.changes /\ c.changes[f][2] = db'[k][f]
  BY <1>6, <1>7, PendingOK
<1> DEFINE top == Subject(db, k)
<1>9. CASE Table(k) \notin ChildTables
  <2>1. top = k
    BY <1>9, OwnersOK DEF Subject
  <2>2. Table(c.key) \notin ChildTables => RowFor(u, c, r) \in Entries(u, r)
    BY DEF Entries
  <2>3. /\ RowFor(u, c, r) \in Told(r) /\ RowFor(u, c, r).entity = k
        /\ RowFor(u, c, r).action = "update" /\ RowFor(u, c, r).note = None
        /\ RowFor(u, c, r).changes = c.changes
    BY <1>4, <1>7, <1>9, <2>2, RowForOK
  <2> QED BY <1>8, <2>1, <2>3 DEF Tells
<1>10. CASE Table(k) \in ChildTables
  <2>1. Table(k) \in Lists /\ k \in DOMAIN u.loaded /\ Linked(k, u.loaded[k])
    BY <1>5, <1>6, <1>10 DEF Saving
  <2>2. top = db[k].parent /\ RolledUpTo(u, c) = u.loaded[k].parent
    BY <1>7, <1>8, <1>10, <2>1, OwnersOK DEF Subject, RolledUpTo
  <2>3. u.loaded[k].parent = db[k].parent
    BY <1>5, <1>10, <2>1 DEF SameParents
  <2>4. Table(u.loaded[k].parent) = Owner[Table(k)]
    BY <1>10, <2>1, LinkedOK, TablesApart
  <2>5. Table(top) \notin ChildTables
    BY <1>10, <2>1, <2>2, <2>3, <2>4, TablesApart, OwnersOK
  <2> HIDE DEF top
  <2>6. top \notin Structural(u)
    <3> SUFFICES ASSUME NEW p \in Pending(u), p.key = top, p.action \in {"create", "delete"}
                 PROVE  FALSE
      BY DEF Structural
    <3>1. top \in DOMAIN u.new \cup u.deleted \cup u.orphans
      BY PendingOK
    <3>2. Table(top) \in ChildTables
      BY <1>5, <1>6, <3>1, OwnersOK DEF Saving
    <3> QED BY <2>5, <3>2
  <2>7. RowFor(u, c, r) \in Told(r)
    <3>1. RolledUpTo(u, c) \notin Structural(u)
      BY <2>2, <2>3, <2>6
    <3> QED BY <1>4, <3>1 DEF Entries
  <2>8. /\ RowFor(u, c, r).entity = top /\ RowFor(u, c, r).changes = c.changes
        /\ RowFor(u, c, r).note # None /\ RowFor(u, c, r).note[1] = Verb["update"]
    BY <1>7, <1>10, <2>2, <2>3, RowForOK
  <2> QED BY <1>8, <2>7, <2>8 DEF Tells, top
<1> QED BY <1>9, <1>10

LEMMA RemovalsTold ==
  ASSUME Filed, NEW r \in Editors, CommitWork(r),
         NEW k \in DOMAIN db \ DOMAIN db', k \in LoadedBy(r)
  PROVE  \E e \in Told(r) : Tells(e, db, k, "delete")
<1>1. working[r] # <<>> /\ db' = Outcome(r) /\ db' # None
  BY DEF CommitWork
<1>2. Rendered(db, db', working[r])
  BY <1>1, OutcomeOK
<1>3. PICK i \in DOMAIN working[r] : k \in DOMAIN working[r][i].loaded
  BY DEF LoadedBy
<1> DEFINE u == working[r][i]
<1>4. Seen(db, db', u) /\ Entries(u, r) \subseteq Told(r)
  BY <1>2 DEF Rendered, Told
<1>5. (Saving(u) \/ Removing(u)) /\ SameParents(u.loaded, db)
  BY UnitsOK
<1>6. k \in u.deleted \cup u.orphans /\ k \in DOMAIN u.loaded
  BY <1>3, <1>4 DEF Seen
<1> HIDE DEF u
<1>7. PICK c \in Pending(u) : c.key = k /\ c.action = "delete"
  BY <1>6, AllPending
<1>8. c.row = u.loaded[k] /\ Linked(k, u.loaded[k])
  BY <1>5, <1>6, <1>7, PendingOK DEF Saving, Removing, Joined
<1> DEFINE top == Subject(db, k)
<1>9. CASE Table(k) \notin ChildTables
  <2>1. top = k
    BY <1>9, OwnersOK DEF Subject
  <2>2. Table(c.key) \notin ChildTables => RowFor(u, c, r) \in Entries(u, r)
    BY DEF Entries
  <2>3. /\ RowFor(u, c, r) \in Told(r) /\ RowFor(u, c, r).entity = k
        /\ RowFor(u, c, r).action = "delete" /\ RowFor(u, c, r).note = None
    BY <1>4, <1>7, <1>9, <2>2, RowForOK
  <2> QED BY <2>1, <2>3 DEF Tells
<1>10. CASE Table(k) \in ChildTables
  <2>1. u.loaded[k].parent = db[k].parent
    BY <1>5, <1>6, <1>10 DEF SameParents
  <2>2. top = RolledUpTo(u, c) /\ Table(top) \notin ChildTables
    <3>1. CASE Table(k) # "set_option_choices"
      <4>1. top = db[k].parent /\ RolledUpTo(u, c) = u.loaded[k].parent
        BY <1>7, <1>8, <1>10, <3>1 DEF Subject, RolledUpTo
      <4>2. Table(u.loaded[k].parent) = Owner[Table(k)]
        BY <1>8, <1>10, LinkedOK, TablesApart
      <4> QED BY <1>10, <2>1, <3>1, <4>1, <4>2, TablesApart
    <3>2. CASE Table(k) = "set_option_choices"
      <4> DEFINE g == db[k].parent
      <4>1. Removing(u)
        BY <1>5, <1>6, <3>2, OwnersOK DEF Saving
      <4>2. g \in DOMAIN u.loaded /\ g \notin DOMAIN u.new /\ Linked(g, u.loaded[g])
        BY <1>6, <2>1, <3>2, <4>1 DEF Removing, Joined
      <4>3. g \in DOMAIN db /\ Table(g) = "set_option_groups"
        <5>1. Joined(db)
          BY DEF Filed
        <5> QED BY <5>1, <3>2, LinkedOK, OwnersOK DEF Joined
      <4>4. u.loaded[g].parent = db[g].parent
        BY <1>5, <4>2, <4>3, OwnersOK DEF SameParents
      <4>5. top = db[g].parent /\ RolledUpTo(u, c) = u.loaded[g].parent
        BY <1>7, <1>8, <2>1, <3>2, <4>2 DEF Subject, RolledUpTo
      <4>6. Table(u.loaded[g].parent) = Owner["set_option_groups"]
        BY <4>2, <4>3, LinkedOK, OwnersOK
      <4> QED BY <4>4, <4>5, <4>6, OwnersOK
    <3> QED BY <3>1, <3>2
  <2>3. top # k
    BY <1>10, <2>2
  <2> HIDE DEF top
  <2>4. PICK e \in Entries(u, r) :
          /\ e.entity = top
          /\ e.action \in {"create", "delete"} \/ (e.note # None /\ e.note[1] = Verb["delete"])
    BY <1>7, <1>10, <2>2, FiledUnder
  <2> QED BY <1>4, <2>3, <2>4 DEF Tells, top
<1> QED BY <1>9, <1>10

(* In every reachable state the rows are in order and every request's units *)
(* of work are of the two kinds; so an entry is filed by a request that     *)
(* commits and says what the database then holds.                           *)
THEOREM EntriesAreAlwaysTrue == CatalogueSpec => EntriesAreTrue
<1> DEFINE Honest ==
             \A e \in log' :
               log' # log =>
                 /\ e.actor \in Committing
                 /\ e.action = "create" =>
                      /\ e.entity \in DOMAIN db' \ DOMAIN db
                      /\ \A f \in DOMAIN e.changes : db'[e.entity][f] = e.changes[f][2]
                 /\ e.action = "update" /\ e.note = None =>
                      /\ e.entity \in DOMAIN db'
                      /\ \A f \in DOMAIN e.changes : db'[e.entity][f] = e.changes[f][2]
                 /\ e.action = "delete" => e.entity \notin DOMAIN db'
<1>1. ASSUME Filed, [CatalogueNext]_catalogueVars PROVE Honest
  <2>1. CASE log' = log
    BY <2>1
  <2>2. CASE log' # log
    <3>1. PICK r \in Editors : CommitWork(r)
      BY <1>1, <2>2, CommitOnly
    <3>2. log' \subseteq Told(r)
      BY <2>2, <3>1 DEF CommitWork
    <3>3. Committing = {r}
      BY <1>1, <3>1, CommittingOK
    <3> QED BY <1>1, <3>1, <3>2, <3>3, TalesOK
  <2> QED BY <2>1, <2>2
<1> QED BY <1>1, AlwaysFiled, PTL DEF CatalogueSpec, EntriesAreTrue

(* Nothing staff write goes unrecorded: of every commit, each row that      *)
(* appears, each column that changes and each row a request removes has its *)
(* entry in the log, whatever other requests committed in between.          *)
THEOREM EveryWriteIsAlwaysTold == CatalogueSpec => EveryWriteIsTold
<1> DEFINE Appearing == \A k \in DOMAIN db' \ DOMAIN db : \E e \in log' : Tells(e, db', k, "create")
           Changing ==
             \A k \in DOMAIN db' \cap DOMAIN db : \A f \in DOMAIN db[k] :
               db'[k][f] # db[k][f] =>
                 \E e \in log' :
                   /\ Tells(e, db, k, "update")
                   /\ f \in DOMAIN e.changes /\ e.changes[f][2] = db'[k][f]
           Leaving ==
             \A k \in DOMAIN db \ DOMAIN db' :
               (\E r \in Committing : k \in LoadedBy(r)) =>
                 \E e \in log' : Tells(e, db, k, "delete")
<1>1. ASSUME Filed, [CatalogueNext]_catalogueVars
      PROVE  Appearing /\ Changing /\ Leaving
  <2>1. CASE db' = db
    BY <2>1
  <2>2. CASE db' # db
    <3>1. PICK r \in Editors : CommitWork(r)
      BY <1>1, <2>2, CommitOnly
    <3>2. Told(r) \subseteq log'
      BY <3>1 DEF CommitWork
    <3>3. Committing = {r}
      BY <1>1, <3>1, CommittingOK
    <3>4. Appearing
      BY <1>1, <3>1, <3>2, AppearingTold
    <3>5. Changing
      BY <1>1, <3>1, <3>2, ChangesTold
    <3>6. Leaving
      BY <1>1, <3>1, <3>2, <3>3, RemovalsTold
    <3> QED BY <3>4, <3>5, <3>6
  <2> QED BY <2>1, <2>2
<1> QED BY <1>1, AlwaysFiled, PTL DEF CatalogueSpec, EveryWriteIsTold
=============================================================================
