----------------------------- MODULE MatchingProofs -------------------------
(***************************************************************************)
(* Facts about the order book's arithmetic and about sums of amounts, for  *)
(* amounts of any size.                                                    *)
(***************************************************************************)
EXTENDS Matching, Value, WellFoundedInduction, FiniteSetTheorems, SequenceTheorems, TLAPS

\* Least-number principle: a nonempty set of naturals has a least element.
LEMMA NatMin ==
  ASSUME NEW T \in SUBSET Nat, T # {}
  PROVE  \E m \in T : \A n \in T : m <= n
<1> DEFINE R == OpToRel(<, Nat)
<1>1. IsWellFoundedOn(R, Nat)
  BY NatLessThanWellFounded, Zenon
<1>2. PICK x \in T : \A y \in T : ~ (<<y, x>> \in R)
  BY <1>1, WFMin, Zenon
<1>3. \A y \in T : ~(y < x)
  BY <1>2 DEF OpToRel
<1> QED
  BY <1>3

\* Induction over the numbers up to m.
LEMMA UpTo ==
  ASSUME NEW m \in Nat, NEW S, 0 \in S, \A i \in 0..(m - 1) : i \in S => i + 1 \in S
  PROVE  0..m \subseteq S
<1> DEFINE T == (0..m) \ S
<1>1. ASSUME T # {} PROVE FALSE
  <2>1. PICK x \in T : \A y \in T : x <= y
    <3>1. T \in SUBSET Nat
      OBVIOUS
    <3> HIDE DEF T
    <3>. QED
      BY <1>1, <3>1, NatMin
  <2>2. x - 1 \in 0..(m - 1) /\ (x - 1) + 1 = x
    BY <2>1
  <2>. QED
    BY <2>1, <2>2
<1>. QED
  BY <1>1

\* A nonempty bounded set of naturals has a greatest element.
LEMMA NatMax ==
  ASSUME NEW T \in SUBSET Nat, T # {}, NEW bound \in Nat, \A n \in T : n <= bound
  PROVE  \E m \in T : \A n \in T : n <= m
<1> DEFINE D == {bound - n : n \in T}
<1>1. D \in SUBSET Nat
  <2>1. \A n \in T : n \in Nat /\ bound - n \in Nat
    OBVIOUS
  <2> QED BY <2>1
<1>2. D # {}
  <2>1. PICK t \in T : TRUE
    OBVIOUS
  <2>2. bound - t \in D
    OBVIOUS
  <2> QED BY <2>2
<1>3. PICK d \in D : \A e \in D : d <= e
  <2> HIDE DEF D
  <2> QED BY <1>1, <1>2, NatMin
<1>4. PICK m \in T : d = bound - m
  BY <1>3
<1>5. \A n \in T : bound - m <= bound - n
  BY <1>3, <1>4
<1>6. \A n \in T : n <= m
  BY <1>5
<1> QED
  BY <1>6

\* What the truncating division of the code gives on naturals.
LEMMA DivMod ==
  ASSUME NEW a \in Nat, NEW d \in Nat \ {0}
  PROVE  /\ a \div d \in Nat
         /\ a = (a \div d) * d + (a % d)
         /\ a % d \in 0..(d - 1)
         /\ (a \div d) * d <= a
OBVIOUS

\* gcd_i128 on positive amounts: the result is positive and divides both.
LEMMA GcdDivides ==
  ASSUME NEW a \in Nat \ {0}, NEW b \in Nat \ {0}
  PROVE  /\ Gcd(a, b) \in 1..a
         /\ a % Gcd(a, b) = 0
         /\ b % Gcd(a, b) = 0
<1> DEFINE T == CommonDivisors(a, b)
<1>1. T \in SUBSET Nat /\ \A n \in T : n <= a
  BY DEF CommonDivisors
<1>2. 1 \in T
  BY DEF CommonDivisors
<1>3. \E g \in T : \A d \in T : d <= g
  <2> HIDE DEF T
  <2> QED BY <1>1, <1>2, NatMax
<1>4. Gcd(a, b) \in T
  BY <1>3 DEF Gcd
<1> QED
  BY <1>4 DEF CommonDivisors

\* Dividing by a divisor loses nothing.
LEMMA Quotient ==
  ASSUME NEW a \in Nat \ {0}, NEW g \in Nat \ {0}, a % g = 0
  PROVE  a \div g \in Nat \ {0} /\ (a \div g) * g = a /\ a \div g <= a
<1>1. a = (a \div g) * g /\ a \div g \in Nat
  BY DivMod
<1>2. a \div g # 0
  BY <1>1
<1> DEFINE q == a \div g
<1> HIDE DEF q
<1>3. q \in Nat \ {0} /\ a = q * g
  BY <1>1, <1>2 DEF q
<1>4. q <= q * g
  BY <1>3
<1> QED
  BY <1>3, <1>4 DEF q

\* compute_lots: a lot and its price are positive, a lot is at most the
\* order's offer, and a lot trades at exactly the order's limit price.
LEMMA LotProperties ==
  ASSUME NEW o, o.amount_in \in Nat \ {0}, o.min_out \in Nat \ {0}
  PROVE  /\ Lot(o) \in Nat \ {0} /\ LotPrice(o) \in Nat \ {0}
         /\ Lot(o) <= o.amount_in
         /\ Lot(o) * o.min_out = LotPrice(o) * o.amount_in
<1> DEFINE g == Gcd(o.amount_in, o.min_out)
<1>1. g \in Nat \ {0} /\ o.amount_in % g = 0 /\ o.min_out % g = 0
  BY GcdDivides
<1>2. Lot(o) = o.amount_in \div g /\ LotPrice(o) = o.min_out \div g
  BY DEF Lot, LotPrice
<1> HIDE DEF g
<1>3. Lot(o) \in Nat \ {0} /\ Lot(o) * g = o.amount_in /\ Lot(o) <= o.amount_in
  BY <1>1, <1>2, Quotient
<1>4. LotPrice(o) \in Nat \ {0} /\ LotPrice(o) * g = o.min_out
  BY <1>1, <1>2, Quotient
<1>5. Lot(o) * o.min_out = LotPrice(o) * o.amount_in
  <2>1. \A l, p, d \in Nat : l * (p * d) = p * (l * d)
    OBVIOUS
  <2>2. Lot(o) * (LotPrice(o) * g) = LotPrice(o) * (Lot(o) * g)
    BY <1>1, <1>3, <1>4, <2>1
  <2> QED BY <1>3, <1>4, <2>2
<1> QED
  BY <1>3, <1>4, <1>5

\* compute_lots: the lots filled never take more than the maker has left, nor
\* cost more than the taker has left.
LEMMA FillProperties ==
  ASSUME NEW maker, maker.amount_in \in Nat \ {0}, maker.min_out \in Nat \ {0},
         maker.remaining_in \in Nat, NEW remaining \in Nat
  PROVE  /\ KMaker(maker) \in Nat
         /\ KTaker(maker, remaining) \in Nat
         /\ FillLots(maker, remaining) \in Nat
         /\ FillLots(maker, remaining) * Lot(maker) \in 0..maker.remaining_in
         /\ FillLots(maker, remaining) * LotPrice(maker) \in 0..remaining
<1>1. Lot(maker) \in Nat \ {0} /\ LotPrice(maker) \in Nat \ {0}
  BY LotProperties
<1> DEFINE km == KMaker(maker)
           kt == KTaker(maker, remaining)
           k == FillLots(maker, remaining)
           l == Lot(maker)
           p == LotPrice(maker)
<1>2. km \in Nat /\ km * l <= maker.remaining_in
  BY <1>1, DivMod DEF KMaker
<1>3. kt \in Nat /\ kt * p <= remaining
  BY <1>1, DivMod DEF KTaker
<1>4. k \in Nat /\ k <= km /\ k <= kt
  BY <1>2, <1>3 DEF FillLots
<1> HIDE DEF km, kt, k, l, p
<1>5. k * l <= km * l /\ k * p <= kt * p /\ k * l \in Nat /\ k * p \in Nat
  BY <1>1, <1>2, <1>3, <1>4 DEF l, p
<1>6. k * l \in 0..maker.remaining_in /\ k * p \in 0..remaining
  BY <1>1, <1>2, <1>3, <1>4, <1>5 DEF l, p
<1> QED
  BY <1>1, <1>2, <1>3, <1>4, <1>6 DEF km, kt, k, l, p

\* The position book_insert_sorted finds: the order there, if any, is beaten
\* by the new one and none before it is.
LEMMA InsertPositionProperties ==
  ASSUME NEW S, NEW orders \in Seq(S), NEW e, NEW side
  PROVE  LET p == InsertPosition(orders, e, side) IN
         /\ p \in 1..(Len(orders) + 1)
         /\ p # Len(orders) + 1 => EntryBetter(e, orders[p], side)
         /\ \A j \in 1..(p - 1) : ~EntryBetter(e, orders[j], side)
<1> DEFINE n == Len(orders)
           beaten == {j \in 1..n : EntryBetter(e, orders[j], side)}
           T == beaten \cup {n + 1}
           Good(p) == (p \in beaten \/ p = n + 1) /\ \A j \in beaten : p <= j
<1>1. n \in Nat /\ T \in SUBSET Nat /\ T # {}
  OBVIOUS
<1>2. PICK m \in T : \A j \in T : m <= j
  <2> HIDE DEF T
  <2> QED BY <1>1, NatMin
<1>3. m \in 1..(n + 1) /\ Good(m)
  BY <1>1, <1>2
<1>4. InsertPosition(orders, e, side) \in 1..(n + 1) /\ Good(InsertPosition(orders, e, side))
  <2>1. InsertPosition(orders, e, side) = CHOOSE p \in 1..(n + 1) : Good(p)
    BY DEF InsertPosition
  <2> HIDE DEF Good
  <2> QED BY <1>3, <2>1
<1> DEFINE q == InsertPosition(orders, e, side)
<1> HIDE DEF q
<1>5. q \in 1..(n + 1) /\ Good(q)
  BY <1>4 DEF q
<1>6. \A j \in 1..(q - 1) : ~EntryBetter(e, orders[j], side)
  BY <1>1, <1>5
<1> QED
  BY <1>5, <1>6 DEF q

\* What Vec::insert does to a sequence.
LEMMA InsertAtProperties ==
  ASSUME NEW S, NEW s \in Seq(S), NEW e \in S, NEW p \in 1..(Len(s) + 1)
  PROVE  /\ InsertAt(s, p, e) \in Seq(S)
         /\ Len(InsertAt(s, p, e)) = Len(s) + 1
         /\ \A k \in 1..(Len(s) + 1) :
              InsertAt(s, p, e)[k] = IF k < p THEN s[k] ELSE IF k = p THEN e ELSE s[k - 1]
<1>1. Len(s) \in Nat /\ \A k \in 1..Len(s) : s[k] \in S
  BY LenProperties
<1> DEFINE front == SubSeq(s, 1, p - 1)
           back == SubSeq(s, p, Len(s))
<1>2. /\ front \in Seq(S) /\ Len(front) = p - 1
      /\ \A k \in 1..(p - 1) : front[k] = s[k]
  BY <1>1, SubSeqProperties
<1>3. /\ back \in Seq(S) /\ Len(back) = Len(s) + 1 - p
      /\ \A k \in 1..(Len(s) + 1 - p) : back[k] = s[p + k - 1]
  BY <1>1, SubSeqProperties
<1> HIDE DEF front, back
<1>4. InsertAt(s, p, e) = (front \o <<e>>) \o back
  BY DEF InsertAt, front, back
<1> DEFINE first == front \o <<e>>
<1>5. /\ first \in Seq(S) /\ Len(first) = p
      /\ \A k \in 1..p : first[k] = IF k < p THEN front[k] ELSE e
  BY <1>2
<1> HIDE DEF first
<1>6. /\ first \o back \in Seq(S) /\ Len(first \o back) = Len(s) + 1
      /\ \A k \in 1..(Len(s) + 1) :
           (first \o back)[k] = IF k <= p THEN first[k] ELSE back[k - p]
  BY <1>1, <1>3, <1>5, ConcatProperties
<1>7. ASSUME NEW k \in 1..(Len(s) + 1)
      PROVE  (first \o back)[k] = IF k < p THEN s[k] ELSE IF k = p THEN e ELSE s[k - 1]
  BY <1>1, <1>2, <1>3, <1>5, <1>6
<1> QED
  BY <1>4, <1>6, <1>7 DEF first

\* r is s with e at position p.
IsInsertion(r, s, p, e) ==
  /\ Len(r) = Len(s) + 1
  /\ \A k \in 1..(Len(s) + 1) : r[k] = IF k < p THEN s[k] ELSE IF k = p THEN e ELSE s[k - 1]

\* InsertAt inserts.
LEMMA InsertAtInserts ==
  ASSUME NEW S, NEW s \in Seq(S), NEW e \in S, NEW p \in 1..(Len(s) + 1)
  PROVE  InsertAt(s, p, e) \in Seq(S) /\ IsInsertion(InsertAt(s, p, e), s, p, e)
<1>1. /\ InsertAt(s, p, e) \in Seq(S)
      /\ Len(InsertAt(s, p, e)) = Len(s) + 1
      /\ \A k \in 1..(Len(s) + 1) :
           InsertAt(s, p, e)[k] = IF k < p THEN s[k] ELSE IF k = p THEN e ELSE s[k - 1]
  BY InsertAtProperties
<1> DEFINE r == InsertAt(s, p, e)
<1> HIDE DEF r
<1>2. IsInsertion(r, s, p, e)
  BY <1>1 DEF IsInsertion, r
<1> QED
  BY <1>1, <1>2 DEF r

\* What Vec::remove does to a sequence.
LEMMA RemoveAtProperties ==
  ASSUME NEW S, NEW s \in Seq(S), NEW p \in 1..Len(s)
  PROVE  /\ RemoveAt(s, p) \in Seq(S)
         /\ Len(RemoveAt(s, p)) = Len(s) - 1
         /\ \A k \in 1..(Len(s) - 1) :
              RemoveAt(s, p)[k] = IF k < p THEN s[k] ELSE s[k + 1]
<1>1. Len(s) \in Nat /\ \A k \in 1..Len(s) : s[k] \in S
  BY LenProperties
<1> DEFINE front == SubSeq(s, 1, p - 1)
           back == SubSeq(s, p + 1, Len(s))
<1>2. /\ front \in Seq(S) /\ Len(front) = p - 1
      /\ \A k \in 1..(p - 1) : front[k] = s[k]
  BY <1>1, SubSeqProperties
<1>3. /\ back \in Seq(S) /\ Len(back) = Len(s) - p
      /\ \A k \in 1..(Len(s) - p) : back[k] = s[p + k]
  BY <1>1, SubSeqProperties
<1> HIDE DEF front, back
<1>4. RemoveAt(s, p) = front \o back
  BY DEF RemoveAt, front, back
<1>5. /\ front \o back \in Seq(S) /\ Len(front \o back) = Len(s) - 1
      /\ \A k \in 1..(Len(s) - 1) :
           (front \o back)[k] = IF k < p THEN front[k] ELSE back[k - (p - 1)]
  BY <1>1, <1>2, <1>3, ConcatProperties
<1>6. ASSUME NEW k \in 1..(Len(s) - 1)
      PROVE  (front \o back)[k] = IF k < p THEN s[k] ELSE s[k + 1]
  BY <1>1, <1>2, <1>3, <1>5
<1> QED
  BY <1>4, <1>5, <1>6

\* Cross-multiplied comparison of ratios is transitive.
LEMMA RatioTransitive ==
  ASSUME NEW a \in Nat, NEW b \in Nat \ {0}, NEW c \in Nat, NEW d \in Nat \ {0},
         NEW e \in Nat, NEW f \in Nat \ {0},
         a * d <= c * b, c * f <= e * d
  PROVE  a * f <= e * b
<1>1. (a * d) * f <= (c * b) * f /\ (c * f) * b <= (e * d) * b
  OBVIOUS
<1>2. (a * d) * f = d * (a * f) /\ (c * b) * f = (c * f) * b /\ (e * d) * b = d * (e * b)
  OBVIOUS
<1>3. d * (a * f) <= d * (e * b)
  BY <1>1, <1>2
<1>4. \A x, y \in Nat : d * x <= d * y => x <= y
  <2> SUFFICES ASSUME NEW x \in Nat, NEW y \in Nat, y < x
               PROVE  d * y < d * x
    OBVIOUS
  <2> QED OBVIOUS
<1> QED
  BY <1>3, <1>4

\* entry_better is a ranking: "not ahead of" is transitive.
LEMMA NotBetterTransitive ==
  ASSUME NEW S, \A o \in S : o.amount_in \in Nat \ {0} /\ o.min_out \in Nat \ {0},
         NEW x \in S, NEW y \in S, NEW z \in S, NEW side,
         ~EntryBetter(y, x, side), ~EntryBetter(z, y, side)
  PROVE  ~EntryBetter(z, x, side)
<1>1. CASE side = Sell
  <2>1. x.min_out * y.amount_in <= y.min_out * x.amount_in
    BY <1>1 DEF EntryBetter
  <2>2. y.min_out * z.amount_in <= z.min_out * y.amount_in
    BY <1>1 DEF EntryBetter
  <2>3. x.min_out * z.amount_in <= z.min_out * x.amount_in
    BY <2>1, <2>2, RatioTransitive
  <2> QED BY <1>1, <2>3 DEF EntryBetter
<1>2. CASE side # Sell
  <2>1. y.amount_in * x.min_out <= x.amount_in * y.min_out
    BY <1>2 DEF EntryBetter
  <2>2. z.amount_in * y.min_out <= y.amount_in * z.min_out
    BY <1>2 DEF EntryBetter
  <2>3. z.amount_in * x.min_out <= x.amount_in * z.min_out
    BY <2>1, <2>2, RatioTransitive
  <2> QED BY <1>2, <2>3 DEF EntryBetter
<1> QED
  BY <1>1, <1>2

\* entry_better never ranks two orders ahead of each other.
LEMMA BetterAsymmetric ==
  ASSUME NEW S, \A o \in S : o.amount_in \in Nat \ {0} /\ o.min_out \in Nat \ {0},
         NEW x \in S, NEW y \in S, NEW side, EntryBetter(x, y, side)
  PROVE  ~EntryBetter(y, x, side)
BY DEF EntryBetter

\* book_insert_sorted keeps a sorted side sorted.
LEMMA InsertKeepsSorted ==
  ASSUME NEW S, \A o \in S : o.amount_in \in Nat \ {0} /\ o.min_out \in Nat \ {0},
         NEW s \in Seq(S), NEW e \in S, NEW side, SortedSide(s, side)
  PROVE  SortedSide(BookInsertSorted(s, e, side), side)
<1> DEFINE p == InsertPosition(s, e, side)
           r == BookInsertSorted(s, e, side)
<1>1. /\ p \in 1..(Len(s) + 1)
      /\ p # Len(s) + 1 => EntryBetter(e, s[p], side)
      /\ \A j \in 1..(p - 1) : ~EntryBetter(e, s[j], side)
  BY InsertPositionProperties
<1>2. /\ Len(r) = Len(s) + 1
      /\ \A k \in 1..(Len(s) + 1) :
           r[k] = IF k < p THEN s[k] ELSE IF k = p THEN e ELSE s[k - 1]
  <2>1. r = InsertAt(s, p, e)
    BY DEF BookInsertSorted
  <2> HIDE DEF p, r
  <2>2. /\ Len(InsertAt(s, p, e)) = Len(s) + 1
        /\ \A k \in 1..(Len(s) + 1) :
             InsertAt(s, p, e)[k] = IF k < p THEN s[k] ELSE IF k = p THEN e ELSE s[k - 1]
    <3>1. p \in 1..(Len(s) + 1)
      BY <1>1
    <3> QED BY <3>1, InsertAtProperties
  <2> QED BY <2>1, <2>2, Zenon
<1>3. /\ Len(s) \in Nat /\ \A k \in 1..Len(s) : s[k] \in S
      /\ \A k, l \in 1..Len(s) : k < l => ~EntryBetter(s[l], s[k], side)
  BY LenProperties DEF SortedSide
<1>7. DOMAIN r = 1..Len(r)
  <2>1. r = InsertAt(s, p, e) /\ InsertAt(s, p, e) \in Seq(S)
    BY <1>1, InsertAtProperties DEF BookInsertSorted
  <2> QED BY <2>1, LenProperties
<1> HIDE DEF p, r
<1> SUFFICES ASSUME NEW k \in 1..Len(r), NEW l \in 1..Len(r), k < l
             PROVE  ~EntryBetter(r[l], r[k], side)
  BY <1>7 DEF r, SortedSide
<1>4. CASE k # p /\ l # p
  <2> DEFINE kk == IF k < p THEN k ELSE k - 1
             ll == IF l < p THEN l ELSE l - 1
  <2>1. /\ kk \in 1..Len(s) /\ ll \in 1..Len(s) /\ kk < ll
        /\ k \in 1..(Len(s) + 1) /\ l \in 1..(Len(s) + 1)
    BY <1>1, <1>2, <1>3, <1>4
  <2>2. r[k] = s[kk] /\ r[l] = s[ll]
    BY <1>1, <1>2, <1>3, <1>4, <2>1
  <2> QED BY <1>3, <2>1, <2>2
<1>5. CASE l = p
  <2>1. r[k] = s[k] /\ r[l] = e /\ k \in 1..(p - 1)
    BY <1>1, <1>2, <1>3, <1>5
  <2> QED BY <1>1, <2>1
<1>6. CASE k = p
  <2>1. /\ r[k] = e /\ r[l] = s[l - 1] /\ p \in 1..Len(s) /\ l - 1 \in 1..Len(s)
        /\ p <= l - 1
    BY <1>1, <1>2, <1>3, <1>6
  <2>2. EntryBetter(e, s[p], side) /\ ~EntryBetter(s[p], e, side)
    BY <1>1, <1>3, <2>1, BetterAsymmetric
  <2>3. CASE l - 1 = p
    BY <2>1, <2>2, <2>3
  <2>4. CASE l - 1 # p
    <3>1. ~EntryBetter(s[l - 1], s[p], side)
      BY <1>3, <2>1, <2>4
    <3>2. s[p] \in S /\ s[l - 1] \in S
      BY <1>3, <2>1
    <3> QED BY <2>1, <2>2, <3>1, <3>2, NotBetterTransitive
  <2> QED BY <2>3, <2>4
<1> QED
  BY <1>4, <1>5, <1>6

\* Removing an order keeps a sorted side sorted.
LEMMA RemoveKeepsSorted ==
  ASSUME NEW S, NEW s \in Seq(S), NEW p \in 1..Len(s), NEW side, SortedSide(s, side)
  PROVE  SortedSide(RemoveAt(s, p), side)
<1> DEFINE r == RemoveAt(s, p)
<1>1. /\ r \in Seq(S) /\ Len(r) = Len(s) - 1
      /\ \A k \in 1..(Len(s) - 1) : r[k] = IF k < p THEN s[k] ELSE s[k + 1]
  BY RemoveAtProperties
<1>2. /\ Len(s) \in Nat /\ DOMAIN s = 1..Len(s) /\ DOMAIN r = 1..(Len(s) - 1)
  BY <1>1, LenProperties
<1> HIDE DEF r
<1> SUFFICES ASSUME NEW k \in 1..(Len(s) - 1), NEW l \in 1..(Len(s) - 1), k < l
             PROVE  ~EntryBetter(r[l], r[k], side)
  BY <1>2 DEF SortedSide, r
<1> DEFINE kk == IF k < p THEN k ELSE k + 1
           ll == IF l < p THEN l ELSE l + 1
<1>3. kk \in DOMAIN s /\ ll \in DOMAIN s /\ kk < ll
  BY <1>2
<1>4. r[k] = s[kk] /\ r[l] = s[ll]
  BY <1>1
<1> QED
  BY <1>3, <1>4 DEF SortedSide

\* A partial fill changes no price, so it keeps a sorted side sorted.
LEMMA UpdateKeepsSorted ==
  ASSUME NEW S, NEW s \in Seq(S), NEW p \in 1..Len(s), NEW e, NEW side,
         SortedSide(s, side),
         e.amount_in = s[p].amount_in, e.min_out = s[p].min_out
  PROVE  SortedSide([s EXCEPT ![p] = e], side)
<1> DEFINE r == [s EXCEPT ![p] = e]
<1>1. DOMAIN r = DOMAIN s /\ \A k \in DOMAIN s : r[k] = IF k = p THEN e ELSE s[k]
  BY LenProperties
<1> HIDE DEF r
<1>2. \A k \in DOMAIN s : r[k].amount_in = s[k].amount_in /\ r[k].min_out = s[k].min_out
  BY <1>1
<1>3. \A k, l \in DOMAIN s : EntryBetter(r[l], r[k], side) <=> EntryBetter(s[l], s[k], side)
  BY <1>2 DEF EntryBetter
<1> QED
  BY <1>1, <1>3 DEF SortedSide, r
-----------------------------------------------------------------------------
(***************************************************************************)
(* Sums over a set.                                                        *)
(***************************************************************************)

\* The units of one holder are as many as it holds.
LEMMA UnitsOfOne ==
  ASSUME NEW f, NEW x, f[x] \in Nat
  PROVE  /\ IsFiniteSet({x} \X (1..f[x]))
         /\ Cardinality({x} \X (1..f[x])) = f[x]
<1>1. IsFiniteSet({x}) /\ Cardinality({x}) = 1
  BY FS_Singleton
<1>2. IsFiniteSet(1..f[x]) /\ Cardinality(1..f[x]) = f[x]
  BY FS_Interval
<1>3. /\ IsFiniteSet({x} \X (1..f[x]))
      /\ Cardinality({x} \X (1..f[x])) = Cardinality({x}) * Cardinality(1..f[x])
  BY <1>1, <1>2, FS_Product
<1> QED
  BY <1>1, <1>2, <1>3

\* Finitely many holders have finitely many units.
LEMMA UnitsFinite ==
  ASSUME NEW S, IsFiniteSet(S), NEW f, \A x \in S : f[x] \in Nat
  PROVE  IsFiniteSet(Units(f, S))
<1> DEFINE T == {{x} \X (1..f[x]) : x \in S}
           h == [x \in S |-> {x} \X (1..f[x])]
<1>1. h \in Surjection(S, T)
  BY DEF Surjection
<1>2. IsFiniteSet(T)
  BY <1>1, FS_Surjection
<1>3. \A u \in T : IsFiniteSet(u)
  BY UnitsOfOne
<1> HIDE DEF T
<1>4. IsFiniteSet(UNION T)
  BY <1>2, <1>3, FS_UNION
<1> QED
  BY <1>4 DEF T, Units

\* A total is a number.
LEMMA TotalType ==
  ASSUME NEW S, IsFiniteSet(S), NEW f, \A x \in S : f[x] \in Nat
  PROVE  Total(f, S) \in Nat
BY UnitsFinite, FS_CardinalityType DEF Total

\* Nobody has nothing.
LEMMA TotalEmpty == ASSUME NEW f PROVE Total(f, {}) = 0
BY FS_EmptySet DEF Total, Units

\* Totals of separate groups add up.
LEMMA TotalUnion ==
  ASSUME NEW S, IsFiniteSet(S), NEW T, IsFiniteSet(T), S \cap T = {},
         NEW f, \A x \in S \cup T : f[x] \in Nat
  PROVE  Total(f, S \cup T) = Total(f, S) + Total(f, T)
<1>1. IsFiniteSet(Units(f, S)) /\ IsFiniteSet(Units(f, T))
  BY UnitsFinite
<1>2. Units(f, S \cup T) = Units(f, S) \cup Units(f, T)
  BY DEF Units
<1>3. Units(f, S) \cap Units(f, T) = {}
  BY DEF Units
<1>4. /\ Cardinality(Units(f, S)) \in Nat /\ Cardinality(Units(f, T)) \in Nat
      /\ Cardinality({}) = 0
  BY <1>1, FS_CardinalityType, FS_EmptySet
<1>5. Cardinality(Units(f, S) \cup Units(f, T)) =
        Cardinality(Units(f, S)) + Cardinality(Units(f, T))
          - Cardinality(Units(f, S) \cap Units(f, T))
  BY <1>1, FS_Union
<1>6. Cardinality(Units(f, S) \cap Units(f, T)) = 0
  BY <1>3, <1>4
<1>7. Total(f, S \cup T) = Cardinality(Units(f, S) \cup Units(f, T))
  BY <1>2 DEF Total
<1>8. Total(f, S) = Cardinality(Units(f, S)) /\ Total(f, T) = Cardinality(Units(f, T))
  BY DEF Total
<1> QED
  BY <1>4, <1>5, <1>6, <1>7, <1>8

\* One holder.
LEMMA TotalOne ==
  ASSUME NEW f, NEW x, f[x] \in Nat
  PROVE  Total(f, {x}) = f[x]
<1>1. Units(f, {x}) = {x} \X (1..f[x])
  BY DEF Units
<1> QED
  BY <1>1, UnitsOfOne DEF Total

\* One more holder.
LEMMA TotalAdd ==
  ASSUME NEW S, IsFiniteSet(S), NEW x, x \notin S,
         NEW f, \A y \in S \cup {x} : f[y] \in Nat
  PROVE  Total(f, S \cup {x}) = Total(f, S) + f[x]
<1>1. IsFiniteSet({x}) /\ S \cap {x} = {}
  BY FS_Singleton
<1>2. Total(f, S \cup {x}) = Total(f, S) + Total(f, {x})
  BY <1>1, TotalUnion
<1> QED
  BY <1>2, TotalOne

\* One holder less.
LEMMA TotalRemove ==
  ASSUME NEW S, IsFiniteSet(S), NEW x \in S,
         NEW f, \A y \in S : f[y] \in Nat
  PROVE  Total(f, S) = Total(f, S \ {x}) + f[x]
<1>1. IsFiniteSet(S \ {x}) /\ x \notin S \ {x} /\ (S \ {x}) \cup {x} = S
  BY FS_RemoveElement
<1> QED
  BY <1>1, TotalAdd

\* Only what the group holds counts.
LEMMA TotalSame ==
  ASSUME NEW S, NEW f, NEW g, \A x \in S : f[x] = g[x]
  PROVE  Total(f, S) = Total(g, S)
<1>1. Units(f, S) = Units(g, S)
  BY DEF Units
<1> QED
  BY <1>1 DEF Total

\* Names do not matter.
LEMMA TotalRenamed ==
  ASSUME NEW S, IsFiniteSet(S), NEW T, NEW h \in Bijection(S, T),
         NEW f, \A x \in S : f[x] \in Nat,
         NEW g, \A x \in S : g[h[x]] = f[x]
  PROVE  Total(f, S) = Total(g, T)
<1> DEFINE U == Units(f, S)
           V == Units(g, T)
           r == [u \in U |-> <<h[u[1]], u[2]>>]
<1>1. \A u \in U : u[1] \in S /\ u[2] \in 1..f[u[1]] /\ u = <<u[1], u[2]>>
  BY DEF Units
<1>2. \A x \in S : \A n \in 1..f[x] : <<x, n>> \in U
  BY DEF Units
<1>3. \A v \in V : \E y \in T : \E n \in 1..g[y] : v = <<y, n>>
  BY DEF Units
<1>4. \A y \in T : \A n \in 1..g[y] : <<y, n>> \in V
  BY DEF Units
<1>5. /\ \A x \in S : h[x] \in T
      /\ \A x, y \in S : h[x] = h[y] => x = y
      /\ \A y \in T : \E x \in S : h[x] = y
  BY DEF Bijection, Injection, Surjection, IsInjective
<1> HIDE DEF U, V
<1>6. r \in [U -> V]
  BY <1>1, <1>4, <1>5
<1>7. ASSUME NEW u \in U, NEW v \in U, r[u] = r[v] PROVE u = v
  BY <1>1, <1>5, <1>7
<1>8. ASSUME NEW v \in V PROVE \E u \in U : r[u] = v
  <2>1. PICK y \in T : \E n \in 1..g[y] : v = <<y, n>>
    BY <1>3
  <2>5. PICK n \in 1..g[y] : v = <<y, n>>
    BY <2>1
  <2>2. PICK x \in S : h[x] = y
    BY <1>5
  <2>3. <<x, n>> \in U
    BY <2>5, <2>2, <1>2
  <2>4. r[<<x, n>>] = v
    BY <2>5, <2>2, <2>3
  <2> QED
    BY <2>3, <2>4
<1>9. r \in Bijection(U, V)
  BY <1>6, <1>7, <1>8 DEF Bijection, Injection, Surjection, IsInjective
<1>10. ExistsBijection(U, V) /\ IsFiniteSet(U)
  BY <1>9, UnitsFinite DEF ExistsBijection, U
<1>11. Cardinality(U) = Cardinality(V)
  BY <1>10, FS_Bijection
<1> QED
  BY <1>11 DEF Total, U, V
=============================================================================
