------------------------ MODULE DomainShield_proofs ------------------------
(***************************************************************************)
(* The Domain Shield for every zone, and every number of syncs, edits and  *)
(* refreshes: what its writes leave of the customer's records, what its    *)
(* refreshes leave of the history, and the quiet hours.                    *)
(***************************************************************************)
EXTENDS DomainShield, FiniteSetTheorems, TLAPS

-----------------------------------------------------------------------------
(* What is picked of a sequence.                                           *)

\* A finite set of numbers, as the indices of a sequence are.
LEMMA FiniteNumbers ==
    ASSUME NEW K \in Nat, NEW ms \in SUBSET (1..K)
    PROVE  IsFiniteSet(ms) /\ Cardinality(ms) \in Nat
<1>1. IsFiniteSet(1..K) BY FS_Interval
<1>. QED BY <1>1, FS_Subset, FS_CardinalityType

LEMMA CardinalityOfInterval ==
    ASSUME NEW a \in Int, NEW b \in Int, a <= b + 1
    PROVE  IsFiniteSet(a..b) /\ Cardinality(a..b) = b - a + 1
<1>1. IsFiniteSet(a..b) /\ Cardinality(a..b) = IF a > b THEN 0 ELSE b - a + 1
  BY FS_Interval
<1>. QED BY <1>1

\* The place of an index among some of them: each has one of its own, and
\* every place from the first to the last is taken.
LEMMA PlaceRange ==
    ASSUME NEW K \in Nat, NEW ms \in SUBSET (1..K), NEW m \in ms
    PROVE  Place(ms, m) \in 1..Cardinality(ms)
<1>. DEFINE upto == {q \in ms : q <= m}
            n == Cardinality(ms)
<1>0. ms \subseteq Int /\ m \in Int OBVIOUS
<1>1. upto \subseteq ms /\ m \in upto /\ IsFiniteSet(ms) /\ n \in Nat
  <2>1. m <= m BY <1>0
  <2>2. IsFiniteSet(ms) /\ n \in Nat BY FiniteNumbers
  <2>. QED BY <2>1, <2>2
<1>2. IsFiniteSet(upto) /\ Cardinality(upto) \in Nat /\ Cardinality(upto) <= n
  BY <1>1, FS_Subset, FS_CardinalityType
<1>3. Cardinality(upto) # 0 BY <1>1, <1>2, FS_EmptySet
<1>. HIDE DEF upto, n
<1>4. Cardinality(upto) \in 1..n BY <1>1, <1>2, <1>3
<1>. QED BY <1>4 DEF Place, upto, n

LEMMA PlaceGrows ==
    ASSUME NEW K \in Nat, NEW ms \in SUBSET (1..K), NEW m \in ms, NEW q \in ms, m < q
    PROVE  Place(ms, m) < Place(ms, q)
<1>. DEFINE low == {p \in ms : p <= m}
            high == {p \in ms : p <= q}
<1>0. \A p \in ms : p \in Int OBVIOUS
<1>1. low \subseteq high /\ high \subseteq ms /\ q \in high /\ q \notin low
  <2>1. m \in Int /\ q \in Int BY <1>0
  <2>2. \A p \in ms : p <= m => p <= q BY <1>0, <2>1
  <2>3. q <= q /\ ~(q <= m) BY <2>1
  <2>. QED BY <2>2, <2>3
<1>2. IsFiniteSet(high) BY <1>1, FiniteNumbers, FS_Subset
<1>3. Cardinality(low) <= Cardinality(high) /\ Cardinality(low) # Cardinality(high)
  BY <1>1, <1>2, FS_Subset
<1>4. Cardinality(low) \in Nat /\ Cardinality(high) \in Nat
  BY <1>1, <1>2, FS_Subset, FS_CardinalityType
<1>. HIDE DEF low, high
<1>5. Cardinality(low) < Cardinality(high) BY <1>3, <1>4
<1>. QED BY <1>5 DEF Place, low, high

LEMMA PlacesTaken ==
    ASSUME NEW K \in Nat, NEW ms \in SUBSET (1..K)
    PROVE  [m \in ms |-> Place(ms, m)] \in Bijection(ms, 1..Cardinality(ms))
<1>. DEFINE n == Cardinality(ms)
            place == [m \in ms |-> Place(ms, m)]
<1>1. n \in Nat BY FiniteNumbers
<1>2. place \in [ms -> 1..n] BY PlaceRange
<1>3. ASSUME NEW m \in ms, NEW q \in ms, place[m] = place[q] PROVE m = q
  <2>1. m \in Int /\ q \in Int OBVIOUS
  <2>2. Place(ms, m) \in 1..n /\ Place(ms, q) \in 1..n BY PlaceRange
  <2>3. Place(ms, m) \in Int /\ Place(ms, q) \in Int /\ Place(ms, m) = Place(ms, q)
    BY <1>1, <1>3, <2>2
  <2>4. m < q => Place(ms, m) < Place(ms, q) BY PlaceGrows
  <2>5. q < m => Place(ms, q) < Place(ms, m) BY PlaceGrows
  <2>6. ~(m < q) /\ ~(q < m) BY <2>3, <2>4, <2>5
  <2>. QED BY <2>1, <2>6
<1>4. place \in Injection(ms, 1..n) BY <1>2, <1>3 DEF Injection, IsInjective
<1>5. IsFiniteSet(1..n) /\ Cardinality(1..n) = n BY <1>1, CardinalityOfInterval
<1>6. place \in Surjection(ms, 1..n) BY <1>4, <1>5, FS_Injection
<1>. QED BY <1>4, <1>6 DEF Bijection

\* Nth is the inverse of Place.
LEMMA NthIs ==
    ASSUME NEW K \in Nat, NEW ms \in SUBSET (1..K)
    PROVE  /\ \A k \in 1..Cardinality(ms) : Nth(ms, k) \in ms /\ Place(ms, Nth(ms, k)) = k
           /\ \A m \in ms : Nth(ms, Place(ms, m)) = m
<1>. DEFINE n == Cardinality(ms)
            place == [m \in ms |-> Place(ms, m)]
<1>1. place \in Bijection(ms, 1..n) BY PlacesTaken
<1>2. ASSUME NEW k \in 1..n PROVE Nth(ms, k) \in ms /\ Place(ms, Nth(ms, k)) = k
  <2>1. PICK m \in ms : place[m] = k BY <1>1 DEF Bijection, Surjection
  <2>2. \E q \in ms : Place(ms, q) = k BY <2>1
  <2>. QED BY <2>2 DEF Nth
<1>3. ASSUME NEW m \in ms PROVE Nth(ms, Place(ms, m)) = m
  <2>1. Place(ms, m) \in 1..n BY PlaceRange
  <2>2. Nth(ms, Place(ms, m)) \in ms /\ Place(ms, Nth(ms, Place(ms, m))) = Place(ms, m)
    BY <1>2, <2>1
  <2>3. \A p, q \in ms : place[p] = place[q] => p = q
    BY <1>1 DEF Bijection, Injection, IsInjective
  <2>4. \A p, q \in ms : Place(ms, p) = Place(ms, q) => p = q BY <2>3
  <2>. QED BY <2>2, <2>4
<1>. QED BY <1>2, <1>3

\* The later place is the later index.
LEMMA NthGrows ==
    ASSUME NEW K \in Nat, NEW ms \in SUBSET (1..K),
           NEW k \in 1..Cardinality(ms), NEW l \in 1..Cardinality(ms), k < l
    PROVE  Nth(ms, k) < Nth(ms, l)
<1>1. /\ Nth(ms, k) \in ms /\ Place(ms, Nth(ms, k)) = k
      /\ Nth(ms, l) \in ms /\ Place(ms, Nth(ms, l)) = l
  BY NthIs
<1>2. Nth(ms, k) \in Int /\ Nth(ms, l) \in Int
  <2>1. \A m \in ms : m \in Int OBVIOUS
  <2>. QED BY <1>1, <2>1
<1>3. Cardinality(ms) \in Nat BY FiniteNumbers
<1>4. k \in Int /\ l \in Int BY <1>3
<1>5. Nth(ms, l) < Nth(ms, k) => l < k BY <1>1, PlaceGrows
<1>6. Nth(ms, l) = Nth(ms, k) => l = k BY <1>1
<1>7. ~(l < k) /\ l # k BY <1>4
<1>. QED BY <1>2, <1>5, <1>6, <1>7

\* What is picked is the same wherever it stands, when it stands in the same
\* order: g leads from the indices of the one to those of the other.
Leads(g, J, I) ==
    /\ g \in [J -> I]
    /\ \A i \in I : \E j \in J : g[j] = i
    /\ \A p, q \in J : p < q => g[p] < g[q]

SameAlong(g, J, t, s) == \A j \in J : t[j] = s[g[j]]

Indices == {J \in SUBSET Nat : \E K \in Nat : J \in SUBSET (1..K)}

LEMMA AreIndices == ASSUME NEW K \in Nat, NEW J \in SUBSET (1..K) PROVE J \in Indices
<1>1. J \in SUBSET Nat OBVIOUS
<1>. QED BY <1>1 DEF Indices

LEMMA SamePicked ==
    ASSUME NEW J \in Indices, NEW I \in Indices, NEW s, NEW t, NEW g,
           Leads(g, J, I), SameAlong(g, J, t, s)
    PROVE  Picked(t, J) = Picked(s, I)
<1>. USE DEF Leads, SameAlong
<1>0. PICK A \in Nat, B \in Nat : J \in SUBSET (1..A) /\ I \in SUBSET (1..B) BY DEF Indices
<1>1. Cardinality(J) = Cardinality(I)
  <2>1. ASSUME NEW p \in J, NEW q \in J, g[p] = g[q] PROVE p = q
    <3>1. (\A j \in J : j \in Int) /\ (\A i \in I : i \in Int) BY <1>0
    <3>2. g[p] \in I /\ g[q] \in I OBVIOUS
    <3>3. p \in Int /\ q \in Int /\ g[p] \in Int /\ g[q] \in Int BY <3>1, <3>2
    <3>4. (p < q => g[p] < g[q]) /\ (q < p => g[q] < g[p]) OBVIOUS
    <3>. QED BY <2>1, <3>3, <3>4
  <2>2. g \in Injection(J, I) BY <2>1 DEF Injection, IsInjective
  <2>3. g \in Surjection(J, I) BY DEF Surjection
  <2>4. IsFiniteSet(I) BY <1>0, FiniteNumbers
  <2>. QED BY <2>2, <2>3, <2>4, FS_Injection
<1>2. ASSUME NEW j \in J PROVE Place(I, g[j]) = Place(J, j)
  <2>. DEFINE upto == {q \in J : q <= j}
              image == {i \in I : i <= g[j]}
              h == [q \in upto |-> g[q]]
  <2>1. \A q \in J : q \in Int /\ g[q] \in Int /\ g[q] \in I
    <3>1. (\A q \in J : q \in Int) /\ (\A i \in I : i \in Int) BY <1>0
    <3>. QED BY <3>1
  <2>2. \A p, q \in J : p <= q <=> g[p] <= g[q] 
    <3>. TAKE p, q \in J
    <3>1. p \in Int /\ q \in Int /\ g[p] \in Int /\ g[q] \in Int BY <2>1
    <3>2. (p < q => g[p] < g[q]) /\ (q < p => g[q] < g[p]) OBVIOUS
    <3>3. p = q => g[p] = g[q] OBVIOUS
    <3>. QED BY <3>1, <3>2, <3>3
  <2>3. h \in [upto -> image] BY <2>1, <2>2
  <2>4. ASSUME NEW p \in upto, NEW q \in upto, h[p] = h[q] PROVE p = q
    <3>1. p \in Int /\ q \in Int /\ g[p] \in Int /\ g[q] \in Int /\ p \in J /\ q \in J BY <2>1
    <3>2. g[p] = g[q] BY <2>4
    <3>3. g[p] <= g[q] /\ g[q] <= g[p] BY <3>1, <3>2
    <3>4. p <= q /\ q <= p BY <2>2, <3>1, <3>3
    <3>. QED BY <3>1, <3>4
  <2>5. ASSUME NEW i \in image PROVE \E q \in upto : h[q] = i
    <3>1. PICK q \in J : g[q] = i OBVIOUS
    <3>2. q <= j BY <2>2, <3>1
    <3>. QED BY <3>1, <3>2
  <2>6. h \in Injection(upto, image) BY <2>3, <2>4 DEF Injection, IsInjective
  <2>7. h \in Surjection(upto, image) BY <2>3, <2>5 DEF Surjection
  <2>8. IsFiniteSet(image)
    <3>1. image \in SUBSET (1..B) BY <1>0
    <3>. HIDE DEF image
    <3>. QED BY <1>0, <3>1, FiniteNumbers
  <2>. HIDE DEF h, upto, image
  <2>9. Cardinality(upto) = Cardinality(image) BY <2>6, <2>7, <2>8, FS_Injection
  <2>. QED BY <2>9 DEF Place, upto, image
<1>3. ASSUME NEW k \in 1..Cardinality(J) PROVE t[Nth(J, k)] = s[Nth(I, k)]
  <2>1. Nth(J, k) \in J /\ Place(J, Nth(J, k)) = k BY <1>0, NthIs
  <2>2. g[Nth(J, k)] \in I BY <2>1
  <2>4. Place(I, g[Nth(J, k)]) = k BY <1>2, <2>1
  <2>5. Nth(I, k) = g[Nth(J, k)] BY <1>0, <2>2, <2>4, NthIs
  <2>. QED BY <2>1, <2>5
<1>. QED BY <1>1, <1>3 DEF Picked

-----------------------------------------------------------------------------
(* SPF records.                                                            *)

\* What is kept of a record: mechanisms of it that are neither an "all" nor
\* withdrawn, in their order and each once.
LEMMA KeptFacts ==
    ASSUME NEW s \in Seq(Terms)
    PROVE  /\ KeptAt(s) \in SUBSET (1..Len(s))
           /\ KeptTerms(s) \in Seq(Terms \ (Alls \cup Withdrawn))
           /\ Len(KeptTerms(s)) = Cardinality(KeptAt(s))
           /\ \A k \in 1..Len(KeptTerms(s)) :
                Nth(KeptAt(s), k) \in KeptAt(s) /\ KeptTerms(s)[k] = s[Nth(KeptAt(s), k)]
           /\ \A k, l \in 1..Len(KeptTerms(s)) : KeptTerms(s)[k] = KeptTerms(s)[l] => k = l
<1>. DEFINE I == KeptAt(s)
            kept == KeptTerms(s)
            n == Cardinality(I)
<1>1. I \in SUBSET (1..Len(s)) /\ Len(s) \in Nat BY DEF KeptAt
<1>2. \A i \in I : s[i] \in Terms \ (Alls \cup Withdrawn) /\ FirstAt(s, i) BY DEF KeptAt
<1>3. kept = [k \in 1..n |-> s[Nth(I, k)]] BY DEF KeptTerms, Picked
<1>. HIDE DEF I, kept
<1>4. n \in Nat BY <1>1, FiniteNumbers
<1>5. \A k \in 1..n : Nth(I, k) \in I BY <1>1, NthIs
<1>6. kept \in Seq(Terms \ (Alls \cup Withdrawn)) /\ Len(kept) = n
  BY <1>2, <1>3, <1>4, <1>5
<1>7. \A k \in 1..n : kept[k] = s[Nth(I, k)] BY <1>3
<1>8. ASSUME NEW k \in 1..n, NEW l \in 1..n, k < l PROVE kept[k] # kept[l]
  <2>1. Nth(I, k) < Nth(I, l) /\ Nth(I, k) \in I /\ Nth(I, l) \in I
    BY <1>1, <1>5, <1>8, NthGrows
  <2>2. \A i \in I : i \in Nat \ {0} BY <1>1
  <2>3. Nth(I, k) \in 1..(Nth(I, l) - 1)
    <3>1. Nth(I, k) \in Nat \ {0} /\ Nth(I, l) \in Nat \ {0} BY <2>1, <2>2
    <3>. QED BY <2>1, <3>1
  <2>4. s[Nth(I, k)] # s[Nth(I, l)] BY <1>2, <2>1, <2>3 DEF FirstAt
  <2>. QED BY <1>7, <2>4
<1>9. \A k, l \in 1..n : kept[k] = kept[l] => k = l
  <2>. SUFFICES ASSUME NEW k \in 1..n, NEW l \in 1..n, kept[k] = kept[l], k # l PROVE FALSE
    OBVIOUS
  <2>1. k < l \/ l < k BY <1>4
  <2>. QED BY <1>8, <2>1
<1>. QED BY <1>1, <1>5, <1>6, <1>7, <1>9 DEF I, kept

\* A record that begins with what was kept, and goes on with mechanisms that
\* are not the customer's, has the customer's mechanisms.
LEMMA OwnKept ==
    ASSUME NEW s \in Seq(Terms), NEW t \in Seq(Terms),
           Len(KeptTerms(s)) <= Len(t),
           \A k \in 1..Len(KeptTerms(s)) : t[k] = KeptTerms(s)[k],
           \A k \in 1..Len(t) : k > Len(KeptTerms(s)) => t[k] \notin OwnTerms
    PROVE  Picked(t, OwnAt(t)) = Picked(s, OwnAt(s))
<1>. DEFINE K == KeptAt(s)
            kept == KeptTerms(s)
            n == Len(kept)
            J == OwnAt(t)
            I == OwnAt(s)
            g == [j \in J |-> Nth(K, j)]
<1>1. /\ K \in SUBSET (1..Len(s)) /\ n = Cardinality(K) /\ n \in Nat
      /\ \A k \in 1..n : Nth(K, k) \in K /\ kept[k] = s[Nth(K, k)]
      /\ \A k, l \in 1..n : kept[k] = kept[l] => k = l
  BY KeptFacts
<1>2. \A j \in J : j \in 1..n /\ t[j] \in OwnTerms
  <2>1. \A j \in J : j \in 1..Len(t) /\ t[j] \in OwnTerms BY DEF OwnAt
  <2>. HIDE DEF n, J
  <2>2. \A j \in 1..Len(t) : j > n \/ j \in 1..n BY <1>1
  <2>. QED BY <2>1, <2>2 DEF n
<1>3. /\ J \in SUBSET (1..Len(t)) /\ I \in SUBSET (1..Len(s))
      /\ Len(t) \in Nat /\ Len(s) \in Nat
  BY DEF OwnAt
<1>4. \A i \in 1..Len(s) : i \in I <=> i \in K /\ s[i] \in OwnTerms
  BY RecordsAssumption DEF OwnAt, KeptAt
<1>5. \A j \in J : g[j] \in I /\ t[j] = s[g[j]] BY <1>1, <1>2, <1>4
<1>6. ASSUME NEW i \in I PROVE \E j \in J : g[j] = i
  <2>1. i \in K /\ s[i] \in OwnTerms BY <1>3, <1>4
  <2>2. Place(K, i) \in 1..n /\ Nth(K, Place(K, i)) = i BY <1>1, <1>3, <2>1, PlaceRange, NthIs
  <2>. DEFINE j == Place(K, i)
  <2>3. j \in 1..n /\ kept[j] = s[i] /\ t[j] = s[i] BY <1>1, <2>2
  <2>. HIDE DEF j
  <2>4. ASSUME NEW p \in 1..(j - 1) PROVE t[p] # t[j]
    <3>1. p \in 1..n /\ p # j BY <1>1, <2>3
    <3>. QED BY <1>1, <2>3, <3>1
  <2>5. FirstAt(t, j) BY <2>4 DEF FirstAt
  <2>6. j \in 1..Len(t) BY <1>1, <1>3, <2>3
  <2>7. j \in J BY <2>1, <2>3, <2>5, <2>6 DEF OwnAt
  <2>. QED BY <2>2, <2>7 DEF j
<1>7. ASSUME NEW p \in J, NEW q \in J, p < q PROVE g[p] < g[q]
  <2>1. p \in 1..Cardinality(K) /\ q \in 1..Cardinality(K) BY <1>1, <1>2
  <2>. QED BY <1>1, <1>3, <1>7, <2>1, NthGrows
<1>8. g \in [J -> I] BY <1>5
<1>. HIDE DEF g, J, I
<1>9. Leads(g, J, I) BY <1>6, <1>7, <1>8 DEF Leads
<1>10. SameAlong(g, J, t, s) BY <1>5 DEF SameAlong
<1>11. J \in Indices /\ I \in Indices BY <1>3, AreIndices
<1>12. Picked(t, J) = Picked(s, I) BY <1>9, <1>10, <1>11, SamePicked
<1>. QED BY <1>12 DEF J, I

\* There is a last "all" when there is one.
LEMMA LastOf ==
    ASSUME NEW K \in Nat, NEW ms \in SUBSET (1..K), ms # {}
    PROVE  Max(ms) \in ms /\ \A m \in ms : m <= Max(ms)
<1>. DEFINE n == Cardinality(ms)
            last == Nth(ms, n)
<1>1. IsFiniteSet(ms) /\ n \in Nat BY FiniteNumbers
<1>2. n \in 1..n
  <2>1. n # 0 BY <1>1, FS_EmptySet
  <2>. QED BY <1>1, <2>1
<1>3. last \in ms /\ Place(ms, last) = n BY <1>2, NthIs
<1>. HIDE DEF last
<1>4. \A m \in ms : m \in Int OBVIOUS
<1>5. ASSUME NEW m \in ms PROVE last >= m
  <2>1. Place(ms, m) \in 1..n BY PlaceRange
  <2>2. last < m => Place(ms, last) < Place(ms, m) BY <1>3, PlaceGrows
  <2>. HIDE DEF n
  <2>3. ~(last < m) BY <1>1, <1>3, <2>1, <2>2
  <2>. QED BY <1>3, <1>4, <2>3
<1>6. Max(ms) \in ms /\ \A m \in ms : Max(ms) >= m BY <1>3, <1>5 DEF Max
<1>. QED BY <1>4, <1>6

LEMMA AllOfType == ASSUME NEW s \in Seq(Terms) PROVE AllOf(s) \in Alls
<1>. DEFINE at == {i \in DOMAIN s : s[i] \in Alls}
<1>1. at \in SUBSET (1..Len(s)) /\ Len(s) \in Nat OBVIOUS
<1>2. ASSUME at # {} PROVE s[Max(at)] \in Alls
  <2>1. Max(at) \in at 
    <3>. HIDE DEF at
    <3>. QED BY <1>1, <1>2, LastOf
  <2>. QED BY <2>1
<1>3. "~all" \in Alls BY DEF Alls
<1>. QED BY <1>2, <1>3 DEF AllOf

\* A fixed record: mechanisms that a fix keeps, each once, with the routing
\* among them, and one "all" at the end.
Kept(base) ==
    /\ base \in Seq(Terms \ (Alls \cup Withdrawn))
    /\ \A k, l \in 1..Len(base) : base[k] = base[l] => k = l

Fixed(r, base, all) ==
    /\ Kept(base) /\ Routing \in ToSet(base) /\ all \in Alls
    /\ r = [version |-> "exact", terms |-> Append(base, all)]

LEMMA RoutedKept ==
    ASSUME NEW kept, Kept(kept), Routing \notin ToSet(kept)
    PROVE  Kept(Append(kept, Routing)) /\ Routing \in ToSet(Append(kept, Routing))
<1>. DEFINE base == Append(kept, Routing)
            n == Len(kept)
<1>1. Routing \in Terms \ (Alls \cup Withdrawn) BY DEF Terms, Routing, Alls, Withdrawn
<1>2. kept \in Seq(Terms \ (Alls \cup Withdrawn)) /\ n \in Nat BY DEF Kept
<1>3. base \in Seq(Terms \ (Alls \cup Withdrawn)) /\ Len(base) = n + 1 BY <1>1, <1>2
<1>4. base[n + 1] = Routing /\ \A k \in 1..n : base[k] = kept[k] BY <1>2
<1>5. \A k \in 1..n : kept[k] # Routing BY <1>2 DEF ToSet
<1>. HIDE DEF base
<1>6. \A k \in 1..(n + 1) : k = n + 1 \/ k \in 1..n BY <1>2
<1>7. \A k, l \in 1..Len(base) : base[k] = base[l] => k = l
  BY <1>3, <1>4, <1>5, <1>6 DEF Kept
<1>8. n + 1 \in DOMAIN base BY <1>2, <1>3
<1>9. Routing \in ToSet(base) BY <1>4, <1>8 DEF ToSet
<1>. QED BY <1>3, <1>7, <1>9 DEF Kept, base

LEMMA MergeFixes ==
    ASSUME NEW r \in SpfRecords
    PROVE  \E base, all : Fixed(MergeSpf(r), base, all)
<1>. DEFINE kept == KeptTerms(r.terms)
            routed == IF Routing \in ToSet(kept) THEN kept ELSE Append(kept, Routing)
<1>1. CASE r.version = "exact"
  <2>1. r.terms \in Seq(Terms) BY DEF SpfRecords
  <2>2. Kept(kept) BY <2>1, KeptFacts DEF Kept
  <2>3. Kept(routed) /\ Routing \in ToSet(routed) BY <2>2, RoutedKept
  <2>4. AllOf(r.terms) \in Alls BY <2>1, AllOfType
  <2>5. MergeSpf(r) = [version |-> "exact", terms |-> Append(routed, AllOf(r.terms))]
    BY <1>1 DEF MergeSpf
  <2>. QED BY <2>3, <2>4, <2>5 DEF Fixed
<1>2. CASE r.version # "exact"
  <2>1. MergeSpf(r) = [version |-> "exact", terms |-> <<Routing, "~all">>]
    BY <1>2 DEF MergeSpf
  <2>2. <<Routing, "~all">> = Append(<<Routing>>, "~all") OBVIOUS
  <2>3. Routing \in Terms \ (Alls \cup Withdrawn) BY DEF Terms, Routing, Alls, Withdrawn
  <2>4. Kept(<<Routing>>) BY <2>3 DEF Kept
  <2>5. Routing \in ToSet(<<Routing>>) BY DEF ToSet
  <2>6. "~all" \in Alls BY DEF Alls
  <2>. QED BY <2>1, <2>2, <2>4, <2>5, <2>6 DEF Fixed
<1>. QED BY <1>1, <1>2

LEMMA FixedType ==
    ASSUME NEW r, NEW base, NEW all, Fixed(r, base, all)
    PROVE  r \in SpfRecords /\ r.version = "exact"
<1>1. base \in Seq(Terms) /\ all \in Terms BY DEF Fixed, Kept, Terms
<1>2. Append(base, all) \in Seq(Terms) BY <1>1
<1>. QED BY <1>2 DEF Fixed, SpfRecords

\* What is picked at the first indices is the beginning of the sequence.
LEMMA PickedFirst ==
    ASSUME NEW n \in Nat, NEW s, NEW base, base \in Seq(Terms), Len(base) = n,
           \A k \in 1..n : s[k] = base[k]
    PROVE  Picked(s, 1..n) = base
<1>. DEFINE I == 1..n
<1>1. I \in SUBSET (1..n) /\ IsFiniteSet(I) /\ Cardinality(I) = n BY CardinalityOfInterval
<1>2. ASSUME NEW k \in 1..n PROVE Nth(I, k) = k
  <2>1. {i \in I : i <= k} = 1..k OBVIOUS
  <2>2. Cardinality(1..k) = k BY CardinalityOfInterval
  <2>3. Place(I, k) = k BY <2>1, <2>2 DEF Place
  <2>. HIDE DEF I
  <2>4. k \in I BY DEF I
  <2>. QED BY <1>1, <2>3, <2>4, NthIs
<1>3. Picked(s, I) = [k \in 1..n |-> base[k]]
  <2>1. Picked(s, I) = [k \in 1..n |-> s[Nth(I, k)]] BY <1>1 DEF Picked
  <2>. QED BY <1>2, <2>1
<1>4. base = [k \in 1..n |-> base[k]] OBVIOUS
<1>. QED BY <1>3, <1>4

\* Fixing a fixed record changes nothing.
LEMMA FixedStays ==
    ASSUME NEW r, NEW base, NEW all, Fixed(r, base, all)
    PROVE  MergeSpf(r) = r
<1>. DEFINE t == Append(base, all)
            n == Len(base)
            at == {i \in DOMAIN t : t[i] \in Alls}
<1>1. /\ base \in Seq(Terms \ (Alls \cup Withdrawn)) /\ n \in Nat /\ base \in Seq(Terms)
      /\ \A k, l \in 1..n : base[k] = base[l] => k = l
  BY DEF Fixed, Kept
<1>2. /\ Len(t) = n + 1 /\ DOMAIN t = 1..(n + 1) /\ t[n + 1] = all
      /\ \A k \in 1..n : t[k] = base[k]
  BY <1>1
<1>3. \A k \in 1..n : t[k] \notin Alls \cup Withdrawn BY <1>1, <1>2
<1>. HIDE DEF t
<1>4. all \in Alls BY DEF Fixed
<1>5. \A k \in 1..(n + 1) : k = n + 1 \/ k \in 1..n BY <1>1
<1>6. KeptAt(t) = 1..n
  <2>1. ASSUME NEW k \in 1..n PROVE FirstAt(t, k)
    <3>1. \A j \in 1..(k - 1) : j \in 1..n /\ j # k BY <1>1
    <3>. QED BY <1>1, <1>2, <3>1 DEF FirstAt
  <2>2. ASSUME NEW k \in 1..n PROVE k \in KeptAt(t)
    <3>1. k \in 1..(n + 1) BY <1>1
    <3>. QED BY <1>2, <1>3, <2>1, <3>1 DEF KeptAt
  <2>3. \A k \in KeptAt(t) : k \in 1..n BY <1>2, <1>4, <1>5 DEF KeptAt
  <2>. QED BY <2>2, <2>3
<1>7. KeptTerms(t) = base BY <1>1, <1>2, <1>6, PickedFirst DEF KeptTerms
<1>8. at = {n + 1}
  <2>1. n + 1 \in at BY <1>1, <1>2, <1>4
  <2>2. \A k \in at : k = n + 1 BY <1>2, <1>3, <1>5
  <2>. QED BY <2>1, <2>2
<1>9. AllOf(t) = all
  <2>1. Max({n + 1}) = n + 1
    <3>1. {n + 1} \in SUBSET (1..(n + 1)) /\ n + 1 \in Nat BY <1>1
    <3>. QED BY <3>1, LastOf
  <2>. QED BY <1>2, <1>8, <2>1 DEF AllOf
<1>10. r.version = "exact" /\ r.terms = t /\ r = [version |-> "exact", terms |-> t]
  BY DEF Fixed, t
<1>11. Routing \in ToSet(base) BY DEF Fixed
<1>12. MergeSpf(r) = [version |-> "exact", terms |-> Append(base, all)]
  BY <1>7, <1>9, <1>10, <1>11 DEF MergeSpf
<1>. QED BY <1>10, <1>12 DEF t

\* A fix leaves the customer's mechanisms, in their order.
LEMMA MergeKeepsOwn ==
    ASSUME NEW r \in SpfRecords, r.version # "cased"
    PROVE  OwnPart(MergeSpf(r)) = OwnPart(r)
<1>. DEFINE s == r.terms
            kept == KeptTerms(s)
            t == MergeSpf(r).terms
            n == Len(kept)
<1>1. s \in Seq(Terms) /\ r.version \in {"absent", "exact"} BY DEF SpfRecords
<1>2. t \in Seq(Terms)
  <2>1. MergeSpf(r) \in SpfRecords BY MergeFixes, FixedType
  <2>. QED BY <2>1 DEF SpfRecords
<1>3. kept \in Seq(Terms) /\ n \in Nat BY <1>1, KeptFacts
<1>4. ASSUME NEW all \in Alls PROVE Routing \notin OwnTerms /\ all \notin OwnTerms
  BY RecordsAssumption
<1>5. CASE r.version = "exact"
  <2>. DEFINE routed == IF Routing \in ToSet(kept) THEN kept ELSE Append(kept, Routing)
              all == AllOf(s)
  <2>1. all \in Alls BY <1>1, AllOfType
  <2>2. t = Append(routed, all) BY <1>5 DEF MergeSpf
  <2>3. /\ routed \in Seq(Terms \cup {Routing}) /\ Len(routed) \in {n, n + 1}
        /\ \A k \in 1..n : routed[k] = kept[k]
        /\ Len(routed) = n + 1 => routed[n + 1] = Routing
    BY <1>3
  <2>. HIDE DEF routed, all, kept, s
  <2>4. /\ Len(t) = Len(routed) + 1 /\ t[Len(routed) + 1] = all
        /\ \A k \in 1..Len(routed) : t[k] = routed[k]
    BY <2>2, <2>3
  <2>5. \A k \in 1..n : t[k] = kept[k] BY <1>3, <2>3, <2>4
  <2>6. ASSUME NEW k \in 1..Len(t), k > n PROVE t[k] \notin OwnTerms
    <3>1. k = Len(routed) + 1 \/ (k = n + 1 /\ Len(routed) = n + 1) BY <1>3, <2>3, <2>4, <2>6
    <3>2. Len(routed) = n + 1 => t[n + 1] = Routing BY <1>3, <2>3, <2>4
    <3>. QED BY <1>4, <2>1, <2>4, <3>1, <3>2
  <2>7. n <= Len(t) BY <1>3, <2>3, <2>4
  <2>8. Picked(t, OwnAt(t)) = Picked(s, OwnAt(s))
    BY <1>1, <1>2, <2>5, <2>6, <2>7, OwnKept DEF kept
  <2>. QED BY <2>8 DEF OwnPart, s
<1>6. CASE r.version = "absent"
  <2>1. s = <<>> BY <1>6 DEF SpfRecords, NoSpf
  <2>2. n = 0
    <3>1. KeptAt(s) = {} BY <2>1 DEF KeptAt
    <3>. QED BY <1>1, <3>1, KeptFacts, FS_EmptySet
  <2>3. t = <<Routing, "~all">> BY <1>6 DEF MergeSpf
  <2>4. Len(t) = 2 /\ t[1] = Routing /\ t[2] = "~all" BY <2>3
  <2>5. "~all" \in Alls BY DEF Alls
  <2>. HIDE DEF t
  <2>6. \A k \in 1..Len(t) : t[k] \notin OwnTerms
    <3>1. \A k \in 1..Len(t) : k = 1 \/ k = 2 BY <2>4
    <3>. QED BY <1>4, <2>4, <2>5, <3>1
  <2>. HIDE DEF s
  <2>7. Picked(t, OwnAt(t)) = Picked(s, OwnAt(s))
    <3>1. 0 <= Len(t) /\ \A k \in 1..0 : t[k] = kept[k] BY <2>4
    <3>. QED BY <1>1, <1>2, <2>2, <2>6, <3>1, OwnKept
  <2>. QED BY <2>7 DEF OwnPart, s, t
<1>. QED BY <1>1, <1>5, <1>6

-----------------------------------------------------------------------------
(* DMARC records.                                                          *)

USE ShieldAssumption, RecordsAssumption

\* A record that is not there says nothing.
Records == {r \in DmarcRecords : r.there \/ r = NoDmarc}

LEMMA NoDmarcType == NoDmarc \in Records
BY DEF Records, DmarcRecords, NoDmarc, Policies, Mailboxes

LEMMA MergeFields ==
    ASSUME NEW r \in Records
    PROVE  LET m == MergeDmarc(r) IN
           /\ m \in Records /\ m.there
           /\ ~r.there => /\ m.p = "reject" /\ m.sp = "absent"
                          /\ m.rua = {Sicurre} /\ m.ruf = {}
           /\ r.there => \E policy \in {"quarantine", "reject"} :
                /\ policy = "reject" <=> "reject" \in {r.p, r.sp}
                /\ m.p = IF r.p = "absent" THEN "absent" ELSE policy
                /\ m.sp = IF r.sp = "absent" THEN "absent" ELSE policy
                /\ m.rua = IF r.rua # {} /\ HasSicurre(r) THEN r.rua ELSE r.rua \cup {Sicurre}
                /\ m.ruf = r.ruf
<1>. DEFINE m == MergeDmarc(r)
            policy == IF "reject" \in {r.p, r.sp} THEN "reject" ELSE "quarantine"
            p == IF r.p = "absent" THEN "absent" ELSE policy
            sp == IF r.sp = "absent" THEN "absent" ELSE policy
            rua == IF r.rua # {} /\ HasSicurre(r) THEN r.rua ELSE r.rua \cup {Sicurre}
<1>1. r \in DmarcRecords BY DEF Records
<1>2. CASE ~r.there
  <2>1. m = [there |-> TRUE, p |-> "reject", sp |-> "absent", rua |-> {Sicurre}, ruf |-> {}]
    BY <1>2 DEF MergeDmarc, NoDmarc
  <2>2. m \in DmarcRecords BY <2>1 DEF DmarcRecords, Policies, Mailboxes
  <2>. QED BY <1>2, <2>1, <2>2 DEF Records
<1>3. CASE r.there
  <2>1. m = [there |-> TRUE, p |-> p, sp |-> sp, rua |-> rua, ruf |-> r.ruf]
    BY <1>1, <1>3 DEF MergeDmarc, DmarcRecords, HasSicurre
  <2>2. p \in Policies /\ sp \in Policies /\ rua \in SUBSET Mailboxes /\ r.ruf \in SUBSET Mailboxes
    BY <1>1 DEF DmarcRecords, Policies, Mailboxes
  <2>3. m \in DmarcRecords BY <2>1, <2>2 DEF DmarcRecords
  <2>. QED BY <1>3, <2>1, <2>3 DEF Records
<1>. QED BY <1>1, <1>2, <1>3 DEF DmarcRecords

LEMMA WithdrawFields ==
    ASSUME NEW r \in Records, HasSicurre(r)
    PROVE  LET w == WithdrawReporting(r) IN
           /\ w \in Records
           /\ w.there = r.there /\ w.p = r.p /\ w.sp = r.sp
           /\ w.rua = r.rua \ {Sicurre} /\ w.ruf = r.ruf \ {Sicurre}
<1>. DEFINE w == WithdrawReporting(r)
<1>1. r \in DmarcRecords /\ r.there BY DEF Records, NoDmarc, HasSicurre
<1>2. /\ w.there = r.there /\ w.p = r.p /\ w.sp = r.sp
      /\ w.rua = r.rua \ {Sicurre} /\ w.ruf = r.ruf \ {Sicurre}
  BY <1>1 DEF WithdrawReporting, DmarcRecords
<1>3. r.rua \ {Sicurre} \in SUBSET Mailboxes /\ r.ruf \ {Sicurre} \in SUBSET Mailboxes
  BY <1>1 DEF DmarcRecords
<1>4. w \in DmarcRecords BY <1>1, <1>3 DEF WithdrawReporting, DmarcRecords
<1>. QED BY <1>1, <1>2, <1>4 DEF Records

\* Neither a fix nor a withdrawal touches the customer's mailboxes.
LEMMA OwnReportsKept ==
    ASSUME NEW r \in Records
    PROVE  /\ OwnReports(MergeDmarc(r)) = OwnReports(r)
           /\ HasSicurre(r) => OwnReports(WithdrawReporting(r)) = OwnReports(r)
<1>1. r.there \/ (r.rua = {} /\ r.ruf = {}) BY DEF Records, NoDmarc
<1>2. MergeDmarc(r).rua \ {Sicurre} = r.rua \ {Sicurre} /\ MergeDmarc(r).ruf = r.ruf
  BY <1>1, MergeFields
<1>3. OwnReports(MergeDmarc(r)) = OwnReports(r) BY <1>2 DEF OwnReports
<1>4. ASSUME HasSicurre(r) PROVE OwnReports(WithdrawReporting(r)) = OwnReports(r)
  <2>1. /\ WithdrawReporting(r).rua = r.rua \ {Sicurre}
        /\ WithdrawReporting(r).ruf = r.ruf \ {Sicurre}
    BY <1>4, WithdrawFields
  <2>2. (r.rua \ {Sicurre}) \ {Sicurre} = r.rua \ {Sicurre}
        /\ (r.ruf \ {Sicurre}) \ {Sicurre} = r.ruf \ {Sicurre}
    OBVIOUS
  <2>. QED BY <2>1, <2>2 DEF OwnReports
<1>. QED BY <1>3, <1>4

LEMMA StrengthType == \A policy : Strength(policy) \in 0..2
BY DEF Strength

\* A fix weakens neither policy.
LEMMA MergeStrengthens ==
    ASSUME NEW r \in Records
    PROVE  /\ Strength(MergeDmarc(r).p) >= Strength(r.p)
           /\ Strength(MergeDmarc(r).sp) >= Strength(r.sp)
<1>1. CASE ~r.there
  <2>1. r.p = "absent" /\ r.sp = "absent" BY <1>1 DEF Records, NoDmarc
  <2>2. MergeDmarc(r).p = "reject" /\ MergeDmarc(r).sp = "absent" BY <1>1, MergeFields
  <2>. QED BY <2>1, <2>2 DEF Strength
<1>2. CASE r.there
  <2>1. PICK policy \in {"quarantine", "reject"} :
           /\ policy = "reject" <=> "reject" \in {r.p, r.sp}
           /\ MergeDmarc(r).p = IF r.p = "absent" THEN "absent" ELSE policy
           /\ MergeDmarc(r).sp = IF r.sp = "absent" THEN "absent" ELSE policy
    BY <1>2, MergeFields
  <2>2. r.p \in Policies /\ r.sp \in Policies BY DEF Records, DmarcRecords
  <2>. QED BY <2>1, <2>2 DEF Strength, Policies
<1>. QED BY <1>1, <1>2

\* A record that was fixed is not fixed again: the plan says "keep" for it.
THEOREM FixedDmarcIsKept ==
    ASSUME NEW r \in Records
    PROVE  PlannedChange(TRUE, MergeDmarc(r), MergeDmarc(MergeDmarc(r))) = "keep"
<1>. DEFINE m == MergeDmarc(r)
            n == MergeDmarc(m)
<1>1. m \in Records /\ m.there /\ m.rua # {} /\ HasSicurre(m)
  <2>1. CASE ~r.there BY <2>1, MergeFields DEF HasSicurre
  <2>2. CASE r.there
    <3>1. /\ m.rua = IF r.rua # {} /\ HasSicurre(r) THEN r.rua ELSE r.rua \cup {Sicurre}
          /\ m.ruf = r.ruf
      BY <2>2, MergeFields
    <3>2. m \in Records /\ m.there BY MergeFields
    <3>. HIDE DEF m
    <3>3. m.rua # {} /\ HasSicurre(m) BY <3>1 DEF HasSicurre
    <3>. QED BY <3>2, <3>3
  <2>. QED BY <2>1, <2>2
<1>2. n \in Records /\ n.there /\ n.rua = m.rua /\ n.ruf = m.ruf
  BY <1>1, MergeFields
<1>3. n.p = m.p /\ n.sp = m.sp
  <2>1. PICK second \in {"quarantine", "reject"} :
           /\ second = "reject" <=> "reject" \in {m.p, m.sp}
           /\ n.p = IF m.p = "absent" THEN "absent" ELSE second
           /\ n.sp = IF m.sp = "absent" THEN "absent" ELSE second
    BY <1>1, MergeFields
  <2>2. CASE ~r.there
    <3>1. m.p = "reject" /\ m.sp = "absent" BY <2>2, MergeFields
    <3>. QED BY <2>1, <3>1
  <2>3. CASE r.there
    <3>1. PICK first \in {"quarantine", "reject"} :
             /\ first = "reject" <=> "reject" \in {r.p, r.sp}
             /\ m.p = IF r.p = "absent" THEN "absent" ELSE first
             /\ m.sp = IF r.sp = "absent" THEN "absent" ELSE first
      BY <2>3, MergeFields
    <3>. QED BY <2>1, <3>1
  <2>. QED BY <2>2, <2>3
<1>4. m \in DmarcRecords /\ n \in DmarcRecords BY <1>1, <1>2 DEF Records
<1>5. m.there = TRUE /\ n.there = TRUE BY <1>1, <1>2, <1>4 DEF DmarcRecords
<1>6. n = m BY <1>2, <1>3, <1>4, <1>5 DEF DmarcRecords
<1>. QED BY <1>6 DEF PlannedChange

-----------------------------------------------------------------------------
(* The zone.                                                               *)

\* What a sync and the withdrawal have read are records, and what they write
\* leaves the customer's mechanisms and mailboxes where the customer put them.
AsSpelled == \A z \in Published \cup Edited : z.spf.version # "cased"

ZoneInv ==
    /\ spf \in SpfRecords /\ dmarc \in Records
    /\ DOMAIN sync = Syncs
    /\ \A c \in Syncs : DOMAIN sync[c] = {"at", "spf", "dmarc"} /\ sync[c].dmarc \in Records
    /\ \A c \in Syncs : sync[c].spf \in SpfRecords
    /\ AsSpelled => spf.version # "cased" /\ \A c \in Syncs : sync[c].spf.version # "cased"
    /\ leave \in [at : {"idle", "write", "done"}, dmarc : Records]
    /\ leave.at = "write" => HasSicurre(leave.dmarc)
    /\ clobbered \in BOOLEAN /\ edits \in Nat
    /\ own = [spf |-> own.spf, dmarc |-> own.dmarc]
    /\ ~clobbered => own.dmarc = OwnReports(dmarc)
    /\ ~clobbered /\ AsSpelled => own.spf = OwnPart(spf)

LEMMA NoSpfType == NoSpf \in SpfRecords /\ NoSpf.version = "absent"
BY DEF NoSpf, SpfRecords

LEMMA ZoneInit == Init => ZoneInv
<1>. SUFFICES ASSUME Init PROVE ZoneInv OBVIOUS
<1>. USE NoDmarcType, NoSpfType DEF Init
<1>1. spf \in SpfRecords /\ dmarc \in Records BY DEF Records
<1>2. AsSpelled => spf.version # "cased" BY DEF AsSpelled
<1>3. /\ DOMAIN sync = Syncs
      /\ \A c \in Syncs : DOMAIN sync[c] = {"at", "spf", "dmarc"} /\ sync[c].dmarc \in Records
                           /\ sync[c].spf \in SpfRecords /\ sync[c].spf.version # "cased"
  OBVIOUS
<1>4. /\ leave \in [at : {"idle", "write", "done"}, dmarc : Records] /\ leave.at = "idle"
  OBVIOUS
<1>5. /\ own = [spf |-> own.spf, dmarc |-> own.dmarc]
      /\ own.dmarc = OwnReports(dmarc) /\ own.spf = OwnPart(spf)
  BY DEF OwnNow
<1>. QED BY <1>1, <1>2, <1>3, <1>4, <1>5 DEF ZoneInv

LEMMA ZoneStep ==
    ASSUME ZoneInv, [Next]_vars
    PROVE  ZoneInv'
<1>. USE DEF ZoneInv
<1>1. CASE UNCHANGED zone BY <1>1 DEF zone, AsSpelled
<1>2. ASSUME NEW c \in Syncs, sync' = [sync EXCEPT ![c].at = "done"] \/ sync' = [sync EXCEPT ![c].at = "dmarc"]
      PROVE  DOMAIN sync' = Syncs /\ \A e \in Syncs : DOMAIN sync'[e] = {"at", "spf", "dmarc"}
                                                     /\ sync'[e].dmarc = sync[e].dmarc
                                                     /\ sync'[e].spf = sync[e].spf
  BY <1>2
<1>3. CASE Edit
  <2>1. PICK z \in Edited : spf' = z.spf /\ dmarc' = z.dmarc BY <1>3 DEF Edit
  <2>2. spf' \in SpfRecords /\ dmarc' \in Records BY <2>1 DEF Records
  <2>3. AsSpelled => spf'.version # "cased" BY <2>1 DEF AsSpelled
  <2>4. /\ own' = [spf |-> own'.spf, dmarc |-> own'.dmarc]
        /\ own'.dmarc = OwnReports(dmarc') /\ own'.spf = OwnPart(spf')
    BY <1>3 DEF Edit
  <2>5. edits' \in Nat /\ UNCHANGED <<clobbered, sync, leave>> BY <1>3 DEF Edit
  <2>. QED BY <2>2, <2>3, <2>4, <2>5 DEF AsSpelled
<1>4. CASE LeaveRead
  <2>1. PICK at \in {"done"} \cup (IF HasSicurre(dmarc) THEN {"write"} ELSE {}) :
          leave' = [at |-> at, dmarc |-> dmarc]
    BY <1>4 DEF LeaveRead
  <2>2. UNCHANGED <<spf, dmarc, own, clobbered, edits, sync>> BY <1>4 DEF LeaveRead
  <2>3. at = "done" \/ (at = "write" /\ HasSicurre(dmarc)) BY <2>1
  <2>. QED BY <2>1, <2>2, <2>3 DEF AsSpelled
<1>5. CASE LeaveWrite
  <2>1. /\ leave.at = "write" /\ dmarc' = WithdrawReporting(leave.dmarc)
        /\ clobbered' = (clobbered \/ dmarc # leave.dmarc)
        /\ leave' = [leave EXCEPT !.at = "done"] /\ UNCHANGED <<spf, own, edits, sync>>
    BY <1>5 DEF LeaveWrite
  <2>2. leave.dmarc \in Records /\ HasSicurre(leave.dmarc) BY <2>1
  <2>3. dmarc' \in Records BY <2>1, <2>2, WithdrawFields
  <2>4. ~clobbered' => own'.dmarc = OwnReports(dmarc')
    <3>1. OwnReports(WithdrawReporting(leave.dmarc)) = OwnReports(leave.dmarc)
      BY <2>2, OwnReportsKept
    <3>. QED BY <2>1, <3>1
  <2>. QED BY <2>1, <2>3, <2>4 DEF AsSpelled
<1>6. ASSUME NEW c \in Syncs, SyncRead(c) PROVE ZoneInv'
  <2>1. /\ sync' = [sync EXCEPT ![c] = [at |-> "spf", spf |-> spf, dmarc |-> dmarc]]
        /\ UNCHANGED <<spf, dmarc, own, clobbered, edits, leave>>
    BY <1>6 DEF SyncRead
  <2>2. /\ DOMAIN sync' = Syncs
        /\ \A e \in Syncs : DOMAIN sync'[e] = {"at", "spf", "dmarc"}
                             /\ sync'[e].dmarc \in Records /\ sync'[e].spf \in SpfRecords
                             /\ sync'[e].spf \in {spf, sync[e].spf}
    BY <2>1
  <2>. QED BY <2>1, <2>2 DEF AsSpelled
<1>7. ASSUME NEW c \in Syncs, SyncSpf(c) PROVE ZoneInv'
  <2>1. /\ sync' = [sync EXCEPT ![c].at = "dmarc"] /\ UNCHANGED <<dmarc, own, edits, leave>>
    BY <1>7 DEF SyncSpf
  <2>2. CASE UNCHANGED <<spf, clobbered>> BY <1>2, <2>1, <2>2 DEF AsSpelled
  <2>3. CASE spf' = MergeSpf(sync[c].spf) /\ clobbered' = (clobbered \/ spf # sync[c].spf)
    <3>1. spf' \in SpfRecords /\ spf'.version = "exact" BY <2>3, MergeFixes, FixedType
    <3>2. AsSpelled => OwnPart(MergeSpf(sync[c].spf)) = OwnPart(sync[c].spf)
      BY MergeKeepsOwn
    <3>3. ~clobbered' /\ AsSpelled => own'.spf = OwnPart(spf') BY <2>1, <2>3, <3>2
    <3>4. clobbered' \in BOOLEAN /\ (~clobbered' => ~clobbered) BY <2>3
    <3>. QED BY <1>2, <2>1, <3>1, <3>3, <3>4 DEF AsSpelled
  <2>. QED BY <1>7, <2>2, <2>3 DEF SyncSpf
<1>8. ASSUME NEW c \in Syncs, SyncDmarc(c) PROVE ZoneInv'
  <2>1. sync' = [sync EXCEPT ![c].at = "done"] /\ UNCHANGED <<spf, own, edits, leave>>
    BY <1>8 DEF SyncDmarc
  <2>2. CASE UNCHANGED <<dmarc, clobbered>> BY <1>2, <2>1, <2>2 DEF AsSpelled
  <2>3. CASE /\ dmarc' = MergeDmarc(sync[c].dmarc)
             /\ clobbered' = (clobbered \/ dmarc # sync[c].dmarc)
    <3>1. dmarc' \in Records BY <2>3, MergeFields
    <3>2. OwnReports(MergeDmarc(sync[c].dmarc)) = OwnReports(sync[c].dmarc)
      BY OwnReportsKept
    <3>3. ~clobbered' => own'.dmarc = OwnReports(dmarc') BY <2>1, <2>3, <3>2
    <3>4. clobbered' \in BOOLEAN /\ (~clobbered' => ~clobbered) BY <2>3
    <3>. QED BY <1>2, <2>1, <3>1, <3>3, <3>4 DEF AsSpelled
  <2>. QED BY <1>8, <2>2, <2>3 DEF SyncDmarc
<1>9. ASSUME NEW f \in Refreshes, Refresh(f) PROVE UNCHANGED zone
  BY <1>9
  DEF Refresh, RefreshMeasure, RefreshLook, RefreshAlert, RefreshMail, RefreshClose, RefreshOpen
<1>. QED BY <1>1, <1>3, <1>4, <1>5, <1>6, <1>7, <1>8, <1>9 DEF Next, vars, zone

LEMMA ZoneInvariance == Spec => []ZoneInv
BY ZoneInit, ZoneStep, PTL DEF Spec

\* As long as no record was written over a change its writer had not read, the
\* reporting mailboxes are the ones the customer published.
OwnMailboxesKept == ~clobbered => own.dmarc = OwnReports(dmarc)

THEOREM MailboxesKept == Spec => []OwnMailboxesKept
<1>1. ZoneInv => OwnMailboxesKept BY DEF ZoneInv, OwnMailboxesKept
<1>. QED BY <1>1, ZoneInvariance, PTL

\* Nor is one of the customer's SPF mechanisms lost, added or moved, in every
\* zone whose records are spelled as the merge reads them: whatever syncs and
\* withdrawals do, in whichever order, all that the customer published is
\* there as long as no record was written over a change its writer had not
\* read.
THEOREM OwnKeptThroughout == Spec => []OwnRecordsKept
<1>1. ZoneInv => OwnRecordsKept BY DEF ZoneInv, AsSpelled, OwnRecordsKept, OwnNow
<1>. QED BY <1>1, ZoneInvariance, PTL

\* What the first fix of a zone wrote, the plan of a second one keeps: the
\* merge of a merged record is that record, SPF and DMARC alike, whatever the
\* mechanisms, their order and their repetitions were.
THEOREM PlansAgree == Spec => []FixedIsKept
<1>1. ASSUME ZoneInv PROVE FixedIsKept
  <2>. USE <1>1 DEF ZoneInv
  <2>1. ASSUME NEW c \in Syncs PROVE MergeSpf(MergeSpf(sync[c].spf)) = MergeSpf(sync[c].spf)
    <3>1. sync[c].spf \in SpfRecords OBVIOUS
    <3>. QED BY <3>1, MergeFixes, FixedStays
  <2>2. ASSUME NEW c \in Syncs
        PROVE  /\ PlannedChange(TRUE, MergeSpf(sync[c].spf), MergeSpf(MergeSpf(sync[c].spf))) = "keep"
               /\ PlannedChange(TRUE, MergeDmarc(sync[c].dmarc),
                                MergeDmarc(MergeDmarc(sync[c].dmarc))) = "keep"
    <3>1. sync[c].dmarc \in Records OBVIOUS
    <3>. QED BY <2>1, <3>1, FixedDmarcIsKept DEF PlannedChange
  <2>. QED BY <2>2 DEF FixedIsKept
<1>. QED BY <1>1, ZoneInvariance, PTL

\* No step of Sicurre's weakens the DMARC policy of the zone or of its
\* subdomains, unless it writes over an edit.
THEOREM PolicyKept == Spec => PolicyNeverWeakened
<1>. DEFINE Safe == own' = own /\ ~clobbered' /\ edits' = edits =>
                       /\ Strength(dmarc'.p) >= Strength(dmarc.p)
                       /\ Strength(dmarc'.sp) >= Strength(dmarc.sp)
<1>1. ASSUME ZoneInv, [Next]_vars PROVE Safe \/ UNCHANGED vars
  <2>. USE <1>1 DEF ZoneInv
  <2>1. ASSUME UNCHANGED dmarc PROVE Safe BY <2>1, StrengthType
  <2>2. CASE Edit BY <2>2 DEF Edit
  <2>3. CASE LeaveWrite
    <3>1. leave.dmarc \in Records /\ HasSicurre(leave.dmarc) BY <2>3 DEF LeaveWrite
    <3>2. /\ WithdrawReporting(leave.dmarc).p = leave.dmarc.p
          /\ WithdrawReporting(leave.dmarc).sp = leave.dmarc.sp
      BY <3>1, WithdrawFields
    <3>3. dmarc' = WithdrawReporting(leave.dmarc) /\ (~clobbered' => dmarc = leave.dmarc)
      BY <2>3 DEF LeaveWrite
    <3>4. ~clobbered' => dmarc'.p = dmarc.p /\ dmarc'.sp = dmarc.sp BY <3>2, <3>3
    <3>. QED BY <3>4, StrengthType
  <2>4. ASSUME NEW c \in Syncs, SyncDmarc(c) PROVE Safe
    <3>1. /\ Strength(MergeDmarc(sync[c].dmarc).p) >= Strength(sync[c].dmarc.p)
          /\ Strength(MergeDmarc(sync[c].dmarc).sp) >= Strength(sync[c].dmarc.sp)
      BY MergeStrengthens
    <3>2. CASE UNCHANGED dmarc BY <3>2, <2>1
    <3>3. CASE dmarc' = MergeDmarc(sync[c].dmarc) /\ clobbered' = (clobbered \/ dmarc # sync[c].dmarc)
      BY <3>1, <3>3
    <3>. QED BY <2>4, <3>2, <3>3 DEF SyncDmarc
  <2>5. ASSUME NEW c \in Syncs, SyncRead(c) \/ SyncSpf(c) PROVE UNCHANGED dmarc
    BY <2>5 DEF SyncRead, SyncSpf
  <2>6. ASSUME NEW f \in Refreshes, Refresh(f) PROVE UNCHANGED dmarc
    BY <2>6
    DEF Refresh, RefreshMeasure, RefreshLook, RefreshAlert, RefreshMail, RefreshClose,
        RefreshOpen, zone
  <2>7. LeaveRead => UNCHANGED dmarc BY DEF LeaveRead
  <2>. QED BY <2>1, <2>2, <2>3, <2>4, <2>5, <2>6, <2>7 DEF Next
<1>. QED BY <1>1, ZoneInvariance, PTL DEF Spec, PolicyNeverWeakened

-----------------------------------------------------------------------------
(* The history of the score.                                               *)

\* AlwaysCurrent is inductive once rows and refreshes have their fields: a row
\* is closed by a refresh that has yet to open one.
HistoryInv ==
    /\ DOMAIN rows = Refreshes
    /\ \A f \in Refreshes : {"there", "current"} \subseteq DOMAIN rows[f]
    /\ \A f \in Refreshes : rows[f].there \in BOOLEAN /\ rows[f].current \in BOOLEAN
    /\ DOMAIN refresh = Refreshes
    /\ \A f \in Refreshes : {"at", "got", "last"} \subseteq DOMAIN refresh[f]
    /\ AlwaysCurrent

LEMMA HistoryInit == Init => HistoryInv
<1>. SUFFICES ASSUME Init PROVE HistoryInv OBVIOUS
<1>. USE DEF Init
<1>1. /\ DOMAIN rows = Refreshes
      /\ \A f \in Refreshes : {"there", "current"} \subseteq DOMAIN rows[f]
      /\ \A f \in Refreshes : rows[f].there = FALSE /\ rows[f].current = FALSE
  BY DEF NoRow
<1>2. /\ DOMAIN refresh = Refreshes
      /\ \A f \in Refreshes : {"at", "got", "last"} \subseteq DOMAIN refresh[f]
  OBVIOUS
<1>. QED BY <1>1, <1>2 DEF HistoryInv, AlwaysCurrent

\* A step that leaves the rows alone and opens none.
LEMMA HistoryAside ==
    ASSUME HistoryInv, UNCHANGED rows, NEW f \in Refreshes,
           DOMAIN refresh' = Refreshes,
           \A g \in Refreshes : {"at", "got", "last"} \subseteq DOMAIN refresh'[g],
           \A g \in Refreshes : refresh[g].at = "open" => refresh'[g].at = "open"
    PROVE  HistoryInv'
BY DEF HistoryInv, AlwaysCurrent, CurrentRows

LEMMA HistoryStep ==
    ASSUME HistoryInv, [Next]_vars
    PROVE  HistoryInv'
<1>1. CASE UNCHANGED <<refresh, rows>>
  BY <1>1 DEF HistoryInv, AlwaysCurrent, CurrentRows
<1>2. ASSUME NEW f \in Refreshes,
             RefreshMeasure(f) \/ RefreshLook(f) \/ RefreshAlert(f) \/ RefreshMail(f)
      PROVE  HistoryInv'
  <2>1. UNCHANGED rows /\ refresh[f].at # "open"
    BY <1>2 DEF RefreshMeasure, RefreshLook, RefreshAlert, RefreshMail
  <2>2. /\ DOMAIN refresh' = Refreshes
        /\ \A g \in Refreshes : {"at", "got", "last"} \subseteq DOMAIN refresh'[g]
        /\ \A g \in Refreshes \ {f} : refresh'[g] = refresh[g]
    BY <1>2 DEF RefreshMeasure, RefreshLook, RefreshAlert, RefreshMail, HistoryInv
  <2>. QED BY <2>1, <2>2, HistoryAside
<1>3. ASSUME NEW f \in Refreshes, RefreshClose(f) PROVE HistoryInv'
  <2>1. /\ rows' = [g \in Refreshes |-> [rows[g] EXCEPT !.current = FALSE]]
        /\ refresh' = [refresh EXCEPT ![f].at = "open"]
    BY <1>3 DEF RefreshClose
  <2>2. /\ DOMAIN rows' = Refreshes
        /\ \A g \in Refreshes : /\ {"there", "current"} \subseteq DOMAIN rows'[g]
                                 /\ rows'[g].there = rows[g].there /\ rows'[g].current = FALSE
    BY <2>1 DEF HistoryInv
  <2>3. /\ DOMAIN refresh' = Refreshes
        /\ \A g \in Refreshes : {"at", "got", "last"} \subseteq DOMAIN refresh'[g]
        /\ refresh'[f].at = "open"
    BY <2>1 DEF HistoryInv
  <2>4. AlwaysCurrent' BY <2>3 DEF AlwaysCurrent
  <2>5. \A g \in Refreshes : rows'[g].there \in BOOLEAN /\ rows'[g].current \in BOOLEAN
    BY <2>2 DEF HistoryInv
  <2>. QED BY <2>2, <2>3, <2>4, <2>5 DEF HistoryInv
<1>4. ASSUME NEW f \in Refreshes, RefreshOpen(f) PROVE HistoryInv'
  <2>1. /\ rows' = [rows EXCEPT ![f] =
                      [there |-> TRUE, current |-> TRUE, score |-> refresh[f].got.score,
                       spf |-> refresh[f].got.spf, dmarc |-> refresh[f].got.dmarc]]
        /\ refresh' = [refresh EXCEPT ![f].at = "done"]
    BY <1>4 DEF RefreshOpen
  <2>2. /\ DOMAIN rows' = Refreshes /\ rows'[f].there /\ rows'[f].current
        /\ {"there", "current"} \subseteq DOMAIN rows'[f]
        /\ rows'[f].there \in BOOLEAN /\ rows'[f].current \in BOOLEAN
        /\ \A g \in Refreshes \ {f} : rows'[g] = rows[g]
    BY <2>1 DEF HistoryInv
  <2>3. /\ DOMAIN refresh' = Refreshes
        /\ \A g \in Refreshes : {"at", "got", "last"} \subseteq DOMAIN refresh'[g]
    BY <2>1 DEF HistoryInv
  <2>4. AlwaysCurrent' BY <2>2 DEF AlwaysCurrent, CurrentRows
  <2>. QED BY <2>2, <2>3, <2>4 DEF HistoryInv
<1>5. ASSUME NEW c \in Syncs, SyncRead(c) \/ SyncSpf(c) \/ SyncDmarc(c)
      PROVE  UNCHANGED <<refresh, rows>>
  BY <1>5 DEF SyncRead, SyncSpf, SyncDmarc, shield
<1>6. Edit \/ LeaveRead \/ LeaveWrite \/ UNCHANGED vars => UNCHANGED <<refresh, rows>>
  BY DEF Edit, LeaveRead, LeaveWrite, shield, vars
<1>. QED BY <1>1, <1>2, <1>3, <1>4, <1>5, <1>6 DEF Next, Refresh

\* Once a zone has a history it has a current row, except between the two
\* statements of a refresh, however many refreshes fall together.
THEOREM HistoryHasCurrent == Spec => []AlwaysCurrent
<1>1. HistoryInv => AlwaysCurrent BY DEF HistoryInv
<1>. QED BY <1>1, HistoryInit, HistoryStep, PTL DEF Spec

-----------------------------------------------------------------------------
(* Types.                                                                  *)

LEMMA ScoreType ==
    ASSUME NEW bare \in BOOLEAN, NEW r \in DmarcRecords, NEW listed \in Nat
    PROVE  Score(bare, r, listed) \in 30..100
<1>. DEFINE kept == IF ~r.there THEN 25
                    ELSE (IF Strength(r.p) + Strength(r.sp) > 0 THEN 0 ELSE 10)
                       + (IF HasSicurre(r) THEN 0 ELSE 10)
            lost == (IF bare THEN 20 ELSE 0) + kept + 30 * listed
<1>1. kept \in Nat OBVIOUS
<1>. HIDE DEF kept
<1>2. lost \in Nat BY <1>1
<1>. HIDE DEF lost
<1>3. (IF lost > 70 THEN 30 ELSE 100 - lost) \in 30..100 BY <1>2
<1>. QED BY <1>3 DEF Score, lost, kept

LEMMA TypeInit == Init => ShieldTypeOK
<1>. SUFFICES ASSUME Init PROVE ShieldTypeOK OBVIOUS
<1>1. spf \in SpfRecords /\ dmarc \in DmarcRecords BY ZoneInit DEF ZoneInv, Records
<1>2. \A f \in Refreshes : rows[f].there \in BOOLEAN /\ rows[f].current \in BOOLEAN
  BY DEF Init, NoRow
<1>3. clobbered \in BOOLEAN /\ edits \in 0..Edits
  <2>1. clobbered = FALSE /\ edits = 0 BY DEF Init
  <2>2. Edits \in Nat BY ShieldAssumption
  <2>3. edits \in 0..Edits BY <2>1, <2>2
  <2>4. clobbered \in BOOLEAN BY <2>1
  <2>. QED BY <2>3, <2>4
<1>4. \A c \in Syncs : sync[c].at = "idle" BY DEF Init
<1>5. leave.at = "idle" BY DEF Init
<1>6. \A f \in Refreshes : refresh[f].at = "idle" BY DEF Init
<1>7. alerts = {} /\ mails = {} BY DEF Init
<1>8. "idle" \in RefreshSteps BY DEF RefreshSteps
<1>. QED BY <1>1, <1>2, <1>3, <1>4, <1>5, <1>6, <1>7, <1>8 DEF ShieldTypeOK

LEMMA RefreshTyped ==
    ASSUME ShieldTypeOK, ZoneInv, HistoryInv, NEW f \in Refreshes, Refresh(f)
    PROVE  /\ \A g \in Refreshes : refresh'[g].at \in RefreshSteps
           /\ \A g \in Refreshes : refresh'[g].at # "idle" => refresh'[g].got \in Measured
           /\ alerts' \subseteq Refreshes
           /\ mails' \subseteq [by : Refreshes, at : 0..(Day - 1), quiet : Quiet]
<1>. USE DEF ShieldTypeOK, HistoryInv
<1>0. dmarc \in DmarcRecords BY DEF ZoneInv, Records
<1>1. ASSUME NEW step \in RefreshSteps, refresh[f].at # "idle",
             /\ DOMAIN refresh' = Refreshes
             /\ refresh'[f].at = step /\ refresh'[f].got = refresh[f].got
             /\ \A g \in Refreshes \ {f} : refresh'[g] = refresh[g]
      PROVE  /\ \A g \in Refreshes : refresh'[g].at \in RefreshSteps
             /\ \A g \in Refreshes : refresh'[g].at # "idle" => refresh'[g].got \in Measured
  BY <1>1
<1>2. CASE RefreshMeasure(f)
  <2>1. PICK listed \in Listings, bare \in BOOLEAN :
           refresh' = [refresh EXCEPT
              ![f].at = "look",
              ![f].got = [score |-> Score(bare, dmarc, listed),
                          spf |-> spf.version = "exact", dmarc |-> dmarc.there]]
    BY <1>2 DEF RefreshMeasure
  <2>2. Score(bare, dmarc, listed) \in 30..100 BY <1>0, ScoreType
  <2>3. dmarc.there \in BOOLEAN BY <1>0 DEF DmarcRecords
  <2>4. [score |-> Score(bare, dmarc, listed),
         spf |-> spf.version = "exact", dmarc |-> dmarc.there] \in Measured
    BY <2>2, <2>3 DEF Measured
  <2>. HIDE DEF Measured
  <2>5. /\ refresh'[f].at = "look" /\ refresh'[f].got \in Measured
        /\ \A g \in Refreshes \ {f} : refresh'[g] = refresh[g]
    BY <2>1, <2>4
  <2>. QED BY <1>2, <2>5 DEF RefreshMeasure, RefreshSteps
<1>3. CASE RefreshLook(f)
  <2>1. PICK last :
           refresh' = [refresh EXCEPT
              ![f].last = last,
              ![f].at = IF last.there /\ refresh[f].got.score < last.score THEN "alert"
                        ELSE IF Same(refresh[f].got, last) THEN "done" ELSE "close"]
    BY <1>3 DEF RefreshLook
  <2>2. PICK step \in {"alert", "done", "close"} :
           refresh' = [refresh EXCEPT ![f].last = last, ![f].at = step]
    BY <2>1
  <2>3. /\ DOMAIN refresh' = Refreshes
        /\ refresh'[f].at = step /\ refresh'[f].got = refresh[f].got
        /\ \A g \in Refreshes \ {f} : refresh'[g] = refresh[g]
    BY <2>2
  <2>4. step \in RefreshSteps BY DEF RefreshSteps
  <2>. QED BY <1>1, <1>3, <2>3, <2>4 DEF RefreshLook
<1>4. CASE RefreshAlert(f)
  <2>1. /\ DOMAIN refresh' = Refreshes
        /\ refresh'[f].at = "mail" /\ refresh'[f].got = refresh[f].got
        /\ \A g \in Refreshes \ {f} : refresh'[g] = refresh[g]
    BY <1>4 DEF RefreshAlert
  <2>2. "mail" \in RefreshSteps BY DEF RefreshSteps
  <2>. QED BY <1>1, <1>4, <2>1, <2>2 DEF RefreshAlert
<1>5. CASE RefreshMail(f)
  <2>1. /\ DOMAIN refresh' = Refreshes
        /\ refresh'[f].at = "close" /\ refresh'[f].got = refresh[f].got
        /\ \A g \in Refreshes \ {f} : refresh'[g] = refresh[g]
    BY <1>5 DEF RefreshMail
  <2>2. "close" \in RefreshSteps BY DEF RefreshSteps
  <2>3. PICK now \in 0..(Day - 1), q \in Quiet :
           mails' = IF Inside(q[1], q[2], now) THEN mails
                    ELSE mails \cup {[by |-> f, at |-> now, quiet |-> q]}
    BY <1>5 DEF RefreshMail
  <2>4. mails' \subseteq [by : Refreshes, at : 0..(Day - 1), quiet : Quiet] BY <2>3
  <2>. QED BY <1>1, <1>5, <2>1, <2>2, <2>4 DEF RefreshMail
<1>6. CASE RefreshClose(f)
  <2>1. /\ DOMAIN refresh' = Refreshes
        /\ refresh'[f].at = "open" /\ refresh'[f].got = refresh[f].got
        /\ \A g \in Refreshes \ {f} : refresh'[g] = refresh[g]
    BY <1>6 DEF RefreshClose
  <2>2. "open" \in RefreshSteps BY DEF RefreshSteps
  <2>. QED BY <1>1, <1>6, <2>1, <2>2 DEF RefreshClose
<1>7. CASE RefreshOpen(f)
  <2>1. /\ DOMAIN refresh' = Refreshes
        /\ refresh'[f].at = "done" /\ refresh'[f].got = refresh[f].got
        /\ \A g \in Refreshes \ {f} : refresh'[g] = refresh[g]
    BY <1>7 DEF RefreshOpen
  <2>2. "done" \in RefreshSteps BY DEF RefreshSteps
  <2>. QED BY <1>1, <1>7, <2>1, <2>2 DEF RefreshOpen
<1>. QED BY <1>2, <1>3, <1>4, <1>5, <1>6, <1>7 DEF Refresh

LEMMA TypeStep ==
    ASSUME ShieldTypeOK, ZoneInv, HistoryInv, [Next]_vars
    PROVE  ShieldTypeOK'
<1>1. ZoneInv' /\ HistoryInv' BY ZoneStep, HistoryStep
<1>2. /\ spf' \in SpfRecords /\ dmarc' \in DmarcRecords /\ clobbered' \in BOOLEAN
      /\ leave'.at \in {"idle", "write", "done"}
      /\ \A f \in Refreshes : rows'[f].there \in BOOLEAN /\ rows'[f].current \in BOOLEAN
  BY <1>1 DEF ZoneInv, HistoryInv, Records
<1>3. edits' \in 0..Edits
  <2>1. Edit => edits' \in 0..Edits BY DEF Edit, ShieldTypeOK
  <2>2. ASSUME ~Edit PROVE edits' = edits
    BY <2>2
    DEF Next, vars, zone, LeaveRead, LeaveWrite, SyncRead, SyncSpf, SyncDmarc, Refresh,
        RefreshMeasure, RefreshLook, RefreshAlert, RefreshMail, RefreshClose, RefreshOpen
  <2>. QED BY <2>1, <2>2 DEF ShieldTypeOK
<1>4. \A c \in Syncs : sync'[c].at \in {"idle", "spf", "dmarc", "done"}
  <2>. SUFFICES ASSUME NEW e \in Syncs PROVE sync'[e].at \in {"idle", "spf", "dmarc", "done"}
    OBVIOUS
  <2>1. CASE UNCHANGED sync BY <2>1 DEF ShieldTypeOK
  <2>2. ASSUME NEW c \in Syncs, SyncRead(c) \/ SyncSpf(c) \/ SyncDmarc(c)
        PROVE  sync'[e].at \in {sync[e].at, "spf", "dmarc", "done"}
    BY <2>2 DEF SyncRead, SyncSpf, SyncDmarc, ZoneInv
  <2>3. ASSUME \A c \in Syncs : ~(SyncRead(c) \/ SyncSpf(c) \/ SyncDmarc(c)) PROVE UNCHANGED sync
    BY <2>3
    DEF Next, vars, zone, Edit, LeaveRead, LeaveWrite, Refresh,
        RefreshMeasure, RefreshLook, RefreshAlert, RefreshMail, RefreshClose, RefreshOpen
  <2>. QED BY <2>1, <2>2, <2>3 DEF ShieldTypeOK
<1>5. /\ \A g \in Refreshes : refresh'[g].at \in RefreshSteps
      /\ \A g \in Refreshes : refresh'[g].at # "idle" => refresh'[g].got \in Measured
      /\ alerts' \subseteq Refreshes
      /\ mails' \subseteq [by : Refreshes, at : 0..(Day - 1), quiet : Quiet]
  <2>1. CASE UNCHANGED <<refresh, alerts, mails>> BY <2>1 DEF ShieldTypeOK
  <2>2. ASSUME \A f \in Refreshes : ~Refresh(f) PROVE UNCHANGED <<refresh, alerts, mails>>
    BY <2>2 DEF Next, vars, shield, Edit, LeaveRead, LeaveWrite, SyncRead, SyncSpf, SyncDmarc
  <2>. QED BY <2>1, <2>2, RefreshTyped
<1>. QED BY <1>2, <1>3, <1>4, <1>5 DEF ShieldTypeOK

\* The variables keep their types, a score its bounds: never below 30.
THEOREM TypeCorrect == Spec => []ShieldTypeOK
BY TypeInit, TypeStep, ZoneInit, ZoneStep, HistoryInit, HistoryStep, PTL DEF Spec

-----------------------------------------------------------------------------
(* Quiet hours.                                                            *)

\* A mail is sent at a minute that the code's comparison calls allowed.
MailsInv ==
    \A m \in mails :
        /\ m.quiet \in Quiet /\ m.at \in 0..(Day - 1)
        /\ ~Inside(m.quiet[1], m.quiet[2], m.at)

LEMMA MailsInit == Init => MailsInv
BY DEF Init, MailsInv

LEMMA MailsStep ==
    ASSUME MailsInv, [Next]_vars
    PROVE  MailsInv'
<1>1. CASE UNCHANGED mails BY <1>1 DEF MailsInv
<1>2. ASSUME NEW f \in Refreshes, RefreshMail(f) PROVE MailsInv'
  <2>1. PICK now \in 0..(Day - 1), q \in Quiet :
           mails' = IF Inside(q[1], q[2], now) THEN mails
                    ELSE mails \cup {[by |-> f, at |-> now, quiet |-> q]}
    BY <1>2 DEF RefreshMail
  <2>. QED BY <2>1 DEF MailsInv
<1>3. ASSUME NEW f \in Refreshes, Refresh(f), ~RefreshMail(f) PROVE UNCHANGED mails
  BY <1>3
  DEF Refresh, RefreshMeasure, RefreshLook, RefreshAlert, RefreshClose, RefreshOpen
<1>4. ASSUME NEW c \in Syncs, SyncRead(c) \/ SyncSpf(c) \/ SyncDmarc(c) PROVE UNCHANGED mails
  BY <1>4 DEF SyncRead, SyncSpf, SyncDmarc, shield
<1>5. Edit \/ LeaveRead \/ LeaveWrite \/ UNCHANGED vars => UNCHANGED mails
  BY DEF Edit, LeaveRead, LeaveWrite, shield, vars
<1>. QED BY <1>1, <1>2, <1>3, <1>4, <1>5 DEF Next

\* On a clock of Day minutes, a minute later by less than a day is the sum, or
\* the sum less a day.
LEMMA ClockSum ==
    ASSUME NEW x \in 0..(2 * Day - 1)
    PROVE  x % Day = IF x < Day THEN x ELSE x - Day
OBVIOUS

\* The comparison is right: a minute within the quiet hours, counted from their
\* first over midnight, is inside.
LEMMA InsideIsRight ==
    ASSUME NEW start \in 0..(Day - 1), NEW end \in 0..(Day - 1), NEW k \in 0..(Day - 1),
           k < (end + Day - start) % Day
    PROVE  Inside(start, end, (start + k) % Day)
<1>1. (end + Day - start) % Day = IF end < start THEN end + Day - start ELSE end - start
  <2>1. end + Day - start \in 0..(2 * Day - 1) OBVIOUS
  <2>. QED BY <2>1, ClockSum
<1>2. (start + k) % Day = IF start + k < Day THEN start + k ELSE start + k - Day
  <2>1. start + k \in 0..(2 * Day - 1) OBVIOUS
  <2>. QED BY <2>1, ClockSum
<1>. QED BY <1>1, <1>2 DEF Inside

\* No mail in the quiet hours, for every day, and every beginning and end.
THEOREM QuietIsQuiet == Spec => []QuietHoursKept
<1>1. ASSUME MailsInv PROVE QuietHoursKept
  <2>. SUFFICES ASSUME NEW m \in mails, NEW k \in 0..(Day - 1),
                       k < (m.quiet[2] + Day - m.quiet[1]) % Day,
                       m.at = (m.quiet[1] + k) % Day
                PROVE  FALSE
    BY DEF QuietHoursKept
  <2>1. m.quiet[1] \in 0..(Day - 1) /\ m.quiet[2] \in 0..(Day - 1) BY <1>1 DEF MailsInv
  <2>2. Inside(m.quiet[1], m.quiet[2], m.at) BY <2>1, InsideIsRight
  <2>. QED BY <1>1, <2>2 DEF MailsInv
<1>. QED BY <1>1, MailsInit, MailsStep, PTL DEF Spec
=============================================================================
