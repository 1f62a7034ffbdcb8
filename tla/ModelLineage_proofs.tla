------------------------- MODULE ModelLineage_proofs -------------------------
(***************************************************************************)
(* What is trained, tested and put into production, for every number of    *)
(* messages, versions, models, evaluations and deployments.                *)
(***************************************************************************)
EXTENDS ModelLineage, FiniteSetTheorems, TLAPS

USE ReleaseAssumption, NoneAssumption, LineageAssumption

-----------------------------------------------------------------------------
(* The splits of a dataset.  The messages of a label are numbers; the      *)
(* place of one among them is a bijection to 1..n, so that a stretch of    *)
(* places holds as many messages as it is long.                            *)

\* A finite set of numbers, as the messages of a label are.
LEMMA FiniteNumbers ==
    ASSUME NEW K \in Nat, NEW ms \in SUBSET (1..K)
    PROVE  IsFiniteSet(ms) /\ Cardinality(ms) \in Nat
<1>1. IsFiniteSet(1..K) BY FS_Interval
<1>. QED BY <1>1, FS_Subset, FS_CardinalityType

LEMMA CardinalityOfInterval ==
    ASSUME NEW a \in Int, NEW b \in Int, a <= b + 1
    PROVE  IsFiniteSet(a..b) /\ Cardinality(a..b) = b - a + 1
<1>1. IsFiniteSet(a..b) /\ Cardinality(a..b) = IF a > b THEN 0 ELSE b - a + 1
  BY FS_Interval
<1>. QED BY <1>1

\* The place of a message among those of its label: each has one of its own,
\* and every place from the first to the last is taken.
Place(ms, m) == Cardinality({q \in ms : q <= m})

LEMMA PlaceRange ==
    ASSUME NEW K \in Nat, NEW ms \in SUBSET (1..K), NEW m \in ms
    PROVE  Place(ms, m) \in 1..Cardinality(ms)
<1>. DEFINE upto == {q \in ms : q <= m}
            n == Cardinality(ms)
<1>0. ms \subseteq Int /\ m \in Int OBVIOUS
<1>1. upto \subseteq ms /\ m \in upto /\ IsFiniteSet(ms) /\ n \in Nat
  <2>1. m <= m BY <1>0
  <2>2. IsFiniteSet(ms) /\ n \in Nat BY FiniteNumbers
  <2>. QED BY <2>1, <2>2
<1>2. IsFiniteSet(upto) /\ Cardinality(upto) \in Nat /\ Cardinality(upto) <= n
  BY <1>1, FS_Subset, FS_CardinalityType
<1>3. Cardinality(upto) # 0 BY <1>1, <1>2, FS_EmptySet
<1>. HIDE DEF upto, n
<1>4. Cardinality(upto) \in 1..n BY <1>1, <1>2, <1>3
<1>. QED BY <1>4 DEF Place, upto, n

LEMMA PlaceGrows ==
    ASSUME NEW K \in Nat, NEW ms \in SUBSET (1..K), NEW m \in ms, NEW q \in ms, m < q
    PROVE  Place(ms, m) < Place(ms, q)
<1>. DEFINE low == {p \in ms : p <= m}
            high == {p \in ms : p <= q}
<1>0. \A p \in ms : p \in Int OBVIOUS
<1>1. low \subseteq high /\ high \subseteq ms /\ q \in high /\ q \notin low
  <2>1. m \in Int /\ q \in Int BY <1>0
  <2>2. \A p \in ms : p <= m => p <= q BY <1>0, <2>1
  <2>3. q <= q /\ ~(q <= m) BY <2>1
  <2>. QED BY <2>2, <2>3
<1>2. IsFiniteSet(high) BY <1>1, FiniteNumbers, FS_Subset
<1>3. Cardinality(low) <= Cardinality(high) /\ Cardinality(low) # Cardinality(high)
  BY <1>1, <1>2, FS_Subset
<1>4. Cardinality(low) \in Nat /\ Cardinality(high) \in Nat
  BY <1>1, <1>2, FS_Subset, FS_CardinalityType
<1>. HIDE DEF low, high
<1>5. Cardinality(low) < Cardinality(high) BY <1>3, <1>4
<1>. QED BY <1>5 DEF Place, low, high

LEMMA PlacesTaken ==
    ASSUME NEW K \in Nat, NEW ms \in SUBSET (1..K)
    PROVE  [m \in ms |-> Place(ms, m)] \in Bijection(ms, 1..Cardinality(ms))
<1>. DEFINE n == Cardinality(ms)
            place == [m \in ms |-> Place(ms, m)]
<1>1. n \in Nat BY FiniteNumbers
<1>2. place \in [ms -> 1..n] BY PlaceRange
<1>3. ASSUME NEW m \in ms, NEW q \in ms, place[m] = place[q] PROVE m = q
  <2>1. m \in Int /\ q \in Int OBVIOUS
  <2>2. Place(ms, m) \in 1..n /\ Place(ms, q) \in 1..n BY PlaceRange
  <2>3. Place(ms, m) \in Int /\ Place(ms, q) \in Int /\ Place(ms, m) = Place(ms, q)
    BY <1>1, <1>3, <2>2
  <2>4. m < q => Place(ms, m) < Place(ms, q) BY PlaceGrows
  <2>5. q < m => Place(ms, q) < Place(ms, m) BY PlaceGrows
  <2>6. ~(m < q) /\ ~(q < m) BY <2>3, <2>4, <2>5
  <2>. QED BY <2>1, <2>6
<1>4. place \in Injection(ms, 1..n) BY <1>2, <1>3 DEF Injection, IsInjective
<1>5. IsFiniteSet(1..n) /\ Cardinality(1..n) = n BY <1>1, CardinalityOfInterval
<1>6. place \in Surjection(ms, 1..n) BY <1>4, <1>5, FS_Injection
<1>. QED BY <1>4, <1>6 DEF Bijection

\* A stretch of places holds as many messages.
LEMMA StretchSize ==
    ASSUME NEW K \in Nat, NEW ms \in SUBSET (1..K), NEW k \in Int, NEW l \in Int,
           1 <= k, k <= l + 1, l <= Cardinality(ms)
    PROVE  Cardinality(Stretch(ms, k, l)) = l - k + 1
<1>. DEFINE n == Cardinality(ms)
            place == [m \in ms |-> Place(ms, m)]
            some == Stretch(ms, k, l)
            part == [m \in some |-> Place(ms, m)]
<1>0. n \in Nat BY FiniteNumbers
<1>1. some = {m \in ms : Place(ms, m) \in k..l} BY DEF Stretch, Place
<1>2. place \in Bijection(ms, 1..n) BY PlacesTaken
<1>3. k..l \subseteq 1..n BY <1>0
<1>4. part \in [some -> k..l] BY <1>1
<1>5. part \in Injection(some, k..l)
  BY <1>1, <1>2, <1>4 DEF Bijection, Injection, IsInjective
<1>6. ASSUME NEW p \in k..l PROVE \E m \in some : part[m] = p
  <2>1. p \in 1..n BY <1>3
  <2>2. PICK m \in ms : place[m] = p BY <1>2, <2>1 DEF Bijection, Surjection
  <2>. QED BY <1>1, <2>2
<1>7. part \in Surjection(some, k..l) BY <1>4, <1>6 DEF Surjection
<1>8. IsFiniteSet(k..l) /\ Cardinality(k..l) = l - k + 1 BY CardinalityOfInterval
<1>. HIDE DEF part, some
<1>9. Cardinality(some) = Cardinality(k..l) BY <1>5, <1>7, <1>8, FS_Injection
<1>. QED BY <1>8, <1>9 DEF some

-----------------------------------------------------------------------------
(* 80/10/10, rounded.                                                      *)

LEMMA SmallSets ==
    /\ Cardinality({}) = 0
    /\ Cardinality({"test"}) = 1 /\ Cardinality({"train"}) = 1
    /\ Cardinality({"test", "train"}) = 2 /\ Cardinality({"test", "val"}) = 2
<1>1. ASSUME NEW x, NEW y, x # y PROVE Cardinality({x, y}) = 2
  <2>1. {x, y} = {x} \cup {y} OBVIOUS
  <2>2. Cardinality({x} \cup {y}) = Cardinality({x}) + 1
    BY <1>1, FS_AddElement, FS_Singleton
  <2>3. Cardinality({x}) = 1 BY FS_Singleton
  <2>. QED BY <2>1, <2>2, <2>3
<1>2. Cardinality({"test"}) = 1 /\ Cardinality({"train"}) = 1 BY FS_Singleton, Zenon
<1>3. "test" # "train" /\ "test" # "val" OBVIOUS
<1>4. Cardinality({"test", "train"}) = 2 BY <1>1, <1>3, Zenon
<1>5. Cardinality({"test", "val"}) = 2 BY <1>1, <1>3, Zenon
<1>. QED BY <1>2, <1>4, <1>5, FS_EmptySet

\* One lemma for the ten remainders.
LEMMA Tenths ==
    ASSUME NEW n \in Nat
    PROVE  \E k \in Nat, d \in 0..9 : n = 10 * k + d
<1>1. n \div 10 \in Nat /\ n % 10 \in 0..9 /\ n = 10 * (n \div 10) + (n % 10)
  OBVIOUS
<1>. QED BY <1>1

Tenth(n, s) == IF s = "train" THEN 8 * n ELSE n
Rank(s) == CASE s = "test" -> 1 [] s = "train" -> 2 [] OTHER -> 3
Before(n, s) ==
    {t \in Splits : \/ Tenth(n, t) % 10 > Tenth(n, s) % 10
                    \/ Tenth(n, t) % 10 = Tenth(n, s) % 10 /\ Rank(t) < Rank(s)}
Rest(n) == n - ((8 * n) \div 10) - (n \div 10) - (n \div 10)

LEMMA CountsAre ==
    ASSUME NEW n \in Nat, NEW s \in Splits
    PROVE  SplitCounts(n)[s] =
             (Tenth(n, s) \div 10) + IF Cardinality(Before(n, s)) < Rest(n) THEN 1 ELSE 0
<1>. DEFINE tenths == [t \in Splits |-> IF t = "train" THEN 8 * n ELSE n]
            name == [test |-> 1, train |-> 2, val |-> 3]
            before(t) == {u \in Splits : \/ tenths[u] % 10 > tenths[t] % 10
                                         \/ tenths[u] % 10 = tenths[t] % 10 /\ name[u] < name[t]}
            rest == n - (tenths["train"] \div 10) - (tenths["val"] \div 10) - (tenths["test"] \div 10)
<1>1. \A t \in Splits : tenths[t] = Tenth(n, t) BY DEF Tenth
<1>2. \A t \in Splits : name[t] = Rank(t) BY DEF Splits, Rank
<1>3. SplitCounts(n) = [t \in Splits |-> (tenths[t] \div 10)
                                           + IF Cardinality(before(t)) < rest THEN 1 ELSE 0]
  BY DEF SplitCounts
<1>4. rest = Rest(n) BY DEF Rest, Splits
<1>. HIDE DEF tenths, name, rest
<1>5. before(s) = Before(n, s) BY <1>1, <1>2 DEF Before
<1>. QED BY <1>1, <1>3, <1>4, <1>5

\* Which fractions come first, as the fractions of the two shares compare.
LEMMA WhoIsFirst ==
    ASSUME NEW n \in Nat
    PROVE  LET a == (8 * n) % 10
               b == n % 10
           IN  /\ a = b => /\ Cardinality(Before(n, "test")) = 0
                           /\ Cardinality(Before(n, "train")) = 1
                           /\ Cardinality(Before(n, "val")) = 2
               /\ a > b => /\ Cardinality(Before(n, "train")) = 0
                           /\ Cardinality(Before(n, "test")) = 1
                           /\ Cardinality(Before(n, "val")) = 2
               /\ a < b => /\ Cardinality(Before(n, "test")) = 0
                           /\ Cardinality(Before(n, "val")) = 1
                           /\ Cardinality(Before(n, "train")) = 2
<1>. DEFINE a == (8 * n) % 10
            b == n % 10
<1>0. a \in Int /\ b \in Int OBVIOUS
<1>1. /\ Tenth(n, "train") % 10 = a /\ Tenth(n, "val") % 10 = b /\ Tenth(n, "test") % 10 = b
      /\ Rank("test") = 1 /\ Rank("train") = 2 /\ Rank("val") = 3
  BY DEF Tenth, Rank
<1>. HIDE DEF a, b
<1>2. a = b => /\ Cardinality(Before(n, "test")) = 0
               /\ Cardinality(Before(n, "train")) = 1
               /\ Cardinality(Before(n, "val")) = 2
  <2>. SUFFICES ASSUME a = b PROVE /\ Cardinality(Before(n, "test")) = 0
                                   /\ Cardinality(Before(n, "train")) = 1
                                   /\ Cardinality(Before(n, "val")) = 2
    OBVIOUS
  <2>1. Before(n, "test") = {} BY <1>0, <1>1 DEF Before, Splits
  <2>2. Before(n, "train") = {"test"} BY <1>0, <1>1 DEF Before, Splits
  <2>3. Before(n, "val") = {"test", "train"} BY <1>0, <1>1 DEF Before, Splits
  <2>. QED BY <2>1, <2>2, <2>3, SmallSets, Zenon
<1>3. a > b => /\ Cardinality(Before(n, "train")) = 0
               /\ Cardinality(Before(n, "test")) = 1
               /\ Cardinality(Before(n, "val")) = 2
  <2>. SUFFICES ASSUME a > b PROVE /\ Cardinality(Before(n, "train")) = 0
                                   /\ Cardinality(Before(n, "test")) = 1
                                   /\ Cardinality(Before(n, "val")) = 2
    OBVIOUS
  <2>1. Before(n, "train") = {} BY <1>0, <1>1 DEF Before, Splits
  <2>2. Before(n, "test") = {"train"} BY <1>0, <1>1 DEF Before, Splits
  <2>3. Before(n, "val") = {"test", "train"} BY <1>0, <1>1 DEF Before, Splits
  <2>. QED BY <2>1, <2>2, <2>3, SmallSets, Zenon
<1>4. a < b => /\ Cardinality(Before(n, "test")) = 0
               /\ Cardinality(Before(n, "val")) = 1
               /\ Cardinality(Before(n, "train")) = 2
  <2>. SUFFICES ASSUME a < b PROVE /\ Cardinality(Before(n, "test")) = 0
                                   /\ Cardinality(Before(n, "val")) = 1
                                   /\ Cardinality(Before(n, "train")) = 2
    OBVIOUS
  <2>1. Before(n, "test") = {} BY <1>0, <1>1 DEF Before, Splits
  <2>2. Before(n, "val") = {"test"} BY <1>0, <1>1 DEF Before, Splits
  <2>3. Before(n, "train") = {"test", "val"} BY <1>0, <1>1 DEF Before, Splits
  <2>. QED BY <2>1, <2>2, <2>3, SmallSets, Zenon
<1>. QED BY <1>2, <1>3, <1>4 DEF a, b

\* The counts add up to the messages, and each is the share, rounded.
LEMMA CountsAreFair ==
    ASSUME NEW n \in Nat
    PROVE  LET train == SplitCounts(n)["train"]
               val == SplitCounts(n)["val"]
           IN  /\ train \in Nat /\ val \in Nat /\ train + val <= n
               /\ 10 * train - 8 * n \in -9..9
               /\ 10 * val - n \in -9..9
               /\ 10 * (n - train - val) - n \in -9..9
<1>. DEFINE train == SplitCounts(n)["train"]
            val == SplitCounts(n)["val"]
            a == (8 * n) % 10
            b == n % 10
<1>1. /\ train = ((8 * n) \div 10) + IF Cardinality(Before(n, "train")) < Rest(n) THEN 1 ELSE 0
      /\ val = (n \div 10) + IF Cardinality(Before(n, "val")) < Rest(n) THEN 1 ELSE 0
  BY CountsAre DEF Tenth, Splits
<1>2. PICK k \in Nat, d \in 0..9 : n = 10 * k + d BY Tenths
<1>3. n \div 10 = k /\ b = d BY <1>2
<1>4. PICK e \in Nat, f \in 0..9 : 8 * d = 10 * e + f
  <2>1. 8 * d \in Nat OBVIOUS
  <2>. QED BY <2>1, Tenths
<1>5. (8 * n) \div 10 = 8 * k + e /\ a = f BY <1>2, <1>4
<1>6. Rest(n) = d - e BY <1>2, <1>3, <1>4, <1>5 DEF Rest
<1>7. /\ train = 8 * k + e + IF Cardinality(Before(n, "train")) < d - e THEN 1 ELSE 0
      /\ val = k + IF Cardinality(Before(n, "val")) < d - e THEN 1 ELSE 0
  BY <1>1, <1>3, <1>5, <1>6
<1>8. /\ f = d => Cardinality(Before(n, "train")) = 1 /\ Cardinality(Before(n, "val")) = 2
      /\ f > d => Cardinality(Before(n, "train")) = 0 /\ Cardinality(Before(n, "val")) = 2
      /\ f < d => Cardinality(Before(n, "train")) = 2 /\ Cardinality(Before(n, "val")) = 1
  BY <1>3, <1>5, WhoIsFirst
<1>. HIDE DEF train, val, a, b
<1>9. /\ train \in Nat /\ val \in Nat /\ train + val <= n
      /\ 10 * train - 8 * n \in -9..9
      /\ 10 * val - n \in -9..9
      /\ 10 * (n - train - val) - n \in -9..9
  BY <1>2, <1>4, <1>7, <1>8
<1>. QED BY <1>9 DEF train, val

LEMMA PartedType ==
    ASSUME NEW ms \in SUBSET Messages
    PROVE  Parted(ms) \in [Splits -> SUBSET ms]
BY DEF Parted, Stretch

\* Every message of a label is placed, in one split only, and each split has
\* its share of them.
LEMMA PartedParts ==
    ASSUME NEW K \in Nat, NEW ms \in SUBSET (1..K)
    PROVE  /\ ms = Parted(ms)["train"] \cup Parted(ms)["val"] \cup Parted(ms)["test"]
           /\ \A s, t \in Splits : s # t => Parted(ms)[s] \cap Parted(ms)[t] = {}
           /\ \A s \in Splits :
                10 * Cardinality(Parted(ms)[s])
                  - (IF s = "train" THEN 8 * Cardinality(ms) ELSE Cardinality(ms)) \in -9..9
<1>. DEFINE n == Cardinality(ms)
            a == SplitCounts(n)["train"]
            v == SplitCounts(n)["val"]
<1>1. n \in Nat BY FiniteNumbers
<1>2. /\ a \in Nat /\ v \in Nat /\ a + v <= n
      /\ 10 * a - 8 * n \in -9..9 /\ 10 * v - n \in -9..9 /\ 10 * (n - a - v) - n \in -9..9
  BY <1>1, CountsAreFair
<1>3. /\ Parted(ms)["train"] = Stretch(ms, 1, a)
      /\ Parted(ms)["val"] = Stretch(ms, a + 1, a + v)
      /\ Parted(ms)["test"] = Stretch(ms, a + v + 1, n)
  BY DEF Parted, Splits
<1>. HIDE DEF n, a, v
<1>4. /\ Cardinality(Stretch(ms, 1, a)) = a
      /\ Cardinality(Stretch(ms, a + 1, a + v)) = v
      /\ Cardinality(Stretch(ms, a + v + 1, n)) = n - a - v
  <2>0. n = Cardinality(ms) BY DEF n
  <2>1. ASSUME NEW k \in Int, NEW l \in Int, 1 <= k, k <= l + 1, l <= n
        PROVE  Cardinality(Stretch(ms, k, l)) = l - k + 1
    <3>1. l <= Cardinality(ms) BY <2>0, <2>1
    <3>. QED BY <2>0, <2>1, <3>1, StretchSize
  <2>2. /\ 1 \in Int /\ a \in Int /\ a + 1 \in Int /\ a + v \in Int /\ a + v + 1 \in Int /\ n \in Int
        /\ 1 <= a + 1 /\ a <= n /\ a + 1 <= a + v + 1 /\ a + v <= n
        /\ 1 <= a + v + 1 /\ a + v + 1 <= n + 1 /\ n <= n
    BY <1>1, <1>2
  <2>3. Cardinality(Stretch(ms, 1, a)) = a - 1 + 1 BY <2>1, <2>2
  <2>4. Cardinality(Stretch(ms, a + 1, a + v)) = (a + v) - (a + 1) + 1 BY <2>1, <2>2
  <2>5. Cardinality(Stretch(ms, a + v + 1, n)) = n - (a + v + 1) + 1 BY <2>1, <2>2
  <2>. QED BY <1>1, <1>2, <2>3, <2>4, <2>5
<1>5. \A m \in ms : Place(ms, m) \in 1..n BY PlaceRange DEF n
<1>6. /\ Stretch(ms, 1, a) = {m \in ms : Place(ms, m) \in 1..a}
      /\ Stretch(ms, a + 1, a + v) = {m \in ms : Place(ms, m) \in (a + 1)..(a + v)}
      /\ Stretch(ms, a + v + 1, n) = {m \in ms : Place(ms, m) \in (a + v + 1)..n}
  BY DEF Stretch, Place
<1>7. ASSUME NEW m \in ms
      PROVE  /\ ~(Place(ms, m) \in 1..a /\ Place(ms, m) \in (a + v + 1)..n)
             /\ ~(Place(ms, m) \in 1..a /\ Place(ms, m) \in (a + 1)..(a + v))
             /\ ~(Place(ms, m) \in (a + 1)..(a + v) /\ Place(ms, m) \in (a + v + 1)..n)
             /\ \/ Place(ms, m) \in 1..a \/ Place(ms, m) \in (a + 1)..(a + v)
                \/ Place(ms, m) \in (a + v + 1)..n
  BY <1>1, <1>2, <1>5
<1>8. ms = Parted(ms)["train"] \cup Parted(ms)["val"] \cup Parted(ms)["test"]
  BY <1>3, <1>6, <1>7
<1>9. \A s, t \in Splits : s # t => Parted(ms)[s] \cap Parted(ms)[t] = {}
  BY <1>3, <1>6, <1>7 DEF Splits
<1>10. \A s \in Splits :
         10 * Cardinality(Parted(ms)[s])
           - (IF s = "train" THEN 8 * n ELSE n) \in -9..9
  BY <1>1, <1>2, <1>3, <1>4 DEF Splits
<1>. QED BY <1>8, <1>9, <1>10 DEF n

LEMMA Fair == PartedFairly
BY PartedParts DEF PartedFairly

LEMMA BuiltType ==
    ASSUME ReleaseTypeOK
    PROVE  /\ Built \in [Splits -> SUBSET Messages]
           /\ \A s \in Splits : \A m \in Built[s] : label[m] # None
           /\ \A s, t \in Splits : s # t => Built[s] \cap Built[t] = {}
<1>. DEFINE of(l) == {m \in Messages : label[m] # None /\ annotated[m] = l}
<1>1. Built = [s \in Splits |-> UNION {Parted(of(l))[s] : l \in Labels}]
  BY DEF Built
<1>2. ASSUME NEW l \in Labels, NEW s \in Splits PROVE Parted(of(l))[s] \subseteq of(l)
  BY PartedType
<1>3. ASSUME NEW l \in Labels PROVE
        \A s, t \in Splits : s # t => Parted(of(l))[s] \cap Parted(of(l))[t] = {}
  BY PartedParts DEF Messages
<1>4. ASSUME NEW s \in Splits, NEW t \in Splits, s # t, NEW m \in Built[s], m \in Built[t]
      PROVE  FALSE
  <2>1. PICK k \in Labels : m \in Parted(of(k))[s] BY <1>1
  <2>2. PICK l \in Labels : m \in Parted(of(l))[t] BY <1>1, <1>4
  <2>3. k = l BY <1>2, <2>1, <2>2
  <2>. QED BY <1>3, <1>4, <2>1, <2>2, <2>3
<1>5. ASSUME NEW s \in Splits, NEW m \in Built[s] PROVE m \in Messages /\ label[m] # None
  <2>1. PICK k \in Labels : m \in Parted(of(k))[s] BY <1>1
  <2>. QED BY <1>2, <2>1
<1>. HIDE DEF of
<1>. QED BY <1>1, <1>4, <1>5

-----------------------------------------------------------------------------
(* Curation and publication.                                               *)

\* A message that a dataset has keeps a label to be exported with.
DatasetsLabelled == \A v \in Versions : \A m \in ItemsOf(v) : label[m] # None

\* What is being published is a frozen dataset, and once it was pushed, a
\* version at Kaggle.
ExportIsFrozen ==
    /\ export.at # "idle" =>
         /\ export.version \in Versions /\ export.content \in Contents
         /\ dataset[export.version].status = "frozen"
         /\ DOMAIN export.content = ItemsOf(export.version)
    /\ export.at \in {"record", "dispatch"} =>
         \E k \in DOMAIN pushed :
             pushed[k] = [version |-> export.version, content |-> export.content]

ReleaseInv ==
    /\ ReleaseTypeOK /\ DatasetsLabelled /\ SplitsAreDisjoint
    /\ ExportIsFrozen /\ TrainingIsTraceable

\* The datasets are typed, their items are messages.
LEMMA ItemsType ==
    ASSUME ReleaseTypeOK, NEW v \in Versions
    PROVE  /\ dataset[v].items \in [Splits -> SUBSET Messages]
           /\ ItemsOf(v) \in SUBSET Messages
<1>1. dataset[v].items \in [Splits -> SUBSET Messages] BY DEF ReleaseTypeOK
<1>. QED BY <1>1 DEF ItemsOf

LEMMA ReleaseInitInv == ReleaseInit => ReleaseInv
<1>. SUFFICES ASSUME ReleaseInit PROVE ReleaseInv OBVIOUS
<1>1. ReleaseTypeOK
  <2>1. NoItems \in [Splits -> SUBSET Messages] BY DEF NoItems
  <2>2. pushed \in Seq(Pushes) BY DEF ReleaseInit
  <2>3. export \in [at : {"idle", "push", "record", "dispatch"},
                    version : Versions \cup {None}, content : Contents \cup {<<>>}]
    BY DEF ReleaseInit, NoExport
  <2>4. dataset \in [Versions -> [status : {"absent", "draft", "frozen"},
                                  items : [Splits -> SUBSET Messages]]]
    BY <2>1 DEF ReleaseInit
  <2>. QED BY <2>2, <2>3, <2>4 DEF ReleaseTypeOK, ReleaseInit
<1>2. \A v \in Versions : ItemsOf(v) = {} BY DEF ReleaseInit, ItemsOf, NoItems
<1>. QED
  BY <1>1, <1>2 DEF ReleaseInv, ReleaseInit, NoExport, DatasetsLabelled, SplitsAreDisjoint,
     NoItems, ExportIsFrozen, TrainingIsTraceable

\* The statements of curation: they touch labels and annotations only.
LEMMA CurationInv ==
    ASSUME ReleaseInv, UNCHANGED <<dataset, export, pushed, released, trainings>>,
           label' \in [Messages -> Labels \cup {None}],
           annotated' \in [Messages -> Labels \cup {None}],
           \A m \in Messages : (\E v \in Versions : m \in ItemsOf(v)) /\ label[m] # None => label'[m] # None
    PROVE  ReleaseInv'
<1>1. ReleaseTypeOK' BY DEF ReleaseInv, ReleaseTypeOK
<1>2. \A v : ItemsOf(v)' = ItemsOf(v) BY DEF ItemsOf
<1>3. DatasetsLabelled'
  BY <1>2, ItemsType DEF ReleaseInv, DatasetsLabelled
<1>. QED BY <1>1, <1>2, <1>3 DEF ReleaseInv, SplitsAreDisjoint, ExportIsFrozen, TrainingIsTraceable

\* A version tag that was free gets a dataset.
LEMMA DatasetInv ==
    ASSUME ReleaseInv, UNCHANGED <<label, annotated, export, pushed, released, trainings>>,
           NEW v \in Versions, dataset[v].status = "absent",
           NEW status \in {"draft", "frozen"}, NEW items \in [Splits -> SUBSET Messages],
           dataset' = [dataset EXCEPT ![v] = [status |-> status, items |-> items]],
           \A s \in Splits : \A m \in items[s] : label[m] # None,
           \A s, t \in Splits : s # t => items[s] \cap items[t] = {}
    PROVE  ReleaseInv'
<1>1. dataset' \in [Versions -> [status : {"absent", "draft", "frozen"},
                                 items : [Splits -> SUBSET Messages]]]
  BY DEF ReleaseInv, ReleaseTypeOK
<1>2. ReleaseTypeOK' BY <1>1 DEF ReleaseInv, ReleaseTypeOK
<1>3. \A w \in Versions : w # v => dataset'[w] = dataset[w] /\ ItemsOf(w)' = ItemsOf(w)
  BY DEF ReleaseInv, ReleaseTypeOK, ItemsOf
<1>4. dataset'[v].items = items /\ ItemsOf(v)' = UNION {items[s] : s \in Splits}
  BY DEF ReleaseInv, ReleaseTypeOK, ItemsOf
<1>5. DatasetsLabelled' BY <1>3, <1>4 DEF ReleaseInv, DatasetsLabelled
<1>6. SplitsAreDisjoint' BY <1>3, <1>4 DEF ReleaseInv, SplitsAreDisjoint
<1>7. ExportIsFrozen' BY <1>3 DEF ReleaseInv, ExportIsFrozen
<1>8. TrainingIsTraceable'
  <2>1. \A t \in trainings : t.version \in Versions /\ t.version # v
    BY DEF ReleaseInv, ReleaseTypeOK, TrainingIsTraceable, Pushes
  <2>. QED BY <1>3, <2>1 DEF ReleaseInv, TrainingIsTraceable
<1>. QED BY <1>2, <1>5, <1>6, <1>7, <1>8 DEF ReleaseInv

LEMMA PublishInv ==
    ASSUME ReleaseInv, UNCHANGED <<label, annotated, dataset>>,
           (\E v \in Versions : Publish(v)) \/ PublishPush \/ PublishRecord \/ PublishDispatch
             \/ PublishCrash
    PROVE  ReleaseInv'
<1>. DEFINE Exports == [at : {"idle", "push", "record", "dispatch"},
                        version : Versions \cup {None}, content : Contents \cup {<<>>}]
<1>0. \A v : ItemsOf(v)' = ItemsOf(v) BY DEF ItemsOf
<1>1. DatasetsLabelled' /\ SplitsAreDisjoint'
  BY <1>0 DEF ReleaseInv, DatasetsLabelled, SplitsAreDisjoint
<1>2. NoExport \in Exports /\ export \in Exports BY DEF ReleaseInv, ReleaseTypeOK, NoExport
<1>3. ASSUME NEW v \in Versions, Publish(v) PROVE ReleaseInv'
  <2>1. [m \in ItemsOf(v) |-> label[m]] \in Contents
    <3>1. \A m \in ItemsOf(v) : label[m] \in Labels
      BY ItemsType DEF ReleaseInv, ReleaseTypeOK, DatasetsLabelled
    <3>. QED BY <3>1, ItemsType DEF Contents, ReleaseInv
  <2>. DEFINE content == [m \in ItemsOf(v) |-> label[m]]
  <2>2. export' = [at |-> "push", version |-> v, content |-> content] BY <1>3 DEF Publish
  <2>3. DOMAIN content = ItemsOf(v) OBVIOUS
  <2>. HIDE DEF content
  <2>4. ExportIsFrozen' BY <1>0, <1>3, <2>1, <2>2, <2>3 DEF Publish, ExportIsFrozen, content
  <2>5. ReleaseTypeOK' BY <1>3, <2>1, <2>2 DEF Publish, ReleaseInv, ReleaseTypeOK, content
  <2>6. TrainingIsTraceable' BY <1>0, <1>3 DEF Publish, ReleaseInv, TrainingIsTraceable
  <2>. QED BY <1>1, <2>4, <2>5, <2>6 DEF ReleaseInv
<1>4. CASE PublishPush
  <2>. DEFINE new == [version |-> export.version, content |-> export.content]
  <2>1. export.at = "push" /\ (pushed' = Append(pushed, new) \/ (pushed' = pushed /\ export' = NoExport))
        /\ (export' = [export EXCEPT !.at = "record"] \/ export' = NoExport)
        /\ UNCHANGED <<released, trainings>>
    BY <1>4 DEF PublishPush
  <2>2. new \in Pushes /\ pushed \in Seq(Pushes)
    BY <2>1 DEF ReleaseInv, ReleaseTypeOK, ExportIsFrozen, Pushes
  <2>. HIDE DEF new
  <2>3. pushed' \in Seq(Pushes) BY <2>1, <2>2
  <2>4. \A k \in DOMAIN pushed : k \in DOMAIN pushed' /\ pushed'[k] = pushed[k] BY <2>1, <2>2
  <2>5. export' # NoExport => \E k \in DOMAIN pushed' : pushed'[k] = new
    <3>1. ASSUME pushed' = Append(pushed, new)
          PROVE  Len(pushed) + 1 \in DOMAIN pushed' /\ pushed'[Len(pushed) + 1] = new
      BY <2>2, <3>1
    <3>. QED BY <2>1, <3>1
  <2>6. export' \in Exports BY <1>2, <2>1
  <2>7. ReleaseTypeOK' BY <2>1, <2>3, <2>6 DEF ReleaseInv, ReleaseTypeOK
  <2>8. \/ export'.version = export.version /\ export'.content = export.content
        \/ export' = NoExport
    BY <1>2, <2>1
  <2>9. ExportIsFrozen'
    BY <1>0, <2>1, <2>5, <2>8 DEF ReleaseInv, ExportIsFrozen, NoExport, new
  <2>10. TrainingIsTraceable' BY <1>0, <2>1, <2>4 DEF ReleaseInv, TrainingIsTraceable
  <2>. QED BY <1>1, <2>7, <2>9, <2>10 DEF ReleaseInv
<1>5. CASE PublishRecord
  <2>1. /\ export.at = "record" /\ export' = [export EXCEPT !.at = "dispatch"]
        /\ UNCHANGED <<pushed, trainings>>
    BY <1>5 DEF PublishRecord
  <2>2. Len(pushed) \in Nat BY DEF ReleaseInv, ReleaseTypeOK
  <2>3. released' \in [Versions -> Nat]
    BY <1>5, <2>2 DEF PublishRecord, ReleaseInv, ReleaseTypeOK
  <2>4. /\ export' \in Exports /\ export'.version = export.version
        /\ export'.content = export.content
    BY <1>2, <2>1
  <2>5. ReleaseTypeOK' BY <2>1, <2>3, <2>4 DEF ReleaseInv, ReleaseTypeOK
  <2>6. ExportIsFrozen' BY <1>0, <2>1, <2>4 DEF ReleaseInv, ExportIsFrozen
  <2>7. TrainingIsTraceable' BY <1>0, <2>1 DEF ReleaseInv, TrainingIsTraceable
  <2>. QED BY <1>1, <2>5, <2>6, <2>7 DEF ReleaseInv
<1>6. CASE PublishDispatch \/ PublishCrash
  <2>. DEFINE new == [version |-> export.version, content |-> export.content]
  <2>1. /\ export' = NoExport /\ UNCHANGED <<pushed, released>>
        /\ \/ export.at = "dispatch" /\ trainings' = trainings \cup {new}
           \/ UNCHANGED trainings
    BY <1>6 DEF PublishDispatch, PublishCrash
  <2>2. export.at = "dispatch" =>
          /\ new \in Pushes /\ dataset[new.version].status = "frozen"
          /\ DOMAIN new.content = ItemsOf(new.version)
          /\ \E k \in DOMAIN pushed : pushed[k] = new
    BY DEF ReleaseInv, ExportIsFrozen, Pushes
  <2>. HIDE DEF new
  <2>3. ReleaseTypeOK' BY <1>2, <2>1, <2>2 DEF ReleaseInv, ReleaseTypeOK
  <2>4. ExportIsFrozen' BY <2>1 DEF ExportIsFrozen, NoExport
  <2>5. TrainingIsTraceable' BY <1>0, <2>1, <2>2 DEF ReleaseInv, TrainingIsTraceable
  <2>. QED BY <1>1, <2>3, <2>4, <2>5 DEF ReleaseInv
<1>. QED BY <1>3, <1>4, <1>5, <1>6

LEMMA ReleaseNextInv ==
    ASSUME ReleaseInv, [ReleaseNext]_release
    PROVE  ReleaseInv'
<1>1. ASSUME NEW m \in Messages, NEW l \in Labels,
             Normalize(m, l) \/ Relabel(m, l) \/ Annotate(m, l)
      PROVE  ReleaseInv'
  BY <1>1, CurationInv DEF Normalize, Relabel, Annotate, ReleaseInv, ReleaseTypeOK
<1>2. ASSUME NEW m \in Messages, DeleteMessage(m) PROVE ReleaseInv'
  BY <1>2, CurationInv DEF DeleteMessage, ReleaseInv, ReleaseTypeOK
<1>3. CASE Backfill
  BY <1>3, CurationInv DEF Backfill, ReleaseInv, ReleaseTypeOK
<1>4. ASSUME NEW v \in Versions, NEW status \in {"draft", "frozen"}, BuildDataset(v, status)
      PROVE  ReleaseInv'
  BY <1>4, BuiltType, DatasetInv DEF BuildDataset, ReleaseInv
<1>5. ASSUME NEW v \in Versions, NEW status \in {"draft", "frozen"}, CreateDataset(v, status)
      PROVE  ReleaseInv'
  <2>1. /\ NoItems \in [Splits -> SUBSET Messages]
        /\ \A s \in Splits : NoItems[s] = {}
    BY DEF NoItems
  <2>. QED BY <1>5, <2>1, DatasetInv DEF CreateDataset
<1>6. CASE (\E v \in Versions : Publish(v)) \/ PublishPush \/ PublishRecord \/ PublishDispatch
             \/ PublishCrash
  BY <1>6, PublishInv DEF Publish, PublishPush, PublishRecord, PublishDispatch, PublishCrash
<1>7. CASE UNCHANGED release
  BY <1>7 DEF release, ReleaseInv, ReleaseTypeOK, DatasetsLabelled, SplitsAreDisjoint,
     ExportIsFrozen, TrainingIsTraceable, ItemsOf
<1>. QED BY <1>1, <1>2, <1>3, <1>4, <1>5, <1>6, <1>7 DEF ReleaseNext

-----------------------------------------------------------------------------
(* Evaluations and deployments.                                            *)

ModelsAreTrained ==
    \A m \in Models : model[m] # None =>
        trainedOn[m] \in Versions /\ dataset[trainedOn[m]].status # "absent"

\* A set keeps its content and its approval once an evaluation used it.
EvaluationsAreApproved ==
    \A x \in Evaluations : evaluation[x].model # None =>
        /\ evaluation[x].set \in Sets
        /\ set[evaluation[x].set].status = "approved"
        /\ set[evaluation[x].set].checksum = evaluation[x].checksum

\* What a callback read before it commits stays true until it does, save the
\* stages.
DecisionsAreSound ==
    \A d \in decisions :
        /\ model[d.model] # None
        /\ set[d.set].status = "approved" /\ set[d.set].checksum = d.checksum

CallsAreSound ==
    \A c \in calls :
        /\ c.previous # c.model /\ (c.previous \in Models => model[c.previous] # None)
        /\ model[c.model] # None /\ evaluation[c.evaluation].model = c.model
        /\ c.status = "active" => evaluation[c.evaluation].outcome = "passed"

ActiveIsPassed ==
    \A g \in Deployments : deployment[g].status = "active" =>
        LET x == deployment[g].evaluation IN
          /\ x \in Evaluations /\ deployment[g].model \in Models
          /\ evaluation[x].model = deployment[g].model /\ evaluation[x].outcome = "passed"

\* Retiring a model retires its active deployments, and deploying makes one.
ProductionIsActive ==
    \A m \in Models : model[m] = "production" =>
        \E g \in Deployments : deployment[g].status = "active" /\ deployment[g].model = m

LineageInv ==
    /\ LineageTypeOK /\ ModelsAreTrained /\ EvaluationsAreApproved
    /\ DecisionsAreSound /\ CallsAreSound /\ ActiveIsPassed /\ ProductionIsActive

LEMMA LineageInitInv == LineageInit => LineageInv
<1>. SUFFICES ASSUME LineageInit PROVE LineageInv OBVIOUS
<1>1. set \in [Sets -> [status : {None, "draft", "approved"}, checksum : Checksums \cup {None}]]
  BY DEF LineageInit, NoSet
<1>2. evaluation \in [Evaluations ->
         [model : Models \cup {None}, set : Sets \cup {None},
          checksum : Checksums \cup {None}, outcome : Outcomes \cup {None}]]
  BY DEF LineageInit, NoEvaluation
<1>3. deployment \in [Deployments ->
         [model : Models \cup {None}, evaluation : Evaluations \cup {None},
          status : Statuses \cup {"retired", None}]]
  BY DEF LineageInit, NoDeployment
<1>4. LineageTypeOK BY <1>1, <1>2, <1>3 DEF LineageTypeOK, LineageInit, Stages
<1>. QED
  BY <1>4 DEF LineageInv, LineageInit, ModelsAreTrained, EvaluationsAreApproved,
     DecisionsAreSound, CallsAreSound, ActiveIsPassed, ProductionIsActive, NoEvaluation, NoDeployment, None

\* A step of curation or publication keeps every dataset that there is.
LEMMA DatasetsStay ==
    ASSUME ReleaseInv, [ReleaseNext]_release, NEW v \in Versions, dataset[v].status # "absent"
    PROVE  dataset'[v].status # "absent"
<1>1. CASE UNCHANGED dataset BY <1>1
<1>2. ASSUME NEW w \in Versions, NEW status \in {"draft", "frozen"},
             BuildDataset(w, status) \/ CreateDataset(w, status)
      PROVE  dataset'[v].status # "absent"
  <2>1. w # v BY <1>2 DEF BuildDataset, CreateDataset
  <2>2. dataset'[v] = dataset[v]
    BY <1>2, <2>1 DEF BuildDataset, CreateDataset, ReleaseInv, ReleaseTypeOK
  <2>. QED BY <2>2
<1>. QED
  BY <1>1, <1>2 DEF ReleaseNext, release, Normalize, Relabel, Annotate, DeleteMessage, Backfill,
     Publish, PublishPush, PublishRecord, PublishDispatch, PublishCrash

\* Registering a set keeps what is approved, with its content.
LEMMA ApprovedStay ==
    ASSUME LineageTypeOK, NEW e \in Sets, NEW checksum \in Checksums,
           NEW status \in {"draft", "approved"}, RegisterSet(e, checksum, status),
           NEW f \in Sets, set[f].status = "approved"
    PROVE  set'[f].status = "approved" /\ set'[f].checksum = set[f].checksum
<1>1. CASE f # e BY <1>1 DEF RegisterSet, LineageTypeOK
<1>2. CASE f = e
  <2>1. set[e] # NoSet BY <1>2 DEF NoSet, None
  <2>. QED BY <1>2, <2>1 DEF RegisterSet, LineageTypeOK
<1>. QED BY <1>1, <1>2

LEMMA RegisterSetInv ==
    ASSUME LineageInv, NEW e \in Sets, NEW checksum \in Checksums,
           NEW status \in {"draft", "approved"}, RegisterSet(e, checksum, status),
           UNCHANGED release
    PROVE  LineageInv'
<1>. USE DEF LineageInv, RegisterSet, release
<1>1. LineageTypeOK'
  <2>1. [status |-> status, checksum |-> checksum]
          \in [status : {None, "draft", "approved"}, checksum : Checksums \cup {None}]
    OBVIOUS
  <2>. QED BY <2>1 DEF LineageTypeOK
<1>2. EvaluationsAreApproved'
  <2> SUFFICES ASSUME NEW x \in Evaluations, evaluation[x].model # None
               PROVE  /\ evaluation[x].set \in Sets
                      /\ set'[evaluation[x].set].status = "approved"
                      /\ set'[evaluation[x].set].checksum = evaluation[x].checksum
    BY DEF EvaluationsAreApproved
  <2>1. /\ evaluation[x].set \in Sets
        /\ set[evaluation[x].set].status = "approved"
        /\ set[evaluation[x].set].checksum = evaluation[x].checksum
    BY DEF EvaluationsAreApproved
  <2>. QED BY <2>1, ApprovedStay
<1>3. DecisionsAreSound'
  <2>1. \A d \in decisions : d.set \in Sets BY DEF LineageTypeOK, Decisions
  <2>. QED BY <2>1, ApprovedStay DEF DecisionsAreSound
<1>. QED
  BY <1>1, <1>2, <1>3 DEF ModelsAreTrained, CallsAreSound, ActiveIsPassed, ProductionIsActive

LEMMA RegisterCandidateInv ==
    ASSUME LineageInv, NEW m \in Models, NEW v \in Versions, RegisterCandidate(m, v),
           UNCHANGED release
    PROVE  LineageInv'
<1>. USE DEF LineageInv, RegisterCandidate, release
<1>1. LineageTypeOK' BY DEF LineageTypeOK, Stages
<1>2. /\ model'[m] = "candidate" /\ trainedOn'[m] = v
      /\ \A q \in Models : q # m => model'[q] = model[q] /\ trainedOn'[q] = trainedOn[q]
  BY DEF LineageTypeOK
<1>3. ModelsAreTrained' BY <1>2 DEF ModelsAreTrained
<1>4. CallsAreSound'
  <2>1. \A c \in calls : c.model \in Models BY DEF LineageTypeOK, Calls
  <2>. QED BY <1>2, <2>1 DEF CallsAreSound, None
<1>5. ProductionIsActive' BY <1>2 DEF ProductionIsActive
<1>. QED BY <1>1, <1>3, <1>4, <1>5 DEF EvaluationsAreApproved, DecisionsAreSound, ActiveIsPassed

LEMMA EvaluateReadInv ==
    ASSUME LineageInv, NEW x \in Evaluations, NEW m \in Models, NEW e \in Sets,
           NEW checksum \in Checksums, NEW outcome \in Outcomes,
           EvaluateRead(x, m, e, checksum, outcome), UNCHANGED release
    PROVE  LineageInv'
<1>. USE DEF LineageInv, release
<1>. DEFINE d == [run |-> x, model |-> m, set |-> e, checksum |-> checksum,
                  outcome |-> outcome, stage |-> model[m]]
<1>1. /\ decisions' = decisions \cup {d}
      /\ set[e].status = "approved" /\ set[e].checksum = checksum
      /\ UNCHANGED <<set, model, trainedOn, evaluation, deployment, calls>>
  BY DEF EvaluateRead
<1>2. d \in Decisions BY DEF Decisions, LineageTypeOK
<1>3. LineageTypeOK' BY <1>1, <1>2 DEF LineageTypeOK
<1>4. DecisionsAreSound' BY <1>1 DEF DecisionsAreSound, EvaluateRead
<1>. QED
  BY <1>1, <1>3, <1>4 DEF ModelsAreTrained, EvaluationsAreApproved, CallsAreSound, ActiveIsPassed,
     ProductionIsActive

LEMMA EvaluateCommitInv ==
    ASSUME LineageInv, NEW d \in decisions, EvaluateCommit(d), UNCHANGED release
    PROVE  LineageInv'
<1>. USE DEF LineageInv, release
<1>. DEFINE new == [model |-> d.model, set |-> d.set, checksum |-> d.checksum,
                    outcome |-> d.outcome]
            stage == StageAfter(d.stage, d.outcome)
<1>0. /\ d.run \in Evaluations /\ d.model \in Models /\ d.set \in Sets
      /\ d.checksum \in Checksums /\ d.outcome \in Outcomes
  BY DEF LineageTypeOK, Decisions
<1>1. /\ evaluation'[d.run] = new
      /\ \A y \in Evaluations : y # d.run => evaluation'[y] = evaluation[y]
      /\ evaluation[d.run].model = None /\ decisions' = decisions \ {d}
      /\ UNCHANGED <<set, trainedOn, deployment, calls>>
  BY <1>0 DEF EvaluateCommit, LineageTypeOK, NoEvaluation
<1>2. /\ \A q \in Models : model[q] # None => model'[q] # None
      /\ \A q \in Models : model'[q] # None => model[q] # None \/ q = d.model
      /\ \A q \in Models : model'[q] = "production" => model[q] = "production"
      /\ model' \in [Models -> Stages]
  <2>1. stage = d.stage \/ stage \in {"candidate", "rejected"}
    BY DEF StageAfter
  <2>2. model' = [model EXCEPT ![d.model] = Written(model[d.model], d.stage, stage)]
    BY DEF EvaluateCommit
  <2>3. Written(model[d.model], d.stage, stage) \in {model[d.model], "candidate", "rejected"}
    BY <2>1 DEF Written
  <2>. HIDE DEF stage
  <2>. QED BY <1>0, <2>2, <2>3 DEF LineageTypeOK, Stages, None
<1>3. LineageTypeOK'
  <2>1. evaluation' \in [Evaluations ->
          [model : Models \cup {None}, set : Sets \cup {None},
           checksum : Checksums \cup {None}, outcome : Outcomes \cup {None}]]
    <3>1. new \in [model : Models \cup {None}, set : Sets \cup {None},
                   checksum : Checksums \cup {None}, outcome : Outcomes \cup {None}]
      BY <1>0
    <3>. QED BY <3>1 DEF EvaluateCommit, LineageTypeOK
  <2>. QED BY <1>1, <1>2, <2>1 DEF LineageTypeOK
<1>4. ModelsAreTrained'
  <2>1. model[d.model] # None BY DEF DecisionsAreSound
  <2>. QED BY <1>1, <1>2, <2>1 DEF ModelsAreTrained
<1>5. EvaluationsAreApproved' BY <1>0, <1>1 DEF EvaluationsAreApproved, DecisionsAreSound
<1>6. CallsAreSound'
  <2>1. \A c \in calls : c.model \in Models /\ c.evaluation \in Evaluations
    BY DEF LineageTypeOK, Calls
  <2>2. \A c \in calls : c.evaluation # d.run BY <1>1, <2>1 DEF CallsAreSound, None
  <2>. QED BY <1>1, <1>2, <2>1, <2>2 DEF CallsAreSound
<1>7. ActiveIsPassed'
  <2>1. \A g \in Deployments : deployment[g].status = "active" => deployment[g].evaluation # d.run
    BY <1>1 DEF ActiveIsPassed
  <2>. QED BY <1>1, <2>1 DEF ActiveIsPassed
<1>8. ProductionIsActive' BY <1>1, <1>2 DEF ProductionIsActive
<1>9. DecisionsAreSound' BY <1>1, <1>2 DEF DecisionsAreSound, LineageTypeOK, Decisions
<1>. QED BY <1>3, <1>4, <1>5, <1>6, <1>7, <1>8, <1>9

LEMMA DeployReadInv ==
    ASSUME LineageInv, NEW g \in Deployments, NEW m \in Models, NEW x \in Evaluations,
           NEW status \in Statuses, DeployRead(g, m, x, status), UNCHANGED release
    PROVE  LineageInv'
<1>. USE DEF LineageInv, release
<1>1. PICK q \in (Models \ {m}) \cup {None} :
        /\ q \in Models => model[q] = "production"
        /\ calls' = calls \cup {[run |-> g, model |-> m, evaluation |-> x, status |-> status,
                                 stage |-> model[m], previous |-> q]}
  BY DEF DeployRead
<1>. DEFINE c == [run |-> g, model |-> m, evaluation |-> x, status |-> status,
                  stage |-> model[m], previous |-> q]
<1>2. c \in Calls /\ c.previous # c.model /\ (c.previous \in Models => model[c.previous] # None)
  BY <1>1 DEF Calls, None, LineageTypeOK
<1>3. /\ model[m] # None /\ evaluation[x].model = m
      /\ status = "active" => evaluation[x].outcome = "passed"
      /\ UNCHANGED <<set, model, trainedOn, evaluation, deployment, decisions>>
  BY DEF DeployRead
<1>4. LineageTypeOK' BY <1>1, <1>2, <1>3 DEF LineageTypeOK
<1>5. CallsAreSound' BY <1>1, <1>2, <1>3 DEF CallsAreSound
<1>. QED
  BY <1>3, <1>4, <1>5 DEF ModelsAreTrained, EvaluationsAreApproved, DecisionsAreSound,
     ActiveIsPassed, ProductionIsActive

LEMMA DeployCommitInv ==
    ASSUME LineageInv, NEW c \in calls, DeployCommit(c), UNCHANGED release
    PROVE  LineageInv'
<1>. USE DEF LineageInv, release
<1>. DEFINE Records == [model : Models \cup {None}, evaluation : Evaluations \cup {None},
                        status : Statuses \cup {"retired", None}]
<1>1. /\ c.run \in Deployments /\ c.model \in Models /\ c.evaluation \in Evaluations
      /\ c.status \in Statuses /\ c.previous \in Models \cup {None} /\ c.previous # c.model
      /\ model[c.model] # None /\ evaluation[c.evaluation].model = c.model
      /\ c.status = "active" => evaluation[c.evaluation].outcome = "passed"
      /\ deployment[c.run].status = None
  BY DEF LineageTypeOK, Calls, CallsAreSound, DeployCommit, NoDeployment
<1>2. calls' = calls \ {c} /\ UNCHANGED <<set, trainedOn, evaluation, decisions>>
  BY DEF DeployCommit
<1>3. Record(c) \in Records /\ Record(c).status = c.status /\ Record(c).model = c.model
      /\ Record(c).evaluation = c.evaluation
  BY <1>1 DEF Record
<1>4. \A g \in Deployments : deployment[g] \in Records /\ [deployment[g] EXCEPT !.status = "retired"] \in Records
  BY DEF LineageTypeOK
<1>5. /\ deployment' \in [Deployments -> Records] /\ deployment'[c.run] = Record(c)
      /\ \A g \in Deployments : g # c.run =>
           \/ deployment'[g] = deployment[g]
           \/ deployment'[g].status = "retired" /\ deployment[g].status # None
  <2>1. CASE c.status = "active"
    <3>1. deployment' = [g \in Deployments |->
                   IF g = c.run THEN Record(c)
                   ELSE IF deployment[g].model = c.previous /\ deployment[g].status = "active"
                     THEN [deployment[g] EXCEPT !.status = "retired"]
                   ELSE deployment[g]]
      BY <2>1 DEF DeployCommit
    <3>2. deployment' \in [Deployments -> Records] BY <1>3, <1>4, <3>1
    <3>3. \A g \in Deployments : [deployment[g] EXCEPT !.status = "retired"].status = "retired"
      BY <1>4
    <3>. QED BY <1>1, <3>1, <3>2, <3>3 DEF None
  <2>2. CASE c.status # "active"
    BY <1>1, <1>3, <2>2 DEF DeployCommit, LineageTypeOK
  <2>. QED BY <2>1, <2>2
<1>6. /\ model' \in [Models -> Stages]
      /\ \A m \in Models : model[m] # None <=> model'[m] # None
  <2>1. CASE c.status = "active"
    <3>1. model' = [m \in Models |->
                   IF m = c.model THEN Written(model[m], c.stage, "production")
                   ELSE IF m = c.previous THEN "retired" ELSE model[m]]
      BY <2>1 DEF DeployCommit
    <3>2. c.previous \in Models => model[c.previous] # None
      BY DEF CallsAreSound
    <3>. QED BY <1>1, <3>1, <3>2 DEF LineageTypeOK, Stages, None, Written
  <2>2. CASE c.status # "active" BY <2>2 DEF DeployCommit, LineageTypeOK
  <2>. QED BY <2>1, <2>2
<1>7. LineageTypeOK' BY <1>2, <1>5, <1>6 DEF LineageTypeOK
<1>8. ModelsAreTrained' BY <1>2, <1>6 DEF ModelsAreTrained
<1>9. CallsAreSound' /\ DecisionsAreSound'
  <2>1. /\ \A d \in calls : d.model \in Models
        /\ \A d \in decisions : d.model \in Models
    BY DEF LineageTypeOK, Calls, Decisions
  <2>. QED BY <1>2, <1>6, <2>1 DEF CallsAreSound, DecisionsAreSound
<1>10. ActiveIsPassed'
  <2>1. ASSUME NEW g \in Deployments, g # c.run, deployment'[g].status = "active"
        PROVE  deployment'[g] = deployment[g]
    BY <1>5, <2>1
  <2>2. evaluation' = evaluation BY <1>2
  <2>. QED BY <1>1, <1>3, <1>5, <2>1, <2>2 DEF ActiveIsPassed
<1>11. ProductionIsActive'
  <2>1. CASE c.status = "active"
    <3>1. /\ deployment' = [g \in Deployments |->
                   IF g = c.run THEN Record(c)
                   ELSE IF deployment[g].model = c.previous /\ deployment[g].status = "active"
                     THEN [deployment[g] EXCEPT !.status = "retired"]
                   ELSE deployment[g]]
          /\ model' = [m \in Models |->
                   IF m = c.model THEN Written(model[m], c.stage, "production")
                   ELSE IF m = c.previous THEN "retired" ELSE model[m]]
      BY <2>1 DEF DeployCommit
    <3>3. ASSUME NEW m \in Models, model'[m] = "production"
          PROVE  \E g \in Deployments : deployment'[g].status = "active" /\ deployment'[g].model = m
      <4>1. CASE m = c.model BY <1>1, <1>3, <1>5, <2>1, <4>1
      <4>2. CASE m # c.model
        <5>1. m # c.previous /\ model[m] = "production" BY <3>1, <3>3, <4>2
        <5>2. PICK g \in Deployments : deployment[g].status = "active" /\ deployment[g].model = m
          BY <5>1 DEF ProductionIsActive
        <5>3. g # c.run BY <1>1, <5>2 DEF None
        <5>. QED BY <3>1, <5>1, <5>2, <5>3
      <4>. QED BY <4>1, <4>2
    <3>. QED BY <3>3 DEF ProductionIsActive
  <2>2. CASE c.status # "active"
    <3>1. deployment' = [deployment EXCEPT ![c.run] = Record(c)] /\ model' = model
      BY <2>2 DEF DeployCommit
    <3>2. \A g \in Deployments : g # c.run => deployment'[g] = deployment[g]
      BY <3>1 DEF LineageTypeOK
    <3>3. deployment'[c.run].status # "active" /\ deployment[c.run].status # "active"
      BY <1>1, <1>3, <1>5, <2>2 DEF None
    <3>. QED BY <1>1, <3>1, <3>2, <3>3 DEF ProductionIsActive
  <2>. QED BY <2>1, <2>2
<1>. QED
  BY <1>2, <1>7, <1>8, <1>9, <1>10, <1>11 DEF EvaluationsAreApproved

LEMMA LineageNextInv ==
    ASSUME ReleaseInv, LineageInv, [Next]_<<release, lineage>>
    PROVE  LineageInv'
<1>1. ASSUME NEW e \in Sets, NEW checksum \in Checksums, NEW status \in {"draft", "approved"},
             RegisterSet(e, checksum, status), UNCHANGED release
      PROVE  LineageInv'
  BY <1>1, RegisterSetInv
<1>2. ASSUME NEW m \in Models, NEW v \in Versions, RegisterCandidate(m, v), UNCHANGED release
      PROVE  LineageInv'
  BY <1>2, RegisterCandidateInv
<1>3. ASSUME NEW x \in Evaluations, NEW m \in Models, NEW e \in Sets, NEW checksum \in Checksums,
             NEW outcome \in Outcomes, EvaluateRead(x, m, e, checksum, outcome),
             UNCHANGED release
      PROVE  LineageInv'
  BY <1>3, EvaluateReadInv
<1>8. ASSUME NEW d \in decisions, EvaluateCommit(d), UNCHANGED release PROVE LineageInv'
  BY <1>8, EvaluateCommitInv
<1>9. ASSUME NEW d \in decisions, EvaluateAbort(d), UNCHANGED release PROVE LineageInv'
  BY <1>9 DEF EvaluateAbort, release, LineageInv, LineageTypeOK, ModelsAreTrained,
     EvaluationsAreApproved, DecisionsAreSound, CallsAreSound, ActiveIsPassed, ProductionIsActive
<1>4. ASSUME NEW g \in Deployments, NEW m \in Models, NEW x \in Evaluations,
             NEW status \in Statuses, DeployRead(g, m, x, status), UNCHANGED release
      PROVE  LineageInv'
  BY <1>4, DeployReadInv
<1>5. ASSUME NEW c \in calls, DeployCommit(c), UNCHANGED release PROVE LineageInv'
  BY <1>5, DeployCommitInv
<1>6. ASSUME NEW c \in calls, DeployAbort(c), UNCHANGED release PROVE LineageInv'
  BY <1>6 DEF DeployAbort, release, LineageInv, LineageTypeOK, ModelsAreTrained,
     EvaluationsAreApproved, DecisionsAreSound, CallsAreSound, ActiveIsPassed, ProductionIsActive
<1>7. CASE [ReleaseNext]_release /\ UNCHANGED lineage
  <2>1. ModelsAreTrained' BY <1>7, DatasetsStay DEF LineageInv, ModelsAreTrained, lineage
  <2>. QED
    BY <1>7, <2>1 DEF lineage, LineageInv, LineageTypeOK, EvaluationsAreApproved,
       DecisionsAreSound, CallsAreSound, ActiveIsPassed, ProductionIsActive
<1>. QED BY <1>1, <1>2, <1>3, <1>4, <1>5, <1>6, <1>7, <1>8, <1>9 DEF Next, LineageNext

-----------------------------------------------------------------------------
LEMMA InvariantHolds == Spec => [](ReleaseInv /\ LineageInv)
<1>1. LineageInit => ReleaseInv /\ LineageInv
  BY ReleaseInitInv, LineageInitInv DEF LineageInit
<1>2. ReleaseInv /\ LineageInv /\ [Next]_<<release, lineage>> => (ReleaseInv /\ LineageInv)'
  BY ReleaseNextInv, LineageNextInv DEF Next
<1>. QED BY <1>1, <1>2, PTL DEF Spec

\* The variables keep their types.
THEOREM TypeCorrect == Spec => [](ReleaseTypeOK /\ LineageTypeOK)
BY InvariantHolds, PTL DEF ReleaseInv, LineageInv

\* A model in production passed an evaluation of its own, on a set that is
\* approved with the content it had then, and was trained on a dataset that is
\* there: however many callbacks are handled at once, and in whichever order.
THEOREM EvaluatedInProduction == Spec => []ProductionIsEvaluated
<1>1. LineageInv => ProductionIsEvaluated
  <2> SUFFICES ASSUME LineageInv, NEW m \in Models, model[m] = "production"
               PROVE  /\ dataset[trainedOn[m]].status # "absent"
                      /\ \E g \in Deployments :
                           LET x == deployment[g].evaluation IN
                             /\ deployment[g].model = m /\ deployment[g].status = "active"
                             /\ evaluation[x].model = m /\ evaluation[x].outcome = "passed"
                             /\ set[evaluation[x].set] =
                                  [status |-> "approved", checksum |-> evaluation[x].checksum]
    BY DEF ProductionIsEvaluated
  <2>1. dataset[trainedOn[m]].status # "absent" BY DEF LineageInv, ModelsAreTrained, None
  <2>2. PICK g \in Deployments : deployment[g].status = "active" /\ deployment[g].model = m
    BY DEF LineageInv, ProductionIsActive
  <2>. DEFINE x == deployment[g].evaluation
  <2>3. x \in Evaluations /\ evaluation[x].model = m /\ evaluation[x].outcome = "passed"
    BY <2>2 DEF LineageInv, ActiveIsPassed
  <2>4. /\ evaluation[x].set \in Sets /\ set[evaluation[x].set].status = "approved"
        /\ set[evaluation[x].set].checksum = evaluation[x].checksum
    BY <2>3 DEF LineageInv, EvaluationsAreApproved
  <2>5. set[evaluation[x].set] = [status |-> "approved", checksum |-> evaluation[x].checksum]
    BY <2>4 DEF LineageInv, LineageTypeOK
  <2>. QED BY <2>1, <2>2, <2>3, <2>5
<1>. QED BY <1>1, InvariantHolds, PTL

\* What GitHub is asked to train on is a frozen dataset, pushed to Kaggle with
\* the very labels that the request names.
THEOREM Traceable == Spec => []TrainingIsTraceable
BY InvariantHolds, PTL DEF ReleaseInv

\* No message of a dataset is in two of its splits, and 80/10/10 of every
\* label, rounded up or down, is what its three splits get, for any number of
\* messages that have it.
THEOREM FairSplits == Spec => []SplitsAreFair
<1>1. ReleaseInv => SplitsAreFair BY Fair DEF ReleaseInv, SplitsAreFair
<1>. QED BY <1>1, InvariantHolds, PTL
=============================================================================
