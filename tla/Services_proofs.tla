---------------------------- MODULE Services_proofs ----------------------------
(*****************************************************************************)
(* For any number of players, alerts, missions, jobs, newcomers, calls and   *)
(* names: what the parts that serve the players and the operators keep true. *)
(* Each part is proved alone, for its own specification.                     *)
(*****************************************************************************)
EXTENDS MCServices, Inductions, FiniteSetTheorems, FunctionTheorems

------------------------------------------------------------------------------
(* Sequences: one element taken out, the last place where something holds, and *)
(* the places of what is of one kind.                                          *)

LEMMA OneTakenOut ==
    ASSUME NEW S, NEW s \in Seq(S), NEW i \in 1..Len(s)
    PROVE  /\ RemoveAt(s, i) \in Seq(S) /\ Len(RemoveAt(s, i)) = Len(s) - 1
           /\ \A j \in 1..(Len(s) - 1) : RemoveAt(s, i)[j] = IF j < i THEN s[j] ELSE s[j + 1]
<1>. DEFINE r == RemoveAt(s, i)
            a == SubSeq(s, 1, i - 1)
            b == SubSeq(s, i + 1, Len(s))
<1>1. Len(s) \in Nat /\ i \in Int /\ 1 <= i /\ i <= Len(s) /\ \A j \in 1..Len(s) : s[j] \in S
    OBVIOUS
<1>2. a \in Seq(S) /\ Len(a) = i - 1 /\ \A j \in 1..(i - 1) : a[j] = s[j]
    <2>1. 1 \in Int /\ i - 1 \in Int /\ \A j \in 1..(i - 1) : s[j] \in S
        BY <1>1
    <2>2. /\ a \in Seq(S) /\ Len(a) = IF 1 <= i - 1 THEN (i - 1) - 1 + 1 ELSE 0
          /\ \A j \in 1..((i - 1) - 1 + 1) : a[j] = s[1 + j - 1]
        BY <2>1, SubSeqProperties
    <2>. HIDE DEF a
    <2>. QED BY <1>1, <2>2
<1>3. b \in Seq(S) /\ Len(b) = Len(s) - i /\ \A j \in 1..(Len(s) - i) : b[j] = s[i + j]
    <2>1. i + 1 \in Int /\ Len(s) \in Int /\ \A j \in (i + 1)..Len(s) : s[j] \in S
        BY <1>1
    <2>2. /\ b \in Seq(S) /\ Len(b) = IF i + 1 <= Len(s) THEN Len(s) - (i + 1) + 1 ELSE 0
          /\ \A j \in 1..(Len(s) - (i + 1) + 1) : b[j] = s[(i + 1) + j - 1]
        BY <2>1, SubSeqProperties
    <2>. HIDE DEF b
    <2>3. Len(b) = Len(s) - i /\ Len(s) - (i + 1) + 1 = Len(s) - i
        BY <1>1, <2>2
    <2>4. ASSUME NEW j \in 1..(Len(s) - i) PROVE b[j] = s[i + j]
        <3>1. j \in 1..(Len(s) - (i + 1) + 1) /\ (i + 1) + j - 1 = i + j
            BY <1>1, <2>3
        <3>. QED BY <2>2, <3>1
    <2>. QED BY <2>2, <2>3, <2>4
<1>4. r = a \o b
    BY Zenon DEF RemoveAt
<1>. HIDE DEF a, b, r
<1>5. r \in Seq(S) /\ Len(r) = Len(s) - 1
    <2>1. r \in Seq(S) /\ Len(r) = Len(a) + Len(b)
        BY <1>2, <1>3, <1>4, ConcatProperties
    <2>. QED BY <1>1, <1>2, <1>3, <2>1
<1>6. ASSUME NEW j \in 1..(Len(s) - 1) PROVE r[j] = IF j < i THEN s[j] ELSE s[j + 1]
    <2>1. r[j] = IF j <= Len(a) THEN a[j] ELSE b[j - Len(a)]
        <3>1. j \in 1..(Len(a) + Len(b))
            BY <1>1, <1>2, <1>3
        <3>. QED BY <3>1, <1>2, <1>3, <1>4, ConcatProperties
    <2>2. CASE j < i
        <3>1. j \in 1..(i - 1) /\ j <= Len(a)
            BY <1>1, <1>2, <2>2
        <3>. QED BY <2>1, <2>2, <3>1, <1>2
    <2>3. CASE ~ (j < i)
        <3>1. ~ (j <= Len(a)) /\ j - Len(a) \in 1..(Len(s) - i) /\ i + (j - Len(a)) = j + 1
            BY <1>1, <1>2, <2>3
        <3>. QED BY <2>1, <2>3, <3>1, <1>3
    <2>. QED BY <2>2, <2>3
<1>. QED BY <1>5, <1>6 DEF r

LEMMA LastPlace ==
    ASSUME NEW n \in Nat, NEW I \in SUBSET (1..n), I # {}
    PROVE  Max(I) \in I /\ \A i \in I : i <= Max(I)
<1>. DEFINE T == {n - i : i \in I}
<1>1. T \subseteq Nat /\ T # {}
    <2>1. PICK i \in I : TRUE
        OBVIOUS
    <2>2. n - i \in T
        BY <2>1
    <2>. QED BY <2>2
<1>2. PICK t \in T : \A u \in T : ~ (<<u, t>> \in NatBelow)
    BY <1>1, NatBelowWellFounded, WFMin
<1>3. PICK m \in I : t = n - m
    BY <1>2
<1>4. ASSUME NEW i \in I PROVE m >= i
    <2>1. n - i \in T /\ n - i \in Nat /\ t \in Nat
        BY <1>1, <1>2
    <2>2. ~ (n - i < t)
        BY <1>2, <2>1 DEF NatBelow
    <2>. QED BY <1>3, <2>2
<1>5. Max(I) \in I /\ \A i \in I : Max(I) >= i
    BY <1>3, <1>4 DEF Max
<1>. QED BY <1>5

PlacesOf(s, o) == {i \in 1..Len(s) : s[i].of = o}
Previewed(s, o) == Cardinality(PlacesOf(s, o))

LEMMA PlacesAreFinite ==
    ASSUME NEW S, NEW s \in Seq(S), NEW o
    PROVE  /\ IsFiniteSet(PlacesOf(s, o)) /\ Previewed(s, o) \in Nat
           /\ Previewed(s, o) = 0 <=> PlacesOf(s, o) = {}
<1>1. PlacesOf(s, o) \subseteq 1..Len(s) /\ IsFiniteSet(1..Len(s))
    BY FS_Interval DEF PlacesOf
<1>2. IsFiniteSet(PlacesOf(s, o))
    BY <1>1, FS_Subset
<1>. QED BY <1>2, FS_CardinalityType, FS_EmptySet DEF Previewed

\* One more at the end.
LEMMA OneMoreCounted ==
    ASSUME NEW S, NEW s \in Seq(S), NEW e \in S, NEW o
    PROVE  Previewed(Append(s, e), o) = IF e.of = o THEN Previewed(s, o) + 1 ELSE Previewed(s, o)
<1>. DEFINE t == Append(s, e)
<1>1. /\ Len(t) = Len(s) + 1 /\ Len(s) \in Nat /\ t[Len(s) + 1] = e
      /\ \A i \in 1..Len(s) : t[i] = s[i]
    OBVIOUS
<1>. HIDE DEF t
<1>2. PlacesOf(t, o) = IF e.of = o THEN PlacesOf(s, o) \cup {Len(s) + 1} ELSE PlacesOf(s, o)
    BY <1>1 DEF PlacesOf
<1>3. Len(s) + 1 \notin PlacesOf(s, o)
    BY <1>1 DEF PlacesOf
<1>4. IsFiniteSet(PlacesOf(s, o))
    BY PlacesAreFinite
<1>5. Previewed(t, o) = IF e.of = o THEN Previewed(s, o) + 1 ELSE Previewed(s, o)
    BY <1>2, <1>3, <1>4, FS_AddElement DEF Previewed
<1>. QED BY <1>5 DEF t

\* One less where one is taken out.
LEMMA OneLessCounted ==
    ASSUME NEW S, NEW s \in Seq(S), NEW i \in 1..Len(s), NEW o
    PROVE  Previewed(RemoveAt(s, i), o) = IF s[i].of = o THEN Previewed(s, o) - 1 ELSE Previewed(s, o)
<1>. DEFINE r == RemoveAt(s, i)
            P == PlacesOf(r, o)
            Q == PlacesOf(s, o) \ {i}
            f == [j \in P |-> IF j < i THEN j ELSE j + 1]
<1>1. /\ r \in Seq(S) /\ Len(r) = Len(s) - 1 /\ Len(s) \in Nat /\ i \in Int
      /\ \A j \in 1..(Len(s) - 1) : r[j] = IF j < i THEN s[j] ELSE s[j + 1]
    <2>1. Len(s) \in Nat /\ i \in Int
        OBVIOUS
    <2>2. /\ r \in Seq(S) /\ Len(r) = Len(s) - 1
          /\ \A j \in 1..(Len(s) - 1) : r[j] = IF j < i THEN s[j] ELSE s[j + 1]
        BY OneTakenOut, Zenon
    <2>. QED BY <2>1, <2>2
<1>. HIDE DEF r
<1>2. f \in [P -> Q] /\ \A j, k \in P : f[j] = f[k] => j = k
    <2>1. \A j \in P : j \in 1..(Len(s) - 1) /\ r[j].of = o
        BY <1>1 DEF PlacesOf
    <2>2. \A j \in P : (IF j < i THEN j ELSE j + 1) \in Q
        BY <1>1, <2>1 DEF PlacesOf
    <2>. QED BY <1>1, <2>1, <2>2
<1>3. \A q \in Q : \E j \in P : f[j] = q
    <2>. SUFFICES ASSUME NEW q \in Q PROVE \E j \in P : f[j] = q
        OBVIOUS
    <2>1. q \in 1..Len(s) /\ q # i /\ s[q].of = o
        BY DEF PlacesOf
    <2>2. CASE q < i
        <3>1. q \in P
            BY <1>1, <2>1, <2>2 DEF PlacesOf
        <3>. QED BY <2>2, <3>1
    <2>3. CASE q > i
        <3>1. q - 1 \in P
            BY <1>1, <2>1, <2>3 DEF PlacesOf
        <3>2. f[q - 1] = q
            BY <1>1, <2>1, <2>3, <3>1
        <3>. QED BY <3>1, <3>2
    <2>. QED BY <1>1, <2>1, <2>2, <2>3
<1>4. f \in Bijection(P, Q)
    BY <1>2, <1>3, Fun_IsBij
<1>5. IsFiniteSet(P) /\ IsFiniteSet(PlacesOf(s, o))
    BY <1>1, PlacesAreFinite
<1>6. Cardinality(Q) = Cardinality(P)
    BY <1>4, <1>5, FS_Bijection DEF ExistsBijection
<1>7. Cardinality(Q) = IF s[i].of = o THEN Previewed(s, o) - 1 ELSE Previewed(s, o)
    <2>1. CASE s[i].of = o
        <3>1. i \in PlacesOf(s, o)
            BY <2>1 DEF PlacesOf
        <3>. QED BY <1>5, <2>1, <3>1, FS_RemoveElement DEF Previewed
    <2>2. CASE s[i].of # o
        <3>1. PlacesOf(s, o) \ {i} = PlacesOf(s, o)
            BY <2>2 DEF PlacesOf
        <3>. QED BY <2>2, <3>1 DEF Previewed
    <2>. QED BY <2>1, <2>2
<1>. QED BY <1>6, <1>7 DEF Previewed, r

------------------------------------------------------------------------------
(* Numbers: the higher of two, and division that rounds down. *)

LEMMA HigherOfTwo ==
    ASSUME NEW x \in Int, NEW y \in Int
    PROVE  Max({x, y}) = IF x >= y THEN x ELSE y
<1>. DEFINE S == {x, y}
<1>1. PICK m \in S : \A z \in S : m >= z
    <2>1. CASE x >= y
        BY <2>1
    <2>2. CASE y >= x
        BY <2>2
    <2>. QED BY <2>1, <2>2
<1>2. Max(S) \in S /\ \A z \in S : Max(S) >= z
    BY <1>1 DEF Max
<1>. QED BY <1>2

LEMMA DivIs ==
    ASSUME NEW a \in Int, NEW m \in Nat \ {0}
    PROVE  /\ a \div m \in Int
           /\ (a \div m) * m <= a /\ a < (a \div m) * m + m
OBVIOUS

LEMMA PartOf ==
    ASSUME NEW a \in Nat, NEW m \in Nat \ {0}, a <= 100 * m
    PROVE  a \div m \in 0..100
<1>. DEFINE q == a \div m
<1>1. q \in Int /\ q * m <= a /\ a < q * m + m
    BY DivIs
<1>. HIDE DEF q
<1>2. q >= 0
    <2>1. ASSUME q <= -1 PROVE FALSE
        <3>1. (q + 1) * m <= 0
            BY <1>1, <2>1
        <3>2. (q + 1) * m = q * m + m
            BY <1>1
        <3>. QED BY <1>1, <3>1, <3>2
    <2>. QED BY <1>1, <2>1
<1>3. q <= 100
    <2>1. ASSUME q >= 101 PROVE FALSE
        <3>1. (q - 101) * m >= 0
            BY <1>1, <2>1
        <3>2. (q - 101) * m = q * m - 101 * m
            BY <1>1
        <3>. QED BY <1>1, <3>1, <3>2
    <2>. QED BY <1>1, <2>1
<1>. QED BY <1>1, <1>2, <1>3 DEF q

LEMMA StepTimes ==
    ASSUME NEW P \in Nat, NEW s \in Int, -2500 <= s, s <= 10000,
           NEW d \in Int, d = (4 * P * s + 50000000) \div 100000000
    PROVE  d * 10000 <= 4 * P + 5000 /\ (0 - d) * 10000 <= P + 5000
<1>1. P * (10000 - s) >= 0 /\ P * (s + 2500) >= 0
    OBVIOUS
<1>2. P * (10000 - s) = 10000 * P - P * s /\ P * (s + 2500) = P * s + 2500 * P
    OBVIOUS
<1>3. PICK w \in Int : w = P * s
    OBVIOUS
<1>4. 4 * P * s + 50000000 = 4 * w + 50000000
    BY <1>3
<1>5. d = (4 * w + 50000000) \div 100000000
    BY <1>4
<1>6. d * 100000000 <= 4 * w + 50000000 /\ 4 * w + 50000000 < d * 100000000 + 100000000
    BY <1>3, <1>5
<1>7. w <= 10000 * P /\ 0 - w <= 2500 * P
    BY <1>1, <1>2, <1>3
<1>. QED BY <1>3, <1>6, <1>7

------------------------------------------------------------------------------
(* The market. While a trade holds the nation's row its preview stays, near    *)
(* the rate; and what was bought from abroad is a part of what was bought,     *)
(* unless the key expired within a purchase.                                   *)

PreviewRow == [of : Order, rate : RateMin..RateMax]

MarketTypes ==
    /\ rate \in RateMin..RateMax
    /\ pressure \in [bought : 0..MaxVolume, sold : 0..MaxVolume, foreign : 0..MaxVolume]
    /\ previews \in Seq(PreviewRow)
    /\ trade \in Order \cup {NoTrade}
    /\ engine = Idle \/ engine \in [phase : {"read"}, rate : RateMin..RateMax]
    /\ left \in [Order -> Int]
    /\ overtaken \in BOOLEAN /\ torn \in BOOLEAN

PreviewsCounted == \A o \in Order : left[o] = Previewed(previews, o)

\* The latest preview of the trade that holds the row.
TradeHasPreview == trade # NoTrade =>
    LatestPreview(trade) > 0 /\ Near(rate, previews[LatestPreview(trade)].rate)

EngineReadRate == engine # Idle => overtaken \/ engine.rate = rate

ForeignWithinBought ==
    torn \/ /\ pressure.foreign <= pressure.bought
            /\ trade # NoTrade /\ Foreign(trade) =>
                   Counted(pressure.foreign, trade) <= pressure.bought

MarketInv == MarketTypes /\ PreviewsCounted /\ TradeHasPreview /\ EngineReadRate /\ ForeignWithinBought

LatestIn(s, o) == SelectLastInSeq(s, LAMBDA p : p.of = o)

LEMMA LatestIsIn == \A o : /\ LatestPreview(o) = LatestIn(previews, o)
                           /\ LatestPreview(o)' = LatestIn(previews', o)
BY DEF LatestPreview, LatestIn, SelectLastInSeq

\* The latest preview of a trade is one of it, if there is one.
LEMMA LatestIsOfIt ==
    ASSUME NEW o, NEW s \in Seq(PreviewRow)
    PROVE  /\ LatestIn(s, o) = 0 <=> PlacesOf(s, o) = {}
           /\ LatestIn(s, o) # 0 => /\ LatestIn(s, o) \in PlacesOf(s, o)
                                    /\ \A i \in PlacesOf(s, o) : i <= LatestIn(s, o)
           /\ LatestIn(s, o) \in 0..Len(s)
<1>. DEFINE I == PlacesOf(s, o)
<1>1. Len(s) \in Nat /\ I \in SUBSET (1..Len(s))
    BY DEF PlacesOf
<1>2. LatestIn(s, o) = IF I # {} THEN Max(I) ELSE 0
    BY DEF LatestIn, SelectLastInSeq, PlacesOf
<1>. HIDE DEF I
<1>3. I # {} => Max(I) \in I /\ \A i \in I : i <= Max(I)
    BY <1>1, LastPlace
<1>. QED BY <1>1, <1>2, <1>3 DEF I

\* A new preview is the latest of its trade, and changes none of another.
LEMMA LatestAfter ==
    ASSUME NEW o, NEW s \in Seq(PreviewRow), NEW e \in PreviewRow
    PROVE  LatestIn(Append(s, e), o) = IF e.of = o THEN Len(s) + 1 ELSE LatestIn(s, o)
<1>. DEFINE t == Append(s, e)
            I == PlacesOf(s, o)
            J == PlacesOf(t, o)
            m == LatestIn(s, o)
            n == LatestIn(t, o)
<1>1. /\ t \in Seq(PreviewRow) /\ Len(t) = Len(s) + 1 /\ Len(s) \in Nat /\ t[Len(s) + 1] = e
      /\ \A i \in 1..Len(s) : t[i] = s[i]
    OBVIOUS
<1>. HIDE DEF t
<1>2. J = IF e.of = o THEN I \cup {Len(s) + 1} ELSE I
    BY <1>1 DEF PlacesOf
<1>3. I \subseteq 1..Len(s) /\ J \subseteq 1..(Len(s) + 1)
    BY <1>1 DEF PlacesOf
<1>4. /\ m = 0 <=> I = {}
      /\ m # 0 => m \in I /\ \A i \in I : i <= m
    BY LatestIsOfIt
<1>5. /\ n = 0 <=> J = {}
      /\ n # 0 => n \in J /\ \A i \in J : i <= n
    BY <1>1, LatestIsOfIt
<1>. HIDE DEF I, J, m, n
<1>6. n = IF e.of = o THEN Len(s) + 1 ELSE m
    <2>1. CASE e.of = o
        <3>1. Len(s) + 1 \in J /\ n # 0
            BY <1>2, <1>5, <2>1
        <3>2. n \in 1..(Len(s) + 1) /\ Len(s) + 1 <= n
            BY <1>3, <1>5, <3>1
        <3>. QED BY <1>1, <2>1, <3>2
    <2>2. CASE e.of # o
        <3>1. J = I
            BY <1>2, <2>2
        <3>2. CASE I = {}
            BY <1>4, <1>5, <2>2, <3>1, <3>2
        <3>3. CASE I # {}
            <4>1. m \in I /\ n \in I /\ m <= n /\ n <= m
                BY <1>4, <1>5, <3>1, <3>3
            <4>2. m \in Nat /\ n \in Nat
                BY <1>1, <1>3, <4>1
            <4>. QED BY <2>2, <4>1, <4>2
        <3>. QED BY <3>2, <3>3
    <2>. QED BY <2>1, <2>2
<1>. QED BY <1>6 DEF m, n, t

\* Of two rates the higher one, less the lower.
LEMMA NearIs ==
    ASSUME NEW r \in Nat, NEW p \in Nat
    PROVE  Near(r, p) <=> (r - p) * 100 <= p /\ (p - r) * 100 <= p
<1>1. Max({r - p, p - r}) = IF r - p >= p - r THEN r - p ELSE p - r
    BY HigherOfTwo
<1>. QED BY <1>1 DEF Near

\* A rate that is kept within its limits.
LEMMA ClampedWithin ==
    ASSUME NEW x \in Int, NEW low \in Int, NEW high \in Int, low <= high
    PROVE  Clamp(x, low, high) \in low..high
BY DEF Clamp

\* What is counted is a volume, and counting keeps the order of two.
LEMMA CountedIs ==
    ASSUME NEW o \in Order, NEW v \in 0..MaxVolume, NEW w \in 0..MaxVolume, v <= w
    PROVE  /\ Counted(v, o) \in 0..MaxVolume /\ v <= Counted(w, o)
           /\ Counted(v, o) <= Counted(w, o)
<1>1. o.spend \in Nat /\ MaxVolume \in Nat
    BY MarketAssumption DEF Order
<1>. QED BY <1>1 DEF Counted, Capped

(* At the start nothing was previewed. *)
LEMMA MarketStart == MarketInit => MarketInv
<1>. SUFFICES ASSUME MarketInit PROVE MarketInv
    OBVIOUS
<1>1. previews = <<>> /\ previews \in Seq(PreviewRow) /\ Len(previews) = 0
    BY DEF MarketInit
<1>2. ASSUME NEW o PROVE Previewed(previews, o) = 0
    <2>1. PlacesOf(previews, o) = {}
        BY <1>1 DEF PlacesOf
    <2>. QED BY <1>1, <2>1, PlacesAreFinite
<1>3. NoPressure \in [bought : 0..MaxVolume, sold : 0..MaxVolume, foreign : 0..MaxVolume]
      /\ NoPressure.foreign = 0 /\ NoPressure.bought = 0
    BY MarketAssumption DEF NoPressure
<1>4. MarketTypes
    <2>1. rate \in RateMin..RateMax
        BY MarketAssumption DEF MarketInit
    <2>2. pressure \in [bought : 0..MaxVolume, sold : 0..MaxVolume, foreign : 0..MaxVolume]
        BY <1>3 DEF MarketInit
    <2>3. trade = NoTrade /\ engine = Idle /\ overtaken \in BOOLEAN /\ torn \in BOOLEAN
        BY DEF MarketInit
    <2>4. left \in [Order -> Int]
        BY DEF MarketInit
    <2>. QED BY <1>1, <2>1, <2>2, <2>3, <2>4, Zenon DEF MarketTypes
<1>5. PreviewsCounted
    BY <1>2 DEF MarketInit, PreviewsCounted
<1>6. TradeHasPreview /\ EngineReadRate /\ ForeignWithinBought
    BY <1>3 DEF MarketInit, TradeHasPreview, EngineReadRate, ForeignWithinBought
<1>. QED BY <1>4, <1>5, <1>6 DEF MarketInv

LEMMA RatesAreNumbers == RateMin..RateMax \subseteq Nat /\ RateMin..RateMax \subseteq Int
BY MarketAssumption

(* A preview: one more is counted, and it is at the rate that is in force. *)
LEMMA PreviewStep ==
    ASSUME NEW u, NEW o \in Order, MarketInv, Preview(u, o)
    PROVE  MarketInv'
<1>1. MarketTypes /\ PreviewsCounted /\ TradeHasPreview /\ EngineReadRate /\ ForeignWithinBought
    BY DEF MarketInv
<1>2. PICK e \in PreviewRow : e = [of |-> o, rate |-> rate]
    BY <1>1 DEF MarketTypes, PreviewRow
<1>3. previews \in Seq(PreviewRow) /\ previews' = Append(previews, e) /\ previews' \in Seq(PreviewRow)
    BY <1>1, <1>2 DEF MarketTypes, Preview
<1>4. /\ UNCHANGED <<rate, listed, pressure, trade, engine, overtaken, torn>>
      /\ left' = [left EXCEPT ![o] = @ + 1]
    BY DEF Preview
<1>5. left \in [Order -> Int] /\ left' \in [Order -> Int]
    BY <1>1, <1>4 DEF MarketTypes
<1>6. MarketTypes'
    BY <1>1, <1>3, <1>4, <1>5 DEF MarketTypes
<1>7. PreviewsCounted'
    <2>1. ASSUME NEW x \in Order PROVE left'[x] = Previewed(previews', x)
        <3>1. Previewed(previews', x) = IF e.of = x THEN Previewed(previews, x) + 1
                                                    ELSE Previewed(previews, x)
            BY <1>3, OneMoreCounted
        <3>2. left[x] = Previewed(previews, x) /\ e.of = o
            BY <1>1, <1>2 DEF PreviewsCounted
        <3>3. left'[x] = IF o = x THEN left[x] + 1 ELSE left[x]
            BY <1>4, <1>5
        <3>. QED BY <3>1, <3>2, <3>3
    <2>. QED BY <2>1 DEF PreviewsCounted
<1>8. TradeHasPreview'
    <2>. SUFFICES ASSUME trade' # NoTrade
                  PROVE LatestPreview(trade)' > 0
                        /\ Near(rate', previews'[LatestPreview(trade)'].rate)
        BY DEF TradeHasPreview
    <2>1. PICK t \in Order : t = trade /\ t = trade'
        BY <1>1, <1>4 DEF MarketTypes
    <2>2. LatestPreview(t) = LatestIn(previews, t) /\ LatestPreview(trade)' = LatestIn(previews', t)
        BY <2>1, LatestIsIn DEF LatestPreview, LatestIn, SelectLastInSeq
    <2>3. LatestIn(previews, t) > 0 /\ Near(rate, previews[LatestIn(previews, t)].rate)
        BY <1>1, <1>4, <2>1, <2>2 DEF TradeHasPreview
    <2>4. LatestIn(previews', t) = IF e.of = t THEN Len(previews) + 1 ELSE LatestIn(previews, t)
        BY <1>3, LatestAfter
    <2>5. CASE e.of = t
        <3>1. LatestIn(previews', t) = Len(previews) + 1 /\ previews'[Len(previews) + 1] = e
              /\ Len(previews) + 1 > 0
            BY <1>3, <2>4, <2>5
        <3>2. rate \in Nat /\ rate' = rate /\ e.rate = rate
            BY <1>1, <1>2, <1>4, RatesAreNumbers DEF MarketTypes
        <3>3. Near(rate, rate)
            BY <3>2, NearIs
        <3>. QED BY <2>2, <3>1, <3>2, <3>3
    <2>6. CASE e.of # t
        <3>1. LatestIn(previews', t) = LatestIn(previews, t)
            BY <2>4, <2>6
        <3>2. LatestIn(previews, t) \in 1..Len(previews)
            <4>1. LatestIn(previews, t) \in 0..Len(previews)
                BY <1>3, LatestIsOfIt
            <4>. QED BY <1>3, <2>3, <4>1
        <3>3. previews'[LatestIn(previews, t)] = previews[LatestIn(previews, t)]
            BY <1>3, <3>2
        <3>. QED BY <1>4, <2>2, <2>3, <3>1, <3>3
    <2>. QED BY <2>5, <2>6
<1>9. EngineReadRate' /\ ForeignWithinBought'
    BY <1>1, <1>4 DEF EngineReadRate, ForeignWithinBought, Foreign, Counted, Capped
<1>. QED BY <1>6, <1>7, <1>8, <1>9 DEF MarketInv

LEMMA PreviewStays ==
    ASSUME TradeHasPreview, UNCHANGED <<rate, previews, trade>>, trade \in Order \cup {NoTrade}
    PROVE  TradeHasPreview'
<1>. SUFFICES ASSUME trade' # NoTrade
              PROVE LatestPreview(trade)' > 0
                    /\ Near(rate', previews'[LatestPreview(trade)'].rate)
    BY DEF TradeHasPreview
<1>1. PICK t \in Order : t = trade /\ t = trade'
    OBVIOUS
<1>2. LatestPreview(t) = LatestIn(previews, t) /\ LatestPreview(trade)' = LatestIn(previews', t)
    BY <1>1, LatestIsIn DEF LatestPreview, LatestIn, SelectLastInSeq
<1>. QED BY <1>1, <1>2 DEF TradeHasPreview

(* A confirmed trade: the preview it was found by is near, and what it counts  *)
(* is counted among what was bought before what was bought from abroad.        *)
LEMMA ConfirmStep ==
    ASSUME NEW u, NEW o \in Order, MarketInv, ConfirmTrade(u, o)
    PROVE  MarketInv'
<1>1. MarketTypes /\ PreviewsCounted /\ EngineReadRate /\ ForeignWithinBought
    BY DEF MarketInv
<1>2. /\ UNCHANGED <<rate, listed, dialogue, previews, shown, engine, left, overtaken, torn>>
      /\ trade = NoTrade /\ trade' = o /\ MayExecute(o)
      /\ pressure' = IF o.side = "buy" THEN [pressure EXCEPT !.bought = Counted(@, o)]
                                       ELSE [pressure EXCEPT !.sold = Counted(@, o)]
    BY DEF ConfirmTrade
<1>3. PICK b \in 0..MaxVolume, s \in 0..MaxVolume, f \in 0..MaxVolume :
            pressure = [bought |-> b, sold |-> s, foreign |-> f]
    BY <1>1 DEF MarketTypes
<1>4. Counted(b, o) \in 0..MaxVolume /\ Counted(s, o) \in 0..MaxVolume
    BY CountedIs, MarketAssumption
<1>5. pressure' = IF o.side = "buy" THEN [bought |-> Counted(b, o), sold |-> s, foreign |-> f]
                                    ELSE [bought |-> b, sold |-> Counted(s, o), foreign |-> f]
    BY <1>2, <1>3
<1>6. MarketTypes'
    <2>1. pressure' \in [bought : 0..MaxVolume, sold : 0..MaxVolume, foreign : 0..MaxVolume]
        BY <1>4, <1>5
    <2>. QED BY <1>1, <1>2, <2>1 DEF MarketTypes
<1>7. PreviewsCounted' /\ EngineReadRate'
    BY <1>1, <1>2 DEF PreviewsCounted, EngineReadRate
<1>8. TradeHasPreview'
    <2>1. LatestPreview(o) > 0 /\ Near(rate, previews[LatestPreview(o)].rate)
        BY <1>2 DEF MayExecute
    <2>2. LatestPreview(o) = LatestIn(previews, o) /\ LatestPreview(trade)' = LatestIn(previews', o)
        BY <1>2, LatestIsIn DEF LatestPreview, LatestIn, SelectLastInSeq
    <2>. QED BY <1>2, <2>1, <2>2 DEF TradeHasPreview
<1>9. ForeignWithinBought'
    <2>1. CASE torn
        BY <1>2, <2>1 DEF ForeignWithinBought
    <2>2. CASE ~ torn
        <3>1. f <= b /\ torn' = torn
            BY <1>1, <1>2, <1>3, <2>2 DEF ForeignWithinBought
        <3>2. f <= Counted(b, o) /\ Counted(f, o) <= Counted(b, o)
            <4>1. b <= Counted(b, o)
                BY CountedIs
            <4>2. Counted(f, o) <= Counted(b, o)
                BY <3>1, CountedIs
            <4>. QED BY <1>4, <3>1, <4>1, <4>2
        <3>3. CASE o.side = "buy"
            <4>1. pressure'.foreign = f /\ pressure'.bought = Counted(b, o)
                BY <1>5, <3>3
            <4>2. pressure'.foreign <= pressure'.bought
                  /\ Counted(pressure'.foreign, o) <= pressure'.bought
                BY <3>2, <4>1
            <4>. QED BY <1>2, <4>2 DEF ForeignWithinBought, Counted, Capped
        <3>4. CASE o.side # "buy"
            <4>1. pressure'.foreign = f /\ pressure'.bought = b
                BY <1>5, <3>4
            <4>2. ~ Foreign(o)
                BY <3>4 DEF Foreign
            <4>. QED BY <1>2, <3>1, <4>1, <4>2 DEF ForeignWithinBought, Foreign
        <3>. QED BY <3>3, <3>4
    <2>. QED BY <2>1, <2>2
<1>. QED BY <1>6, <1>7, <1>8, <1>9 DEF MarketInv

(* The second count of a trade, or none, keeps the volumes in order. *)
LEMMA SecondCount ==
    ASSUME MarketInv, trade # NoTrade, pressure' = pressure \/ pressure' = PressureOf(trade)
    PROVE  /\ pressure' \in [bought : 0..MaxVolume, sold : 0..MaxVolume, foreign : 0..MaxVolume]
           /\ ~ torn => pressure'.foreign <= pressure'.bought
<1>1. MarketTypes /\ ForeignWithinBought
    BY DEF MarketInv
<1>2. PICK b \in 0..MaxVolume, s \in 0..MaxVolume, f \in 0..MaxVolume :
            pressure = [bought |-> b, sold |-> s, foreign |-> f]
    BY <1>1 DEF MarketTypes
<1>3. PICK o \in Order : o = trade
    BY <1>1 DEF MarketTypes
<1>4. Counted(f, o) \in 0..MaxVolume
    BY CountedIs
<1>5. \/ pressure' = pressure
      \/ Foreign(o) /\ pressure' = [bought |-> b, sold |-> s, foreign |-> Counted(f, o)]
    BY <1>2, <1>3 DEF PressureOf
<1>6. ~ torn => f <= b /\ (Foreign(o) => Counted(f, o) <= b)
    BY <1>1, <1>2, <1>3 DEF ForeignWithinBought
<1>7. CASE pressure' = pressure
    BY <1>1, <1>2, <1>6, <1>7 DEF MarketTypes
<1>8. CASE Foreign(o) /\ pressure' = [bought |-> b, sold |-> s, foreign |-> Counted(f, o)]
    BY <1>4, <1>6, <1>8
<1>. QED BY <1>5, <1>7, <1>8

(* A trade ends: its preview goes with it, or all stays as it was. *)
LEMMA TradeEndsStep ==
    ASSUME MarketInv, TradeCommits \/ TradeFails
    PROVE  MarketInv'
<1>1. MarketTypes /\ PreviewsCounted /\ TradeHasPreview /\ EngineReadRate
    BY DEF MarketInv
<1>2. /\ UNCHANGED <<rate, engine, overtaken, torn>> /\ trade # NoTrade /\ trade' = NoTrade
      /\ pressure' = pressure \/ pressure' = PressureOf(trade)
    BY DEF TradeCommits, TradeFails
<1>3. /\ pressure' \in [bought : 0..MaxVolume, sold : 0..MaxVolume, foreign : 0..MaxVolume]
      /\ ~ torn => pressure'.foreign <= pressure'.bought
    BY <1>2, SecondCount
<1>4. TradeHasPreview' /\ EngineReadRate' /\ ForeignWithinBought'
    BY <1>1, <1>2, <1>3 DEF TradeHasPreview, EngineReadRate, ForeignWithinBought
<1>5. PICK t \in Order : t = trade
    BY <1>1, <1>2 DEF MarketTypes
<1>6. previews \in Seq(PreviewRow) /\ left \in [Order -> Int]
    BY <1>1 DEF MarketTypes
<1>7. /\ previews' \in Seq(PreviewRow) /\ left' \in [Order -> Int]
      /\ \A x \in Order : left'[x] = Previewed(previews', x)
    <2>1. CASE TradeCommits
        <3>. DEFINE i == LatestIn(previews, t)
        <3>1. previews' = RemoveAt(previews, i) /\ left' = [left EXCEPT ![t] = @ - 1] /\ i > 0
            BY <1>1, <1>2, <1>5, <2>1, LatestIsIn DEF TradeCommits, WithoutLatest, TradeHasPreview
        <3>2. i \in 1..Len(previews) /\ previews[i].of = t
            <4>1. i \in PlacesOf(previews, t)
                BY <1>6, <3>1, LatestIsOfIt
            <4>. QED BY <4>1 DEF PlacesOf
        <3>. HIDE DEF i
        <3>3. previews' \in Seq(PreviewRow)
            BY <1>6, <3>1, <3>2, OneTakenOut, Zenon
        <3>4. ASSUME NEW x \in Order PROVE left'[x] = Previewed(previews', x)
            <4>1. Previewed(previews', x) = IF previews[i].of = x THEN Previewed(previews, x) - 1
                                                                  ELSE Previewed(previews, x)
                BY <1>6, <3>1, <3>2, OneLessCounted, Zenon
            <4>2. left[x] = Previewed(previews, x)
                BY <1>1 DEF PreviewsCounted
            <4>. QED BY <1>6, <3>1, <3>2, <4>1, <4>2
        <3>. QED BY <1>6, <3>1, <3>3, <3>4
    <2>2. CASE TradeFails
        BY <1>1, <1>6, <2>2 DEF TradeFails, PreviewsCounted
    <2>. QED BY <2>1, <2>2
<1>8. MarketTypes' /\ PreviewsCounted'
    BY <1>1, <1>2, <1>3, <1>7 DEF MarketTypes, PreviewsCounted
<1>. QED BY <1>4, <1>8 DEF MarketInv

(* The engine, the reset, the end of the nation, the end of the key. *)
LEMMA EngineStep ==
    ASSUME MarketInv,
           \/ EngineReads \/ EngineFails \/ ResetRates \/ Delist \/ PressureExpires
           \/ \E active \in {0, 100}, t \in TradeScores, m \in MemberCounts : EngineWrites(active, t, m)
    PROVE  MarketInv'
<1>1. MarketTypes /\ PreviewsCounted /\ TradeHasPreview /\ EngineReadRate /\ ForeignWithinBought
    BY DEF MarketInv
<1>2. UNCHANGED <<previews, trade, left>>
    BY DEF EngineReads, EngineFails, ResetRates, Delist, PressureExpires, EngineWrites
<1>3. PreviewsCounted'
    BY <1>1, <1>2 DEF PreviewsCounted
<1>4. CASE EngineReads \/ EngineFails \/ Delist
    <2>1. UNCHANGED <<rate, pressure, torn>> /\ overtaken' \in BOOLEAN
        BY <1>1, <1>4 DEF EngineReads, EngineFails, Delist, MarketTypes
    <2>2. /\ engine' = Idle \/ engine' \in [phase : {"read"}, rate : RateMin..RateMax]
          /\ engine' # Idle => overtaken' \/ engine'.rate = rate'
        BY <1>1, <1>4 DEF EngineReads, EngineFails, Delist, MarketTypes, EngineReadRate, Idle
    <2>3. MarketTypes' /\ EngineReadRate'
        BY <1>1, <1>2, <2>1, <2>2 DEF MarketTypes, EngineReadRate
    <2>4. TradeHasPreview'
        BY <1>1, <1>2, <2>1, PreviewStays DEF MarketTypes
    <2>5. ForeignWithinBought'
        BY <1>1, <1>2, <2>1 DEF ForeignWithinBought, Foreign, Counted, Capped
    <2>. QED BY <1>3, <2>3, <2>4, <2>5 DEF MarketInv
<1>5. CASE PressureExpires
    <2>1. /\ UNCHANGED <<rate, engine, overtaken>> /\ pressure' = NoPressure
          /\ torn' = (trade # NoTrade /\ Foreign(trade))
        BY <1>5 DEF PressureExpires
    <2>2. /\ NoPressure \in [bought : 0..MaxVolume, sold : 0..MaxVolume, foreign : 0..MaxVolume]
          /\ NoPressure.foreign <= NoPressure.bought
        BY MarketAssumption DEF NoPressure
    <2>3. torn' \in BOOLEAN
        BY <2>1
    <2>4. MarketTypes'
        BY <1>1, <1>2, <2>1, <2>2, <2>3 DEF MarketTypes
    <2>5. EngineReadRate' /\ TradeHasPreview'
        BY <1>1, <1>2, <2>1, PreviewStays DEF EngineReadRate, MarketTypes
    <2>6. ForeignWithinBought'
        BY <1>2, <2>1, <2>2 DEF ForeignWithinBought, Foreign
    <2>. QED BY <1>3, <2>4, <2>5, <2>6 DEF MarketInv
<1>6. CASE ResetRates
    <2>1. /\ UNCHANGED <<pressure, engine, torn>> /\ rate' = AdminRate /\ trade = NoTrade
          /\ overtaken' = (engine # Idle)
        BY <1>6 DEF ResetRates
    <2>2. rate' \in RateMin..RateMax /\ overtaken' \in BOOLEAN
        BY <2>1, MarketAssumption
    <2>3. MarketTypes'
        BY <1>1, <1>2, <2>1, <2>2 DEF MarketTypes
    <2>4. EngineReadRate' /\ TradeHasPreview' /\ ForeignWithinBought'
        BY <1>1, <1>2, <2>1 DEF EngineReadRate, TradeHasPreview, ForeignWithinBought
    <2>. QED BY <1>3, <2>3, <2>4 DEF MarketInv
<1>7. ASSUME NEW active \in {0, 100}, NEW t \in TradeScores, NEW m \in MemberCounts,
             EngineWrites(active, t, m)
      PROVE MarketInv'
    <2>. DEFINE new == NewRate(engine.rate, active, t, GrowthOf(m[1], m[2]))
    <2>1. /\ UNCHANGED <<pressure, torn>> /\ trade = NoTrade /\ engine' = Idle /\ overtaken' = FALSE
          /\ rate' = IF new = engine.rate THEN rate ELSE new
        BY <1>7, Zenon DEF EngineWrites
    <2>2. new \in RateMin..RateMax
        <3>. DEFINE x == engine.rate + (engine.rate * 4 * Multiplier
                            * (30 * active + 25 * t + 20 * GrowthOf(m[1], m[2]) + 15 * PressureSignal
                               + 10 * ForeignSignal) + 50000000) \div 100000000
        <3>1. new = Clamp(x, RateMin, RateMax)
            BY DEF NewRate
        <3>. HIDE DEF x, new
        <3>. QED BY <3>1, MarketAssumption DEF Clamp
    <2>. HIDE DEF new
    <2>3. rate' \in RateMin..RateMax
        BY <1>1, <2>1, <2>2 DEF MarketTypes
    <2>4. MarketTypes'
        BY <1>1, <1>2, <2>1, <2>3 DEF MarketTypes
    <2>5. EngineReadRate' /\ TradeHasPreview' /\ ForeignWithinBought'
        BY <1>1, <1>2, <2>1 DEF EngineReadRate, TradeHasPreview, ForeignWithinBought
    <2>. QED BY <1>3, <2>4, <2>5 DEF MarketInv
<1>. QED BY <1>4, <1>5, <1>6, <1>7

LEMMA MarketStep == MarketInv /\ [MarketNext]_marketVars => MarketInv'
<1>. SUFFICES ASSUME MarketInv, [MarketNext]_marketVars PROVE MarketInv'
    OBVIOUS
<1>1. MarketTypes /\ PreviewsCounted /\ TradeHasPreview /\ EngineReadRate /\ ForeignWithinBought
    BY DEF MarketInv
<1>2. CASE UNCHANGED <<rate, pressure, previews, trade, engine, left, overtaken, torn>>
    <2>1. MarketTypes' /\ PreviewsCounted' /\ EngineReadRate'
        BY <1>1, <1>2 DEF MarketTypes, PreviewsCounted, EngineReadRate
    <2>2. TradeHasPreview'
        BY <1>1, <1>2, PreviewStays DEF MarketTypes
    <2>3. ForeignWithinBought'
        BY <1>1, <1>2 DEF ForeignWithinBought, Foreign, Counted, Capped
    <2>. QED BY <2>1, <2>2, <2>3 DEF MarketInv
<1>3. CASE MarketNext
    <2>1. ASSUME NEW u \in Trader, MarketMain(u) PROVE MarketInv'
        BY <1>2, <2>1 DEF MarketMain
    <2>2. ASSUME NEW u \in Trader, NEW s \in MarketStates \ {"none"}, ChooseCurrency(u, s)
          PROVE MarketInv'
        BY <1>2, <2>2 DEF ChooseCurrency
    <2>3. ASSUME NEW u \in Trader, NEW o \in Order,
                 TypeAmount(u, o) \/ QuickAmount(u, o) \/ ConfirmTrade(u, o)
          PROVE MarketInv'
        BY <2>3, PreviewStep, ConfirmStep DEF TypeAmount, QuickAmount
    <2>4. CASE TradeCommits \/ TradeFails
        BY <2>4, TradeEndsStep
    <2>5. CASE \/ EngineReads \/ EngineFails \/ ResetRates \/ Delist \/ PressureExpires
               \/ \E active \in {0, 100}, t \in TradeScores, m \in MemberCounts :
                        EngineWrites(active, t, m)
        BY <2>5, EngineStep
    <2>. QED BY <1>3, <2>1, <2>2, <2>3, <2>4, <2>5 DEF MarketNext
<1>. QED BY <1>2, <1>3 DEF marketVars

LEMMA MarketAlways == MarketSpec => []MarketInv
BY MarketStart, MarketStep, PTL DEF MarketSpec

(* However often and wherever a confirm button is pressed, there are no more   *)
(* trades than previews of the same trade, and each is made at a rate near one *)
(* that was previewed for it: the latest preview that is left.                 *)
THEOREM TradesUseUpPreviews == MarketSpec => TradeUsesUpAPreview
<1>1. ASSUME MarketInv, [MarketNext]_marketVars, NEW o \in Order, left'[o] < left[o]
      PROVE  /\ left[o] > 0
             /\ \E p \in Range(previews) : p.of = o /\ Near(rate, p.rate)
    <2>1. MarketTypes /\ PreviewsCounted /\ TradeHasPreview
        BY <1>1 DEF MarketInv
    <2>2. left \in [Order -> Int] /\ previews \in Seq(PreviewRow)
        BY <2>1 DEF MarketTypes
    <2>3. TradeCommits
        <3>1. ASSUME UNCHANGED left PROVE FALSE
            BY <1>1, <2>2, <3>1
        <3>2. ASSUME NEW x \in Order, left' = [left EXCEPT ![x] = @ + 1] PROVE FALSE
            BY <1>1, <2>2, <3>2
        <3>. QED BY <1>1, <3>1, <3>2
                 DEF MarketNext, marketVars, MarketMain, ChooseCurrency, TypeAmount, QuickAmount,
                     Preview, ConfirmTrade, TradeFails, PressureExpires, EngineReads, EngineFails,
                     EngineWrites, ResetRates, Delist
    <2>4. trade \in Order /\ left' = [left EXCEPT ![trade] = @ - 1]
        BY <2>1, <2>3 DEF TradeCommits, MarketTypes
    <2>5. o = trade
        BY <1>1, <2>2, <2>4
    <2>. DEFINE i == LatestIn(previews, o)
    <2>6. i > 0 /\ Near(rate, previews[i].rate)
        BY <2>1, <2>3, <2>5, LatestIsIn DEF TradeHasPreview, TradeCommits
    <2>7. i \in PlacesOf(previews, o)
        BY <2>2, <2>6, LatestIsOfIt
    <2>8. i \in DOMAIN previews /\ previews[i].of = o
        BY <2>2, <2>7 DEF PlacesOf
    <2>9. left[o] = Previewed(previews, o) /\ Previewed(previews, o) # 0
          /\ Previewed(previews, o) \in Nat
        BY <2>1, <2>2, <2>7, PlacesAreFinite DEF PreviewsCounted
    <2>10. left[o] > 0
        BY <2>9
    <2>. HIDE DEF i
    <2>11. previews[i] \in Range(previews)
        BY <2>8 DEF Range
    <2>. QED BY <2>6, <2>8, <2>10, <2>11
<1>2. MarketInv /\ [MarketNext]_marketVars =>
        [\A o \in Order : left'[o] < left[o] =>
            /\ left[o] > 0
            /\ \E p \in Range(previews) : p.of = o /\ Near(rate, p.rate)]_marketVars
    BY <1>1
<1>. QED BY <1>2, MarketAlways, PTL DEF MarketSpec, TradeUsesUpAPreview

LEMMA SignalsAre ==
    ASSUME MarketTypes
    PROVE  /\ PressureSignal \in -100..100 /\ ForeignSignal \in Int
           /\ pressure.foreign <= pressure.bought => ForeignSignal \in 0..100
<1>1. PICK b \in 0..MaxVolume, s \in 0..MaxVolume, f \in 0..MaxVolume :
            pressure = [bought |-> b, sold |-> s, foreign |-> f]
    BY DEF MarketTypes
<1>2. b \in Nat /\ s \in Nat /\ f \in Nat
    BY MarketAssumption
<1>3. Max({b + s, 1}) \in Nat \ {0} /\ Max({b, 1}) \in Nat \ {0} /\ b <= Max({b, 1})
    <2>1. /\ Max({b + s, 1}) = IF b + s >= 1 THEN b + s ELSE 1
          /\ Max({b, 1}) = IF b >= 1 THEN b ELSE 1
        BY <1>2, HigherOfTwo
    <2>. QED BY <1>2, <2>1
<1>4. PICK m \in Nat \ {0}, n \in Nat \ {0} : m = Max({b + s, 1}) /\ n = Max({b, 1}) /\ b <= n
    BY <1>3
<1>5. PressureSignal \in -100..100
    <2>1. PICK x \in Int : x = (100 * (b - s)) \div m
        BY <1>2, DivIs
    <2>2. PressureSignal = Clamp(x, -100, 100)
        <3>1. pressure.bought = b /\ pressure.sold = s
            BY <1>1
        <3>2. PressureSignal = Clamp((100 * (b - s)) \div Max({b + s, 1}), -100, 100)
            BY <3>1 DEF PressureSignal
        <3>3. (100 * (b - s)) \div Max({b + s, 1}) = x
            BY <1>4, <2>1
        <3>. QED BY <3>2, <3>3, Zenon
    <2>. QED BY <2>2 DEF Clamp
<1>6. ForeignSignal = (100 * f) \div n
    BY <1>1, <1>4 DEF ForeignSignal
<1>7. ForeignSignal \in Int
    BY <1>2, <1>6, DivIs
<1>8. f <= b => ForeignSignal \in 0..100
    <2>. SUFFICES ASSUME f <= b PROVE ForeignSignal \in 0..100
        OBVIOUS
    <2>1. 100 * f \in Nat /\ 100 * f <= 100 * n
        BY <1>2, <1>4
    <2>. QED BY <1>6, <2>1, PartOf
<1>. QED BY <1>1, <1>5, <1>7, <1>8

LEMMA GrowthIs == \A m \in MemberCounts : GrowthOf(m[1], m[2]) \in -50..50
BY DEF MemberCounts, GrowthOf, Clamp

(* The engine moves a rate by less than its step, and down by a quarter of it  *)
(* at most, unless it writes over a reset or the pressure key was torn.        *)
THEOREM RatesMoveByTheirStep == MarketSpec => RateMovesByItsStep
<1>1. ASSUME MarketInv, [MarketNext]_marketVars, rate' # rate, engine # Idle, engine' = Idle,
             ~ overtaken, ~ torn
      PROVE  /\ (rate' - rate) * 10000 <= 4 * Multiplier * rate + 5000
             /\ (rate - rate') * 10000 <= Multiplier * rate + 5000
    <2>1. MarketTypes /\ EngineReadRate /\ ForeignWithinBought
        BY <1>1 DEF MarketInv
    <2>2. PICK active \in {0, 100}, t \in TradeScores, m \in MemberCounts : EngineWrites(active, t, m)
        <3>1. engine' # engine
            BY <1>1
        <3>. QED BY <1>1, <3>1
                 DEF MarketNext, marketVars, MarketMain, ChooseCurrency, TypeAmount, QuickAmount,
                     Preview, ConfirmTrade, TradeCommits, TradeFails, PressureExpires, EngineReads,
                     EngineFails, ResetRates, Delist
    <2>3. PICK r \in RateMin..RateMax : r = rate /\ engine.rate = r
        BY <1>1, <2>1 DEF MarketTypes, EngineReadRate
    <2>4. PICK g \in -50..50 : g = GrowthOf(m[1], m[2])
        BY GrowthIs
    <2>5. PICK p \in -100..100, f \in 0..100 : p = PressureSignal /\ f = ForeignSignal
        BY <1>1, <2>1, SignalsAre DEF ForeignWithinBought
    <2>6. PICK s \in Int : s = 30 * active + 25 * t + 20 * g + 15 * p + 10 * f
                            /\ -2500 <= s /\ s <= 10000
        BY DEF TradeScores
    <2>7. r \in Nat /\ Multiplier \in Nat /\ RateMin \in Nat /\ RateMax \in Nat
        BY RatesAreNumbers, MarketAssumption
    <2>8. PICK P \in Nat : P = r * Multiplier
        BY <2>7
    <2>9. r * 4 * Multiplier * s = 4 * P * s
        <3>1. r * 4 * Multiplier = 4 * P
            BY <2>7, <2>8
        <3>. QED BY <3>1
    <2>10. PICK d \in Int : d = (4 * P * s + 50000000) \div 100000000
        OBVIOUS
    <2>11. d * 10000 <= 4 * P + 5000 /\ (0 - d) * 10000 <= P + 5000
        BY <2>6, <2>10, StepTimes
    <2>12. NewRate(engine.rate, active, t, GrowthOf(m[1], m[2])) = Clamp(r + d, RateMin, RateMax)
        BY <2>3, <2>4, <2>5, <2>6, <2>9, <2>10 DEF NewRate
    <2>13. rate' = Clamp(r + d, RateMin, RateMax)
        <3>. DEFINE new == NewRate(engine.rate, active, t, GrowthOf(m[1], m[2]))
        <3>1. rate' = IF new = engine.rate THEN rate ELSE new
            BY <2>2, Zenon DEF EngineWrites
        <3>. QED BY <1>1, <3>1, <2>12
    <2>14. /\ (rate' - r) * 10000 <= 4 * P + 5000
           /\ (r - rate') * 10000 <= P + 5000
        <3>1. \/ rate' = r + d
              \/ rate' = RateMin /\ r + d < RateMin
              \/ rate' = RateMax /\ RateMax < r + d
            BY <2>7, <2>13 DEF Clamp
        <3>2. RateMin <= r /\ r <= RateMax
            BY <2>7
        <3>. QED BY <2>7, <2>11, <3>1, <3>2
    <2>15. 4 * Multiplier * rate = 4 * P /\ Multiplier * rate = P
        BY <2>3, <2>7, <2>8
    <2>. QED BY <2>3, <2>14, <2>15
<1>2. MarketInv /\ [MarketNext]_marketVars =>
        [(rate' # rate /\ engine # Idle /\ engine' = Idle) =>
            \/ overtaken \/ torn
            \/ /\ (rate' - rate) * 10000 <= 4 * Multiplier * rate + 5000
               /\ (rate - rate') * 10000 <= Multiplier * rate + 5000]_marketVars
    BY <1>1
<1>. QED BY <1>2, MarketAlways, PTL DEF MarketSpec, RateMovesByItsStep

------------------------------------------------------------------------------
(* Price alerts. A check has taken every alert it still goes through, or has   *)
(* marked, while it was armed; and the condition of an armed alert that the    *)
(* price has met, or that such a check will find met, is on record.            *)

AlertRow == [state : {"armed", "triggered", "deleted"}, of : AlertOwner, target : Price,
             direction : {"above", "below"}]

AlertTypes ==
    /\ alert \in [Alert -> AlertRow \union {NoAlert}]
    /\ notified \in [Alert -> Nat] /\ unmarked \in [Alert -> Nat] /\ met \in [Alert -> BOOLEAN]
    /\ check.todo \subseteq Alert /\ check.marked \subseteq Alert
    /\ check = [phase |-> check.phase, price |-> check.price, todo |-> check.todo,
                marked |-> check.marked]
    /\ check.phase = "idle" => check.marked = {}
    /\ price \in Price

\* How many messages more than missing marks an alert has.
Kept(a) == notified[a] - unmarked[a]

AlertCounts(a) ==
    /\ a \in check.todo => /\ alert[a].state \in {"armed", "deleted"} /\ Kept(a) <= 0
                           /\ a \notin check.marked
                           /\ ConditionMet(check.price, alert[a]) => met[a]
    /\ a \in check.marked => alert[a].state \in {"armed", "deleted"}
    /\ alert[a] = NoAlert => notified[a] = 0
    /\ alert[a].state = "armed" => /\ a \notin check.marked => Kept(a) <= 0
                                   /\ ConditionMet(price, alert[a]) => met[a]
    /\ Kept(a) <= 1 /\ (notified[a] > 0 => met[a])

AlertsInv == AlertTypes /\ \A a \in Alert : AlertCounts(a)

\* An alert that a step leaves as it is, with the check, is counted as before.
LEMMA AlertLeftAlone ==
    ASSUME NEW a \in Alert, AlertCounts(a), UNCHANGED check,
           alert'[a] = alert[a], notified'[a] = notified[a], unmarked'[a] = unmarked[a],
           met[a] => met'[a],
           alert[a].state = "armed" /\ price' # price /\ ConditionMet(price', alert[a]) => met'[a]
    PROVE  AlertCounts(a)'
<1>1. Kept(a)' = Kept(a)
    BY DEF Kept
<1>2. ConditionMet(price, alert[a])' = ConditionMet(price', alert[a])
    BY DEF ConditionMet
<1>3. ConditionMet(check.price, alert[a])' = ConditionMet(check.price, alert[a])
    BY DEF ConditionMet
<1>4. NoAlert' = NoAlert
    BY DEF NoAlert
<1>. QED BY <1>1, <1>2, <1>3, <1>4 DEF AlertCounts

LEMMA CreateAlertKeeps ==
    ASSUME AlertsInv, NEW u \in AlertOwner, NEW b \in Alert, NEW t \in Price,
           NEW d \in {"above", "below", "none"}, CreatePriceAlert(u, b, t, d)
    PROVE  AlertsInv'
<1>. DEFINE new == [state |-> "armed", of |-> u, target |-> t, direction |-> Direction(d, t)]
<1>1. new \in AlertRow /\ new.state = "armed" /\ new # NoAlert
      /\ new.target = t
    BY DEF AlertRow, Direction, NoAlert
<1>2. /\ alert[b] = NoAlert /\ alert' = [alert EXCEPT ![b] = new]
      /\ met' = [met EXCEPT ![b] = ConditionMet(price, new)]
      /\ UNCHANGED <<price, check, notified, unmarked>>
    BY DEF CreatePriceAlert
<1>. HIDE DEF new
<1>3. ConditionMet(price, new) \in BOOLEAN
    <2>1. price \in Nat /\ new.target \in Nat
        BY <1>1, AlertsAssumption DEF AlertsInv, AlertTypes
    <2>2. CASE new.direction = "above"
        BY <2>1, <2>2 DEF ConditionMet
    <2>3. CASE new.direction # "above"
        BY <2>1, <2>3 DEF ConditionMet
    <2>. QED BY <2>2, <2>3
<1>4. /\ alert'[b] = new /\ met'[b] = ConditionMet(price, new)
      /\ \A a \in Alert \ {b} : alert'[a] = alert[a] /\ met'[a] = met[a]
    BY <1>2 DEF AlertsInv, AlertTypes
<1>5. AlertTypes'
    BY <1>1, <1>2, <1>3 DEF AlertsInv, AlertTypes
<1>6. AlertCounts(b)'
    <2>1. AlertCounts(b) /\ alert[b].state = "none" /\ notified[b] = 0
        BY <1>2 DEF AlertsInv, AlertCounts, NoAlert
    <2>2. b \notin check.todo /\ b \notin check.marked /\ Kept(b) <= 0
        BY <2>1 DEF AlertCounts, Kept, AlertsInv, AlertTypes
    <2>3. /\ Kept(b)' = Kept(b) /\ notified'[b] = 0 /\ NoAlert' = NoAlert
          /\ ConditionMet(price, alert[b])' = ConditionMet(price, new)
        BY <2>1, <1>2, <1>4 DEF Kept, NoAlert, ConditionMet
    <2>4. alert'[b].state = "armed" /\ alert'[b] # NoAlert
        BY <1>1, <1>4
    <2>5. b \notin check'.todo /\ b \notin check'.marked
        BY <2>2, <1>2
    <2>6. Kept(b) \in Int
        BY DEF Kept, AlertsInv, AlertTypes
    <2>. QED BY <2>2, <2>3, <2>4, <2>5, <2>6, <1>4 DEF AlertCounts
<1>7. \A a \in Alert \ {b} : AlertCounts(a)'
    BY <1>2, <1>4, AlertLeftAlone DEF AlertsInv
<1>. QED BY <1>5, <1>6, <1>7 DEF AlertsInv

LEMMA DeleteAlertKeeps ==
    ASSUME AlertsInv, NEW u \in AlertOwner, NEW b \in Alert, DeletePriceAlert(u, b)
    PROVE  AlertsInv'
<1>. DEFINE gone == [alert[b] EXCEPT !.state = "deleted"]
<1>1. /\ alert[b] \in AlertRow /\ alert' = [alert EXCEPT ![b] = gone]
      /\ alert[b].state \in {"armed", "triggered"}
      /\ UNCHANGED <<price, check, notified, unmarked, met>>
    BY DEF DeletePriceAlert, AlertsInv, AlertTypes, NoAlert
<1>2. gone \in AlertRow /\ gone.state = "deleted" /\ gone # NoAlert
      /\ gone.target = alert[b].target /\ gone.direction = alert[b].direction
    BY <1>1 DEF AlertRow, NoAlert
<1>. HIDE DEF gone
<1>3. alert'[b] = gone /\ \A a \in Alert \ {b} : alert'[a] = alert[a]
    BY <1>1 DEF AlertsInv, AlertTypes
<1>4. AlertTypes'
    BY <1>1, <1>2 DEF AlertsInv, AlertTypes
<1>5. AlertCounts(b)'
    BY <1>1, <1>2, <1>3 DEF AlertsInv, AlertCounts, Kept, ConditionMet, NoAlert
<1>6. \A a \in Alert \ {b} : AlertCounts(a)'
    BY <1>1, <1>3, AlertLeftAlone DEF AlertsInv
<1>. QED BY <1>4, <1>5, <1>6 DEF AlertsInv

LEMMA CheckStartsKeeps ==
    ASSUME AlertsInv, CheckStarts
    PROVE  AlertsInv'
<1>1. /\ check' = [phase |-> "sending", price |-> price, marked |-> {},
                   todo |-> {a \in Alert : Selected(a)}]
      /\ UNCHANGED <<price, alert, notified, unmarked, met>>
    BY DEF CheckStarts
<1>2. AlertTypes'
    BY <1>1 DEF AlertsInv, AlertTypes
<1>3. ASSUME NEW a \in Alert PROVE AlertCounts(a)'
    <2>1. AlertCounts(a)
        BY DEF AlertsInv
    <2>2. check.marked = {}
        BY DEF AlertsInv, AlertTypes, CheckStarts
    <2>3. alert[a].state = "armed" => Kept(a) <= 0
        BY <2>1, <2>2 DEF AlertCounts
    <2>. QED BY <2>1, <2>3, <1>1 DEF AlertCounts, Kept, Selected, Armed, ConditionMet, NoAlert
<1>. QED BY <1>2, <1>3 DEF AlertsInv

LEMMA CheckNextKeeps ==
    ASSUME AlertsInv, NEW b \in Alert, NEW sending \in Sending, CheckNext(b, sending)
    PROVE  AlertsInv'
<1>. DEFINE told == IF sending = "undelivered" THEN notified[b] ELSE notified[b] + 1
            gone == IF sending = "unanswered" THEN unmarked[b] + 1 ELSE unmarked[b]
            marks == IF sending = "answered" THEN check.marked \union {b} ELSE check.marked
<1>1. /\ b \in check.todo /\ check.phase = "sending" /\ UNCHANGED <<price, alert, met>>
      /\ check' = [check EXCEPT !.todo = check.todo \ {b}, !.marked = marks]
      /\ notified' = [notified EXCEPT ![b] = told] /\ unmarked' = [unmarked EXCEPT ![b] = gone]
      /\ sending # "undelivered" => ConditionMet(check.price, alert[b])
    BY DEF CheckNext
<1>2. AlertTypes /\ AlertCounts(b)
    BY DEF AlertsInv
<1>3. check' = [phase |-> check.phase, price |-> check.price, todo |-> check.todo \ {b},
                marked |-> marks]
    BY <1>1, <1>2 DEF AlertTypes
<1>4. /\ notified'[b] = told /\ told \in Nat /\ \A a \in Alert \ {b} : notified'[a] = notified[a]
      /\ unmarked'[b] = gone /\ gone \in Nat /\ \A a \in Alert \ {b} : unmarked'[a] = unmarked[a]
    BY <1>1, <1>2 DEF AlertTypes
<1>5. AlertTypes'
    <2>1. check'.phase = "sending" /\ check'.todo \subseteq Alert /\ check'.marked \subseteq Alert
        BY <1>1, <1>2, <1>3 DEF AlertTypes
    <2>2. check' = [phase |-> check'.phase, price |-> check'.price, todo |-> check'.todo,
                    marked |-> check'.marked]
        BY <1>3
    <2>3. notified' \in [Alert -> Nat] /\ unmarked' \in [Alert -> Nat]
        BY <1>1, <1>2, <1>4 DEF AlertTypes
    <2>. QED BY <1>1, <1>2, <2>1, <2>2, <2>3 DEF AlertTypes
<1>6. AlertCounts(b)'
    <2>1. /\ b \notin check'.todo /\ check'.marked = marks
          /\ alert[b].state \in {"armed", "deleted"} /\ alert[b] # NoAlert
          /\ Kept(b) <= 0 /\ b \notin check.marked
        BY <1>1, <1>2, <1>3 DEF AlertCounts, NoAlert
    <2>2. sending # "undelivered" => met[b]
        BY <1>1, <1>2 DEF AlertCounts
    <2>3. told - gone <= 1 /\ (b \notin marks => told - gone <= 0)
        BY <1>2, <2>1 DEF AlertTypes, Kept, Sending
    <2>4. told > 0 => met[b]
        BY <1>2, <2>2 DEF AlertCounts
    <2>5. alert[b].state = "armed" => (ConditionMet(price, alert[b]) => met[b])
        BY <1>2 DEF AlertCounts
    <2>. HIDE DEF told, gone, marks
    <2>. QED BY <1>1, <1>4, <2>1, <2>3, <2>4, <2>5 DEF AlertCounts, Kept, ConditionMet
<1>7. ASSUME NEW a \in Alert \ {b} PROVE AlertCounts(a)'
    <2>1. AlertCounts(a) /\ notified'[a] = notified[a] /\ unmarked'[a] = unmarked[a]
          /\ check'.price = check.price
          /\ (a \in check'.todo <=> a \in check.todo) /\ (a \in check'.marked <=> a \in check.marked)
        BY <1>3, <1>4 DEF AlertsInv
    <2>. QED BY <2>1, <1>1 DEF AlertCounts, Kept, ConditionMet, NoAlert
<1>. QED BY <1>5, <1>6, <1>7 DEF AlertsInv

LEMMA CheckCommitsKeeps ==
    ASSUME AlertsInv, CheckCommits
    PROVE  AlertsInv'
<1>1. /\ check.todo = {} /\ check' = NoCheck
      /\ UNCHANGED <<price, notified, unmarked, met>>
    BY DEF CheckCommits
<1>2. alert' = [a \in Alert |-> IF a \in check.marked /\ Armed(a)
                                THEN [alert[a] EXCEPT !.state = "triggered"] ELSE alert[a]]
    BY DEF CheckCommits
<1>3. ASSUME NEW a \in Alert
      PROVE  /\ alert'[a] \in AlertRow \union {NoAlert} /\ AlertCounts(a)'
    <2>1. AlertCounts(a) /\ alert[a] \in AlertRow \union {NoAlert}
        BY DEF AlertsInv, AlertTypes
    <2>2. CASE a \in check.marked /\ Armed(a)
        <3>. DEFINE fired == [alert[a] EXCEPT !.state = "triggered"]
        <3>1. alert'[a] = fired /\ alert[a] \in AlertRow
            BY <1>2, <2>1, <2>2 DEF Armed, NoAlert
        <3>2. fired \in AlertRow /\ fired.state = "triggered" /\ fired # NoAlert
            BY <3>1 DEF AlertRow, NoAlert
        <3>. HIDE DEF fired
        <3>. QED BY <1>1, <2>1, <3>1, <3>2 DEF AlertCounts, Kept, NoCheck
    <2>3. CASE ~ (a \in check.marked /\ Armed(a))
        <3>1. alert'[a] = alert[a]
            BY <1>2, <2>3
        <3>. QED BY <1>1, <2>1, <2>3, <3>1 DEF AlertCounts, Kept, NoCheck, Armed, ConditionMet, NoAlert
    <2>. QED BY <2>2, <2>3
<1>4. AlertTypes'
    BY <1>1, <1>2, <1>3 DEF AlertsInv, AlertTypes, NoCheck
<1>. QED BY <1>3, <1>4 DEF AlertsInv

LEMMA CheckLostKeeps ==
    ASSUME AlertsInv, CheckLost
    PROVE  AlertsInv'
<1>1. /\ check' = NoCheck /\ unmarked' = Lost /\ UNCHANGED <<price, alert, notified, met>>
    BY DEF CheckLost
<1>2. ASSUME NEW a \in Alert
      PROVE  /\ unmarked'[a] = unmarked[a] + (IF a \in check.marked THEN 1 ELSE 0)
             /\ unmarked'[a] \in Nat /\ AlertCounts(a)'
    <2>1. AlertCounts(a) /\ unmarked[a] \in Nat /\ notified[a] \in Nat
        BY DEF AlertsInv, AlertTypes
    <2>2. unmarked'[a] = unmarked[a] + (IF a \in check.marked THEN 1 ELSE 0)
        BY <1>1 DEF Lost
    <2>. QED BY <1>1, <2>1, <2>2 DEF AlertCounts, Kept, NoCheck, ConditionMet, NoAlert
<1>3. AlertTypes'
    BY <1>1, <1>2 DEF AlertsInv, AlertTypes, NoCheck, Lost
<1>. QED BY <1>2, <1>3 DEF AlertsInv

LEMMA PriceMovesKeeps ==
    ASSUME AlertsInv, NEW p \in Price, PriceMoves(p)
    PROVE  AlertsInv'
<1>1. /\ price' = p /\ UNCHANGED <<alert, check, notified, unmarked>>
      /\ met' = [a \in Alert |-> met[a] \/ (Armed(a) /\ ConditionMet(p, alert[a]))]
    BY DEF PriceMoves
<1>2. AlertTypes'
    <2>1. \A a \in Alert : (met[a] \/ (Armed(a) /\ ConditionMet(p, alert[a]))) \in BOOLEAN
        OBVIOUS
    <2>. QED BY <1>1, <2>1 DEF AlertsInv, AlertTypes
<1>3. ASSUME NEW a \in Alert PROVE AlertCounts(a)'
    <2>1. AlertCounts(a) /\ (met[a] => met'[a])
        BY <1>1 DEF AlertsInv
    <2>2. alert[a].state = "armed" /\ ConditionMet(p, alert[a]) => met'[a]
        BY <1>1 DEF Armed
    <2>. QED BY <1>1, <2>1, <2>2, AlertLeftAlone
<1>. QED BY <1>2, <1>3 DEF AlertsInv

LEMMA AlertsStay ==
    ASSUME AlertsInv, UNCHANGED <<price, alert, check, notified, unmarked, met>>
    PROVE  AlertsInv'
<1>1. AlertTypes'
    BY DEF AlertsInv, AlertTypes
<1>2. \A a \in Alert : AlertCounts(a)'
    BY AlertLeftAlone DEF AlertsInv
<1>. QED BY <1>1, <1>2 DEF AlertsInv

LEMMA AlertsInvariant == AlertsSpec => []AlertsInv
<1>1. AlertsInit => AlertsInv
    BY DEF AlertsInit, AlertsInv, AlertTypes, AlertCounts, Kept, NoAlert, NoCheck
<1>2. ASSUME AlertsInv, [AlertsNext]_alertsVars PROVE AlertsInv'
    <2>1. ASSUME NEW u \in AlertOwner, AlertCreate(u) \/ AlertCurrency(u) PROVE AlertsInv'
        BY <1>2, <2>1, AlertsStay DEF AlertCreate, AlertCurrency
    <2>2. ASSUME NEW u \in AlertOwner, NEW a \in Alert, NEW t \in Price,
                 NEW d \in {"above", "below", "none"},
                 AlertPrice(u, a, t, d) \/ AlertCommand(u, a, t, d)
          PROVE  AlertsInv'
        BY <1>2, <2>2, CreateAlertKeeps DEF AlertPrice, AlertCommand
    <2>3. CASE Delisted \/ UNCHANGED alertsVars
        BY <1>2, <2>3, AlertsStay DEF Delisted, alertsVars
    <2>. QED BY <1>2, <2>1, <2>2, <2>3, DeleteAlertKeeps, CheckStartsKeeps, CheckNextKeeps,
                CheckCommitsKeeps, CheckLostKeeps, PriceMovesKeeps DEF AlertsNext
<1>. QED BY <1>1, <1>2, PTL DEF AlertsSpec

(* A player hears of an alert once, and once more for every message that was   *)
(* delivered without an answer and for every check whose marks were lost       *)
(* after the message, and only of a price that was really met.                 *)
THEOREM AlertsAreToldOnce == AlertsSpec => []OneMessagePerKeptMark
<1>1. AlertsInv => OneMessagePerKeptMark
    BY DEF AlertsInv, AlertTypes, AlertCounts, Kept, OneMessagePerKeptMark
<1>. QED BY <1>1, AlertsInvariant, PTL

------------------------------------------------------------------------------
(* The mission. A list that is about to reset a row nobody touched since has   *)
(* read that very row. Until a first list writes over a change, a row that is  *)
(* claimed is completed, and a window's one completion shows; until a second   *)
(* one does, a reward that can be claimed was earned.                          *)

MissionRow == [there : {TRUE}, progress : Nat, completed : BOOLEAN, claimed : BOOLEAN,
               expired : BOOLEAN]

MissionTypes ==
    /\ row \in MissionRow \union {NoRow} /\ list \in MissionRow \union {NoRow}
    /\ selected \in Nat /\ overwritten \in Nat /\ completions \in Nat /\ unpaid \in Int
    /\ touched \in BOOLEAN
    /\ list # NoRow \/ selected > 0 => row # NoRow

ListIsFresh == list # NoRow /\ list.expired /\ ~touched => row = list

WindowsCounted ==
    /\ row = NoRow \/ row.expired => completions = 0
    /\ granted = "held" => row # NoRow /\ ~row.expired

ClaimedIsCompleted(r) == r # NoRow /\ r.claimed => r.completed

NothingOverwritten ==
    overwritten = 0 =>
        /\ ClaimedIsCompleted(row) /\ ClaimedIsCompleted(list)
        /\ completions <= 1 /\ granted # "redone"
        /\ completions = 1 \/ granted = "held" => row.completed

RewardsBacked ==
    overwritten <= 1 => unpaid >= 0 /\ (row # NoRow /\ Claimable(row) => unpaid >= 1)

MissionsInv ==
    MissionTypes /\ ListIsFresh /\ WindowsCounted /\ NothingOverwritten /\ RewardsBacked

LEMMA MissionListKeeps ==
    ASSUME MissionsInv, ShowReads \/ ShowWrites
    PROVE  MissionsInv'
<1>1. CASE ShowReads
    BY <1>1 DEF ShowReads, MissionsInv, MissionTypes, ListIsFresh, WindowsCounted, NothingOverwritten,
                RewardsBacked, ClaimedIsCompleted, Claimable, NoRow, MissionRow
<1>2. CASE ShowWrites
    <2>1. /\ list # NoRow /\ row # NoRow /\ list \in MissionRow /\ row \in MissionRow
          /\ list' = NoRow /\ touched' = FALSE /\ UNCHANGED <<selected, windows, completions, unpaid, granted>>
          /\ overwritten' = IF list.expired /\ touched THEN overwritten + 1 ELSE overwritten
        BY <1>2 DEF ShowWrites, MissionsInv, MissionTypes
    <2>2. CASE ~list.expired
        <3>1. row' = row /\ overwritten' = overwritten
            BY <1>2, <2>1, <2>2 DEF ShowWrites
        <3>. QED BY <2>1, <3>1 DEF MissionsInv, MissionTypes, ListIsFresh, WindowsCounted,
                    NothingOverwritten, RewardsBacked, ClaimedIsCompleted, Claimable, NoRow, MissionRow
    <2>3. CASE list.expired
        <3>. DEFINE gained == IF list.progress # 0 THEN 0 ELSE row.progress
                    completed == IF list.completed # FALSE THEN FALSE ELSE row.completed
                    claimed == IF list.claimed # FALSE THEN FALSE ELSE row.claimed
        <3>1. row' = [there |-> TRUE, expired |-> FALSE, progress |-> gained,
                      completed |-> completed, claimed |-> claimed]
            BY <1>2, <2>3 DEF ShowWrites
        <3>2. /\ row' \in MissionRow /\ row' # NoRow /\ ~row'.expired
              /\ row'.completed = completed /\ row'.claimed = claimed
            BY <2>1, <3>1 DEF MissionRow, NoRow
        <3>3. CASE touched
            <4>1. overwritten' = overwritten + 1
                BY <2>1, <2>3, <3>3
            <4>2. overwritten' <= 1 => overwritten = 0
                BY <4>1 DEF MissionsInv, MissionTypes
            <4>3. ASSUME overwritten = 0, Claimable(row)' PROVE Claimable(row)
                <5>1. completed /\ ~claimed
                    BY <4>3, <3>2 DEF Claimable
                <5>2. ~list.completed /\ row.completed
                    BY <5>1, <2>1 DEF MissionRow
                <5>3. ~list.claimed
                    BY <4>3, <5>2, <2>1 DEF MissionsInv, NothingOverwritten, ClaimedIsCompleted
                <5>4. ~row.claimed
                    BY <5>1, <5>3, <2>1 DEF MissionRow
                <5>. QED BY <5>2, <5>4 DEF Claimable
            <4>4. overwritten' # 0 /\ overwritten' \in Nat
                BY <4>1 DEF MissionsInv, MissionTypes
            <4>5. RewardsBacked'
                BY <4>2, <4>3, <2>1 DEF MissionsInv, RewardsBacked
            <4>6. WindowsCounted'
                BY <2>1, <3>2 DEF MissionsInv, WindowsCounted
            <4>7. MissionTypes' /\ ListIsFresh' /\ NothingOverwritten'
                BY <2>1, <3>2, <4>4 DEF MissionsInv, MissionTypes, ListIsFresh, NothingOverwritten, NoRow
            <4>. QED BY <4>5, <4>6, <4>7 DEF MissionsInv
        <3>4. CASE ~touched
            <4>1. row = list /\ row.expired /\ completions = 0 /\ granted # "held"
                BY <2>1, <2>3, <3>4 DEF MissionsInv, ListIsFresh, WindowsCounted
            <4>2. ~completed /\ ~claimed /\ overwritten' = overwritten
                BY <4>1, <2>1, <3>4 DEF MissionRow
            <4>3. RewardsBacked'
                BY <4>2, <2>1, <3>2 DEF MissionsInv, RewardsBacked, Claimable
            <4>4. NothingOverwritten'
                <5>1. ClaimedIsCompleted(row)' /\ ClaimedIsCompleted(list)'
                    BY <4>2, <2>1, <3>2 DEF ClaimedIsCompleted, NoRow
                <5>. QED BY <5>1, <4>1, <4>2, <2>1 DEF MissionsInv, NothingOverwritten
            <4>5. MissionTypes' /\ ListIsFresh' /\ WindowsCounted'
                BY <4>1, <4>2, <2>1, <3>2 DEF MissionsInv, MissionTypes, ListIsFresh, WindowsCounted, NoRow
            <4>. QED BY <4>3, <4>4, <4>5 DEF MissionsInv
        <3>. QED BY <3>3, <3>4
    <2>. QED BY <2>2, <2>3
<1>. QED BY <1>1, <1>2

LEMMA IncrementKeeps ==
    ASSUME MissionsInv, NEW amount \in 1..Target, IncrementMission(amount)
    PROVE  MissionsInv'
<1>. DEFINE r == IF row = NoRow THEN NewWindow ELSE Renewed(row)
            p == Capped(r.progress + amount, Target)
            full == [r EXCEPT !.progress = p, !.completed = @ \/ p >= Target]
            done == AddsTo(r) /\ p >= Target
<1>1. /\ row' = IF AddsTo(r) THEN full ELSE r
      /\ completions' = (IF done THEN completions + 1 ELSE completions)
      /\ unpaid' = (IF done THEN unpaid + 1 ELSE unpaid)
      /\ granted' = (IF done /\ granted = "held" THEN "redone" ELSE granted)
      /\ touched' = (list # NoRow) /\ UNCHANGED <<list, selected, windows, overwritten>>
    BY DEF IncrementMission
<1>2. MissionTypes /\ r \in MissionRow /\ ~r.expired
    BY DEF MissionsInv, MissionTypes, Renewed, NewWindow, MissionRow
<1>3. r = row \/ (r = NewWindow /\ (row = NoRow \/ row.expired))
    BY DEF Renewed
<1>. HIDE DEF r
<1>4. p \in Nat
    BY <1>2, MissionsAssumption DEF Capped, MissionRow
<1>. HIDE DEF p
<1>5. /\ full \in MissionRow /\ ~full.expired /\ full.claimed = r.claimed
      /\ full.completed = (r.completed \/ p >= Target)
    BY <1>2, <1>4, MissionsAssumption DEF MissionRow
<1>. HIDE DEF full
<1>6. /\ row' \in MissionRow /\ row' # NoRow /\ ~row'.expired /\ row'.claimed = r.claimed
      /\ row'.completed <=> r.completed \/ done
    <2>1. row' \in MissionRow /\ ~row'.expired /\ row'.claimed = r.claimed
        BY <1>1, <1>2, <1>5
    <2>2. row' # NoRow
        BY <2>1 DEF NoRow, MissionRow
    <2>3. CASE AddsTo(r)
        <3>1. row' = full /\ ~r.completed
            BY <2>3, <1>1 DEF AddsTo
        <3>2. CASE p >= Target
            BY <3>1, <3>2, <2>1, <2>2, <2>3, <1>5
        <3>3. CASE ~ (p >= Target)
            BY <3>1, <3>3, <2>1, <2>2, <1>2, <1>5 DEF MissionRow
        <3>. QED BY <3>2, <3>3
    <2>4. CASE ~AddsTo(r)
        <3>1. row' = r /\ r.completed
            BY <2>4, <1>1, <1>2 DEF AddsTo
        <3>. QED BY <3>1, <2>1, <2>2
    <2>. QED BY <2>1, <2>2, <2>3, <2>4
<1>7. done => ~r.completed
    BY DEF AddsTo
<1>8. done \in BOOLEAN
    BY <1>4, <1>2, MissionsAssumption DEF AddsTo, MissionRow
<1>. HIDE DEF done
<1>9. r # row => ~r.completed /\ ~r.claimed /\ completions = 0 /\ granted # "held"
    BY <1>3 DEF NewWindow, MissionsInv, WindowsCounted
<1>10. MissionTypes'
    BY <1>1, <1>2, <1>6, <1>8 DEF MissionTypes
<1>11. ListIsFresh'
    BY <1>1 DEF ListIsFresh
<1>12. WindowsCounted'
    BY <1>1, <1>6, <1>9 DEF MissionsInv, WindowsCounted
<1>13. NothingOverwritten'
    <2>. SUFFICES ASSUME overwritten = 0 PROVE NothingOverwritten'
        BY <1>1 DEF NothingOverwritten
    <2>1. /\ completions <= 1 /\ granted # "redone"
          /\ r = row => ClaimedIsCompleted(row) /\ (completions = 1 \/ granted = "held" => row.completed)
          /\ ClaimedIsCompleted(list)
        BY DEF MissionsInv, NothingOverwritten
    <2>2. ClaimedIsCompleted(row)' /\ ClaimedIsCompleted(list)'
        <3>1. ClaimedIsCompleted(list)'
            BY <1>1, <2>1 DEF ClaimedIsCompleted, NoRow
        <3>2. r.claimed => r.completed
            <4>1. r = row => (r.claimed => r.completed)
                BY <2>1, <1>2 DEF ClaimedIsCompleted, NoRow, MissionRow
            <4>. QED BY <4>1, <1>9
        <3>. QED BY <3>1, <3>2, <1>6 DEF ClaimedIsCompleted
    <2>3. CASE done
        <3>1. completions = 0 /\ granted # "held"
            BY <2>1, <2>3, <1>7, <1>9, <1>2 DEF MissionTypes
        <3>. QED BY <2>1, <2>2, <2>3, <3>1, <1>1, <1>6 DEF NothingOverwritten
    <2>4. CASE ~done
        <3>1. completions = 1 \/ granted = "held" => r.completed
            BY <2>1, <1>9
        <3>. QED BY <2>1, <2>2, <2>4, <3>1, <1>1, <1>6 DEF NothingOverwritten
    <2>. QED BY <2>3, <2>4
<1>14. RewardsBacked'
    <2>1. overwritten <= 1 => unpaid >= 0 /\ (r.completed /\ ~r.claimed => unpaid >= 1)
        BY <1>9, <1>2, <1>3 DEF MissionsInv, RewardsBacked, Claimable, NewWindow, NoRow, MissionRow
    <2>. QED BY <2>1, <1>1, <1>2, <1>6 DEF RewardsBacked, Claimable, MissionTypes
<1>. QED BY <1>10, <1>11, <1>12, <1>13, <1>14 DEF MissionsInv

LEMMA ClaimKeeps ==
    ASSUME MissionsInv, ClaimPays
    PROVE  MissionsInv'
<1>. DEFINE marked == [row EXCEPT !.claimed = TRUE]
<1>1. /\ row \in MissionRow /\ selected > 0 /\ selected' = selected - 1
      /\ row' = IF Claimable(row) THEN Renewed(marked) ELSE Renewed(row)
      /\ unpaid' = (IF Claimable(row) THEN unpaid - 1 ELSE unpaid)
      /\ touched' = (list # NoRow) /\ UNCHANGED <<list, windows, overwritten, completions, granted>>
    BY DEF ClaimPays, MissionsInv, MissionTypes
<1>2. /\ marked \in MissionRow /\ marked.claimed /\ marked.completed = row.completed
      /\ marked.expired = row.expired
    BY <1>1 DEF MissionRow
<1>. HIDE DEF marked
<1>3. /\ row' \in MissionRow /\ row' # NoRow
      /\ \/ row' = NewWindow /\ row.expired
         \/ row' = marked /\ ~row.expired /\ Claimable(row)
         \/ row' = row /\ ~row.expired /\ ~Claimable(row)
    <2>1. /\ NewWindow \in MissionRow
          /\ \A x \in MissionRow : x # NoRow
        <3>1. NewWindow \in MissionRow
            BY DEF NewWindow, MissionRow
        <3>2. \A x \in MissionRow : x.there = TRUE
            BY DEF MissionRow
        <3>3. NoRow.there # TRUE
            BY DEF NoRow
        <3>. QED BY <3>1, <3>2, <3>3
    <2>2. CASE row.expired
        BY <2>1, <2>2, <1>1, <1>2 DEF Renewed
    <2>3. CASE ~row.expired
        BY <2>1, <2>3, <1>1, <1>2 DEF Renewed
    <2>. QED BY <2>2, <2>3
<1>4. /\ NewWindow.completed = FALSE /\ NewWindow.claimed = FALSE /\ NewWindow.expired = FALSE
    BY DEF NewWindow
<1>5. MissionTypes' /\ ListIsFresh'
    <2>1. NoRow' = NoRow /\ touched' \in BOOLEAN /\ (~touched' => list = NoRow)
        BY <1>1 DEF NoRow
    <2>2. unpaid' \in Int /\ selected' \in Nat
        BY <1>1 DEF MissionsInv, MissionTypes
    <2>. QED BY <1>1, <1>3, <2>1, <2>2 DEF MissionsInv, MissionTypes, ListIsFresh
<1>6. WindowsCounted'
    BY <1>1, <1>2, <1>3, <1>4 DEF MissionsInv, WindowsCounted
<1>7. NothingOverwritten'
    <2>1. overwritten = 0 => ClaimedIsCompleted(list)'
        BY <1>1 DEF MissionsInv, NothingOverwritten, ClaimedIsCompleted, NoRow
    <2>2. overwritten = 0 => ClaimedIsCompleted(row)'
        BY <1>2, <1>3, <1>4 DEF MissionsInv, NothingOverwritten, ClaimedIsCompleted, Claimable, NoRow
    <2>3. overwritten = 0 /\ (completions = 1 \/ granted = "held") => row'.completed
        BY <1>2, <1>3, <1>4 DEF MissionsInv, NothingOverwritten, WindowsCounted
    <2>. QED BY <1>1, <2>1, <2>2, <2>3 DEF MissionsInv, NothingOverwritten
<1>8. RewardsBacked'
    BY <1>1, <1>2, <1>3, <1>4 DEF MissionsInv, MissionTypes, RewardsBacked, Claimable, NoRow
<1>. QED BY <1>5, <1>6, <1>7, <1>8 DEF MissionsInv

LEMMA PanelRewardKeeps ==
    ASSUME MissionsInv, PanelRewards
    PROVE  MissionsInv'
<1>. DEFINE over == row = NoRow \/ row.expired
<1>1. /\ row' = [NewWindow EXCEPT !.progress = Target, !.completed = TRUE, !.claimed = TRUE,
                                  !.expired = over]
      /\ unpaid' = (IF row # NoRow /\ Claimable(row) THEN unpaid - 1 ELSE unpaid)
      /\ granted' = (IF row'.expired THEN "loose" ELSE "held")
      /\ touched' = (list # NoRow)
      /\ UNCHANGED <<list, selected, windows, overwritten, completions>>
    BY DEF PanelRewards
<1>2. over \in BOOLEAN
    BY DEF MissionsInv, MissionTypes, MissionRow
<1>. HIDE DEF over
<1>3. /\ row' \in MissionRow /\ row' # NoRow /\ row'.completed /\ row'.claimed /\ row'.expired = over
    BY <1>1, <1>2, MissionsAssumption DEF NewWindow, MissionRow, NoRow
<1>4. MissionTypes' /\ ListIsFresh'
    <2>1. NoRow' = NoRow /\ touched' \in BOOLEAN /\ (~touched' => list = NoRow)
        BY <1>1 DEF NoRow
    <2>2. unpaid' \in Int
        BY <1>1 DEF MissionsInv, MissionTypes
    <2>. QED BY <1>1, <1>3, <2>1, <2>2 DEF MissionsInv, MissionTypes, ListIsFresh
<1>5. WindowsCounted'
    BY <1>1, <1>3 DEF MissionsInv, WindowsCounted, over
<1>6. NothingOverwritten'
    BY <1>1, <1>3 DEF MissionsInv, NothingOverwritten, ClaimedIsCompleted, NoRow
<1>7. RewardsBacked'
    BY <1>1, <1>3 DEF MissionsInv, MissionTypes, RewardsBacked, Claimable
<1>. QED BY <1>4, <1>5, <1>6, <1>7 DEF MissionsInv

LEMMA WindowKeeps ==
    ASSUME MissionsInv, WindowPasses
    PROVE  MissionsInv'
<1>1. /\ row \in MissionRow /\ ~row.expired /\ row' = [row EXCEPT !.expired = TRUE]
      /\ completions' = 0 /\ granted' = "no"
      /\ UNCHANGED <<list, selected, touched, overwritten, unpaid>>
    BY DEF WindowPasses, MissionsInv, MissionTypes
<1>2. /\ row' \in MissionRow /\ row' # NoRow /\ row'.expired
      /\ row'.completed = row.completed /\ row'.claimed = row.claimed
    BY <1>1 DEF MissionRow, NoRow
<1>3. MissionTypes'
    BY <1>1, <1>2 DEF MissionsInv, MissionTypes
<1>4. ListIsFresh'
    BY <1>1 DEF MissionsInv, ListIsFresh, NoRow
<1>5. WindowsCounted' /\ NothingOverwritten'
    <2>1. WindowsCounted'
        BY <1>1 DEF WindowsCounted
    <2>2. row # NoRow
        BY <1>1 DEF MissionRow, NoRow
    <2>3. overwritten = 0 => ClaimedIsCompleted(row)' /\ ClaimedIsCompleted(list)'
        BY <1>1, <1>2, <2>2 DEF MissionsInv, NothingOverwritten, ClaimedIsCompleted, NoRow
    <2>4. NothingOverwritten'
        BY <1>1, <2>3 DEF NothingOverwritten
    <2>. QED BY <2>1, <2>4
<1>6. RewardsBacked'
    BY <1>1, <1>2 DEF MissionsInv, RewardsBacked, Claimable, NoRow
<1>. QED BY <1>3, <1>4, <1>5, <1>6 DEF MissionsInv

LEMMA MissionsInvariant == MissionsSpec => []MissionsInv
<1>. USE DEF MissionsInv, MissionTypes, ListIsFresh, WindowsCounted, NothingOverwritten,
             ClaimedIsCompleted, RewardsBacked, Claimable
<1>1. MissionsInit => MissionsInv
    <2>. SUFFICES ASSUME MissionsInit PROVE MissionsInv
        OBVIOUS
    <2>1. row = NoRow /\ list = NoRow /\ selected = 0 /\ overwritten = 0 /\ completions = 0
          /\ unpaid = 0 /\ granted = "no" /\ touched = FALSE
        BY DEF MissionsInit
    <2>2. MissionTypes
        <3>1. row \in MissionRow \union {NoRow} /\ list \in MissionRow \union {NoRow}
            BY <2>1, Zenon
        <3>2. selected \in Nat /\ overwritten \in Nat /\ completions \in Nat /\ unpaid \in Int
              /\ ~ (selected > 0)
            BY <2>1
        <3>3. touched \in BOOLEAN
            BY <2>1
        <3>4. ~ (list # NoRow)
            BY <2>1
        <3>. QED BY <3>1, <3>2, <3>3, <3>4, Zenon
    <2>3. ListIsFresh /\ WindowsCounted
        BY <2>1
    <2>4. RewardsBacked
        BY <2>1
    <2>5. NothingOverwritten
        BY <2>1 DEF NoRow
    <2>. QED BY <2>2, <2>3, <2>4, <2>5
<1>2. ASSUME MissionsInv, [MissionsNext]_missionVars PROVE MissionsInv'
    <2>1. CASE ClaimSelects
        BY <1>2, <2>1 DEF ClaimSelects, NoRow
    <2>2. CASE UNCHANGED missionVars
        BY <1>2, <2>2 DEF missionVars, NoRow
    <2>. HIDE DEF MissionsInv
    <2>. QED BY <1>2, <2>1, <2>2, MissionListKeeps, IncrementKeeps, ClaimKeeps, PanelRewardKeeps,
                WindowKeeps DEF MissionsNext
<1>. HIDE DEF MissionsInv
<1>. QED BY <1>1, <1>2, PTL DEF MissionsSpec

(* A mission is completed once in a window and no reward is paid that was not  *)
(* earned, as long as no list writes its reset over a later change; it takes   *)
(* two of those to pay for nothing, and one to redo what the panel rewarded.   *)
THEOREM RewardsAreEarnedAlways == MissionsSpec => []RewardsAreEarned
<1>1. MissionsInv => RewardsAreEarned
    BY DEF MissionsInv, MissionTypes, NothingOverwritten, RewardsBacked, RewardsAreEarned
<1>. QED BY <1>1, MissionsInvariant, PTL

------------------------------------------------------------------------------
(* The scheduler. Of the writes under way the last one, if no later one was    *)
(* done before it, knows whether the job is paused; so does the panel once     *)
(* none is left.                                                               *)

JobStatus == {"unknown", "paused", "scheduled", "queued", "success", "missed"}

JobWrite == [status : JobStatus, paused : BOOLEAN, by : {"seed", "live"}, old : BOOLEAN,
             own : BOOLEAN]

SchedulerTypes ==
    /\ process \in {"down", "starting", "up"} /\ paused \in BOOLEAN
    /\ writes \in Seq(JobWrite)
    /\ panel \in [status : JobStatus, paused : BOOLEAN,
                  by : {"nobody", "seed", "live", "earlier"}]
    /\ loop \in Command \union {"writing", "waiting"} => process = "up"
    /\ process = "down" => writes = <<>> /\ panel.by # "live"
    /\ process = "starting" => ~paused /\ \A j \in 1..Len(writes) : ~writes[j].own

Knows(w) == ~w.old /\ w.by = "live" => w.paused = paused

LastWriteKnows == writes # <<>> => Knows(writes[Len(writes)])

PanelKnows == writes = <<>> /\ ~muddled /\ panel.by = "live" => panel.paused = paused

SchedulerInv == SchedulerTypes /\ LastWriteKnows /\ PanelKnows

\* A write is added that knows.
LEMMA WriteAdded ==
    ASSUME SchedulerTypes, NEW w \in JobWrite, writes' = Append(writes, w),
           w.by = "live" => w.paused = paused'
    PROVE  writes' \in Seq(JobWrite) /\ LastWriteKnows' /\ writes' # <<>> /\ PanelKnows'
<1>1. /\ writes' \in Seq(JobWrite) /\ Len(writes') = Len(writes) + 1
      /\ writes'[Len(writes) + 1] = w
    BY DEF SchedulerTypes
<1>2. writes' # <<>>
    BY <1>1 DEF SchedulerTypes
<1>. QED BY <1>1, <1>2 DEF LastWriteKnows, PanelKnows, Knows

\* What is left of the writes when one is over.
LEMMA WriteOver ==
    ASSUME SchedulerInv, NEW i \in DOMAIN writes, Over(i)
    PROVE  /\ i \in 1..Len(writes) /\ writes' \in Seq(JobWrite) /\ Len(writes') = Len(writes) - 1
           /\ LastWriteKnows' /\ UNCHANGED <<process, paused>>
           /\ writes' = <<>> => i = Len(writes)
           /\ \A j \in 1..Len(writes') : \E k \in 1..Len(writes) : writes'[j].own = writes[k].own
<1>. DEFINE n == Len(writes)
            aged(j) == [writes[j] EXCEPT !.old = @ \/ j < i]
            marked == [j \in 1..n |-> aged(j)]
<1>1. writes \in Seq(JobWrite) /\ n \in Nat /\ DOMAIN writes = 1..n /\ i \in 1..n
    BY DEF SchedulerInv, SchedulerTypes
<1>2. ASSUME NEW j \in 1..n
      PROVE  /\ aged(j) \in JobWrite /\ aged(j).old = (writes[j].old \/ j < i)
             /\ aged(j).by = writes[j].by /\ aged(j).paused = writes[j].paused
             /\ aged(j).own = writes[j].own
    <2>1. writes[j] \in JobWrite
        BY <1>1
    <2>2. (writes[j].old \/ j < i) \in BOOLEAN
        BY <1>1, <2>1 DEF JobWrite
    <2>. QED BY <2>1, <2>2 DEF JobWrite
<1>. HIDE DEF aged
<1>3. marked \in Seq(JobWrite) /\ Len(marked) = n /\ \A j \in 1..n : marked[j] = aged(j)
    BY <1>1, <1>2
<1>4. writes' = RemoveAt(marked, i)
    BY <1>1 DEF Over, aged
<1>. HIDE DEF marked, n
<1>5. /\ writes' \in Seq(JobWrite) /\ Len(writes') = n - 1
      /\ \A j \in 1..(n - 1) : writes'[j] = IF j < i THEN marked[j] ELSE marked[j + 1]
    BY <1>1, <1>3, <1>4, OneTakenOut
<1>6. UNCHANGED <<process, paused>>
    BY DEF Over
<1>7. writes' = <<>> => i = n
    BY <1>1, <1>5
<1>8. LastWriteKnows'
    <2>. SUFFICES ASSUME writes' # <<>>, ~writes'[n - 1].old, writes'[n - 1].by = "live"
                  PROVE  writes'[n - 1].paused = paused
        BY <1>1, <1>5, <1>6 DEF LastWriteKnows, Knows
    <2>1. n - 1 \in 1..(n - 1) /\ n \in 1..n /\ (n - 1) + 1 = n
        BY <1>1, <1>5
    <2>2. i # n
        <3>1. SUFFICES ASSUME i = n PROVE FALSE
            OBVIOUS
        <3>2. writes'[n - 1] = aged(n - 1) /\ n - 1 < i /\ n - 1 \in 1..n
            BY <2>1, <3>1, <1>3, <1>5
        <3>3. aged(n - 1).old = (writes[n - 1].old \/ n - 1 < i)
            BY <3>2, <1>2
        <3>. QED BY <3>2, <3>3
    <2>3. writes'[n - 1] = aged(n) /\ ~ (n < i)
        BY <1>1, <2>1, <2>2, <1>3, <1>5
    <2>4. aged(n).old = (writes[n].old \/ n < i)
          /\ aged(n).by = writes[n].by /\ aged(n).paused = writes[n].paused
        BY <1>2, <2>1
    <2>5. ~writes[n].old /\ writes[n].by = "live"
        BY <2>3, <2>4
    <2>6. Knows(writes[n])
        <3>1. writes # <<>>
            BY <1>1, <2>1 DEF n
        <3>. QED BY <3>1 DEF SchedulerInv, LastWriteKnows, n
    <2>. QED BY <2>3, <2>4, <2>5, <2>6 DEF Knows
<1>9. ASSUME NEW j \in 1..(n - 1) PROVE \E k \in 1..n : writes'[j].own = writes[k].own
    <2>1. j \in 1..n /\ j + 1 \in 1..n
        BY <1>1
    <2>. QED BY <2>1, <1>2, <1>3, <1>5
<1>. QED BY <1>1, <1>5, <1>6, <1>7, <1>8, <1>9 DEF n

LEMMA WriteOverKeeps ==
    ASSUME SchedulerInv, NEW i \in DOMAIN writes, WriteDone(i) \/ WriteFails(i)
    PROVE  SchedulerInv'
<1>1. Over(i)
    BY DEF WriteDone, WriteFails
<1>2. /\ i \in 1..Len(writes) /\ writes' \in Seq(JobWrite) /\ LastWriteKnows'
      /\ UNCHANGED <<process, paused>> /\ (writes' = <<>> => i = Len(writes))
      /\ Len(writes') = Len(writes) - 1
      /\ \A j \in 1..Len(writes') : \E k \in 1..Len(writes) : writes'[j].own = writes[k].own
    BY <1>1, WriteOver
<1>3. writes # <<>> /\ writes[i] \in JobWrite /\ process # "down"
    BY <1>2 DEF SchedulerInv, SchedulerTypes
<1>4. loop' = IF writes[i].own THEN "waiting" ELSE loop
    BY <1>1 DEF Over
<1>5. loop' \in Command \union {"writing", "waiting"} => process = "up"
    BY <1>2, <1>3, <1>4 DEF SchedulerInv, SchedulerTypes
<1>6. process = "starting" => \A j \in 1..Len(writes') : ~writes'[j].own
    BY <1>2 DEF SchedulerInv, SchedulerTypes
<1>6a. panel' \in [status : JobStatus, paused : BOOLEAN, by : {"nobody", "seed", "live", "earlier"}]
    <2>1. \/ panel' = panel
          \/ panel' = [status |-> writes[i].status, paused |-> writes[i].paused, by |-> writes[i].by]
        BY DEF WriteDone, WriteFails
    <2>. QED BY <2>1, <1>3 DEF SchedulerInv, SchedulerTypes, JobWrite
<1>7. SchedulerTypes'
    BY <1>2, <1>3, <1>5, <1>6, <1>6a DEF SchedulerInv, SchedulerTypes, Command
<1>8. PanelKnows'
    <2>1. CASE WriteFails(i)
        BY <2>1 DEF WriteFails, PanelKnows
    <2>2. CASE WriteDone(i)
        <3>1. /\ panel' = [status |-> writes[i].status, paused |-> writes[i].paused, by |-> writes[i].by]
              /\ muddled' = writes[i].old
            BY <2>2 DEF WriteDone
        <3>2. writes' = <<>> => Knows(writes[i])
            BY <1>2, <1>3 DEF SchedulerInv, LastWriteKnows
        <3>. QED BY <1>2, <3>1, <3>2 DEF PanelKnows, Knows
    <2>. QED BY <2>1, <2>2
<1>. QED BY <1>2, <1>7, <1>8 DEF SchedulerInv

LEMMA JobWritten ==
    ASSUME SchedulerInv, Seed \/ LoopExecutes \/ (\E status \in {"success", "missed"} : JobEvent(status))
    PROVE  SchedulerInv'
<1>1. CASE Seed
    <2>. DEFINE by == IF process = "starting" THEN "seed" ELSE "live"
                status == IF paused \/ process = "starting" THEN "paused" ELSE "scheduled"
                w == StateNow(status, paused, by)
    <2>1. writes' = Append(writes, w) /\ UNCHANGED <<process, paused, loop, panel, muddled>>
        BY <1>1 DEF Seed
    <2>2. status \in JobStatus /\ by \in {"seed", "live"} /\ paused \in BOOLEAN
        BY DEF JobStatus, SchedulerInv, SchedulerTypes
    <2>3. by = "live" => process # "starting"
        OBVIOUS
    <2>. HIDE DEF status, by
    <2>4. w \in JobWrite /\ ~w.own /\ (w.by = "live" => w.paused = paused)
        BY <2>2, <2>3 DEF StateNow, JobWrite
    <2>. HIDE DEF w
    <2>5. writes' \in Seq(JobWrite) /\ LastWriteKnows' /\ writes' # <<>> /\ PanelKnows'
        BY <2>1, <2>4, WriteAdded DEF SchedulerInv
    <2>6. process = "starting" => \A j \in 1..Len(writes') : ~writes'[j].own
        BY <2>1, <2>4 DEF SchedulerInv, SchedulerTypes
    <2>7. process # "down"
        BY <1>1 DEF Seed
    <2>. QED BY <2>1, <2>5, <2>6, <2>7 DEF SchedulerInv, SchedulerTypes, Command
<1>2. ASSUME NEW status \in {"success", "missed"}, JobEvent(status) PROVE SchedulerInv'
    <2>. DEFINE w == StateNow(status, paused, "live")
    <2>1. process = "up" /\ writes' = Append(writes, w) /\ UNCHANGED <<process, paused, loop, panel, muddled>>
        BY <1>2 DEF JobEvent
    <2>2. w \in JobWrite /\ w.paused = paused
        <3>1. status \in JobStatus /\ paused \in BOOLEAN
            BY DEF JobStatus, SchedulerInv, SchedulerTypes
        <3>2. w = [status |-> status, paused |-> paused, by |-> "live", old |-> FALSE, own |-> FALSE]
            BY <2>1, <3>1 DEF StateNow
        <3>. HIDE DEF w
        <3>. QED BY <3>1, <3>2 DEF JobWrite
    <2>. HIDE DEF w
    <2>3. writes' \in Seq(JobWrite) /\ LastWriteKnows' /\ writes' # <<>> /\ PanelKnows'
        BY <2>1, <2>2, WriteAdded DEF SchedulerInv
    <2>. QED BY <2>1, <2>3 DEF SchedulerInv, SchedulerTypes, Command
<1>3. CASE LoopExecutes
    <2>. DEFINE status == CASE loop = "pause" -> "paused" [] loop = "resume" -> "scheduled"
                            [] loop = "run_now" -> "queued"
                w == [StateNow(status, PausedAfter(loop), "live") EXCEPT !.own = TRUE]
    <2>1. /\ loop \in Command /\ writes' = Append(writes, w) /\ paused' = (loop = "pause")
          /\ loop' = "writing" /\ UNCHANGED <<process, panel, muddled>>
        BY <1>3 DEF LoopExecutes
    <2>2. process = "up"
        BY <2>1 DEF SchedulerInv, SchedulerTypes
    <2>3. status \in JobStatus
        BY <2>1 DEF Command, JobStatus
    <2>4. paused' \in BOOLEAN
        BY <2>1
    <2>5. PausedAfter(loop) = paused'
        BY <2>1 DEF PausedAfter
    <2>. HIDE DEF status
    <2>6. (PausedAfter(loop) \/ process = "starting") = paused'
        BY <2>2, <2>4, <2>5
    <2>7. /\ StateNow(status, PausedAfter(loop), "live") \in JobWrite
          /\ StateNow(status, PausedAfter(loop), "live").paused = paused'
        BY <2>3, <2>4, <2>6 DEF StateNow, JobWrite
    <2>8. w \in JobWrite /\ w.paused = paused'
        BY <2>7 DEF JobWrite
    <2>. HIDE DEF w
    <2>9. writes' \in Seq(JobWrite) /\ LastWriteKnows' /\ writes' # <<>> /\ PanelKnows'
        BY <2>1, <2>8, WriteAdded DEF SchedulerInv
    <2>. QED BY <2>1, <2>2, <2>4, <2>9 DEF SchedulerInv, SchedulerTypes
<1>. QED BY <1>1, <1>2, <1>3

LEMMA SchedulerInvariant == SchedulerSpec => []SchedulerInv
<1>. USE DEF SchedulerInv, SchedulerTypes, LastWriteKnows, PanelKnows, Knows
<1>1. SchedulerInit => SchedulerInv
    <2>. SUFFICES ASSUME SchedulerInit PROVE SchedulerInv
        OBVIOUS
    <2>1. panel \in [status : JobStatus, paused : BOOLEAN, by : {"nobody", "seed", "live", "earlier"}]
          /\ panel.by = "nobody"
        BY DEF SchedulerInit, Unwritten, JobStatus
    <2>2. writes = <<>> /\ process = "down" /\ loop = "none" /\ paused = FALSE
        BY DEF SchedulerInit
    <2>3. <<>> \in Seq(JobWrite)
        OBVIOUS
    <2>. QED BY <2>1, <2>2, <2>3 DEF Command
<1>2. ASSUME SchedulerInv, [SchedulerNext]_schedulerVars PROVE SchedulerInv'
    <2>1. CASE ProcessStarts
        <3>1. /\ process = "down" /\ process' = "starting" /\ paused' = FALSE
              /\ UNCHANGED <<loop, writes, panel, muddled>>
            BY <2>1 DEF ProcessStarts
        <3>2. writes = <<>> /\ panel.by # "live" /\ loop \notin Command \union {"writing", "waiting"}
              /\ 1..Len(<<>>) = {}
            BY <1>2, <3>1
        <3>. QED BY <1>2, <3>1, <3>2
    <2>2. CASE SchedulerStarts
        BY <1>2, <2>2 DEF SchedulerStarts, Command
    <2>3. CASE ProcessEnds
        <3>1. /\ process' = "down" /\ loop' = "none" /\ writes' = <<>> /\ paused' = FALSE
              /\ panel' = [panel EXCEPT !.by = IF @ = "nobody" THEN @ ELSE "earlier"]
            BY <2>3 DEF ProcessEnds
        <3>2. panel'.by # "live" /\ panel' \in [status : JobStatus, paused : BOOLEAN,
                                                 by : {"nobody", "seed", "live", "earlier"}]
            <4>. DEFINE now == IF panel.by = "nobody" THEN panel.by ELSE "earlier"
            <4>1. panel' = [panel EXCEPT !.by = now] /\ now \in {"nobody", "earlier"}
                BY <3>1
            <4>. HIDE DEF now
            <4>. QED BY <1>2, <4>1
        <3>3. <<>> \in Seq(JobWrite)
            OBVIOUS
        <3>. QED BY <3>1, <3>2, <3>3 DEF Command
    <2>4. CASE JobRuns \/ LoopDies \/ (\E c \in Command : SchedulerCommand(c))
        BY <1>2, <2>4 DEF JobRuns, LoopDies, SchedulerCommand, Command
    <2>5. CASE LoopTakes
        BY <1>2, <2>5 DEF LoopTakes, Command
    <2>6. CASE UNCHANGED schedulerVars
        BY <1>2, <2>6 DEF schedulerVars
    <2>. HIDE DEF SchedulerInv
    <2>. QED BY <1>2, <2>1, <2>2, <2>3, <2>4, <2>5, <2>6, JobWritten, WriteOverKeeps
             DEF SchedulerNext
<1>. HIDE DEF SchedulerInv
<1>. QED BY <1>1, <1>2, PTL DEF SchedulerSpec

(* Once all that is under way is written, the panel shows the job paused       *)
(* exactly when it is, whatever commands and runs overlapped, unless a write   *)
(* failed, was overtaken, or was made before the scheduler started or by an    *)
(* earlier process.                                                            *)
THEOREM PanelKnowsTheJob == SchedulerSpec => []PanelShowsPausedTruly
<1>1. SchedulerInv => PanelShowsPausedTruly
    BY DEF SchedulerInv, PanelKnows, PanelShowsPausedTruly
<1>. QED BY <1>1, SchedulerInvariant, PTL

------------------------------------------------------------------------------
(* Lessons. A button that leads behind a question, and a press on one, is in   *)
(* the chat only where the questions before it were answered right; a lesson   *)
(* is shown only where the one before it is done.                              *)

AcademyTypes ==
    /\ progress \in [Lesson -> {"none", "open", "done"}]
    /\ opened \subseteq {"quiz", "answer"} \X Lesson \X Nat
    /\ pressed # NoPress => pressed.lesson \in Lesson /\ pressed.q \in Nat
    /\ IsFiniteSet({l \in Lesson : progress[l] = "done"})

\* The questions before the q-th of lesson l were answered right.
LearnedBefore(l, q) == \A j \in 0..(q - 1) : <<l, j>> \in learned

ButtonsBehindAnswers == \A b \in opened : LearnedBefore(b[2], b[3])

PressBehindAnswers == pressed # NoPress => LearnedBefore(pressed.lesson, pressed.q)

\* The lesson before is done, or one of the module before.
OthersDone(l) ==
    /\ l # FirstOf(ModuleOf[l]) => l - 1 \in Lesson /\ progress[l - 1] = "done"
    /\ l = FirstOf(ModuleOf[l]) /\ ModuleOf[l] > 1 => Done(ModuleOf[l] - 1) # {}

ShownAfterOthers == \A l \in Lesson : progress[l] # "none" => OthersDone(l)

DoneWasLearned == \A l \in Lesson : progress[l] = "done" => LearnedBefore(l, Questions[l])

PointsForLessons == xp = Cardinality({l \in Lesson : progress[l] = "done"})

AcademyInv ==
    /\ AcademyTypes /\ ButtonsBehindAnswers /\ PressBehindAnswers
    /\ ShownAfterOthers /\ DoneWasLearned /\ PointsForLessons

\* The first lesson of a module is one of it, and none of it comes before.
LEMMA FirstIsFirst ==
    ASSUME NEW l \in Lesson
    PROVE  LET f == FirstOf(ModuleOf[l])
           IN  f \in Lesson /\ ModuleOf[f] = ModuleOf[l] /\ f <= l
<1>. DEFINE T == OfModule(ModuleOf[l])
<1>1. T \subseteq Nat /\ l \in T /\ T \subseteq Lesson
    BY AcademyAssumption DEF OfModule
<1>2. PICK f \in T : \A k \in T : ~ (<<k, f>> \in NatBelow)
    BY <1>1, NatBelowWellFounded, WFMin
<1>3. ASSUME NEW k \in T PROVE f <= k
    <2>1. f \in Nat /\ k \in Nat
        BY <1>1, <1>2
    <2>2. ~ (k < f)
        BY <1>2, <2>1 DEF NatBelow
    <2>. QED BY <2>1, <2>2
<1>4. FirstOf(ModuleOf[l]) \in T /\ \A k \in T : FirstOf(ModuleOf[l]) <= k
    BY <1>2, <1>3 DEF FirstOf
<1>. QED BY <1>1, <1>4 DEF OfModule

\* While no lesson's state is taken back, what was done is done.
LEMMA OthersStayDone ==
    ASSUME NEW l \in Lesson, AcademyTypes, OthersDone(l), progress' \in [Lesson -> {"none", "open", "done"}],
           \A k \in Lesson : progress[k] = "done" => progress'[k] = "done"
    PROVE  OthersDone(l)'
<1>. DEFINE m == ModuleOf[l]
<1>1. ASSUME l # FirstOf(m) PROVE l - 1 \in Lesson /\ progress'[l - 1] = "done"
    BY <1>1 DEF OthersDone
<1>2. Done(m - 1) \subseteq Done(m - 1)'
    BY DEF Done, OfModule
<1>. QED BY <1>1, <1>2 DEF OthersDone

\* What opens a lesson of an unlocked module is its first one.
LEMMA ListedShows ==
    ASSUME NEW l \in Lesson, AcademyTypes, ShownAfterOthers, progress' = Listed(ModuleOf[l]),
           UNCHANGED xp
    PROVE  /\ progress' \in [Lesson -> {"none", "open", "done"}]
           /\ \A k \in Lesson : progress[k] # "none" => progress'[k] = progress[k]
           /\ \A k \in Lesson : progress'[k] = "done" => progress[k] = "done"
           /\ ShownAfterOthers'
<1>. DEFINE m == ModuleOf[l]
            f == FirstOf(m)
<1>1. f \in Lesson /\ ModuleOf[f] = m /\ f \in Nat /\ m \in Nat
    BY FirstIsFirst, AcademyAssumption
<1>. HIDE DEF f
<1>2. CASE ModuleLocked(m) \/ progress[f] # "none"
    <2>1. progress' = progress
        BY <1>2 DEF Listed, f
    <2>. QED BY <2>1 DEF ShownAfterOthers, OthersDone, Done, AcademyTypes
<1>3. CASE ~ModuleLocked(m) /\ progress[f] = "none"
    <2>1. progress' = [progress EXCEPT ![f] = "open"]
        BY <1>3 DEF Listed, f
    <2>2. /\ progress' \in [Lesson -> {"none", "open", "done"}]
          /\ \A k \in Lesson : progress[k] # "none" => progress'[k] = progress[k]
          /\ \A k \in Lesson : progress'[k] = "done" => progress[k] = "done"
        BY <1>1, <1>3, <2>1 DEF AcademyTypes
    <2>3. OthersDone(f)
        BY <1>1, <1>3 DEF OthersDone, ModuleLocked, f
    <2>4. \A k \in Lesson : progress'[k] # "none" => OthersDone(k)
        BY <1>1, <2>1, <2>3 DEF ShownAfterOthers, AcademyTypes
    <2>5. \A k \in Lesson : progress'[k] # "none" => OthersDone(k)'
        BY <2>2, <2>4, OthersStayDone
    <2>. QED BY <2>2, <2>5 DEF ShownAfterOthers
<1>. QED BY <1>2, <1>3

(* At the start no lesson is shown. *)
LEMMA AcademyStart == AcademyInit => AcademyInv
<1>. SUFFICES ASSUME AcademyInit PROVE AcademyInv
    OBVIOUS
<1>1. {l \in Lesson : progress[l] = "done"} = {}
    BY DEF AcademyInit
<1>2. AcademyTypes
    BY <1>1, FS_EmptySet DEF AcademyInit, AcademyTypes
<1>3. PointsForLessons
    BY <1>1, FS_EmptySet DEF AcademyInit, PointsForLessons
<1>. QED BY <1>2, <1>3 DEF AcademyInit, AcademyInv, ButtonsBehindAnswers, PressBehindAnswers,
                ShownAfterOthers, DoneWasLearned

\* A step that keeps the lessons' states, or shows one, keeps what was learned.
LEMMA LessonsKept ==
    ASSUME AcademyInv, UNCHANGED xp, learned \subseteq learned',
           \/ UNCHANGED progress
           \/ \E l \in Lesson : progress' = Listed(ModuleOf[l])
    PROVE  /\ progress' \in [Lesson -> {"none", "open", "done"}]
           /\ IsFiniteSet({l \in Lesson : progress[l] = "done"})'
           /\ ShownAfterOthers' /\ DoneWasLearned' /\ PointsForLessons'
<1>1. /\ progress' \in [Lesson -> {"none", "open", "done"}]
      /\ \A k \in Lesson : progress[k] # "none" => progress'[k] = progress[k]
      /\ \A k \in Lesson : progress'[k] = "done" => progress[k] = "done"
      /\ ShownAfterOthers'
    <2>1. CASE UNCHANGED progress
        BY <2>1 DEF AcademyInv, AcademyTypes, ShownAfterOthers, OthersDone, Done
    <2>2. CASE \E l \in Lesson : progress' = Listed(ModuleOf[l])
        BY <2>2, ListedShows DEF AcademyInv
    <2>. QED BY <2>1, <2>2
<1>2. {l \in Lesson : progress'[l] = "done"} = {l \in Lesson : progress[l] = "done"}
    BY <1>1
<1>3. DoneWasLearned'
    BY <1>1, <1>2 DEF AcademyInv, DoneWasLearned, LearnedBefore
<1>. QED BY <1>1, <1>2, <1>3 DEF AcademyInv, AcademyTypes, PointsForLessons

\* A step that adds buttons behind answers, with the lessons as above.
LEMMA ButtonsAdded ==
    ASSUME AcademyInv, UNCHANGED xp, learned \subseteq learned',
           \/ UNCHANGED progress
           \/ \E l \in Lesson : progress' = Listed(ModuleOf[l]),
           pressed' = NoPress \/ UNCHANGED pressed,
           \A b \in opened' : \/ b \in opened
                              \/ b \in {"quiz", "answer"} \X Lesson \X Nat /\ LearnedBefore(b[2], b[3])'
    PROVE  AcademyInv'
<1>1. /\ progress' \in [Lesson -> {"none", "open", "done"}]
      /\ IsFiniteSet({l \in Lesson : progress[l] = "done"})'
      /\ ShownAfterOthers' /\ DoneWasLearned' /\ PointsForLessons'
    BY LessonsKept
<1>2. opened' \subseteq {"quiz", "answer"} \X Lesson \X Nat
    BY DEF AcademyInv, AcademyTypes
<1>3. ButtonsBehindAnswers'
    BY DEF AcademyInv, ButtonsBehindAnswers, LearnedBefore
<1>4. PressBehindAnswers' /\ (pressed' # NoPress => pressed'.lesson \in Lesson /\ pressed'.q \in Nat)
    BY DEF AcademyInv, PressBehindAnswers, LearnedBefore, AcademyTypes, NoPress
<1>. QED BY <1>1, <1>2, <1>3, <1>4 DEF AcademyInv, AcademyTypes

\* Behind the last question of a shown lesson: it is done and pays one point.
LEMMA LessonCompleted ==
    ASSUME AcademyInv, NEW l \in Lesson, progress[l] = "open", LearnedBefore(l, Questions[l]),
           progress' = Completed(l), xp' = xp + 1, UNCHANGED learned
    PROVE  /\ progress' \in [Lesson -> {"none", "open", "done"}]
           /\ IsFiniteSet({k \in Lesson : progress[k] = "done"})'
           /\ ShownAfterOthers' /\ DoneWasLearned' /\ PointsForLessons'
<1>. DEFINE done == [progress EXCEPT ![l] = "done"]
            m == ModuleOf[l]
            whole == \A k \in OfModule(m) : done[k] = "done"
            next == OfModule(m) \cap {l + 1}
            behind == IF whole /\ OfModule(m + 1) # {} /\ xp + 1 >= XpFor[m + 1]
                      THEN {FirstOf(m + 1)} ELSE {}
<1>1. l \in Nat /\ m \in Nat /\ ModuleOf \in [Lesson -> Nat] /\ Lesson \subseteq Nat
    BY AcademyAssumption
<1>2. done \in [Lesson -> {"none", "open", "done"}] /\ done[l] = "done"
      /\ \A k \in Lesson : k # l => done[k] = progress[k]
    BY DEF AcademyInv, AcademyTypes
<1>3. progress' = [k \in Lesson |-> IF k \in next \cup behind /\ done[k] = "none"
                                    THEN "open" ELSE done[k]]
    BY Zenon DEF Completed
<1>. HIDE DEF done, next, behind
<1>4. progress' \in [Lesson -> {"none", "open", "done"}]
    BY <1>2, <1>3
<1>5. \A k \in Lesson : progress'[k] = "done" <=> (progress[k] = "done" \/ k = l)
    BY <1>2, <1>3
<1>6. \A k \in Lesson : progress[k] = "done" => progress'[k] = "done"
    BY <1>5
<1>7. ASSUME NEW k \in next PROVE k \in Lesson => OthersDone(k)'
    <2>1. k = l + 1 /\ k \in Lesson /\ ModuleOf[k] = m /\ k - 1 = l
        BY <1>1, <1>7 DEF next, OfModule
    <2>2. FirstOf(ModuleOf[k]) <= l /\ FirstOf(m) \in Nat
        BY <2>1, <1>1, FirstIsFirst
    <2>3. k # FirstOf(ModuleOf[k])
        BY <2>1, <2>2, <1>1
    <2>. QED BY <2>1, <2>3, <1>5 DEF OthersDone
<1>8. ASSUME NEW k \in behind PROVE k \in Lesson => OthersDone(k)'
    <2>1. k = FirstOf(m + 1) /\ OfModule(m + 1) # {}
        BY <1>8 DEF behind
    <2>2. PICK j \in Lesson : ModuleOf[j] = m + 1
        BY <2>1 DEF OfModule
    <2>3. k \in Lesson /\ ModuleOf[k] = m + 1 /\ k = FirstOf(ModuleOf[k])
        BY <2>1, <2>2, FirstIsFirst
    <2>4. ModuleOf[k] - 1 = m
        BY <2>3, <1>1
    <2>5. l \in Done(m)'
        BY <1>5 DEF Done, OfModule
    <2>. QED BY <2>3, <2>4, <2>5 DEF OthersDone
<1>9. ShownAfterOthers'
    <2>1. ASSUME NEW k \in Lesson, progress'[k] # "none" PROVE OthersDone(k)'
        <3>1. CASE k \in next
            BY <3>1, <1>7
        <3>2. CASE k \in behind
            BY <3>2, <1>8
        <3>3. CASE k \notin next \cup behind
            <4>1. progress[k] # "none"
                BY <3>3, <2>1, <1>2, <1>3
            <4>2. OthersDone(k)
                BY <4>1 DEF AcademyInv, ShownAfterOthers
            <4>. QED BY <4>2, <1>4, <1>6, OthersStayDone DEF AcademyInv
        <3>. QED BY <3>1, <3>2, <3>3
    <2>. QED BY <2>1 DEF ShownAfterOthers
<1>10. DoneWasLearned'
    BY <1>5 DEF AcademyInv, DoneWasLearned, LearnedBefore
<1>11. /\ {k \in Lesson : progress'[k] = "done"} = {k \in Lesson : progress[k] = "done"} \cup {l}
       /\ l \notin {k \in Lesson : progress[k] = "done"}
    BY <1>5
<1>12. PointsForLessons' /\ IsFiniteSet({k \in Lesson : progress[k] = "done"})'
    BY <1>11, FS_AddElement DEF AcademyInv, AcademyTypes, PointsForLessons
<1>. QED BY <1>4, <1>9, <1>10, <1>12

(* Every step keeps it. *)
LEMMA AcademyStep == AcademyInv /\ [AcademyNext]_academyVars => AcademyInv'
<1>. SUFFICES ASSUME AcademyInv, [AcademyNext]_academyVars PROVE AcademyInv'
    OBVIOUS
<1>1. ASSUME NEW l \in Lesson, ShowModule(ModuleOf[l]) PROVE AcademyInv'
    BY <1>1, ButtonsAdded DEF ShowModule
<1>2. ASSUME NEW l \in Lesson, ShowLesson(l) PROVE AcademyInv'
    <2>1. opened' \subseteq opened \cup {<<"quiz", l, 0>>}
        BY <1>2 DEF ShowLesson
    <2>2. LearnedBefore(l, 0)'
        BY DEF LearnedBefore
    <2>3. <<"quiz", l, 0>> \in {"quiz", "answer"} \X Lesson \X Nat
        OBVIOUS
    <2>4. /\ progress' = Listed(ModuleOf[l]) /\ UNCHANGED <<xp, pressed, learned>>
        BY <1>2 DEF ShowLesson
    <2>. QED BY <2>1, <2>2, <2>3, <2>4, ButtonsAdded
<1>3. ASSUME NEW b \in opened, StartQuiz(b[2], b[3]) PROVE AcademyInv'
    <2>1. b[2] \in Lesson
        BY DEF AcademyInv, AcademyTypes
    <2>2. opened' \subseteq opened \cup {<<"answer", b[2], 0>>}
        BY <1>3 DEF StartQuiz
    <2>3. LearnedBefore(b[2], 0)'
        BY DEF LearnedBefore
    <2>4. <<"answer", b[2], 0>> \in {"quiz", "answer"} \X Lesson \X Nat
        BY <2>1
    <2>5. /\ progress' = Listed(ModuleOf[b[2]]) /\ UNCHANGED <<xp, pressed, learned>>
        BY <1>3 DEF StartQuiz
    <2>. QED BY <2>1, <2>2, <2>3, <2>4, <2>5, ButtonsAdded
<1>4. ASSUME NEW b \in opened, Press(b[1], b[2], b[3]) PROVE AcademyInv'
    <2>1. b[2] \in Lesson /\ b[3] \in Nat /\ LearnedBefore(b[2], b[3])
        BY DEF AcademyInv, AcademyTypes, ButtonsBehindAnswers
    <2>2. pressed'.lesson = b[2] /\ pressed'.q = b[3] /\ UNCHANGED <<progress, xp, opened, learned>>
        BY <1>4 DEF Press
    <2>3. /\ progress' \in [Lesson -> {"none", "open", "done"}]
          /\ IsFiniteSet({l \in Lesson : progress[l] = "done"})'
          /\ ShownAfterOthers' /\ DoneWasLearned' /\ PointsForLessons'
        BY <2>2, LessonsKept
    <2>4. AcademyTypes' /\ PressBehindAnswers'
        BY <2>1, <2>2, <2>3 DEF AcademyInv, AcademyTypes, PressBehindAnswers, LearnedBefore
    <2>. QED BY <2>2, <2>3, <2>4 DEF AcademyInv, ButtonsBehindAnswers, LearnedBefore
<1>5. ASSUME pressed.kind \in {"quiz", "answer"}
      PROVE  \E l \in Lesson, q \in Nat : /\ pressed.lesson = l /\ pressed.q = q
                                          /\ LearnedBefore(l, q)
    BY <1>5 DEF NoPress, AcademyInv, AcademyTypes, PressBehindAnswers
<1>6. CASE QuizNext
    <2>1. PICK l \in Lesson, q \in Nat : /\ pressed.lesson = l /\ pressed.q = q
                                         /\ LearnedBefore(l, q)
        BY <1>5, <1>6 DEF QuizNext
    <2>2. /\ opened' = opened \cup {<<"answer", l, q>>} /\ pressed' = NoPress
          /\ UNCHANGED <<progress, xp, learned>>
        BY <1>6, <2>1 DEF QuizNext
    <2>3. LearnedBefore(l, q)'
        BY <2>1, <2>2 DEF LearnedBefore
    <2>4. <<"answer", l, q>> \in {"quiz", "answer"} \X Lesson \X Nat
        OBVIOUS
    <2>. QED BY <2>2, <2>3, <2>4, ButtonsAdded
<1>7. ASSUME NEW right \in BOOLEAN, HandleAnswer(right) PROVE AcademyInv'
    <2>1. PICK l \in Lesson, q \in Nat : /\ pressed.lesson = l /\ pressed.q = q
                                         /\ LearnedBefore(l, q)
        BY <1>5, <1>7 DEF HandleAnswer
    <2>. DEFINE n == NextButton(right, q)
    <2>2. /\ opened' = opened \cup {<<"quiz", l, n>>} /\ pressed' = NoPress
          /\ learned' = IF right THEN learned \cup {<<l, q>>} ELSE learned
          /\ UNCHANGED <<progress, xp>>
        BY <1>7, <2>1 DEF HandleAnswer
    <2>3. n \in Nat /\ n = IF right THEN q + 1 ELSE q
        BY DEF NextButton
    <2>4. LearnedBefore(l, n)'
        BY <2>1, <2>2, <2>3 DEF LearnedBefore
    <2>. HIDE DEF n
    <2>5. <<"quiz", l, n>> \in {"quiz", "answer"} \X Lesson \X Nat
        BY <2>3
    <2>6. learned \subseteq learned'
        BY <2>2
    <2>. QED BY <2>2, <2>4, <2>5, <2>6, ButtonsAdded
<1>8. CASE FinishQuiz
    <2>1. PICK l \in Lesson, q \in Nat : /\ pressed.lesson = l /\ pressed.q = q
                                         /\ LearnedBefore(l, q)
        BY <1>5, <1>8 DEF FinishQuiz
    <2>2. pressed' = NoPress /\ UNCHANGED <<opened, learned>>
        BY <1>8 DEF FinishQuiz
    <2>3. CASE progress[l] = "open"
        <3>1. q >= Questions[l] /\ Questions[l] \in Nat
            BY <1>8, <2>1, AcademyAssumption DEF FinishQuiz
        <3>2. LearnedBefore(l, Questions[l])
            BY <2>1, <3>1 DEF LearnedBefore
        <3>3. progress' = Completed(l) /\ xp' = xp + 1
            BY <1>8, <2>1, <2>3 DEF FinishQuiz
        <3>4. /\ progress' \in [Lesson -> {"none", "open", "done"}]
              /\ IsFiniteSet({k \in Lesson : progress[k] = "done"})'
              /\ ShownAfterOthers' /\ DoneWasLearned' /\ PointsForLessons'
            BY <2>2, <2>3, <3>2, <3>3, LessonCompleted
        <3>. QED BY <2>2, <3>4 DEF AcademyInv, AcademyTypes, ButtonsBehindAnswers,
                        PressBehindAnswers, LearnedBefore
    <2>4. CASE progress[l] # "open"
        <3>1. UNCHANGED <<progress, xp>>
            BY <1>8, <2>1, <2>4 DEF FinishQuiz
        <3>. QED BY <2>2, <3>1, ButtonsAdded
    <2>. QED BY <2>3, <2>4
<1>9. CASE UNCHANGED <<progress, xp, opened, pressed, learned>>
    BY <1>9, ButtonsAdded
<1>10. ASSUME BackToAcademyMain \/ ReceiveQuestion \/ CancelAsk
              \/ (\E m \in Lesson \cup {NoLesson} : StartAskAi(m))
              \/ (\E ok \in BOOLEAN : MentorAnswers(ok)) \/ UNCHANGED academyVars
       PROVE  AcademyInv'
    BY <1>9, <1>10 DEF BackToAcademyMain, ReceiveQuestion, CancelAsk, StartAskAi, MentorAnswers,
                       academyVars
<1>. QED BY <1>1, <1>2, <1>3, <1>4, <1>6, <1>7, <1>8, <1>10 DEF AcademyNext

LEMMA AcademyInvariant == AcademySpec => []AcademyInv
<1>. QED BY AcademyStart, AcademyStep, PTL DEF AcademySpec

(* Whatever quizzes, old buttons and presses that read the dialogue before     *)
(* another one overlap, for any lessons, modules and numbers of questions: a   *)
(* lesson is done, and paid for once, only after each of its questions was     *)
(* answered right and after the lesson before it, or one of the module before. *)
THEOREM LessonsAreLearnedAlways == AcademySpec => []LessonsAreLearned
<1>1. AcademyInv => LessonsAreLearned
    <2>1. ASSUME AcademyInv, NEW l \in Lesson, progress[l] = "done"
          PROVE  /\ \A q \in 0..(Questions[l] - 1) : <<l, q>> \in learned
                 /\ l # FirstOf(ModuleOf[l]) => progress[l - 1] = "done"
                 /\ l = FirstOf(ModuleOf[l]) /\ ModuleOf[l] > 1 => Done(ModuleOf[l] - 1) # {}
        <3>1. OthersDone(l) /\ LearnedBefore(l, Questions[l])
            BY <2>1 DEF AcademyInv, ShownAfterOthers, DoneWasLearned
        <3>. QED BY <3>1 DEF OthersDone, LearnedBefore
    <2>. QED BY <2>1 DEF LessonsAreLearned, AcademyInv, PointsForLessons
<1>. QED BY <1>1, AcademyInvariant, PTL

------------------------------------------------------------------------------
(* Repairs. What main has had is in main or lost; a branch that waits for its  *)
(* merge is what its run read with its own change; and a run whose change has  *)
(* come to main is over.                                                       *)

Change == Run \cup {People}
Had == main \cup lost
Branch == (SUBSET Change) \cup {NoBranch}

RepairTypes ==
    /\ main \subseteq Change /\ lost \subseteq Change
    /\ phase \in [Run -> {"idle", "planning", "patching", "waiting", "over"}]
    /\ read \in [Run -> SUBSET Change] /\ base \in [Run -> Branch]
    /\ head \in [Run -> Branch]
    /\ tries \in [Run -> Nat]
    /\ ci \in [Run -> {"none", "passed", "failed"}] /\ cut \subseteq Run

\* The branch of r, of what main has had, with r's own change.
BranchCounts(r) ==
    /\ base[r] # NoBranch => base[r] \subseteq Had
    /\ phase[r] = "idle" => base[r] = NoBranch
    /\ read[r] \subseteq Had \cup {r}
    /\ head[r] # NoBranch => base[r] # NoBranch /\ head[r] \subseteq Had \cup {r} /\ r \in head[r]
    /\ phase[r] = "waiting" => tries[r] > 0 /\ head[r] # NoBranch /\ head[r] = read[r] \cup {r}
    /\ phase[r] = "patching" => base[r] # NoBranch
    /\ tries[r] > 0 \/ (r \in OwnerRun /\ base[r] # NoBranch) => head[r] # NoBranch

\* The support's repair has in its files what its branch was made of, and is not lost,
\* unless it was shown less.
ShownItsBranch(r) ==
    r \in SupportRun =>
        /\ phase[r] # "idle" => base[r] # NoBranch
        /\ phase[r] = "patching" /\ r \notin cut => base[r] \subseteq read[r] \cup lost
        /\ tries[r] > 0 /\ r \notin cut => base[r] \subseteq head[r] \cup lost

OverWhenIn(r) == r \in Had => phase[r] = "over"

RepairsInv == RepairTypes /\ \A r \in Run : BranchCounts(r) /\ ShownItsBranch(r) /\ OverWhenIn(r)

\* A run that a step leaves as it is, while main stays, is as before.
LEMMA RunLeftAlone ==
    ASSUME NEW x \in Run, BranchCounts(x), ShownItsBranch(x), OverWhenIn(x), UNCHANGED <<main, lost>>,
           phase'[x] = phase[x], read'[x] = read[x], base'[x] = base[x], head'[x] = head[x],
           tries'[x] = tries[x], ci'[x] = ci[x], x \in cut' <=> x \in cut
    PROVE  BranchCounts(x)' /\ ShownItsBranch(x)' /\ OverWhenIn(x)'
BY DEF BranchCounts, ShownItsBranch, OverWhenIn, Had

\* A step of one run that leaves main.
LEMMA OneRunActs ==
    ASSUME RepairsInv, NEW r \in Run, UNCHANGED <<main, lost>>, RepairTypes',
           \A x \in Run \ {r} : /\ phase'[x] = phase[x] /\ read'[x] = read[x] /\ base'[x] = base[x]
                                /\ head'[x] = head[x] /\ tries'[x] = tries[x] /\ ci'[x] = ci[x]
                                /\ x \in cut' <=> x \in cut,
           BranchCounts(r)' /\ ShownItsBranch(r)' /\ OverWhenIn(r)'
    PROVE  RepairsInv'
BY RunLeftAlone DEF RepairsInv

(* At the start main is empty. *)
LEMMA RepairsStart == RepairsInit => RepairsInv
<1>. SUFFICES ASSUME RepairsInit PROVE RepairsInv
    OBVIOUS
<1>1. NoBranch \in Branch /\ {} \in Branch
    <2>1. {} \in SUBSET Change
        OBVIOUS
    <2>. QED BY <2>1 DEF Branch
<1>3. RepairTypes
    BY <1>1 DEF RepairsInit, RepairTypes
<1>4. ASSUME NEW r \in Run PROVE BranchCounts(r) /\ ShownItsBranch(r) /\ OverWhenIn(r)
    BY DEF RepairsInit, BranchCounts, ShownItsBranch, OverWhenIn, Had
<1>. QED BY <1>3, <1>4 DEF RepairsInv

(* No run's name is that of a missing branch, and no branch is missing that    *)
(* has changes in it.                                                          *)
LEMMA NoChangeIsNone == NoBranch \notin SUBSET Change
BY RepairsAssumption DEF NoBranch, Change, Run

(* Every step keeps it. *)
LEMMA RepairsStep == RepairsInv /\ [RepairsNext]_repairVars => RepairsInv'
<1>. SUFFICES ASSUME RepairsInv, [RepairsNext]_repairVars PROVE RepairsInv'
    OBVIOUS
<1>. USE NoChangeIsNone
<1>1. ASSUME NEW r \in Run, phase' = Set(phase, r, phase'[r]), UNCHANGED <<main, lost, base, head, tries, ci>>,
             phase'[r] \in {"planning", "patching", "over"},
             read' = Set(read, r, read'[r]), read'[r] \in SUBSET Change,
             cut' = cut \/ cut' = cut \cup {r},
             read'[r] \subseteq Had \cup {r},
             phase'[r] = "patching" => base[r] # NoBranch,
             r \in Had => phase'[r] = "over",
             ShownItsBranch(r)'
      PROVE  RepairsInv'
    <2>1. RepairTypes'
        BY <1>1 DEF RepairsInv, RepairTypes, Set
    <2>2. phase'[r] # "idle" /\ BranchCounts(r)
        BY <1>1 DEF RepairsInv
    <2>3. BranchCounts(r)'
        BY <1>1, <2>2 DEF BranchCounts, Had
    <2>4. OverWhenIn(r)'
        BY <1>1 DEF RepairsInv, OverWhenIn, Had
    <2>. QED BY <1>1, <2>1, <2>3, <2>4, OneRunActs DEF RepairsInv, RepairTypes, Set
<1>2. ASSUME NEW r \in Run, UNCHANGED <<main, lost, read, cut>>, phase[r] \in {"planning", "patching"},
             base' = Set(base, r, IF base[r] = NoBranch THEN main ELSE base[r]),
             Commits(r, read[r] \cup {r}), r \in SupportRun => phase[r] = "patching"
      PROVE  RepairsInv'
    <2>. DEFINE files == read[r] \cup {r}
    <2>1. /\ BranchCounts(r) /\ ShownItsBranch(r) /\ OverWhenIn(r) /\ RepairTypes
          /\ r \in Change /\ main \subseteq Had
        BY DEF RepairsInv, Change, Had
    <2>2. files \in SUBSET Change /\ files # NoBranch /\ tries[r] \in Nat
        BY <2>1 DEF RepairTypes
    <2>3. /\ head' = [head EXCEPT ![r] = files] /\ ci' = [ci EXCEPT ![r] = "none"]
          /\ tries' = [tries EXCEPT ![r] = tries[r] + 1] /\ phase' = [phase EXCEPT ![r] = "waiting"]
          /\ base' = [base EXCEPT ![r] = IF base[r] = NoBranch THEN main ELSE base[r]]
        BY <1>2 DEF Commits, Set
    <2>. HIDE DEF files
    <2>4. files \in Branch /\ main \in Branch
        BY <2>1, <2>2 DEF Branch, RepairTypes
    <2>5. RepairTypes'
        <3>1. (IF base[r] = NoBranch THEN main ELSE base[r]) \in Branch
            BY <2>1, <2>4 DEF RepairTypes
        <3>2. base' \in [Run -> Branch] /\ head' \in [Run -> Branch]
            BY <2>1, <2>3, <2>4, <3>1 DEF RepairTypes
        <3>3. ci' \in [Run -> {"none", "passed", "failed"}]
            BY <2>1, <2>3 DEF RepairTypes
        <3>4. /\ tries' \in [Run -> Nat]
              /\ phase' \in [Run -> {"idle", "planning", "patching", "waiting", "over"}]
            BY <2>1, <2>2, <2>3 DEF RepairTypes
        <3>. QED BY <1>2, <2>1, <3>2, <3>3, <3>4 DEF RepairTypes
    <2>6. /\ head'[r] = files /\ ci'[r] = "none" /\ tries'[r] = tries[r] + 1 /\ phase'[r] = "waiting"
          /\ base'[r] = IF base[r] = NoBranch THEN main ELSE base[r]
        BY <2>1, <2>3 DEF RepairTypes
    <2>7. base'[r] # NoBranch /\ base'[r] \subseteq Had
        BY <2>1, <2>6 DEF BranchCounts, RepairTypes
    <2>8. BranchCounts(r)'
        BY <1>2, <2>1, <2>2, <2>6, <2>7 DEF BranchCounts, Had, files
    <2>9. ShownItsBranch(r)'
        BY <1>2, <2>1, <2>6, <2>7 DEF ShownItsBranch, BranchCounts, files
    <2>10. OverWhenIn(r)'
        BY <1>2, <2>1, <2>2, <2>6 DEF OverWhenIn, Had
    <2>. QED BY <1>2, <2>3, <2>5, <2>8, <2>9, <2>10, OneRunActs, <2>1 DEF RepairTypes
<1>3. ASSUME NEW r \in Run, Merges(r) PROVE RepairsInv'
    <2>1. /\ BranchCounts(r) /\ ShownItsBranch(r) /\ OverWhenIn(r) /\ RepairTypes /\ r \in Change
        BY DEF RepairsInv, Change
    <2>2. /\ phase[r] = "waiting" /\ ci[r] = "passed"
          /\ main' = (main \ (base[r] \ head[r])) \cup (head[r] \ base[r])
          /\ lost' = lost \cup (main \ main')
          /\ phase' = [phase EXCEPT ![r] = "over"] /\ UNCHANGED <<read, base, head, tries, ci, cut>>
        BY <1>3 DEF Merges, Passed, Merged, Set
    <2>3. /\ r \notin Had /\ base[r] # NoBranch /\ base[r] \subseteq Had /\ r \in head[r]
          /\ head[r] \subseteq Had \cup {r}
        BY <2>1, <2>2 DEF BranchCounts, OverWhenIn
    <2>4. /\ r \in main' /\ Had' = Had \cup {r} /\ lost \subseteq lost'
        BY <2>2, <2>3 DEF Had
    <2>5. RepairTypes'
        BY <2>1, <2>2, <2>3, <2>4 DEF RepairTypes, Had
    <2>6. ASSUME NEW x \in Run PROVE BranchCounts(x)' /\ ShownItsBranch(x)'
        <3>1. BranchCounts(x) /\ ShownItsBranch(x)
            BY DEF RepairsInv
        <3>2. BranchCounts(x)'
            BY <2>1, <2>2, <2>4, <3>1 DEF BranchCounts, RepairTypes
        <3>3. ShownItsBranch(x)'
            BY <2>1, <2>2, <2>3, <2>4, <3>1 DEF ShownItsBranch, RepairTypes
        <3>. QED BY <3>2, <3>3
    <2>7. ASSUME NEW x \in Run PROVE OverWhenIn(x)'
        <3>1. OverWhenIn(x)
            BY DEF RepairsInv
        <3>2. x \in Had' => phase'[x] = "over"
            BY <2>1, <2>2, <2>4, <3>1 DEF OverWhenIn, RepairTypes
        <3>. QED BY <2>2, <2>3, <2>4, <3>1, <3>2 DEF OverWhenIn
    <2>. QED BY <2>5, <2>6, <2>7 DEF RepairsInv
<1>4. ASSUME NEW r \in Run, NEW verdict \in {"passed", "failed"}, CiRuns(r, verdict) PROVE RepairsInv'
    <2>1. /\ BranchCounts(r) /\ ShownItsBranch(r) /\ OverWhenIn(r) /\ RepairTypes
        BY DEF RepairsInv
    <2>2. /\ phase[r] = "waiting" /\ UNCHANGED <<main, lost, phase, read, base, head, tries, cut>>
          /\ ci' = [ci EXCEPT ![r] = verdict]
        BY <1>4 DEF CiRuns, Set
    <2>3. RepairTypes'
        BY <2>1, <2>2 DEF RepairTypes, Branch
    <2>4. BranchCounts(r)' /\ ShownItsBranch(r)'
        BY <2>1, <2>2 DEF BranchCounts, ShownItsBranch, Had
    <2>5. OverWhenIn(r)'
        BY <2>1, <2>2 DEF OverWhenIn, Had, RepairTypes
    <2>. QED BY <2>1, <2>2, <2>3, <2>4, <2>5, OneRunActs DEF RepairTypes
<1>5. CASE Pushed
    <2>1. /\ People \notin Had /\ main' = main \cup {People}
          /\ UNCHANGED <<lost, phase, read, base, head, tries, ci, cut>>
        BY <1>5 DEF Pushed, Had
    <2>2. RepairTypes' /\ People \notin Run
        BY <2>1, RepairsAssumption DEF RepairsInv, RepairTypes, Change, Run
    <2>3. ASSUME NEW x \in Run PROVE BranchCounts(x)' /\ ShownItsBranch(x)' /\ OverWhenIn(x)'
        <3>1. BranchCounts(x) /\ ShownItsBranch(x) /\ OverWhenIn(x)
            BY DEF RepairsInv
        <3>2. Had' = Had \cup {People}
            BY <2>1 DEF Had
        <3>3. BranchCounts(x)' /\ ShownItsBranch(x)'
            BY <2>1, <3>1, <3>2 DEF BranchCounts, ShownItsBranch
        <3>. QED BY <2>1, <2>2, <3>1, <3>2, <3>3 DEF OverWhenIn
    <2>. QED BY <2>2, <2>3 DEF RepairsInv
<1>6. CASE Redeployed
    <2>1. /\ UNCHANGED <<main, lost, read, base, head, tries, ci, cut>>
          /\ phase' = [r \in Run |-> IF phase[r] = "idle" THEN "idle" ELSE "over"]
        BY <1>6 DEF Redeployed
    <2>2. RepairTypes'
        BY <2>1 DEF RepairsInv, RepairTypes
    <2>3. ASSUME NEW x \in Run PROVE BranchCounts(x)' /\ ShownItsBranch(x)' /\ OverWhenIn(x)'
        <3>1. BranchCounts(x) /\ ShownItsBranch(x) /\ OverWhenIn(x)
            BY DEF RepairsInv
        <3>2. phase'[x] = IF phase[x] = "idle" THEN "idle" ELSE "over"
            BY <2>1
        <3>. QED BY <2>1, <3>1, <3>2 DEF BranchCounts, ShownItsBranch, OverWhenIn, Had
    <2>. QED BY <2>2, <2>3 DEF RepairsInv
<1>7. CASE UNCHANGED repairVars
    BY <1>7, RunLeftAlone DEF repairVars, RepairsInv, RepairTypes
<1>8. ASSUME NEW r \in Run, OwnerModifies(r) \/ SupportPatches(r) PROVE RepairsInv'
    <2>1. /\ UNCHANGED <<main, lost, read, cut>> /\ phase[r] \in {"planning", "patching"}
          /\ base' = Set(base, r, IF base[r] = NoBranch THEN main ELSE base[r])
          /\ Commits(r, read[r] \cup {r})
        BY <1>8 DEF OwnerModifies, SupportPatches, OwnerFiles, SupportFiles, BranchOf
    <2>2. r \in SupportRun => phase[r] = "patching"
        BY <1>8, RepairsAssumption DEF OwnerModifies, SupportPatches
    <2>. QED BY <1>2, <2>1, <2>2
<1>9. ASSUME NEW r \in Run, OwnerStarts(r) \/ OwnerInspects(r) \/ OwnerGoesOn(r) PROVE RepairsInv'
    <2>1. /\ BranchCounts(r) /\ OverWhenIn(r) /\ RepairTypes
        BY DEF RepairsInv
    <2>2. /\ r \in OwnerRun /\ r \notin SupportRun
          /\ UNCHANGED <<main, lost, base, head, tries, ci>>
        BY <1>9, RepairsAssumption DEF OwnerStarts, OwnerInspects, OwnerGoesOn
    <2>6. phase' = Set(phase, r, "planning")
        <3>1. CASE OwnerInspects(r)
            BY <2>1, <3>1 DEF OwnerInspects, RepairTypes, Set
        <3>. QED BY <1>9, <3>1 DEF OwnerStarts, OwnerGoesOn
    <2>3. phase'[r] = "planning" /\ r \notin Had
        BY <1>9, <2>1, <2>6 DEF RepairTypes, Set, OverWhenIn, OwnerStarts, OwnerInspects, OwnerGoesOn
    <2>4. CASE UNCHANGED <<read, cut>>
        <3>1. read' = Set(read, r, read'[r]) /\ read'[r] \in SUBSET Change /\ read'[r] \subseteq Had \cup {r}
            BY <2>1, <2>4 DEF Set, RepairTypes, BranchCounts
        <3>. QED BY <1>1, <2>2, <2>3, <2>4, <2>6, <3>1 DEF ShownItsBranch
    <2>5. ASSUME NEW files, files = main \/ files = OwnerShown(r), Reads(r, files)
          PROVE  RepairsInv'
        <3>0. PICK glimpse \in SUBSET files :
                  /\ read' = Set(read, r, glimpse)
                  /\ (cut' = cut \/ cut' = cut \cup {r})
            BY <2>5 DEF Reads
        <3>1. glimpse \in SUBSET Change /\ glimpse \subseteq Had \cup {r}
            BY <2>1, <2>2, <2>5, <3>0 DEF OwnerShown, RepairTypes, BranchCounts, Had, Branch
        <3>2. read'[r] = glimpse
            BY <2>1, <3>0 DEF RepairTypes, Set
        <3>. QED BY <1>1, <2>2, <2>3, <2>6, <3>0, <3>1, <3>2 DEF ShownItsBranch
    <2>. QED BY <1>9, <2>4, <2>5 DEF OwnerStarts, OwnerInspects, OwnerGoesOn
<1>10. ASSUME NEW r \in Run, SupportReads(r) \/ SupportTriesAgain(r) \/ GivesUp(r) PROVE RepairsInv'
    <2>1. /\ BranchCounts(r) /\ ShownItsBranch(r) /\ OverWhenIn(r) /\ RepairTypes
        BY DEF RepairsInv
    <2>2. UNCHANGED <<main, lost, base, head, tries, ci>> /\ phase[r] # "over"
        BY <1>10 DEF SupportReads, SupportTriesAgain, GivesUp
    <2>3. ASSUME NEW p \in {"planning", "over"}, phase' = Set(phase, r, p), UNCHANGED <<read, cut>>,
                 phase[r] # "idle"
          PROVE  RepairsInv'
        <3>1. /\ read' = Set(read, r, read'[r]) /\ read'[r] \in SUBSET Change
              /\ read'[r] \subseteq Had \cup {r} /\ phase'[r] = p
            BY <2>1, <2>3 DEF Set, RepairTypes, BranchCounts
        <3>2. ShownItsBranch(r)' /\ r \notin Had
            BY <2>1, <2>2, <2>3, <3>1 DEF ShownItsBranch, OverWhenIn
        <3>. QED BY <1>1, <2>2, <2>3, <3>1, <3>2
    <2>4. CASE SupportReads(r)
        <3>1. /\ r \in SupportRun /\ phase[r] = "planning" /\ phase' = Set(phase, r, "patching")
            BY <2>4 DEF SupportReads
        <3>0. PICK glimpse \in SUBSET SupportShown(r) :
                  /\ read' = Set(read, r, glimpse)
                  /\ cut' = IF glimpse = SupportShown(r) THEN cut ELSE cut \cup {r}
            BY <2>4 DEF SupportReads, Reads
        <3>2. base[r] # NoBranch /\ base[r] \subseteq Had /\ r \notin Had
            BY <2>1, <2>2, <3>1 DEF ShownItsBranch, BranchCounts, OverWhenIn
        <3>3. /\ SupportShown(r) \in SUBSET Change /\ SupportShown(r) \subseteq Had \cup {r}
              /\ r \notin cut => base[r] \subseteq SupportShown(r) \cup lost
            BY <2>1, <3>1, <3>2 DEF SupportShown, RepairTypes, BranchCounts, ShownItsBranch, Had, Branch
        <3>4. read'[r] = glimpse /\ phase'[r] = "patching"
            BY <2>1, <3>0, <3>1 DEF RepairTypes, Set
        <3>5. ShownItsBranch(r)'
            BY <2>1, <2>2, <3>0, <3>2, <3>3, <3>4 DEF ShownItsBranch
        <3>. QED BY <1>1, <2>2, <3>0, <3>1, <3>2, <3>3, <3>4, <3>5
    <2>. QED BY <1>10, <2>2, <2>3, <2>4 DEF SupportTriesAgain, GivesUp
<1>11. ASSUME NEW r \in Run, SupportStarts(r) PROVE RepairsInv'
    <2>1. /\ BranchCounts(r) /\ ShownItsBranch(r) /\ OverWhenIn(r) /\ RepairTypes
        BY DEF RepairsInv
    <2>2. /\ r \in SupportRun /\ phase[r] = "idle" /\ phase' = [phase EXCEPT ![r] = "planning"]
          /\ base' = [base EXCEPT ![r] = BranchOf(r)] /\ UNCHANGED <<main, lost, read, head, tries, ci, cut>>
        BY <1>11 DEF SupportStarts, Set
    <2>3. BranchOf(r) = main /\ main \in Branch /\ main # NoBranch /\ main \subseteq Had
        BY <2>1, <2>2 DEF BranchOf, BranchCounts, RepairTypes, Branch, Had
    <2>4. RepairTypes'
        BY <2>1, <2>2, <2>3 DEF RepairTypes
    <2>5. phase'[r] = "planning" /\ base'[r] = main
        BY <2>1, <2>2, <2>3 DEF RepairTypes
    <2>6. head[r] = NoBranch /\ ~ (tries[r] > 0)
        BY <2>1, <2>2 DEF BranchCounts
    <2>7. BranchCounts(r)' /\ ShownItsBranch(r)' /\ OverWhenIn(r)'
        BY <2>1, <2>2, <2>3, <2>5, <2>6, RepairsAssumption DEF BranchCounts, ShownItsBranch, OverWhenIn, Had
    <2>. QED BY <2>1, <2>2, <2>4, <2>7, OneRunActs DEF RepairTypes
<1>. QED BY <1>3, <1>4, <1>5, <1>6, <1>7, <1>8, <1>9, <1>10, <1>11 DEF RepairsNext

LEMMA RepairsInvariant == RepairsSpec => []RepairsInv
<1>. QED BY RepairsStart, RepairsStep, PTL DEF RepairsSpec

(* A branch is merged into main as it is, whichever runs and people change it  *)
(* at the same time: what a support's repair takes out was lost before, or was *)
(* not shown to it; what an owner's run takes out came to main between its     *)
(* reading and its branch, or was not shown to it.                             *)
THEOREM OnlyUnreadIsLost == RepairsSpec => LostOnlyUnread
<1>. DEFINE Loses == \A c \in main \ (main' \cup lost) :
                        \E r \in OwnerRun \cup cut : phase[r] # phase'[r] /\ c \in base[r] \ read[r]
<1>1. RepairsInv /\ [RepairsNext]_repairVars => [Loses]_repairVars
    <2>. SUFFICES ASSUME RepairsInv, RepairsNext, NEW c \in main \ (main' \cup lost)
                  PROVE  \E r \in OwnerRun \cup cut :
                             phase[r] # phase'[r] /\ c \in base[r] \ read[r]
        OBVIOUS
    <2>1. CASE main \subseteq main'
        BY <2>1
    <2>2. ASSUME NEW r \in Run, Merges(r)
          PROVE  \E x \in OwnerRun \cup cut : phase[x] # phase'[x] /\ c \in base[x] \ read[x]
        <3>1. BranchCounts(r) /\ ShownItsBranch(r) /\ OverWhenIn(r) /\ RepairTypes
            BY DEF RepairsInv
        <3>2. phase[r] = "waiting" /\ c \in base[r] \ head[r] /\ phase'[r] = "over"
            BY <2>2, <3>1 DEF Merges, Merged, Set, RepairTypes
        <3>3. head[r] = read[r] \cup {r}
            BY <3>1, <3>2 DEF BranchCounts
        <3>4. r \in SupportRun => r \in cut
            BY <3>1, <3>2 DEF ShownItsBranch, BranchCounts
        <3>. QED BY <3>2, <3>3, <3>4 DEF Run
    <2>3. CASE Pushed
        BY <2>1, <2>3 DEF Pushed
    <2>4. main' # main => Pushed \/ \E r \in Run : Merges(r)
        BY DEF RepairsNext, OwnerStarts, OwnerInspects, OwnerModifies, OwnerGoesOn, SupportStarts,
               SupportReads, SupportPatches, SupportTriesAgain, CiRuns, GivesUp, Redeployed
    <2>. QED BY <2>1, <2>2, <2>3, <2>4
<1>. QED BY <1>1, RepairsInvariant, PTL DEF RepairsSpec, LostOnlyUnread

------------------------------------------------------------------------------
(* The admin panel. Every note is of the transaction that writes its row, but  *)
(* for a founding that is finalized, which is over when it is noted.           *)

Note == [kind : {"admin_ban", "admin_unban", "admin_end_war", "admin_profile_ban",
                 "admin_profile_unban", "toggle", "update", "admin_founding_cancel",
                 "admin_founding_finalize"},
         on : ({"player"} \X Subject) \cup ({"switch"} \X Switch) \cup ({"draft"} \X Draft)
              \cup {WarRow},
         says : {"banned", "active", "on", "off", "CANCELLED", "COMPLETED"} \cup Result]

NotesOn(s, about) == {i \in 1..Len(s) : s[i].on = about}

LastOn(s, about) == LET i == SelectLastInSeq(s, LAMBDA n : n.on = about)
                  IN  IF i = 0 THEN NothingNoted ELSE s[i]

\* The last note about a row is the last place that is about it.
LEMMA LastNoteIs ==
    ASSUME NEW about, NEW s \in Seq(Note)
    PROVE  \/ NotesOn(s, about) = {} /\ LastOn(s, about) = NothingNoted
           \/ /\ NotesOn(s, about) # {} /\ LastOn(s, about) = s[Max(NotesOn(s, about))]
              /\ Max(NotesOn(s, about)) \in NotesOn(s, about)
              /\ \A i \in NotesOn(s, about) : i <= Max(NotesOn(s, about))
<1>1. Len(s) \in Nat /\ NotesOn(s, about) \in SUBSET (1..Len(s))
    BY DEF NotesOn
<1>2. CASE NotesOn(s, about) = {}
    BY <1>2 DEF LastOn, SelectLastInSeq, NotesOn
<1>3. CASE NotesOn(s, about) # {}
    <2>1. /\ Max(NotesOn(s, about)) \in NotesOn(s, about)
          /\ \A i \in NotesOn(s, about) : i <= Max(NotesOn(s, about))
        BY <1>1, <1>3, LastPlace
    <2>2. Max(NotesOn(s, about)) # 0
        BY <1>1, <2>1
    <2>3. LastOn(s, about) = s[Max(NotesOn(s, about))]
        BY <1>3, <2>2 DEF LastOn, SelectLastInSeq, NotesOn
    <2>. QED BY <1>3, <2>1, <2>3
<1>. QED BY <1>2, <1>3

\* A note becomes the last one about its row, and changes nothing for the others.
LEMMA NoteAppended ==
    ASSUME NEW about, NEW n \in Note, ledger \in Seq(Note), ledger' = Append(ledger, n)
    PROVE  LastNote(about)' = IF n.on = about THEN n ELSE LastNote(about)
<1>. DEFINE s == Append(ledger, n)
            I == NotesOn(ledger, about)
            J == NotesOn(s, about)
<1>1. /\ s \in Seq(Note) /\ Len(s) = Len(ledger) + 1 /\ Len(ledger) \in Nat
      /\ s[Len(ledger) + 1] = n
      /\ \A i \in 1..Len(ledger) : s[i] = ledger[i]
    OBVIOUS
<1>2. LastNote(about) = LastOn(ledger, about) /\ LastNote(about)' = LastOn(s, about)
    <2>1. LastNote(about) = LastOn(ledger, about)
        BY DEF LastNote, LastOn
    <2>2. LastNote(about)' = LastOn(ledger', about)
        BY DEF LastNote, LastOn, SelectLastInSeq, NothingNoted
    <2>. QED BY <2>1, <2>2
<1>. HIDE DEF s
<1>3. J = IF n.on = about THEN I \cup {Len(ledger) + 1} ELSE I
    BY <1>1 DEF NotesOn
<1>4. I \subseteq 1..Len(ledger) /\ J \subseteq 1..(Len(ledger) + 1)
    BY <1>1 DEF NotesOn
<1>5. \/ I = {} /\ LastOn(ledger, about) = NothingNoted
      \/ I # {} /\ LastOn(ledger, about) = ledger[Max(I)] /\ Max(I) \in I
    BY LastNoteIs
<1>6. \/ J = {} /\ LastOn(s, about) = NothingNoted
      \/ /\ J # {} /\ LastOn(s, about) = s[Max(J)] /\ Max(J) \in J
         /\ \A i \in J : i <= Max(J)
    BY <1>1, LastNoteIs
<1>. HIDE DEF I, J
<1>7. CASE n.on = about
    <2>1. Len(ledger) + 1 \in J /\ J # {}
        BY <1>3, <1>7
    <2>2. Max(J) \in 1..(Len(ledger) + 1) /\ Len(ledger) + 1 <= Max(J)
        BY <1>4, <1>6, <2>1
    <2>3. Max(J) = Len(ledger) + 1
        BY <1>1, <2>2
    <2>. QED BY <1>1, <1>2, <1>6, <1>7, <2>1, <2>3
<1>8. CASE n.on # about
    <2>1. J = I
        BY <1>3, <1>8
    <2>. QED BY <1>1, <1>2, <1>4, <1>5, <1>6, <1>8, <2>1
<1>. QED BY <1>7, <1>8

JobTypes(q) ==
    /\ Free(q) => handled[q].at = "none"
    /\ handled[q].job[1] \in {"ban", "unban"} => On(q) \in Subject
    /\ handled[q].job[1] = "end_war" => On(q) \in Result
    /\ handled[q].job[1] = "finalize" => On(q) \in Draft /\ (handled[q].at = "made" => made # {})
    /\ handled[q].job[1] = "list" => On(q) \in SUBSET Subject

WarRecord == [status : {"ACTIVE", "ENDED", "DRAW"}, by : {"nobody", "panel", "bot", "late bot"},
              resolving : BOOLEAN]

AdminTypes ==
    /\ deleted \subseteq Subject /\ enabled \subseteq Switch
    /\ warRow \in WarRecord
    /\ drafts \in [Draft -> {"NONE", "EDITING", "REVIEW", "CANCELLED", "COMPLETED"}]
    /\ made \subseteq Draft /\ ledger \in Seq(Note)
    /\ handled = [q \in Request |-> handled[q]]
    /\ kept \in [seen : SUBSET Subject, late : BOOLEAN, missed : BOOLEAN, there : BOOLEAN]

PlayerTold(p) ==
    /\ LastNote(PlayerRow(p)).says = "banned" => p \in deleted
    /\ LastNote(PlayerRow(p)).says = "active" => p \notin deleted

SwitchTold(s) == LastNote(SwitchRow(s)).says # "nothing" =>
                     (LastNote(SwitchRow(s)).says = "on" <=> s \in enabled)

WarTold == LastNote(WarRow).says # "nothing" =>
               /\ warRow.status # "ACTIVE"
               /\ \/ warRow.by = "panel" /\ (LastNote(WarRow).says = "draw" <=> warRow.status = "DRAW")
                  \/ warRow.by = "late bot"

DraftTold(d) ==
    /\ LastNote(DraftRow(d)).says = "COMPLETED" => made # {}
    /\ LastNote(DraftRow(d)).says = "CANCELLED" => drafts[d] = "CANCELLED"

ByProfile(p) == LastNote(PlayerRow(p)).kind \in {"admin_profile_ban", "admin_profile_unban"}

\* The list is right about a player, or excused.
ListTold(p) == kept.there =>
    \/ p \in kept.seen <=> p \in deleted
    \/ kept.late \/ kept.missed \/ ByProfile(p)
    \/ \E q \in Request : handled[q].at = "written" /\ On(q) = p

AdminInv ==
    /\ AdminTypes /\ \A q \in Request : JobTypes(q)
    /\ \A p \in Subject : PlayerTold(p) /\ ListTold(p)
    /\ \A s \in Switch : SwitchTold(s)
    /\ WarTold /\ \A d \in Draft : DraftTold(d)

\* No note about one row is a note about a row of another kind.
LEMMA RowsDiffer ==
    ASSUME NEW p, NEW s, NEW d
    PROVE  /\ PlayerRow(p) # SwitchRow(s) /\ PlayerRow(p) # DraftRow(d) /\ PlayerRow(p) # WarRow
           /\ SwitchRow(s) # DraftRow(d) /\ SwitchRow(s) # WarRow /\ DraftRow(d) # WarRow
           /\ \A x : (PlayerRow(p) = PlayerRow(x) => p = x) /\ (SwitchRow(s) = SwitchRow(x) => s = x)
                     /\ (DraftRow(d) = DraftRow(x) => d = x)
BY DEF PlayerRow, SwitchRow, DraftRow, WarRow

LEMMA NothingNew ==
    ASSUME UNCHANGED ledger
    PROVE  \A about : LastNote(about)' = LastNote(about)
BY DEF LastNote, SelectLastInSeq, NothingNoted

\* A request enters its next step, or leaves; the others stay where they are.
LEMMA OneRequestMoves ==
    ASSUME AdminTypes, \A x \in Request : JobTypes(x), NEW q \in Request, NEW state,
           handled' = [handled EXCEPT ![q] = state], made \subseteq made', JobTypes(q)'
    PROVE  /\ handled' = [x \in Request |-> handled'[x]]
           /\ \A x \in Request : JobTypes(x)'
           /\ handled'[q] = state /\ \A x \in Request \ {q} : handled'[x] = handled[x]
<1>1. /\ handled' = [x \in Request |-> handled'[x]]
      /\ handled'[q] = state /\ \A x \in Request \ {q} : handled'[x] = handled[x]
    BY DEF AdminTypes
<1>2. ASSUME NEW x \in Request PROVE JobTypes(x)'
    BY <1>1 DEF JobTypes, On, Free
<1>. QED BY <1>1, <1>2

\* The rows and the ledger stay: only requests and the list change.
LEMMA RowsStay ==
    ASSUME AdminInv, UNCHANGED <<deleted, enabled, warRow, drafts, made, ledger>>,
           handled' = [x \in Request |-> handled'[x]], \A x \in Request : JobTypes(x)',
           kept' \in [seen : SUBSET Subject, late : BOOLEAN, missed : BOOLEAN, there : BOOLEAN],
           \A p \in Subject : ListTold(p)'
    PROVE  AdminInv'
<1>1. \A about : LastNote(about)' = LastNote(about)
    BY NothingNew
<1>2. AdminTypes'
    BY DEF AdminInv, AdminTypes
<1>3. \A p \in Subject : PlayerTold(p)'
    BY <1>1 DEF AdminInv, PlayerTold, PlayerRow
<1>4. \A s \in Switch : SwitchTold(s)'
    BY <1>1 DEF AdminInv, SwitchTold, SwitchRow
<1>5. WarTold' /\ \A d \in Draft : DraftTold(d)'
    BY <1>1 DEF AdminInv, WarTold, DraftTold, WarRow, DraftRow
<1>. QED BY <1>2, <1>3, <1>4, <1>5 DEF AdminInv

\* The list and what is said of the players stay, as does a request that has written.
LEMMA ListStays ==
    ASSUME AdminInv, UNCHANGED kept, NEW p \in Subject, p \in deleted' <=> p \in deleted,
           LastNote(PlayerRow(p))' = LastNote(PlayerRow(p)),
           \A x \in Request : handled[x].at = "written" => handled'[x] = handled[x]
    PROVE  ListTold(p)'
<1>1. ByProfile(p)' <=> ByProfile(p)
    BY DEF ByProfile, PlayerRow
<1>2. \A x \in Request : handled[x].at = "written" => On(x)' = On(x)
    BY DEF On
<1>. QED BY <1>1, <1>2 DEF AdminInv, ListTold

(* At the start nothing is noted, and no request is under way. *)
LEMMA AdminStart == AdminInit => AdminInv
<1>. SUFFICES ASSUME AdminInit PROVE AdminInv
    OBVIOUS
<1>1. ledger = <<>> /\ ledger \in Seq(Note)
    BY DEF AdminInit
<1>2. ASSUME NEW about PROVE LastNote(about) = NothingNoted
    <2>1. NotesOn(ledger, about) = {}
        BY <1>1 DEF NotesOn
    <2>2. LastNote(about) = LastOn(ledger, about)
        BY DEF LastNote, LastOn
    <2>. QED BY <1>1, <2>1, <2>2, LastNoteIs
<1>3. AdminTypes
    <2>1. NotKept \in [seen : SUBSET Subject, late : BOOLEAN, missed : BOOLEAN, there : BOOLEAN]
        BY DEF NotKept
    <2>. QED BY <1>1, <2>1 DEF AdminInit, AdminTypes, WarRecord
<1>4. \A q \in Request : JobTypes(q)
    BY DEF AdminInit, JobTypes, NoRequest, Free
<1>5. \A p \in Subject : PlayerTold(p) /\ ListTold(p)
    BY <1>2 DEF AdminInit, PlayerTold, ListTold, NotKept, NothingNoted
<1>6. (\A s \in Switch : SwitchTold(s)) /\ WarTold /\ \A d \in Draft : DraftTold(d)
    BY <1>2 DEF SwitchTold, WarTold, DraftTold, NothingNoted
<1>. QED BY <1>3, <1>4, <1>5, <1>6 DEF AdminInv

\* The steps of a request that write no row.
LEMMA RequestMoves ==
    ASSUME AdminInv, NEW q \in Request,
           \/ LooksAt(q) \/ Flushes(q) \/ RequestDies(q) \/ ListReads(q) \/ ListKeeps(q)
           \/ \E d \in Draft, g \in BOOLEAN : FinalizeLooks(q, d, g)
    PROVE  AdminInv'
<1>. USE DEF AdminInv
<1>1. ASSUME NEW state, handled' = [handled EXCEPT ![q] = state], JobTypes(q)',
             UNCHANGED <<deleted, enabled, warRow, drafts, made, ledger>>,
             kept' \in [seen : SUBSET Subject, late : BOOLEAN, missed : BOOLEAN, there : BOOLEAN],
             \A p \in Subject : ListTold(p)'
      PROVE  AdminInv'
    <2>1. /\ handled' = [x \in Request |-> handled'[x]] /\ \A x \in Request : JobTypes(x)'
        BY <1>1, OneRequestMoves
    <2>. QED BY <1>1, <2>1, RowsStay
<1>2. handled = [x \in Request |-> handled[x]]
    BY DEF AdminTypes
<1>3. ASSUME NEW state, handled' = [handled EXCEPT ![q] = state], handled[q].at # "written",
             UNCHANGED <<deleted, enabled, warRow, drafts, made, ledger, kept>>
      PROVE  \A p \in Subject : ListTold(p)'
    <2>1. \A x \in Request : handled[x].at = "written" => handled'[x] = handled[x]
        BY <1>2, <1>3
    <2>2. \A r : LastNote(r)' = LastNote(r)
        BY <1>3, NothingNew
    <2>. QED BY <1>3, <2>1, <2>2, ListStays
<1>4. ASSUME NEW kind, NEW on, NEW at, Free(q), Enter(q, kind, on, at),
             UNCHANGED <<deleted, enabled, warRow, drafts, made, ledger, kept>>,
             \/ kind \in {"ban", "unban"} /\ on \in Subject
             \/ kind = "end_war" /\ on \in Result
             \/ kind = "finalize" /\ on \in Draft /\ at = "looked"
             \/ kind = "list" /\ on \in SUBSET Subject
      PROVE  AdminInv'
    <2>1. handled' = [handled EXCEPT ![q] = [job |-> <<kind, on>>, at |-> at]]
        BY <1>4 DEF Enter
    <2>2. handled'[q].job[1] = kind /\ handled'[q].job[2] = on /\ handled'[q].at = at
        BY <1>2, <2>1
    <2>3. JobTypes(q)'
        BY <1>4, <2>2 DEF JobTypes, On, Free
    <2>4. handled[q].at # "written"
        BY <1>4 DEF JobTypes
    <2>5. \A p \in Subject : ListTold(p)'
        BY <1>3, <1>4, <2>1, <2>4
    <2>. QED BY <1>1, <1>4, <2>1, <2>3, <2>5 DEF AdminTypes
<1>5. CASE LooksAt(q) \/ ListReads(q) \/ \E d \in Draft, g \in BOOLEAN : FinalizeLooks(q, d, g)
    <2>1. CASE LooksAt(q)
        <3>1. ASSUME NEW p \in Subject \ deleted, Enter(q, "ban", p, "looked") PROVE AdminInv'
            BY <1>4, <2>1, <3>1 DEF LooksAt
        <3>2. ASSUME NEW p \in deleted, Enter(q, "unban", p, "looked") PROVE AdminInv'
            BY <1>4, <2>1, <3>2 DEF LooksAt, AdminTypes
        <3>3. ASSUME NEW r \in Result, Enter(q, "end_war", r, "looked") PROVE AdminInv'
            BY <1>4, <2>1, <3>3 DEF LooksAt
        <3>. QED BY <2>1, <3>1, <3>2, <3>3 DEF LooksAt
    <2>2. CASE ListReads(q)
        BY <1>4, <2>2 DEF ListReads, AdminTypes
    <2>3. ASSUME NEW d \in Draft, NEW g \in BOOLEAN, FinalizeLooks(q, d, g) PROVE AdminInv'
        BY <1>4, <2>3 DEF FinalizeLooks
    <2>. QED BY <1>5, <2>1, <2>2, <2>3
<1>6. NoRequest.job[1] = "none" /\ NoRequest.at = "none"
    BY DEF NoRequest
<1>7. ASSUME Leave(q) PROVE handled' = [handled EXCEPT ![q] = NoRequest] /\ JobTypes(q)'
    <2>1. handled'[q] = NoRequest
        BY <1>2, <1>7 DEF Leave
    <2>. QED BY <1>6, <1>7, <2>1 DEF Leave, JobTypes, Free
<1>8. CASE Flushes(q) \/ RequestDies(q)
    <2>1. Leave(q) /\ UNCHANGED <<deleted, enabled, warRow, drafts, made, ledger>>
        BY <1>8 DEF Flushes, RequestDies
    <2>2. handled' = [handled EXCEPT ![q] = NoRequest] /\ JobTypes(q)'
        BY <1>7, <2>1
    <2>3. NotKept \in [seen : SUBSET Subject, late : BOOLEAN, missed : BOOLEAN, there : BOOLEAN]
          /\ ~NotKept.there
        BY DEF NotKept
    <2>4. ASSUME kept' = NotKept PROVE AdminInv'
        <3>1. \A p \in Subject : ListTold(p)'
            BY <2>3, <2>4 DEF ListTold
        <3>. QED BY <1>1, <2>1, <2>2, <2>3, <2>4, <3>1
    <2>5. ASSUME handled[q].at = "written", kept' = [kept EXCEPT !.missed = kept.there] PROVE AdminInv'
        <3>1. kept' \in [seen : SUBSET Subject, late : BOOLEAN, missed : BOOLEAN, there : BOOLEAN]
              /\ kept'.missed = kept.there /\ kept'.there = kept.there
            BY <2>5 DEF AdminTypes
        <3>2. \A p \in Subject : ListTold(p)'
            BY <3>1 DEF ListTold
        <3>. QED BY <1>1, <2>1, <2>2, <3>1, <3>2
    <2>6. CASE RequestDies(q) /\ handled[q].at = "written" /\ kept.there
        <3>1. kept' \in [seen : SUBSET Subject, late : BOOLEAN, missed : BOOLEAN, there : BOOLEAN]
              /\ kept'.missed
            BY <2>6 DEF AdminTypes, RequestDies
        <3>2. \A p \in Subject : ListTold(p)'
            BY <3>1 DEF ListTold
        <3>. QED BY <1>1, <2>1, <2>2, <3>1, <3>2
    <2>7. CASE RequestDies(q) /\ ~ (handled[q].at = "written" /\ kept.there)
        <3>1. kept' = kept
            <4>1. (kept.missed \/ (kept.there /\ handled[q].at = "written")) = kept.missed
                BY <2>7 DEF AdminTypes
            <4>. QED BY <2>7, <4>1 DEF AdminTypes, RequestDies
        <3>2. CASE handled[q].at = "written"
            <4>1. \A p \in Subject : ListTold(p)'
                BY <2>7, <3>1, <3>2 DEF ListTold
            <4>. QED BY <1>1, <2>1, <2>2, <3>1, <4>1 DEF AdminTypes
        <3>3. CASE handled[q].at # "written"
            <4>1. \A p \in Subject : ListTold(p)'
                BY <1>3, <2>1, <2>2, <3>1, <3>3
            <4>. QED BY <1>1, <2>1, <2>2, <3>1, <4>1 DEF AdminTypes
        <3>. QED BY <3>2, <3>3
    <2>. QED BY <1>8, <2>4, <2>5, <2>6, <2>7 DEF Flushes
<1>9. CASE ListKeeps(q)
    <2>1. /\ Leave(q) /\ UNCHANGED <<deleted, enabled, warRow, drafts, made, ledger>>
          /\ handled[q].job[1] = "list"
          /\ kept' = [seen |-> On(q), late |-> On(q) # deleted, missed |-> FALSE, there |-> TRUE]
        BY <1>9 DEF ListKeeps, At
    <2>2. On(q) \in SUBSET Subject
        BY <2>1 DEF JobTypes
    <2>3. kept' \in [seen : SUBSET Subject, late : BOOLEAN, missed : BOOLEAN, there : BOOLEAN]
        BY <2>1, <2>2
    <2>4. ASSUME NEW p \in Subject PROVE ListTold(p)'
        <3>1. CASE On(q) = deleted
            <4>1. kept'.seen = deleted'
                BY <2>1, <3>1
            <4>. QED BY <4>1 DEF ListTold
        <3>2. CASE On(q) # deleted
            <4>1. kept'.late
                BY <2>1, <3>2
            <4>. QED BY <4>1 DEF ListTold
        <3>. QED BY <3>1, <3>2
    <2>. QED BY <1>1, <1>7, <2>1, <2>3, <2>4
<1>. QED BY <1>5, <1>8, <1>9

\* A row that a step changes or notes is told truly; the others are told as before.
LEMMA RowsChange ==
    ASSUME AdminInv, AdminTypes', \A x \in Request : JobTypes(x)', UNCHANGED kept,
           \A x \in Request : handled[x].at = "written" => handled'[x] = handled[x],
           \A p \in Subject : \/ PlayerTold(p)' /\ ListTold(p)'
                              \/ /\ LastNote(PlayerRow(p))' = LastNote(PlayerRow(p))
                                 /\ p \in deleted' <=> p \in deleted,
           \A s \in Switch : \/ SwitchTold(s)'
                             \/ /\ LastNote(SwitchRow(s))' = LastNote(SwitchRow(s))
                                /\ s \in enabled' <=> s \in enabled,
           WarTold' \/ (LastNote(WarRow)' = LastNote(WarRow) /\ warRow' = warRow),
           \A d \in Draft : \/ DraftTold(d)'
                            \/ /\ LastNote(DraftRow(d))' = LastNote(DraftRow(d))
                               /\ drafts[d] = "CANCELLED" => drafts'[d] = "CANCELLED",
           made # {} => made' # {}
    PROVE  AdminInv'
<1>1. ASSUME NEW p \in Subject PROVE PlayerTold(p)' /\ ListTold(p)'
    <2>1. CASE LastNote(PlayerRow(p))' = LastNote(PlayerRow(p)) /\ (p \in deleted' <=> p \in deleted)
        <3>1. PlayerTold(p)'
            BY <2>1 DEF AdminInv, PlayerTold, PlayerRow
        <3>2. ListTold(p)'
            BY <2>1, ListStays
        <3>. QED BY <3>1, <3>2
    <2>. QED BY <2>1
<1>2. \A s \in Switch : SwitchTold(s)'
    BY DEF AdminInv, SwitchTold, SwitchRow
<1>3. WarTold'
    BY DEF AdminInv, WarTold, WarRow
<1>4. \A d \in Draft : DraftTold(d)'
    BY DEF AdminInv, DraftTold, DraftRow
<1>. QED BY <1>1, <1>2, <1>3, <1>4 DEF AdminInv

\* What the ledger says last about a row after a note about another.
LEMMA OthersNoted ==
    ASSUME ledger \in Seq(Note), NEW kind, NEW on, NEW word, [kind |-> kind, on |-> on, says |-> word] \in Note,
           ledger' = Noted(kind, on, word)
    PROVE  /\ ledger' \in Seq(Note)
           /\ LastNote(on)' = [kind |-> kind, on |-> on, says |-> word]
           /\ \A about : about # on => LastNote(about)' = LastNote(about)
<1>1. ledger' = Append(ledger, [kind |-> kind, on |-> on, says |-> word])
    BY DEF Noted
<1>. DEFINE n == [kind |-> kind, on |-> on, says |-> word]
<1>2. n \in Note /\ n.on = on
    OBVIOUS
<1>. HIDE DEF n
<1>3. ledger' \in Seq(Note)
    BY <1>1, <1>2 DEF n
<1>4. \A about : LastNote(about)' = IF n.on = about THEN n ELSE LastNote(about)
    BY <1>1, <1>2, NoteAppended DEF n
<1>5. LastNote(on)' = n
    BY <1>2, <1>4
<1>. QED BY <1>2, <1>3, <1>4, <1>5 DEF n

\* A ban or an unban, with its note.
LEMMA PlayerNoted ==
    ASSUME AdminInv, NEW p \in Subject, NEW kind, NEW word \in {"banned", "active"},
           kind \in {"admin_ban", "admin_unban", "admin_profile_ban", "admin_profile_unban"},
           ledger' = Noted(kind, PlayerRow(p), word),
           deleted' = IF word = "banned" THEN deleted \cup {p} ELSE deleted \ {p},
           UNCHANGED <<enabled, warRow, drafts, made, kept>>,
           handled' = [x \in Request |-> handled'[x]], \A x \in Request : JobTypes(x)',
           \A x \in Request : handled[x].at = "written" => handled'[x] = handled[x],
           \/ kind \in {"admin_profile_ban", "admin_profile_unban"}
           \/ \E x \in Request : handled'[x].at = "written" /\ On(x)' = p
    PROVE  AdminInv'
<1>1. ledger \in Seq(Note)
    BY DEF AdminInv, AdminTypes
<1>2. [kind |-> kind, on |-> PlayerRow(p), says |-> word] \in Note
    BY DEF Note, PlayerRow
<1>3. /\ ledger' \in Seq(Note)
      /\ LastNote(PlayerRow(p))' = [kind |-> kind, on |-> PlayerRow(p), says |-> word]
      /\ \A about : about # PlayerRow(p) => LastNote(about)' = LastNote(about)
    BY <1>1, <1>2, OthersNoted
<1>4. PlayerTold(p)'
    BY <1>3 DEF PlayerTold, PlayerRow
<1>5. ListTold(p)'
    <2>1. CASE kind \in {"admin_profile_ban", "admin_profile_unban"}
        <3>1. LastNote(PlayerRow(p))'.kind = kind
            BY <1>3
        <3>2. ByProfile(p)'
            BY <2>1, <3>1 DEF ByProfile, PlayerRow
        <3>. QED BY <3>2 DEF ListTold
    <2>2. CASE \E x \in Request : handled'[x].at = "written" /\ On(x)' = p
        BY <2>2 DEF ListTold
    <2>. QED BY <2>1, <2>2
<1>6. \A x \in Subject : x # p => /\ LastNote(PlayerRow(x))' = LastNote(PlayerRow(x))
                                  /\ x \in deleted' <=> x \in deleted
    BY <1>3, RowsDiffer
<1>7. /\ \A s \in Switch : LastNote(SwitchRow(s))' = LastNote(SwitchRow(s))
      /\ \A d \in Draft : LastNote(DraftRow(d))' = LastNote(DraftRow(d))
      /\ LastNote(WarRow)' = LastNote(WarRow)
    BY <1>3, RowsDiffer
<1>8. AdminTypes'
    BY <1>3 DEF AdminInv, AdminTypes
<1>. QED BY <1>4, <1>5, <1>6, <1>7, <1>8, RowsChange

\* A note about another row than a player's.
LEMMA RowNoted ==
    ASSUME AdminInv, NEW kind, NEW about, NEW word, [kind |-> kind, on |-> about, says |-> word] \in Note,
           ledger' = Noted(kind, about, word), \A p : about # PlayerRow(p),
           UNCHANGED <<deleted, made, kept>>, AdminTypes', \A x \in Request : JobTypes(x)',
           \A x \in Request : handled[x].at = "written" => handled'[x] = handled[x],
           \A s \in Switch : \/ about = SwitchRow(s) /\ SwitchTold(s)'
                             \/ about # SwitchRow(s) /\ (s \in enabled' <=> s \in enabled),
           \/ about = WarRow /\ WarTold'
           \/ about # WarRow /\ warRow' = warRow,
           \A d \in Draft : \/ about = DraftRow(d) /\ DraftTold(d)'
                            \/ about # DraftRow(d) /\ (drafts[d] = "CANCELLED" => drafts'[d] = "CANCELLED")
    PROVE  AdminInv'
<1>1. ledger \in Seq(Note)
    BY DEF AdminInv, AdminTypes
<1>2. \A r : r # about => LastNote(r)' = LastNote(r)
    BY <1>1, OthersNoted
<1>3. \A p \in Subject : LastNote(PlayerRow(p))' = LastNote(PlayerRow(p))
    BY <1>2
<1>4. \A s \in Switch : \/ SwitchTold(s)'
                        \/ /\ LastNote(SwitchRow(s))' = LastNote(SwitchRow(s))
                           /\ s \in enabled' <=> s \in enabled
    BY <1>2
<1>5. WarTold' \/ (LastNote(WarRow)' = LastNote(WarRow) /\ warRow' = warRow)
    BY <1>2
<1>6. \A d \in Draft : \/ DraftTold(d)'
                       \/ /\ LastNote(DraftRow(d))' = LastNote(DraftRow(d))
                          /\ drafts[d] = "CANCELLED" => drafts'[d] = "CANCELLED"
    BY <1>2
<1>. QED BY <1>3, <1>4, <1>5, <1>6, RowsChange

(* Every step keeps it. *)
LEMMA AdminStep == AdminInv /\ [AdminNext]_adminVars => AdminInv'
<1>. SUFFICES ASSUME AdminInv, [AdminNext]_adminVars PROVE AdminInv'
    OBVIOUS
<1>1. /\ AdminTypes /\ \A x \in Request : JobTypes(x)
      /\ handled = [x \in Request |-> handled[x]] /\ ledger \in Seq(Note)
    BY DEF AdminInv, AdminTypes
<1>2. ASSUME UNCHANGED handled, made \subseteq made'
      PROVE  /\ handled' = [x \in Request |-> handled'[x]] /\ \A x \in Request : JobTypes(x)'
             /\ \A x \in Request : handled[x].at = "written" => handled'[x] = handled[x]
    BY <1>1, <1>2 DEF JobTypes, On, Free
<1>3. ASSUME NEW q \in Request, NEW state, handled' = [handled EXCEPT ![q] = state],
             handled[q].at # "written", made \subseteq made', JobTypes(q)'
      PROVE  /\ handled' = [x \in Request |-> handled'[x]] /\ \A x \in Request : JobTypes(x)'
             /\ \A x \in Request : handled[x].at = "written" => handled'[x] = handled[x]
             /\ handled'[q] = state
    <2>1. /\ handled' = [x \in Request |-> handled'[x]] /\ \A x \in Request : JobTypes(x)'
          /\ handled'[q] = state /\ \A x \in Request \ {q} : handled'[x] = handled[x]
        BY <1>1, <1>3, OneRequestMoves
    <2>. QED BY <1>3, <2>1
<1>4. ASSUME NEW q \in Request, Leave(q), handled[q].at # "written", made \subseteq made'
      PROVE  /\ handled' = [x \in Request |-> handled'[x]] /\ \A x \in Request : JobTypes(x)'
             /\ \A x \in Request : handled[x].at = "written" => handled'[x] = handled[x]
    <2>1. handled' = [handled EXCEPT ![q] = NoRequest]
        BY <1>4 DEF Leave
    <2>2. handled'[q] = NoRequest
        BY <1>1, <2>1
    <2>3. JobTypes(q)'
        BY <2>2 DEF JobTypes, Free, NoRequest
    <2>. QED BY <1>3, <1>4, <2>1, <2>3
<1>5. ASSUME NEW q \in Request, Leave(q), handled[q].at # "written",
             UNCHANGED <<deleted, enabled, warRow, drafts, made, ledger, kept>>
      PROVE  AdminInv'
    <2>1. /\ handled' = [x \in Request |-> handled'[x]] /\ \A x \in Request : JobTypes(x)'
          /\ \A x \in Request : handled[x].at = "written" => handled'[x] = handled[x]
        BY <1>4, <1>5
    <2>2. \A about : LastNote(about)' = LastNote(about)
        BY <1>5, NothingNew
    <2>3. \A p \in Subject : ListTold(p)'
        BY <1>5, <2>1, <2>2, ListStays
    <2>. QED BY <1>1, <1>5, <2>1, <2>3, RowsStay DEF AdminTypes
<1>6. ASSUME NEW q \in Request, BanWrites(q) \/ UnbanWrites(q) PROVE AdminInv'
    <2>1. PICK kind \in {"ban", "unban"} :
            /\ handled[q].job[1] = kind /\ handled[q].at = "looked"
            /\ kind = "ban" => BanWrites(q)
            /\ kind = "unban" => UnbanWrites(q)
        BY <1>6 DEF BanWrites, UnbanWrites, At
    <2>2. PICK p \in Subject : On(q) = p
        BY <1>1, <2>1 DEF JobTypes
    <2>3. CASE Leave(q) /\ UNCHANGED <<deleted, ledger>>
        BY <1>5, <2>1, <2>3 DEF BanWrites, UnbanWrites
    <2>4. CASE ~ (Leave(q) /\ UNCHANGED <<deleted, ledger>>)
        <3>. DEFINE word == IF kind = "ban" THEN "banned" ELSE "active"
                    note == IF kind = "ban" THEN "admin_ban" ELSE "admin_unban"
        <3>1. /\ deleted' = IF word = "banned" THEN deleted \cup {p} ELSE deleted \ {p}
              /\ ledger' = Noted(note, PlayerRow(p), word) /\ Enter(q, kind, p, "written")
              /\ UNCHANGED <<enabled, warRow, drafts, made, kept>>
            <4>1. CASE kind = "ban"
                BY <2>1, <2>2, <2>4, <4>1 DEF BanWrites
            <4>2. CASE kind = "unban"
                BY <2>1, <2>2, <2>4, <4>2 DEF UnbanWrites
            <4>. QED BY <4>1, <4>2
        <3>. DEFINE state == [job |-> <<kind, p>>, at |-> "written"]
        <3>2. handled' = [handled EXCEPT ![q] = state] /\ state.job[1] = kind /\ state.job[2] = p
              /\ state.at = "written"
            BY <3>1 DEF Enter
        <3>. HIDE DEF state
        <3>3. handled'[q] = state
            BY <1>1, <3>2
        <3>4. JobTypes(q)'
            BY <3>2, <3>3 DEF JobTypes, Free, On
        <3>5. /\ handled' = [x \in Request |-> handled'[x]] /\ \A x \in Request : JobTypes(x)'
              /\ \A x \in Request : handled[x].at = "written" => handled'[x] = handled[x]
            BY <1>3, <2>1, <3>1, <3>2, <3>4
        <3>6. handled'[q].at = "written" /\ On(q)' = p
            BY <3>2, <3>3 DEF On
        <3>7. note \in {"admin_ban", "admin_unban"} /\ word \in {"banned", "active"}
            OBVIOUS
        <3>. HIDE DEF note, word
        <3>. QED BY <3>1, <3>5, <3>6, <3>7, PlayerNoted
    <2>. QED BY <2>3, <2>4
<1>7. ASSUME NEW p \in Subject, ProfileSet(p) PROVE AdminInv'
    <2>1. UNCHANGED <<enabled, warRow, drafts, made, handled, kept>>
        BY <1>7 DEF ProfileSet
    <2>2. ASSUME NEW kind \in {"admin_profile_ban", "admin_profile_unban"},
                 NEW word \in {"banned", "active"}, ledger' = Noted(kind, PlayerRow(p), word),
                 deleted' = IF word = "banned" THEN deleted \cup {p} ELSE deleted \ {p}
          PROVE  AdminInv'
        BY <1>2, <2>1, <2>2, PlayerNoted
    <2>3. CASE deleted' = deleted \cup {p} /\ ledger' = Noted("admin_profile_ban", PlayerRow(p), "banned")
        BY <2>2, <2>3
    <2>4. CASE deleted' = deleted \ {p} /\ ledger' = Noted("admin_profile_unban", PlayerRow(p), "active")
        BY <2>2, <2>4
    <2>. QED BY <1>7, <2>3, <2>4 DEF ProfileSet
<1>8. ASSUME NEW s \in Switch, NEW kind \in {"toggle", "update"}, NEW on \in BOOLEAN,
             enabled' = IF on THEN enabled \cup {s} ELSE enabled \ {s},
             ledger' = Noted(kind, SwitchRow(s), IF on THEN "on" ELSE "off"),
             UNCHANGED <<deleted, warRow, drafts, made, handled, kept>>
      PROVE  AdminInv'
    <2>. DEFINE word == IF on THEN "on" ELSE "off"
    <2>1. [kind |-> kind, on |-> SwitchRow(s), says |-> word] \in Note
        BY DEF Note, SwitchRow
    <2>2. /\ ledger' \in Seq(Note)
          /\ LastNote(SwitchRow(s))' = [kind |-> kind, on |-> SwitchRow(s), says |-> word]
        BY <1>1, <1>8, <2>1, OthersNoted
    <2>3. LastNote(SwitchRow(s))'.says = word
        BY <2>2
    <2>4. SwitchTold(s)'
        BY <1>8, <2>3 DEF SwitchTold, SwitchRow
    <2>5. AdminTypes'
        BY <1>1, <1>8, <2>2 DEF AdminTypes
    <2>6. /\ \A x \in Request : JobTypes(x)'
          /\ \A x \in Request : handled[x].at = "written" => handled'[x] = handled[x]
        BY <1>2, <1>8
    <2>7. \A x \in Switch : \/ SwitchRow(s) = SwitchRow(x) /\ SwitchTold(x)'
                            \/ SwitchRow(s) # SwitchRow(x) /\ (x \in enabled' <=> x \in enabled)
        <3>1. \A x \in Switch : x # s => SwitchRow(s) # SwitchRow(x)
            BY RowsDiffer
        <3>2. \A x \in Switch : x # s => (x \in enabled' <=> x \in enabled)
            BY <1>8
        <3>3. \A x \in Switch : x = s => SwitchRow(s) = SwitchRow(x) /\ SwitchTold(x)'
            BY <2>4
        <3>. QED BY <3>1, <3>2, <3>3
    <2>8. /\ \A p : SwitchRow(s) # PlayerRow(p) /\ SwitchRow(s) # DraftRow(p)
          /\ SwitchRow(s) # WarRow
        BY RowsDiffer
    <2>9. UNCHANGED <<deleted, made, kept>> /\ warRow' = warRow /\ drafts' = drafts
          /\ ledger' = Noted(kind, SwitchRow(s), word)
        BY <1>8
    <2>. HIDE DEF word
    <2>. QED BY <2>1, <2>5, <2>6, <2>7, <2>8, <2>9, RowNoted
<1>9. ASSUME NEW s \in Switch, Toggles(s) \/ \E on \in BOOLEAN : SetsByForm(s, on) PROVE AdminInv'
    <2>1. CASE Toggles(s)
        <3>1. CASE s \in enabled
            <4>1. enabled' = enabled \ {s} /\ ledger' = Noted("toggle", SwitchRow(s), "off")
                  /\ UNCHANGED <<deleted, warRow, drafts, made, handled, kept>>
                BY <2>1, <3>1 DEF Toggles
            <4>2. FALSE \in BOOLEAN /\ (IF FALSE THEN "on" ELSE "off") = "off"
                OBVIOUS
            <4>. QED BY <1>8, <4>1, <4>2
        <3>2. CASE s \notin enabled
            <4>1. enabled' = enabled \cup {s} /\ ledger' = Noted("toggle", SwitchRow(s), "on")
                  /\ UNCHANGED <<deleted, warRow, drafts, made, handled, kept>>
                BY <2>1, <3>2 DEF Toggles
            <4>2. TRUE \in BOOLEAN /\ (IF TRUE THEN "on" ELSE "off") = "on"
                OBVIOUS
            <4>. QED BY <1>8, <4>1, <4>2
        <3>. QED BY <3>1, <3>2
    <2>2. ASSUME NEW on \in BOOLEAN, SetsByForm(s, on) PROVE AdminInv'
        BY <1>8, <2>2 DEF SetsByForm
    <2>. QED BY <1>9, <2>1, <2>2
<1>10. ASSUME NEW q \in Request, EndWarWrites(q) PROVE AdminInv'
    <2>1. /\ handled[q].job[1] = "end_war" /\ handled[q].at = "looked"
          /\ UNCHANGED <<deleted, enabled, drafts, made, kept>>
        BY <1>10 DEF EndWarWrites, At
    <2>2. PICK result \in Result : On(q) = result
        BY <1>1, <2>1 DEF JobTypes
    <2>3. CASE Leave(q) /\ UNCHANGED <<warRow, ledger>>
        BY <1>5, <2>1, <2>3
    <2>4. CASE ~ (Leave(q) /\ UNCHANGED <<warRow, ledger>>)
        <3>. DEFINE written == {w \in {warRow} : w.status = "ACTIVE"}
        <3>1. OneRow(written) /\ Enter(q, "end_war", result, "written")
              /\ ledger' = Noted("admin_end_war", WarRow, result)
              /\ warRow' = IF written = {} THEN warRow
                           ELSE [warRow EXCEPT !.by = "panel",
                                     !.status = IF result = "draw" THEN "DRAW" ELSE "ENDED"]
            BY <1>10, <2>2, <2>4 DEF EndWarWrites
        <3>2. written # {}
            BY <3>1, FS_EmptySet DEF OneRow
        <3>3. warRow' = [status |-> IF result = "draw" THEN "DRAW" ELSE "ENDED", by |-> "panel",
                         resolving |-> warRow.resolving]
            BY <1>1, <3>1, <3>2 DEF AdminTypes, WarRecord
        <3>. HIDE DEF written
        <3>4. [kind |-> "admin_end_war", on |-> WarRow, says |-> result] \in Note
            BY DEF Note
        <3>5. /\ ledger' \in Seq(Note)
              /\ LastNote(WarRow)' = [kind |-> "admin_end_war", on |-> WarRow, says |-> result]
            BY <1>1, <3>1, <3>4, OthersNoted
        <3>6. LastNote(WarRow)'.says = result
            BY <3>5
        <3>7. warRow'.by = "panel" /\ warRow'.status = IF result = "draw" THEN "DRAW" ELSE "ENDED"
            BY <3>3
        <3>8. WarTold'
            BY <3>6, <3>7 DEF WarTold, WarRow
        <3>. DEFINE state == [job |-> <<"end_war", result>>, at |-> "written"]
        <3>9. handled' = [handled EXCEPT ![q] = state] /\ state.job[1] = "end_war" /\ state.job[2] = result
            BY <3>1 DEF Enter
        <3>. HIDE DEF state
        <3>10. handled'[q] = state
            BY <1>1, <3>9
        <3>11. JobTypes(q)'
            BY <3>9, <3>10 DEF JobTypes, Free, On
        <3>12. /\ handled' = [x \in Request |-> handled'[x]] /\ \A x \in Request : JobTypes(x)'
               /\ \A x \in Request : handled[x].at = "written" => handled'[x] = handled[x]
            BY <1>3, <2>1, <3>9, <3>11
        <3>13. AdminTypes'
            <4>1. warRow' \in WarRecord
                BY <1>1, <3>3 DEF AdminTypes, WarRecord
            <4>. QED BY <1>1, <2>1, <3>5, <3>12, <4>1 DEF AdminTypes
        <3>14. \A p : WarRow # PlayerRow(p) /\ WarRow # DraftRow(p) /\ WarRow # SwitchRow(p)
            BY RowsDiffer
        <3>. QED BY <2>1, <3>1, <3>4, <3>8, <3>12, <3>13, <3>14, RowNoted
    <2>. QED BY <2>3, <2>4
<1>11. ASSUME NEW d \in Draft, NEW kind, NEW word \in {"CANCELLED", "COMPLETED"},
              [kind |-> kind, on |-> DraftRow(d), says |-> word] \in Note,
              ledger' = Noted(kind, DraftRow(d), word),
              UNCHANGED <<deleted, enabled, warRow, made, kept>>,
              handled' = [x \in Request |-> handled'[x]], \A x \in Request : JobTypes(x)',
              \A x \in Request : handled[x].at = "written" => handled'[x] = handled[x],
              drafts' = IF word = "CANCELLED" THEN [drafts EXCEPT ![d] = "CANCELLED"] ELSE drafts,
              word = "COMPLETED" => made # {}
       PROVE  AdminInv'
    <2>1. /\ ledger' \in Seq(Note)
          /\ LastNote(DraftRow(d))' = [kind |-> kind, on |-> DraftRow(d), says |-> word]
        BY <1>1, <1>11, OthersNoted
    <2>2. LastNote(DraftRow(d))'.says = word
        BY <2>1
    <2>3. /\ drafts' \in [Draft -> {"NONE", "EDITING", "REVIEW", "CANCELLED", "COMPLETED"}]
          /\ word = "CANCELLED" => drafts'[d] = "CANCELLED"
          /\ \A e \in Draft : drafts[e] = "CANCELLED" => drafts'[e] = "CANCELLED"
        BY <1>1, <1>11 DEF AdminTypes
    <2>4. DraftTold(d)'
        BY <1>11, <2>2, <2>3 DEF DraftTold, DraftRow
    <2>5. AdminTypes'
        BY <1>1, <1>11, <2>1, <2>3 DEF AdminTypes
    <2>6. \A e \in Draft : \/ DraftRow(d) = DraftRow(e) /\ DraftTold(e)'
                           \/ /\ DraftRow(d) # DraftRow(e)
                              /\ drafts[e] = "CANCELLED" => drafts'[e] = "CANCELLED"
        <3>1. \A e \in Draft : e # d => DraftRow(d) # DraftRow(e)
            BY RowsDiffer
        <3>2. \A e \in Draft : e = d => DraftRow(d) = DraftRow(e) /\ DraftTold(e)'
            BY <2>4
        <3>. QED BY <2>3, <3>1, <3>2
    <2>7. (\A p : DraftRow(d) # PlayerRow(p) /\ DraftRow(d) # SwitchRow(p)) /\ DraftRow(d) # WarRow
        BY RowsDiffer
    <2>. QED BY <1>11, <2>5, <2>6, <2>7, RowNoted
<1>12. ASSUME NEW d \in Draft, NEW guarded \in BOOLEAN, CancelsDraft(d, guarded) PROVE AdminInv'
    <2>1. [kind |-> "admin_founding_cancel", on |-> DraftRow(d), says |-> "CANCELLED"] \in Note
        BY DEF Note, DraftRow
    <2>2. /\ ledger' = Noted("admin_founding_cancel", DraftRow(d), "CANCELLED")
          /\ UNCHANGED <<deleted, enabled, warRow, made, handled, kept>>
          /\ drafts' = [drafts EXCEPT ![d] = "CANCELLED"]
        BY <1>12 DEF CancelsDraft
    <2>3. /\ handled' = [x \in Request |-> handled'[x]] /\ \A x \in Request : JobTypes(x)'
          /\ \A x \in Request : handled[x].at = "written" => handled'[x] = handled[x]
        BY <1>2, <2>2
    <2>4. "CANCELLED" \in {"CANCELLED", "COMPLETED"} /\ "CANCELLED" # "COMPLETED"
        OBVIOUS
    <2>. QED BY <1>11, <2>1, <2>2, <2>3, <2>4
<1>13. ASSUME NEW q \in Request, FinalizeNotes(q) PROVE AdminInv'
    <2>1. /\ handled[q].job[1] = "finalize" /\ handled[q].at = "made" /\ Leave(q)
          /\ ledger' = Noted("admin_founding_finalize", DraftRow(On(q)), "COMPLETED")
          /\ UNCHANGED <<deleted, enabled, warRow, drafts, made, kept>>
        BY <1>13 DEF FinalizeNotes, At
    <2>2. PICK d \in Draft : On(q) = d /\ made # {}
        BY <1>1, <2>1 DEF JobTypes
    <2>3. /\ handled' = [x \in Request |-> handled'[x]] /\ \A x \in Request : JobTypes(x)'
          /\ \A x \in Request : handled[x].at = "written" => handled'[x] = handled[x]
        BY <1>4, <2>1
    <2>4. [kind |-> "admin_founding_finalize", on |-> DraftRow(d), says |-> "COMPLETED"] \in Note
        BY DEF Note, DraftRow
    <2>5. ledger' = Noted("admin_founding_finalize", DraftRow(d), "COMPLETED")
        BY <2>1, <2>2
    <2>6. "COMPLETED" \in {"CANCELLED", "COMPLETED"} /\ "CANCELLED" # "COMPLETED"
        OBVIOUS
    <2>. QED BY <1>11, <2>1, <2>2, <2>3, <2>4, <2>5, <2>6
<1>14. ASSUME UNCHANGED <<deleted, enabled, ledger, kept>>, AdminTypes', \A x \in Request : JobTypes(x)',
              \A x \in Request : handled[x].at = "written" => handled'[x] = handled[x],
              \/ warRow'.status = warRow.status /\ warRow'.by = warRow.by
              \/ warRow.status = "ACTIVE"
              \/ warRow'.status # "ACTIVE" /\ warRow'.by = "late bot",
              \A d \in Draft : drafts[d] = "CANCELLED" => drafts'[d] = "CANCELLED",
              made \subseteq made'
       PROVE  AdminInv'
    <2>1. \A about : LastNote(about)' = LastNote(about)
        BY <1>14, NothingNew
    <2>2. WarTold'
        <3>0. LastNote(WarRow)' = LastNote(WarRow) /\ WarTold
            BY <2>1 DEF AdminInv, WarRow
        <3>1. CASE warRow'.status = warRow.status /\ warRow'.by = warRow.by
            BY <3>0, <3>1 DEF WarTold
        <3>2. CASE warRow.status = "ACTIVE"
            <4>1. LastNote(WarRow).says = "nothing"
                BY <3>2 DEF AdminInv, WarTold
            <4>. QED BY <3>0, <4>1 DEF WarTold
        <3>3. CASE warRow'.status # "ACTIVE" /\ warRow'.by = "late bot"
            BY <3>0, <3>3 DEF WarTold
        <3>. QED BY <1>14, <3>1, <3>2, <3>3
    <2>3. made # {} => made' # {}
        BY <1>14
    <2>4. /\ \A p \in Subject : LastNote(PlayerRow(p))' = LastNote(PlayerRow(p))
          /\ \A s \in Switch : LastNote(SwitchRow(s))' = LastNote(SwitchRow(s))
          /\ \A d \in Draft : LastNote(DraftRow(d))' = LastNote(DraftRow(d))
        BY <2>1
    <2>. QED BY <1>14, <2>2, <2>3, <2>4, RowsChange
<1>15. ASSUME NEW q \in Request, FinalizeMakes(q) PROVE AdminInv'
    <2>1. /\ handled[q].job[1] = "finalize" /\ handled[q].at = "looked"
          /\ UNCHANGED <<deleted, enabled, warRow, ledger, kept>>
        BY <1>15 DEF FinalizeMakes, At
    <2>2. CASE Leave(q) /\ UNCHANGED <<drafts, made>>
        BY <1>5, <2>1, <2>2
    <2>3. ASSUME NEW d \in Draft, drafts[d] = "REVIEW", drafts' = [drafts EXCEPT ![d] = "COMPLETED"],
                 made' = made \union {d}, Enter(q, "finalize", On(q), "made")
          PROVE  AdminInv'
        <3>1. PICK e \in Draft : On(q) = e
            BY <1>1, <2>1 DEF JobTypes
        <3>. DEFINE state == [job |-> <<"finalize", e>>, at |-> "made"]
        <3>2. handled' = [handled EXCEPT ![q] = state] /\ state.job[1] = "finalize" /\ state.job[2] = e
            BY <2>3, <3>1 DEF Enter
        <3>. HIDE DEF state
        <3>3. handled'[q] = state
            BY <1>1, <3>2
        <3>4. JobTypes(q)'
            BY <2>3, <3>2, <3>3 DEF JobTypes, Free, On
        <3>5. /\ handled' = [x \in Request |-> handled'[x]] /\ \A x \in Request : JobTypes(x)'
              /\ \A x \in Request : handled[x].at = "written" => handled'[x] = handled[x]
            BY <1>3, <2>1, <2>3, <3>2, <3>4
        <3>6. AdminTypes'
            BY <1>1, <2>1, <2>3, <3>5 DEF AdminTypes
        <3>7. \A x \in Draft : drafts[x] = "CANCELLED" => drafts'[x] = "CANCELLED"
            BY <1>1, <2>3 DEF AdminTypes
        <3>. QED BY <1>14, <2>1, <2>3, <3>5, <3>6, <3>7
    <2>. QED BY <1>15, <2>2, <2>3 DEF FinalizeMakes
<1>16. CASE WarRead \/ WarResolves \/ WarStays
    <2>1. /\ UNCHANGED <<deleted, enabled, drafts, made, ledger, handled, kept>>
          /\ warRow' \in WarRecord
          /\ \/ warRow'.status = warRow.status /\ warRow'.by = warRow.by
             \/ warRow.status = "ACTIVE"
             \/ warRow'.status # "ACTIVE" /\ warRow'.by = "late bot"
        <3>1. CASE WarRead
            BY <1>1, <3>1 DEF WarRead, AdminTypes, WarRecord
        <3>2. CASE WarResolves
            <4>. DEFINE who == IF warRow.status = "ACTIVE" THEN "bot" ELSE "late bot"
            <4>1. PICK s \in {"ENDED", "DRAW"} :
                      warRow' = [status |-> s, resolving |-> FALSE, by |-> who]
                BY <3>2 DEF WarResolves
            <4>2. who \in {"bot", "late bot"} /\ (warRow.status # "ACTIVE" => who = "late bot")
                OBVIOUS
            <4>. HIDE DEF who
            <4>3. warRow'.status = s /\ warRow'.by = who /\ warRow' \in WarRecord
                BY <4>1, <4>2 DEF WarRecord
            <4>. QED BY <3>2, <4>2, <4>3 DEF WarResolves
        <3>3. CASE WarStays
            BY <1>1, <3>3 DEF WarStays, AdminTypes, WarRecord
        <3>. QED BY <1>16, <3>1, <3>2, <3>3
    <2>2. AdminTypes'
        BY <1>1, <2>1 DEF AdminTypes
    <2>. QED BY <1>2, <1>14, <2>1, <2>2
<1>17. ASSUME NEW d \in Draft, FounderActs(d) PROVE AdminInv'
    <2>1. /\ UNCHANGED <<deleted, enabled, warRow, ledger, handled, kept>>
          /\ made \subseteq made' /\ made' \subseteq Draft
          /\ \E s \in {"EDITING", "REVIEW", "CANCELLED", "COMPLETED"} : drafts' = [drafts EXCEPT ![d] = s]
          /\ drafts[d] # "CANCELLED"
        BY <1>1, <1>17 DEF FounderActs, Editable, AdminTypes
    <2>2. AdminTypes'
        BY <1>1, <2>1 DEF AdminTypes
    <2>3. \A x \in Draft : drafts[x] = "CANCELLED" => drafts'[x] = "CANCELLED"
        BY <1>1, <2>1 DEF AdminTypes
    <2>. QED BY <1>2, <1>14, <2>1, <2>2, <2>3
<1>18. CASE ListExpires
    <2>1. UNCHANGED <<deleted, enabled, warRow, drafts, made, ledger, handled>> /\ kept' = NotKept
        BY <1>18 DEF ListExpires
    <2>2. kept' \in [seen : SUBSET Subject, late : BOOLEAN, missed : BOOLEAN, there : BOOLEAN]
          /\ ~kept'.there
        BY <2>1 DEF NotKept
    <2>3. \A p \in Subject : ListTold(p)'
        BY <2>2 DEF ListTold
    <2>. QED BY <1>2, <2>1, <2>2, <2>3, RowsStay
<1>19. CASE UNCHANGED adminVars
    BY <1>1, <1>2, <1>14, <1>19 DEF adminVars, AdminTypes
<1>. QED BY <1>6, <1>7, <1>9, <1>10, <1>12, <1>13, <1>15, <1>16, <1>17, <1>18, <1>19, RequestMoves
         DEF AdminNext

LEMMA AdminInvariant == AdminSpec => []AdminInv
<1>. QED BY AdminStart, AdminStep, PTL DEF AdminSpec

(* Whatever the panel's requests, the bot and the founders do between a look   *)
(* and its write, a write and its note, a read of the list and its keeping:    *)
(* the ledger's last word about a row is so, except about a war that was       *)
(* resolved by an earlier read; and the players' list is wrong about a player  *)
(* only where a flush is missing, failed or overtaken.                         *)
THEOREM AdminsAreToldTruly == AdminSpec => []PanelTellsTruly
<1>1. AdminInv => PanelTellsTruly
    <2>. SUFFICES ASSUME AdminInv PROVE PanelTellsTruly
        OBVIOUS
    <2>1. WhichPlayers("banned") \subseteq deleted /\ WhichPlayers("active") \cap deleted = {}
        BY DEF AdminInv, PlayerTold, WhichPlayers
    <2>2. \A s \in Switch : LastNote(SwitchRow(s)).says # "nothing" =>
                                (LastNote(SwitchRow(s)).says = "on") = (s \in enabled)
        BY DEF AdminInv, SwitchTold
    <2>3. LastNote(WarRow).says # "nothing" =>
              \/ warRow.by = "panel" /\ (LastNote(WarRow).says = "draw") = (warRow.status = "DRAW")
              \/ warRow.by = "late bot"
        BY DEF AdminInv, WarTold
    <2>4. \A d \in Draft : /\ LastNote(DraftRow(d)).says = "COMPLETED" => made # {}
                           /\ LastNote(DraftRow(d)).says = "CANCELLED" => drafts[d] = "CANCELLED"
        BY DEF AdminInv, DraftTold
    <2>5. kept.there =>
             \A p \in Subject : \/ (p \in kept.seen) = (p \in deleted)
                                \/ kept.late \/ kept.missed \/ ByProfile(p)
                                \/ \E q \in Request : handled[q].at = "written" /\ On(q) = p
        BY DEF AdminInv, ListTold
    <2>. QED BY <2>1, <2>2, <2>3, <2>4, <2>5 DEF PanelTellsTruly, ByProfile
<1>. QED BY <1>1, AdminInvariant, PTL

------------------------------------------------------------------------------
(* The companion: a player reads what a model wrote for the call's own context. *)

Context == [who : Asker \cup {NoPlayer}, says : Nat, last : Text \cup {NoText},
            question : Question \cup {NoText}]

CallRecord == [step : {"over", "asked", "model", "parsed", "kept"}, for : Context, tried : Nat,
               reply : Text \cup {NoText, Fallback}, written : Context]

CompanionTypeOK ==
    /\ says \in [Asker -> Nat]
    /\ last \in [Asker -> Text \cup {NoText}]
    /\ replies \in SUBSET [key : Context, reply : Text, written : Context]
    /\ calls \in [Call -> CallRecord]

\* A text that is kept was written for its key, which has all of the context.
KeptForItsKey == \A r \in replies : r.written = r.key

\* A call that has a text has one that a model wrote.
TextFromAModel == \A c \in Call : calls[c].step \in {"parsed", "kept"} => calls[c].reply \in Text

AnswersFit == \A c \in Call : calls[c].step = "over" => calls[c].written = calls[c].for

CompanionInv == CompanionTypeOK /\ KeptForItsKey /\ TextFromAModel /\ AnswersFit

(* What is inductive is more than the property. *)
LEMMA InvAnswersFit == CompanionInv => AnswersFitTheirContext
BY CompanionAssumption DEF CompanionInv, CompanionTypeOK, AnswersFit, AnswersFitTheirContext

(* A call that ends with what was written for its own context. *)
LEMMA EndsWell ==
    ASSUME CompanionInv, NEW c \in Call, NEW text \in Text \cup {NoText, Fallback},
           EndsWith(c, text, calls[c].for),
           replies' \in {replies}, says' \in {says}, last' \in [Asker -> Text \cup {NoText}]
    PROVE  CompanionInv'
<1>. DEFINE call == [calls[c] EXCEPT !.step = "over", !.reply = text, !.written = calls[c].for]
<1>1. calls[c] \in CallRecord
    BY DEF CompanionInv, CompanionTypeOK
<1>2. call \in CallRecord /\ call.step = "over" /\ call.written = call.for
    BY <1>1 DEF CallRecord
<1>3. calls' = [calls EXCEPT ![c] = call]
    BY DEF EndsWith, CompanionInv, CompanionTypeOK
<1>. HIDE DEF call
<1>4. CompanionTypeOK'
    BY <1>2, <1>3 DEF CompanionInv, CompanionTypeOK
<1>5. TextFromAModel' /\ AnswersFit'
    BY <1>2, <1>3 DEF CompanionInv, CompanionTypeOK, TextFromAModel, AnswersFit
<1>6. KeptForItsKey'
    BY DEF CompanionInv, KeptForItsKey
<1>. QED BY <1>4, <1>5, <1>6 DEF CompanionInv

(* At the start nothing is kept and no call is under way. *)
LEMMA InitCompanion == CompanionInit => CompanionInv
BY DEF CompanionInit, CompanionInv, CompanionTypeOK, KeptForItsKey, TextFromAModel, AnswersFit,
       CallRecord, Context, NoCall, NoContext

(* Every step keeps it. *)
LEMMA CompanionStep == CompanionInv /\ [CompanionNext]_companionVars => CompanionInv'
<1>. SUFFICES ASSUME CompanionInv, [CompanionNext]_companionVars PROVE CompanionInv'
    OBVIOUS
<1>. USE DEF CompanionInv
<1>1. ASSUME NEW c \in Call, NEW u \in Asker, NEW q \in Question, Asks(c, u, q)
      PROVE  CompanionInv'
    <2>1. PICK message \in Text \cup {NoText} :
             calls' = [calls EXCEPT ![c] =
                         [NoCall EXCEPT !.step = "asked",
                            !.for = [who |-> u, says |-> says[u], last |-> message,
                                     question |-> q]]]
        BY <1>1 DEF Asks, CompanionTypeOK
    <2>. DEFINE context == [who |-> u, says |-> says[u], last |-> message, question |-> q]
    <2>. DEFINE call == [NoCall EXCEPT !.step = "asked", !.for = context]
    <2>6. context \in Context /\ NoContext \in Context
        BY DEF Context, NoContext, CompanionTypeOK
    <2>7. NoCall \in CallRecord
        BY <2>6 DEF NoCall, CallRecord
    <2>8. calls' = [calls EXCEPT ![c] = call]
        BY <2>1
    <2>. HIDE DEF context
    <2>2. call \in CallRecord /\ call.step = "asked"
        BY <2>6, <2>7 DEF CallRecord
    <2>. HIDE DEF call
    <2>3. CompanionTypeOK'
        BY <2>2, <2>8, <1>1 DEF Asks, CompanionTypeOK
    <2>5. TextFromAModel' /\ AnswersFit'
        BY <2>2, <2>8 DEF TextFromAModel, AnswersFit, CompanionTypeOK
    <2>. QED BY <2>3, <2>5, <1>1 DEF Asks, KeptForItsKey
<1>2. ASSUME NEW c \in Call, ContextFails(c) PROVE CompanionInv'
    BY <1>2, EndsWell DEF ContextFails, FallsBack, CompanionTypeOK
<1>3. ASSUME NEW c \in Call, LooksUp(c) PROVE CompanionInv'
    <2>1. ASSUME NEW r \in replies, r.key = Key(calls[c].for), EndsWith(c, r.reply, r.written)
          PROVE  CompanionInv'
        <3>1. EndsWith(c, r.reply, calls[c].for) /\ r.reply \in Text
            BY <2>1 DEF Key, KeptForItsKey, CompanionTypeOK
        <3>. QED BY <3>1, <1>3, EndsWell DEF LooksUp, CompanionTypeOK
    <2>2. CASE FallsBack(c)
        BY <2>2, <1>3, EndsWell DEF LooksUp, FallsBack, CompanionTypeOK
    <2>3. CASE calls' = [calls EXCEPT ![c].step = "model"]
        BY <2>3, <1>3 DEF LooksUp, CompanionTypeOK, KeptForItsKey, TextFromAModel, AnswersFit,
                          CallRecord
    <2>. QED BY <2>1, <2>2, <2>3, <1>3 DEF LooksUp
<1>4. ASSUME NEW c \in Call, ModelFails(c) PROVE CompanionInv'
    <2>1. CASE FallsBack(c)
        BY <2>1, <1>4, EndsWell DEF ModelFails, FallsBack, CompanionTypeOK
    <2>2. CASE calls' = [calls EXCEPT ![c].tried = @ + 1]
        BY <2>2, <1>4 DEF ModelFails, CompanionTypeOK, KeptForItsKey, TextFromAModel,
                          AnswersFit, CallRecord
    <2>. QED BY <2>1, <2>2, <1>4 DEF ModelFails
<1>5. ASSUME NEW c \in Call, ModelAnswers(c) PROVE CompanionInv'
    <2>1. CASE FallsBack(c)
        BY <2>1, <1>5, EndsWell DEF ModelAnswers, FallsBack, CompanionTypeOK
    <2>2. ASSUME NEW t \in Text, calls' = [calls EXCEPT ![c].step = "parsed", ![c].reply = t]
          PROVE  CompanionInv'
        BY <2>2, <1>5 DEF ModelAnswers, CompanionTypeOK, KeptForItsKey, TextFromAModel,
                          AnswersFit, CallRecord
    <2>. QED BY <2>1, <2>2, <1>5 DEF ModelAnswers
<1>6. ASSUME NEW c \in Call, Keeps(c) PROVE CompanionInv'
    <2>. DEFINE newText == [key |-> calls[c].for, reply |-> calls[c].reply,
                            written |-> calls[c].for]
    <2>1. calls[c].step = "parsed" /\ calls[c].reply \in Text /\ calls[c] \in CallRecord
        BY <1>6 DEF Keeps, TextFromAModel, CompanionTypeOK
    <2>2. newText \in [key : Context, reply : Text, written : Context]
        BY <2>1 DEF CallRecord
    <2>3. \A r \in replies' : r \in replies \/ r = newText
        BY <1>6 DEF Keeps, Key
    <2>4. calls' = [calls EXCEPT ![c].step = "kept"] /\ UNCHANGED <<says, last>>
        BY <1>6 DEF Keeps
    <2>5. KeptForItsKey'
        BY <2>3 DEF KeptForItsKey
    <2>. HIDE DEF newText
    <2>6. CompanionTypeOK'
        BY <2>2, <2>3, <2>4 DEF CompanionTypeOK, CallRecord
    <2>7. TextFromAModel' /\ AnswersFit'
        BY <2>1, <2>4 DEF TextFromAModel, AnswersFit, CompanionTypeOK, CallRecord
    <2>. QED BY <2>5, <2>6, <2>7
<1>7. ASSUME NEW c \in Call, Remembers(c) PROVE CompanionInv'
    <2>1. calls[c].reply \in Text
        BY <1>7 DEF Remembers, TextFromAModel
    <2>2. last' \in [Asker -> Text \cup {NoText}]
        BY <1>7, <2>1 DEF Remembers, CompanionTypeOK
    <2>. QED BY <1>7, <2>1, <2>2, EndsWell DEF Remembers
<1>8. ASSUME NEW u \in Asker, PlayerActs(u) \/ LastExpires(u) PROVE CompanionInv'
    BY <1>8 DEF PlayerActs, LastExpires, CompanionTypeOK, KeptForItsKey, TextFromAModel, AnswersFit
<1>9. CASE ReplyExpires
    BY <1>9 DEF ReplyExpires, CompanionTypeOK, KeptForItsKey, TextFromAModel, AnswersFit
<1>10. CASE CallsDie
    <2>1. NoCall \in CallRecord /\ NoCall.step = "over" /\ NoCall.written = NoCall.for
        BY DEF NoCall, NoContext, CallRecord, Context
    <2>. QED BY <1>10, <2>1 DEF CallsDie, CompanionTypeOK, KeptForItsKey, TextFromAModel, AnswersFit
<1>11. CASE UNCHANGED companionVars
    BY <1>11 DEF companionVars, CompanionTypeOK, KeptForItsKey, TextFromAModel, AnswersFit
<1>. QED BY <1>1, <1>2, <1>3, <1>4, <1>5, <1>6, <1>7, <1>8, <1>9, <1>10, <1>11 DEF CompanionNext

\* Every reply of the language model fits the context it answers: AICompanion.reply
\* keys what it keeps by the whole context, and keeps and remembers no fallback.
THEOREM RepliesFit == CompanionSpec => []AnswersFitTheirContext
<1>. QED BY InitCompanion, CompanionStep, InvAnswersFit, PTL DEF CompanionSpec

------------------------------------------------------------------------------
(* Registration, renaming and the first trade. *)

Check == [name : Name \cup {NoName}, seen : SUBSET Name]

States == {"none", "ONBOARDING_NAME", "SELECT_NATION", "SET_USERNAME_PLAYER", "CHANGE_USERNAME",
           "CONFIRM_CHANGE_NATION", "SELECT_NEW_NATION"}

Talk == [state : States, found : Check, preferred : BOOLEAN, first : BOOLEAN]

OnboardingTypeOK ==
    /\ talk \in [Newcomer -> Talk]
    /\ accepting \in [Newcomer -> Check]
    /\ renaming \in [Newcomer -> Name \cup {NoName}]
    /\ trader \in [Newcomer -> Name \cup {NoName}]
    /\ checked \in [Newcomer -> SUBSET Name]
    /\ citizen \in [Newcomer -> BOOLEAN]
    /\ lots \in [Newcomer -> Nat]
    /\ trades \in [Newcomer -> Nat]
    /\ bound \in Bounds

\* The names there were when a name was checked are no twins of it.
Blind(name, seen) == \A m \in seen : ~SameName(name, m)

\* So it is with the names that wait to be written,
WaitingBlind ==
    \A u \in Newcomer : /\ Blind(talk[u].found.name, talk[u].found.seen)
                        /\ Blind(accepting[u].name, accepting[u].seen)

\* and with those that have been, but in the settings.
WrittenBlind == \A u \in Newcomer : u \in renamed \/ Blind(trader[u], checked[u])

\* The index.
NamesDiffer == \A u, v \in Newcomer : u # v /\ Registered(u) => trader[u] # trader[v]

\* Before the capital is paid out nothing is sold.
CapitalInBooks ==
    \A u \in Newcomer : IF citizen[u] THEN lots[u] + trades[u] = Capital ELSE trades[u] = 0

OnboardingInv ==
    OnboardingTypeOK /\ WaitingBlind /\ WrittenBlind /\ NamesDiffer /\ CapitalInBooks

(* What is inductive is more than the two properties. *)
LEMMA InvNames == OnboardingInv => NamesCollideOnlyUnchecked
BY DEF OnboardingInv, OnboardingTypeOK, WrittenBlind, NamesDiffer, NamesCollideOnlyUnchecked,
       Blind, SameName, Registered

LEMMA InvCapital == OnboardingInv => FirstTradesWithinCapital
BY DEF OnboardingInv, OnboardingTypeOK, CapitalInBooks, FirstTradesWithinCapital

(* No name and no dialogue is what the types allow. *)
LEMMA NothingType == /\ NameUnchecked \in Check /\ Blind(NameUnchecked.name, NameUnchecked.seen)
                     /\ NoTalk \in Talk /\ NoTalk.found = NameUnchecked
<1>1. NameUnchecked \in Check /\ Blind(NameUnchecked.name, NameUnchecked.seen)
    BY DEF NameUnchecked, Check, Blind
<1>. QED BY <1>1 DEF NoTalk, Talk, States

(* What a check finds is blind: username_exists compares without case. *)
LEMMA FoundBlind ==
    ASSUME OnboardingTypeOK, NEW n \in Name, ~Exists(n)
    PROVE  FoundFree(n) \in Check /\ Blind(FoundFree(n).name, FoundFree(n).seen)
BY DEF OnboardingTypeOK, Exists, FoundFree, Check, Blind, SameName

(* The names typed within a bound are names. *)
LEMMA BoundNames == ASSUME OnboardingTypeOK, NEW n \in bound.names PROVE n \in Name
BY OnboardingAssumption DEF OnboardingTypeOK

(* A step that only goes on with a dialogue. *)
LEMMA OnlyTalk ==
    ASSUME OnboardingInv, NEW u \in Newcomer, NEW t \in Talk, Blind(t.found.name, t.found.seen),
           talk' = Put(talk, u, t),
           UNCHANGED <<accepting, renaming, trader, citizen, lots, trades, checked, renamed, bound>>
    PROVE  OnboardingInv'
<1>1. OnboardingTypeOK'
    BY DEF OnboardingInv, OnboardingTypeOK, Put
<1>2. WaitingBlind'
    BY DEF OnboardingInv, OnboardingTypeOK, WaitingBlind, Put, Blind, SameName
<1>3. WrittenBlind' /\ NamesDiffer' /\ CapitalInBooks'
    BY DEF OnboardingInv, WrittenBlind, NamesDiffer, CapitalInBooks, Blind, SameName, Registered
<1>. QED BY <1>1, <1>2, <1>3 DEF OnboardingInv

(* A step that concerns none of it. *)
LEMMA Untouched ==
    ASSUME OnboardingInv, UNCHANGED <<talk, accepting, renaming, trader, citizen, lots, trades,
                                      checked, renamed, bound>>
    PROVE  OnboardingInv'
<1>1. OnboardingTypeOK'
    BY DEF OnboardingInv, OnboardingTypeOK
<1>2. WaitingBlind' /\ WrittenBlind'
    BY DEF OnboardingInv, WaitingBlind, WrittenBlind, Blind, SameName
<1>3. NamesDiffer' /\ CapitalInBooks'
    BY DEF OnboardingInv, NamesDiffer, CapitalInBooks, Registered
<1>. QED BY <1>1, <1>2, <1>3 DEF OnboardingInv

(* A name is written: it differs from the others', and was checked. *)
LEMMA NameWritten ==
    ASSUME OnboardingInv, NEW u \in Newcomer, NEW n \in Name \cup {NoName}, NEW seen \in SUBSET Name,
           ~Violates(u, n), trader' = Put(trader, u, n),
           \/ Blind(n, seen) /\ checked' = Put(checked, u, seen) /\ renamed' = renamed
           \/ checked' = checked /\ renamed' = renamed \cup {u}
    PROVE  /\ trader' \in [Newcomer -> Name \cup {NoName}] /\ checked' \in [Newcomer -> SUBSET Name]
           /\ WrittenBlind' /\ NamesDiffer'
<1>1. trader' \in [Newcomer -> Name \cup {NoName}] /\ checked' \in [Newcomer -> SUBSET Name]
    BY DEF OnboardingInv, OnboardingTypeOK, Put
<1>2. WrittenBlind'
    BY DEF OnboardingInv, OnboardingTypeOK, WrittenBlind, Put, Blind, SameName
<1>3. NamesDiffer'
    BY DEF OnboardingInv, OnboardingTypeOK, NamesDiffer, Registered, Violates, Put
<1>. QED BY <1>1, <1>2, <1>3

(* At the start there is no name and no trade. *)
LEMMA InitOnboarding == OnboardingInit => OnboardingInv
<1>. SUFFICES ASSUME OnboardingInit PROVE OnboardingInv
    OBVIOUS
<1>1. OnboardingTypeOK
    BY NothingType DEF OnboardingInit, OnboardingTypeOK
<1>2. WaitingBlind
    BY NothingType DEF OnboardingInit, WaitingBlind
<1>3. WrittenBlind /\ NamesDiffer /\ CapitalInBooks
    BY DEF OnboardingInit, WrittenBlind, NamesDiffer, CapitalInBooks, Blind, Registered
<1>. QED BY <1>1, <1>2, <1>3 DEF OnboardingInv

(* Every step of the dialogue that writes no row. *)
LEMMA TalkStep ==
    ASSUME OnboardingInv, NEW u \in Newcomer,
           \/ \E link \in BOOLEAN : Start(u, link)
           \/ BeginRegistration(u) \/ OnboardingName(u) \/ CancelOnboarding(u)
           \/ OnboardingBackName(u) \/ \E n \in bound.names : UseSuggestedName(u, n)
           \/ BrowseNations(u) \/ ConfirmNationTooLate(u) \/ NewPlayerNextStep(u)
           \/ SkipFirstTrade(u) \/ ShowSettings(u) \/ SelectNewNation(u)
           \/ \E state \in {"CHANGE_USERNAME", "CONFIRM_CHANGE_NATION", "SELECT_NEW_NATION"} :
                 StartChange(u, state)
    PROVE  OnboardingInv'
<1>. DEFINE Goes(t) == talk' = Put(talk, u, t)
            Same == UNCHANGED <<accepting, renaming, trader, citizen, lots, trades, checked,
                                renamed, bound>>
            Good(t) == t \in Talk /\ Blind(t.found.name, t.found.seen)
<1>0. Good(talk[u]) /\ Good(NoTalk)
    BY NothingType DEF OnboardingInv, OnboardingTypeOK, WaitingBlind
<1>. SUFFICES Same /\ \E t : Good(t) /\ Goes(t)
    BY OnlyTalk
<1>1. ASSUME NEW link \in BOOLEAN, Start(u, link) PROVE Same /\ \E t : Good(t) /\ Goes(t)
    <2>1. Good([talk[u] EXCEPT !.preferred = TRUE])
        BY <1>0 DEF Talk
    <2>. QED BY <1>0, <1>1, <2>1 DEF Start, settingsVars
<1>2. CASE BeginRegistration(u)
    <2>1. Good([NoTalk EXCEPT !.state = "ONBOARDING_NAME", !.preferred = talk[u].preferred])
        BY <1>0 DEF Talk, States
    <2>. QED BY <1>0, <1>2, <2>1 DEF BeginRegistration, settingsVars
<1>3. CASE OnboardingName(u) \/ CancelOnboarding(u) \/ BrowseNations(u)
           \/ ConfirmNationTooLate(u) \/ SkipFirstTrade(u) \/ ShowSettings(u)
           \/ SelectNewNation(u)
    BY <1>0, <1>3 DEF OnboardingName, CancelOnboarding, BrowseNations, ConfirmNationTooLate,
                      SkipFirstTrade, ShowSettings, SelectNewNation, SettingsClosed, settingsVars
<1>4. CASE OnboardingBackName(u)
    <2>1. Good([talk[u] EXCEPT !.state = "SET_USERNAME_PLAYER"])
        BY <1>0 DEF Talk, States
    <2>. QED BY <1>4, <2>1 DEF OnboardingBackName, settingsVars
<1>5. ASSUME NEW n \in bound.names, UseSuggestedName(u, n)
      PROVE  Same /\ \E t : Good(t) /\ Goes(t)
    <2>1. FoundFree(n) \in Check /\ Blind(FoundFree(n).name, FoundFree(n).seen)
        BY <1>5, BoundNames, FoundBlind DEF UseSuggestedName, OnboardingInv
    <2>2. Good([talk[u] EXCEPT !.found = FoundFree(n), !.state = "SELECT_NATION"])
        BY <1>0, <2>1 DEF Talk, States
    <2>. QED BY <1>5, <2>2 DEF UseSuggestedName, settingsVars
<1>6. CASE NewPlayerNextStep(u)
    <2>1. Good([talk[u] EXCEPT !.first = TRUE])
        BY <1>0 DEF Talk
    <2>. QED BY <1>6, <2>1 DEF NewPlayerNextStep, settingsVars
<1>7. ASSUME NEW state \in {"CHANGE_USERNAME", "CONFIRM_CHANGE_NATION", "SELECT_NEW_NATION"},
             StartChange(u, state)
      PROVE  Same /\ \E t : Good(t) /\ Goes(t)
    <2>1. Good([talk[u] EXCEPT !.state = state])
        BY <1>0 DEF Talk, States
    <2>. QED BY <1>7, <2>1 DEF StartChange
<1>. QED BY <1>1, <1>2, <1>3, <1>4, <1>5, <1>6, <1>7

(* Every step keeps the invariant. *)
LEMMA OnboardingInvStep == OnboardingInv /\ [OnboardingNext]_onboardingVars => OnboardingInv'
<1>. SUFFICES ASSUME OnboardingInv, [OnboardingNext]_onboardingVars PROVE OnboardingInv'
    OBVIOUS
<1>. USE DEF OnboardingInv
<1>1. ASSUME NEW u \in Newcomer, NEW n \in bound.names, AcceptChecks(u, n) PROVE OnboardingInv'
    <2>1. (FoundFree(n) \in Check /\ Blind(FoundFree(n).name, FoundFree(n).seen)) \/ Registered(u)
        BY <1>1, BoundNames, FoundBlind DEF AcceptChecks
    <2>2. CASE Registered(u)
        BY <1>1, <2>2, NothingType, OnlyTalk DEF AcceptChecks, settingsVars
    <2>3. CASE ~Registered(u)
        <3>1. accepting' = Put(accepting, u, FoundFree(n)) /\ talk' = talk
            BY <1>1, <2>3 DEF AcceptChecks
        <3>2. UNCHANGED <<renaming, trader, citizen, lots, trades, checked, renamed, bound>>
            BY <1>1 DEF AcceptChecks, settingsVars
        <3>3. OnboardingTypeOK' /\ WaitingBlind'
            BY <2>1, <2>3, <3>1, <3>2 DEF OnboardingTypeOK, WaitingBlind, Put, Blind, SameName
        <3>. QED BY <3>2, <3>3 DEF WrittenBlind, NamesDiffer, CapitalInBooks, Blind, SameName,
                                   Registered
    <2>. QED BY <2>2, <2>3
<1>2. ASSUME NEW u \in Newcomer, NEW synced \in BOOLEAN, AcceptWrites(u, synced)
      PROVE  OnboardingInv'
    <2>1. accepting[u] \in Check /\ Blind(accepting[u].name, accepting[u].seen)
        BY DEF OnboardingTypeOK, WaitingBlind
    <2>2. /\ accepting' = Put(accepting, u, NameUnchecked)
          /\ UNCHANGED <<renaming, trades, renamed, bound>>
          /\ talk' = Put(talk, u, NoTalk) \/ talk' = talk
        BY <1>2 DEF AcceptWrites, settingsVars
    <2>3. WaitingBlind' /\ talk' \in [Newcomer -> Talk] /\ accepting' \in [Newcomer -> Check]
        BY <2>2, NothingType DEF OnboardingTypeOK, WaitingBlind, Put, Blind, SameName
    <2>4. CapitalInBooks' /\ citizen' \in [Newcomer -> BOOLEAN] /\ lots' \in [Newcomer -> Nat]
        BY <1>2, <2>2, OnboardingAssumption DEF AcceptWrites, OnboardingTypeOK, CapitalInBooks, Put
    <2>5. CASE Violates(u, accepting[u].name)
        <3>1. UNCHANGED <<trader, checked>>
            BY <1>2, <2>5 DEF AcceptWrites
        <3>. QED BY <2>2, <2>3, <2>4, <3>1 DEF OnboardingTypeOK, WrittenBlind, NamesDiffer, Blind,
                                               SameName, Registered
    <2>6. CASE ~Violates(u, accepting[u].name)
        <3>1. /\ trader' = Put(trader, u, accepting[u].name)
              /\ checked' = Put(checked, u, accepting[u].seen)
            BY <1>2, <2>6 DEF AcceptWrites
        <3>2. accepting[u].name \in Name \cup {NoName} /\ accepting[u].seen \in SUBSET Name
            BY <2>1 DEF Check
        <3>. QED BY <2>1, <2>2, <2>3, <2>4, <2>6, <3>1, <3>2, NameWritten DEF OnboardingTypeOK
    <2>. QED BY <2>5, <2>6
<1>3. ASSUME NEW u \in Newcomer, NEW answer \in {"joined", "requested", "refused"},
             ConfirmNation(u, answer)
      PROVE  OnboardingInv'
    <2>. DEFINE found == talk[u].found
                offer == [NoTalk EXCEPT !.first = TRUE]
    <2>1. found.name \in Name \cup {NoName} /\ found.seen \in SUBSET Name
          /\ Blind(found.name, found.seen)
        BY DEF OnboardingTypeOK, WaitingBlind, Talk, Check
    <2>2. /\ ~Violates(u, found.name) /\ trader' = Put(trader, u, found.name)
          /\ checked' = Put(checked, u, found.seen)
          /\ UNCHANGED <<accepting, renaming, trades, renamed, bound>>
        BY <1>3 DEF ConfirmNation, settingsVars
    <2>3. offer \in Talk /\ offer.found = NameUnchecked
        BY NothingType DEF Talk
    <2>4. talk' = talk \/ talk' = Put(talk, u, NoTalk) \/ talk' = Put(talk, u, offer)
        BY <1>3 DEF ConfirmNation
    <2>. HIDE DEF found, offer
    <2>5. WaitingBlind' /\ talk' \in [Newcomer -> Talk]
        BY <2>2, <2>3, <2>4, NothingType DEF OnboardingTypeOK, WaitingBlind, Put, Blind, SameName
    <2>6. \/ UNCHANGED <<citizen, lots>>
          \/ ~citizen[u] /\ citizen' = Put(citizen, u, TRUE) /\ lots' = Put(lots, u, Capital)
        BY <1>3 DEF ConfirmNation
    <2>7. CapitalInBooks' /\ citizen' \in [Newcomer -> BOOLEAN] /\ lots' \in [Newcomer -> Nat]
        <3>1. CASE UNCHANGED <<citizen, lots>>
            BY <2>2, <3>1 DEF OnboardingTypeOK, CapitalInBooks
        <3>2. CASE ~citizen[u] /\ citizen' = Put(citizen, u, TRUE) /\ lots' = Put(lots, u, Capital)
            <4>1. trades[u] = 0 /\ Capital \in Nat
                BY <3>2, OnboardingAssumption DEF CapitalInBooks
            <4>2. lots' \in [Newcomer -> Nat]
                BY <3>2, <4>1 DEF OnboardingTypeOK, Put
            <4>3. citizen' \in [Newcomer -> BOOLEAN]
                BY <3>2 DEF OnboardingTypeOK, Put
            <4>4. CapitalInBooks'
                BY <2>2, <3>2, <4>1 DEF OnboardingTypeOK, CapitalInBooks, Put
            <4>. QED BY <4>2, <4>3, <4>4
        <3>. QED BY <2>6, <3>1, <3>2
    <2>. QED BY <2>1, <2>2, <2>5, <2>7, NameWritten DEF OnboardingTypeOK
<1>4. ASSUME NEW u \in Newcomer, ConfirmFirstTrade(u) PROVE OnboardingInv'
    <2>1. UNCHANGED <<accepting, renaming, trader, citizen, checked, renamed, bound>>
        BY <1>4 DEF ConfirmFirstTrade, settingsVars
    <2>2. CASE ~MaySell(u)
        BY <1>4, <2>1, <2>2 DEF ConfirmFirstTrade, OnboardingTypeOK, WaitingBlind, WrittenBlind,
                               NamesDiffer, CapitalInBooks, Blind, SameName, Registered
    <2>3. CASE MaySell(u)
        <3>1. /\ lots' = Put(lots, u, lots[u] - 1) /\ trades' = Put(trades, u, trades[u] + 1)
              /\ talk' = Put(talk, u, NoTalk)
            BY <1>4, <2>3 DEF ConfirmFirstTrade
        <3>2. CapitalInBooks' /\ lots' \in [Newcomer -> Nat] /\ trades' \in [Newcomer -> Nat]
            BY <2>1, <2>3, <3>1 DEF MaySell, OnboardingTypeOK, CapitalInBooks, Put
        <3>3. WaitingBlind' /\ talk' \in [Newcomer -> Talk]
            BY <2>1, <3>1, NothingType DEF OnboardingTypeOK, WaitingBlind, Put, Blind, SameName
        <3>. QED BY <2>1, <3>2, <3>3 DEF OnboardingTypeOK, WrittenBlind, NamesDiffer, Blind,
                                         SameName, Registered
    <2>. QED BY <2>2, <2>3
<1>5. ASSUME NEW u \in Newcomer, NEW n \in bound.names, RenameChecks(u, n) PROVE OnboardingInv'
    <2>1. /\ renaming' = Put(renaming, u, n)
          /\ UNCHANGED <<talk, accepting, trader, citizen, lots, trades, checked, renamed, bound>>
        BY <1>5 DEF RenameChecks
    <2>2. OnboardingTypeOK'
        BY <2>1, BoundNames DEF OnboardingTypeOK, Put
    <2>3. WaitingBlind' /\ WrittenBlind'
        BY <2>1 DEF WaitingBlind, WrittenBlind, Blind, SameName
    <2>4. NamesDiffer' /\ CapitalInBooks'
        BY <2>1 DEF NamesDiffer, CapitalInBooks, Registered
    <2>. QED BY <2>2, <2>3, <2>4
<1>6. ASSUME NEW u \in Newcomer, RenameWrites(u) PROVE OnboardingInv'
    <2>1. /\ renaming' = Put(renaming, u, NoName)
          /\ UNCHANGED <<accepting, citizen, lots, trades, checked, bound>>
          /\ talk' = Put(talk, u, NoTalk) \/ talk' = talk
        BY <1>6 DEF RenameWrites
    <2>2. WaitingBlind' /\ talk' \in [Newcomer -> Talk] /\ CapitalInBooks'
        BY <2>1, NothingType DEF OnboardingTypeOK, WaitingBlind, CapitalInBooks, Put, Blind, SameName
    <2>3. renaming' \in [Newcomer -> Name \cup {NoName}]
        BY <2>1 DEF OnboardingTypeOK, Put
    <2>4. CASE Violates(u, renaming[u])
        <3>1. UNCHANGED <<trader, renamed>>
            BY <1>6, <2>4 DEF RenameWrites
        <3>. QED BY <2>1, <2>2, <2>3, <3>1 DEF OnboardingTypeOK, WrittenBlind, NamesDiffer, Blind,
                                               SameName, Registered
    <2>5. CASE ~Violates(u, renaming[u])
        <3>1. trader' = Put(trader, u, renaming[u]) /\ renamed' = renamed \cup {u}
            BY <1>6, <2>5 DEF RenameWrites
        <3>2. renaming[u] \in Name \cup {NoName}
            BY DEF OnboardingTypeOK
        <3>3. /\ trader' \in [Newcomer -> Name \cup {NoName}] /\ checked' \in [Newcomer -> SUBSET Name]
              /\ WrittenBlind' /\ NamesDiffer'
            BY <2>1, <2>5, <3>1, <3>2, NameWritten
        <3>. QED BY <2>1, <2>2, <2>3, <3>3 DEF OnboardingTypeOK
    <2>. QED BY <2>4, <2>5
<1>7. ASSUME NEW u \in Newcomer, TimePasses(u) \/ PressFirstTrade(u) PROVE OnboardingInv'
    BY <1>7, Untouched DEF TimePasses, PressFirstTrade, settingsVars
<1>8. CASE UNCHANGED onboardingVars
    BY <1>8, Untouched DEF onboardingVars
<1>. QED BY <1>1, <1>2, <1>3, <1>4, <1>5, <1>6, <1>7, <1>8, TalkStep DEF OnboardingNext, OnboardingStep

\* Two traders never have one name, and names that differ in case come only from
\* checks that could not see each other, or from the settings: username_exists,
\* uq_users_username and is_username_taken together.
THEOREM NamesRarelyCollide == OnboardingSpec => []NamesCollideOnlyUnchecked
<1>. QED BY InitOnboarding, OnboardingInvStep, InvNames, PTL DEF OnboardingSpec

\* confirm_first_trade looks at the holding under the lock: overlapping presses
\* sell no more than the capital, and each sale is in the books.
THEOREM CapitalKept == OnboardingSpec => []FirstTradesWithinCapital
<1>. QED BY InitOnboarding, OnboardingInvStep, InvCapital, PTL DEF OnboardingSpec

=============================================================================
