--------------------------- MODULE Wallets_proofs ---------------------------
(*****************************************************************************)
(* Money, for any number of players, nations, sessions, operations and wars: *)
(* what the row locks protect although values are read before them.          *)
(*****************************************************************************)
EXTENDS Wallets, Inductions

OpKind == {"buy", "sell", "deposit", "withdraw", "claim", "kick", "adjust", "declare", "resolve"}

WarStatus == {"active", "draw", "ended"}

TxType == [kind : OpKind, who : Player, land : Country, foe : Country, war : Nat, held : Nat,
           cash : Int, mirror : Int, home : Country \cup {NoCountry}, clear : BOOLEAN,
           status : WarStatus, rates : [Country -> Nat], copies : [Country -> Int]]

WarType == [declarer : Country, sides : SUBSET Country, status : WarStatus, paid : Nat]

\* Amounts with two places.
Cents == {m \in Int : m % Coarse = 0}

WalletsTypeOK ==
    /\ cash \in [Player -> Int] /\ booked \in [Player -> Int] /\ mirror \in [Player -> Cents]
    /\ home \in [Player -> Country \cup {NoCountry}]
    /\ holding \in [Player -> [Country -> Nat]]
    /\ vault \in [Country -> Int] /\ copy \in [Country -> Int]
    /\ rate \in [Country -> Rates]
    /\ wars \in Seq(WarType)
    /\ tx \in [Session -> TxType \cup {Idle}]

\* The transaction of session s, when it has one.
Open(s) == tx[s] # Idle

\* With which lock a transaction has its user's row.
UserLock(t) == IF t.kind \in {"buy", "sell"} THEN 1 ELSE 2

HasUser(t) == t.kind \notin {"adjust", "declare", "resolve"} /\ t.held >= UserLock(t)

\* A row is locked by one session.
RowsExclusive == \A s, r \in Session : s # r => Held(s) \cap Held(r) = {}

\* A trade and a deposit know the player's row as it is, once they have its lock.
Fresh(t) ==
    t.kind \in {"buy", "sell", "deposit"} /\ HasUser(t) =>
        t.cash = cash[t.who] /\ t.mirror = mirror[t.who] /\ t.home = home[t.who]

\* A trade that has its locks has read a rate.
RateRead(t) ==
    t.kind \in {"buy", "sell"} /\ t.held >= 1 /\ (t.held >= 2 \/ home[t.who] = t.land) =>
        t.rates \in [Country -> Rates]

\* A founder is not kicked, and a kick with the nation's lock knows whether the
\* player still is a citizen.
KickKnowsHome(t) ==
    t.kind = "kick" =>
        /\ \A n \in Country : t.who # Founder[n]
        /\ t.held >= 1 /\ t.home = t.land => home[t.who] = t.land

\* It is the founder who withdraws, and a founder is at home in the nation.
FounderWithdraws(t) ==
    t.kind = "withdraw" =>
        /\ t.who = Founder[t.land]
        /\ t.held >= 1 => t.home = t.land

\* A resolution that has read an active war resolves one that has paid nothing.
WarUnpaid(t) ==
    t.kind = "resolve" =>
        t.war \in DOMAIN wars /\ (t.status = "active" => wars[t.war].paid = 0)

\* A declaration is against another nation, and with both nations' locks it knows
\* whether they are at war.
PeaceKnown(t) ==
    t.kind = "declare" =>
        /\ t.foe # t.land
        /\ t.held >= 2 /\ t.clear => ~ActiveBetween(t.land, t.foe)

SessionOK(t) ==
    Fresh(t) /\ RateRead(t) /\ KickKnowsHome(t) /\ FounderWithdraws(t)
    /\ WarUnpaid(t) /\ PeaceKnown(t)

SessionsOK == \A s \in Session : Open(s) => SessionOK(tx[s])

FoundersAtHome == \A n \in Country : home[Founder[n]] = n

OneResolver ==
    \A s, r \in Session : tx[s].kind = "resolve" /\ tx[r].kind = "resolve" => s = r

WarOK(i) ==
    /\ wars[i].paid <= 1 /\ (wars[i].status = "active" => wars[i].paid = 0)
    /\ \E n \in wars[i].sides : n # wars[i].declarer
WarsOK == \A i \in DOMAIN wars : WarOK(i)

WalletsInv ==
    /\ WalletsTypeOK /\ RowsExclusive /\ SessionsOK /\ FoundersAtHome /\ OneResolver
    /\ WarsOK /\ OneWarPerPair

------------------------------------------------------------------------------
(* Rounding. *)

LEMMA Parts ==
    /\ Fine \in Nat /\ Fine > 0 /\ Coarse \in Nat /\ Coarse > 0 /\ Fine < Coarse
    /\ Fine \in Nat \ {0} /\ Coarse \in Nat \ {0}
    /\ Stake \in Nat /\ Stake > 0
BY WalletsAssumption DEF WalletsAssumption

(* What is written is at most half a place off. *)
LEMMA RoundedNear ==
    ASSUME NEW x \in Int, NEW g \in Nat \ {0}
    PROVE  /\ Rounded(x, g) \in Int
           /\ 2 * Rounded(x, g) <= 2 * x + g /\ 2 * x - g <= 2 * Rounded(x, g)
<1>. DEFINE y == x + g \div 2
<1>1. y \in Int /\ 2 * y <= 2 * x + g /\ 2 * y >= 2 * x + g - 1
    OBVIOUS
<1>. HIDE DEF y
<1>2. y % g \in Int /\ 0 <= y % g /\ y % g < g
    BY <1>1
<1>3. y - (y % g) \in Int /\ 2 * (y - (y % g)) <= 2 * x + g /\ 2 * x - g <= 2 * (y - (y % g))
    BY <1>1, <1>2
<1>. QED BY <1>3 DEF Rounded, y

LEMMA RoundedWhole ==
    ASSUME NEW x \in Int, NEW g \in Nat \ {0}
    PROVE  Rounded(x, g) % g = 0 /\ (x >= 0 => Rounded(x, g) >= 0)
<1>. DEFINE y == x + g \div 2
<1>1. y \in Int /\ (x >= 0 => y >= 0)
    OBVIOUS
<1>. HIDE DEF y
<1>2. (y - (y % g)) % g = 0
    BY <1>1
<1>3. y >= 0 => y - (y % g) >= 0
    BY <1>1
<1>. QED BY <1>1, <1>2, <1>3 DEF Rounded, y

LEMMA RoundedZero ==
    ASSUME NEW g \in Nat \ {0}
    PROVE  Rounded(0, g) = 0
<1>1. 0 + g \div 2 = g \div 2 /\ g \div 2 \in Int /\ 0 <= g \div 2 /\ g \div 2 < g
    OBVIOUS
<1>2. PICK h \in Int : h = g \div 2
    BY <1>1
<1>3. h % g = h
    BY <1>1, <1>2
<1>. QED BY <1>1, <1>2, <1>3 DEF Rounded

LEMMA NoCents ==
    ASSUME NEW m \in Cents, Close(m, 0)
    PROVE  m = 0
<1>1. m \in Int /\ m % Coarse = 0 /\ m < Coarse /\ -m < Coarse /\ Coarse \in Nat /\ Coarse > 0
    BY Parts DEF Cents, Close
<1>2. CASE m >= 0
    BY <1>1, <1>2
<1>3. CASE m < 0
    BY <1>1, <1>3
<1>. QED BY <1>1, <1>2, <1>3

(* A column of two places and one of four, written with the same amount. *)
LEMMA RoundedAlike ==
    ASSUME NEW x \in Int
    PROVE  /\ Rounded(x, Coarse) \in Cents /\ Rounded(x, Coarse) \in Int
           /\ Rounded(x, Fine) \in Int /\ (x >= 0 => Rounded(x, Fine) >= 0)
           /\ Close(Rounded(x, Coarse), Rounded(x, Fine))
           /\ Close(Rounded(x, Coarse), x) /\ Close(x, Rounded(x, Fine))
<1>1. PICK c \in Int, f \in Int : c = Rounded(x, Coarse) /\ f = Rounded(x, Fine)
    BY RoundedNear, Parts
<1>2. 2 * c <= 2 * x + Coarse /\ 2 * x - Coarse <= 2 * c
    BY <1>1, RoundedNear, Parts
<1>3. 2 * f <= 2 * x + Fine /\ 2 * x - Fine <= 2 * f
    BY <1>1, RoundedNear, Parts
<1>4. Close(c, f) /\ Close(c, x) /\ Close(x, f)
    BY <1>2, <1>3, Parts DEF Close
<1>5. c \in Cents /\ (x >= 0 => f >= 0)
    BY <1>1, RoundedWhole, Parts DEF Cents
<1>. QED BY <1>1, <1>4, <1>5

LEMMA Lots == Lot \in Nat /\ Lot \in Int /\ -Lot \in Int /\ -Lot = 0 - Lot
<1>1. Stake \in Int /\ Stake >= 0
    BY Parts
<1>. QED BY <1>1, RoundedAlike DEF Lot

LEMMA JournalType ==
    ASSUME NEW d \in Int
    PROVE  /\ Journal(d) \in Int
           /\ 2 * Journal(d) <= 2 * d + Fine /\ 2 * d - Fine <= 2 * Journal(d)
<1>1. CASE d < 0
    <2>1. PICK e \in Int : e = -d
        OBVIOUS
    <2>2. PICK r \in Int : r = Rounded(e, Fine) /\ 2 * r <= 2 * e + Fine /\ 2 * e - Fine <= 2 * r
        BY RoundedNear, Parts
    <2>3. Journal(d) = -r
        BY <1>1, <2>1, <2>2 DEF Journal
    <2>. QED BY <2>1, <2>2, <2>3, Parts
<1>2. CASE ~(d < 0)
    BY <1>2, RoundedNear, Parts DEF Journal
<1>. QED BY <1>1, <1>2

(* What a lost war takes is there. *)
LEMMA LostThere ==
    ASSUME NEW v \in Int
    PROVE  Lost(v) \in Int /\ (v >= 0 => Lost(v) >= 0 /\ Lost(v) <= v)
<1>1. PICK g \in Nat : g = 10 * Fine /\ g > 0
    BY Parts
<1>2. PICK q \in Int : q = v \div g /\ (v >= 0 => q >= 0)
    BY <1>1
<1>3. PICK p \in {q, q + 1} : Tenth(v) = Fine * p
    BY <1>1, <1>2 DEF Tenth
<1>4. p \in Int /\ (v >= 0 => p >= 0)
    BY <1>2, <1>3
<1>5. Fine * p \in Int /\ (p >= 0 => Fine * p >= 0)
    BY <1>4, Parts
<1>. QED BY <1>3, <1>4, <1>5 DEF Lost

------------------------------------------------------------------------------
(* The plan depends on what a transaction was asked for, not on what it read. *)
LEMMA SamePlan ==
    ASSUME NEW t \in TxType, NEW q \in TxType, q.kind = t.kind, q.who = t.who, q.land = t.land,
           q.foe = t.foe, q.war = t.war
    PROVE  Plan(q) = Plan(t)
BY DEF Plan, DeclarePlan, ResolvePlan

(* The rows of each plan. *)
LEMMA TradePlan ==
    ASSUME NEW t \in TxType, t.kind \in {"buy", "sell"}
    PROVE  Plan(t) = <<UserRow(t.who), NationRow(t.land)>> /\ Len(Plan(t)) = 2
BY DEF Plan

LEMMA DutyPlan ==
    ASSUME NEW t \in TxType, t.kind \in {"deposit", "withdraw", "kick"}
    PROVE  Plan(t) = <<NationRow(t.land), UserRow(t.who)>> /\ Len(Plan(t)) = 2
BY DEF Plan

LEMMA ClaimPlan ==
    ASSUME NEW t \in TxType, t.kind = "claim"
    PROVE  Plan(t) = <<ProgressRow(t.who), UserRow(t.who)>> /\ Len(Plan(t)) = 2
BY DEF Plan

LEMMA DeclarationPlan ==
    ASSUME NEW t \in TxType, t.kind = "declare"
    PROVE  /\ Len(Plan(t)) = 2
           /\ \/ Plan(t) = <<NationRow(t.land), NationRow(t.foe)>>
              \/ Plan(t) = <<NationRow(t.foe), NationRow(t.land)>>
BY DEF Plan, DeclarePlan, InIdOrder


------------------------------------------------------------------------------
(* What a session holds. *)

LEMMA OpenTx ==
    ASSUME WalletsTypeOK, NEW s \in Session, Open(s)
    PROVE  tx[s] \in TxType
BY DEF WalletsTypeOK, Open

LEMMA OpenByKind ==
    ASSUME NEW t \in TxType
    PROVE  t # Idle
BY DEF TxType, OpKind, Idle

LEMMA HoldsUser ==
    ASSUME WalletsTypeOK, NEW s \in Session, Open(s), HasUser(tx[s])
    PROVE  UserRow(tx[s].who) \in Held(s)
<1>. DEFINE t == tx[s]
<1>1. t \in TxType BY OpenTx
<1>2. t.held \in Nat /\ t.kind \in OpKind BY <1>1 DEF TxType
<1>3. CASE t.kind \in {"buy", "sell"}
  <2>1. t.held >= 1 BY <1>3 DEF HasUser, UserLock
  <2>2. 1 \in 1..t.held BY <2>1, <1>2
  <2>3. Plan(t)[1] = UserRow(t.who) BY <1>1, <1>3, TradePlan
  <2>. QED BY <2>2, <2>3 DEF Held, Open
<1>4. CASE t.kind \in {"deposit", "withdraw", "kick", "claim"}
  <2>1. t.held >= 2 BY <1>4 DEF HasUser, UserLock
  <2>2. 2 \in 1..t.held BY <2>1, <1>2
  <2>3. Plan(t)[2] = UserRow(t.who) BY <1>1, <1>4, DutyPlan, ClaimPlan
  <2>. QED BY <2>2, <2>3 DEF Held, Open
<1>. QED BY <1>2, <1>3, <1>4 DEF HasUser, OpKind

LEMMA HoldsLand ==
    ASSUME WalletsTypeOK, NEW s \in Session, Open(s), tx[s].kind = "kick", tx[s].held >= 1
    PROVE  NationRow(tx[s].land) \in Held(s)
<1>. DEFINE t == tx[s]
<1>1. t \in TxType BY OpenTx
<1>2. t.held \in Nat BY <1>1 DEF TxType
<1>3. 1 \in 1..t.held BY <1>2
<1>4. Plan(t)[1] = NationRow(t.land) BY <1>1, DutyPlan
<1>. QED BY <1>3, <1>4 DEF Held, Open

LEMMA HoldsSides ==
    ASSUME WalletsTypeOK, NEW s \in Session, Open(s), tx[s].kind = "declare", tx[s].held >= 2
    PROVE  NationRow(tx[s].land) \in Held(s) /\ NationRow(tx[s].foe) \in Held(s)
<1>. DEFINE t == tx[s]
<1>1. t \in TxType BY OpenTx
<1>2. t.held \in Nat BY <1>1 DEF TxType
<1>3. 1 \in 1..t.held /\ 2 \in 1..t.held BY <1>2
<1>4. \/ Plan(t)[1] = NationRow(t.land) /\ Plan(t)[2] = NationRow(t.foe)
      \/ Plan(t)[2] = NationRow(t.land) /\ Plan(t)[1] = NationRow(t.foe)
    BY <1>1, DeclarationPlan
<1>. QED BY <1>3, <1>4 DEF Held, Open

(* A transaction that can commit has its user's row. *)
LEMMA ReadyHasUser ==
    ASSUME WalletsTypeOK, NEW s \in Session, Ready(s),
           tx[s].kind \notin {"adjust", "declare", "resolve"}
    PROVE  Open(s) /\ HasUser(tx[s]) /\ tx[s].held = 2
<1>. DEFINE t == tx[s]
<1>1. Open(s) BY DEF Ready, Open
<1>2. t \in TxType BY <1>1, OpenTx
<1>3. t.kind \in OpKind BY <1>2 DEF TxType
<1>4. Len(Plan(t)) = 2 BY <1>2, <1>3, TradePlan, DutyPlan, ClaimPlan DEF OpKind
<1>5. t.held = 2 BY <1>4 DEF Ready
<1>. QED BY <1>1, <1>5 DEF HasUser, UserLock

(* Two sessions do not have the same user's row. *)
LEMMA UserOnce ==
    ASSUME WalletsTypeOK, RowsExclusive, NEW s \in Session, NEW r \in Session, s # r,
           Open(s), Open(r), HasUser(tx[s]), HasUser(tx[r])
    PROVE  tx[s].who # tx[r].who
BY HoldsUser DEF RowsExclusive

------------------------------------------------------------------------------
(* A request, and what a lock adds to what a transaction has read. *)

LEMMA BlankFields ==
    ASSUME NEW k \in OpKind, NEW u \in Player, NEW n \in Country
    PROVE  /\ Blank(k, u, n) \in TxType
           /\ Blank(k, u, n).kind = k /\ Blank(k, u, n).who = u /\ Blank(k, u, n).land = n
           /\ Blank(k, u, n).held = 0
BY DEF Blank, TxType, WarStatus

LEMMA ResolutionFields ==
    ASSUME WalletsTypeOK, WarsOK, NEW i \in DOMAIN wars
    PROVE  /\ Resolution(i) \in TxType
           /\ Resolution(i).kind = "resolve" /\ Resolution(i).held = 0
           /\ Resolution(i).war = i /\ Resolution(i).status = wars[i].status
<1>. DEFINE a == wars[i].declarer
            b == CHOOSE n \in wars[i].sides : n # a
            t == Blank("resolve", Founder[a], a)
            q == [t EXCEPT !.foe = b, !.war = i, !.status = wars[i].status,
                           !.rates = rate, !.copies = copy]
<1>1. i \in Nat /\ wars[i] \in WarType
    BY DEF WalletsTypeOK
<1>2. a \in Country /\ wars[i].status \in WarStatus /\ wars[i].sides \subseteq Country
    BY <1>1 DEF WarType
<1>3. b \in Country
    BY <1>2 DEF WarsOK, WarOK
<1>4. rate \in [Country -> Nat] /\ copy \in [Country -> Int]
    BY WalletsAssumption DEF WalletsTypeOK, WalletsAssumption
<1>5. Founder[a] \in Player
    BY <1>2, WalletsAssumption DEF WalletsAssumption
<1>6. t \in TxType /\ t.kind = "resolve" /\ t.held = 0
    BY <1>2, <1>5, BlankFields DEF OpKind
<1>7. Resolution(i) = q
    BY DEF Resolution
<1>. HIDE DEF a, b, t
<1>8. q \in TxType /\ q.kind = t.kind /\ q.held = t.held /\ q.war = i /\ q.status = wars[i].status
    BY <1>1, <1>2, <1>3, <1>4, <1>6 DEF TxType
<1>. QED BY <1>6, <1>7, <1>8

LEMMA RequestFields ==
    ASSUME WalletsTypeOK, WarsOK, FoundersAtHome, NEW t \in Requests
    PROVE  /\ t \in TxType /\ t.held = 0
           /\ t.kind = "kick" => \A n \in Country : t.who # Founder[n]
           /\ t.kind = "withdraw" => t.who = Founder[t.land]
           /\ t.kind = "declare" => t.foe # t.land
           /\ t.kind = "resolve" =>
                NoResolver /\ t.war \in DOMAIN wars /\ t.status = wars[t.war].status
<1>. USE WalletsAssumption DEF WalletsAssumption
<1>1. CASE \E k \in {"buy", "sell"}, u \in Player, n \in Country : t = Blank(k, u, n)
    BY <1>1, BlankFields DEF OpKind
<1>2. CASE \E u \in Player : home[u] # NoCountry /\ t = Blank("deposit", u, home[u])
  <2>1. PICK u \in Player : home[u] # NoCountry /\ t = Blank("deposit", u, home[u]) BY <1>2
  <2>2. home[u] \in Country BY <2>1 DEF WalletsTypeOK
  <2>. QED BY <2>1, <2>2, BlankFields DEF OpKind
<1>3. CASE \E n \in Country : t = Blank("withdraw", Founder[n], n)
    BY <1>3, BlankFields DEF OpKind
<1>4. CASE \E n \in Country : t = Blank("adjust", Founder[n], n)
    BY <1>4, BlankFields DEF OpKind
<1>5. CASE \E u \in Player : /\ home[u] # NoCountry /\ u # Founder[home[u]]
                             /\ t = Blank("kick", u, home[u])
  <2>1. PICK u \in Player : /\ home[u] # NoCountry /\ u # Founder[home[u]]
                            /\ t = Blank("kick", u, home[u])
      BY <1>5
  <2>2. home[u] \in Country BY <2>1 DEF WalletsTypeOK
  <2>3. \A n \in Country : u # Founder[n] BY <2>1 DEF FoundersAtHome
  <2>. QED BY <2>1, <2>2, <2>3, BlankFields DEF OpKind
<1>6. CASE \E u \in Player : t = Blank("claim", u, CHOOSE n \in Country : TRUE)
  <2>1. PICK u \in Player : t = Blank("claim", u, CHOOSE n \in Country : TRUE) BY <1>6
  <2>2. StartHome[u] \in Country OBVIOUS
  <2>3. (CHOOSE n \in Country : TRUE) \in Country BY <2>2
  <2>. QED BY <2>1, <2>3, BlankFields DEF OpKind
<1>7. CASE \E p \in Country \X Country : p[1] # p[2] /\
                t = [Blank("declare", Founder[p[1]], p[1]) EXCEPT !.foe = p[2]]
  <2>1. PICK p \in Country \X Country : p[1] # p[2] /\
                t = [Blank("declare", Founder[p[1]], p[1]) EXCEPT !.foe = p[2]]
      BY <1>7
  <2>. DEFINE q == Blank("declare", Founder[p[1]], p[1])
  <2>2. q \in TxType /\ q.kind = "declare" /\ q.held = 0 /\ q.land = p[1]
      BY BlankFields DEF OpKind
  <2>3. t = [q EXCEPT !.foe = p[2]] BY <2>1
  <2>. HIDE DEF q
  <2>4. /\ t \in TxType /\ t.kind = q.kind /\ t.held = q.held
        /\ t.land = q.land /\ t.foe = p[2]
      BY <2>2, <2>3 DEF TxType
  <2>. QED BY <2>1, <2>2, <2>4
<1>8. CASE NoResolver /\ \E i \in DOMAIN wars : t = Resolution(i)
    BY <1>8, ResolutionFields
<1>. QED BY <1>1, <1>2, <1>3, <1>4, <1>5, <1>6, <1>7, <1>8 DEF Requests

LEMMA LockFields ==
    ASSUME NEW t \in TxType
    PROVE  LET q == WithLock(t)  k == t.held + 1 IN
           /\ q.kind = t.kind /\ q.who = t.who /\ q.land = t.land /\ q.foe = t.foe
           /\ q.war = t.war /\ q.status = t.status /\ q.copies = t.copies /\ q.held = k
           /\ q.cash = IF k = UserReadAt(t) THEN cash[t.who] ELSE t.cash
           /\ q.mirror = IF k = UserReadAt(t) THEN mirror[t.who] ELSE t.mirror
           /\ q.home = IF k = UserReadAt(t) THEN home[t.who] ELSE t.home
           /\ q.rates = IF \/ t.kind \in {"buy", "sell"}
                              /\ k = (IF home[t.who] = t.land THEN 1 ELSE 2)
                           \/ t.kind = "kick" /\ k = 1
                        THEN rate ELSE t.rates
           /\ q.clear = IF k = Len(Plan(t)) THEN ~ActiveBetween(t.land, t.foe) ELSE t.clear
BY DEF WithLock, TxType

LEMMA LockType ==
    ASSUME WalletsTypeOK, NEW t \in TxType
    PROVE  WithLock(t) \in TxType
<1>. DEFINE k == t.held + 1
            c == IF k = UserReadAt(t) THEN cash[t.who] ELSE t.cash
            m == IF k = UserReadAt(t) THEN mirror[t.who] ELSE t.mirror
            h == IF k = UserReadAt(t) THEN home[t.who] ELSE t.home
            r == IF \/ t.kind \in {"buy", "sell"}
                       /\ k = (IF home[t.who] = t.land THEN 1 ELSE 2)
                    \/ t.kind = "kick" /\ k = 1
                 THEN rate ELSE t.rates
            f == IF k = Len(Plan(t)) THEN ~ActiveBetween(t.land, t.foe) ELSE t.clear
            q == [t EXCEPT !.held = k, !.cash = c, !.mirror = m, !.home = h,
                           !.rates = r, !.clear = f]
<1>1. k \in Nat BY DEF TxType
<1>2. c \in Int BY DEF TxType, WalletsTypeOK
<1>3. m \in Int BY DEF TxType, WalletsTypeOK, Cents
<1>4. h \in Country \cup {NoCountry} BY DEF TxType, WalletsTypeOK
<1>5. rate \in [Country -> Nat] BY WalletsAssumption DEF WalletsTypeOK, WalletsAssumption
<1>6. r \in [Country -> Nat] BY <1>5 DEF TxType
<1>7. f \in BOOLEAN
  <2>1. ActiveBetween(t.land, t.foe) \in BOOLEAN BY DEF ActiveBetween
  <2>2. t.clear \in BOOLEAN BY DEF TxType
  <2>. QED BY <2>1, <2>2
<1>8. WithLock(t) = q BY DEF WithLock
<1>. HIDE DEF k, c, m, h, r, f
<1>9. q \in TxType BY <1>1, <1>2, <1>3, <1>4, <1>6, <1>7 DEF TxType
<1>. QED BY <1>8, <1>9

------------------------------------------------------------------------------
(* The invariant holds at the start, and each kind of step keeps it. *)

LEMMA WarOfType ==
    ASSUME NEW a \in Country, NEW b \in Country
    PROVE  /\ WarOf(a, b) \in WarType
           /\ WarOf(a, b).paid = 0 /\ WarOf(a, b).declarer = a /\ WarOf(a, b).sides = {a, b}
           /\ WarOf(a, b).status = "active"
BY DEF WarOf, WarType, WarStatus

LEMMA InvInit == WalletsInit => WalletsInv
<1>. SUFFICES ASSUME WalletsInit PROVE WalletsInv OBVIOUS
<1>. USE WalletsAssumption DEF WalletsAssumption
<1>0. wars = << >> \/ \E p \in Country \X Country : p[1] # p[2] /\ wars = <<WarOf(p[1], p[2])>>
    BY DEF WalletsInit
<1>1. wars \in Seq(WarType) /\ WarsOK /\ OneWarPerPair
  <2>1. CASE wars = << >> BY <2>1 DEF WarsOK, OneWarPerPair
  <2>2. CASE \E p \in Country \X Country : p[1] # p[2] /\ wars = <<WarOf(p[1], p[2])>>
    <3>1. PICK p \in Country \X Country : p[1] # p[2] /\ wars = <<WarOf(p[1], p[2])>> BY <2>2
    <3>. DEFINE w == WarOf(p[1], p[2])
    <3>2. w \in WarType /\ w.paid = 0 /\ w.declarer = p[1] /\ w.sides = {p[1], p[2]}
        BY WarOfType
    <3>3. wars = <<w>> BY <3>1
    <3>. HIDE DEF w
    <3>4. wars \in Seq(WarType) /\ DOMAIN wars = {1} /\ wars[1] = w BY <3>2, <3>3
    <3>5. WarOK(1) BY <3>1, <3>2, <3>4 DEF WarOK
    <3>. QED BY <3>4, <3>5 DEF WarsOK, OneWarPerPair
  <2>. QED BY <1>0, <2>1, <2>2
<1>2. WalletsTypeOK
  <2>1. holding \in [Player -> [Country -> Nat]] BY Lots DEF WalletsInit
  <2>2. vault \in [Country -> Int] /\ copy \in [Country -> Int]
      BY RoundedAlike DEF WalletsInit
  <2>3. cash \in [Player -> Int] /\ booked \in [Player -> Int] /\ mirror \in [Player -> Cents]
      BY Lots, RoundedAlike DEF WalletsInit
  <2>4. home \in [Player -> Country \cup {NoCountry}] BY DEF WalletsInit
  <2>. QED BY <1>1, <2>1, <2>2, <2>3, <2>4 DEF WalletsInit, WalletsTypeOK
<1>3. \A s \in Session : tx[s] = Idle /\ Held(s) = {} /\ tx[s].kind = "idle"
    BY DEF WalletsInit, Held, Idle
<1>4. RowsExclusive /\ SessionsOK /\ OneResolver
    BY <1>3 DEF RowsExclusive, SessionsOK, OneResolver, Open
<1>5. FoundersAtHome BY DEF WalletsInit, FoundersAtHome
<1>. QED BY <1>1, <1>2, <1>4, <1>5 DEF WalletsInv

(* A transaction stays good when what it relies on stays. *)
LEMMA OtherKept ==
    ASSUME NEW t \in TxType, SessionOK(t),
           HasUser(t) => /\ cash'[t.who] = cash[t.who] /\ mirror'[t.who] = mirror[t.who]
                         /\ home'[t.who] = home[t.who],
           t.kind = "kick" /\ t.held >= 1 /\ t.home = t.land => home'[t.who] = home[t.who],
           WarUnpaid(t)', PeaceKnown(t)'
    PROVE  SessionOK(t)'
<1>1. Fresh(t)' BY DEF SessionOK, Fresh, HasUser
<1>2. RateRead(t)'
  <2>1. t.kind \in {"buy", "sell"} /\ t.held >= 1 => home'[t.who] = home[t.who]
      BY DEF HasUser, UserLock
  <2>. QED BY <2>1 DEF SessionOK, RateRead
<1>3. KickKnowsHome(t)' BY DEF SessionOK, KickKnowsHome
<1>4. FounderWithdraws(t)' BY DEF SessionOK, FounderWithdraws
<1>. QED BY <1>1, <1>2, <1>3, <1>4 DEF SessionOK

(* Steps that only begin, go on with or end one session's transaction. *)
LEMMA TxOnly ==
    ASSUME WalletsInv, NEW s \in Session, NEW v \in TxType \cup {Idle},
           tx' = [tx EXCEPT ![s] = v],
           UNCHANGED <<cash, mirror, home, holding, booked, vault, copy, rate, wars>>,
           v # Idle => SessionOK(v),
           v.kind = "resolve" => NoResolver \/ tx[s].kind = "resolve",
           \A r \in Session : r # s => Held(s)' \cap Held(r) = {}
    PROVE  WalletsInv'
<1>. USE DEF WalletsInv
<1>1. \A r \in Session : r # s => tx'[r] = tx[r]
    BY DEF WalletsTypeOK
<1>2. tx'[s] = v
    BY DEF WalletsTypeOK
<1>3. WalletsTypeOK'
    BY DEF WalletsTypeOK
<1>4. RowsExclusive'
  <2>1. \A r \in Session : r # s => Held(r)' = Held(r)
      BY <1>1 DEF Held
  <2>. QED BY <2>1 DEF RowsExclusive
<1>5. SessionsOK'
  <2>. SUFFICES ASSUME NEW r \in Session, Open(r)' PROVE SessionOK(tx[r])'
      BY DEF SessionsOK
  <2>1. CASE r = s
      BY <2>1, <1>2 DEF Open, SessionOK, Fresh, RateRead, KickKnowsHome, FounderWithdraws,
                        WarUnpaid, PeaceKnown, ActiveBetween
  <2>2. CASE r # s
      BY <2>2, <1>1 DEF Open, SessionsOK, SessionOK, Fresh, RateRead, KickKnowsHome,
                        FounderWithdraws, WarUnpaid, PeaceKnown, ActiveBetween
  <2>. QED BY <2>1, <2>2
<1>6. FoundersAtHome' /\ WarsOK' /\ OneWarPerPair'
    BY DEF FoundersAtHome, WarsOK, WarOK, OneWarPerPair
<1>7. OneResolver'
    BY <1>1, <1>2 DEF OneResolver, NoResolver
<1>. QED BY <1>3, <1>4, <1>5, <1>6, <1>7

LEMMA BeginKeeps ==
    ASSUME WalletsInv, NEW s \in Session, Begin(s)
    PROVE  WalletsInv'
<1>. USE DEF WalletsInv
<1>1. PICK t \in Requests : tx' = [tx EXCEPT ![s] = t]
    BY DEF Begin
<1>2. /\ t \in TxType /\ t.held = 0
      /\ t.kind = "kick" => \A n \in Country : t.who # Founder[n]
      /\ t.kind = "withdraw" => t.who = Founder[t.land]
      /\ t.kind = "declare" => t.foe # t.land
      /\ t.kind = "resolve" =>
           NoResolver /\ t.war \in DOMAIN wars /\ t.status = wars[t.war].status
    BY RequestFields
<1>3. SessionOK(t)
  <2>1. WarUnpaid(t) BY <1>2 DEF WarUnpaid, WarsOK, WarOK
  <2>. QED BY <1>2, <2>1 DEF SessionOK, Fresh, HasUser, UserLock, RateRead, KickKnowsHome,
                             FounderWithdraws, PeaceKnown
<1>4. Held(s)' = {}
  <2>1. tx'[s] = t BY <1>1 DEF WalletsTypeOK
  <2>2. 1..t.held = {} BY <1>2
  <2>. QED BY <2>1, <2>2 DEF Held
<1>5. UNCHANGED <<cash, mirror, home, holding, booked, vault, copy, rate, wars>>
    BY DEF Begin
<1>. QED BY <1>1, <1>2, <1>3, <1>4, <1>5, TxOnly

LEMMA LockKeepsSession ==
    ASSUME WalletsInv, NEW s \in Session, Waiting(s)
    PROVE  SessionOK(WithLock(tx[s]))
<1>. DEFINE t == tx[s]  q == WithLock(t)
<1>0. Open(s) /\ t \in TxType /\ SessionOK(t) /\ t.held < Len(Plan(t))
    BY OpenTx DEF Waiting, Open, WalletsInv, SessionsOK
<1>1. t.held \in Nat /\ t.who \in Player /\ t.land \in Country
    BY <1>0 DEF TxType
<1>2. /\ q.kind = t.kind /\ q.who = t.who /\ q.land = t.land /\ q.foe = t.foe
      /\ q.war = t.war /\ q.status = t.status /\ q.held = t.held + 1
      /\ q.cash = IF t.held + 1 = UserReadAt(t) THEN cash[t.who] ELSE t.cash
      /\ q.mirror = IF t.held + 1 = UserReadAt(t) THEN mirror[t.who] ELSE t.mirror
      /\ q.home = IF t.held + 1 = UserReadAt(t) THEN home[t.who] ELSE t.home
      /\ q.rates = IF \/ t.kind \in {"buy", "sell"}
                         /\ t.held + 1 = (IF home[t.who] = t.land THEN 1 ELSE 2)
                      \/ t.kind = "kick" /\ t.held + 1 = 1
                   THEN rate ELSE t.rates
      /\ q.clear = IF t.held + 1 = Len(Plan(t)) THEN ~ActiveBetween(t.land, t.foe) ELSE t.clear
    BY <1>0, LockFields
<1>. HIDE DEF t, q
<1>3. Fresh(q)
  <2>. SUFFICES ASSUME q.kind \in {"buy", "sell", "deposit"}, HasUser(q)
                PROVE  q.cash = cash[q.who] /\ q.mirror = mirror[q.who] /\ q.home = home[q.who]
      BY DEF Fresh
  <2>1. CASE t.held + 1 = UserReadAt(t) BY <2>1, <1>2
  <2>2. CASE t.held + 1 # UserReadAt(t)
    <3>1. HasUser(t) BY <2>2, <1>1, <1>2 DEF HasUser, UserLock, UserReadAt
    <3>. QED BY <2>2, <3>1, <1>0, <1>2 DEF SessionOK, Fresh
  <2>. QED BY <2>1, <2>2
<1>4. RateRead(q)
  <2>1. rate \in [Country -> Rates] BY DEF WalletsInv, WalletsTypeOK
  <2>2. RateRead(t) BY <1>0 DEF SessionOK
  <2>3. t.held = 0 \/ t.held = 1 \/ t.held >= 2 BY <1>1
  <2>. QED BY <1>1, <1>2, <2>1, <2>2, <2>3 DEF RateRead
<1>5. KickKnowsHome(q)
  <2>1. KickKnowsHome(t) BY <1>0 DEF SessionOK
  <2>2. t.held = 0 \/ t.held >= 1 BY <1>1
  <2>. QED BY <1>1, <1>2, <2>1, <2>2 DEF KickKnowsHome, UserReadAt
<1>6. FounderWithdraws(q)
  <2>1. FounderWithdraws(t) BY <1>0 DEF SessionOK
  <2>2. t.held = 0 \/ t.held >= 1 BY <1>1
  <2>3. home[Founder[t.land]] = t.land BY <1>1 DEF WalletsInv, FoundersAtHome
  <2>. QED BY <1>1, <1>2, <2>1, <2>2, <2>3 DEF FounderWithdraws, UserReadAt
<1>7. WarUnpaid(q)
    BY <1>0, <1>2 DEF SessionOK, WarUnpaid
<1>8. PeaceKnown(q)
  <2>0. PeaceKnown(t) BY <1>0 DEF SessionOK
  <2>. SUFFICES ASSUME q.kind = "declare", q.held >= 2, q.clear PROVE ~ActiveBetween(q.land, q.foe)
      BY <1>2, <2>0 DEF PeaceKnown
  <2>1. Len(Plan(t)) = 2 BY <1>0, <1>2, DeclarationPlan
  <2>2. t.held + 1 = Len(Plan(t)) BY <2>1, <1>0, <1>1, <1>2
  <2>. QED BY <2>2, <1>2
<1>9. SessionOK(q) BY <1>3, <1>4, <1>5, <1>6, <1>7, <1>8 DEF SessionOK
<1>. QED BY <1>9 DEF q, t

LEMMA AcquireKeeps ==
    ASSUME WalletsInv, NEW s \in Session, Acquire(s)
    PROVE  WalletsInv'
<1>. DEFINE t == tx[s]  q == WithLock(t)
<1>0. WalletsTypeOK /\ Waiting(s) BY DEF Acquire, WalletsInv
<1>1. Open(s) /\ t \in TxType BY <1>0, OpenTx DEF Waiting, Open
<1>2. q \in TxType BY <1>0, <1>1, LockType
<1>3. tx' = [tx EXCEPT ![s] = q] BY DEF Acquire
<1>4. /\ q.kind = t.kind /\ q.who = t.who /\ q.land = t.land /\ q.foe = t.foe
      /\ q.war = t.war /\ q.held = t.held + 1
    BY <1>1, LockFields
<1>5. SessionOK(q) BY <1>0, LockKeepsSession
<1>6. \A r \in Session : r # s => Held(s)' \cap Held(r) = {}
  <2>1. tx'[s] = q BY <1>3, <1>0 DEF WalletsTypeOK
  <2>2. Plan(q) = Plan(t) BY <1>1, <1>2, <1>4, SamePlan
  <2>3. t.held \in Nat BY <1>1 DEF TxType
  <2>4. 1..(t.held + 1) = (1..t.held) \cup {t.held + 1} BY <2>3
  <2>5. q # Idle BY <1>2, OpenByKind
  <2>6. Held(s)' = {Plan(q)[i] : i \in 1..q.held}
    <3>1. Held(s)' = IF tx'[s] = Idle THEN {} ELSE {Plan(tx'[s])[i] : i \in 1..tx'[s].held}
        BY DEF Held, Plan, Idle, DeclarePlan, ResolvePlan, InIdOrder, UserRow, NationRow,
               ProgressRow, WarRow
    <3>. QED BY <3>1, <2>1, <2>5
  <2>7. Held(s) = {Plan(t)[i] : i \in 1..t.held} BY <1>1 DEF Held, Open
  <2>8. Wants(s) = Plan(t)[t.held + 1] BY DEF Wants
  <2>. HIDE DEF q, t
  <2>9. Held(s)' = Held(s) \cup {Wants(s)} BY <1>4, <2>2, <2>4, <2>6, <2>7, <2>8
  <2>10. \A r \in Session : Wants(s) \notin Held(r) BY DEF Acquire, Locked
  <2>. QED BY <2>9, <2>10 DEF WalletsInv, RowsExclusive
<1>7. UNCHANGED <<cash, mirror, home, holding, booked, vault, copy, rate, wars>>
    BY DEF Acquire
<1>. QED BY <1>2, <1>3, <1>4, <1>5, <1>6, <1>7, TxOnly

LEMMA DeadlockKeeps ==
    ASSUME WalletsInv, NEW s \in Session, DeadlockDetected(s)
    PROVE  WalletsInv'
<1>1. tx' = [tx EXCEPT ![s] = Idle]
    BY DEF DeadlockDetected
<1>2. Held(s)' = {}
    BY <1>1 DEF Held, WalletsInv, WalletsTypeOK
<1>3. UNCHANGED <<cash, mirror, home, holding, booked, vault, copy, rate, wars>>
    BY DEF DeadlockDetected
<1>4. Idle.kind # "resolve" BY DEF Idle
<1>. QED BY <1>1, <1>2, <1>3, <1>4, TxOnly

(* Steps that write data, while sessions in D go on and the others are idle. *)
LEMMA DataStep ==
    ASSUME WalletsInv, NEW D \in SUBSET Session,
           tx' \in [Session -> TxType \cup {Idle}],
           \A r \in D : tx'[r] = tx[r],
           \A r \in Session \ D : tx'[r] = Idle,
           \A r \in D : Open(r) =>
               /\ HasUser(tx[r]) => /\ cash'[tx[r].who] = cash[tx[r].who]
                                    /\ mirror'[tx[r].who] = mirror[tx[r].who]
                                    /\ home'[tx[r].who] = home[tx[r].who]
               /\ tx[r].kind = "kick" /\ tx[r].held >= 1 /\ tx[r].home = tx[r].land =>
                    home'[tx[r].who] = home[tx[r].who]
               /\ tx[r].kind = "resolve" =>
                    /\ tx[r].war \in DOMAIN wars'
                    /\ tx[r].status = "active" => wars'[tx[r].war].paid = 0
               /\ tx[r].kind = "declare" /\ tx[r].held >= 2 /\ tx[r].clear =>
                    ~\E i \in DOMAIN wars' : /\ wars'[i].status = "active"
                                             /\ wars'[i].sides = {tx[r].land, tx[r].foe},
           WalletsTypeOK', FoundersAtHome', WarsOK', OneWarPerPair'
    PROVE  WalletsInv'
<1>1. RowsExclusive'
  <2>1. \A r \in D : Held(r)' = Held(r)
    <3>. SUFFICES ASSUME NEW r \in D PROVE Held(r)' = Held(r) OBVIOUS
    <3>1. tx'[r] = tx[r] OBVIOUS
    <3>2. Held(r)' = IF tx'[r] = Idle THEN {} ELSE {Plan(tx'[r])[i] : i \in 1..tx'[r].held}
        BY DEF Held, Plan, Idle, DeclarePlan, ResolvePlan, InIdOrder, UserRow, NationRow,
               ProgressRow, WarRow
    <3>. QED BY <3>1, <3>2 DEF Held
  <2>2. \A r \in Session \ D : Held(r)' = {} BY DEF Held
  <2>. QED BY <2>1, <2>2 DEF WalletsInv, RowsExclusive
<1>2. SessionsOK'
  <2>. SUFFICES ASSUME NEW r \in Session, Open(r)' PROVE SessionOK(tx[r])'
      BY DEF SessionsOK
  <2>1. r \in D /\ tx'[r] = tx[r] BY DEF Open
  <2>2. PICK t : t = tx[r] OBVIOUS
  <2>3. t \in TxType /\ Open(r) BY <2>1, <2>2, OpenTx DEF Open, WalletsInv
  <2>4. SessionOK(t) BY <2>2, <2>3 DEF WalletsInv, SessionsOK
  <2>5. WarUnpaid(t)' BY <2>1, <2>2, <2>3 DEF WarUnpaid
  <2>6. PeaceKnown(t)' BY <2>1, <2>2, <2>3, <2>4 DEF SessionOK, PeaceKnown, ActiveBetween
  <2>7. SessionOK(t)' BY <2>1, <2>2, <2>3, <2>4, <2>5, <2>6, OtherKept
  <2>. QED BY <2>1, <2>2, <2>7 DEF SessionOK, Fresh, RateRead, KickKnowsHome,
                                  FounderWithdraws, WarUnpaid, PeaceKnown
<1>3. OneResolver'
  <2>1. Idle.kind # "resolve" BY DEF Idle
  <2>. QED BY <2>1 DEF OneResolver, WalletsInv
<1>. QED BY <1>1, <1>2, <1>3 DEF WalletsInv

(* What the sessions rely on about wars, when the wars do not change. *)
LEMMA WarsSame ==
    ASSUME WalletsInv, wars' = wars, NEW r \in Session, Open(r)
    PROVE  /\ tx[r].kind = "resolve" =>
                /\ tx[r].war \in DOMAIN wars'
                /\ tx[r].status = "active" => wars'[tx[r].war].paid = 0
           /\ tx[r].kind = "declare" /\ tx[r].held >= 2 /\ tx[r].clear =>
                ~\E i \in DOMAIN wars' : /\ wars'[i].status = "active"
                                         /\ wars'[i].sides = {tx[r].land, tx[r].foe}
           /\ WarsOK' /\ OneWarPerPair'
<1>1. SessionOK(tx[r]) BY DEF WalletsInv, SessionsOK
<1>2. WarsOK' /\ OneWarPerPair' BY DEF WalletsInv, WarsOK, WarOK, OneWarPerPair
<1>. QED BY <1>1, <1>2 DEF SessionOK, WarUnpaid, PeaceKnown, ActiveBetween

(* An amount added to a balance. *)
LEMMA Added ==
    ASSUME NEW f \in [Player -> Int], NEW u \in Player, NEW d \in Int
    PROVE  /\ [f EXCEPT ![u] = @ + d] \in [Player -> Int]
           /\ [f EXCEPT ![u] = @ + d][u] = f[u] + d
OBVIOUS

LEMMA BonusKeeps ==
    ASSUME WalletsInv, NEW u \in Player, Bonus(u)
    PROVE  WalletsInv'
<1>1. /\ cash' = [cash EXCEPT ![u] = Rounded(@ + Stake, Coarse)]
      /\ booked' = [booked EXCEPT ![u] = @ + Stake]
      /\ UNCHANGED <<mirror, home, holding, vault, copy, rate, wars, tx>>
    BY DEF Bonus
<1>2. WalletsTypeOK'
  <2>1. cash \in [Player -> Int] /\ booked \in [Player -> Int] /\ Stake \in Int
      BY Parts DEF WalletsInv, WalletsTypeOK
  <2>2. cash' \in [Player -> Int]
    <3>1. PICK x \in Int : x = Rounded(cash[u] + Stake, Coarse)
        BY <2>1, RoundedAlike
    <3>. QED BY <1>1, <2>1, <3>1
  <2>3. booked' \in [Player -> Int] BY <1>1, <2>1, Added
  <2>. QED BY <1>1, <2>2, <2>3 DEF WalletsInv, WalletsTypeOK
<1>3. \A r \in Session : Open(r) /\ HasUser(tx[r]) => cash'[tx[r].who] = cash[tx[r].who]
  <2>. SUFFICES ASSUME NEW r \in Session, Open(r), HasUser(tx[r])
                PROVE  cash'[tx[r].who] = cash[tx[r].who]
      OBVIOUS
  <2>1. UserRow(tx[r].who) \in Held(r) BY HoldsUser DEF WalletsInv
  <2>2. tx[r].who # u BY <2>1 DEF Bonus, Locked
  <2>. QED BY <1>1, <2>2 DEF WalletsInv, WalletsTypeOK
<1>4. FoundersAtHome' BY <1>1 DEF WalletsInv, FoundersAtHome
<1>5. tx' \in [Session -> TxType \cup {Idle}] BY <1>2 DEF WalletsTypeOK
<1>6. WarsOK' /\ OneWarPerPair' BY <1>1 DEF WalletsInv, WarsOK, WarOK, OneWarPerPair
<1>. QED BY <1>1, <1>2, <1>3, <1>4, <1>5, <1>6, WarsSame, DataStep

LEMMA SetRateKeeps ==
    ASSUME WalletsInv, NEW n \in Country, NEW x \in Rates, SetRate(n, x)
    PROVE  WalletsInv'
<1>1. /\ rate' = [rate EXCEPT ![n] = x]
      /\ UNCHANGED <<cash, mirror, home, holding, booked, vault, copy, wars, tx>>
    BY DEF SetRate
<1>2. WalletsTypeOK' BY <1>1 DEF WalletsInv, WalletsTypeOK
<1>3. FoundersAtHome' BY <1>1 DEF WalletsInv, FoundersAtHome
<1>4. tx' \in [Session -> TxType \cup {Idle}] BY <1>2 DEF WalletsTypeOK
<1>5. WarsOK' /\ OneWarPerPair' BY <1>1 DEF WalletsInv, WarsOK, WarOK, OneWarPerPair
<1>. QED BY <1>1, <1>2, <1>3, <1>4, <1>5, WarsSame, DataStep

LEMMA EndWarKeeps ==
    ASSUME WalletsInv, NEW i \in 1..MaxWars, EndWar(i)
    PROVE  WalletsInv'
<1>1. PICK d \in {"draw", "ended"} : wars' = [wars EXCEPT ![i].status = d]
    BY DEF EndWar
<1>2. i \in DOMAIN wars /\ UNCHANGED <<cash, mirror, home, holding, booked, vault, copy, rate, tx>>
    BY DEF EndWar
<1>3. wars \in Seq(WarType) BY DEF WalletsInv, WalletsTypeOK
<1>4. DOMAIN wars' = DOMAIN wars /\ Len(wars') = Len(wars) BY <1>1, <1>3
<1>5. \A j \in DOMAIN wars : j # i => wars'[j] = wars[j] BY <1>1, <1>3
<1>6. wars'[i] = [wars[i] EXCEPT !.status = d] BY <1>1, <1>2
<1>7. /\ wars'[i] \in WarType /\ wars'[i].paid = wars[i].paid /\ wars'[i].sides = wars[i].sides
      /\ wars'[i].declarer = wars[i].declarer /\ wars'[i].status # "active"
  <2>. DEFINE w == wars[i]
  <2>1. w \in WarType BY <1>2, <1>3
  <2>. HIDE DEF w
  <2>2. /\ [w EXCEPT !.status = d] \in WarType /\ [w EXCEPT !.status = d].paid = w.paid
        /\ [w EXCEPT !.status = d].sides = w.sides
        /\ [w EXCEPT !.status = d].declarer = w.declarer
        /\ [w EXCEPT !.status = d].status = d
      BY <2>1 DEF WarType, WarStatus
  <2>. QED BY <1>6, <2>2 DEF w
<1>8. wars' \in Seq(WarType) BY <1>1, <1>2, <1>3, <1>7
<1>9. WalletsTypeOK' BY <1>2, <1>8 DEF WalletsInv, WalletsTypeOK
<1>10. WarsOK' BY <1>4, <1>5, <1>7 DEF WalletsInv, WarsOK, WarOK
<1>11. OneWarPerPair' BY <1>4, <1>5, <1>7 DEF WalletsInv, OneWarPerPair
<1>12. FoundersAtHome' BY <1>2 DEF WalletsInv, FoundersAtHome
<1>13. tx' \in [Session -> TxType \cup {Idle}] BY <1>9 DEF WalletsTypeOK
<1>14. \A r \in Session : Open(r) =>
           /\ tx[r].kind = "resolve" =>
                /\ tx[r].war \in DOMAIN wars'
                /\ tx[r].status = "active" => wars'[tx[r].war].paid = 0
           /\ tx[r].kind = "declare" /\ tx[r].held >= 2 /\ tx[r].clear =>
                ~\E j \in DOMAIN wars' : /\ wars'[j].status = "active"
                                         /\ wars'[j].sides = {tx[r].land, tx[r].foe}
  <2>. SUFFICES ASSUME NEW r \in Session, Open(r)
                PROVE  /\ tx[r].kind = "resolve" =>
                            /\ tx[r].war \in DOMAIN wars'
                            /\ tx[r].status = "active" => wars'[tx[r].war].paid = 0
                       /\ tx[r].kind = "declare" /\ tx[r].held >= 2 /\ tx[r].clear =>
                            ~\E j \in DOMAIN wars' : /\ wars'[j].status = "active"
                                                     /\ wars'[j].sides = {tx[r].land, tx[r].foe}
      OBVIOUS
  <2>1. WarUnpaid(tx[r]) /\ PeaceKnown(tx[r]) BY DEF WalletsInv, SessionsOK, SessionOK
  <2>2. tx[r].kind = "resolve" => /\ tx[r].war \in DOMAIN wars'
                                  /\ tx[r].status = "active" => wars'[tx[r].war].paid = 0
      BY <2>1, <1>4, <1>5, <1>7 DEF WarUnpaid
  <2>3. tx[r].kind = "declare" /\ tx[r].held >= 2 /\ tx[r].clear =>
            ~\E j \in DOMAIN wars' : /\ wars'[j].status = "active"
                                     /\ wars'[j].sides = {tx[r].land, tx[r].foe}
      BY <2>1, <1>4, <1>5, <1>7 DEF PeaceKnown, ActiveBetween
  <2>. QED BY <2>2, <2>3
<1>. QED BY <1>2, <1>9, <1>10, <1>11, <1>12, <1>13, <1>14, DataStep

------------------------------------------------------------------------------
(* A commit. First the operations of one player. *)

PlayerKind == {"buy", "sell", "deposit", "withdraw", "claim", "kick"}

\* Only the player of the transaction is touched.
OthersKept(t) ==
    \A u \in Player : u # t.who =>
        /\ cash'[u] = cash[u] /\ booked'[u] = booked[u] /\ mirror'[u] = mirror[u]
        /\ home'[u] = home[u] /\ holding'[u] = holding[u]

\* The balances after the commit of t.
Balances ==
    /\ cash' \in [Player -> Int] /\ booked' \in [Player -> Int] /\ mirror' \in [Player -> Cents]
    /\ home' \in [Player -> Country \cup {NoCountry}]
    /\ holding' \in [Player -> [Country -> Nat]]
    /\ vault' \in [Country -> Int] /\ copy' \in [Country -> Int]

LEMMA PayTypes ==
    ASSUME WalletsTypeOK, NEW t \in TxType, NEW d \in Int, Pay(t, d)
    PROVE  /\ cash' \in [Player -> Int] /\ booked' \in [Player -> Int]
           /\ cash'[t.who] = Rounded(t.cash + d, Coarse)
           /\ booked'[t.who] = booked[t.who] + Journal(d)
           /\ \A u \in Player : u # t.who => cash'[u] = cash[u] /\ booked'[u] = booked[u]
<1>1. t.who \in Player /\ t.cash \in Int BY DEF TxType
<1>2. cash \in [Player -> Int] /\ booked \in [Player -> Int] BY DEF WalletsTypeOK
<1>3. /\ cash' = [cash EXCEPT ![t.who] = Rounded(t.cash + d, Coarse)]
      /\ booked' = [booked EXCEPT ![t.who] = @ + Journal(d)]
    BY DEF Pay
<1>4. booked' \in [Player -> Int] /\ booked'[t.who] = booked[t.who] + Journal(d)
    BY <1>1, <1>2, <1>3, Added, JournalType
<1>5. cash' \in [Player -> Int] /\ cash'[t.who] = Rounded(t.cash + d, Coarse)
  <2>. DEFINE x == Rounded(t.cash + d, Coarse)
  <2>0. t.cash + d \in Int BY <1>1
  <2>1. x \in Int BY <2>0, RoundedAlike
  <2>2. cash' = [cash EXCEPT ![t.who] = x] BY <1>3
  <2>. HIDE DEF x
  <2>3. cash' \in [Player -> Int] /\ cash'[t.who] = x BY <1>1, <1>2, <2>1, <2>2
  <2>. QED BY <2>3 DEF x
<1>. QED BY <1>1, <1>2, <1>3, <1>4, <1>5

LEMMA Stored ==
    ASSUME NEW h \in [Player -> [Country -> Nat]], NEW u \in Player, NEW n \in Country,
           NEW x \in Nat
    PROVE  LET g == [h EXCEPT ![u][n] = x] IN
           /\ g \in [Player -> [Country -> Nat]] /\ g[u][n] = x
           /\ \A m \in Country : m # n => g[u][m] = h[u][m]
           /\ \A v \in Player : v # u => g[v] = h[v]
OBVIOUS

LEMMA FlushType ==
    ASSUME NEW a \in Int, NEW b \in Int, NEW c \in Int
    PROVE  Flush(a, b, c) \in Int /\ (c \in Cents => Flush(a, b, c) \in Cents)
BY RoundedAlike DEF Flush

\* users.balance as an operation that knows the home nation h writes it.
Shown(h, wallets) == IF h = NoCountry THEN 0 ELSE wallets[h]

LEMMA SyncTypes ==
    ASSUME WalletsTypeOK, NEW t \in TxType, NEW w \in [Country -> Nat], SyncBalance(t, w)
    PROVE  /\ mirror' \in [Player -> Cents]
           /\ mirror'[t.who] = Flush(Shown(t.home, w), t.mirror, mirror[t.who])
           /\ \A u \in Player : u # t.who => mirror'[u] = mirror[u]
<1>. DEFINE x == Flush(Shown(t.home, w), t.mirror, mirror[t.who])
<1>1. t.who \in Player /\ t.mirror \in Int /\ t.home \in Country \cup {NoCountry} BY DEF TxType
<1>2. mirror \in [Player -> Cents] /\ mirror[t.who] \in Cents /\ mirror[t.who] \in Int
    BY <1>1 DEF WalletsTypeOK, Cents
<1>3. Shown(t.home, w) \in Int BY <1>1 DEF Shown
<1>4. x \in Cents BY <1>1, <1>2, <1>3, FlushType
<1>5. mirror' = [mirror EXCEPT ![t.who] = x] BY DEF SyncBalance, Shown
<1>. HIDE DEF x
<1>6. /\ mirror' \in [Player -> Cents] /\ mirror'[t.who] = x
      /\ \A u \in Player : u # t.who => mirror'[u] = mirror[u]
    BY <1>1, <1>2, <1>4, <1>5
<1>. QED BY <1>6 DEF x

LEMMA TradeTypes ==
    ASSUME WalletsTypeOK, NEW t \in TxType, NEW w \in Int, TradeMirror(t, w)
    PROVE  /\ mirror' \in [Player -> Cents]
           /\ mirror'[t.who] = Flush(IF t.home = t.land THEN w ELSE 0, t.mirror, mirror[t.who])
           /\ \A u \in Player : u # t.who => mirror'[u] = mirror[u]
<1>. DEFINE y == IF t.home = t.land THEN w ELSE 0
            x == Flush(y, t.mirror, mirror[t.who])
<1>1. t.who \in Player /\ t.mirror \in Int BY DEF TxType
<1>2. mirror \in [Player -> Cents] /\ mirror[t.who] \in Cents /\ mirror[t.who] \in Int
    BY <1>1 DEF WalletsTypeOK, Cents
<1>3. y \in Int OBVIOUS
<1>. HIDE DEF y
<1>4. x \in Cents BY <1>1, <1>2, <1>3, FlushType
<1>5. mirror' = [mirror EXCEPT ![t.who] = x] BY DEF TradeMirror, y
<1>. HIDE DEF x
<1>6. /\ mirror' \in [Player -> Cents] /\ mirror'[t.who] = x
      /\ \A u \in Player : u # t.who => mirror'[u] = mirror[u]
    BY <1>1, <1>2, <1>4, <1>5
<1>. QED BY <1>6 DEF x, y

LEMMA VaultTypes ==
    ASSUME WalletsTypeOK, NEW n \in Country, NEW v \in Int, SetVault(n, v)
    PROVE  /\ vault' \in [Country -> Int] /\ copy' \in [Country -> Int]
           /\ vault'[n] = Rounded(v, Fine) /\ copy'[n] = Rounded(v, Coarse)
           /\ \A m \in Country : m # n => vault'[m] = vault[m] /\ copy'[m] = copy[m]
<1>1. PICK f \in Int, c \in Int : f = Rounded(v, Fine) /\ c = Rounded(v, Coarse)
    BY RoundedAlike
<1>2. vault' = [vault EXCEPT ![n] = f] /\ copy' = [copy EXCEPT ![n] = c]
    BY <1>1 DEF SetVault
<1>. QED BY <1>1, <1>2 DEF WalletsTypeOK

\* After the commit users.balance is the home nation's wallet or zero.
HonestAfter(t) ==
    mirror'[t.who] # 0 =>
        home'[t.who] # NoCountry /\ Close(mirror'[t.who], holding'[t.who][home'[t.who]])

\* Cash and journal move by the same amount, but for rounding.
BooksFollow(t) ==
    t.cash = cash[t.who] =>
        Close(cash'[t.who] - booked'[t.who], cash[t.who] - booked[t.who])

LEMMA PayFollows ==
    ASSUME WalletsTypeOK, NEW t \in TxType, NEW d \in Int, Pay(t, d)
    PROVE  BooksFollow(t)
<1>1. /\ cash'[t.who] = Rounded(t.cash + d, Coarse)
      /\ booked'[t.who] = booked[t.who] + Journal(d)
    BY PayTypes
<1>2. t.who \in Player /\ t.cash \in Int /\ t.cash + d \in Int BY DEF TxType
<1>3. cash[t.who] \in Int /\ booked[t.who] \in Int BY <1>2 DEF WalletsTypeOK
<1>4. PICK x \in Int : x = t.cash + d
    BY <1>2
<1>5. PICK r \in Int : /\ r = Rounded(x, Coarse)
                       /\ 2 * r <= 2 * x + Coarse /\ 2 * x - Coarse <= 2 * r
    BY RoundedNear, Parts
<1>6. PICK j \in Int : j = Journal(d) /\ 2 * j <= 2 * d + Fine /\ 2 * d - Fine <= 2 * j
    BY JournalType
<1>7. PICK b \in Int : b = booked[t.who]
    BY <1>3
<1>8. cash'[t.who] = r /\ booked'[t.who] = b + j
    BY <1>1, <1>4, <1>5, <1>6, <1>7
<1>9. Close(r - (b + j), t.cash - b)
    BY <1>2, <1>4, <1>5, <1>6, <1>7, Parts DEF Close
<1>. QED BY <1>7, <1>8, <1>9 DEF BooksFollow

(* What a transaction that commits knows. *)
LEMMA ReadyFacts ==
    ASSUME WalletsInv, NEW s \in Session, Ready(s), NEW t, t = tx[s]
    PROVE  /\ t \in TxType /\ t.who \in Player /\ t.land \in Country /\ t.cash \in Int
           /\ t.mirror \in Int /\ t.home \in Country \cup {NoCountry}
           /\ t.rates \in [Country -> Nat] /\ SessionOK(t) /\ Open(s)
           /\ t.kind \in PlayerKind => HasUser(t) /\ t.held = 2
<1>1. Open(s) BY DEF Ready, Open
<1>2. t \in TxType BY <1>1, OpenTx DEF WalletsInv
<1>3. SessionOK(t) BY <1>1 DEF WalletsInv, SessionsOK
<1>4. t.kind \in PlayerKind => HasUser(t) /\ t.held = 2 BY ReadyHasUser DEF PlayerKind, WalletsInv
<1>. QED BY <1>1, <1>2, <1>3, <1>4 DEF TxType

LEMMA TradeRate ==
    ASSUME WalletsInv, NEW s \in Session, Ready(s), NEW t, t = tx[s], t.kind \in {"buy", "sell"}
    PROVE  /\ Lot \div t.rates[t.land] \in Nat /\ t.rates[t.land] \in Nat
           /\ t.mirror = mirror[t.who] /\ t.home = home[t.who] /\ t.cash = cash[t.who]
<1>1. /\ SessionOK(t) /\ t.land \in Country /\ HasUser(t) /\ t.held = 2
    BY ReadyFacts DEF PlayerKind
<1>2. t.rates \in [Country -> Rates] BY <1>1 DEF SessionOK, RateRead
<1>3. t.rates[t.land] \in Nat \ {0} /\ Lot \in Nat
    BY <1>1, <1>2, Lots, WalletsAssumption DEF WalletsAssumption
<1>4. t.rates[t.land] > 0 /\ t.rates[t.land] \in Nat BY <1>3
<1>5. Lot \div t.rates[t.land] \in Nat BY <1>3, <1>4
<1>6. Fresh(t) BY <1>1 DEF SessionOK
<1>. QED BY <1>1, <1>4, <1>5, <1>6 DEF Fresh

LEMMA TradeMoves ==
    ASSUME WalletsInv, NEW s \in Session, Ready(s), NEW t, t = tx[s],
           t.kind \in {"buy", "sell"}, NEW d \in Int, NEW x \in Nat,
           Pay(t, d), SetWallet(t, x), TradeMirror(t, x),
           UNCHANGED <<home, vault, copy, wars>>
    PROVE  Balances /\ OthersKept(t) /\ HonestAfter(t)
<1>0. WalletsTypeOK BY DEF WalletsInv
<1>1. /\ t \in TxType /\ t.who \in Player /\ t.land \in Country
      /\ t.mirror = mirror[t.who] /\ t.home = home[t.who]
    BY ReadyFacts, TradeRate
<1>2. /\ cash' \in [Player -> Int] /\ booked' \in [Player -> Int]
      /\ \A u \in Player : u # t.who => cash'[u] = cash[u] /\ booked'[u] = booked[u]
    BY <1>0, <1>1, PayTypes
<1>3. /\ holding \in [Player -> [Country -> Nat]] /\ mirror \in [Player -> Cents]
      /\ mirror[t.who] \in Int
    BY <1>0, <1>1 DEF WalletsTypeOK, Cents
<1>11. PICK f \in Nat : f = Rounded(x, Fine)
    BY RoundedAlike
<1>4. /\ holding' \in [Player -> [Country -> Nat]] /\ holding'[t.who][t.land] = f
      /\ \A v \in Player : v # t.who => holding'[v] = holding[v]
    BY <1>1, <1>3, <1>11, Stored DEF SetWallet
<1>5. TradeMirror(t, x)
    OBVIOUS
<1>6. /\ mirror' \in [Player -> Cents]
      /\ mirror'[t.who] = Flush(IF t.home = t.land THEN x ELSE 0, t.mirror, mirror[t.who])
      /\ \A u \in Player : u # t.who => mirror'[u] = mirror[u]
    BY <1>0, <1>1, <1>5, TradeTypes
<1>7. \/ t.home = t.land /\ (mirror'[t.who] = x \/ mirror'[t.who] = Rounded(x, Coarse))
      \/ mirror'[t.who] = 0
    BY <1>1, <1>6, RoundedZero, Parts DEF Flush
<1>8. HonestAfter(t)
    <2>1. CASE t.home = t.land /\ (mirror'[t.who] = x \/ mirror'[t.who] = Rounded(x, Coarse))
        <3>1. home'[t.who] = t.land /\ t.land # NoCountry
            BY <1>1, <2>1, WalletsAssumption DEF WalletsAssumption
        <3>2. Close(mirror'[t.who], f)
            BY <1>11, <2>1, RoundedAlike
        <3>. QED BY <1>4, <3>1, <3>2 DEF HonestAfter
    <2>. QED BY <1>7, <2>1 DEF HonestAfter
<1>9. Balances BY <1>0, <1>2, <1>4, <1>6 DEF Balances, WalletsTypeOK
<1>10. OthersKept(t) BY <1>2, <1>4, <1>6 DEF OthersKept
<1>. QED BY <1>8, <1>9, <1>10

LEMMA BuyMoves ==
    ASSUME WalletsInv, NEW s \in Session, Ready(s), NEW t, t = tx[s], Buy(t)
    PROVE  Balances /\ OthersKept(t) /\ HonestAfter(t) /\ BooksFollow(t)
<1>. DEFINE x == Bought(t)
<1>1. t.kind \in {"buy", "sell"} BY DEF Buy
<1>2. /\ t \in TxType /\ t.who \in Player /\ t.land \in Country
      /\ Lot \div t.rates[t.land] \in Nat
    BY <1>1, ReadyFacts, TradeRate
<1>3. x \in Nat BY <1>2 DEF WalletsInv, WalletsTypeOK, Bought
<1>4. /\ Pay(t, -Lot) /\ SetWallet(t, x) /\ TradeMirror(t, x)
      /\ UNCHANGED <<home, vault, copy, wars>>
    BY DEF Buy
<1>5. -Lot \in Int BY Lots
<1>. HIDE DEF x
<1>6. BooksFollow(t) BY <1>2, <1>4, <1>5, PayFollows DEF WalletsInv
<1>7. Balances /\ OthersKept(t) /\ HonestAfter(t) BY <1>1, <1>3, <1>4, <1>5, TradeMoves
<1>. QED BY <1>6, <1>7

LEMMA SellMoves ==
    ASSUME WalletsInv, NEW s \in Session, Ready(s), NEW t, t = tx[s], Sell(t)
    PROVE  Balances /\ OthersKept(t) /\ HonestAfter(t) /\ BooksFollow(t)
<1>. DEFINE x == Left(t)  r == t.rates[t.land]  d == Lot * r
<1>1. t.kind \in {"buy", "sell"} BY DEF Sell
<1>9. t \in TxType /\ t.who \in Player /\ t.land \in Country /\ r \in Nat
    BY <1>1, ReadyFacts, TradeRate
<1>. HIDE DEF r
<1>2. t \in TxType /\ t.who \in Player /\ t.land \in Country /\ d \in Int
    BY <1>9, Lots
<1>3. x \in Nat BY <1>2, Lots DEF Sell, Left, WalletsInv, WalletsTypeOK
<1>. USE DEF r
<1>4. /\ Pay(t, d) /\ SetWallet(t, x) /\ TradeMirror(t, x)
      /\ UNCHANGED <<home, vault, copy, wars>>
    BY DEF Sell
<1>. HIDE DEF x, d
<1>5. BooksFollow(t) BY <1>2, <1>4, PayFollows DEF WalletsInv
<1>6. Balances /\ OthersKept(t) /\ HonestAfter(t) BY <1>1, <1>2, <1>3, <1>4, TradeMoves
<1>. QED BY <1>5, <1>6

LEMMA SyncMoves ==
    ASSUME WalletsInv, NEW s \in Session, Ready(s), NEW t, t = tx[s], NEW d \in Int,
           Pay(t, d), SyncBalance(t, holding[t.who]), UNCHANGED <<home, holding>>,
           vault' \in [Country -> Int], copy' \in [Country -> Int]
    PROVE  /\ Balances /\ OthersKept(t) /\ BooksFollow(t)
           /\ t.home = home[t.who] /\ Honest(t.who) => HonestAfter(t)
<1>0. WalletsTypeOK BY DEF WalletsInv
<1>1. t \in TxType /\ t.who \in Player BY ReadyFacts
<1>2. /\ cash' \in [Player -> Int] /\ booked' \in [Player -> Int]
      /\ \A u \in Player : u # t.who => cash'[u] = cash[u] /\ booked'[u] = booked[u]
    BY <1>0, <1>1, PayTypes
<1>3. holding[t.who] \in [Country -> Nat] BY <1>0, <1>1 DEF WalletsTypeOK
<1>4. /\ mirror' \in [Player -> Cents]
      /\ mirror'[t.who] = Flush(Shown(t.home, holding[t.who]), t.mirror, mirror[t.who])
      /\ \A u \in Player : u # t.who => mirror'[u] = mirror[u]
    BY <1>0, <1>1, <1>3, SyncTypes
<1>5. BooksFollow(t) BY <1>0, <1>1, PayFollows
<1>6. Balances BY <1>0, <1>2, <1>4 DEF Balances, WalletsTypeOK
<1>7. OthersKept(t) BY <1>2, <1>4 DEF OthersKept
<1>8. t.home = home[t.who] /\ Honest(t.who) => HonestAfter(t)
  <2>. SUFFICES ASSUME t.home = home[t.who], Honest(t.who) PROVE HonestAfter(t) OBVIOUS
  <2>1. \/ mirror'[t.who] = mirror[t.who]
        \/ mirror'[t.who] = Rounded(Shown(t.home, holding[t.who]), Coarse)
      BY <1>4 DEF Flush
  <2>2. CASE mirror'[t.who] = mirror[t.who]
      BY <2>2 DEF HonestAfter, Honest
  <2>3. CASE mirror'[t.who] = Rounded(Shown(t.home, holding[t.who]), Coarse)
    <3>1. CASE t.home = NoCountry
        BY <2>3, <3>1, RoundedZero, Parts DEF Shown, HonestAfter
    <3>2. CASE t.home # NoCountry
      <4>1. t.home \in Country /\ holding[t.who][t.home] \in Int
          BY <1>1, <1>3, <3>2 DEF TxType
      <4>2. Close(mirror'[t.who], holding[t.who][t.home])
          BY <2>3, <3>2, <4>1, RoundedAlike DEF Shown
      <4>. QED BY <3>2, <4>2 DEF HonestAfter
    <3>. QED BY <3>1, <3>2
  <2>. QED BY <2>1, <2>2, <2>3
<1>. QED BY <1>5, <1>6, <1>7, <1>8

LEMMA DepositMoves ==
    ASSUME WalletsInv, NEW s \in Session, Ready(s), NEW t, t = tx[s], Deposit(t)
    PROVE  /\ Balances /\ OthersKept(t) /\ BooksFollow(t)
           /\ Honest(t.who) => HonestAfter(t)
           /\ t.cash = cash[t.who]
<1>1. /\ t.land \in Country /\ SessionOK(t) /\ HasUser(t) /\ t.kind = "deposit"
    BY ReadyFacts DEF Deposit, PlayerKind
<1>2. Fresh(t) BY <1>1 DEF SessionOK
<1>3. t.home = home[t.who] /\ t.cash = cash[t.who] BY <1>1, <1>2 DEF Fresh
<1>4. Stake \in Int /\ -Stake \in Int BY Parts
<1>5. vault[t.land] + Stake \in Int BY <1>1, <1>4 DEF WalletsInv, WalletsTypeOK
<1>6. vault' \in [Country -> Int] /\ copy' \in [Country -> Int]
    BY <1>1, <1>5, VaultTypes DEF Deposit, WalletsInv
<1>. QED BY <1>3, <1>4, <1>6, SyncMoves DEF Deposit

LEMMA WithdrawMoves ==
    ASSUME WalletsInv, NEW s \in Session, Ready(s), NEW t, t = tx[s], Withdraw(t)
    PROVE  /\ Balances /\ OthersKept(t) /\ BooksFollow(t)
           /\ Honest(t.who) => HonestAfter(t)
<1>1. /\ t.land \in Country /\ SessionOK(t) /\ t.held = 2 /\ t.kind = "withdraw"
    BY ReadyFacts DEF Withdraw, PlayerKind
<1>2. FounderWithdraws(t) BY <1>1 DEF SessionOK
<1>3. t.home = home[t.who] BY <1>1, <1>2 DEF FounderWithdraws, WalletsInv, FoundersAtHome
<1>4. Stake \in Int BY WalletsAssumption DEF WalletsAssumption
<1>5. vault[t.land] - Stake \in Int BY <1>1, <1>4 DEF WalletsInv, WalletsTypeOK
<1>6. vault' \in [Country -> Int] /\ copy' \in [Country -> Int]
    BY <1>1, <1>5, VaultTypes DEF Withdraw, WalletsInv
<1>. QED BY <1>3, <1>4, <1>6, SyncMoves DEF Withdraw

LEMMA ClaimMoves ==
    ASSUME WalletsInv, NEW s \in Session, Ready(s), NEW t, t = tx[s], Claim(t)
    PROVE  /\ Balances /\ OthersKept(t) /\ BooksFollow(t)
           /\ t.home = home[t.who] /\ Honest(t.who) => HonestAfter(t)
<1>1. Lot \in Int BY Lots
<1>2. vault' \in [Country -> Int] /\ copy' \in [Country -> Int]
    BY DEF Claim, WalletsInv, WalletsTypeOK
<1>. QED BY <1>1, <1>2, SyncMoves DEF Claim

LEMMA KickMoves ==
    ASSUME WalletsInv, NEW s \in Session, Ready(s), NEW t, t = tx[s], Kick(t)
    PROVE  /\ Balances /\ OthersKept(t) /\ BooksFollow(t)
           /\ home' = [home EXCEPT ![t.who] = NoCountry]
           /\ t.mirror = mirror[t.who] /\ Honest(t.who) => HonestAfter(t)
<1>0. WalletsTypeOK BY DEF WalletsInv
<1>1. /\ t \in TxType /\ t.who \in Player /\ t.land \in Country /\ SessionOK(t) /\ t.held = 2
      /\ t.kind = "kick" /\ t.home = t.land /\ t.rates \in [Country -> Nat]
    BY ReadyFacts DEF Kick, PlayerKind
<1>2. home[t.who] = t.land BY <1>1 DEF SessionOK, KickKnowsHome
<1>3. home' = [home EXCEPT ![t.who] = NoCountry] BY DEF Kick
<1>4. /\ home' \in [Player -> Country \cup {NoCountry}] /\ home'[t.who] = NoCountry
      /\ \A u \in Player : u # t.who => home'[u] = home[u]
    BY <1>0, <1>1, <1>3 DEF WalletsTypeOK
<1>5. UNCHANGED <<vault, copy, wars>> BY DEF Kick
<1>6. NoCountry # t.land BY <1>1, WalletsAssumption DEF WalletsAssumption
<1>7. CASE holding[t.who][t.land] > 0
  <2>. DEFINE d == holding[t.who][t.land] * t.rates[t.land]
  <2>1. /\ Pay(t, d) /\ holding' = [holding EXCEPT ![t.who][t.land] = 0]
        /\ SyncBalance(t, holding'[t.who])
      BY <1>7 DEF Kick
  <2>2. holding[t.who][t.land] \in Int /\ t.rates[t.land] \in Int
      BY <1>0, <1>1 DEF WalletsTypeOK
  <2>3. d \in Int BY <2>2
  <2>. HIDE DEF d
  <2>4. /\ cash' \in [Player -> Int] /\ booked' \in [Player -> Int]
        /\ \A u \in Player : u # t.who => cash'[u] = cash[u] /\ booked'[u] = booked[u]
      BY <1>0, <1>1, <2>1, <2>3, PayTypes
  <2>5. holding \in [Player -> [Country -> Nat]] BY <1>0 DEF WalletsTypeOK
  <2>6. /\ holding' \in [Player -> [Country -> Nat]] /\ holding'[t.who][t.land] = 0
        /\ \A v \in Player : v # t.who => holding'[v] = holding[v]
      BY <1>1, <2>1, <2>5, Stored
  <2>7. PICK w : w = holding'[t.who] OBVIOUS
  <2>8. w \in [Country -> Nat] /\ w[t.land] = 0 BY <1>1, <2>6, <2>7
  <2>9. SyncBalance(t, w) BY <2>1, <2>7 DEF SyncBalance
  <2>10. /\ mirror' \in [Player -> Cents]
         /\ mirror'[t.who] = Flush(Shown(t.home, w), t.mirror, mirror[t.who])
         /\ \A u \in Player : u # t.who => mirror'[u] = mirror[u]
      BY <1>0, <1>1, <2>8, <2>9, SyncTypes
  <2>11. BooksFollow(t) BY <1>0, <1>1, <2>1, <2>3, PayFollows
  <2>12. t.mirror = mirror[t.who] => HonestAfter(t)
      BY <1>1, <1>6, <2>8, <2>10, RoundedZero, Parts DEF Flush, Shown, HonestAfter
  <2>13. Balances BY <1>0, <1>4, <1>5, <2>4, <2>6, <2>10 DEF Balances, WalletsTypeOK
  <2>14. OthersKept(t) BY <1>4, <2>4, <2>6, <2>10 DEF OthersKept
  <2>. QED BY <1>3, <2>11, <2>12, <2>13, <2>14
<1>8. CASE ~(holding[t.who][t.land] > 0)
  <2>1. UNCHANGED <<cash, booked, holding, mirror>> BY <1>8 DEF Kick
  <2>2. Balances /\ OthersKept(t) BY <1>0, <1>4, <1>5, <2>1 DEF Balances, OthersKept, WalletsTypeOK
  <2>3. BooksFollow(t)
      BY <1>0, <1>1, <2>1, Parts DEF BooksFollow, Close, WalletsTypeOK
  <2>4. holding[t.who][t.land] = 0 BY <1>0, <1>1, <1>8 DEF WalletsTypeOK
  <2>6. mirror[t.who] \in Cents BY <1>0, <1>1 DEF WalletsTypeOK
  <2>5. Honest(t.who) => HonestAfter(t)
      BY <1>2, <2>1, <2>4, <2>6, NoCents DEF Honest, HonestAfter
  <2>. QED BY <1>3, <2>2, <2>3, <2>5
<1>. QED BY <1>7, <1>8

(* Each of them: what it leaves alone, and how the home nation can go. *)
PlayerCommit(t) == Buy(t) \/ Sell(t) \/ Deposit(t) \/ Withdraw(t) \/ Claim(t) \/ Kick(t)

LEMMA PlayerMoves ==
    ASSUME WalletsInv, NEW s \in Session, Ready(s), NEW t, t = tx[s], PlayerCommit(t)
    PROVE  /\ t.kind \in PlayerKind /\ Balances /\ OthersKept(t) /\ BooksFollow(t) /\ wars' = wars
           /\ \/ home' = home
              \/ /\ t.kind = "kick" /\ home[t.who] = t.land
                 /\ home' = [home EXCEPT ![t.who] = NoCountry]
           /\ Honest(t.who) =>
                \/ HonestAfter(t)
                \/ t.kind = "kick" /\ t.mirror # mirror[t.who]
                \/ t.kind = "claim" /\ t.home # home[t.who]
           /\ t.kind \in {"buy", "sell", "deposit"} => t.cash = cash[t.who]
<1>1. CASE Buy(t)
  <2>1. t.kind = "buy" /\ wars' = wars /\ home' = home BY <1>1 DEF Buy
  <2>. QED BY <1>1, <2>1, BuyMoves, TradeRate DEF PlayerKind
<1>2. CASE Sell(t)
  <2>1. t.kind = "sell" /\ wars' = wars /\ home' = home BY <1>2 DEF Sell
  <2>. QED BY <1>2, <2>1, SellMoves, TradeRate DEF PlayerKind
<1>3. CASE Deposit(t)
  <2>1. t.kind = "deposit" /\ wars' = wars /\ home' = home BY <1>3 DEF Deposit
  <2>. QED BY <1>3, <2>1, DepositMoves DEF PlayerKind
<1>4. CASE Withdraw(t)
  <2>1. t.kind = "withdraw" /\ wars' = wars /\ home' = home BY <1>4 DEF Withdraw
  <2>. QED BY <1>4, <2>1, WithdrawMoves DEF PlayerKind
<1>5. CASE Claim(t)
  <2>1. t.kind = "claim" /\ wars' = wars /\ home' = home BY <1>5 DEF Claim
  <2>. QED BY <1>5, <2>1, ClaimMoves DEF PlayerKind
<1>6. CASE Kick(t)
  <2>1. t.kind = "kick" /\ wars' = wars /\ t.home = t.land BY <1>6 DEF Kick
  <2>2. t.held = 2 /\ SessionOK(t) BY <2>1, ReadyFacts DEF PlayerKind
  <2>3. home[t.who] = t.land BY <2>1, <2>2 DEF SessionOK, KickKnowsHome
  <2>. QED BY <1>6, <2>1, <2>3, KickMoves DEF PlayerKind
<1>. QED BY <1>1, <1>2, <1>3, <1>4, <1>5, <1>6 DEF PlayerCommit

LEMMA PlayerCommitKeeps ==
    ASSUME WalletsInv, NEW s \in Session, Commit(s), PlayerCommit(tx[s])
    PROVE  WalletsInv'
<1>0. PICK t : t = tx[s] OBVIOUS
<1>1. Ready(s) /\ tx' = [tx EXCEPT ![s] = Idle] /\ rate' = rate BY DEF Commit
<1>2. /\ t.kind \in PlayerKind /\ Balances /\ OthersKept(t) /\ wars' = wars
      /\ \/ home' = home
         \/ /\ t.kind = "kick" /\ home[t.who] = t.land
            /\ home' = [home EXCEPT ![t.who] = NoCountry]
    BY <1>0, <1>1, PlayerMoves
<1>3. /\ t.who \in Player /\ HasUser(t) /\ t.held = 2 /\ Open(s) /\ SessionOK(t)
    BY <1>0, <1>1, <1>2, ReadyFacts
<1>4. WalletsTypeOK'
    BY <1>1, <1>2 DEF WalletsInv, WalletsTypeOK, Balances
<1>5. FoundersAtHome'
  <2>. SUFFICES ASSUME NEW n \in Country PROVE home'[Founder[n]] = n BY DEF FoundersAtHome
  <2>1. home[Founder[n]] = n /\ Founder[n] \in Player
      BY WalletsAssumption DEF WalletsInv, FoundersAtHome, WalletsAssumption
  <2>2. t.kind = "kick" => t.who # Founder[n] BY <1>3 DEF SessionOK, KickKnowsHome
  <2>. QED BY <1>2, <2>1, <2>2 DEF WalletsInv, WalletsTypeOK
<1>6. WarsOK' /\ OneWarPerPair' BY <1>2 DEF WalletsInv, WarsOK, WarOK, OneWarPerPair
<1>7. \A r \in Session \ {s} : Open(r) =>
        /\ HasUser(tx[r]) => /\ cash'[tx[r].who] = cash[tx[r].who]
                             /\ mirror'[tx[r].who] = mirror[tx[r].who]
                             /\ home'[tx[r].who] = home[tx[r].who]
        /\ tx[r].kind = "kick" /\ tx[r].held >= 1 /\ tx[r].home = tx[r].land =>
             home'[tx[r].who] = home[tx[r].who]
  <2>. SUFFICES ASSUME NEW r \in Session \ {s}, Open(r)
                PROVE  /\ HasUser(tx[r]) => /\ cash'[tx[r].who] = cash[tx[r].who]
                                            /\ mirror'[tx[r].who] = mirror[tx[r].who]
                                            /\ home'[tx[r].who] = home[tx[r].who]
                       /\ tx[r].kind = "kick" /\ tx[r].held >= 1 /\ tx[r].home = tx[r].land =>
                            home'[tx[r].who] = home[tx[r].who]
      OBVIOUS
  <2>1. tx[r] \in TxType /\ tx[r].who \in Player BY OpenTx DEF WalletsInv, TxType
  <2>2. HasUser(tx[r]) => tx[r].who # t.who
      BY <1>0, <1>3, UserOnce DEF WalletsInv
  <2>3. ASSUME tx[r].kind = "kick", tx[r].held >= 1, tx[r].home = tx[r].land
        PROVE  home'[tx[r].who] = home[tx[r].who]
    <3>1. home[tx[r].who] = tx[r].land
        BY <2>3 DEF WalletsInv, SessionsOK, SessionOK, KickKnowsHome
    <3>2. NationRow(tx[r].land) \in Held(r) BY <2>3, HoldsLand DEF WalletsInv
    <3>3. CASE t.kind = "kick" /\ home[t.who] = t.land
      <4>1. NationRow(t.land) \in Held(s) BY <1>0, <1>3, <3>3, HoldsLand DEF WalletsInv
      <4>2. tx[r].land # t.land BY <3>2, <4>1 DEF WalletsInv, RowsExclusive
      <4>3. tx[r].who # t.who BY <3>1, <3>3, <4>2
      <4>. QED BY <1>2, <2>1, <4>3 DEF OthersKept
    <3>. QED BY <1>2, <3>3
  <2>. QED BY <1>2, <2>1, <2>2, <2>3 DEF OthersKept
<1>8. tx' \in [Session -> TxType \cup {Idle}] BY <1>4 DEF WalletsTypeOK
<1>9. /\ \A r \in Session \ {s} : tx'[r] = tx[r]
      /\ \A r \in Session \ (Session \ {s}) : tx'[r] = Idle
    BY <1>1 DEF WalletsInv, WalletsTypeOK
<1>10. \A r \in Session \ {s} : Open(r) =>
        /\ tx[r].kind = "resolve" =>
             /\ tx[r].war \in DOMAIN wars'
             /\ tx[r].status = "active" => wars'[tx[r].war].paid = 0
        /\ tx[r].kind = "declare" /\ tx[r].held >= 2 /\ tx[r].clear =>
             ~\E i \in DOMAIN wars' : /\ wars'[i].status = "active"
                                      /\ wars'[i].sides = {tx[r].land, tx[r].foe}
    BY <1>2, WarsSame
<1>11. PICK D \in SUBSET Session : D = Session \ {s} OBVIOUS
<1>. QED BY <1>4, <1>5, <1>6, <1>7, <1>8, <1>9, <1>10, <1>11, DataStep

(* Then those of nations. *)
LEMMA NationCommitKeeps ==
    ASSUME WalletsInv, NEW s \in Session, tx' = [tx EXCEPT ![s] = Idle],
           UNCHANGED <<cash, mirror, home, holding, booked, rate>>,
           vault' \in [Country -> Int], copy' \in [Country -> Int],
           wars' \in Seq(WarType), WarsOK', OneWarPerPair',
           \A r \in Session \ {s} : Open(r) =>
               /\ tx[r].kind = "resolve" =>
                    /\ tx[r].war \in DOMAIN wars'
                    /\ tx[r].status = "active" => wars'[tx[r].war].paid = 0
               /\ tx[r].kind = "declare" /\ tx[r].held >= 2 /\ tx[r].clear =>
                    ~\E i \in DOMAIN wars' : /\ wars'[i].status = "active"
                                             /\ wars'[i].sides = {tx[r].land, tx[r].foe}
    PROVE  WalletsInv'
<1>1. WalletsTypeOK' BY DEF WalletsInv, WalletsTypeOK
<1>2. tx' \in [Session -> TxType \cup {Idle}] BY <1>1 DEF WalletsTypeOK
<1>3. /\ \A r \in Session \ {s} : tx'[r] = tx[r]
      /\ \A r \in Session \ (Session \ {s}) : tx'[r] = Idle
    BY DEF WalletsInv, WalletsTypeOK
<1>4. FoundersAtHome' BY DEF WalletsInv, FoundersAtHome
<1>. QED BY <1>1, <1>2, <1>3, <1>4, DataStep

LEMMA AdjustKeeps ==
    ASSUME WalletsInv, NEW s \in Session, Commit(s), Adjust(tx[s])
    PROVE  WalletsInv'
<1>0. PICK t : t = tx[s] OBVIOUS
<1>1. /\ Ready(s) /\ tx' = [tx EXCEPT ![s] = Idle] /\ rate' = rate
      /\ UNCHANGED <<cash, mirror, home, holding, booked, wars>>
    BY DEF Commit, Adjust
<1>2. t.land \in Country BY <1>0, <1>1, ReadyFacts
<1>3. PICK v \in Nat : SetVault(t.land, v) BY <1>0 DEF Adjust
<1>4. vault' \in [Country -> Int] /\ copy' \in [Country -> Int]
  <2>1. v \in Int OBVIOUS
  <2>. QED BY <1>2, <1>3, <2>1, VaultTypes DEF WalletsInv
<1>5. WarsOK' /\ OneWarPerPair' BY <1>1 DEF WalletsInv, WarsOK, WarOK, OneWarPerPair
<1>6. wars' \in Seq(WarType) BY <1>1 DEF WalletsInv, WalletsTypeOK
<1>. QED BY <1>1, <1>4, <1>5, <1>6, WarsSame, NationCommitKeeps

LEMMA RefusedKeeps ==
    ASSUME WalletsInv, NEW s \in Session, Commit(s), Refused(tx[s])
    PROVE  WalletsInv'
<1>1. /\ tx' = [tx EXCEPT ![s] = Idle] /\ rate' = rate
      /\ UNCHANGED <<cash, mirror, home, holding, booked, vault, copy, wars>>
    BY DEF Commit, Refused
<1>2. vault' \in [Country -> Int] /\ copy' \in [Country -> Int] /\ wars' \in Seq(WarType)
    BY <1>1 DEF WalletsInv, WalletsTypeOK
<1>3. WarsOK' /\ OneWarPerPair' BY <1>1 DEF WalletsInv, WarsOK, WarOK, OneWarPerPair
<1>. QED BY <1>1, <1>2, <1>3, WarsSame, NationCommitKeeps

LEMMA DeclareKeeps ==
    ASSUME WalletsInv, NEW s \in Session, Commit(s), Declare(tx[s])
    PROVE  WalletsInv'
<1>0. PICK t : t = tx[s] OBVIOUS
<1>1. /\ Ready(s) /\ tx' = [tx EXCEPT ![s] = Idle] /\ rate' = rate
      /\ t.kind = "declare" /\ t.clear /\ wars' = Append(wars, WarOf(t.land, t.foe))
      /\ UNCHANGED <<cash, mirror, home, holding, booked, vault, copy>>
    BY <1>0 DEF Commit, Declare
<1>2. t \in TxType /\ t.land \in Country /\ t.foe \in Country /\ SessionOK(t) /\ Open(s)
    BY <1>0, <1>1, ReadyFacts DEF TxType
<1>3. t.held = 2 BY <1>0, <1>1, <1>2, DeclarationPlan DEF Ready
<1>4. t.foe # t.land /\ ~ActiveBetween(t.land, t.foe)
    BY <1>1, <1>2, <1>3 DEF SessionOK, PeaceKnown
<1>. DEFINE w == WarOf(t.land, t.foe)  k == Len(wars) + 1
<1>5. /\ w \in WarType /\ w.paid = 0 /\ w.declarer = t.land /\ w.sides = {t.land, t.foe}
    BY <1>2, WarOfType
<1>6. wars \in Seq(WarType) BY DEF WalletsInv, WalletsTypeOK
<1>7. wars' = Append(wars, w) BY <1>1
<1>. HIDE DEF w
<1>8. /\ wars' \in Seq(WarType) /\ DOMAIN wars' = 1..k /\ DOMAIN wars = 1..(k - 1) /\ k \in Nat
      /\ wars'[k] = w /\ \A i \in DOMAIN wars : wars'[i] = wars[i]
    BY <1>5, <1>6, <1>7
<1>. HIDE DEF k
<1>9. \A i \in DOMAIN wars' : i = k \/ i \in DOMAIN wars BY <1>8
<1>10. WarsOK'
  <2>. SUFFICES ASSUME NEW i \in DOMAIN wars' PROVE WarOK(i)' BY DEF WarsOK
  <2>1. CASE i = k
    <3>1. wars'[i] = w BY <1>8, <2>1
    <3>2. \E n \in w.sides : n # w.declarer BY <1>4, <1>5
    <3>. QED BY <1>5, <3>1, <3>2 DEF WarOK
  <2>2. CASE i \in DOMAIN wars
    <3>1. WarOK(i) BY <2>2 DEF WalletsInv, WarsOK
    <3>2. wars'[i] = wars[i] BY <1>8, <2>2
    <3>. QED BY <3>1, <3>2 DEF WarOK
  <2>. QED BY <1>9, <2>1, <2>2
<1>11. OneWarPerPair'
  <2>1. \A i \in DOMAIN wars : ~(wars[i].status = "active" /\ wars[i].sides = w.sides)
      BY <1>4, <1>5 DEF ActiveBetween
  <2>. QED BY <1>8, <1>9, <2>1 DEF WalletsInv, OneWarPerPair
<1>12. \A r \in Session \ {s} : Open(r) =>
           /\ tx[r].kind = "resolve" =>
                /\ tx[r].war \in DOMAIN wars'
                /\ tx[r].status = "active" => wars'[tx[r].war].paid = 0
           /\ tx[r].kind = "declare" /\ tx[r].held >= 2 /\ tx[r].clear =>
                ~\E i \in DOMAIN wars' : /\ wars'[i].status = "active"
                                         /\ wars'[i].sides = {tx[r].land, tx[r].foe}
  <2>. SUFFICES ASSUME NEW r \in Session \ {s}, Open(r)
                PROVE  /\ tx[r].kind = "resolve" =>
                            /\ tx[r].war \in DOMAIN wars'
                            /\ tx[r].status = "active" => wars'[tx[r].war].paid = 0
                       /\ tx[r].kind = "declare" /\ tx[r].held >= 2 /\ tx[r].clear =>
                            ~\E i \in DOMAIN wars' : /\ wars'[i].status = "active"
                                                     /\ wars'[i].sides = {tx[r].land, tx[r].foe}
      OBVIOUS
  <2>1. WarUnpaid(tx[r]) /\ PeaceKnown(tx[r]) BY DEF WalletsInv, SessionsOK, SessionOK
  <2>2. tx[r].kind = "resolve" => /\ tx[r].war \in DOMAIN wars'
                                  /\ tx[r].status = "active" => wars'[tx[r].war].paid = 0
      BY <1>8, <2>1 DEF WarUnpaid
  <2>3. ASSUME tx[r].kind = "declare", tx[r].held >= 2, tx[r].clear
        PROVE  ~\E i \in DOMAIN wars' : /\ wars'[i].status = "active"
                                        /\ wars'[i].sides = {tx[r].land, tx[r].foe}
    <3>1. NationRow(t.land) \in Held(s) BY <1>0, <1>1, <1>2, <1>3, HoldsSides DEF WalletsInv
    <3>2. NationRow(tx[r].land) \in Held(r) /\ NationRow(tx[r].foe) \in Held(r)
        BY <2>3, HoldsSides DEF WalletsInv
    <3>3. t.land # tx[r].land /\ t.land # tx[r].foe
        BY <3>1, <3>2 DEF WalletsInv, RowsExclusive
    <3>4. w.sides # {tx[r].land, tx[r].foe} BY <1>5, <3>3
    <3>5. ~ActiveBetween(tx[r].land, tx[r].foe) BY <2>1, <2>3 DEF PeaceKnown
    <3>. QED BY <1>8, <1>9, <3>4, <3>5 DEF ActiveBetween
  <2>. QED BY <2>2, <2>3
<1>13. vault' \in [Country -> Int] /\ copy' \in [Country -> Int]
    BY <1>1 DEF WalletsInv, WalletsTypeOK
<1>. QED BY <1>1, <1>8, <1>10, <1>11, <1>12, <1>13, NationCommitKeeps

LEMMA ResolveKeeps ==
    ASSUME WalletsInv, NEW s \in Session, Commit(s), Resolve(tx[s])
    PROVE  WalletsInv'
<1>0. PICK t : t = tx[s] OBVIOUS
<1>. DEFINE lost == IF Draw(t) THEN 0 ELSE Lost(vault[Loser(t)])
            after == [n \in Country |->
                        IF n \notin {t.land, t.foe} THEN vault[n]
                        ELSE IF n = Loser(t) THEN vault[n] - lost ELSE vault[n] + lost]
            d == IF Draw(t) THEN "draw" ELSE "ended"
            p == IF lost > 0 THEN 1 ELSE 0
            k == t.war
<1>1. /\ Ready(s) /\ tx' = [tx EXCEPT ![s] = Idle] /\ rate' = rate
      /\ t.kind = "resolve" /\ t.status = "active"
      /\ UNCHANGED <<cash, mirror, home, holding, booked>>
    BY <1>0 DEF Commit, Resolve, StillActive
<1>2. /\ vault' = after
      /\ copy' = [n \in Country |->
                    IF n \in {t.land, t.foe} THEN Flush(after[n], t.copies[n], copy[n])
                    ELSE copy[n]]
      /\ wars' = [wars EXCEPT ![k].status = d, ![k].paid = @ + p]
    BY <1>0 DEF Resolve
<1>3. /\ t \in TxType /\ t.land \in Country /\ t.foe \in Country /\ SessionOK(t)
      /\ t.copies \in [Country -> Int]
    BY <1>0, <1>1, ReadyFacts DEF TxType
<1>4. k \in DOMAIN wars /\ wars[k].paid = 0 BY <1>1, <1>3 DEF SessionOK, WarUnpaid
<1>5. lost \in Int
  <2>1. Loser(t) \in Country BY <1>3 DEF Loser
  <2>2. vault[Loser(t)] \in Int BY <2>1 DEF WalletsInv, WalletsTypeOK
  <2>3. Lost(vault[Loser(t)]) \in Int BY <2>2, LostThere
  <2>. QED BY <2>3
<1>6. d \in {"draw", "ended"} /\ p \in {0, 1} OBVIOUS
<1>. HIDE DEF lost, d, p, k
<1>7. \A n \in Country : after[n] \in Int BY <1>5 DEF WalletsInv, WalletsTypeOK
<1>8. vault' \in [Country -> Int] BY <1>2, <1>7
<1>9. copy' \in [Country -> Int]
  <2>. HIDE DEF after
  <2>1. \A n \in Country : Flush(after[n], t.copies[n], copy[n]) \in Int
      BY <1>3, <1>7, FlushType DEF WalletsInv, WalletsTypeOK
  <2>. QED BY <1>2, <2>1 DEF WalletsInv, WalletsTypeOK
<1>. HIDE DEF after
<1>10. wars \in Seq(WarType) BY DEF WalletsInv, WalletsTypeOK
<1>11. PICK w : w = wars[k] OBVIOUS
<1>12. w \in WarType /\ w.paid = 0 BY <1>4, <1>10, <1>11
<1>. DEFINE sum == w.paid + p
            v == [w EXCEPT !.status = d, !.paid = sum]
<1>20. sum = p /\ sum \in Nat /\ d \in WarStatus BY <1>6, <1>12 DEF WarStatus
<1>. HIDE DEF sum
<1>13. /\ v \in WarType /\ v.paid = p /\ v.status = d
       /\ v.sides = w.sides /\ v.declarer = w.declarer
    BY <1>12, <1>20 DEF WarType
<1>14. wars' = [wars EXCEPT ![k] = v] BY <1>2, <1>4, <1>10, <1>11, <1>12 DEF sum
<1>. HIDE DEF v
<1>15. /\ wars' \in Seq(WarType) /\ DOMAIN wars' = DOMAIN wars /\ wars'[k] = v
       /\ \A i \in DOMAIN wars : i # k => wars'[i] = wars[i]
    BY <1>4, <1>10, <1>13, <1>14
<1>16. v.status # "active" /\ v.paid <= 1 BY <1>6, <1>13
<1>17. WarsOK'
  <2>. SUFFICES ASSUME NEW i \in DOMAIN wars' PROVE WarOK(i)' BY DEF WarsOK
  <2>1. WarOK(i) BY <1>15 DEF WalletsInv, WarsOK
  <2>2. CASE i = k BY <1>11, <1>13, <1>15, <1>16, <2>1, <2>2 DEF WarOK
  <2>3. CASE i # k
    <3>1. wars'[i] = wars[i] BY <1>15, <2>3
    <3>. QED BY <2>1, <3>1 DEF WarOK
  <2>. QED BY <2>2, <2>3
<1>18. OneWarPerPair' BY <1>15, <1>16 DEF WalletsInv, OneWarPerPair
<1>19. \A r \in Session \ {s} : Open(r) =>
           /\ tx[r].kind = "resolve" =>
                /\ tx[r].war \in DOMAIN wars'
                /\ tx[r].status = "active" => wars'[tx[r].war].paid = 0
           /\ tx[r].kind = "declare" /\ tx[r].held >= 2 /\ tx[r].clear =>
                ~\E i \in DOMAIN wars' : /\ wars'[i].status = "active"
                                         /\ wars'[i].sides = {tx[r].land, tx[r].foe}
  <2>. SUFFICES ASSUME NEW r \in Session \ {s}, Open(r)
                PROVE  /\ tx[r].kind # "resolve"
                       /\ tx[r].kind = "declare" /\ tx[r].held >= 2 /\ tx[r].clear =>
                            ~\E i \in DOMAIN wars' : /\ wars'[i].status = "active"
                                                     /\ wars'[i].sides = {tx[r].land, tx[r].foe}
      OBVIOUS
  <2>1. PeaceKnown(tx[r]) BY DEF WalletsInv, SessionsOK, SessionOK
  <2>2. tx[r].kind # "resolve" BY <1>0, <1>1 DEF WalletsInv, OneResolver
  <2>3. tx[r].kind = "declare" /\ tx[r].held >= 2 /\ tx[r].clear =>
            ~\E i \in DOMAIN wars' : /\ wars'[i].status = "active"
                                     /\ wars'[i].sides = {tx[r].land, tx[r].foe}
      BY <2>1, <1>15, <1>16 DEF PeaceKnown, ActiveBetween
  <2>. QED BY <2>2, <2>3
<1>. QED BY <1>1, <1>8, <1>9, <1>15, <1>17, <1>18, <1>19, NationCommitKeeps

------------------------------------------------------------------------------
(* The specification. *)

LEMMA CommitCases ==
    ASSUME NEW s \in Session, Commit(s)
    PROVE  \/ PlayerCommit(tx[s]) \/ Adjust(tx[s]) \/ Declare(tx[s]) \/ Resolve(tx[s])
           \/ Refused(tx[s])
BY DEF Commit, PlayerCommit

LEMMA InvStep == WalletsInv /\ [WalletsNext]_walletVars => WalletsInv'
<1>. SUFFICES ASSUME WalletsInv, [WalletsNext]_walletVars PROVE WalletsInv' OBVIOUS
<1>1. ASSUME NEW s \in Session, Begin(s) PROVE WalletsInv' BY <1>1, BeginKeeps
<1>2. ASSUME NEW s \in Session, Acquire(s) PROVE WalletsInv' BY <1>2, AcquireKeeps
<1>3. ASSUME NEW s \in Session, Commit(s) PROVE WalletsInv'
  <2>1. CASE PlayerCommit(tx[s]) BY <1>3, <2>1, PlayerCommitKeeps
  <2>2. CASE Adjust(tx[s]) BY <1>3, <2>2, AdjustKeeps
  <2>3. CASE Declare(tx[s]) BY <1>3, <2>3, DeclareKeeps
  <2>4. CASE Resolve(tx[s]) BY <1>3, <2>4, ResolveKeeps
  <2>5. CASE Refused(tx[s]) BY <1>3, <2>5, RefusedKeeps
  <2>. QED BY <1>3, <2>1, <2>2, <2>3, <2>4, <2>5, CommitCases
<1>4. ASSUME NEW s \in Session, DeadlockDetected(s) PROVE WalletsInv' BY <1>4, DeadlockKeeps
<1>5. ASSUME NEW u \in Player, Bonus(u) PROVE WalletsInv' BY <1>5, BonusKeeps
<1>6. ASSUME NEW n \in Country, NEW r \in Rates, SetRate(n, r) PROVE WalletsInv'
    BY <1>6, SetRateKeeps
<1>7. ASSUME NEW i \in 1..MaxWars, EndWar(i) PROVE WalletsInv' BY <1>7, EndWarKeeps
<1>8. CASE UNCHANGED walletVars
  <2>1. UNCHANGED <<cash, mirror, home, holding, booked, vault, copy, rate, wars, tx>>
      BY <1>8 DEF walletVars
  <2>2. WalletsTypeOK' BY <2>1 DEF WalletsInv, WalletsTypeOK
  <2>3. FoundersAtHome' /\ WarsOK' /\ OneWarPerPair'
      BY <2>1 DEF WalletsInv, FoundersAtHome, WarsOK, WarOK, OneWarPerPair
  <2>4. tx' \in [Session -> TxType \cup {Idle}] BY <2>2 DEF WalletsTypeOK
  <2>. QED BY <2>1, <2>2, <2>3, <2>4, WarsSame, DataStep
<1>. QED BY <1>1, <1>2, <1>3, <1>4, <1>5, <1>6, <1>7, <1>8 DEF WalletsNext

(* The invariant: rows are exclusive, and each session knows what its locks tell it. *)
THEOREM WalletsInvariant == WalletsSpec => []WalletsInv
<1>. QED BY InvInit, InvStep, PTL DEF WalletsSpec

(* Two nations are in one war at a time, also when both declare it at once           *)
(* (war_service.py declare_war: the locks on both nations, then the check).          *)
THEOREM OneWar == WalletsSpec => []OneWarPerPair
<1>1. WalletsInv => OneWarPerPair BY DEF WalletsInv
<1>. QED BY <1>1, WalletsInvariant, PTL

(* A war pays its reparation at most once (war_service.py resolve_war, which one     *)
(* scheduler job runs), whatever an administrator ends meanwhile.                    *)
THEOREM PaidOnce == WalletsSpec => []OneReparationPerWar
<1>1. WalletsInv => OneReparationPerWar
    BY DEF WalletsInv, WarsOK, WarOK, OneReparationPerWar
<1>. QED BY <1>1, WalletsInvariant, PTL

(* What a step does to balances and to the home nation. *)
LEMMA Moves ==
    ASSUME WalletsInv, [WalletsNext]_walletVars
    PROVE  \/ UNCHANGED <<cash, booked, mirror, home, holding>>
           \/ \E u \in Player :
                /\ cash' = [cash EXCEPT ![u] = Rounded(@ + Stake, Coarse)]
                /\ booked' = [booked EXCEPT ![u] = @ + Stake]
                /\ UNCHANGED <<mirror, home, holding>>
           \/ \E s \in Session : Ready(s) /\ tx'[s] = Idle /\ PlayerCommit(tx[s])
<1>1. ASSUME NEW s \in Session, Begin(s) \/ Acquire(s) \/ DeadlockDetected(s)
      PROVE  UNCHANGED <<cash, booked, mirror, home, holding>>
    BY <1>1 DEF Begin, Acquire, DeadlockDetected
<1>2. ASSUME NEW s \in Session, Commit(s)
      PROVE  \/ UNCHANGED <<cash, booked, mirror, home, holding>>
             \/ Ready(s) /\ tx'[s] = Idle /\ PlayerCommit(tx[s])
  <2>1. Ready(s) /\ tx'[s] = Idle BY <1>2 DEF Commit, WalletsInv, WalletsTypeOK
  <2>2. CASE Adjust(tx[s]) \/ Declare(tx[s]) \/ Resolve(tx[s]) \/ Refused(tx[s])
      BY <2>2 DEF Adjust, Declare, Resolve, Refused
  <2>. QED BY <1>2, <2>1, <2>2, CommitCases
<1>3. ASSUME NEW u \in Player, Bonus(u)
      PROVE  /\ cash' = [cash EXCEPT ![u] = Rounded(@ + Stake, Coarse)]
             /\ booked' = [booked EXCEPT ![u] = @ + Stake]
             /\ UNCHANGED <<mirror, home, holding>>
    BY <1>3 DEF Bonus
<1>4. ASSUME NEW n \in Country, NEW r \in Rates, SetRate(n, r)
      PROVE  UNCHANGED <<cash, booked, mirror, home, holding>>
    BY <1>4 DEF SetRate
<1>5. ASSUME NEW i \in 1..MaxWars, EndWar(i)
      PROVE  UNCHANGED <<cash, booked, mirror, home, holding>>
    BY <1>5 DEF EndWar
<1>6. CASE UNCHANGED walletVars BY <1>6 DEF walletVars
<1>. QED BY <1>1, <1>2, <1>3, <1>4, <1>5, <1>6 DEF WalletsNext

(* Cash and journal come apart by 0.01 or more only in the commit of a withdrawal, a *)
(* reward or a kick that had read the cash before it had the user's lock, and was    *)
(* overtaken; all else moves them alike but for the rounding of their columns.       *)
THEOREM BooksKept == WalletsSpec => BooksOffOnlyByOvertaken
<1>1. ASSUME WalletsInv, [WalletsNext]_walletVars, NEW u \in Player,
             ~Close(cash'[u] - booked'[u], cash[u] - booked[u])
      PROVE  \E s \in Session :
                /\ tx[s] # Idle /\ tx'[s] = Idle
                /\ tx[s].kind \in {"withdraw", "claim", "kick"} /\ tx[s].who = u
                /\ tx[s].cash # cash[u]
  <2>2. cash \in [Player -> Int] /\ booked \in [Player -> Int] /\ Stake \in Int
      BY <1>1, Parts DEF WalletsInv, WalletsTypeOK
  <2>10. cash[u] \in Int /\ booked[u] \in Int BY <2>2
  <2>11. ~(cash'[u] = cash[u] /\ booked'[u] = booked[u]) BY <1>1, <2>10, Parts DEF Close
  <2>1. ~UNCHANGED <<cash, booked, mirror, home, holding>> BY <2>11
  <2>3. ASSUME NEW v \in Player, cash' = [cash EXCEPT ![v] = Rounded(@ + Stake, Coarse)],
               booked' = [booked EXCEPT ![v] = @ + Stake]
        PROVE  FALSE
    <3>1. u = v BY <2>2, <2>3, <2>11
    <3>2. /\ cash'[u] = Rounded(cash[u] + Stake, Coarse)
          /\ booked'[u] = booked[u] + Stake
        BY <2>2, <2>3, <3>1
    <3>3. PICK c \in Int, b \in Int : c = cash[u] /\ b = booked[u] BY <2>10
    <3>4. PICK x \in Int : x = c + Stake BY <2>2
    <3>5. PICK r \in Int : /\ r = Rounded(x, Coarse)
                           /\ 2 * r <= 2 * x + Coarse /\ 2 * x - Coarse <= 2 * r
        BY RoundedNear, Parts
    <3>6. Close(r - (b + Stake), c - b) BY <2>2, <3>3, <3>4, <3>5, Parts DEF Close
    <3>. QED BY <1>1, <3>2, <3>3, <3>4, <3>5, <3>6
  <2>4. PICK s \in Session : Ready(s) /\ tx'[s] = Idle /\ PlayerCommit(tx[s])
      BY <1>1, <2>1, <2>3, Moves
  <2>5. PICK t : t = tx[s] OBVIOUS
  <2>6. /\ t.kind \in PlayerKind /\ OthersKept(t) /\ BooksFollow(t)
        /\ t.kind \in {"buy", "sell", "deposit"} => t.cash = cash[t.who]
      BY <1>1, <2>4, <2>5, PlayerMoves
  <2>7. tx[s] # Idle BY <2>4 DEF Ready
  <2>8. t.who = u BY <2>6, <2>11 DEF OthersKept
  <2>9. t.cash # cash[u] BY <1>1, <2>6, <2>8 DEF BooksFollow
  <2>. QED BY <2>4, <2>5, <2>6, <2>7, <2>8, <2>9 DEF PlayerKind
<1>2. WalletsInv /\ [WalletsNext]_walletVars =>
        [\A u \in Player :
            ~Close(cash'[u] - booked'[u], cash[u] - booked[u]) =>
                \E s \in Session :
                    /\ tx[s] # Idle /\ tx'[s] = Idle
                    /\ tx[s].kind \in {"withdraw", "claim", "kick"} /\ tx[s].who = u
                    /\ tx[s].cash # cash[u]]_walletVars
    BY <1>1
<1>. QED BY <1>2, WalletsInvariant, PTL DEF WalletsSpec, BooksOffOnlyByOvertaken

(* users.balance comes to show 0.01 or more that no wallet has only by a kick that   *)
(* was overtaken or a reward whose player was kicked after it read the home nation.  *)
THEOREM MirrorHonest == WalletsSpec => MirrorOffOnlyByOvertaken
<1>1. ASSUME WalletsInv, [WalletsNext]_walletVars, NEW u \in Player,
             Honest(u), ~Honest(u)'
      PROVE  \E s \in Session :
                /\ tx[s] # Idle /\ tx'[s] = Idle /\ tx[s].who = u
                /\ \/ tx[s].kind = "kick" /\ tx[s].mirror # mirror[u]
                   \/ tx[s].kind = "claim" /\ tx[s].home # home[u]
  <2>1. ~UNCHANGED <<mirror, home, holding>> BY <1>1 DEF Honest
  <2>2. PICK s \in Session : Ready(s) /\ tx'[s] = Idle /\ PlayerCommit(tx[s])
      BY <1>1, <2>1, Moves
  <2>3. PICK t : t = tx[s] OBVIOUS
  <2>4. /\ OthersKept(t)
        /\ Honest(t.who) =>
                \/ HonestAfter(t)
                \/ t.kind = "kick" /\ t.mirror # mirror[t.who]
                \/ t.kind = "claim" /\ t.home # home[t.who]
      BY <1>1, <2>2, <2>3, PlayerMoves
  <2>5. tx[s] # Idle BY <2>2 DEF Ready
  <2>6. t.who = u BY <1>1, <2>4 DEF OthersKept, Honest
  <2>7. ~HonestAfter(t) BY <1>1, <2>6 DEF Honest, HonestAfter
  <2>. QED BY <1>1, <2>2, <2>3, <2>4, <2>5, <2>6, <2>7
<1>2. WalletsInv /\ [WalletsNext]_walletVars =>
        [\A u \in Player :
            Honest(u) /\ ~Honest(u)' =>
                \E s \in Session :
                    /\ tx[s] # Idle /\ tx'[s] = Idle /\ tx[s].who = u
                    /\ \/ tx[s].kind = "kick" /\ tx[s].mirror # mirror[u]
                       \/ tx[s].kind = "claim" /\ tx[s].home # home[u]]_walletVars
    BY <1>1
<1>. QED BY <1>2, WalletsInvariant, PTL DEF WalletsSpec, MirrorOffOnlyByOvertaken

(* nations.treasury leaves treasuries.balance_xr by 0.01 or more only in the         *)
(* resolution of a war that brings the balance back to what the copy was when the    *)
(* war was read.                                                                     *)
THEOREM CopyKept == WalletsSpec => CopyOffOnlyByResolution
<1>1. ASSUME WalletsInv, [WalletsNext]_walletVars, NEW n \in Country,
             Close(copy[n], vault[n]), ~Close(copy'[n], vault'[n])
      PROVE  \E s \in Session :
                /\ tx[s] # Idle /\ tx'[s] = Idle
                /\ tx[s].kind = "resolve" /\ n \in {tx[s].land, tx[s].foe}
                /\ tx[s].copies[n] # copy[n] /\ tx[s].copies[n] = vault'[n]
  <2>1. ~UNCHANGED <<vault, copy>> BY <1>1
  <2>2. ASSUME NEW s \in Session, Begin(s) \/ Acquire(s) \/ DeadlockDetected(s) PROVE FALSE
      BY <2>1, <2>2 DEF Begin, Acquire, DeadlockDetected
  <2>3. ASSUME NEW u \in Player, Bonus(u) PROVE FALSE BY <2>1, <2>3 DEF Bonus
  <2>4. ASSUME NEW m \in Country, NEW r \in Rates, SetRate(m, r) PROVE FALSE
      BY <2>1, <2>4 DEF SetRate
  <2>5. ASSUME NEW i \in 1..MaxWars, EndWar(i) PROVE FALSE BY <2>1, <2>5 DEF EndWar
  <2>6. ~UNCHANGED walletVars BY <2>1 DEF walletVars
  <2>7. PICK s \in Session : Commit(s)
      BY <1>1, <2>2, <2>3, <2>4, <2>5, <2>6 DEF WalletsNext
  <2>8. PICK t : t = tx[s] OBVIOUS
  <2>9. Ready(s) /\ tx'[s] = Idle /\ tx[s] # Idle
      BY <1>1, <2>7 DEF Commit, Ready, WalletsInv, WalletsTypeOK
  <2>10. vault \in [Country -> Int] /\ copy \in [Country -> Int]
      BY <1>1 DEF WalletsInv, WalletsTypeOK
  <2>11. ASSUME NEW m \in Country, NEW v \in Int, SetVault(m, v) PROVE FALSE
    <3>1. n # m => vault'[n] = vault[n] /\ copy'[n] = copy[n]
        BY <2>10, <2>11 DEF SetVault
    <3>2. n = m => vault'[n] = Rounded(v, Fine) /\ copy'[n] = Rounded(v, Coarse)
        BY <2>10, <2>11 DEF SetVault
    <3>. QED BY <1>1, <3>1, <3>2, RoundedAlike
  <2>21. t.land \in Country BY <1>1, <2>8, <2>9, ReadyFacts
  <2>22. vault[t.land] \in Int /\ vault[t.land] + Stake \in Int /\ vault[t.land] - Stake \in Int
      BY <2>10, <2>21, Parts
  <2>12. ~Deposit(t) BY <2>11, <2>21, <2>22 DEF Deposit
  <2>13. ~Withdraw(t) BY <2>11, <2>21, <2>22 DEF Withdraw
  <2>14. ~Adjust(t)
    <3>1. \A v \in Nat : ~SetVault(t.land, v) BY <2>11, <2>21
    <3>. QED BY <3>1 DEF Adjust
  <2>15. ~(Buy(t) \/ Sell(t) \/ Claim(t) \/ Kick(t) \/ Declare(t) \/ Refused(t))
      BY <2>1 DEF Buy, Sell, Claim, Kick, Declare, Refused
  <2>16. Resolve(t) BY <2>7, <2>8, <2>12, <2>13, <2>14, <2>15 DEF Commit
  <2>17. t.kind = "resolve" BY <2>16 DEF Resolve
  <2>. DEFINE lost == IF Draw(t) THEN 0 ELSE Lost(vault[Loser(t)])
              after == [m \in Country |->
                          IF m \notin {t.land, t.foe} THEN vault[m]
                          ELSE IF m = Loser(t) THEN vault[m] - lost ELSE vault[m] + lost]
  <2>18. /\ vault'[n] = after[n]
         /\ copy'[n] = IF n \in {t.land, t.foe} THEN Flush(after[n], t.copies[n], copy[n])
                       ELSE copy[n]
      BY <2>16 DEF Resolve
  <2>19. n \notin {t.land, t.foe} => after[n] = vault[n] OBVIOUS
  <2>23. Loser(t) \in Country
      BY <1>1, <2>8, <2>9, ReadyFacts DEF Loser, TxType
  <2>24. Lost(vault[Loser(t)]) \in Int BY <2>10, <2>23, LostThere
  <2>25. lost \in Int BY <2>24
  <2>. HIDE DEF lost
  <2>26. after[n] \in Int BY <2>10, <2>25
  <2>. HIDE DEF after
  <2>27. after[n] # t.copies[n] /\ n \in {t.land, t.foe} => Close(copy'[n], vault'[n])
      BY <2>18, <2>26, RoundedAlike DEF Flush
  <2>20. n \in {t.land, t.foe} /\ after[n] = t.copies[n] /\ copy'[n] = copy[n]
      BY <1>1, <2>18, <2>19, <2>27 DEF Flush
  <2>28. Close(after[n], after[n]) BY <2>26, Parts DEF Close
  <2>. QED BY <1>1, <2>8, <2>9, <2>17, <2>18, <2>20, <2>28
<1>2. WalletsInv /\ [WalletsNext]_walletVars =>
        [\A n \in Country :
            Close(copy[n], vault[n]) /\ ~Close(copy'[n], vault'[n]) =>
                \E s \in Session :
                    /\ tx[s] # Idle /\ tx'[s] = Idle
                    /\ tx[s].kind = "resolve" /\ n \in {tx[s].land, tx[s].foe}
                    /\ tx[s].copies[n] # copy[n] /\ tx[s].copies[n] = vault'[n]]_walletVars
    BY <1>1
<1>. QED BY <1>2, WalletsInvariant, PTL DEF WalletsSpec, CopyOffOnlyByResolution

------------------------------------------------------------------------------
(* The sums of money. *)

LEMMA SumsAre ==
    /\ InVaults = SumOver(vault, Country) /\ InVaults' = SumOver(vault', Country)
    /\ InBooks = SumOver(booked, Player) /\ InBooks' = SumOver(booked', Player)
BY DEF InVaults, InBooks, SumOver, MapThenSumSet, MapThenFoldSet

\* Nothing is overdrawn, and no transaction has read a negative purse.
Solvent ==
    /\ \A u \in Player : cash[u] >= 0
    /\ \A n \in Country : vault[n] >= 0
    /\ \A s \in Session : Open(s) => tx[s].cash >= 0

LEMMA SolventStarts == WalletsInit => Solvent
BY WalletsAssumption DEF WalletsInit, Solvent, Open, WalletsAssumption

\* One entry moves, and the sum as much.
LEMMA SumMoves ==
    ASSUME NEW S, IsFiniteSet(S), NEW f, NEW g, NEW x \in S, NEW d \in Int, \A y \in S : f[y] \in Int,
           g[x] = f[x] + d, \A y \in S \ {x} : g[y] = f[y]
    PROVE  SumOver(g, S) = SumOver(f, S) + d /\ SumOver(f, S) \in Int
<1>1. \A y \in S : f[y] \in Int /\ g[y] \in Int
    OBVIOUS
<1>2. \A y \in S \ {x} : g[y] = f[y]
    OBVIOUS
<1>3. SumOver(g, S) = SumOver(f, S) - f[x] + g[x]
    BY ONLY <1>1, <1>2, x \in S, IsFiniteSet(S), SumChanges
<1>4. SumOver(f, S) \in Int
    BY ONLY <1>1, x \in S, IsFiniteSet(S), SumWithout
<1>. QED BY <1>3, <1>4

LEMMA PaysWhatIsThere ==
    ASSUME WalletsTypeOK, Solvent, NEW t \in TxType, NEW d \in Int, Pay(t, d), t.cash + d >= 0
    PROVE  \A u \in Player : cash'[u] >= 0
<1>1. /\ cash'[t.who] = Rounded(t.cash + d, Coarse)
      /\ \A u \in Player : u # t.who => cash'[u] = cash[u]
    BY PayTypes
<1>2. t.cash + d \in Int
    BY DEF TxType
<1>3. Rounded(t.cash + d, Coarse) >= 0
    BY <1>2, RoundedWhole, Parts
<1>. QED BY <1>1, <1>3 DEF Solvent

\* What a player pays in or out, the treasury gets or gives.
LEMMA PurseToVault ==
    ASSUME WalletsTypeOK, NEW t \in TxType, NEW d \in Int, Pay(t, d),
           vault' = [vault EXCEPT ![t.land] = Rounded(@ - d, Fine)]
    PROVE  Close(InVaults' + InBooks', InVaults + InBooks)
<1>1. t.who \in Player /\ t.land \in Country
    BY DEF TxType
<1>2. PICK b, c, v, w : b = booked /\ c = booked' /\ v = vault /\ w = vault'
    OBVIOUS
<1>3. b \in [Player -> Int] /\ v \in [Country -> Int]
    BY <1>2 DEF WalletsTypeOK
<1>4. PICK e \in Int : e = Journal(d) /\ 2 * e <= 2 * d + Fine /\ 2 * d - Fine <= 2 * e
    BY JournalType
<1>10. c = [b EXCEPT ![t.who] = @ + e]
    BY <1>2, <1>4 DEF Pay
<1>11. PICK x \in Int : x = v[t.land] - d
    BY <1>1, <1>3
<1>12. PICK r \in Int : r = Rounded(x, Fine) /\ 2 * r <= 2 * x + Fine /\ 2 * x - Fine <= 2 * r
    BY RoundedNear, Parts
<1>5. w = [v EXCEPT ![t.land] = r]
    BY <1>2, <1>11, <1>12
<1>6. IsFiniteSet(Player) /\ IsFiniteSet(Country)
    BY WalletsAssumption DEF WalletsAssumption
<1>7. SumOver(c, Player) = SumOver(b, Player) + e /\ SumOver(b, Player) \in Int
    <2>1. /\ \A y \in Player : b[y] \in Int
          /\ c[t.who] = b[t.who] + e /\ \A y \in Player \ {t.who} : c[y] = b[y]
        BY <1>1, <1>3, <1>10
    <2>. QED BY <1>1, <1>6, <2>1, SumMoves
<1>8. /\ SumOver(w, Country) = SumOver(v, Country) + (r - v[t.land])
      /\ SumOver(v, Country) \in Int /\ v[t.land] \in Int
    <2>1. v[t.land] \in Int /\ r - v[t.land] \in Int /\ \A y \in Country : v[y] \in Int
        BY <1>1, <1>3
    <2>2. w[t.land] = v[t.land] + (r - v[t.land])
        BY <1>1, <1>3, <1>5, <2>1
    <2>3. \A y \in Country \ {t.land} : w[y] = v[y]
        BY <1>1, <1>3, <1>5
    <2>4. PICK k \in Int : k = r - v[t.land]
        BY <2>1
    <2>5. w[t.land] = v[t.land] + k
        BY <2>2, <2>4
    <2>6. SumOver(w, Country) = SumOver(v, Country) + k /\ SumOver(v, Country) \in Int
        BY <1>1, <1>6, <2>1, <2>3, <2>5, SumMoves
    <2>. QED BY <2>1, <2>4, <2>6
<1>9. /\ InVaults = SumOver(v, Country) /\ InVaults' = SumOver(w, Country)
      /\ InBooks = SumOver(b, Player) /\ InBooks' = SumOver(c, Player)
    BY <1>2, SumsAre
<1>13. PICK i \in Int, k \in Int, l \in Int :
          i = SumOver(v, Country) /\ k = SumOver(b, Player) /\ l = v[t.land]
    BY <1>7, <1>8
<1>14. Close((i + (r - l)) + (k + e), i + k)
    BY <1>4, <1>11, <1>12, <1>13, Parts DEF Close
<1>. QED BY <1>7, <1>8, <1>9, <1>13, <1>14

\* What one treasury loses in a war the other one gets.
LEMMA VaultToVault ==
    ASSUME NEW v \in [Country -> Int], NEW a \in Country, NEW b \in Country, a # b, NEW x \in Int, NEW w,
           w[a] = v[a] - x, w[b] = v[b] + x, \A n \in Country \ {a, b} : w[n] = v[n]
    PROVE  SumOver(w, Country) = SumOver(v, Country)
<1>1. IsFiniteSet(Country) /\ 0 - x \in Int
    BY WalletsAssumption DEF WalletsAssumption
<1>2. PICK m \in [Country -> Int] : m[a] = v[a] - x /\ \A n \in Country \ {a} : m[n] = v[n]
    <2>1. [v EXCEPT ![a] = @ - x] \in [Country -> Int]
        OBVIOUS
    <2>. QED BY <2>1
<1>3. SumOver(m, Country) = SumOver(v, Country) + (0 - x) /\ SumOver(v, Country) \in Int
    <2>1. (\A n \in Country : v[n] \in Int) /\ m[a] = v[a] + (0 - x)
        BY <1>2
    <2>. QED BY <1>1, <1>2, <2>1, SumMoves
<1>4. SumOver(w, Country) = SumOver(m, Country) + x
    <2>1. \A n \in Country : m[n] \in Int
        BY <1>2
    <2>2. w[b] = m[b] + x
        BY <1>2
    <2>3. \A n \in Country \ {b} : w[n] = m[n]
        BY <1>2
    <2>4. SumOver(w, Country) = SumOver(m, Country) - m[b] + w[b]
        <3>1. \A n \in Country : w[n] \in Int
            BY <1>2, <2>2, <2>3
        <3>. QED BY <1>1, <2>1, <2>3, <3>1, SumChanges
    <2>5. SumOver(m, Country) \in Int /\ m[b] \in Int
        BY <1>1, <2>1, SumWithout
    <2>. QED BY <2>2, <2>4, <2>5
<1>. QED BY <1>3, <1>4

LEMMA ResolveSolvent ==
    ASSUME WalletsInv, Solvent, NEW t \in TxType, Resolve(t)
    PROVE  InVaults' = InVaults /\ \A n \in Country : vault'[n] >= 0
<1>1. PICK v : v = vault
    OBVIOUS
<1>. DEFINE lost == IF Draw(t) THEN 0 ELSE Lost(v[Loser(t)])
            after == [n \in Country |->
                        IF n \notin {t.land, t.foe} THEN v[n]
                        ELSE IF n = Loser(t) THEN v[n] - lost ELSE v[n] + lost]
<1>2. vault' = after
    BY <1>1 DEF Resolve
<1>3. v \in [Country -> Int] /\ (\A n \in Country : v[n] >= 0) /\ t.land \in Country /\ t.foe \in Country
    BY <1>1 DEF WalletsInv, WalletsTypeOK, Solvent, TxType
<1>4. Loser(t) \in {t.land, t.foe}
    BY DEF Loser
<1>5. lost \in Nat /\ lost <= v[Loser(t)]
    <2>1. v[Loser(t)] \in Nat
        BY <1>3, <1>4
    <2>2. Lost(v[Loser(t)]) \in Nat /\ Lost(v[Loser(t)]) <= v[Loser(t)]
        BY <2>1, LostThere
    <2>. QED BY <2>1, <2>2
<1>6. \A n \in Country : after[n] >= 0
    <2>. HIDE DEF lost
    <2>. QED BY <1>3, <1>4, <1>5
<1>7. SumOver(after, Country) = SumOver(v, Country)
    <2>1. PICK w : w = after
        OBVIOUS
    <2>2. CASE t.land = t.foe
        <3>1. Draw(t)
            BY <2>2 DEF Draw
        <3>2. lost = 0
            BY <3>1
        <3>. HIDE DEF lost
        <3>3. after = v
            BY <1>3, <3>2
        <3>. HIDE DEF after
        <3>. QED BY <3>3
    <2>3. CASE t.land # t.foe
        <3>1. PICK a, b : a = Loser(t) /\ b \in {t.land, t.foe} /\ a # b
            BY <1>4, <2>3
        <3>2. a \in Country /\ b \in Country /\ {t.land, t.foe} = {a, b}
            BY <1>3, <1>4, <3>1
        <3>. HIDE DEF lost
        <3>3. w[a] = v[a] - lost /\ w[b] = v[b] + lost /\ \A n \in Country \ {a, b} : w[n] = v[n]
            BY <2>1, <3>1, <3>2
        <3>. HIDE DEF after
        <3>4. lost \in Int
            BY <1>5
        <3>5. SumOver(w, Country) = SumOver(v, Country)
            BY <1>3, <3>1, <3>2, <3>3, <3>4, VaultToVault
        <3>. QED BY <2>1, <3>5
    <2>. QED BY <2>2, <2>3
<1>. HIDE DEF after
<1>8. InVaults = SumOver(v, Country) /\ InVaults' = SumOver(after, Country)
    BY <1>1, <1>2, SumsAre
<1>. QED BY <1>2, <1>6, <1>7, <1>8

\* A deposit or a withdrawal that is booked.
Handed(k) ==
    k \in {"deposit", "withdraw"} /\ Close(InVaults' + InBooks', InVaults + InBooks)

\* What a commit does to the sums.
LEMMA CommitSolvent ==
    ASSUME WalletsInv, Solvent, NEW s \in Session, Commit(s)
    PROVE  /\ \A u \in Player : cash'[u] >= 0
           /\ \A n \in Country : vault'[n] >= 0
           /\ InVaults' = InVaults \/ tx[s].kind = "adjust" \/ Handed(tx[s].kind)
<1>0. PICK t : t = tx[s]
    OBVIOUS
<1>1. /\ Ready(s) /\ WalletsTypeOK
      /\ Stake \in Nat /\ Stake > 0 /\ 0 - Stake \in Int /\ -Stake = 0 - Stake
      /\ Lot \in Nat /\ 0 - Lot \in Int /\ -Lot = 0 - Lot
    BY Parts, Lots DEF Commit, WalletsInv
<1>2. /\ t \in TxType /\ t.who \in Player /\ t.land \in Country /\ t.cash \in Int
      /\ t.rates \in [Country -> Nat] /\ t.cash >= 0
    BY <1>0, <1>1, ReadyFacts DEF Solvent
<1>3. /\ cash \in [Player -> Int] /\ vault \in [Country -> Int]
      /\ holding \in [Player -> [Country -> Nat]]
    BY <1>1 DEF WalletsTypeOK
<1>4. /\ \A u \in Player : cash[u] >= 0
      /\ \A n \in Country : vault[n] >= 0
    BY DEF Solvent
<1>5. vault' = vault => InVaults' = InVaults
    BY SumsAre
<1>6. CASE Buy(t)
    <2>1. Pay(t, 0 - Lot) /\ t.cash >= Lot /\ vault' = vault
        BY <1>1, <1>6 DEF Buy
    <2>2. t.cash + (0 - Lot) >= 0
        BY <1>1, <1>2, <2>1
    <2>. QED BY <1>1, <1>2, <1>4, <1>5, <2>1, <2>2, PaysWhatIsThere
<1>7. CASE Sell(t)
    <2>3. PICK r \in Nat : r = t.rates[t.land]
        BY <1>2
    <2>4. Lot * r \in Nat
        BY <1>1
    <2>5. PICK d \in Nat : d = Lot * r
        BY <2>4
    <2>1. Pay(t, d) /\ vault' = vault
        BY <1>7, <2>3, <2>5 DEF Sell
    <2>2. d \in Int /\ t.cash + d >= 0
        BY <1>2
    <2>. QED BY <1>1, <1>2, <1>4, <1>5, <2>1, <2>2, PaysWhatIsThere
<1>8. CASE Deposit(t)
    <2>1. Pay(t, 0 - Stake) /\ t.cash >= Stake /\ SetVault(t.land, vault[t.land] + Stake)
        BY <1>1, <1>8 DEF Deposit
    <2>2. t.cash + (0 - Stake) >= 0
        BY <1>1, <1>2, <2>1
    <2>3. vault[t.land] + Stake \in Int /\ vault[t.land] + Stake >= 0
          /\ vault[t.land] + Stake = vault[t.land] - (0 - Stake)
        BY <1>1, <1>2, <1>3, <1>4
    <2>4. vault' = [vault EXCEPT ![t.land] = Rounded(@ - (0 - Stake), Fine)]
        BY <1>2, <1>3, <2>1, <2>3 DEF SetVault
    <2>5. Handed(tx[s].kind)
        BY <1>0, <1>1, <1>2, <1>8, <2>1, <2>4, PurseToVault DEF Deposit, Handed
    <2>6. \A n \in Country : vault'[n] >= 0
        BY <1>1, <1>2, <1>4, <2>1, <2>3, VaultTypes, RoundedAlike
    <2>7. \A u \in Player : cash'[u] >= 0
        BY <1>1, <1>2, <2>1, <2>2, PaysWhatIsThere
    <2>. QED BY <2>5, <2>6, <2>7
<1>9. CASE Withdraw(t)
    <2>1. Pay(t, Stake) /\ vault[t.land] >= Stake /\ SetVault(t.land, vault[t.land] - Stake)
        BY <1>9 DEF Withdraw
    <2>2. t.cash + Stake >= 0 /\ Stake \in Int
        BY <1>1, <1>2
    <2>3. vault[t.land] - Stake \in Int /\ vault[t.land] - Stake >= 0
        BY <1>1, <1>2, <1>3, <2>1
    <2>4. vault' = [vault EXCEPT ![t.land] = Rounded(@ - Stake, Fine)]
        BY <2>1 DEF SetVault
    <2>5. Handed(tx[s].kind)
        BY <1>0, <1>1, <1>2, <1>9, <2>1, <2>2, <2>4, PurseToVault DEF Withdraw, Handed
    <2>6. \A n \in Country : vault'[n] >= 0
        BY <1>1, <1>2, <1>4, <2>1, <2>3, VaultTypes, RoundedAlike
    <2>7. \A u \in Player : cash'[u] >= 0
        BY <1>1, <1>2, <2>1, <2>2, PaysWhatIsThere
    <2>. QED BY <2>5, <2>6, <2>7
<1>10. CASE Claim(t)
    <2>1. Pay(t, Lot) /\ vault' = vault
        BY <1>10 DEF Claim
    <2>2. t.cash + Lot >= 0 /\ Lot \in Int
        BY <1>1, <1>2
    <2>. QED BY <1>1, <1>2, <1>4, <1>5, <2>1, <2>2, PaysWhatIsThere
<1>11. CASE Kick(t)
    <2>1. vault' = vault
        BY <1>11 DEF Kick
    <2>2. CASE holding[t.who][t.land] > 0
        <3>1. Pay(t, holding[t.who][t.land] * t.rates[t.land])
            BY <1>11, <2>2 DEF Kick
        <3>2. holding[t.who][t.land] \in Nat /\ t.rates[t.land] \in Nat
            BY <1>2, <1>3
        <3>3. holding[t.who][t.land] * t.rates[t.land] \in Nat
            BY <3>2
        <3>4. PICK d \in Nat : d = holding[t.who][t.land] * t.rates[t.land]
            BY <3>3
        <3>5. Pay(t, d) /\ t.cash + d >= 0 /\ d \in Int
            BY <1>2, <3>1, <3>4
        <3>. QED BY <1>1, <1>2, <1>4, <1>5, <2>1, <3>5, PaysWhatIsThere
    <2>3. CASE ~ (holding[t.who][t.land] > 0)
        <3>1. cash' = cash
            BY <1>11, <2>3 DEF Kick
        <3>. QED BY <1>4, <1>5, <2>1, <3>1
    <2>. QED BY <2>2, <2>3
<1>12. CASE Adjust(t)
    <2>1. PICK v \in Nat : SetVault(t.land, v)
        BY <1>12 DEF Adjust
    <2>2. v \in Int /\ v >= 0
        BY <2>1
    <2>3. \A n \in Country : vault'[n] >= 0
        BY <1>1, <1>2, <1>4, <2>1, <2>2, VaultTypes, RoundedAlike
    <2>. QED BY <1>0, <1>4, <1>12, <2>3 DEF Adjust
<1>13. CASE Declare(t) \/ Refused(t)
    BY <1>4, <1>5, <1>13 DEF Declare, Refused
<1>14. CASE Resolve(t)
    <2>1. cash' = cash
        BY <1>14 DEF Resolve
    <2>. QED BY <1>2, <1>4, <1>14, <2>1, ResolveSolvent
<1>. QED BY <1>0, <1>6, <1>7, <1>8, <1>9, <1>10, <1>11, <1>12, <1>13, <1>14 DEF Commit

LEMMA SolventKept ==
    ASSUME WalletsInv, Solvent, [WalletsNext]_walletVars
    PROVE  /\ Solvent'
           /\ InVaults' # InVaults =>
                \E s \in Session :
                    /\ tx[s] # Idle /\ tx'[s] = Idle
                    /\ tx[s].kind = "adjust" \/ Handed(tx[s].kind)
<1>1. /\ tx \in [Session -> TxType \cup {Idle}] /\ cash \in [Player -> Int]
    BY DEF WalletsInv, WalletsTypeOK
<1>2. vault' = vault => InVaults' = InVaults
    BY SumsAre
<1>3. CASE UNCHANGED <<cash, vault, tx>>
    BY <1>2, <1>3 DEF Solvent, Open
<1>4. ASSUME NEW s \in Session, Begin(s) PROVE Solvent' /\ vault' = vault
    <2>1. PICK t \in Requests : tx' = [tx EXCEPT ![s] = t]
        BY <1>4 DEF Begin
    <2>2. t.cash = 0
        <3>1. \A k, u, n : Blank(k, u, n).cash = 0
            BY DEF Blank
        <3>2. \A k, u, n, m : [Blank(k, u, n) EXCEPT !.foe = m].cash = 0
            BY DEF Blank
        <3>3. \A i : Resolution(i).cash = 0
            BY DEF Resolution, Blank
        <3>4. \/ \E k, u, n : t = Blank(k, u, n)
              \/ \E k, u, n, m : t = [Blank(k, u, n) EXCEPT !.foe = m]
              \/ \E i : t = Resolution(i)
            BY <2>1 DEF Requests
        <3>5. CASE \E k, u, n : t = Blank(k, u, n)
            BY <3>1, <3>5, Zenon
        <3>6. CASE \E k, u, n, m : t = [Blank(k, u, n) EXCEPT !.foe = m]
            <4>1. PICK k, u, n, m : t = [Blank(k, u, n) EXCEPT !.foe = m]
                BY <3>6
            <4>. QED BY <3>2, <4>1
        <3>7. CASE \E i : t = Resolution(i)
            BY <3>3, <3>7, Zenon
        <3>. QED BY <3>4, <3>5, <3>6, <3>7
    <2>3. UNCHANGED <<cash, vault>>
        BY <1>4 DEF Begin
    <2>. QED BY <1>1, <2>1, <2>2, <2>3 DEF Solvent, Open
<1>5. ASSUME NEW s \in Session, Acquire(s) PROVE Solvent' /\ vault' = vault
    <2>1. tx' = [tx EXCEPT ![s] = WithLock(tx[s])] /\ UNCHANGED <<cash, vault>> /\ Open(s)
        BY <1>5 DEF Acquire, Waiting, Open
    <2>2. tx[s] \in TxType /\ tx[s].who \in Player
        BY <2>1, OpenTx DEF WalletsInv, TxType
    <2>3. WithLock(tx[s]).cash \in {cash[tx[s].who], tx[s].cash}
        BY <2>2, LockFields
    <2>4. WithLock(tx[s]).cash >= 0
        BY <2>1, <2>2, <2>3 DEF Solvent
    <2>. QED BY <1>1, <2>1, <2>4 DEF Solvent, Open
<1>6. ASSUME NEW s \in Session, DeadlockDetected(s) PROVE Solvent' /\ vault' = vault
    BY <1>1, <1>6 DEF DeadlockDetected, Solvent, Open
<1>7. ASSUME NEW s \in Session, Commit(s)
      PROVE  /\ Solvent' /\ tx[s] # Idle /\ tx'[s] = Idle
             /\ InVaults' = InVaults \/ tx[s].kind = "adjust" \/ Handed(tx[s].kind)
    <2>1. tx' = [tx EXCEPT ![s] = Idle] /\ tx[s] # Idle
        BY <1>7 DEF Commit, Ready
    <2>2. tx'[s] = Idle /\ \A r \in Session : r # s => tx'[r] = tx[r]
        BY <1>1, <2>1
    <2>3. /\ \A u \in Player : cash'[u] >= 0
          /\ \A n \in Country : vault'[n] >= 0
          /\ InVaults' = InVaults \/ tx[s].kind = "adjust" \/ Handed(tx[s].kind)
        BY <1>7, CommitSolvent
    <2>. QED BY <2>1, <2>2, <2>3 DEF Solvent, Open
<1>8. ASSUME NEW u \in Player, Bonus(u) PROVE Solvent' /\ vault' = vault
    <2>1. /\ cash' = [cash EXCEPT ![u] = Rounded(@ + Stake, Coarse)]
          /\ UNCHANGED <<vault, tx>>
        BY <1>8 DEF Bonus
    <2>3. cash[u] + Stake \in Int /\ cash[u] + Stake >= 0
        BY <1>1, Parts DEF Solvent
    <2>4. Rounded(cash[u] + Stake, Coarse) >= 0
        BY <2>3, RoundedWhole, Parts
    <2>2. \A v \in Player : cash'[v] >= 0
        BY <1>1, <2>1, <2>4 DEF Solvent
    <2>. QED BY <2>1, <2>2 DEF Solvent, Open
<1>9. ASSUME NEW n \in Country, NEW r \in Rates, SetRate(n, r) PROVE UNCHANGED <<cash, vault, tx>>
    BY <1>9 DEF SetRate
<1>10. ASSUME NEW i \in 1..MaxWars, EndWar(i) PROVE UNCHANGED <<cash, vault, tx>>
    BY <1>10 DEF EndWar
<1>11. CASE UNCHANGED walletVars
    BY <1>3, <1>11 DEF walletVars
<1>12. CASE \E s \in Session : Commit(s)
    <2>1. PICK s \in Session : Commit(s)
        BY <1>12
    <2>. QED BY <1>7, <2>1
<1>. QED BY <1>2, <1>3, <1>4, <1>5, <1>6, <1>8, <1>9, <1>10, <1>11, <1>12 DEF WalletsNext

(* However early an operation has read what it writes back: no purse, wallet or      *)
(* treasury is overdrawn, a war only moves money between treasuries, and what else   *)
(* enters or leaves them is booked for a player, to the 0.01 in which both are       *)
(* rounded, or set by an administrator.                                              *)
THEOREM VaultMoneyIsBooked == WalletsSpec => VaultMoneyHasSource
<1>1. WalletsInv /\ Solvent /\ [WalletsNext]_walletVars => Solvent'
    BY SolventKept
<1>2. WalletsSpec => []Solvent
    BY <1>1, SolventStarts, WalletsInvariant, PTL DEF WalletsSpec
<1>3. ASSUME WalletsInv, WalletsInv', Solvent, [WalletsNext]_walletVars
      PROVE  /\ NothingOverdrawn'
             /\ InVaults' # InVaults =>
                  \E s \in Session :
                      /\ tx[s] # Idle /\ tx'[s] = Idle
                      /\ \/ tx[s].kind = "adjust"
                         \/ /\ tx[s].kind \in {"deposit", "withdraw"}
                            /\ Close(InVaults' + InBooks', InVaults + InBooks)
    <2>1. Solvent'
        BY <1>3, SolventKept
    <2>2. holding' \in [Player -> [Country -> Nat]]
        BY <1>3 DEF WalletsInv, WalletsTypeOK
    <2>3. NothingOverdrawn'
        BY <2>1, <2>2 DEF NothingOverdrawn, Solvent
    <2>. QED BY <1>3, <2>3, SolventKept DEF Handed
<1>4. WalletsInv /\ WalletsInv' /\ Solvent /\ [WalletsNext]_walletVars =>
        [/\ NothingOverdrawn'
         /\ InVaults' # InVaults =>
              \E s \in Session :
                  /\ tx[s] # Idle /\ tx'[s] = Idle
                  /\ \/ tx[s].kind = "adjust"
                     \/ /\ tx[s].kind \in {"deposit", "withdraw"}
                        /\ Close(InVaults' + InBooks', InVaults + InBooks)]_walletVars
    BY <1>3
<1>. QED BY <1>2, <1>4, WalletsInvariant, PTL DEF WalletsSpec, VaultMoneyHasSource

=============================================================================
