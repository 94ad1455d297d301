------------------------------- MODULE Wallets -------------------------------
(*****************************************************************************)
(* Money. Every operation that moves ΩXR is one database transaction: it     *)
(* locks rows in an order of its own (SELECT ... FOR UPDATE), keeps what it  *)
(* read in ORM objects, and writes absolute values back when it commits. An  *)
(* object that is already in the session is not refreshed by a later FOR     *)
(* UPDATE read of the same row, and the relationships are loaded with the    *)
(* first row that has them (lazy="selectin"): an operation that locks a row  *)
(* of somebody's membership or progress has read that user's row before it   *)
(* holds the user's lock.                                                    *)
(*                                                                           *)
(* Columns keep money with two places (users.xr_balance, users.balance,      *)
(* nations.treasury) or with four (wallets, treasuries, journals), and the   *)
(* database rounds what is written to them. Here money is counted in parts,  *)
(* the finest amounts told apart, Fine of them the last of four places and   *)
(* Coarse of them the last of two. The fee is left out (market.tx_fee may be *)
(* 0): it changes the amounts of a trade, not what is written where.         *)
(*****************************************************************************)
EXTENDS Integers, Sequences, FiniteSets, FiniteSetsExt, Relation

CONSTANTS
    Player, Country,
    NoCountry,
    Session,            \* database sessions that may be open at a time
    Kinds,              \* the operations an instance has
    Founder,            \* Founder[n]: the founder of n
    StartHome,          \* the citizenships at the start
    CountryId,          \* CountryId[n]: the primary key, the order rows are locked in
    Rates,              \* exchange rates
    Fine, Coarse,       \* 0.0001 and 0.01 ΩXR, in parts
    Stake,              \* the amount of a deposit, withdrawal, trade, ...
    StartCash, StartVault,
    MaxOperations,      \* bound: transactions begun
    MaxWars             \* bound: wars declared

ASSUME WalletsAssumption ==
    /\ IsFiniteSet(Player) /\ IsFiniteSet(Country) /\ NoCountry \notin Country
    /\ Founder \in [Country -> Player]
    /\ StartHome \in [Player -> Country] /\ \A n \in Country : StartHome[Founder[n]] = n
    /\ CountryId \in [Country -> Nat]
    /\ Rates \subseteq Nat \ {0}
    /\ Fine \in Nat \ {0} /\ Coarse \in Nat /\ Fine < Coarse
    /\ Stake \in Nat /\ Stake >= Coarse /\ StartCash \in Nat
    /\ StartVault \in [Country -> Nat]

VARIABLES
    cash,       \* users.xr_balance
    mirror,     \* users.balance
    home,       \* users.home_nation_id
    holding,    \* currency_holdings.amount
    booked,     \* what transactions, treasury_logs and audit say users.xr_balance moved by
    vault,      \* treasuries.balance_xr
    copy,       \* nations.treasury
    rate,       \* nations.exchange_rate
    wars,       \* nation_wars, with the number of war_reparation logs each has
    tx,         \* the transaction each session has open
    begun

walletVars == <<cash, mirror, home, holding, booked, vault, copy, rate, wars, tx, begun>>

Idle == [kind |-> "idle"]

\* What a column whose last place is g parts keeps of the amount x.
Rounded(x, g) == (x + g \div 2) - ((x + g \div 2) % g)

\* The amount of a trade or a reward: a preview and a mission keep four places.
Lot == Rounded(Stake, Fine)

\* Less than 0.01 apart.
Close(a, b) == a - b < Coarse /\ b - a < Coarse

------------------------------------------------------------------------------
(* Rows, locks and what a session has read. *)

UserRow(u) == <<"users", u>>
NationRow(n) == <<"nations", n>>
ProgressRow(u) == <<"user_mission_progress", u>>
WarRow(i) == <<"nation_wars", i>>

InIdOrder(a, b) ==
    IF CountryId[a] < CountryId[b] THEN <<NationRow(a), NationRow(b)>>
    ELSE <<NationRow(b), NationRow(a)>>

\* Mutant: a declaration locks only the declaring nation.
DeclarePlanOwnNation(t) == <<NationRow(t.land)>>

DeclarePlan(t) == InIdOrder(t.land, t.foe)
ResolvePlan(t) == InIdOrder(t.land, t.foe) \o <<WarRow(t.war)>>

\* The rows an operation locks, in its order. A kick, a withdrawal and a
\* liquidation by chat_member lock the nation and the membership before the user.
Plan(t) ==
    CASE t.kind \in {"buy", "sell"} -> <<UserRow(t.who), NationRow(t.land)>>
      [] t.kind \in {"deposit", "withdraw", "kick"} -> <<NationRow(t.land), UserRow(t.who)>>
      [] t.kind = "claim" -> <<ProgressRow(t.who), UserRow(t.who)>>
      [] t.kind = "adjust" -> <<NationRow(t.land)>>
      [] t.kind = "declare" -> DeclarePlan(t)
      [] t.kind = "resolve" -> ResolvePlan(t)

\* Mutant: a deposit looks at the member's row first, as a withdrawal does.
UserReadAtMember(t) == 1

\* With which lock the user's row is first read: with the user's own, or with
\* the membership's or the progress row's.
UserReadAt(t) == IF t.kind = "deposit" THEN 2 ELSE 1

Held(s) ==
    IF tx[s] = Idle THEN {}
    ELSE {Plan(tx[s])[i] : i \in 1..tx[s].held}
Wants(s) == Plan(tx[s])[tx[s].held + 1]
Waiting(s) == tx[s] # Idle /\ tx[s].held < Len(Plan(tx[s]))
Ready(s) == tx[s] # Idle /\ tx[s].held = Len(Plan(tx[s]))
Locked(r) == \E s \in Session : r \in Held(s)

\* The ORM writes an attribute only when it differs from what was loaded.
Flush(new, loaded, stored) == IF new = loaded THEN stored ELSE Rounded(new, Coarse)

ActiveBetween(a, b) ==
    \E i \in DOMAIN wars : wars[i].status = "active" /\ wars[i].sides = {a, b}

\* What is read along with the next lock.
WithLock(t) ==
    LET k == t.held + 1 IN
    [t EXCEPT
        !.held = k,
        !.cash = IF k = UserReadAt(t) THEN cash[t.who] ELSE @,
        !.mirror = IF k = UserReadAt(t) THEN mirror[t.who] ELSE @,
        !.home = IF k = UserReadAt(t) THEN home[t.who] ELSE @,
        !.rates = IF \/ t.kind \in {"buy", "sell"}
                        /\ k = (IF home[t.who] = t.land THEN 1 ELSE 2)
                     \/ t.kind = "kick" /\ k = 1
                  THEN rate ELSE @,
        !.clear = IF k = Len(Plan(t)) THEN ~ActiveBetween(t.land, t.foe) ELSE @]

Acquire(s) ==
    /\ Waiting(s)
    /\ ~Locked(Wants(s))
    /\ tx' = [tx EXCEPT ![s] = WithLock(@)]
    /\ UNCHANGED <<cash, mirror, home, holding, booked, vault, copy, rate, wars, begun>>

\* s waits, through others, for itself.
InCircle(s) ==
    LET waitsFor == [p \in Session \X Session |->
                        Waiting(p[1]) /\ Wants(p[1]) \in Held(p[2])]
    IN  TransitiveClosure(waitsFor, Session)[s, s]

\* PostgreSQL aborts one of the transactions that wait for one another.
DeadlockDetected(s) ==
    /\ Waiting(s) /\ InCircle(s)
    /\ tx' = [tx EXCEPT ![s] = Idle]
    /\ UNCHANGED <<cash, mirror, home, holding, booked, vault, copy, rate, wars, begun>>

------------------------------------------------------------------------------
(* Beginning an operation. *)

Blank(k, u, n) ==
    [kind |-> k, who |-> u, land |-> n, foe |-> n, war |-> 0, held |-> 0,
     cash |-> 0, mirror |-> 0, home |-> NoCountry, clear |-> FALSE, status |-> "active",
     rates |-> [m \in Country |-> 0], copies |-> [m \in Country |-> 0]]

\* resolve_expired_wars is one scheduler job (max_instances = 1).
NoResolver == \A s \in Session : tx[s].kind # "resolve"

\* resolve_war reads the war, and with it both nations, before it locks anything.
Resolution(i) ==
    LET a == wars[i].declarer
        b == CHOOSE n \in wars[i].sides : n # a
    IN [Blank("resolve", Founder[a], a) EXCEPT
            !.foe = b, !.war = i, !.status = wars[i].status, !.rates = rate, !.copies = copy]

Requests ==
    {Blank(k, u, n) : k \in Kinds \cap {"buy", "sell"}, u \in Player, n \in Country}
    \cup {Blank("deposit", u, home[u]) :
            u \in {v \in Player : "deposit" \in Kinds /\ home[v] # NoCountry}}
    \cup {Blank("withdraw", Founder[n], n) : n \in {m \in Country : "withdraw" \in Kinds}}
    \cup {Blank("adjust", Founder[n], n) : n \in {m \in Country : "adjust" \in Kinds}}
    \cup {Blank("kick", u, home[u]) :
            u \in {v \in Player : "kick" \in Kinds /\ home[v] # NoCountry /\ v # Founder[home[v]]}}
    \cup {Blank("claim", u, CHOOSE n \in Country : TRUE) :
            u \in {v \in Player : "claim" \in Kinds}}
    \cup {[Blank("declare", Founder[p[1]], p[1]) EXCEPT !.foe = p[2]] :
            p \in {q \in Country \X Country : q[1] # q[2] /\ "declare" \in Kinds}}
    \cup {Resolution(i) : i \in {j \in DOMAIN wars : NoResolver}}

Begin(s) ==
    /\ tx[s] = Idle
    /\ begun < MaxOperations
    /\ \E t \in Requests : tx' = [tx EXCEPT ![s] = t]
    /\ begun' = begun + 1
    /\ UNCHANGED <<cash, mirror, home, holding, booked, vault, copy, rate, wars>>

------------------------------------------------------------------------------
(* Committing it. *)

\* What a journal row says of a movement d.
Journal(d) == IF d < 0 THEN -Rounded(-d, Fine) ELSE Rounded(d, Fine)

\* user.xr_balance and the journal row that goes with it.
Pay(t, d) ==
    /\ cash' = [cash EXCEPT ![t.who] = Rounded(t.cash + d, Coarse)]
    /\ booked' = [booked EXCEPT ![t.who] = @ + Journal(d)]

\* What a trade leaves in the wallet.
SetWallet(t, x) == holding' = [holding EXCEPT ![t.who][t.land] = Rounded(x, Fine)]

\* user.balance after a trade: the wallet of the home nation, or zero. It is taken
\* from the object, which has not been rounded yet.
TradeMirror(t, x) ==
    mirror' = [mirror EXCEPT
        ![t.who] = Flush(IF t.home = t.land THEN x ELSE 0, t.mirror, @)]

\* sync_user_balance
SyncBalance(t, wallets) ==
    mirror' = [mirror EXCEPT
        ![t.who] = Flush(IF t.home = NoCountry THEN 0 ELSE wallets[t.home], t.mirror, @)]

Bought(t) == holding[t.who][t.land] + Lot \div t.rates[t.land]
Left(t) == holding[t.who][t.land] - Lot

\* Mutant: a purchase forgets users.balance.
BuyWithoutMirror(t) ==
    /\ t.kind = "buy" /\ t.cash >= Lot
    /\ Pay(t, -Lot)
    /\ SetWallet(t, Bought(t))
    /\ UNCHANGED <<mirror, home, vault, copy, wars>>

Buy(t) ==
    /\ t.kind = "buy" /\ t.cash >= Lot
    /\ Pay(t, -Lot)
    /\ SetWallet(t, Bought(t)) /\ TradeMirror(t, Bought(t))
    /\ UNCHANGED <<home, vault, copy, wars>>

Sell(t) ==
    /\ t.kind = "sell" /\ holding[t.who][t.land] >= Lot
    /\ Pay(t, Lot * t.rates[t.land])
    /\ SetWallet(t, Left(t)) /\ TradeMirror(t, Left(t))
    /\ UNCHANGED <<home, vault, copy, wars>>

\* treasuries.balance_xr and the copy of it in nations.treasury.
SetVault(n, v) ==
    /\ vault' = [vault EXCEPT ![n] = Rounded(v, Fine)]
    /\ copy' = [copy EXCEPT ![n] = Rounded(v, Coarse)]

Deposit(t) ==
    /\ t.kind = "deposit" /\ t.cash >= Stake
    /\ Pay(t, -Stake)
    /\ SetVault(t.land, vault[t.land] + Stake)
    /\ SyncBalance(t, holding[t.who])
    /\ UNCHANGED <<home, holding, wars>>

\* Mutant: a withdrawal forgets nations.treasury.
WithdrawWithoutCopy(t) ==
    /\ t.kind = "withdraw" /\ vault[t.land] >= Stake
    /\ Pay(t, Stake)
    /\ vault' = [vault EXCEPT ![t.land] = Rounded(@ - Stake, Fine)]
    /\ SyncBalance(t, holding[t.who])
    /\ UNCHANGED <<copy, home, holding, wars>>

Withdraw(t) ==
    /\ t.kind = "withdraw" /\ vault[t.land] >= Stake
    /\ Pay(t, Stake)
    /\ SetVault(t.land, vault[t.land] - Stake)
    /\ SyncBalance(t, holding[t.who])
    /\ UNCHANGED <<home, holding, wars>>

\* The reward of a mission; that of a lesson locks and writes in the same way.
Claim(t) ==
    /\ t.kind = "claim"
    /\ Pay(t, Lot)
    /\ SyncBalance(t, holding[t.who])
    /\ UNCHANGED <<home, holding, vault, copy, wars>>

\* A member, who still is one, is kicked: the wallet is liquidated and the home
\* nation goes.
Kick(t) ==
    /\ t.kind = "kick" /\ t.home = t.land
    /\ IF holding[t.who][t.land] > 0
       THEN /\ Pay(t, holding[t.who][t.land] * t.rates[t.land])
            /\ holding' = [holding EXCEPT ![t.who][t.land] = 0]
            /\ SyncBalance(t, holding'[t.who])
       ELSE UNCHANGED <<cash, booked, holding, mirror>>
    /\ home' = [home EXCEPT ![t.who] = NoCountry]
    /\ UNCHANGED <<vault, copy, wars>>

\* An administrator sets a treasury.
Adjust(t) ==
    /\ t.kind = "adjust"
    /\ \E v \in {vault[t.land] - Stake, vault[t.land] + Stake} \cap Nat : SetVault(t.land, v)
    /\ UNCHANGED <<cash, mirror, home, holding, booked, wars>>

WarOf(a, b) == [declarer |-> a, sides |-> {a, b}, status |-> "active", paid |-> 0]

Declare(t) ==
    /\ t.kind = "declare" /\ t.clear /\ Len(wars) < MaxWars
    /\ wars' = Append(wars, WarOf(t.land, t.foe))
    /\ UNCHANGED <<cash, mirror, home, holding, booked, vault, copy>>

\* A tenth, half to even in the last of four places. Treasuries have no further
\* places, so what a resolution writes to them is not rounded.
Tenth(v) ==
    LET q == v \div (10 * Fine)
        r == v % (10 * Fine)
    IN  Fine * (IF r > 5 * Fine \/ (r = 5 * Fine /\ q % 2 = 1) THEN q + 1 ELSE q)

Lost(v) == IF Tenth(v) < v THEN Tenth(v) ELSE v

Loser(t) == IF t.rates[t.land] < t.rates[t.foe] THEN t.land ELSE t.foe
Draw(t) == t.rates[t.land] = t.rates[t.foe]
\* Mutant: the status of the war is not looked at.
AnyStatus(t) == TRUE

StillActive(t) == t.status = "active"

\* Mutant: the winner is credited and the loser keeps its treasury.
ResolveKeeping(t) ==
    /\ t.kind = "resolve" /\ StillActive(t)
    /\ LET lost == IF Draw(t) THEN 0 ELSE Lost(vault[Loser(t)])
       IN /\ vault' = [n \in Country |->
                        IF n \notin {t.land, t.foe} \/ n = Loser(t) THEN vault[n]
                        ELSE vault[n] + lost]
          /\ copy' = [n \in Country |-> Rounded(vault'[n], Coarse)]
          /\ wars' = [wars EXCEPT ![t.war].status = IF Draw(t) THEN "draw" ELSE "ended",
                                  ![t.war].paid = @ + (IF lost > 0 THEN 1 ELSE 0)]
    /\ UNCHANGED <<cash, mirror, home, holding, booked>>

Resolve(t) ==
    /\ t.kind = "resolve" /\ StillActive(t)
    /\ LET lost == IF Draw(t) THEN 0 ELSE Lost(vault[Loser(t)])
           after == [n \in Country |->
                        IF n \notin {t.land, t.foe} THEN vault[n]
                        ELSE IF n = Loser(t) THEN vault[n] - lost ELSE vault[n] + lost]
       IN /\ vault' = after
          /\ copy' = [n \in Country |->
                        IF n \in {t.land, t.foe} THEN Flush(after[n], t.copies[n], copy[n])
                        ELSE copy[n]]
          /\ wars' = [wars EXCEPT ![t.war].status = IF Draw(t) THEN "draw" ELSE "ended",
                                  ![t.war].paid = @ + (IF lost > 0 THEN 1 ELSE 0)]
    /\ UNCHANGED <<cash, mirror, home, holding, booked>>

\* The checks of an operation fail and its transaction is rolled back.
Refused(t) ==
    /\ \/ t.kind = "buy" /\ t.cash < Lot
       \/ t.kind = "deposit" /\ t.cash < Stake
       \/ t.kind = "sell" /\ holding[t.who][t.land] < Lot
       \/ t.kind = "withdraw" /\ vault[t.land] < Stake
       \/ t.kind = "kick" /\ t.home # t.land
       \/ t.kind = "declare" /\ ~(t.clear /\ Len(wars) < MaxWars)
       \/ t.kind = "resolve" /\ ~StillActive(t)
    /\ UNCHANGED <<cash, mirror, home, holding, booked, vault, copy, wars>>

Commit(s) ==
    /\ Ready(s)
    /\ LET t == tx[s] IN
        \/ Buy(t) \/ Sell(t) \/ Deposit(t) \/ Withdraw(t) \/ Claim(t) \/ Kick(t)
        \/ Adjust(t) \/ Declare(t) \/ Resolve(t) \/ Refused(t)
    /\ tx' = [tx EXCEPT ![s] = Idle]
    /\ UNCHANGED <<rate, begun>>

------------------------------------------------------------------------------
(* Statements that lock, read and write at once. *)

\* The administrator's bonus adds to the stored balance; the audit's text is exact.
Bonus(u) ==
    /\ "bonus" \in Kinds /\ begun < MaxOperations
    /\ ~Locked(UserRow(u))
    /\ cash' = [cash EXCEPT ![u] = Rounded(@ + Stake, Coarse)]
    /\ booked' = [booked EXCEPT ![u] = @ + Stake]
    /\ begun' = begun + 1
    /\ UNCHANGED <<mirror, home, holding, vault, copy, rate, wars, tx>>

\* The rate engine and the administrator's override write exchange_rate.
SetRate(n, r) ==
    /\ "rate" \in Kinds /\ begun < MaxOperations
    /\ ~Locked(NationRow(n)) /\ r # rate[n]
    /\ rate' = [rate EXCEPT ![n] = r]
    /\ begun' = begun + 1
    /\ UNCHANGED <<cash, mirror, home, holding, booked, vault, copy, wars, tx>>

\* The administrator ends a war; no treasury is touched.
EndWar(i) ==
    /\ "end_war" \in Kinds /\ begun < MaxOperations
    /\ i \in DOMAIN wars /\ wars[i].status = "active" /\ ~Locked(WarRow(i))
    /\ \E d \in {"draw", "ended"} : wars' = [wars EXCEPT ![i].status = d]
    /\ begun' = begun + 1
    /\ UNCHANGED <<cash, mirror, home, holding, booked, vault, copy, rate, tx>>

------------------------------------------------------------------------------
WalletsInit ==
    /\ cash = [u \in Player |-> StartCash]
    /\ home = StartHome
    /\ holding = [u \in Player |-> [n \in Country |-> IF n = home[u] THEN Lot ELSE 0]]
    /\ mirror = [u \in Player |-> Rounded(Lot, Coarse)]
    /\ booked = [u \in Player |-> StartCash]
    /\ vault = StartVault
    /\ copy = [n \in Country |-> Rounded(vault[n], Coarse)]
    /\ rate \in [Country -> Rates]
    /\ wars \in {<< >>} \cup {<<WarOf(p[1], p[2])>> :
                              p \in {q \in Country \X Country : q[1] # q[2]}}
    /\ tx = [s \in Session |-> Idle]
    /\ begun = 0

WalletsNext ==
    \/ \E s \in Session : Begin(s) \/ Acquire(s) \/ Commit(s) \/ DeadlockDetected(s)
    \/ \E u \in Player : Bonus(u)
    \/ \E n \in Country, r \in Rates : SetRate(n, r)
    \/ \E i \in 1..MaxWars : EndWar(i)

WalletsSpec == WalletsInit /\ [][WalletsNext]_walletVars

------------------------------------------------------------------------------
(* Properties *)

\* But for the rounding of each operation, a player's cash is what the journals of
\* trades, treasury movements and rewards add up to (world_action_service.py:64:
\* every operation updates the cash and the journal together). An operation that
\* read the cash before it had the user's lock overwrites what was committed in between.
CashMatchesBooks ==
    \A u \in Player : cash[u] - booked[u] \in -(Coarse * begun)..(Coarse * begun)

\* A step takes cash and journal apart by 0.01 or more in one way only: a withdrawal,
\* a reward or a kick commits that had read the cash with the membership or the
\* progress row, and another operation of the same user committed before it got the
\* user's lock. Every other step keeps them together but for the rounding of both.
BooksOffOnlyByOvertaken ==
    [][\A u \in Player :
        ~Close(cash'[u] - booked'[u], cash[u] - booked[u]) =>
            \E s \in Session :
                /\ tx[s] # Idle /\ tx'[s] = Idle
                /\ tx[s].kind \in {"withdraw", "claim", "kick"} /\ tx[s].who = u
                /\ tx[s].cash # cash[u]]_walletVars

InVaults == MapThenSumSet(LAMBDA n : vault[n], Country)
InBooks == MapThenSumSet(LAMBDA u : booked[u], Player)

NothingOverdrawn ==
    /\ \A u \in Player : cash[u] >= 0 /\ \A n \in Country : holding[u][n] >= 0
    /\ \A n \in Country : vault[n] >= 0

\* Money enters or leaves the treasuries only out of or into a player's journal, to
\* the 0.01 in which both are rounded, or by an administrator; a war moves it between
\* treasuries and loses none. Whatever was read early, no treasury, wallet or purse
\* is ever overdrawn.
VaultMoneyHasSource ==
    [][/\ NothingOverdrawn'
       /\ InVaults' # InVaults =>
            \E s \in Session :
                /\ tx[s] # Idle /\ tx'[s] = Idle
                /\ \/ tx[s].kind = "adjust"
                   \/ /\ tx[s].kind \in {"deposit", "withdraw"}
                      /\ Close(InVaults' + InBooks', InVaults + InBooks)]_walletVars

\* nations.treasury, the copy of the treasury's balance, leaves it by 0.01 or more in
\* one way only: the reparation of a war brings the balance back to what the copy was
\* when the war was read, before the locks, and the ORM sees nothing to write.
CopyOffOnlyByResolution ==
    [][\A n \in Country :
        Close(copy[n], vault[n]) /\ ~Close(copy'[n], vault'[n]) =>
            \E s \in Session :
                /\ tx[s] # Idle /\ tx'[s] = Idle
                /\ tx[s].kind = "resolve" /\ n \in {tx[s].land, tx[s].foe}
                /\ tx[s].copies[n] # copy[n] /\ tx[s].copies[n] = vault'[n]]_walletVars

\* Two nations are in one war at a time, also when both declare it at once.
OneWarPerPair ==
    \A i, j \in DOMAIN wars :
        /\ wars[i].status = "active" /\ wars[j].status = "active"
        /\ wars[i].sides = wars[j].sides
        => i = j

\* A war pays its reparation at most once, though the job reads its status
\* before the locks and an administrator may end it meanwhile.
OneReparationPerWar == \A i \in DOMAIN wars : wars[i].paid <= 1

\* users.balance is the home nation's wallet, less than 0.01 off, or, after a trade
\* abroad, zero. It comes to show money no wallet has in two ways only: a kick commits that had
\* read it with the membership, before somebody else changed it; or a reward that
\* had read the home nation with the progress row, before its player was kicked.
Honest(u) == mirror[u] # 0 => home[u] # NoCountry /\ Close(mirror[u], holding[u][home[u]])

MirrorOffOnlyByOvertaken ==
    [][\A u \in Player :
        Honest(u) /\ ~Honest(u)' =>
            \E s \in Session :
                /\ tx[s] # Idle /\ tx'[s] = Idle /\ tx[s].who = u
                /\ \/ tx[s].kind = "kick" /\ tx[s].mirror # mirror[u]
                   \/ tx[s].kind = "claim" /\ tx[s].home # home[u]]_walletVars

=============================================================================
