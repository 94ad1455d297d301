------------------------------- MODULE Market -------------------------------
(*****************************************************************************)
(* The market of one human nation's currency: the dialogue that previews and *)
(* confirms a trade, the trade's transaction with the pressure it records in *)
(* Redis, the rate engine and the administrator's reset of the rate. The     *)
(* engine reads the nation without a lock and writes it later; a trade holds *)
(* its row from the checks to the commit. Wallets and fees are in Wallets:   *)
(* whether a balance suffices, and the volume of the day, is any answer      *)
(* here.                                                                     *)
(*****************************************************************************)
EXTENDS Game, SequencesExt

CONSTANTS
    Trader,         \* the players of this part
    Stranger,       \* those whose home is another nation: foreign_buy
    TradeAmount,    \* what is typed, bought or sold
    FirstRate,      \* what a nation is founded with, 1.0000: 10000 in the program, whose
                    \* column keeps four decimals; the runs keep rates more coarsely
    RateMin,        \* settings.rate_min, in the same unit
    RateMax,        \* settings.rate_max
    Multiplier,     \* rate.volatility_multiplier in force, in hundredths
    AdminRate,      \* the rate an administrator resets to
    MaxPreviews,    \* bound: previews shown
    MaxVolume       \* bound: the volume that is counted in Redis

ASSUME MarketAssumption ==
    /\ Trader \subseteq Player /\ Stranger \subseteq Trader
    /\ TradeAmount \subseteq Nat /\ MaxPreviews \in Nat /\ MaxVolume \in Nat
    /\ RateMin \in Nat \ {0} /\ RateMax \in Nat /\ Multiplier \in Nat
    /\ {FirstRate, AdminRate} \subseteq RateMin..RateMax

VARIABLES
    rate,       \* Nation.exchange_rate, in the unit of FirstRate
    listed,     \* is_active
    pressure,   \* the Redis hash: what was bought, sold, bought from abroad
    dialogue,   \* MarketStates of the player
    previews,   \* trade_previews, oldest first
    shown,      \* the confirm buttons a player's chat shows
    trade,      \* the trade that holds the row, or NoTrade
    engine,     \* the rate engine's transaction: what it read
    left,      \* history: how often each trade was previewed, and at which rates
    overtaken,  \* history: an administrator's reset overtook the engine
    torn        \* history: a key expired between the two counts of one purchase

marketVars == <<rate, listed, pressure, dialogue, previews, shown,
                trade, engine, left, overtaken, torn>>

MarketStates == {"none", "WAITING_BUY_AMOUNT", "WAITING_SELL_AMOUNT"}

Side == {"buy", "sell"}
Order == [by : Trader, side : Side, spend : TradeAmount]
NoTrade == [by |-> NoPlayer]
Idle == [phase |-> "idle"]
NoPressure == [bought |-> 0, sold |-> 0, foreign |-> 0]
MinSpend == 10      \* of a purchase, in prepare_buy_preview

\* Not more than one percent away from the previewed rate.
Near(r, p) == Max({r - p, p - r}) * 100 <= p

Clamp(x, low, high) == IF x < low THEN low ELSE IF x > high THEN high ELSE x

SetDialogue(u, s) == dialogue' = [dialogue EXCEPT ![u] = s]

------------------------------------------------------------------------------
(* Screens. *)

\* market_main, the lists, buying and selling: each clears the dialogue.
MarketMain(u) ==
    /\ SetDialogue(u, "none")
    /\ UNCHANGED <<rate, listed, pressure, previews, shown, trade, engine, left,
                   overtaken, torn>>

\* buy_currency and sell_currency.
ChooseCurrency(u, s) ==
    /\ s = "WAITING_SELL_AMOUNT" => listed
    /\ SetDialogue(u, s)
    /\ UNCHANGED <<rate, listed, pressure, previews, shown, trade, engine, left,
                   overtaken, torn>>

\* prepare_buy_preview and prepare_sell_preview; a refusal leaves the dialogue.
Preview(u, o) ==
    /\ o.by = u /\ Len(previews) < MaxPreviews
    /\ listed /\ (o.side = "buy" => o.spend >= MinSpend)
    /\ previews' = Append(previews, [of |-> o, rate |-> rate])
    /\ SetDialogue(u, "none")
    /\ shown' = [shown EXCEPT ![u] = @ \cup {o}]
    /\ left' = [left EXCEPT ![o] = @ + 1]
    /\ UNCHANGED <<rate, listed, pressure, trade, engine,
                   overtaken, torn>>

\* An amount typed in the dialogue the currency was chosen in.
TypeAmount(u, o) ==
    /\ dialogue[u] = IF o.side = "buy" THEN "WAITING_BUY_AMOUNT" ELSE "WAITING_SELL_AMOUNT"
    /\ Preview(u, o)

\* A quick button needs no dialogue.
QuickAmount(u, o) == Preview(u, o)

------------------------------------------------------------------------------
(* A trade, from the press of the confirm button to the commit. *)

LatestPreview(o) == SelectLastInSeq(previews, LAMBDA p : p.of = o)

\* The rate may have moved since the button was shown.
MayExecute(o) ==
    /\ listed
    /\ LatestPreview(o) > 0
    /\ Near(rate, previews[LatestPreview(o)].rate)

\* HINCRBYFLOAT
Counted(volume, o) == Capped(volume + o.spend, MaxVolume)

\* execute_buy and execute_sell up to the first count in Redis: the checks under
\* the locks, the changes of the session, and the volume of the trade's side.
ConfirmTrade(u, o) ==
    /\ trade = NoTrade
    /\ o \in shown[u] /\ MayExecute(o)
    /\ trade' = o
    /\ pressure' = IF o.side = "buy" THEN [pressure EXCEPT !.bought = Counted(@, o)]
                                     ELSE [pressure EXCEPT !.sold = Counted(@, o)]
    /\ UNCHANGED <<rate, listed, dialogue, previews, shown, engine, left,
                   overtaken, torn>>

Foreign(o) == o.side = "buy" /\ o.by \in Stranger

\* The second count of record_trade_pressure, of a purchase from abroad.
PressureOf(o) == IF Foreign(o) THEN [pressure EXCEPT !.foreign = Counted(@, o)] ELSE pressure

\* Mutant: the preview stays.
WithoutNone(o) == previews

\* The preview that was found is deleted with the trade.
WithoutLatest(o) == RemoveAt(previews, LatestPreview(o))

\* The edit that takes the button away may fail, and an older message has it too:
\* the button stays.
TradeCommits ==
    /\ trade # NoTrade
    /\ trade' = NoTrade
    /\ pressure' = PressureOf(trade)
    /\ previews' = WithoutLatest(trade)
    /\ left' = [left EXCEPT ![trade] = @ - 1]
    /\ UNCHANGED <<rate, listed, dialogue, shown, engine, overtaken, torn>>

\* The transaction fails after the pressure was recorded, which stays.
TradeFails ==
    /\ trade # NoTrade
    /\ trade' = NoTrade
    /\ pressure' \in {pressure, PressureOf(trade)}
    /\ UNCHANGED <<rate, listed, dialogue, previews, shown, engine, left,
                   overtaken, torn>>

\* PRESSURE_TTL_SECONDS after the last trade, whatever is being recorded.
PressureExpires ==
    /\ pressure # NoPressure
    /\ pressure' = NoPressure
    /\ torn' = (trade # NoTrade /\ Foreign(trade))
    /\ UNCHANGED <<rate, listed, dialogue, previews, shown, trade, engine, left,
                   overtaken>>

------------------------------------------------------------------------------
(* The rate engine. Scores are in hundredths. *)

\* _read_pressure_signals
PressureSignal ==
    Clamp((100 * (pressure.bought - pressure.sold)) \div Max({pressure.bought + pressure.sold, 1}),
          -100, 100)
\* Bought abroad over bought at all: more than one only when the key was torn.
ForeignSignal == (100 * pressure.foreign) \div Max({pressure.bought, 1})

\* log10(trade_volume_24h + 1) / 6, at most one: of no volume, of a huge one.
TradeScores == {0, 100}

\* The members now and a week ago: fallen, unknown a week ago, risen.
MemberCounts == {<<0, 4>>, <<1, 0>>, <<4, 1>>}

\* Mutant: the growth is not clamped.
GrowthOfUnclamped(now, before) == IF before = 0 THEN 0 ELSE (100 * (now - before)) \div before

\* The growth of the members in seven days, between a half down and a half up.
GrowthOf(now, before) ==
    IF before = 0 THEN 0 ELSE Clamp((100 * (now - before)) \div before, -50, 50)

\* The weighted sum of calculate_rate_delta times rate_base_step (0.04), rounded
\* half up to what a rate is kept in.
NewRate(from, active, traded, growth) ==
    LET score == 30 * active + 25 * traded + 20 * growth + 15 * PressureSignal
                    + 10 * ForeignSignal
        step == from * 4 * Multiplier * score
    IN  Clamp(from + (step + 50000000) \div 100000000, RateMin, RateMax)

\* update_nation_rates selects the active nations, without a lock.
EngineReads ==
    /\ engine = Idle /\ listed
    /\ engine' = [phase |-> "read", rate |-> rate]
    /\ UNCHANGED <<rate, listed, pressure, dialogue, previews, shown, trade, left,
                   overtaken, torn>>

\* calculate_rate_delta and persist_rate_update: the update waits for the row,
\* and a column that keeps the value it was read with is not written.
EngineWrites(active, t, m) ==
    /\ engine # Idle /\ trade = NoTrade
    /\ LET new == NewRate(engine.rate, active, t, GrowthOf(m[1], m[2]))
       IN  rate' = IF new = engine.rate THEN rate ELSE new
    /\ engine' = Idle /\ overtaken' = FALSE
    /\ UNCHANGED <<listed, pressure, dialogue, previews, shown, trade, left,
                   torn>>

\* Another nation's turn fails, and the transaction of all with it.
EngineFails ==
    /\ engine # Idle
    /\ engine' = Idle /\ overtaken' = FALSE
    /\ UNCHANGED <<rate, listed, pressure, dialogue, previews, shown, trade, left,
                   torn>>

------------------------------------------------------------------------------
(* The administrator's reset, and the end of the nation. *)

\* reset_rates: one UPDATE, for listed nations.
ResetRates ==
    /\ listed /\ trade = NoTrade
    /\ rate' = AdminRate
    /\ overtaken' = (engine # Idle)
    /\ UNCHANGED <<listed, pressure, dialogue, previews, shown, trade, engine, left,
                   torn>>

\* The nation is dissolved or deactivated.
Delist ==
    /\ listed /\ trade = NoTrade
    /\ listed' = FALSE
    /\ UNCHANGED <<rate, pressure, dialogue, previews, shown, trade, engine, left,
                   overtaken, torn>>

------------------------------------------------------------------------------
MarketInit ==
    /\ rate = FirstRate /\ listed = TRUE
    /\ pressure = NoPressure
    /\ dialogue = [u \in Trader |-> "none"]
    /\ previews = <<>>
    /\ shown = [u \in Trader |-> {}]
    /\ trade = NoTrade
    /\ engine = Idle
    /\ left = [o \in Order |-> 0]
    /\ overtaken = FALSE /\ torn = FALSE

MarketNext ==
    \/ \E u \in Trader : MarketMain(u)
    \/ \E u \in Trader, s \in MarketStates \ {"none"} : ChooseCurrency(u, s)
    \/ \E u \in Trader, o \in Order : TypeAmount(u, o) \/ QuickAmount(u, o) \/ ConfirmTrade(u, o)
    \/ TradeCommits \/ TradeFails \/ PressureExpires
    \/ EngineReads \/ EngineFails
    \/ \E active \in {0, 100}, t \in TradeScores, m \in MemberCounts :
            EngineWrites(active, t, m)
    \/ ResetRates \/ Delist

MarketSpec == MarketInit /\ [][MarketNext]_marketVars

------------------------------------------------------------------------------
(* Properties *)

\* However often a confirm button is pressed, and in whichever of several messages:
\* no more trades than previews of the same trade, and each at a rate within one
\* percent of one that was previewed for it and not traded on before.
TradeUsesUpAPreview ==
    [][\A o \in Order : left'[o] < left[o] =>
            /\ left[o] > 0
            /\ \E p \in Range(previews) : p.of = o /\ Near(rate, p.rate)]_marketVars

\* The engine moves a rate by less than its step, four percent times the
\* multiplier, and down by a quarter of that at most; except that it writes over
\* an administrator's reset that came after its read, and that a pressure key
\* expiring between the two counts of a purchase makes the foreign part too big.
RateMovesByItsStep ==
    [][(rate' # rate /\ engine # Idle /\ engine' = Idle) =>
            \/ overtaken \/ torn
            \/ /\ (rate' - rate) * 10000 <= 4 * Multiplier * rate + 5000
               /\ (rate - rate') * 10000 <= Multiplier * rate + 5000]_marketVars

=============================================================================
