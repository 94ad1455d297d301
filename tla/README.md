# OPEX MONEY: a verification project

OPEX MONEY is an economic game played through a Telegram bot. Players register
as traders, become citizens of nations, trade the nations' currencies, found
nations of their own, vote on rules, and fight wars over exchange rates. A bot
(aiogram, long polling), a set of scheduled jobs and an admin panel (FastAPI)
share one PostgreSQL database and a Redis server.

This directory holds TLA+ models of the program, TLC configurations that check
them, and proofs checked by TLAPS. The models are translated from the source;
the line numbers are in `PROJECT.json` under `map`.

    tlc -workers 2 -config Membership_all.cfg MCMembership.tla
    tlc -workers 2 -config Nations.cfg MCNations.tla
    tlapm Citizenship_proofs.tla

## 1. Inventory

For every part: its state, its operations, whom it meets, what is hard about
it, and what makes it correct. The module that models it is in parentheses.

### Telegram membership engine (`Membership`)
`app/services/membership_service.py`, `app/handlers/membership.py`, the job in
`main.py`. State: `nation_telegram_members` (the projection of a group's
membership), `nation_members` (the game's citizenship, with a role),
`users.home_nation_id`, `users.role`, `currency_holdings`,
`nations.member_count`. Operations: handling a `chat_member` update,
synchronising a user who registers after having joined a group, the 15-minute
count job. Hard: updates are handled by concurrent tasks, can be sent again, and
are lost with the process or with a rolled-back transaction; the projection has
no version; the membership job asks Telegram outside its transaction, and the rate
engine (`economic_engine.persist_rate_update`) sets the same count from the
projection in the same minute. Correct when
citizenship is never half there, the home pointer mirrors the active membership,
citizens are in the group once the updates are handled, and the count becomes
right again.

An older service, `app/services/nation/membership_service.py`, with
`nation_invite_service.py`, also joins and leaves. Nothing calls it but
`consume_invite_link`, and nothing creates the token that would need; it is not
modelled.

### Nation management (`Membership`, `Offices`)
`app/handlers/nation_management_flow.py`. Joining a human nation after asking
Telegram, joining an AI nation, appointing, kicking (two transactions with a ban
and an unban between them), dissolving, the panel's screens, the founder's
settings, the announcement. Meets the engine on every table above, and itself:
the actor's role is read before the nation is locked, a screen's buttons outlive
the role they were drawn for, and a dialogue stays open while roles change.
Correct when the founder is never kicked, role limits hold, a kick liquidates,
nobody stays in a dissolved nation, and nothing is published for a nation by
somebody who has no office there when the text comes.

### The home nation: resolver, settings, support, admin, script (`Membership`)
`nation_service.get_user_active_nation_context` repairs citizenship whenever a
screen is opened, by four fallbacks (home pointer, membership, founded nation,
any wallet). `settings_service.change_home_nation`, support's `SYNC_HOME_NATION`,
`/api/profiles/{id}/home-nation` and `scripts/repair_home_nation.py` write the
pointer. Correct when none of them contradicts the engine.

### Onboarding and the settings (`Onboarding`, `Membership`)
`app/handlers/onboarding.py`, `settings.py`: a dialogue with a name, a `users`
row and the synchronisation with the known groups in a second transaction, the
choice of a nation, the first trade; later a rename in the settings. Hard: names
are unique by an index that tells cases apart and by checks that do not, presses
overlap, the dialogue expires, and several handlers stop at a name their module
does not import. Correct when names collide only where no check could see it, and
the first trade sells no more than the capital.

### Founding (`Founding`, `Membership`, `AdminPanel`)
`app/services/nation/founder_service.py`, `founder_flow.py`: a draft
(`nation_founding_drafts`) goes through steps, expires, is bound to a group by a
second chat (the group's) in three transactions, and becomes a nation; the panel
may finalize or cancel it. Correct when a group is the capital of one nation or
in one draft, and the founder's dialogue asks for what the draft lacks.

### Market (`Market`, `Wallets`, `Locks`)
`world_action_service.execute_trade_action`, `user_service.sync_user_balance`,
`market/*`, `economic_engine.py`. State: `users.xr_balance`, `users.balance` (a
copy of the home wallet), `currency_holdings`, `exchange_rate`, the pressure
window in Redis. Operations: preview, confirm, the trade's transaction, the rate
engine, the administrator's reset. Correct when every confirmation uses up a
preview at a rate near it, and the engine moves a rate by its step.

### Money under concurrent transactions (`Wallets`, `Treasury`)
`treasury_service.py`, `war_service.py`, `mission_service.claim_reward`,
`nation_management_flow.kick_member`, the panel's bonus and adjustments. Every
operation locks rows in its own order and writes back values it may have read
before the lock. `nations.treasury` and `users.balance` are second copies.
Correct when money is not made in treasuries, a war pays once, and cash, mirror
and copy differ from their sources, beyond rounding, only in the ways named below.

### Treasury and war screens (`Treasury`)
`app/handlers/treasury.py`: a deposit, a withdrawal in three steps, the list of
targets. Correct when what is typed and confirmed late, twice or by a former
founder takes nothing.

### Governance and rules (`Governance`, `Proposing`)
`governance_service.py`, `rules/resolver.py`, `handlers/governance.py`:
proposals, votes, quorum, the cycle that closes, activates, revokes, suspends
after a jump of wealth and resumes, and a 30-second cache. Correct when every
vote recorded counts, one law per rule is active, the limit is exceeded only
after a resumption, and the cache is stale only where a read overlapped a change.

### Price alerts (`Alerts`)
`alert_service.py`: messages are sent before the transaction that marks the
alerts commits, and one that was delivered may count as failed. Correct when a player
hears once, and again only for a mark that was lost or an answer that was.

### Missions and academy (`Missions`, `Academy`)
`mission_service.py`, `academy_service.py` and their handlers: a reward is paid
once for a completion, although the list resets windows without a lock; a lesson
is done only after its questions were answered, although the dialogue's data is
read and written back around a transaction.

### AI world and world events (`World`, `Locks`)
`ai_world.py`, `world_events.py`, `schedulers/ai_world.py`, `run_world_event_job`:
robots that trade in one transaction per cycle, events that are committed, told, and
marked. (Seeding exists and nothing calls it.) Hard: the message may be delivered
although its call fails, and the process may end between the three. Correct when an event
is made once and told at most once.

### Scheduler control and the admin panel (`Scheduler`, `AdminPanel`)
`schedulers/admin_control.py`: jobs are paused, resumed and run through a Redis
list, and every job event writes the panel's state in its own task.
`admin/routers/*.py`: rows, notes in a ledger, a players' list kept in Redis.
Correct when what the panel shows is so.

### Agents that change the repository (`Repairs`)
`owner_ai_service.py`, `support/code_repair.py`: read files, make a branch, write
whole files, wait for CI, merge. Correct when nothing is lost from main that the
run had read.

### Companion (`Companion`)
`src/ai`: the analysis written for a group after an event; context, cache,
models in turn. Correct when a reply was written for the context it answers.

How the parts meet: everything goes through PostgreSQL rows under `FOR UPDATE` locks at
READ COMMITTED, in different orders, and through what is kept in Redis: the dialogues, the
pressure window, caches, commands. No part calls another through messages, except
Telegram's updates and the scheduler's commands. So the interesting interleavings are of
transactions, of the Telegram calls between them, and of what a handler has read, or a
chat shows, before its lock. Where two parts write one row the rows are in one module:
citizenship in `Membership`, money in `Wallets`, the rate in `Market`, the row locks of
the transactions it lists in `Locks`. Where a part only reads what another one decides (a
role, a nation's being, whether a balance suffices), the reading module lets it change at
any moment in any way the other part can change it (`OfficerChanges`, `Delist`,
`StandingChanges`, `PriceMoves`).

## 2. The modules

| module | what it is |
|---|---|
| `Citizenship` | abstract specification: what the rest of the game may rely on about `users.home_nation_id` and a nation's life |
| `Membership` | engine, registration, joining, management, resolver, pointers, the jobs that set the count, crashes; properties and fairness |
| `Wallets` | every transaction that moves money, with its locks and early reads |
| `Game` | players, and the bound on counters, for the modules below |
| `Market` | previews, trades, pressure, the rate engine |
| `Treasury` | the treasury's and the war's dialogues |
| `Governance`, `Proposing` | laws and the cycle; the dialogue that proposes one |
| `Founding` | a draft's life |
| `Offices` | the management panel and the announcement |
| `Onboarding` | a newcomer's dialogue, and the rename |
| `Alerts`, `Missions`, `Academy` | price alerts; one repeating mission; lessons and the mentor |
| `World` | world events |
| `Locks` | the order in which transactions of several parts lock rows, and PostgreSQL's deadlock detection |
| `Scheduler`, `AdminPanel` | one job under the panel's control; what the panel notes and keeps |
| `Repairs`, `Companion` | the agents that change the repository; a reply of the language model |
| `MCMembership`, `MCEconomy`, `MCNations`, `MCServices` | instances for TLC |
| `Membership_proofs` | type correctness of `Membership` |
| `Citizenship_proofs` | its inductive invariants and what follows from them: whole rows, the founder, the group behind a citizenship, kicks, dissolutions, role limits |
| `Refinement_proofs` | the mirror of the home pointer, and the refinement of `Citizenship` |
| `Wallets_proofs` | the ledger under row locks: books, mirror, copy, wars, the sum of the treasuries |
| `Nations_proofs` | the parts of `MCNations` but governance: founding, world, proposals, announcements, treasury, row locks |
| `Governance_proofs` | laws, votes, the cycle, the cache |
| `Services_proofs` | the nine parts of `MCServices` |
| `Inductions` | induction over data, for the proofs above |

### Membership: state and actions

One action is one transaction or one call of the Telegram API. Transactions of
the code lock the nation's or the user's row before they write, so that what they
write is atomic. Two things are not, and are kept in variables:

* `op[u]` is the handler that u's last button press or message runs, between two
  of its transactions, and what it remembers from the first. That is where
  `_require_admin` (the actor's role, read before the nation is locked), the ban
  and the unban of a kick, the answer of `get_chat_member`, and the memberships
  read at registration are stale. A user runs one such handler at a time in the
  model; different users' handlers, and any chat_member update, interleave.
* `counted[n]` holds the totals of n that a job has found and not yet written: the
  membership job's, Telegram's number with the bot in it, and the rate engine's,
  the number of active projection rows. APScheduler runs one instance of each
  (`max_instances=1`). The rate engine loads the count and counts the rows in one
  step here, and a total equal to the loaded count is not written, as SQLAlchemy
  does.

`Free(u)` stands for the one row lock that spans two steps, the registration's
lock on the user. `inflight` holds the chat_member updates on their way, stamped
by `clock`. With `Ordered` the updates of one user in one group are handled in
Telegram's order; without it, in any order, which concurrent handler tasks allow.
An update may be handled again (`redeliver`), be rolled back and lost
(`DropChatMember`), and be lost with the process (`Restart`).

| code | actions |
|---|---|
| `sync_telegram_membership` from the chat_member router | `HandleChatMember`, `DropChatMember` |
| `accept_valid_name`, `sync_registered_user_memberships` | `RegisterUser`, `SyncRead`, `SyncWrite` |
| `confirm_nation` of onboarding, the founding flow | `RegisterWithoutSync` |
| `_join_user` | `JoinLookup`, `JoinCommit`, `JoinAI` |
| `kick_member` | `KickRead`, `KickCheck`, `TelegramBan`, `TelegramUnban`, `KickCommit` |
| `_set_member_role` | `RoleRead`, `RoleCommit` |
| `confirm_dissolve` | `DissolveRead`, `DissolveCommit` |
| `create_nation` | `CreateNation` |
| `get_user_active_nation_context(repair=True)` | `RepairMembership`, `PointHome` |
| settings, support, admin panel, repair script | `ChangeHome`, `PointHome`, `AdminSetHome`, `RepairScript` |
| `execute_trade_action` | `BuyCurrency`, `SellCurrency` |
| `reconcile_human_nation_member_counts` | `ReconcileRead`, `ReconcileWrite` |
| `update_nation_rates`, `persist_rate_update` (the count) | `RateRead`, `RateWrite` |
| users and Telegram | `TelegramChange`, and `Post` inside ban and unban |

Data that the properties do not tell apart is abstracted: a wallet is absent,
empty or funded; Telegram's statuses are member (also restricted members,
administrators and the creator), left and kicked; names, money, logs and messages
are left out. AI nations have no founder and no minister, so management only
concerns human nations.

`Features` switches handlers on. A run with fewer of them is a smaller instance
and also says under which handlers a property holds; the theorems quantify over
every set of features.

### Citizenship: the abstract specification

A nation is absent, active or dissolved, and each user is a citizen of one
nation or of none. Only a user without a nation becomes a citizen, of a nation
that exists, or founds one; nobody moves without leaving first. A dissolution
releases everybody at once, and a dissolved nation never comes back. That nobody
becomes a citizen of a dissolved nation is not promised: the registration can do
it (see below). `Membership` implements it with `citizenOf <- home`
and `state <- nationState`.

### Wallets: transactions with their early reads

`tx[s]` is the transaction a session has open: its kind, how many rows of its plan
(`Plan`) it holds, and the values it has read. A row is waited for while another
session holds it (`Acquire`), and `Commit` writes the absolute values, each rounded to
what its column keeps (`Rounded`; `Pay`, `SetWallet`, `SetVault`, `SyncBalance`). SQLAlchemy
keeps the first object of a row in the session and does not refresh it when the row
is locked later; relationships are `lazy="selectin"`, so locking a membership or a
progress row reads the user. `UserReadAt` says with which lock a user is first
read. `StillActive` looks at the war's status as it was read before the locks.
`booked` adds up what `transactions`, `treasury_logs` and the audit say; it is the
ghost the cash is compared with. Operations: `Buy`, `Sell`, `Deposit`, `Withdraw`,
`Claim`, `Kick`, `Adjust`, `Declare`, `Resolve`; outside transactions, the bonus of
the panel, a new rate, and the panel's end of a war.

### The dialogues

A player's dialogue is a state in Redis and the buttons the chat still shows. A
button can be pressed long after, twice, or while another handler of the same
player is between two of its steps. Where a handler reads the dialogue, opens a
transaction, and writes the dialogue back, these are different actions
(`PressConfirm` and `GovernanceConfirm`, `Press` and `HandleAnswer`,
`PressFirstTrade` and `ConfirmFirstTrade`, `TextComes`, `Posts` and `Confirms`). In
`Founding` every handler is three: `Arrives` looks at the dialogue's state, the named action
is the transaction, and `Asks` sets the dialogue's next state after the commit, so that
other handlers of the founder, or the end of the process, come in between.
History variables (declared as such) remember what no row keeps: what a player was
asked, which votes, names or prices were seen when.

| code | actions |
|---|---|
| `market.py`, `trade_service`, `execute_trade_action` | `MarketMain`, `ChooseCurrency`, `TypeAmount`, `QuickAmount`, `ConfirmTrade`, `TradeCommits`, `TradeFails` |
| `economic_engine.update_nation_rates`, the panel's reset | `EngineReads`, `EngineWrites`, `EngineFails`, `ResetRates` |
| `treasury.py` and its services | `RenderTreasury` .. `ExecuteWarDeclaration` |
| `governance_service` | `CreateProposal`, `CastVote`, `CycleRuns`, `CycleCommits`, `RevokeOverride`, `RevokeCommits`; `ResolveReads`, `ResolveKeeps` for `rules/resolver.py` |
| `governance.py` | `GovernanceNew` .. `GovernanceCancel` |
| `founder_flow.py`, `founder_service.py` | `Arrives`, then one of `FounderHasGroup` .. `ConfirmFounder`, then `Asks` or `HandlerEnds`; the group's binding `BindLooks`, `BindWrites`; `StartFounder`, `DraftExpires` |
| `alert_service.py`, `alert_checker.py` | `AlertCreate` .. `DeletePriceAlert`; `CheckStarts`, `CheckNext`, `CheckCommits`, `CheckLost` |
| `mission_service.py`, `actions.send_mission_reward` | `ShowReads`, `ShowWrites`, `IncrementMission`, `ClaimSelects`, `ClaimPays`, `PanelRewards` |
| `academy.py`, `academy_service.py` | `ShowModule`, `ShowLesson`, `StartQuiz`, `Press`, `QuizNext`, `HandleAnswer`, `FinishQuiz`, the mentor's four |
| `onboarding.py`, `settings.py` | `Start` .. `ConfirmFirstTrade`, `RenameChecks`, `RenameWrites` |
| `nation_management_flow.py` (panel) | `Opens`, `OpensSettings`, `AsksToDissolve`, `ConfirmsDissolution`, `SetsCharter`, `StartsAnnouncement`, `TextComes`, `Posts`, `Confirms`, `GroupCommand` |
| `world_events.py`, `run_world_event_job` | `JobMakesEvent`, `JobPosts`, `JobMarks`, `JobEnds`, `AdminMakesEvent` |
| `admin_control.py` | `ProcessStarts`, `Seed`, `LoopTakes`, `LoopExecutes`, `LoopDies`, `JobEvent`, `WriteDone`, `WriteFails` |
| `admin/routers/*` | `LooksAt`, `BanWrites`, `UnbanWrites`, `EndWarWrites`, `WarRead`, `WarResolves`, `Flushes`, `FinalizeMakes`, `FinalizeNotes`, `Toggles`, `SetsByForm`, `ProfileSet`, `ListReads`, `ListKeeps` |
| `owner_ai_service.py`, `code_repair.py` | `OwnerStarts` .. `OwnerGoesOn`, `SupportStarts` .. `SupportTriesAgain`, `CiRuns`, `Merges`, `GivesUp` |
| `AICompanion.reply` | `Asks`, `LooksUp`, `ModelFails`, `ModelAnswers`, `Keeps`, `Remembers` |

## 3. The runs

| run | bounds | shows |
|---|---|---|
| `Membership_all` | 2 users, 2 human nations (one to be founded), 1 AI nation, 2 changes, updates unordered, restarts | `TypeOK`; `HomeMirrorsMembership`; `NoPartialCitizenship`; `FounderRole`; `OneNationPerFounder`; `ImplementsCitizenship` |
| `Membership_engine` | 2 users, 1 group, 3 changes, ordered, redelivery, kicks, both jobs, fairness | `HumanCitizenBacked`; `KickLiquidates`; `CountSettles` |
| `Membership_manage` | 3 citizens, 1 group, limits of 1, kicks and appointments | `KickSparesFounder`; `LimitsBrokenOnlyByReturn` |
| `Membership_accounts` | 3 users, 1 group, dissolution with joins, trades and every writer of the pointer | `NoCitizenOfDissolved` |
| `Membership_kicked` | violation | `KickEventIdempotent` does not hold |
| `Membership_resolver` | violation | `HumanCitizenBacked` does not hold with the resolver |
| `Membership_rates` | violation | `CountConverges` does not hold with the rate engine |
| `Membership_dropped` | violation | `UpdatePersisted` does not hold next to AI citizenship |
| `Economy` | 3 players, 2 nations, 2 transactions at a time of 12 kinds, 3 operations, 2 wars | `OneWarPerPair`; `OneReparationPerWar`; `BooksOffOnlyByOvertaken`; `MirrorOffOnlyByOvertaken`; `CopyOffOnlyByResolution`; `VaultMoneyHasSource` |
| `Economy_lost` | violation | `CashMatchesBooks` does not hold when cash is read with another row |
| `Nations` | 7 parts, one at a time: treasury, governance, proposing, founding, locks, offices, world | `PowersOfTheMoment`; `EveryVoteCounts`; `LawsWithinLimit`; `ReplacedReturnsOnlyByJump`; `StaleRuleOnlyByEarlyRead`; `TypedByTheEligible`; `CapitalsClaimedOnce`; `DialogueFitsDraft`; `KnownDeadlocksOnly`; `EventsToldOnce` |
| `Services` | 9 parts, one at a time: market, alerts, missions, onboarding, academy, scheduler, repairs, panel, companion | `RateMovesByItsStep`; `TradeUsesUpAPreview`; `OneMessagePerKeptMark`; `RewardsAreEarned`; `NamesCollideOnlyUnchecked`; `FirstTradesWithinCapital`; `LessonsAreLearned`; `PanelShowsPausedTruly`; `PanelTellsTruly`; `LostOnlyUnread`; `AnswersFitTheirContext` |

Why the bounds are enough. Two users are an actor and a target, or two users who
compete for one row; a third matters only where roles are counted or a minister
acts on a citizen while the founder acts too, and there are three. Two human
nations let a user move, be known in two groups, and have a pointer to fall back
on. `MaxChanges` bounds changes inside Telegram, kicks and restarts together: two
make a join and a leave, or a kick with its ban and unban (`Post` in a kick is
not counted, so a kick that was admitted always runs to its end); three allow a
rejoin. Role limits are 1, where the code has small constants: a limit of one is
reached by one appointment and broken by two at once. `MCFewUnderway` lets at
most two handlers be under way in `Membership_manage`: each pair of them
interleaves. `MCSettledSpec` starts with everybody a citizen. `MCSymmetry`
permutes u2 and u3, never the founder u1; it is used without liveness only.

`CHECK_DEADLOCK FALSE`: users owe nothing, and after `MaxChanges` (or the bound of
a part) the model may come to rest.

### The bounds of the other runs

In `Economy` two sessions are two overlapping transactions, the least in which a
read before a lock can be overtaken; three operations let one be committed
between the read and the write of another and a third one show the damage. Three
players are the two founders of two nations, which can be at war, and a citizen
who trades, pays in and is kicked. Rates are 1 and 2: a rise and a fall. Money is
counted in parts: `Fine`, the last of four places, is 2 of them and `Coarse`, the last of
two, is 4, so that every amount a column can be given has amounts on both sides of it that
the column cannot keep. The program has 100 of the one in the other; what matters is that
one is coarser, and the proofs take any two. The stake of 21 is a whole number of neither,
a player with 24 can pay it once, and a treasury of 196, which a deposit brings to 218 in
the wallet, pays a reparation that is rounded and is then back at what a copy said before.
`MaxWars` is 2, a war and one after it. The sessions are interchangeable (`MCSessions`).
`Economy_lost` is the same instance with trades and withdrawals only.

`Nations` and `Services` each hold parts that share no state. A behaviour picks a
part at the start and stays in it (`StaysIn`), so that what is checked is each part's own
specification, and the state space is a sum and not a product. Their bounds:

* dialogues: two entries, motions or texts, so that one can be typed over another;
  three presses, so that a button is pressed after the dialogue has ended and begun
  again; two players where one takes the office or the row of the other;
* `Onboarding`: two players, and in turn: two presses of each button, a rename in the
  settings (both with two names that differ in case only), and three names;
* `Governance`: one voter of weight 2 with a quorum of 2, or nobody, decides every vote;
  one caller of `resolve` whose query overlaps what changes; two rules and a limit of one
  law, so that an activation meets the limit and a resumption breaks it; `MaxMotions` 2, a
  law and the one that replaces it;
* `Founding`: two handlers at a time, and in turn: both of one founder, in every
  order; and one each of two founders for one chat and one code, overlapping where a
  chat is bound or a code is given;
* `Locks`: three transactions, the longest circle that a pair of rows and a job that
  locks in ascending order could close; two nations, a player and a robot, one rule in
  force and one proposal that is voted on;
* `World`: `Rearm` is above `Duration`, as in the code (an event ends before the next
  one is due);
* `Market`: rates in hundredths (in ten-thousandths in the program) and a multiplier of
  1; `RateMin` 99 is one per cent below the start, where the rate is clamped, and
  `RateMax` leaves room for a fall and then a rise that is not clamped; `MaxVolume` is
  two trades of the one amount that are counted in the window;
* `Scheduler`: two writes under way next to the command loop;
* `Repairs`: one request to Owner AI, one to the support agent, and people who push
  to main or to a branch at any moment; two attempts;
* `AdminPanel`: two requests, one subject of each kind, one draft;
* `Companion`: two calls and two models, one asker, one prompt and one text, one change of
  the asker's state, which is the only part of the context that varies in the run.

The bounds are what fits the five minutes of a run. While they were chosen most parts
were also searched alone with some larger ones (three motions, three entries, two
robots, three requests, four transactions, two askers, another attempt, loss or text);
a property that failed there was corrected to what the code does.

A part's `Max...` constant that is reached shuts only the action it is named for;
nothing of what has begun is cut off.

### Which handlers a property is checked without, and why

Most of these are limits of what the code guarantees, not of the tool.

* `HumanCitizenBacked` needs updates in order and no restart (the engine compares
  no timestamps), and none of: the resolver (finding 2), joining through the bot
  (`_join_user` writes what Telegram said before the transaction), founding (the
  founder is recorded without asking Telegram). What is left is the engine itself
  with registration, redelivery, and kicks that fail halfway. The run has no AI
  nation; the proof (section 4) shows that the update which one makes the engine
  lose (finding 3) does no harm here.
* `KickLiquidates` needs updates in order and no resolver.
* `NoCitizenOfDissolved` is checked without registration, which reads the live nations and
  locks the user, not the nations, so a dissolution can slip in between and leave an
  active row in a dissolved nation.
* `LimitsBrokenOnlyByReturn` has the exception in its statement: a minister who
  leaves and comes back brings the role back and can exceed the limit.
* `HomeMirrorsMembership` holds for all handlers but the admin panel's override,
  which writes the pointer and nothing else. `Membership_accounts` checks what
  still holds with it.

### Findings

1. `Membership_kicked`. `kick_member` ends the membership and takes one off
   `member_count`, but does not touch the projection; the chat_member update of
   its own ban is then taken for a transition and takes one off again, although a
   comment there calls the event idempotent. The jobs repair the count later, which
   is `CountSettles`.
2. `Membership_resolver`. The resolver makes a citizen again of a user who left
   the group, although `docs/REBUILD_PHASE_2_MEMBERSHIP_ENGINE.md` says that the
   repair is blocked without an active projection. Two of its fallbacks do it, and
   `_repair_membership`, which both call, looks at no projection: the one to the
   nation the user founded (`nation_service.py:184-203`), which is the one in TLC's
   shortest run (the founder leaves, the update is handled, a screen is opened), and
   the one to any nation the user has a wallet row of (lines 210-230).
3. `Membership_dropped`. Projection and citizenship share a transaction: when the
   unique index refuses the citizenship (the user is a citizen elsewhere), the
   projection is rolled back too and the update is lost, although
   `docs/REBUILD_PHASE_1_MEMBERSHIP_DOMAIN.md` persists the projection first.
4. `Membership_rates`. Two jobs of the same minute set `member_count` of a human
   nation to two totals: Telegram's, which has the bot in it, and the number of
   projection rows, which does not, nor anybody whose update was lost or who was
   in the group before the bot. The count alternates for ever, although
   `docs/REBUILD_PHASE_2_MEMBERSHIP_ENGINE.md` has it refreshed from Telegram.
5. `Economy_lost`. `withdraw_from_treasury` selects the membership, whose `user`
   relationship is loaded with it, and only then the user `FOR UPDATE`; the session
   does not refresh the object, and the cash is written as an absolute value. A trade
   that commits in between loses its cash and keeps its journal row
   (`mission_service.claim_reward` and `kick_member` do the same), although
   `world_action_service.py` promises that a successful trade updates cash,
   holding and history together. `BooksOffOnlyByOvertaken` says that this is the only
   way in which one step takes cash and books apart by 0.01 or more.

### What the properties say of known weak spots

Several properties state an exception exactly instead of being checked without it;
each exception can happen, and anything else would be an error:

* `BooksOffOnlyByOvertaken`, `CopyOffOnlyByResolution`, `MirrorOffOnlyByOvertaken` speak of
  columns with different scales: `users.xr_balance`, `users.balance` and
  `nations.treasury` have two places, journals, wallets and treasuries four. Every step
  may take them apart by less than 0.01, and many small steps by more in all
  (`CashMatchesBooks` allows 0.01 for each operation). The properties say which step
  takes them further apart at once.
* `CopyOffOnlyByResolution`: `nations.treasury` parts from the treasury's balance only
  where a war's resolution sees nothing to write because its result is what it read
  before its locks.
* `MirrorOffOnlyByOvertaken`: `users.balance` comes to show money that no wallet has only
  by a kick that was overtaken, or a reward whose player was kicked after it had read the
  home nation.
* `VaultMoneyHasSource`: what leaves a treasury enters a player's journal to the 0.01 in
  which an amount may be rounded.
* `LawsWithinLimit`: the number of laws grows beyond `max_active_rules` only in a cycle
  in which a suspended law came back.
* `ReplacedReturnsOnlyByJump`: a law that was replaced while it was suspended comes back
  only when the replacing one was itself suspended or is over.
* `StaleRuleOnlyByEarlyRead`: the cache is emptied before the commit, and `resolve` awaits
  its query between the miss and the store: an answer selected before the commit may
  be kept after it. The history `early` has the rules for which that happened.
* `NamesCollideOnlyUnchecked`: names that differ in case.
* `OneMessagePerKeptMark`: an alert is sent again when a message was delivered and its
  call failed all the same, or when the transaction that would have marked it was lost.
* `PanelTellsTruly`: a war's resolution that read the war as active writes over the end
  that the panel gave it meanwhile, and the ledger keeps the panel's word.
* `DialogueFitsDraft`: the draft is written in a transaction and the dialogue after it, so
  another handler of the founder may have changed the draft since, or it has expired.
* `RateMovesByItsStep`: a reset that comes between the engine's read and its write is
  written over. The property excepts such a run; nothing catches it.
* `LostOnlyUnread`: Owner AI commits whole files it read before it made its branch; and
  either agent may be shown a long file cut, or write one it was not shown
  (`code_repair.py:436-440`, `owner_ai_service.py:253`).
* `KnownDeadlocksOnly`: the circles of transactions that can wait for one another: one
  with the rate engine or the AI cycle, which lock nations in no fixed order; two
  lessons of one player; a transaction that locks a player before a nation (a
  trade, a join) with one that locks a nation before a player (a duty, a dissolution, a
  declaration of war, whose log refers to the player); and the governance cycle, which locks
  proposals before rules and the proposers of what it activates, with a revocation,
  which locks the rule first, or a dissolution. Only the row locks of the listed
  transactions are in it (`Locks` says which are left out).

### Fairness

`FairSpec` asks weak fairness of three things the deployment provides: the
dispatcher handles the updates it has fetched (`ChatMemberStep`), a handler that
has started goes on to its end (`HandlerStep(u)`; none of its steps waits for
another user for ever), and the scheduler runs the membership job again and again
(`ReconcileRead`, `ReconcileWrite`). Nothing is asked of users, administrators,
Telegram, or the rate engine. `CountSettles` then says `<>[]`: when the bounded
changes are over, the count becomes and stays one of the two totals, whether the
rate engine goes on running, stops, or stops with a stale total in hand.

The other modules state no fairness. What must happen in them is asked as safety:
what a restart, a lost transaction or a dead loop leaves behind is the state that a
property speaks about. No one retries a lost announcement or a dead command loop in
the code, so there is nothing that a fair scheduler would bring about.

### Mutants

Every property of every passing run has a mutant in `PROJECT.json`: a plausible
bug in a modelled definition (the index missing, `FOR UPDATE` left out, `max(0,
...)` left out, `>` for `>=`, the founder forgotten by the dissolution, ...) with
which the same run finds the property violated. They stand beside the
definitions they change, each under a comment that begins with "Mutant".

## 4. The proofs

The theorems about `Membership` hold for every finite set of users, all disjoint sets
of nations, all limits and all features, under its three assumptions:
`SortsAssumption` (finite users, human and AI nations disjoint, the two NULLs
are not values), `FoundersAssumption` (the nations at the start have different
founders) and `BoundsAssumption`. Those about the other modules hold for all sets
of players, nations, sessions, motions, names and texts and for all bounds, under one named
assumption in each module, which TLC evaluates in the runs:

* sorts: the values that stand for nothing (`NoPlayer`, `NoChat`, `NoCode`, `NoRule`,
  `NoName`, `NoText`, ...) are not among the real ones; what the code numbers is a number
  (ids in `Locks`, `Governance`, `Academy`, `Alerts`; amounts and prices);
* finiteness, where something is counted, summed or sorted: players and nations
  (`WalletsAssumption`, `LocksAssumption`, `TreasuryAssumption`), motions
  (`GovernanceAssumption`);
* the start: every founder lives in the own nation and rates are positive
  (`WalletsAssumption`), the first rate is within the clamp (`MarketAssumption`), which is what
  seeding and the founding write;
* constants of the code: a limit of laws and a quorum of at least one
  (`GovernanceAssumption`), an event shorter than the time to the next
  (`WorldAssumption`), lessons with at least one question (`AcademyAssumption`).

| theorem | says |
|---|---|
| `TypeCorrect` | `Spec => []TypeOK`, with `member_count` a natural number |
| `NeverPartial` | `Spec => []NoPartialCitizenship` |
| `FounderRoleAgrees` | `Spec => []FounderRole` |
| `FoundsOnce` | `Spec => []OneNationPerFounder` |
| `FounderNeverKicked` | `Spec => []KickSparesFounder` |
| `MirrorKept` | without the admin override, `Spec => []HomeMirrorsMembership` |
| `Implementation` | without the admin override, `Spec => ImplementsCitizenship` |
| `CitizensAreInTheGroup` | with updates in order and without joining through the bot, founding, restarts, the resolver: `Spec => []HumanCitizenBacked` |
| `KicksLiquidate` | with updates in order and without the resolver: `Spec => KickLiquidates` |
| `DissolvedIsEmpty` | without registration: `Spec => []NoCitizenOfDissolved` |
| `AppointmentsKeepLimits` | `Spec => LimitsBrokenOnlyByReturn` |
| `BooksKept` | `WalletsSpec => BooksOffOnlyByOvertaken` |
| `MirrorHonest` | `WalletsSpec => MirrorOffOnlyByOvertaken` |
| `CopyKept` | `WalletsSpec => CopyOffOnlyByResolution` |
| `OneWar` | `WalletsSpec => []OneWarPerPair` |
| `PaidOnce` | `WalletsSpec => []OneReparationPerWar` |
| `VaultMoneyIsBooked` | `WalletsSpec => VaultMoneyHasSource` |
| `PowersAreOfTheMoment` | `TreasurySpec => PowersOfTheMoment` |
| `CapitalsAreClaimedOnce` | `FoundingSpec => []CapitalsClaimedOnce` |
| `DialogueFitsTheDraft` | `FoundingSpec => []DialogueFitsDraft` |
| `TypedByTheEligibleOnly` | `ProposingSpec /\ OfficesSpec => []TypedByTheEligible` |
| `EventsAreToldOnce` | `WorldSpec => []EventsToldOnce` |
| `DeadlocksAreKnown` | `LocksSpec => []KnownDeadlocksOnly` |
| `EveryVoteIsCounted` | `GovernanceSpec => []EveryVoteCounts` |
| `LawsStayWithinTheLimit` | `GovernanceSpec => LawsWithinLimit` |
| `ReplacedLawsStayOut` | `GovernanceSpec => []ReplacedReturnsOnlyByJump` |
| `StaleRulesWereReadEarly` | `GovernanceSpec => []StaleRuleOnlyByEarlyRead` |
| `TradesUseUpPreviews` | `MarketSpec => TradeUsesUpAPreview` |
| `RatesMoveByTheirStep` | `MarketSpec => RateMovesByItsStep` |
| `AlertsAreToldOnce` | `AlertsSpec => []OneMessagePerKeptMark` |
| `RewardsAreEarnedAlways` | `MissionsSpec => []RewardsAreEarned` |
| `LessonsAreLearnedAlways` | `AcademySpec => []LessonsAreLearned` |
| `PanelKnowsTheJob` | `SchedulerSpec => []PanelShowsPausedTruly` |
| `AdminsAreToldTruly` | `AdminSpec => []PanelTellsTruly` |
| `OnlyUnreadIsLost` | `RepairsSpec => LostOnlyUnread` |
| `NamesRarelyCollide` | `OnboardingSpec => []NamesCollideOnlyUnchecked` |
| `CapitalKept` | `OnboardingSpec => []FirstTradesWithinCapital` |
| `RepliesFit` | `CompanionSpec => []AnswersFitTheirContext` |

The inductive invariant of `Membership` is `CitizenshipInv == TypeOK /\ RowsInv /\ HandlersInv`.
The properties alone are not inductive:

* `NoPartialCitizenship` and `FounderRole` need `FounderStanding`: the resolver
  makes a founder a citizen without looking at the wallet, so the founder of a
  nation must be known to be registered and to have one; the founder's role is
  written from `nations.founder_user_id`, so the founder must belong to a nation
  that exists, and `CreateNation` must find an absent nation without a founder.
* They need `KnownToHandlers`: a registration under way enrols its user in the
  nations it read, which exist and stay existent, and a kick commits in one.
* `KickSparesFounder` needs `FounderRole`: the check looks at the member's role,
  the property at `nations.founder_user_id`; and it needs `KnownToHandlers`,
  because only the founding of a nation changes its founder, and a nation that is
  being kicked from cannot be founded any more.
* `OneNationPerFounder` is inductive by the search in `create_nation`, and not by
  `users.role`, which the engine resets when a founder leaves (its mutant).

`RowsStep` and `HandlersStep` have one step for each action, and under it the
conjuncts the action can disturb. `MirrorStep` adds `HomeMirrorsMembership` on top
of `CitizenshipInv`. `Implementation` maps each action to a step of `Citizenship`
or to a stutter, using the mirror: a dissolution clears the pointers of the rows
it ends, and the mirror says that those are all the pointers to the nation.

### Membership: the group, kicks, dissolution and role limits

`CitizensAreInTheGroup` needs the whole queue of updates. Its invariant `GroupInv` says:
`clock` numbers the updates uniquely (`StampsInv`); whoever is a citizen of a group's
nation, or about to be enrolled by a registration, is recorded as a member in the
projection (`RecordedInv`); and of the updates on their way to one user in one group the
last one says where the user is, while, when none is left, whoever is recorded is in the
group (`ToldInv`). The property alone is not inductive: a citizen whose update is
pending need not be in the group, and what makes the next step right is which
update is the last. The lemmas `WhoRecords`, `WhoTells`, `WhoAdmits`, `WhoReleases`,
`WhoFoundsAndDissolves`, `WhoAppoints` say once for all actions which of them change
what; the proofs of the four properties cite them instead of repeating the cases.
`GroupInv` was an invariant of the run `Membership_engine` before it was proved.

`KicksLiquidate` uses the first two parts: a membership that ends while the group removes
its user ends by the kick, which has liquidated, or by an update, and an update that
is not the removal's own is older (`StampsInv` and order), which the property excuses.
`DissolvedIsEmpty` rests on `NobodyRegisters`: every other way to become a citizen
looks at the nation's state under its lock. `AppointmentsKeepLimits` is an action
property that compares the cardinalities of `Holders` before and after: only an
appointment adds a holder who was active before, and it counts the holders under the
nation's lock.

| theorem | handlers it leaves out | why |
|---|---|---|
| `CitizensAreInTheGroup` | updates out of order, `join`, `found`, `restart`, `resolve` | an old join handled after a leave makes a citizen; `_join_user` writes what Telegram said before the transaction, and the founding records the founder without asking; a restart loses updates; the resolver is finding 2 |
| `KicksLiquidate` | updates out of order, `resolve` | a citizen whom the projection has as gone, made by the resolver or by an older update, is ended by the removal's update, which is no transition for the engine and leaves the wallet |
| `DissolvedIsEmpty` | `register` | the registration reads the nations before it enrolls, without their locks |
| `MirrorKept`, `Implementation` | `admin_home` | the override writes the pointer and nothing else |

None of the exclusions is for the proof's convenience: with any one of them put back, TLC
finds the property violated (in the instance of `Membership_engine`, for the registration
with a dissolution added, for the founding with a second nation to found, for the pointer
in that of `Membership_all`). Everything
that is not named is in, AI nations, redeliveries and both jobs included.

### Wallets

The invariant of `Wallets` is `WalletsInv`. What makes it inductive:

* `RowsExclusive`: no row is held by two sessions. It follows from `Acquire` alone,
  whatever the plans are, since a plan depends only on what a transaction was asked
  for (`SamePlan`).
* `SessionsOK`, what a transaction knows from which lock on: a trade and a deposit know
  the player's row as it is (`Fresh`), a kick with the nation's lock knows whether the
  player still is a citizen (`KickKnowsHome`), a declaration with both locks whether
  there is a war (`PeaceKnown`), a resolution that the war it read as active has paid
  nothing (`WarUnpaid`, which needs `OneResolver`). A withdrawal, a reward and a kick
  have no such knowledge of the cash, and these are the exceptions the properties name.
* `FoundersAtHome`: founders are never kicked, so a withdrawal, which reads the user
  early, nevertheless knows the home nation.

`OtherKept` says when a step of one session leaves the knowledge of another intact, and
`DataStep` lifts it to the invariant; `PlayerMoves` collects what the commit of a
player's operation does, from which the action properties follow.

Rounding comes in through lemmas about `Rounded`: it moves an amount by at most half a
place, keeps an amount that has no further places, and so two amounts that were close and
are written with the same change stay `Close` (`RoundedNear` and those after it). No proof
uses the size of a place, only that `Fine` is below `Coarse`, and that the stake is not less
than `Coarse`.

`VaultMoneyIsBooked` adds `Solvent`: no cash, no treasury and no cash that a transaction
has read is below zero. It speaks of the sum over all treasuries, so it needs
`SumMoves`: when one entry of a finite function changes, its sum changes by as much
(`PurseToVault`, `VaultToVault` are its two uses).

### The parts of a nation's life

* `Founding` (`FoundingInv`): a founded nation's code stays taken (`CodesTaken`), which
  `CapitalsAreClaimedOnce` needs; what a handler is about to ask fits the draft unless the
  draft has been written since the handler wrote it (`AsksFit`), so that when the
  dialogue's state is set it fits too, or the step is told to be late: that is
  `DialogueFitsTheDraft`.
* `World` (`WorldInv`): what the job remembers between its commits (`JobKnows`) says how
  often the event was posted, so that a job that ends, and forgets it, posts nothing twice.
* `Proposing` (`ProposingInv`): `EnoughPanels` counts proposals, presses under way and the
  panel on show against the dialogues there were; each press takes its panel's place in
  the count. `WishesAimed` carries the aim from the panel to the record.
* `Offices` (`OfficesInv`): `TextsByOfficers`, `PromptsOpen`. The role is looked at when
  the text comes, and the text goes to the prompt that was opened last.
* `Treasury`: `PowersAreOfTheMoment` needs the types only. Each action is shown to move
  nothing, or as much out of a purse as into the treasury, or back, and then to look at
  the rank in the same step. The amount is one on show in `confirms`.
* `Locks` (`LocksInv`): every transaction is at a `Stage` of its kind's order, which
  relates what it holds to what it still has to lock, and no two sessions hold locks that
  are in conflict (`NoConflict`). A circle of none of the named kinds cannot close:
  `WaitsInOrder` says for each kind which locks it may hold while it waits for which,
  `RowsOfDeeds` who can hold and want which kind of row (lessons only lessons, rules and
  proposals only votes, revocations and the cycle), and `NoClimbInACircle` takes the
  greatest nation that somebody in the circle waits for: its holder waits for a greater
  one.

### Governance

`GovernanceInv` has a part for the rows (`LawsOfRecord`: a status agrees with the votes,
laws are of proposals that passed, the suspended were halted, one law per rule), and three
for what a cycle has written and not committed: `PendingRows`, `PendingLaws`,
`PendingRules`; `RevokingLaws` for a revocation between its invalidation and its commit.
Of the cache it says that an answer which a call of `resolve` has in hand is right, or
that the cache has been emptied since, or for a commit still to come (`Readings`). Votes
that come in before the count are in `votes`, and after it the row is locked, so that
`Agrees` holds when the cycle commits. The cycle's loops, which go through the rows in any
order, are folds: `RunInduction` gives what each has kept after every round
(`ResumeOneKeeps`, `ActivateOneKeeps`). The limit is kept by activations because each
counts the laws there are; a resumption does not, which is the property's exception.

### The parts that serve players and operators

* `Market` (`MarketInv`): what is left to trade of an order is the number of its previews
  in the list (`PreviewsCounted`); the trade that holds the row has one, near the rate
  (`TradeHasPreview`); the engine's rate is the row's unless a reset came between
  (`EngineReadRate`); the pressure's foreign part is within the whole unless a key
  expired between the two counts (`ForeignWithinBought`). `RatesMoveByTheirStep`
  is arithmetic from there, over the engine's roundings and clamps.
* `Alerts` (`AlertCounts`): messages minus missing marks, lost or never set, are at most one,
  and none for an alert that is armed and not marked by the check.
* `Missions` (`MissionsInv`): a list about to reset a row that nobody touched has read that
  row (`ListIsFresh`), a window's one completion shows in the row until a list has written
  over a change (`NothingOverwritten`), and a reward that can be claimed is backed until
  a second one has (`RewardsBacked`).
* `Academy` (`AcademyInv`): a button, and a press, behind a question exists only where the
  questions before it were answered right (`ButtonsBehindAnswers`, `PressBehindAnswers`); a
  lesson is shown only after the one before (`ShownAfterOthers`). The dialogue's own count
  is in no part of it: it may be overwritten at will.
* `Scheduler` (`LastWriteKnows`, `PanelKnows`): the last of the writes under way knows
  whether the job is paused, so that when they are done in order the panel does.
* `Repairs` (`BranchCounts`, `ShownItsBranch`, `OverWhenIn`): a branch that waits for its
  merge has what its run read, unless the run was shown it cut; a run whose change has come to
  main is over, so that a merge brings in a change which main never had.
* `AdminPanel` (`AdminInv`): the last note about a row agrees with the row (`PlayerTold`,
  `SwitchTold`, `WarTold` with the overwritten end as its exception, `DraftTold`), because
  each note is written by the transaction that writes the row; the kept list is right or
  excused (`ListTold`). `LastNoteIs` and `NoteAppended` say what the last note is when one
  is added.
* `Onboarding`: a name is written together with the check that nobody has exactly this
  name; the invariant relates what each waiting dialogue has seen to the names there
  are, and the capital to the sum of lots and trades.
* `Companion`: a reply in the cache was written for the key it is kept under, and a call
  carries what it was asked for to its end.

### Inductions

The library's induction theorems take an operator, which the installed provers cannot
instantiate. `Inductions` has them for sets: a set of numbers with zero and the successor
of each of its elements is `Nat` (`SetInduction`, from the well-foundedness of `<` and
`WFMin`, which are about sets). A predicate becomes the set of numbers that satisfy it.
From it follow the three inductions over data that the models need: what a loop keeps
(`RunInduction`), that a sum over a finite set does not depend on the order and changes
with one entry (`SumIs`, `SumWithout`, `SumChanges`), and that a finite set of numbers has
a greatest element and an ascending listing (`GreatestExists`, `AscendingExists`).

### What is only model-checked

Model-checked only: `CountSettles`. It is a liveness property under fairness, and
`ENABLED` and weak fairness are out of the prover's reach. The properties of the five
runs that expect a violation are false and have no proof; a counterexample is what they show.
Every invariant and every action property of the passing runs is a theorem, and the
refinement too, with the conditions the table names.

## 5. What is not modelled

Without a state of the program to model:

* Join requests. A request is made only for an AI nation with the policy APPROVAL;
  `ensure_ai_world`, which alone makes AI nations, makes them OPEN, and they have no
  founder who could change that or approve. (`expire_join_requests` would write a status
  that the table's CHECK constraint of migration 0019 refuses.)
* Invitation links and `app/services/nation/membership_service.py`; `dissolve_nation`
  and `transfer_ownership` of `founder_service.py`; the prompts of `prompt_engine.py`;
  `ensure_ai_population` with the seeding of the AI world: nothing calls them. (A start
  makes no nations or users, `main.py:412`; the robots there are trade on.)
* Webhook mode: the webhook is set with `allowed_updates=[]`, Telegram's default,
  which leaves chat_member out; the engine then never runs. The models are of the
  polling bot.

Reading, formatting, or the outside world only: the start menu (`start_flow.py`, which
`main.py` registers and `founder_flow.py` calls; its first trade is in `Onboarding`), the
dashboard, the portfolio, the profile, the ranking, charts and snapshots, the panel's
read-only pages, the health pages, log-in and the panel's request limiter, broadcasts,
weekly reports, welcome messages, nation logs, migrations and deployment scripts.

Abstracted within a modelled part: fees and volume tiers; which trade a robot
chooses; how a vote's weight is computed; what a rule's value is; file contents (a set of
changes); the plan and the diagnosis of the agents; the mentor's conversation
(kept in Redis or not); a wallet in `Membership` (absent, empty, funded) while
`Wallets` has amounts. `Locks` has the order of the locks it lists, but the other
modules let an aborted transaction be one that is lost or not taken.

`receive_founder_username` (`founder_flow.py:866`) is a fourth writer of player names,
next to the two of the registration and the rename. In `Founding` it sets a name; in
`Onboarding`, about which names collide, it is left out: it checks as the registration
does, under the lock of its own player's row.

One handler of a user at a time in `Membership`; the dialogues of the other modules
let handlers of one player overlap where the code has a step between two of its own.

### Seen while reading, not about a property

* `onboarding.py` uses names it never imports (`TRADER_NAME_RE`,
  `_nation_page_keyboard` and others), so several of its handlers raise and stop there.
  `Onboarding` models them as they run: what was written before stays.
* `/cancel` is a text like any other for the announcement's state, since the state's
  handler is registered before the command's: it is taken as the announcement. The
  prompt's cancel button leaves the state set.
* A reward that the panel sends leaves `reset_at` empty, so the mission's window does
  not open again.
* A robot that the panel switched off goes on trading; an announcement of an event
  that failed is not tried again; the command loop reads Redis outside its `try` and
  dies with it; a pause does not survive a restart.

## 6. Plan

1. An abstract ledger (money moves between a purse, a treasury and the market, and appears
   only where a named operation makes it), which `Wallets` with every read under its
   lock implements; the exceptions are then the steps that are no step of it.
   `SumChanges` has what the sums need.
2. The same for `Governance`: a register of laws in which a law is in force, suspended or
   over, which the cycle with its uncommitted copy implements.
3. More of the services that are modelled in part: the support agent's dialogue, and what
   the panel's control pages write.
