----------------------------- MODULE Membership -----------------------------
(***************************************************************************)
(* Citizenship in OPEX MONEY: who belongs to which nation, and how Telegram, *)
(* the bot's handlers and the admin panel change that together.             *)
(*                                                                         *)
(* A human nation has a Telegram group as its capital. Telegram owns the    *)
(* group's membership and reports changes as chat_member updates; the bot   *)
(* keeps a projection of it (nation_telegram_members) and, for users who    *)
(* registered in the game, a citizenship: an active NationMember row, the   *)
(* users.home_nation_id pointer and a row of currency_holdings. AI nations  *)
(* have no group and are joined inside the game.                            *)
(*                                                                         *)
(* One action is one database transaction (they lock the nation row and     *)
(* the user row, and READ COMMITTED serialises them there) or one call of   *)
(* the Telegram API. What a handler holds between two transactions, or has  *)
(* read before it takes the nation's lock, is kept in op[u].                *)
(***************************************************************************)
EXTENDS Integers, FiniteSets

CONSTANTS
    User,            \* Telegram accounts
    Human,           \* nations with a group of their own
    AI,              \* nations of the virtual world
    NoNation,        \* users.home_nation_id IS NULL
    NoUser,          \* nations.founder_user_id IS NULL
    InitialFounder,  \* founder of the human nations that already exist
    InitialPlayers,  \* registered users at the start, founders aside
    MinisterLimit,   \* ROLE_LIMITS[MINISTER]
    TraderLimit,     \* ROLE_LIMITS[TRADER]
    MaxChanges,      \* bound: changes in Telegram, kicks and restarts stop there
    Ordered,         \* TRUE: one pair's updates are handled in Telegram's order
    Features         \* the handlers that are in use (see FeatureName)

Nation == Human \cup AI

FeatureName == {"register", "join", "join_ai", "kick", "role", "dissolve",
                "found", "resolve", "trade", "home", "admin_home",
                "reconcile", "rate", "redeliver", "restart"}

Founders == {u \in User : \E n \in Human : InitialFounder[n] = u}

ASSUME SortsAssumption ==
    /\ IsFiniteSet(User)
    /\ Human \cap AI = {}
    /\ NoNation \notin Nation
    /\ NoUser \notin User

ASSUME FoundersAssumption ==
    /\ InitialFounder \in [Human -> User \cup {NoUser}]
    /\ \A m, n \in Human :
           InitialFounder[m] = InitialFounder[n] /\ InitialFounder[n] # NoUser => m = n
    /\ InitialPlayers \subseteq User

ASSUME BoundsAssumption ==
    /\ MinisterLimit \in Nat /\ TraderLimit \in Nat /\ MaxChanges \in Nat
    /\ Ordered \in BOOLEAN
    /\ Features \subseteq FeatureName

VARIABLES
    (* users *)
    registered,   \* users with a row and a user name
    home,         \* users.home_nation_id
    userRole,     \* users.role, the role shown everywhere in the game
    (* nation_members and currency_holdings *)
    activeIn,     \* activeIn[u]: nations where u has an active NationMember row
    memberRole,   \* memberRole[u][n]: NationMember.role, "none" without a row
    holding,      \* holding[u][n]: the wallet row of u in n's currency
    (* nation_telegram_members *)
    proj,         \* proj[n][u]: the last status the bot has recorded
    (* nations *)
    nationState, founder, count,
    (* Telegram *)
    truth,        \* truth[n][u]: status of u in the group of n
    inflight,     \* chat_member updates on their way to the handler
    clock,        \* changes and restarts so far; stamps the updates
    (* handlers that are between two of their transactions *)
    op,           \* op[u]: the handler u's last button press or message runs
    counted       \* counted[n]: the totals of n that jobs under way hold

userVars == <<registered, home, userRole>>
gameVars == <<home, userRole, activeIn, memberRole, holding>>
nationVars == <<nationState, founder>>
telegramVars == <<truth, inflight, clock>>
vars == <<registered, home, userRole, activeIn, memberRole, holding, proj,
          nationState, founder, count, truth, inflight, clock, op, counted>>

MemberRole == {"founder", "minister", "trader", "citizen"}
UserRole == MemberRole \cup {"player"}
Status == {"member", "left", "kicked"}
Update == [nation : Human, user : User, status : Status, at : Nat]
Total == [job : {"reconcile", "rate"}, total : Nat]
Steps == {"idle", "registered", "syncing", "joining", "kick", "ban", "unban",
          "kick_commit", "role", "dissolve"}
Kicking == {"kick", "ban", "unban", "kick_commit"}
Appointable == {"minister", "trader", "citizen"}
Op == {o \in [step : Steps,
              nation : Nation \cup {NoNation},
              target : User \cup {NoUser},
              asked : MemberRole \cup {"none"},
              held : MemberRole \cup {"none"},
              rows : SUBSET Human] :
          /\ o.step \in Kicking \cup {"role", "dissolve", "joining"} => o.nation \in Human
          /\ o.step \in Kicking \cup {"role"} => o.target \in User
          /\ o.step = "role" => o.asked \in Appointable}
Idle == [step |-> "idle", nation |-> NoNation, target |-> NoUser,
         asked |-> "none", held |-> "none", rows |-> {}]

TypeOK ==
    /\ registered \subseteq User
    /\ home \in [User -> Nation \cup {NoNation}]
    /\ userRole \in [User -> UserRole]
    /\ activeIn \in [User -> SUBSET Nation]
    /\ memberRole \in [User -> [Nation -> MemberRole \cup {"none"}]]
    /\ holding \in [User -> [Nation -> {"absent", "empty", "funded"}]]
    /\ proj \in [Human -> [User -> Status \cup {"absent"}]]
    /\ nationState \in [Nation -> {"absent", "active", "dissolved"}]
    /\ founder \in [Nation -> User \cup {NoUser}]
    /\ count \in [Nation -> Nat]
    /\ truth \in [Human -> [User -> Status]]
    /\ inflight \subseteq Update
    /\ clock \in Nat
    /\ op \in [User -> Op]
    /\ counted \in [Human -> SUBSET Total]

-----------------------------------------------------------------------------
(* Helpers *)

InitiallyHome(u) == {n \in Human : InitialFounder[n] = u}
InitiallyIn(u, n) == n \in Human /\ InitialFounder[n] = u

\* Mutant: the registration reads the user without FOR UPDATE.
FreeAlways(u) == TRUE
\* No transaction that is still open holds the FOR UPDATE lock on u's row.
\* Only the registration's synchronisation keeps one across two steps here.
Free(u) == op[u].step # "syncing"

Start(u, step, n, t, asked, held, rows) ==
    op' = [op EXCEPT ![u] = [step |-> step, nation |-> n, target |-> t,
                             asked |-> asked, held |-> held, rows |-> rows]]
Advance(u, step) == op' = [op EXCEPT ![u].step = step]
Finish(u) == op' = [op EXCEPT ![u] = Idle]

\* Mutant: the counter is decremented without max(0, ...).
Minus1Unclamped(k) == k - 1
Minus1(k) == IF k = 0 THEN 0 ELSE k - 1

\* convert_holding_to_xr: the row stays, with nothing in it.
Liquidated(h) == IF h = "funded" THEN "empty" ELSE h
\* Mutant: the wallet is looked for, and not created when it is missing.
OpenedOnlyIfThere(h) == h
Opened(h) == IF h = "absent" THEN "funded" ELSE h

\* Mutant: the migration's index is missing.
IndexMissing(u, n) == TRUE
\* The partial unique index lets no second active row of a user in: the flush
\* raises IntegrityError and the transaction is rolled back.
IndexAllows(u, n) == activeIn[u] \subseteq {n}

EnsuredRole(u, n) ==
    IF memberRole[u][n] # "none" THEN memberRole[u][n]
    ELSE IF founder[n] = u THEN "founder" ELSE "citizen"

\* _ensure_registered_user_projection: a registered user becomes a citizen.
Enroll(u, n) ==
    /\ activeIn' = [activeIn EXCEPT ![u] = {n}]
    /\ memberRole' = [memberRole EXCEPT ![u][n] = EnsuredRole(u, n)]
    /\ holding' = [holding EXCEPT ![u][n] = Opened(@)]
    /\ userRole' = [userRole EXCEPT ![u] =
                        IF EnsuredRole(u, n) = "founder" THEN "founder"
                        ELSE IF @ \in {"player", "citizen"} THEN "citizen" ELSE @]
    /\ home' = [home EXCEPT ![u] = IF @ = NoNation THEN n ELSE @]

\* What sync_telegram_membership takes for the state before this update.
WasActive(u, n) ==
    \/ proj[n][u] = "member"
    \/ proj[n][u] = "absent" /\ n \in activeIn[u]

\* The nation a user who leaves n falls back on.
Fallback(u, n) ==
    {m \in activeIn[u] \ {n} :
        m \in Human /\ nationState[m] = "active" /\ proj[m][u] = "member"}

SyncActive(u, n) ==
    /\ proj' = [proj EXCEPT ![n][u] = "member"]
    /\ count' = [count EXCEPT ![n] = IF WasActive(u, n) THEN @ ELSE @ + 1]
    /\ IF u \in registered THEN Enroll(u, n) ELSE UNCHANGED gameVars

\* Mutant: the projection ends the membership and forgets the wallet.
ExpelKeepingWallet(u, n, s) ==
    /\ activeIn' = [activeIn EXCEPT ![u] = @ \ {n}]
    /\ home' = [home EXCEPT ![u] = IF @ = n THEN NoNation ELSE @]
    /\ userRole' = [userRole EXCEPT ![u] = IF home[u] = n THEN "player" ELSE @]
    /\ UNCHANGED <<memberRole, holding>>

Expel(u, n, s) ==
    /\ activeIn' = [activeIn EXCEPT ![u] = @ \ {n}]
    /\ holding' = [holding EXCEPT ![u][n] =
                       IF WasActive(u, n) /\ s = "kicked" THEN Liquidated(@) ELSE @]
    /\ home' = [home EXCEPT ![u] =
                    IF @ # n THEN @
                    ELSE IF Fallback(u, n) = {} THEN NoNation
                    ELSE CHOOSE m \in Fallback(u, n) : TRUE]
    /\ userRole' = [userRole EXCEPT ![u] =
                        IF home[u] = n /\ Fallback(u, n) = {} THEN "player" ELSE @]
    /\ UNCHANGED memberRole

SyncInactive(u, n, s) ==
    /\ proj' = [proj EXCEPT ![n][u] = s]
    /\ count' = [count EXCEPT ![n] = IF WasActive(u, n) THEN Minus1(@) ELSE @]
    /\ IF u \in registered THEN Expel(u, n, s) ELSE UNCHANGED gameVars

\* sync_telegram_membership does not raise.
SyncAllowed(u, n, s) ==
    /\ nationState[n] = "active"
    /\ s = "member" /\ u \in registered => IndexAllows(u, n)

SyncMembership(u, n, s) ==
    IF s = "member" THEN SyncActive(u, n) ELSE SyncInactive(u, n, s)

-----------------------------------------------------------------------------
Init ==
    /\ registered = Founders \cup InitialPlayers
    /\ activeIn = [u \in User |-> InitiallyHome(u)]
    /\ home = [u \in User |-> IF InitiallyHome(u) = {} THEN NoNation
                              ELSE CHOOSE n \in InitiallyHome(u) : TRUE]
    /\ userRole = [u \in User |-> IF u \in Founders THEN "founder" ELSE "player"]
    /\ memberRole = [u \in User |-> [n \in Nation |->
                        IF InitiallyIn(u, n) THEN "founder" ELSE "none"]]
    /\ holding = [u \in User |-> [n \in Nation |->
                        IF InitiallyIn(u, n) THEN "funded" ELSE "absent"]]
    /\ proj = [n \in Human |-> [u \in User |->
                        IF InitiallyIn(u, n) THEN "member" ELSE "absent"]]
    /\ nationState = [n \in Nation |->
                        IF n \in Human /\ InitialFounder[n] = NoUser
                        THEN "absent" ELSE "active"]
    /\ founder = [n \in Nation |-> IF n \in Human THEN InitialFounder[n] ELSE NoUser]
    /\ count = [n \in Nation |->
                        IF n \in Human /\ InitialFounder[n] # NoUser THEN 1 ELSE 0]
    /\ truth = [n \in Human |-> [u \in User |->
                        IF InitiallyIn(u, n) THEN "member" ELSE "left"]]
    /\ inflight = {}
    /\ clock = 0
    /\ op = [u \in User |-> Idle]
    /\ counted = [n \in Human |-> {}]

-----------------------------------------------------------------------------
(* Telegram *)

\* The status of u in the group changes and Telegram queues an update.
Post(u, n, s) ==
    /\ truth' = [truth EXCEPT ![n][u] = s]
    /\ inflight' = inflight \cup {[nation |-> n, user |-> u, status |-> s, at |-> clock]}
    /\ clock' = clock + 1

\* Somebody joins, leaves, is removed or unbanned inside Telegram.
TelegramChange(u, n, s) ==
    /\ clock < MaxChanges
    /\ truth[n][u] # s
    /\ truth[n][u] = "member" \/ (s = "member" /\ truth[n][u] = "left")
       \/ (s = "left" /\ truth[n][u] = "kicked")
    /\ Post(u, n, s)
    /\ UNCHANGED <<registered, gameVars, proj, nationVars, count, op, counted>>

-----------------------------------------------------------------------------
(* The chat_member handler *)

Deliverable(e) ==
    /\ e \in inflight
    /\ Ordered => \A f \in inflight :
                      f.nation = e.nation /\ f.user = e.user => e.at <= f.at

\* Telegram sends an update again when it was not acknowledged in time.
Consume(e, again) ==
    inflight' = IF again THEN inflight ELSE inflight \ {e}

HandleChatMember(e, again) ==
    /\ Deliverable(e) /\ Free(e.user)
    /\ again => "redeliver" \in Features
    /\ SyncAllowed(e.user, e.nation, e.status)
    /\ SyncMembership(e.user, e.nation, e.status)
    /\ Consume(e, again)
    /\ UNCHANGED <<registered, nationVars, truth, clock, op, counted>>

\* No active nation has this group, or the transaction was rolled back: the
\* dispatcher logs the exception and the update is gone.
DropChatMember(e) ==
    /\ Deliverable(e) /\ Free(e.user)
    /\ ~SyncAllowed(e.user, e.nation, e.status)
    /\ Consume(e, FALSE)
    /\ UNCHANGED <<registered, gameVars, proj, nationVars, count, truth, clock,
                   op, counted>>

-----------------------------------------------------------------------------
(* Registration *)

\* The row is created in one transaction (accept_valid_name) ...
RegisterUser(u) ==
    /\ "register" \in Features
    /\ u \notin registered /\ op[u] = Idle
    /\ registered' = registered \cup {u}
    /\ Start(u, "registered", NoNation, NoUser, "none", "none", {})
    /\ UNCHANGED <<gameVars, proj, nationVars, count, telegramVars, counted>>

\* ... the known Telegram memberships are read in the next one, which locks
\* the user but not the nations ...
SyncRead(u) ==
    /\ op[u].step = "registered"
    /\ Start(u, "syncing", NoNation, NoUser, "none", "none",
             {n \in Human : proj[n][u] = "member" /\ nationState[n] = "active"})
    /\ UNCHANGED <<registered, gameVars, proj, nationVars, count, telegramVars, counted>>

\* ... and projected, all of them or, when the index refuses one, none.
SyncWrite(u) ==
    /\ op[u].step = "syncing"
    /\ Finish(u)
    /\ \/ \E n \in op[u].rows : op[u].rows = {n} /\ IndexAllows(u, n) /\ Enroll(u, n)
       \/ /\ \A n \in op[u].rows : ~(op[u].rows = {n} /\ IndexAllows(u, n))
          /\ UNCHANGED gameVars
    /\ UNCHANGED <<registered, proj, nationVars, count, telegramVars, counted>>

\* The founding flow and the onboarding's nation picker only create the row.
RegisterWithoutSync(u) ==
    /\ "register" \in Features
    /\ u \notin registered /\ op[u] = Idle
    /\ registered' = registered \cup {u}
    /\ UNCHANGED <<gameVars, proj, nationVars, count, telegramVars, op, counted>>

-----------------------------------------------------------------------------
(* Joining from the bot *)

\* get_chat_member says that u is in the group; no transaction is open.
JoinLookup(u, n) ==
    /\ "join" \in Features
    /\ op[u] = Idle
    /\ nationState[n] = "active" /\ truth[n][u] = "member"
    /\ Start(u, "joining", n, NoUser, "none", "none", {})
    /\ UNCHANGED <<registered, gameVars, proj, nationVars, count, telegramVars, counted>>

JoinCommit(u) ==
    LET n == op[u].nation IN
    /\ op[u].step = "joining"
    /\ Finish(u)
    /\ IF u \in registered /\ SyncAllowed(u, n, "member")
       THEN SyncActive(u, n)
       ELSE UNCHANGED <<gameVars, proj, count>>
    /\ UNCHANGED <<registered, nationVars, telegramVars, counted>>

\* An AI nation takes whoever has no nation, and never had a row in this one:
\* the handler inserts a new row.
JoinAI(u, n) ==
    /\ "join_ai" \in Features
    /\ Free(u) /\ u \in registered
    /\ nationState[n] = "active"
    /\ home[u] = NoNation /\ activeIn[u] = {} /\ memberRole[u][n] = "none"
    /\ userRole' = [userRole EXCEPT ![u] = "citizen"]
    /\ holding' = [holding EXCEPT ![u][n] = Opened(@)]
    /\ memberRole' = [memberRole EXCEPT ![u][n] = "citizen"]
    /\ activeIn' = [activeIn EXCEPT ![u] = {n}]
    /\ home' = [home EXCEPT ![u] = n]
    /\ count' = [count EXCEPT ![n] = @ + 1]
    /\ UNCHANGED <<registered, proj, nationVars, telegramVars, op, counted>>

-----------------------------------------------------------------------------
(* Management: the actor's row is read before the nation is locked, so every *)
(* one of these has a step before its transaction's locked part. AI nations  *)
(* never have a founder or a minister, so they are not managed.              *)

\* _require_admin
IsAdmin(u, n) == n \in activeIn[u] /\ memberRole[u][n] \in {"founder", "minister"}

KickRead(u, n, t) ==
    /\ "kick" \in Features
    /\ op[u] = Idle /\ u # t /\ IsAdmin(u, n) /\ clock < MaxChanges
    /\ Start(u, "kick", n, t, "none", memberRole[u][n], {})
    /\ UNCHANGED <<registered, gameVars, proj, nationVars, count, telegramVars, counted>>

\* Mutant: only the actor's rights are checked, not the target's.
MayKickAnybody(held, t, n) == n \in activeIn[t] /\ t \in registered

\* What an actor who was read as "held" may do to t.
MayKick(held, t, n) ==
    /\ n \in activeIn[t] /\ t \in registered
    /\ memberRole[t][n] # "founder"
    /\ held = "minister" => memberRole[t][n] = "citizen"

KickCheck(u) ==
    LET t == op[u].target IN
    /\ op[u].step = "kick" /\ Free(t)
    /\ IF MayKick(op[u].held, t, op[u].nation) THEN Advance(u, "ban") ELSE Finish(u)
    /\ UNCHANGED <<registered, gameVars, proj, nationVars, count, telegramVars, counted>>

\* ban_chat_member; when it fails the handler answers and returns.
TelegramBan(u, ok) ==
    LET n == op[u].nation
        t == op[u].target IN
    /\ op[u].step = "ban"
    /\ IF ok THEN Advance(u, "unban") ELSE Finish(u)
    /\ IF ok /\ truth[n][t] # "kicked" THEN Post(t, n, "kicked") ELSE UNCHANGED telegramVars
    /\ UNCHANGED <<registered, gameVars, proj, nationVars, count, counted>>

\* unban_chat_member(only_if_banned); a failure is only logged.
TelegramUnban(u, ok) ==
    LET n == op[u].nation
        t == op[u].target IN
    /\ op[u].step = "unban"
    /\ Advance(u, "kick_commit")
    /\ IF ok /\ truth[n][t] = "kicked" THEN Post(t, n, "left") ELSE UNCHANGED telegramVars
    /\ UNCHANGED <<registered, gameVars, proj, nationVars, count, counted>>

\* The second transaction of kick_member: nothing to do when the member is gone.
KickCommit(u) ==
    LET n == op[u].nation
        t == op[u].target IN
    /\ op[u].step = "kick_commit" /\ Free(t)
    /\ Finish(u)
    /\ IF n \in activeIn[t]
       THEN /\ holding' = [holding EXCEPT ![t][n] = Liquidated(@)]
            /\ activeIn' = [activeIn EXCEPT ![t] = @ \ {n}]
            /\ home' = [home EXCEPT ![t] = NoNation]
            /\ userRole' = [userRole EXCEPT ![t] = "player"]
            /\ count' = [count EXCEPT ![n] = Minus1(@)]
            /\ UNCHANGED memberRole
       ELSE UNCHANGED <<gameVars, count>>
    /\ UNCHANGED <<registered, proj, nationVars, telegramVars, counted>>

RoleRead(u, n, t, r) ==
    /\ "role" \in Features
    /\ op[u] = Idle /\ u # t /\ IsAdmin(u, n)
    /\ Start(u, "role", n, t, r, memberRole[u][n], {})
    /\ UNCHANGED <<registered, gameVars, proj, nationVars, count, telegramVars, counted>>

Holders(n, r) == {u \in User : n \in activeIn[u] /\ memberRole[u][n] = r}
\* Mutant: the limit is compared with > where >= is meant.
WithinLimitByOne(n, r) ==
    /\ r = "minister" => Cardinality(Holders(n, r)) <= MinisterLimit
    /\ r = "trader" => Cardinality(Holders(n, r)) <= TraderLimit
WithinLimit(n, r) ==
    /\ r = "minister" => Cardinality(Holders(n, r)) < MinisterLimit
    /\ r = "trader" => Cardinality(Holders(n, r)) < TraderLimit

MayAppoint(held, t, n, r) ==
    /\ nationState[n] = "active" /\ n \in activeIn[t] /\ t \in registered
    /\ memberRole[t][n] # "founder"
    /\ held = "minister" => r = "trader" /\ memberRole[t][n] = "citizen"
    /\ memberRole[t][n] # r
    /\ WithinLimit(n, r)

RoleCommit(u) ==
    LET n == op[u].nation
        t == op[u].target
        r == op[u].asked IN
    /\ op[u].step = "role" /\ Free(t)
    /\ Finish(u)
    /\ IF MayAppoint(op[u].held, t, n, r)
       THEN /\ memberRole' = [memberRole EXCEPT ![t][n] = r]
            /\ userRole' = [userRole EXCEPT ![t] = r]
            /\ UNCHANGED <<home, activeIn, holding>>
       ELSE UNCHANGED gameVars
    /\ UNCHANGED <<registered, proj, nationVars, count, telegramVars, counted>>

DissolveRead(u, n) ==
    /\ "dissolve" \in Features
    /\ op[u] = Idle
    /\ n \in activeIn[u] /\ memberRole[u][n] = "founder"
    /\ Start(u, "dissolve", n, NoUser, "none", "founder", {})
    /\ UNCHANGED <<registered, gameVars, proj, nationVars, count, telegramVars, counted>>

\* Mutant: the dissolution releases everybody but the one who dissolves.
CitizensButFounder(n) == {u \in registered : n \in activeIn[u] /\ memberRole[u][n] # "founder"}
Citizens(n) == {u \in registered : n \in activeIn[u]}

DissolveCommit(u) ==
    LET n == op[u].nation IN
    /\ op[u].step = "dissolve"
    /\ \A t \in Citizens(n) : Free(t)
    /\ Finish(u)
    /\ IF nationState[n] = "active"
       THEN /\ holding' = [t \in User |-> IF t \in Citizens(n)
                  THEN [holding[t] EXCEPT ![n] = Liquidated(@)] ELSE holding[t]]
            /\ activeIn' = [t \in User |-> IF t \in Citizens(n)
                  THEN activeIn[t] \ {n} ELSE activeIn[t]]
            /\ home' = [t \in User |-> IF t \in Citizens(n) THEN NoNation ELSE home[t]]
            /\ userRole' = [t \in User |-> IF t \in Citizens(n) THEN "player" ELSE userRole[t]]
            /\ count' = [count EXCEPT ![n] = 0]
            /\ nationState' = [nationState EXCEPT ![n] = "dissolved"]
            /\ UNCHANGED memberRole
       ELSE UNCHANGED <<gameVars, count, nationState>>
    /\ UNCHANGED <<registered, proj, founder, telegramVars, counted>>

-----------------------------------------------------------------------------
(* Founding: the last confirmation of the draft. Its group is bound earlier; *)
(* nothing is asked of Telegram here.                                        *)
FoundingWrites(u, n) ==
    /\ nationState' = [nationState EXCEPT ![n] = "active"]
    /\ founder' = [founder EXCEPT ![n] = u]
    /\ count' = [count EXCEPT ![n] = 1]
    /\ userRole' = [userRole EXCEPT ![u] = "founder"]
    /\ home' = [home EXCEPT ![u] = n]
    /\ holding' = [holding EXCEPT ![u][n] = "funded"]
    /\ memberRole' = [memberRole EXCEPT ![u][n] = "founder"]
    /\ activeIn' = [activeIn EXCEPT ![u] = {n}]
    /\ proj' = [proj EXCEPT ![n][u] = "member"]
    /\ UNCHANGED <<registered, telegramVars, op, counted>>

\* Mutant: users.role stands for "has founded", the nations are not searched.
CreateNationByRole(u, n) ==
    /\ "found" \in Features
    /\ Free(u) /\ u \in registered
    /\ nationState[n] = "absent"
    /\ userRole[u] # "founder" /\ activeIn[u] = {}
    /\ FoundingWrites(u, n)

CreateNation(u, n) ==
    /\ "found" \in Features
    /\ Free(u) /\ u \in registered
    /\ nationState[n] = "absent"
    /\ userRole[u] # "founder"
    /\ \A m \in Nation : ~(founder[m] = u /\ nationState[m] = "active")
    /\ activeIn[u] = {}
    /\ FoundingWrites(u, n)

-----------------------------------------------------------------------------
(* get_user_active_nation_context(repair=True): what opening a nation, market, *)
(* treasury or governance screen does to the user's citizenship.               *)

LiveHome(u) == home[u] # NoNation /\ nationState[home[u]] = "active"
LiveMemberships(u) == {n \in activeIn[u] : nationState[n] = "active"}
LiveFounded(u) == {n \in Nation : founder[n] = u /\ nationState[n] = "active"}
LiveWallets(u) == {n \in Nation : holding[u][n] # "absent" /\ nationState[n] = "active"}

\* Which of the resolver's cases comes first; "member" and "lost" write nothing.
ResolveCase(u) ==
    CASE LiveHome(u) /\ home[u] \in activeIn[u] -> "member"
      [] LiveHome(u) /\ home[u] \notin activeIn[u] /\ founder[home[u]] = u -> "home founder"
      [] LiveHome(u) /\ home[u] \notin activeIn[u] /\ founder[home[u]] # u
            /\ holding[u][home[u]] # "absent" -> "home wallet"
      [] OTHER -> IF LiveMemberships(u) # {} THEN "membership"
                  ELSE IF LiveFounded(u) # {} THEN "founded"
                  ELSE IF LiveWallets(u) # {} THEN "wallet" ELSE "lost"

\* The nations a case may make the user a citizen of, and as what.
RepairTargets(u) ==
    CASE ResolveCase(u) \in {"home founder", "home wallet"} -> {home[u]}
      [] ResolveCase(u) = "founded" -> LiveFounded(u)
      [] ResolveCase(u) = "wallet" -> LiveWallets(u)
      [] OTHER -> {}
\* Mutant: every repair writes a citizen's role.
RepairRoleCitizen(u) == "citizen"
RepairRole(u) ==
    IF ResolveCase(u) \in {"home founder", "founded"} THEN "founder" ELSE "citizen"

\* _repair_membership; the count of the nation is left alone.
RepairMembership(u, n) ==
    /\ "resolve" \in Features
    /\ Free(u) /\ u \in registered
    /\ n \in RepairTargets(u)
    /\ IndexAllows(u, n)
    /\ activeIn' = [activeIn EXCEPT ![u] = {n}]
    /\ memberRole' = [memberRole EXCEPT ![u][n] = RepairRole(u)]
    /\ home' = [home EXCEPT ![u] = n]
    /\ userRole' = [userRole EXCEPT ![u] = IF RepairRole(u) = "founder" THEN "founder" ELSE @]
    /\ UNCHANGED <<registered, holding, proj, nationVars, count, telegramVars, op, counted>>

\* The fallback on an active membership only moves the pointer; support's
\* SYNC_HOME_NATION does the same without looking at the nation.
PointHome(u, n) ==
    /\ \/ "home" \in Features
       \/ "resolve" \in Features /\ ResolveCase(u) = "membership" /\ nationState[n] = "active"
    /\ Free(u) /\ u \in registered
    /\ n \in activeIn[u]
    /\ home[u] # n
    /\ home' = [home EXCEPT ![u] = n]
    /\ UNCHANGED <<registered, userRole, activeIn, memberRole, holding, proj,
                   nationVars, count, telegramVars, op, counted>>

-----------------------------------------------------------------------------
(* Wallets and the home pointer *)

\* execute_trade_action asks for an active nation and money, not citizenship.
BuyCurrency(u, n) ==
    /\ "trade" \in Features
    /\ Free(u) /\ u \in registered /\ nationState[n] = "active"
    /\ holding' = [holding EXCEPT ![u][n] = "funded"]
    /\ UNCHANGED <<registered, home, userRole, activeIn, memberRole, proj,
                   nationVars, count, telegramVars, op, counted>>

\* A sale of everything; one of a part changes nothing here.
SellCurrency(u, n) ==
    /\ "trade" \in Features
    /\ Free(u) /\ u \in registered /\ nationState[n] = "active"
    /\ holding[u][n] = "funded"
    /\ holding' = [holding EXCEPT ![u][n] = "empty"]
    /\ UNCHANGED <<registered, home, userRole, activeIn, memberRole, proj,
                   nationVars, count, telegramVars, op, counted>>

\* settings: the user picks the home nation among the active memberships.
ChangeHome(u, n) ==
    /\ "home" \in Features
    /\ Free(u) /\ u \in registered
    /\ nationState[n] = "active" /\ n \in activeIn[u]
    /\ holding' = [holding EXCEPT ![u][n] = IF @ = "absent" THEN "empty" ELSE @]
    /\ home' = [home EXCEPT ![u] = n]
    /\ UNCHANGED <<registered, userRole, activeIn, memberRole, proj, nationVars,
                   count, telegramVars, op, counted>>

\* The admin panel writes the pointer and nothing else.
AdminSetHome(u, n) ==
    /\ "admin_home" \in Features
    /\ Free(u) /\ u \in registered
    /\ n # NoNation => nationState[n] = "active"
    /\ home' = [home EXCEPT ![u] = n]
    /\ UNCHANGED <<registered, userRole, activeIn, memberRole, holding, proj,
                   nationVars, count, telegramVars, op, counted>>

\* scripts/repair_home_nation.py, run by hand.
Unbacked(u) == home[u] # NoNation /\ home[u] \notin activeIn[u]
RepairScript ==
    /\ "admin_home" \in Features
    /\ \E u \in registered : Unbacked(u)
    /\ \A u \in registered : Unbacked(u) => Free(u)
    /\ home' = [u \in User |-> IF u \in registered /\ Unbacked(u) THEN NoNation ELSE home[u]]
    /\ UNCHANGED <<registered, userRole, activeIn, memberRole, holding, proj,
                   nationVars, count, telegramVars, op, counted>>

-----------------------------------------------------------------------------
(* Two jobs of every quarter of an hour set the count of a human nation. Each  *)
(* finds its total first and writes it later; Held is what a job has in hand.   *)

Held(n, job) == {t \in counted[n] : t.job = job}
Hold(n, job, k) == counted' = [counted EXCEPT ![n] = @ \cup {[job |-> job, total |-> k]}]
Release(n, t) == counted' = [counted EXCEPT ![n] = @ \ {t}]

\* Telegram's total: the bot, an administrator of the group, is one of them.
Population(n) == 1 + Cardinality({u \in User : truth[n][u] = "member"})
\* The projection's total.
Recorded(n) == Cardinality({u \in User : proj[n][u] = "member"})

\* The membership job asks Telegram outside the transaction.
ReconcileRead(n) ==
    /\ "reconcile" \in Features
    /\ nationState[n] = "active" /\ Held(n, "reconcile") = {}
    /\ Hold(n, "reconcile", Population(n))
    /\ UNCHANGED <<registered, gameVars, proj, nationVars, count, telegramVars, op>>

\* Mutant: the job only raises a count that is too low.
ReconcileRaise(n) ==
    \E t \in Held(n, "reconcile") :
        /\ Release(n, t)
        /\ count' = IF nationState[n] = "active" /\ t.total > count[n]
                    THEN [count EXCEPT ![n] = t.total] ELSE count
        /\ UNCHANGED <<registered, gameVars, proj, nationVars, telegramVars, op>>

ReconcileWrite(n) ==
    \E t \in Held(n, "reconcile") :
        /\ Release(n, t)
        /\ count' = IF nationState[n] = "active" THEN [count EXCEPT ![n] = t.total] ELSE count
        /\ UNCHANGED <<registered, gameVars, proj, nationVars, telegramVars, op>>

\* The rate engine reads nations and projection without a lock, and writes its
\* total over whatever the count is by then. A total equal to the count that
\* was loaded is no change to the session, and not written.
RateRead(n) ==
    /\ "rate" \in Features
    /\ nationState[n] = "active" /\ Held(n, "rate") = {}
    /\ Recorded(n) # count[n]
    /\ Hold(n, "rate", Recorded(n))
    /\ UNCHANGED <<registered, gameVars, proj, nationVars, count, telegramVars, op>>

RateWrite(n) ==
    \E t \in Held(n, "rate") :
        /\ Release(n, t)
        /\ count' = [count EXCEPT ![n] = t.total]
        /\ UNCHANGED <<registered, gameVars, proj, nationVars, telegramVars, op>>

\* The process stops: handlers are gone, and so are updates it had fetched.
Restart ==
    /\ "restart" \in Features
    /\ clock < MaxChanges
    /\ clock' = clock + 1
    /\ \E kept \in SUBSET inflight : inflight' = kept
    /\ op' = [u \in User |-> Idle]
    /\ counted' = [n \in Human |-> {}]
    /\ UNCHANGED <<registered, gameVars, proj, nationVars, count, truth>>

-----------------------------------------------------------------------------
TelegramNext ==
    \/ \E u \in User, n \in Human, s \in Status : TelegramChange(u, n, s)
    \/ \E e \in inflight : \E again \in BOOLEAN : HandleChatMember(e, again)
    \/ \E e \in inflight : DropChatMember(e)

JoinNext ==
    \/ \E u \in User : \/ RegisterUser(u) \/ SyncRead(u) \/ SyncWrite(u)
                       \/ RegisterWithoutSync(u) \/ JoinCommit(u)
    \/ \E u \in User, n \in Human : JoinLookup(u, n) \/ CreateNation(u, n)
    \/ \E u \in User, n \in AI : JoinAI(u, n)

ManageNext ==
    \/ \E u, t \in User, n \in Human : KickRead(u, n, t)
    \/ \E u, t \in User, n \in Human :
           \E r \in Appointable : RoleRead(u, n, t, r)
    \/ \E u \in User, n \in Human : DissolveRead(u, n)
    \/ \E u \in User : \/ KickCheck(u) \/ KickCommit(u)
                       \/ RoleCommit(u) \/ DissolveCommit(u)
    \/ \E u \in User, ok \in BOOLEAN : TelegramBan(u, ok) \/ TelegramUnban(u, ok)

AccountNext ==
    \/ \E u \in User, n \in Nation : \/ RepairMembership(u, n) \/ PointHome(u, n)
                                     \/ BuyCurrency(u, n) \/ SellCurrency(u, n)
                                     \/ ChangeHome(u, n)
    \/ \E u \in User, n \in Nation \cup {NoNation} : AdminSetHome(u, n)
    \/ RepairScript

SystemNext ==
    \/ \E n \in Human : \/ ReconcileRead(n) \/ ReconcileWrite(n)
                        \/ RateRead(n) \/ RateWrite(n)
    \/ Restart

Next == TelegramNext \/ JoinNext \/ ManageNext \/ AccountNext \/ SystemNext

Spec == Init /\ [][Next]_vars

\* The dispatcher takes every update it is sent, a handler that has started
\* goes on to its end, and the scheduler runs the count job again and again.
\* Users, administrators and Telegram owe nothing.
HandlerStep(u) ==
    \/ SyncRead(u) \/ SyncWrite(u) \/ JoinCommit(u)
    \/ KickCheck(u) \/ KickCommit(u) \/ RoleCommit(u) \/ DissolveCommit(u)
    \/ \E ok \in BOOLEAN : TelegramBan(u, ok) \/ TelegramUnban(u, ok)
ChatMemberStep == \E e \in inflight : HandleChatMember(e, FALSE) \/ DropChatMember(e)
Fairness ==
    /\ \A u \in User : WF_vars(HandlerStep(u))
    /\ WF_vars(ChatMemberStep)
    /\ \A n \in Human : WF_vars(ReconcileRead(n)) /\ WF_vars(ReconcileWrite(n))
FairSpec == Spec /\ Fairness

-----------------------------------------------------------------------------
(* Safety *)

\* The SYNC RULE: home_nation_id mirrors the active membership. It says at
\* once that a user has at most one citizenship, that the pointer is set in
\* the transaction that makes the row active, and cleared in the one that
\* makes it inactive, whichever of the handlers does it.
HomeMirrorsMembership ==
    \A u \in User : activeIn[u] = IF home[u] = NoNation THEN {} ELSE {home[u]}

\* No partial citizenship: an active member is a registered user with a role
\* in the nation and a wallet in its currency.
NoPartialCitizenship ==
    \A u \in User : \A n \in activeIn[u] :
        /\ u \in registered
        /\ memberRole[u][n] # "none"
        /\ holding[u][n] # "absent"
        /\ nationState[n] # "absent"

\* The founder's role and nations.founder_user_id agree: nobody else ever gets
\* the role, and the founder's row keeps it through leaving, rejoining, kicks
\* and the resolver's repairs.
FounderRole ==
    \A u \in User, n \in Nation : memberRole[u][n] = "founder" <=> founder[n] = u

\* "Every trader can found only one nation": two live nations never have the
\* same founder, although users.role is reset when a founder leaves.
OneNationPerFounder ==
    \A m, n \in Nation :
        nationState[m] = "active" /\ nationState[n] = "active"
        /\ founder[m] = founder[n] /\ founder[n] # NoUser => m = n

\* A kick that has passed its check and is between its Telegram calls never
\* aims at the founder: no step of another actor can give the target that role.
KickSparesFounder ==
    \A u \in User : op[u].step \in {"ban", "unban", "kick_commit"}
                        => founder[op[u].nation] # op[u].target

(* What the proofs need besides: the founder of a nation is a user with a   *)
(* wallet in it, a registration that goes on is of a registered user, and   *)
(* handlers never hold a nation that does not exist yet.                    *)
FounderStanding ==
    \A n \in Nation : founder[n] # NoUser =>
        /\ founder[n] \in registered
        /\ holding[founder[n]][n] # "absent"
        /\ nationState[n] # "absent"
KnownToHandlers ==
    \A u \in User :
        /\ op[u].step \in {"registered", "syncing"} => u \in registered
        /\ op[u].step \in {"ban", "unban", "kick_commit"}
               => nationState[op[u].nation] # "absent"
        /\ \A n \in op[u].rows : nationState[n] # "absent"

\* The inductive invariants: of the rows, of the handlers' records, and both.
RowsInv == NoPartialCitizenship /\ FounderRole /\ FounderStanding /\ OneNationPerFounder
HandlersInv == KnownToHandlers /\ KickSparesFounder
CitizenshipInv == TypeOK /\ RowsInv /\ HandlersInv

\* A dissolved nation has no citizen.
NoCitizenOfDissolved ==
    \A u \in User : \A n \in activeIn[u] : nationState[n] # "dissolved"

\* Human citizenship is backed by Telegram: once the pair's updates are
\* handled and nothing is underway for the user, a citizen is in the group.
Settled(u, n) ==
    /\ op[u] = Idle
    /\ \A e \in inflight : ~(e.nation = n /\ e.user = u)
    /\ \A a \in User : op[a].target = u => op[a] = Idle
HumanCitizenBacked ==
    \A u \in User : \A n \in activeIn[u] \cap Human :
        Settled(u, n) /\ nationState[n] = "active" => truth[n][u] = "member"

(* Action properties *)

\* ROLE_LIMITS: a nation gets more ministers or traders than the limit only when
\* one of them returns, who kept the role in a row that was inactive. Neither
\* two appointments at once nor an appointment made on a stale reading of the
\* actor's role goes over it.
Crowded(n, r) ==
    Cardinality(Holders(n, r)) > (IF r = "minister" THEN MinisterLimit ELSE TraderLimit)
Returns(n, r) ==
    \E u \in User : memberRole[u][n] = r /\ n \notin activeIn[u] /\ n \in activeIn'[u]
LimitsBrokenOnlyByReturn ==
    [][\A n \in Nation : \A r \in {"minister", "trader"} :
            Crowded(n, r)' /\ ~Crowded(n, r) => Returns(n, r)]_vars

\* A chat_member update of a live nation is written to the projection.
UpdatePersisted ==
    [][\A e \in inflight : e \notin inflight' /\ nationState[e.nation] = "active"
            => proj'[e.nation][e.user] = e.status]_vars

\* A comment of kick_member says that the chat_member event of a kick is
\* idempotent with what the kick has written: the removal of a registered user
\* who is not a citizen any more takes nobody off the count.
KickEventIdempotent ==
    [][\A e \in inflight :
            e \notin inflight' /\ e.status # "member" /\ e.user \in registered
            /\ e.nation \notin activeIn[e.user]
                => count'[e.nation] = count[e.nation]]_vars

\* A kick liquidates: whoever loses a nation while the group removes them for
\* a kick has nothing left in its currency at that moment, through whichever
\* of the handlers it happens. A leave of their own that is still on its way
\* when the group removes them does not count.
LeftBefore(u, n) ==
    \E e \in inflight :
        /\ e.nation = n /\ e.user = u /\ e.status = "left"
        /\ \A f \in inflight : f.nation = n /\ f.user = u /\ f.status = "kicked"
                                  => e.at < f.at
KickUnderway(u, n) ==
    \E a \in User : op[a].step \in {"unban", "kick_commit"}
                    /\ op[a].target = u /\ op[a].nation = n
KickLiquidates ==
    [][\A u \in User : \A n \in Human :
            KickUnderway(u, n) /\ n \in activeIn[u] /\ n \notin activeIn'[u]
            /\ ~LeftBefore(u, n) => holding'[u][n] # "funded"]_vars

(* Refinement *)

\* users.home_nation_id, which the rest of the game reads, implements the
\* abstract citizenship.
Abstract == INSTANCE Citizenship WITH citizenOf <- home, state <- nationState
ImplementsCitizenship == Abstract!CitizenshipSpec

(* Liveness *)

\* The documentation says that the count of a human nation is refreshed from
\* Telegram: when everybody comes to rest it becomes, and stays, Telegram's total.
CountConverges ==
    \A n \in Human :
        <>[](nationState[n] = "active" => count[n] = Population(n))

\* Without fairness for the rate engine: when everybody comes to rest, the count
\* becomes and stays one of the two totals, Telegram's or the projection's.
\* Whatever kicks, repairs, repeated updates and totals written late did to it
\* is repaired.
CountSettles ==
    \A n \in Human :
        <>[](nationState[n] = "active" => count[n] \in {Population(n), Recorded(n)})

=============================================================================
