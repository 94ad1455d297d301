------------------------------- MODULE Locks -------------------------------
(*****************************************************************************)
(* The row locks that the transactions listed in LocksNext hold until they   *)
(* commit, each in the order in which its code takes them: SELECT ... FOR    *)
(* UPDATE, the UPDATEs of a flush, and the player's row that an INSERT with  *)
(* a foreign key refers to. PostgreSQL grants a row that no other holds in a *)
(* mode in conflict, makes the others wait, and ends one transaction of a    *)
(* wait cycle. Left out are rows that are only locked under the lock of      *)
(* their nation or player, and transactions that lock a single row.          *)
(*****************************************************************************)
EXTENDS Game, SequencesExt

CONSTANTS
    Session,        \* database sessions of handlers, of the panel and of the jobs
    Land,           \* nations, by nation_id
    LivesIn,        \* Player -> Land: the active NationMember
    Robots,         \* the AI players of one batch, by user_id
    LessonId,       \* the lessons of one module, by lesson_id
    Ruling, Voted, \* proposals whose rule is in force, and proposals that are voted on
    ProposedBy      \* Proposal.proposer_player_id

ASSUME LocksAssumption ==
    /\ Land \subseteq Nat /\ IsFiniteSet(Land)
    /\ IsFiniteSet(Player) /\ LivesIn \in [Player -> Land]
    /\ LessonId \subseteq Nat \ {0} /\ IsFiniteSet(LessonId)
    /\ ProposedBy \in [Voted -> Player] /\ Ruling \cap Voted = {}
    /\ IsFiniteSet(Ruling) /\ IsFiniteSet(Voted)

VARIABLES
    todo,           \* session -> the locks its transaction still has to take, in order
    held,           \* session -> the locks it holds
    doing           \* session -> the transaction's function, or "nothing"

lockVars == <<todo, held, doing>>

------------------------------------------------------------------------------
(* The rows, and the modes of PostgreSQL's row locks. *)

UserRow(p) == <<"user", p>>
NationRow(n) == <<"nation", n>>
LessonRow(p, l) == <<"lesson", p, l>>
MotionRow(m) == <<"proposal", m>>
RuleRow(m) == <<"override", m>>

ForUpdate(row) == [row |-> row, mode |-> "update"]
Writes(row) == [row |-> row, mode |-> "write"]      \* FOR NO KEY UPDATE
RefersTo(row) == [row |-> row, mode |-> "share"]    \* FOR KEY SHARE

InConflict(a, b) ==
    a.row = b.row /\ ("update" \in {a.mode, b.mode} \/ (a.mode = "write" /\ b.mode = "write"))

------------------------------------------------------------------------------
(* The orders. *)

InOrder(S) == CHOOSE s \in SetToSeqs(S) : \A i, j \in DOMAIN s : i < j => s[i] < s[j]
AllForUpdate(rows) == [i \in DOMAIN rows |-> ForUpdate(rows[i])]
NationRows(s) == [i \in DOMAIN s |-> NationRow(s[i])]

\* First the player, then the nation: execute_trade_action, the first trade,
\* _join_user, _require_founder of the founding service.
PlayerThenNation(p, n) == <<ForUpdate(UserRow(p)), ForUpdate(NationRow(n))>>

\* First the nation, then a citizen: deposits, withdrawals, roles, kicks and the
\* chat_member handler. The log refers to the citizen who acts.
NationThenPlayer(n, p, actor) ==
    <<ForUpdate(NationRow(n)), ForUpdate(UserRow(p)), RefersTo(UserRow(actor))>>

\* Mutant: the declaring nation first.
BothNationsAsNamed(a, b) == <<ForUpdate(NationRow(a)), ForUpdate(NationRow(b))>>

\* declare_war and resolve_war.
BothNations(a, b) == AllForUpdate(NationRows(InOrder({a, b})))

\* The logs of declare_war refer to the citizen who declares it.
Declaration(a, b, actor) == BothNations(a, b) \o <<RefersTo(UserRow(actor))>>

\* confirm_dissolve: the nation, and its citizens as the join finds them.
Citizens(n) == {p \in Player : LivesIn[p] = n}
NationThenCitizens(n) ==
    { <<ForUpdate(NationRow(n))>> \o s : s \in SetToSeqs({ForUpdate(UserRow(p)) : p \in Citizens(n)}) }

\* update_nation_rates writes nation after nation as an unordered SELECT gave
\* them; update_nation_ranks in the order of the rates.
NationsAsFound == SetToSeqs({Writes(NationRow(n)) : n \in Land})

\* reset_daily_metrics: one flush, which orders its updates by primary key.
NationsInOrder ==
    LET land == InOrder(Land)
    IN  [i \in DOMAIN land |-> Writes(NationRow(land[i]))]

\* run_ai_world_cycle: every AI player and the nation it trades, in one transaction.
RobotsAndNations ==
    { FlattenSeq([i \in DOMAIN Robots |-> PlayerThenNation(Robots[i], n[i])])
        : n \in [DOMAIN Robots -> Land] }

\* complete_lesson: the lesson's progress, the player, the progress of its module.
ProgressThenPlayer(p, l) ==
    LET module == InOrder(LessonId)
    IN  <<ForUpdate(LessonRow(p, l)), ForUpdate(UserRow(p))>>
            \o [i \in DOMAIN module |-> ForUpdate(LessonRow(p, module[i]))]

\* cast_vote: the vote refers to the voter.
ProposalThenVoter(m, p) == <<ForUpdate(MotionRow(m)), RefersTo(UserRow(p))>>

\* revoke_override: the rule, then its proposal; the ledger refers to the founder.
RuleThenProposal(m, p) ==
    <<ForUpdate(RuleRow(m)), ForUpdate(MotionRow(m)), RefersTo(UserRow(p))>>

\* Any of S, in the order in which a SELECT finds them.
AsFound(S) == SetToAllKPermutations(S)
Rules(s) == [i \in DOMAIN s |-> ForUpdate(RuleRow(s[i]))]
Motions(s) == [i \in DOMAIN s |-> ForUpdate(MotionRow(s[i]))]

\* _activate_proposal, for each of s: the rule that is replaced, if any, then the proposer,
\* whom the ledger refers to.
Activations(s, replaced) ==
    [i \in 1..2 * Len(s) |->
        LET m == s[(i + 1) \div 2]
        IN  IF i % 2 = 1 /\ replaced[m] \in Ruling THEN ForUpdate(RuleRow(replaced[m]))
            ELSE RefersTo(UserRow(ProposedBy[m]))]

\* governance_cycle: rules that are suspended or resumed; proposals whose vote ends, then
\* their activations; proposals whose rule expires, then these rules.
Cycle == [turns : AsFound(Ruling), ends : AsFound(Voted), expires : AsFound(Ruling),
          replaced : [Voted -> Ruling \cup Voted]]
CycleOrders ==
    { (Rules(c.turns) \o Motions(c.ends))
        \o (Activations(c.ends, c.replaced) \o (Motions(c.expires) \o Rules(c.expires))) : c \in Cycle }

Jobs == {"rates", "reset", "robots", "cycle"}

\* They gather nations in no order.
Unordered == {"rates", "robots"}

------------------------------------------------------------------------------
Begin(s, name, order) ==
    /\ doing[s] = "nothing"
    /\ name \in Jobs => \A t \in Session : doing[t] # name      \* max_instances = 1
    /\ doing' = [doing EXCEPT ![s] = name]
    /\ todo' = [todo EXCEPT ![s] = order]
    /\ UNCHANGED held

\* The sessions that hold the next row of s in a mode in conflict.
WaitsFor(s) ==
    {t \in Session \ {s} : todo[s] # <<>> /\ \E a \in held[t] : InConflict(a, Head(todo[s]))}

Lock(s) ==
    /\ todo[s] # <<>> /\ WaitsFor(s) = {}
    /\ held' = [held EXCEPT ![s] = @ \cup {Head(todo[s])}]
    /\ todo' = [todo EXCEPT ![s] = Tail(@)]
    /\ UNCHANGED doing

\* A transaction ends: it commits,
Ends(s) ==
    /\ todo' = [todo EXCEPT ![s] = <<>>]
    /\ held' = [held EXCEPT ![s] = {}]
    /\ doing' = [doing EXCEPT ![s] = "nothing"]

Commit(s) == doing[s] # "nothing" /\ todo[s] = <<>> /\ Ends(s)

\* Sessions that wait for each other in a circle.
Circles == {C \in (SUBSET Session) \ {{}} :
                \A s \in C : /\ \E t \in C : t \in WaitsFor(s)
                             /\ \E t \in C : s \in WaitsFor(t)}

\* or it is the victim that PostgreSQL chooses: an error, and all of it rolled back.
DeadlockDetected(s) == (\E C \in Circles : s \in C) /\ Ends(s)

Human == Player \ ToSet(Robots)

LocksInit ==
    /\ todo = [s \in Session |-> <<>>]
    /\ held = [s \in Session |-> {}]
    /\ doing = [s \in Session |-> "nothing"]

LocksNext ==
    \E s \in Session :
        \/ Lock(s) \/ Commit(s) \/ DeadlockDetected(s)
        \/ \E p \in Human, n \in Land : Begin(s, "trade", PlayerThenNation(p, n))
        \/ \E p \in Player, q \in Human :
              LivesIn[p] = LivesIn[q] /\ Begin(s, "duty", NationThenPlayer(LivesIn[p], p, q))
        \/ \E b \in Land, q \in Human :
              b # LivesIn[q] /\ Begin(s, "war", Declaration(LivesIn[q], b, q))
        \/ \E a, b \in Land : a # b /\ Begin(s, "war", BothNations(a, b))
        \/ \E n \in Land : \E o \in NationThenCitizens(n) : Begin(s, "dissolve", o)
        \/ \E o \in NationsAsFound : Begin(s, "rates", o)
        \/ Begin(s, "reset", NationsInOrder)
        \/ \E o \in RobotsAndNations : Begin(s, "robots", o)
        \/ \E p \in Human, l \in LessonId : Begin(s, "lesson", ProgressThenPlayer(p, l))
        \/ \E m \in Voted, p \in Human : Begin(s, "vote", ProposalThenVoter(m, p))
        \/ \E m \in Ruling, p \in Human : Begin(s, "revoke", RuleThenProposal(m, p))
        \/ \E o \in CycleOrders : Begin(s, "cycle", o)

LocksSpec == LocksInit /\ [][LocksNext]_lockVars

------------------------------------------------------------------------------
(* Properties *)

\* The only circles of these transactions: one with the rate engine or the AI cycle,
\* which gather nations in no fixed order; one of two lessons of one player; one in
\* which a transaction that took a player before a nation meets one that took a nation
\* before a player; and one of the governance cycle, which takes a proposal before its
\* rule and players as it finds them, with a revocation or a dissolution. Nothing else
\* of them can deadlock, wars and votes included.
KnownDeadlocksOnly ==
    \A C \in Circles :
        \/ \E s \in C : doing[s] \in Unordered
        \/ \E s, t \in C : s # t /\ doing[s] = "lesson" /\ doing[t] = "lesson"
        \/ \E s, t \in C : doing[s] = "trade" /\ doing[t] \in {"duty", "dissolve", "war"}
        \/ \E s, t \in C : doing[s] = "cycle" /\ doing[t] \in {"revoke", "dissolve"}

=============================================================================
