----------------------------- MODULE Governance -----------------------------
(*****************************************************************************)
(* Laws: proposals, votes, the hourly cycle that opens, closes, activates,   *)
(* suspends, resumes and revokes, the founder's immediate revocation, and    *)
(* the cache through which the rest of the game reads a rule. A cycle is one *)
(* transaction; it empties the cache of the rules it touches before it       *)
(* commits, and a reader that found the cache empty waits for the database   *)
(* before it fills it.                                                       *)
(*****************************************************************************)
EXTENDS Game, SequencesExt

CONSTANTS
    Motion,         \* proposals.id, in the order of creation
    Rule,           \* the rules a proposal may change, one target each
    Voter,
    Weight,         \* the weight of a voter's vote
    MinQuorum,      \* governance_min_quorum_weight
    MaxLaws,        \* governance_max_active_rules
    NoRule,
    Reader          \* the calls of resolve that may wait for the database at a time

ASSUME GovernanceAssumption ==
    /\ Motion \subseteq Nat \ {0} /\ IsFiniteSet(Motion) /\ NoRule \notin Rule
    /\ Weight \in [Voter -> Nat] /\ MinQuorum \in Nat \ {0} /\ MaxLaws \in Nat \ {0}

VARIABLES
    status,         \* proposals.status, "none" when there is no row
    about,          \* proposals.rule_key and target
    age,            \* 0 voting, 1 voting over, 2 draft window over, 3 not effective any more
    votes,          \* the vote of each voter, "none" when there is no row
    law,            \* the override of a proposal: "none", "active", "suspended", "ended"
    hourOver,       \* suspended laws whose suspended_until has passed
    jump,           \* a jump of wealth that the breaker has not handled
    cycle,          \* the cycle's transaction before its commit, or NoCycle
    revoking,       \* laws whose revocation is not committed yet
    cache,          \* what resolve keeps of a rule: a proposal, 0 for the default, or NoEntry
    reading,        \* the answer that a call of resolve has and has not kept yet, or NoAnswer, with
                    \* a history: missed, the cache was emptied since or for a commit to come
    superseded,     \* history: <<p, q>>, q became law while p was suspended
    halted,         \* history: laws that were suspended at least once
    early           \* history: rules for which resolve kept such an answer

governanceVars == <<status, about, age, votes, law, hourOver, jump, cycle, revoking, cache,
                    superseded, halted, early, reading>>

NoCycle == [touched |-> {}]
NoEntry == -1
NoAnswer == [rule |-> NoRule, law |-> NoEntry, missed |-> FALSE]

Active(L) == {p \in Motion : L[p] = "active"}

\* The laws that resolve chooses from: active, and not past active_until.
InForce(r) == {p \in Active(law) : about[p] = r /\ age[p] < 3}

\* At most one, see LawsWithinLimit; 0 is the registry's default.
Resolved(r) == IF InForce(r) = {} THEN 0 ELSE Max(InForce(r))

\* Mutant: nothing is invalidated.
CacheWithoutNone(rules) == cache

\* invalidate_rule_cache
CacheWithout(rules) == [r \in Rule |-> IF r \in rules THEN NoEntry ELSE cache[r]]

\* It does not reach the calls of resolve that are under way.
Empties(rules) ==
    /\ cache' = CacheWithout(rules)
    /\ early' = early \ rules
    /\ reading' = [c \in Reader |-> [reading[c] EXCEPT !.missed = @ \/ reading[c].rule \in rules]]

------------------------------------------------------------------------------
(* Proposals and votes. *)

\* create_proposal; ids are taken in order.
CreateProposal(p, r) ==
    /\ status[p] = "none" /\ \A q \in Motion : q < p => status[q] # "none"
    /\ status' = [status EXCEPT ![p] = "draft"]
    /\ about' = [about EXCEPT ![p] = r]
    /\ UNCHANGED <<age, votes, law, hourOver, jump, cycle, revoking, cache,
                   superseded, halted, early, reading>>

\* Mutant: whether the vote is still open is not looked at under the lock.
MayVoteLocked(v, p) == status[p] # "none" /\ votes[p][v] = "none"

\* The proposal's row is locked; "now" was read before the wait for it, so that
\* the vote may be over when it is recorded, but not closed.
MayVote(v, p) == status[p] = "voting" /\ age[p] <= 1 /\ votes[p][v] = "none"

CastVote(v, p, choice) ==
    /\ p \notin cycle.touched /\ MayVote(v, p)
    /\ votes' = [votes EXCEPT ![p][v] = choice]
    /\ UNCHANGED <<status, about, age, law, hourOver, jump, cycle, revoking, cache,
                   superseded, halted, early, reading>>

\* The weight of those whose vote on a ballot is one of the choices.
Total(ballot, choices) == FoldSet(LAMBDA v, sum : Weight[v] + sum, 0,
                                  {v \in Voter : ballot[v] \in choices})

HasQuorum(ballot) == Total(ballot, {"for", "against", "abstain"}) >= MinQuorum
Carried(ballot) == Total(ballot, {"for"}) > Total(ballot, {"against"})

Decision(p) ==
    IF ~HasQuorum(votes[p]) THEN "expired" ELSE IF ~Carried(votes[p]) THEN "rejected" ELSE "passed"

------------------------------------------------------------------------------
(* The cycle. *)

\* check_circuit_breaker: a jump suspends every law, once.
AfterBreaker ==
    IF jump THEN [p \in Motion |-> IF law[p] = "active" THEN "suspended" ELSE law[p]]
    ELSE law

\* The suspended laws whose time has come and which are still to be in effect.
Returning(L) == {p \in hourOver : L[p] = "suspended" /\ age[p] < 3}

\* Mutant: a newer law is not looked for.
ConflictsNever(L, p) == FALSE

Conflicts(L, p) == \E q \in Active(L) \ {p} : about[q] = about[p]

\* One after the other: a law whose place is taken ends.
ResumeOne(L, p) == [L EXCEPT ![p] = IF Conflicts(L, p) THEN "ended" ELSE "active"]

AfterResume(order) ==
    LET after[k \in 0..Len(order)] ==
            IF k = 0 THEN AfterBreaker ELSE ResumeOne(after[k - 1], order[k])
    IN  after[Len(order)]

\* Drafts: too old ones expire, those in their time open; votings that are over close.
AfterVoting ==
    [p \in Motion |->
        CASE status[p] = "draft" /\ age[p] >= 2 -> "expired"
          [] status[p] = "draft" /\ age[p] = 0 -> "voting"
          [] status[p] = "voting" /\ age[p] >= 1 -> Decision(p)
          [] OTHER -> status[p]]

\* Mutant: the number of laws is not looked at.
HasPlaceAlways(L) == TRUE

HasPlace(L) == Cardinality(Active(L)) < MaxLaws

\* _activate_proposal: it replaces the active law on its rule, or takes a place.
ActivateOne(s, p) ==
    LET old == {q \in Active(s.law) : about[q] = about[p]}
    IN  IF p \in s.made \/ (old = {} /\ ~HasPlace(s.law)) THEN s
        ELSE [law |-> [q \in Motion |-> IF q = p THEN "active" ELSE
                                        IF q \in old THEN "ended" ELSE s.law[q]],
              made |-> s.made \union {p}]

Activated(s, order) ==
    LET after[k \in 0..Len(order)] == IF k = 0 THEN s ELSE ActivateOne(after[k - 1], order[k])
    IN  after[Len(order)]

\* Every order of the rows a query without ORDER BY may return.
Orders(S) == {s \in [1..Cardinality(S) -> S] : Cardinality(Range(s)) = Cardinality(S)}

Passed == {p \in Motion : status[p] = "voting" /\ AfterVoting[p] = "passed"}
Waiting == {p \in Motion : AfterVoting[p] = "passed" /\ age[p] \in {1, 2}}

\* The laws whose time is over, those made a moment ago included.
Over(made) == {p \in Motion : age[p] = 3 /\ (p \in made \/ AfterVoting[p] = "active")}

\* What the cycle leaves of the laws and the proposals.
LawsAfter(on) ==
    [p \in Motion |-> IF p \in Over(on.made) /\ on.law[p] = "active" THEN "ended" ELSE on.law[p]]

StatusAfter(made) ==
    [p \in Motion |-> IF p \in Over(made) THEN "revoked" ELSE
                      IF p \in made THEN "active" ELSE AfterVoting[p]]

\* The suspended laws that came back, and all rules whose cache the cycle empties.
Ran(resume) == {p \in Motion : law[p] = "suspended" /\ resume[p] = "active"}

Emptied(resume, made) ==
    {about[p] : p \in Ran(resume) \union made \union Over(made) \union
                      {q \in Motion : law[q] # AfterBreaker[q]}}

\* governance_cycle up to its commit. What was just passed is activated before
\* what waited for a place.
CycleRuns ==
    /\ cycle = NoCycle /\ revoking = {}
    /\ \E first \in Orders(Returning(AfterBreaker)), second \in Orders(Passed),
          third \in Orders(Waiting) :
           LET resume == AfterResume(first)
               on == Activated(Activated([law |-> resume, made |-> {}], second), third)
               laws == LawsAfter(on)
               stati == StatusAfter(on.made)
           IN  /\ cycle' = [touched |-> {p \in Motion : laws[p] # law[p] \/ stati[p] # status[p]},
                            status |-> stati, law |-> laws, ran |-> Ran(resume),
                            pairs |-> {pq \in Motion \X on.made :
                                           resume[pq[1]] = "suspended" /\ about[pq[1]] = about[pq[2]]},
                            stop |-> {p \in Motion : law[p] = "active" /\ resume[p] = "suspended"},
                            jumped |-> jump, emptied |-> Emptied(resume, on.made)]
               /\ Empties(Emptied(resume, on.made))
    /\ UNCHANGED <<status, about, age, votes, law, hourOver, jump, revoking,
                   superseded, halted>>

Merge(old, new) == [p \in Motion |-> IF p \in cycle.touched THEN new[p] ELSE old[p]]

CycleCommits ==
    /\ cycle # NoCycle
    /\ status' = Merge(status, cycle.status) /\ law' = Merge(law, cycle.law)
    /\ jump' = (jump /\ ~cycle.jumped)
    /\ hourOver' = {p \in hourOver : law'[p] = "suspended"} \ cycle.stop
    /\ superseded' = superseded \union cycle.pairs
    /\ halted' = halted \union cycle.stop
    /\ cycle' = NoCycle
    /\ UNCHANGED <<about, age, votes, revoking, cache, early, reading>>

\* The transaction is rolled back: the next hour tries again.
CycleFails ==
    /\ cycle # NoCycle
    /\ cycle' = NoCycle
    /\ UNCHANGED <<status, about, age, votes, law, hourOver, jump, revoking, cache,
                   superseded, halted, early, reading>>

------------------------------------------------------------------------------
(* The founder's revocation, and the cache. *)

RevokeOverride(p) ==
    /\ law[p] = "active" /\ revoking = {} /\ cycle = NoCycle
    /\ revoking' = {p}
    /\ Empties({about[p]})
    /\ UNCHANGED <<status, about, age, votes, law, hourOver, jump, cycle,
                   superseded, halted>>

RevokeCommits(p) ==
    /\ p \in revoking
    /\ law' = [law EXCEPT ![p] = "ended"] /\ status' = [status EXCEPT ![p] = "revoked"]
    /\ revoking' = {}
    /\ UNCHANGED <<about, age, votes, hourOver, jump, cycle, cache,
                   superseded, halted, early, reading>>

\* The cache was emptied for a commit that is still to come.
Awaited(r) == (cycle # NoCycle /\ r \in cycle.emptied) \/ \E p \in revoking : about[p] = r

Answered(c) == reading[c].rule # NoRule

\* resolve finds nothing in the cache and asks the database, which answers with what
\* is committed, ...
ResolveReads(c, r) ==
    /\ cache[r] = NoEntry /\ ~Answered(c)
    /\ reading' = [reading EXCEPT ![c] = [rule |-> r, law |-> Resolved(r), missed |-> Awaited(r)]]
    /\ UNCHANGED <<status, about, age, votes, law, hourOver, jump, cycle, revoking, cache,
                   superseded, halted, early>>

\* ... and keeps the answer, whatever the cache has become meanwhile.
ResolveKeeps(c) ==
    /\ Answered(c)
    /\ LET r == reading[c].rule
       IN  /\ cache' = [cache EXCEPT ![r] = reading[c].law]
           /\ early' = IF reading[c].missed THEN early \union {r} ELSE early \ {r}
    /\ reading' = [reading EXCEPT ![c] = NoAnswer]
    /\ UNCHANGED <<status, about, age, votes, law, hourOver, jump, cycle, revoking,
                   superseded, halted>>

\* Thirty seconds pass.
CacheExpires(r) ==
    /\ cache[r] # NoEntry
    /\ cache' = [cache EXCEPT ![r] = NoEntry] /\ early' = early \ {r}
    /\ UNCHANGED <<status, about, age, votes, law, hourOver, jump, cycle, revoking, reading,
                   superseded, halted>>

------------------------------------------------------------------------------
(* Time, and the snapshots of the rate engine. *)

\* Every proposal has the same time; what was proposed first is over first.
ProposalAges(p) ==
    /\ status[p] # "none" /\ age[p] < 3
    /\ \A q \in Motion : q < p => age[q] > age[p]
    /\ age' = [age EXCEPT ![p] = @ + 1]
    /\ UNCHANGED <<status, about, votes, law, hourOver, jump, cycle, revoking, cache,
                   superseded, halted, early, reading>>

HourPasses ==
    /\ hourOver' = {p \in Motion : law[p] = "suspended"}
    /\ UNCHANGED <<status, about, age, votes, law, jump, cycle, revoking, cache,
                   superseded, halted, early, reading>>

\* create_behavior_snapshot: the average has changed by more than the breaker allows.
NewSnapshot ==
    /\ cycle = NoCycle
    /\ jump' = TRUE
    /\ UNCHANGED <<status, about, age, votes, law, hourOver, cycle, revoking, cache,
                   superseded, halted, early, reading>>

------------------------------------------------------------------------------
GovernanceInit ==
    /\ status = [p \in Motion |-> "none"] /\ about = [p \in Motion |-> NoRule]
    /\ age = [p \in Motion |-> 0] /\ votes = [p \in Motion |-> [v \in Voter |-> "none"]]
    /\ law = [p \in Motion |-> "none"] /\ hourOver = {} /\ jump = FALSE
    /\ cycle = NoCycle /\ revoking = {} /\ cache = [r \in Rule |-> NoEntry]
    /\ superseded = {} /\ halted = {} /\ early = {}
    /\ reading = [c \in Reader |-> NoAnswer]

GovernanceNext ==
    \/ \E p \in Motion, r \in Rule : CreateProposal(p, r)
    \/ \E v \in Voter, p \in Motion, choice \in {"for", "against"} : CastVote(v, p, choice)
    \/ CycleRuns \/ CycleCommits \/ CycleFails
    \/ \E p \in Motion : RevokeOverride(p) \/ RevokeCommits(p) \/ ProposalAges(p)
    \/ \E r \in Rule : CacheExpires(r) \/ (\E c \in Reader : ResolveReads(c, r))
    \/ \E c \in Reader : ResolveKeeps(c)
    \/ HourPasses \/ NewSnapshot

GovernanceSpec == GovernanceInit /\ [][GovernanceNext]_governanceVars

------------------------------------------------------------------------------
(* Properties *)

\* What became of a proposal is what all the votes recorded for it say, also
\* those that arrive while it is being closed.
EveryVoteCounts ==
    \A p \in Motion : /\ status[p] \in {"passed", "active", "revoked"} => Decision(p) = "passed"
                      /\ status[p] \in {"rejected", "expired"} => Decision(p) = status[p]

\* No rule has two active laws; and the number of laws grows beyond the limit only
\* in a cycle in which a suspended law came back.
LawsWithinLimit ==
    [][/\ \A p, q \in Active(law)' : about'[p] = about'[q] => p = q
       /\ LET before == Cardinality(Active(law))
              after == Cardinality(Active(law)')
          IN  after > MaxLaws /\ after > before => cycle # NoCycle /\ cycle.ran # {}]_governanceVars

\* A law that another replaced while it was suspended comes back only when the
\* other one was itself suspended or is over.
ReplacedReturnsOnlyByJump ==
    \A pq \in superseded :
        law[pq[1]] = "active" => pq[2] \in halted \/ law[pq[2]] = "ended"

\* The rest of the game sees another law than the one in force only if the law was
\* read before the commit of a change and kept after the cache had been emptied for
\* that change, or if its time has passed since it was read.
StaleRuleOnlyByEarlyRead ==
    \A r \in Rule : cache[r] \notin {NoEntry, Resolved(r)} =>
        r \in early \/ (cache[r] \in Motion /\ age[cache[r]] = 3)

=============================================================================
