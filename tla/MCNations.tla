------------------------------ MODULE MCNations ------------------------------
(***************************************************************************)
(* The instance for what is done to a nation: its treasury, laws, proposals, *)
(* founding, locks, offices and the world around it. These parts share no    *)
(* state with one another in the model: a behaviour chooses one of them at   *)
(* its start and stays in it, and the variables of the others keep their     *)
(* first values. The state space is the sum of those of the parts.           *)
(***************************************************************************)
EXTENDS Treasury, Governance, Proposing, Founding, Locks, Offices, World, TLC

CONSTANTS u1, u2, m2, r1

VARIABLE part

\* One founder with two handlers at once, or two founders whose claims overlap.
FoundingParts == {"founding", "founders"}

Parts == FoundingParts \cup {"treasury", "governance", "proposing", "locks", "offices", "world"}

MCWeight == [v \in Voter |-> 2]
MCRobots == <<u2>>
MCLivesIn == [p \in Player |-> 1]
MCProposedBy == [m \in Voted |-> IF m = m2 THEN u1 ELSE u2]


\* Sessions, handlers and rules are alike: of those that are free the first is taken.
SessionsInTurn ==
    \A s, t \in Session : s < t /\ doing[s] = "nothing" /\ doing[t] = "nothing" => doing'[t] = "nothing"
TasksInTurn ==
    \A t, x \in Task : t < x /\ task[t] = NoTask /\ task[x] = NoTask => task'[x] = NoTask
FirstRuleFirst == about'[1] \in {NoRule, r1}

\* Nobody has written to the bot yet but one founder.
OneFounder ==
    \E u \in Candidate : \A v \in Candidate \ {u} :
        /\ fsm[v] = "none" /\ ~known[v] /\ draft[v] = NoDraft
        /\ \A t \in Task : task[t].of # v

\* Handlers of different founders overlap where a capital or a code is claimed.
Claims(t) ==
    \/ task[t].at = "binding"
    \/ task[t].at = "asks" /\ task[t].state = "SET_CURRENCY_CODE" /\ ~task[t].stale
OverlapInClaims ==
    LET busy == {t \in Task : task[t] # NoTask}
    IN  \A t, x \in busy : t # x => task[t].of # task[x].of /\ Claims(t) /\ Claims(x)

\* The part p stays, and every other part is left alone.
StaysIn(p) ==
    /\ UNCHANGED part
    /\ IF p = "treasury" THEN TRUE ELSE UNCHANGED treasuryVars
    /\ IF p = "governance" THEN TRUE ELSE UNCHANGED governanceVars
    /\ IF p = "proposing" THEN TRUE ELSE UNCHANGED proposingVars
    /\ IF p \in FoundingParts THEN TRUE ELSE UNCHANGED foundingVars
    /\ IF p = "locks" THEN TRUE ELSE UNCHANGED lockVars
    /\ IF p = "offices" THEN TRUE ELSE UNCHANGED officeVars
    /\ IF p = "world" THEN TRUE ELSE UNCHANGED worldVars

\* The first state of a part is fixed while another part is looked at.
PartsInit ==
    /\ part \in Parts
    /\ TreasuryInit /\ GovernanceInit /\ ProposingInit /\ FoundingInit /\ LocksInit
    /\ OfficesInit /\ WorldInit
    /\ part # "treasury" => \A u \in Player \ {TheFounder} : rank[u] = "citizen"

PartsNext ==
    \/ part = "treasury"   /\ TreasuryNext /\ StaysIn("treasury")
    \/ part = "governance" /\ GovernanceNext /\ FirstRuleFirst /\ StaysIn("governance")
    \/ part = "proposing"  /\ ProposingNext /\ StaysIn("proposing")
    \/ part = "founding"   /\ FoundingNext /\ OneFounder' /\ TasksInTurn /\ StaysIn("founding")
    \/ part = "founders"   /\ FoundingNext /\ OverlapInClaims' /\ TasksInTurn /\ StaysIn("founders")
    \/ part = "locks"      /\ LocksNext /\ SessionsInTurn /\ StaysIn("locks")
    \/ part = "offices"    /\ OfficesNext /\ StaysIn("offices")
    \/ part = "world"      /\ WorldNext /\ StaysIn("world")

PartsSpec ==
    PartsInit /\ [][PartsNext]_<<part, treasuryVars, governanceVars, proposingVars,
        foundingVars, lockVars, officeVars, worldVars>>

\* What was typed minutes after a button is used only if its author may still: proposals by those
\* eligible, announcements by those in office.
TypedByTheEligible == ProposalsByTheEligible /\ AnnouncementsByOfficers

=============================================================================
