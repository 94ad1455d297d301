----------------------------- MODULE Proposing ------------------------------
(*****************************************************************************)
(* The dialogue in which a player proposes a law: the rule, its value, the   *)
(* confirmation. Who may propose depends on wealth, rank and nation, which   *)
(* change meanwhile; it is looked at in every step. The value and the nation *)
(* are kept in the dialogue from the step that took them.                    *)
(*****************************************************************************)
EXTENDS Game

CONSTANTS
    Topic,          \* rules of the registry
    NationTopic,    \* those whose target is the proposer's nation
    Homeland,       \* nations
    Nowhere,        \* no nation, no topic
    MaxMotions      \* bound: proposals of the player

ASSUME ProposingAssumption ==
    NationTopic \subseteq Topic /\ Nowhere \notin Homeland \union Topic /\ MaxMotions \in Nat

VARIABLES
    wish,           \* the proposer's dialogue
    eligible,       \* among the richest of the nation, or a founder
    homeland,       \* users.home_nation_id of the proposer
    confirming,     \* presses of "confirm" that read the dialogue and are not through
    motions,        \* proposals: the target and the circumstances of each
    dialogues,      \* history: confirmation panels shown
    doubled         \* history: presses that read a dialogue another press had read

proposingVars == <<wish, eligible, homeland, confirming, motions, dialogues, doubled>>

NoWish == [state |-> "none", topic |-> Nowhere, target |-> Nowhere]

TargetOf(topic) == IF topic \in NationTopic THEN homeland ELSE Nowhere

\* governance_new: the dialogue starts empty.
GovernanceNew ==
    /\ eligible
    /\ wish' = NoWish
    /\ UNCHANGED <<eligible, homeland, confirming, motions, dialogues, doubled>>

\* governance_select_rule; the keyboard may be an old one.
GovernanceSelectRule(topic) ==
    /\ eligible
    /\ wish' = [wish EXCEPT !.state = "WAITING_VALUE", !.topic = topic]
    /\ UNCHANGED <<eligible, homeland, confirming, motions, dialogues, doubled>>

\* governance_receive_value with a valid value.
GovernanceReceiveValue ==
    /\ wish.state = "WAITING_VALUE"
    /\ IF eligible
       THEN /\ wish' = [wish EXCEPT !.state = "CONFIRM_PROPOSAL", !.target = TargetOf(wish.topic)]
            /\ dialogues' = Capped(dialogues + 1, MaxMotions)
       ELSE wish' = NoWish /\ UNCHANGED dialogues
    /\ UNCHANGED <<eligible, homeland, confirming, motions, doubled>>

\* governance_confirm reads the dialogue.
PressConfirm ==
    /\ wish.state = "CONFIRM_PROPOSAL" /\ Len(confirming) < 2
    /\ confirming' = Append(confirming, wish)
    /\ doubled' = IF \E i \in DOMAIN confirming : confirming[i] = wish
                  THEN doubled + 1 ELSE doubled
    /\ dialogues < MaxMotions /\ doubled < MaxMotions /\ Len(motions) < MaxMotions
    /\ UNCHANGED <<wish, eligible, homeland, motions, dialogues>>

\* Mutant: what was looked at when the value was typed is enough.
MayProposeAsTyped(w) == w.target # Nowhere \/ w.topic \notin NationTopic

\* The checks of create_proposal.
MayPropose(w) == MayProposeAsTyped(w) /\ eligible

\* create_proposal, and the end of the dialogue, whichever is in progress.
GovernanceConfirm(i) ==
    /\ i \in DOMAIN confirming
    /\ confirming' = SubSeq(confirming, 1, i - 1) \o SubSeq(confirming, i + 1, Len(confirming))
    /\ IF MayPropose(confirming[i])
       THEN /\ motions' = Append(motions, [topic |-> confirming[i].topic,
                                           target |-> confirming[i].target,
                                           by |-> eligible, from |-> homeland])
            /\ wish' = NoWish
       ELSE UNCHANGED <<motions, wish>>
    /\ Len(motions) < MaxMotions
    /\ UNCHANGED <<eligible, homeland, dialogues, doubled>>

GovernanceCancel ==
    /\ wish' = NoWish
    /\ UNCHANGED <<eligible, homeland, confirming, motions, dialogues, doubled>>

\* Trades of the player and of compatriots, a move to another nation. With the role
\* of a founder one is eligible without a nation, too.
StandingChanges(e, h) ==
    /\ eligible' = e /\ homeland' = h
    /\ UNCHANGED <<wish, confirming, motions, dialogues, doubled>>

ProposingInit ==
    /\ wish = NoWish /\ eligible = FALSE /\ homeland = Nowhere
    /\ confirming = <<>> /\ motions = <<>> /\ dialogues = 0 /\ doubled = 0

ProposingNext ==
    \/ GovernanceNew \/ GovernanceReceiveValue \/ PressConfirm \/ GovernanceCancel
    \/ \E topic \in Topic : GovernanceSelectRule(topic)
    \/ \E i \in 1..2 : GovernanceConfirm(i)
    \/ \E e \in BOOLEAN, h \in Homeland \union {Nowhere} : StandingChanges(e, h)

ProposingSpec == ProposingInit /\ [][ProposingNext]_proposingVars

------------------------------------------------------------------------------
(* Properties *)

\* Whatever changed since the dialogue began: a proposal is recorded only for
\* somebody who may propose at that moment, a law of a nation names a nation, and
\* there are no more proposals than confirmation panels and overlapping presses.
ProposalsByTheEligible ==
    /\ \A i \in DOMAIN motions :
        /\ motions[i].by
        /\ motions[i].topic \in NationTopic <=> motions[i].target # Nowhere
    /\ Len(motions) <= dialogues + doubled

=============================================================================
