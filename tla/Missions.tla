------------------------------ MODULE Missions ------------------------------
(*****************************************************************************)
(* One repeating mission of one player: trades add to it, the list of        *)
(* missions shows it, the reward is claimed. Adding and claiming lock the    *)
(* progress row; the list reads it without a lock and, when the window is    *)
(* over, resets it in the same transaction.                                  *)
(*****************************************************************************)
EXTENDS Game

CONSTANTS
    Target,         \* missions.target_count
    MaxWindows,     \* bound: windows that pass
    MaxCompletions  \* bound: completions in a window, or not paid yet

ASSUME MissionsAssumption == Target \in Nat \ {0} /\ MaxWindows \in Nat /\ MaxCompletions \in Nat

VARIABLES
    row,            \* user_mission_progress, or NoRow
    list,           \* the row as the list's transaction read it, or NoRow
    selected,       \* claims that have selected the mission, two presses at most
    windows,        \* windows that have passed
    touched,        \* history: the row was written since the list read it
    overwritten,    \* history: lists that wrote over a change made after they read
    completions,    \* history: completions since the window began
    unpaid,         \* history: completions minus rewards paid
    granted         \* history: the panel's reward in this window: "no", "held", "loose", "redone"

missionVars == <<row, list, selected, windows, touched, overwritten, completions, unpaid, granted>>

NoRow == [there |-> FALSE]

\* A row of a window that has just begun.
NewWindow == [there |-> TRUE, progress |-> 0, completed |-> FALSE, claimed |-> FALSE,
              expired |-> FALSE]

\* _reset_expired_progress
Renewed(r) == IF r.expired THEN NewWindow ELSE r

------------------------------------------------------------------------------
\* get_user_missions reads the rows.
ShowReads ==
    /\ list = NoRow /\ row # NoRow
    /\ list' = row
    /\ touched' = FALSE
    /\ UNCHANGED <<row, selected, windows, overwritten, completions, unpaid, granted>>

\* What was read and is reset is written column by column, where it changed.
ShowWrites ==
    /\ list # NoRow
    /\ LET column(f, zero) == IF list[f] # zero THEN zero ELSE row[f]
       IN  row' = IF ~list.expired THEN row
                  ELSE [there |-> TRUE, expired |-> FALSE,
                        progress |-> column("progress", 0),
                        completed |-> column("completed", FALSE),
                        claimed |-> column("claimed", FALSE)]
    /\ overwritten' = IF list.expired /\ touched THEN overwritten + 1 ELSE overwritten
    /\ list' = NoRow /\ touched' = FALSE
    /\ UNCHANGED <<selected, windows, completions, unpaid, granted>>

\* A completed mission takes no more until its window is over.
AddsTo(r) == ~r.completed

\* increment_mission, under the row's lock.
IncrementMission(amount) ==
    LET r == IF row = NoRow THEN NewWindow ELSE Renewed(row)
        p == Capped(r.progress + amount, Target)
    IN  /\ row' = IF AddsTo(r) THEN [r EXCEPT !.progress = p, !.completed = @ \/ p >= Target] ELSE r
        /\ LET done == AddsTo(r) /\ p >= Target
           IN  /\ completions' = IF done THEN completions + 1 ELSE completions
               /\ unpaid' = IF done THEN unpaid + 1 ELSE unpaid
               /\ granted' = IF done /\ granted = "held" THEN "redone" ELSE granted
        /\ touched' = (list # NoRow)
        /\ completions < MaxCompletions /\ unpaid < MaxCompletions
        /\ UNCHANGED <<list, selected, windows, overwritten>>

\* claim_all_rewards selects what is completed and not claimed.
ClaimSelects ==
    /\ selected < 2 /\ row # NoRow
    /\ row.completed /\ ~row.claimed
    /\ selected' = selected + 1
    /\ UNCHANGED <<row, list, windows, touched, overwritten, completions, unpaid, granted>>

\* Mutant: what was selected is paid.
ClaimableAsSelected(r) == TRUE

\* claim_reward, under the row's lock. The window may be over.
Claimable(r) == r.completed /\ ~r.claimed

\* The claim and the list that follows it in the same transaction.
ClaimPays ==
    /\ selected > 0
    /\ selected' = selected - 1
    /\ row' = IF Claimable(row) THEN Renewed([row EXCEPT !.claimed = TRUE]) ELSE Renewed(row)
    /\ unpaid' = IF Claimable(row) THEN unpaid - 1 ELSE unpaid
    /\ touched' = (list # NoRow)
    /\ UNCHANGED <<list, windows, overwritten, completions, granted>>

\* send_mission_reward: the row is made, or made complete and claimed, and reset_at
\* is left alone. Of a row that was not there it is NULL, which counts as expired.
PanelRewards ==
    /\ row' = [NewWindow EXCEPT !.progress = Target, !.completed = TRUE, !.claimed = TRUE,
                               !.expired = row = NoRow \/ row.expired]
    /\ unpaid' = IF row # NoRow /\ Claimable(row) THEN unpaid - 1 ELSE unpaid
    /\ granted' = IF row'.expired THEN "loose" ELSE "held"
    /\ touched' = (list # NoRow)
    /\ UNCHANGED <<list, selected, windows, overwritten, completions>>

\* reset_at passes.
WindowPasses ==
    /\ row # NoRow /\ ~row.expired /\ windows < MaxWindows
    /\ row' = [row EXCEPT !.expired = TRUE]
    /\ windows' = windows + 1
    /\ completions' = 0 /\ granted' = "no"
    /\ UNCHANGED <<list, selected, touched, overwritten, unpaid>>

------------------------------------------------------------------------------
MissionsInit ==
    /\ row = NoRow /\ list = NoRow /\ selected = 0
    /\ windows = 0 /\ touched = FALSE /\ overwritten = 0
    /\ completions = 0 /\ unpaid = 0 /\ granted = "no"

MissionsNext ==
    \/ ShowReads \/ ShowWrites
    \/ \E amount \in 1..Target : IncrementMission(amount)
    \/ ClaimSelects \/ ClaimPays \/ PanelRewards \/ WindowPasses

MissionsSpec == MissionsInit /\ [][MissionsNext]_missionVars

------------------------------------------------------------------------------
(* Properties *)

\* A mission is completed once in a window, and no reward is paid that was not
\* earned, whatever claims and lists overlap; except for a list that writes its
\* reset over what happened after its read. One of these lets the mission be
\* completed again in the same window; it takes two to pay for nothing. What the
\* panel rewarded is not completed again in the window, unless the row was new or
\* due for its reset: then the next list takes the panel's mark away.
RewardsAreEarned ==
    /\ completions <= 1 \/ overwritten > 0
    /\ unpaid >= 0 \/ overwritten > 1
    /\ granted # "redone" \/ overwritten > 0

=============================================================================
