------------------------------ MODULE Treasury ------------------------------
(*****************************************************************************)
(* The screens of one nation's treasury: a member deposits, the founder      *)
(* withdraws in three steps, and both declare wars from the list of targets. *)
(* What a step was shown may be old when its answer comes: members leave and *)
(* return, the nation is dissolved, other members move the same money, and a *)
(* confirmation is answered again. The locks of one transaction are in       *)
(* Wallets; here each transaction is one step.                               *)
(*****************************************************************************)
EXTENDS Game, FiniteSetsExt

CONSTANTS
    TheFounder,     \* nations.founder_user_id
    Entry,          \* the amounts a player types
    MinDeposit,     \* MIN_DEPOSIT
    Purse,          \* every player's ΩXR at the start
    NoVault,        \* there is no row in treasuries yet
    MaxPresses      \* bound: withdrawals answered

ASSUME TreasuryAssumption ==
    /\ IsFiniteSet(Player) /\ TheFounder \in Player
    /\ Entry \subseteq Nat /\ MinDeposit \in Nat /\ Purse \in Nat /\ NoVault \notin Int

VARIABLES
    rank,       \* NationMembership.role of the active row, or "none"
    standing,   \* Nation.is_active
    purse,      \* users.xr_balance
    vaultRow,   \* treasuries.balance_xr, or NoVault
    entry,      \* the dialogue: its state and the amount typed
    confirms,   \* the confirm buttons a player's chat shows, by amount
    war,        \* there is an active war with the neighbour
    warAsked,   \* what a player's chat shows: the target, then the button that confirms
    presses

treasuryVars == <<rank, standing, purse, vaultRow, entry, confirms, war, warAsked, presses>>

NothingTyped == [step |-> "none", amount |-> 0]

TreasuryStates == {"none", "ENTER_DEPOSIT_AMOUNT", "ENTER_WITHDRAW_AMOUNT", "CONFIRM_WITHDRAW"}

\* get_member_role
Role(u) == rank[u]
\* Mutant: whoever was shown the button may withdraw.
MayWithdrawByButton(u) == TRUE

MayWithdraw(u) == Role(u) = "founder"

\* The row is created when it is first needed.
Ensured(v) == IF v = NoVault THEN 0 ELSE v

SetEntry(u, e) == entry' = [entry EXCEPT ![u] = e]

------------------------------------------------------------------------------
\* Every screen that shows the treasury, the cancel button among them, clears
\* the dialogue and creates the row.
RenderTreasury(u) ==
    /\ SetEntry(u, NothingTyped)
    /\ vaultRow' = IF Role(u) = "none" THEN vaultRow ELSE Ensured(vaultRow)
    /\ UNCHANGED <<rank, standing, purse, confirms, war, warAsked, presses>>

ShowReport(u) ==
    /\ Role(u) # "none"
    /\ vaultRow' = Ensured(vaultRow)
    /\ UNCHANGED <<rank, standing, purse, entry, confirms, war, warAsked, presses>>

TreasuryBack(u) ==
    /\ SetEntry(u, NothingTyped)
    /\ UNCHANGED <<rank, standing, purse, vaultRow, confirms, war, warAsked, presses>>

StartDeposit(u) ==
    /\ Role(u) # "none"
    /\ SetEntry(u, [step |-> "ENTER_DEPOSIT_AMOUNT", amount |-> 0])
    /\ UNCHANGED <<rank, standing, purse, vaultRow, confirms, war, warAsked, presses>>

\* deposit_to_treasury and the dialogue after it: it stays open when the amount
\* is refused, and closes when the deposit is done or the nation is gone.
ReceiveDepositAmount(u, x) ==
    /\ entry[u].step = "ENTER_DEPOSIT_AMOUNT"
    /\ IF standing /\ purse[u] >= x /\ x >= MinDeposit
       THEN /\ purse' = [purse EXCEPT ![u] = @ - x]
            /\ vaultRow' = Ensured(vaultRow) + x
            /\ SetEntry(u, NothingTyped)
       ELSE /\ SetEntry(u, IF standing THEN entry[u] ELSE NothingTyped)
            /\ UNCHANGED <<purse, vaultRow>>
    /\ UNCHANGED <<rank, standing, confirms, war, warAsked, presses>>

StartWithdraw(u) ==
    /\ Role(u) = "founder"
    /\ SetEntry(u, [step |-> "ENTER_WITHDRAW_AMOUNT", amount |-> 0])
    /\ vaultRow' = Ensured(vaultRow)
    /\ UNCHANGED <<rank, standing, purse, confirms, war, warAsked, presses>>

ReceiveWithdrawAmount(u, x) ==
    /\ entry[u].step = "ENTER_WITHDRAW_AMOUNT"
    /\ SetEntry(u, [step |-> "CONFIRM_WITHDRAW", amount |-> x])
    /\ confirms' = [confirms EXCEPT ![u] = @ \cup {x}]
    /\ UNCHANGED <<rank, standing, purse, vaultRow, war, warAsked, presses>>

\* Text instead of a button: the button is shown once more.
ConfirmWithdrawText(u) ==
    /\ entry[u].step = "CONFIRM_WITHDRAW"
    /\ confirms' = [confirms EXCEPT ![u] = @ \cup {entry[u].amount}]
    /\ UNCHANGED <<rank, standing, purse, vaultRow, entry, war, warAsked, presses>>

\* The amount is in the button; the state of the dialogue is not asked.
\* gone: the edit of the message has taken the button away.
ConfirmWithdraw(u, x, gone) ==
    /\ x \in confirms[u] /\ presses < MaxPresses
    /\ presses' = presses + 1
    /\ IF ~MayWithdraw(u)
       THEN UNCHANGED <<purse, vaultRow, entry, confirms>>
       ELSE IF ~standing
       THEN SetEntry(u, NothingTyped) /\ UNCHANGED <<purse, vaultRow, confirms>>
       ELSE IF Ensured(vaultRow) < x
       THEN vaultRow' = Ensured(vaultRow) /\ UNCHANGED <<purse, entry, confirms>>
       ELSE /\ vaultRow' = Ensured(vaultRow) - x
            /\ purse' = [purse EXCEPT ![u] = @ + x]
            /\ SetEntry(u, NothingTyped)
            /\ confirms' = [confirms EXCEPT ![u] = IF gone THEN @ \ {x} ELSE @]
    /\ UNCHANGED <<rank, standing, war, warAsked>>

------------------------------------------------------------------------------
(* The war dialogue: two screens of buttons, the checks again at the end. *)

\* The neighbour is offered only while there is no war with it.
ShowWarTargets(u) ==
    /\ Role(u) \in {"founder", "minister"} /\ ~war
    /\ warAsked' = [warAsked EXCEPT ![u] = "target"]
    /\ UNCHANGED <<rank, standing, purse, vaultRow, entry, confirms, war, presses>>

ConfirmWarTarget(u) ==
    /\ warAsked[u] = "target"
    /\ Role(u) \in {"founder", "minister"} /\ standing /\ ~war
    /\ warAsked' = [warAsked EXCEPT ![u] = "confirm"]
    /\ UNCHANGED <<rank, standing, purse, vaultRow, entry, confirms, war, presses>>

\* Who may declare is looked up again, under the lock.
MayDeclare(u) == Role(u) \in {"founder", "minister"} /\ standing /\ ~war

ExecuteWarDeclaration(u) ==
    /\ warAsked[u] = "confirm" /\ MayDeclare(u)
    /\ war' = TRUE
    /\ vaultRow' = Ensured(vaultRow)
    /\ warAsked' = [warAsked EXCEPT ![u] = "none"]
    /\ UNCHANGED <<rank, standing, purse, entry, confirms, presses>>

------------------------------------------------------------------------------
(* What happens around the dialogues. *)

Leaves(u) ==
    /\ rank[u] # "none"
    /\ rank' = [rank EXCEPT ![u] = "none"]
    /\ UNCHANGED <<standing, purse, vaultRow, entry, confirms, war, warAsked, presses>>

Returns(u) ==
    /\ rank[u] = "none" /\ standing
    /\ rank' = [rank EXCEPT ![u] = IF u = TheFounder THEN "founder" ELSE "citizen"]
    /\ UNCHANGED <<standing, purse, vaultRow, entry, confirms, war, warAsked, presses>>

Dissolved ==
    /\ standing /\ rank[TheFounder] = "founder"
    /\ standing' = FALSE
    /\ rank' = [u \in Player |-> "none"]
    /\ UNCHANGED <<purse, vaultRow, entry, confirms, war, warAsked, presses>>

WarEnds ==
    /\ war /\ war' = FALSE
    /\ UNCHANGED <<rank, standing, purse, vaultRow, entry, confirms, warAsked, presses>>

------------------------------------------------------------------------------
TreasuryInit ==
    /\ rank \in {r \in [Player -> {"citizen", "minister", "founder"}] :
                    \A u \in Player : r[u] = "founder" <=> u = TheFounder}
    /\ standing = TRUE
    /\ purse = [u \in Player |-> Purse]
    /\ vaultRow = NoVault
    /\ entry = [u \in Player |-> NothingTyped]
    /\ confirms = [u \in Player |-> {}]
    /\ war = FALSE
    /\ warAsked = [u \in Player |-> "none"]
    /\ presses = 0

TreasuryStep(u) ==
    \/ RenderTreasury(u) \/ ShowReport(u) \/ TreasuryBack(u)
    \/ StartDeposit(u) \/ StartWithdraw(u) \/ ConfirmWithdrawText(u)
    \/ \E x \in Entry : ReceiveDepositAmount(u, x) \/ ReceiveWithdrawAmount(u, x)
    \/ \E x \in Entry, gone \in BOOLEAN : ConfirmWithdraw(u, x, gone)
    \/ ShowWarTargets(u) \/ ConfirmWarTarget(u) \/ ExecuteWarDeclaration(u)
    \/ Leaves(u) \/ Returns(u)

TreasuryNext == (\E u \in Player : TreasuryStep(u)) \/ Dissolved \/ WarEnds

TreasurySpec == TreasuryInit /\ [][TreasuryNext]_treasuryVars

------------------------------------------------------------------------------
(* Properties *)

Money == MapThenSumSet(LAMBDA u : purse[u], Player) + Ensured(vaultRow)

\* Nothing is lost or made between purses and treasury; and what leaves the
\* treasury goes to one who is founder at that moment, in an amount that player
\* typed before.
OnlyFounderTakesWhatWasTyped ==
    /\ Money' = Money
    /\ Ensured(vaultRow') < Ensured(vaultRow) =>
         \E u \in Player :
             /\ rank[u] = "founder" /\ standing
             /\ Ensured(vaultRow) - Ensured(vaultRow') \in confirms[u]
             /\ purse'[u] > purse[u]

\* A war is declared by somebody who is founder or minister when it is
\* declared, not when the target was shown, and for a nation that still exists.
WarByThoseInOffice ==
    ~war /\ war' => standing /\ \E u \in Player :
        warAsked[u] = "confirm" /\ rank[u] \in {"founder", "minister"}

\* Whatever dialogue of the treasury or the war screen is answered late or twice,
\* after a transfer of the founder's rank, a dissolution or a return: a step
\* takes money or declares war only for one who has the power at that moment.
PowersOfTheMoment == [][OnlyFounderTakesWhatWasTyped /\ WarByThoseInOffice]_treasuryVars

=============================================================================
