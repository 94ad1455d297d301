----------------------------- MODULE Onboarding -----------------------------
(*****************************************************************************)
(* A new player's way in: the name, the choice of a nation and the first     *)
(* trade; and the settings, where the name is changed later. Every answer is *)
(* handled against the dialogue's state in Redis and rows that other players *)
(* may have written since the question. A handler that uses a name its       *)
(* module does not define stops there: what it wrote before stays written,   *)
(* the rest never happens.                                                   *)
(*****************************************************************************)
EXTENDS Game

CONSTANTS
    Newcomer,       \* Telegram users who start, and may become players
    Name,           \* trader names, valid ones
    NoName,
    Twins,          \* names that differ in the case of letters only
    Capital,        \* the first holding, in lots of fifty
    Bounds          \* bounds to choose from: presses of the first trade, who uses the
                    \* settings, and the names that are typed

ASSUME OnboardingAssumption ==
    /\ NoName \notin Name /\ Twins \subseteq Name
    /\ Capital \in Nat
    /\ \A b \in Bounds : /\ b.presses \in Nat /\ b.names \subseteq Name
                         /\ b.settings \subseteq Newcomer

VARIABLES
    talk,           \* the dialogue: its state and data
    late,           \* five minutes have passed since onboarding_started_at
    accepting,      \* accept_valid_name between its check and its insert
    renaming,       \* receive_new_username between its check and its write
    trader,         \* users.username, or NoName when there is no row
    citizen,        \* home_nation_id is set
    lots,           \* the holding in the home nation
    inFirstTrade,   \* presses that passed the first check of the first trade
    trades,         \* transactions of the player
    checked,        \* history: the names there were when the one u has was checked
    renamed,        \* history: players who changed their names
    bound           \* the bounds of this behaviour

onboardingVars == <<talk, late, accepting, renaming, trader, citizen, lots, inFirstTrade,
                    trades, checked, renamed, bound>>

settingsVars == <<renaming, renamed, bound>>

\* A name that has been looked for, and (history) the names there were then.
NameUnchecked == [name |-> NoName, seen |-> {}]

NoTalk == [state |-> "none", found |-> NameUnchecked, preferred |-> FALSE, first |-> FALSE]

Put(f, u, x) == [f EXCEPT ![u] = x]

SameName(m, n) == m = n \/ {m, n} \subseteq Twins

\* Mutant: the case of letters makes another name.
ExistsExactly(n) == \E v \in Newcomer : trader[v] = n

\* username_exists: of any player, whatever the case.
Exists(n) == \E v \in Newcomer : trader[v] # NoName /\ SameName(trader[v], n)

\* uq_users_username: exactly the same.
Violates(u, n) == \E v \in Newcomer \ {u} : trader[v] = n

Registered(u) == trader[u] # NoName

FoundFree(n) == [name |-> n, seen |-> {trader[v] : v \in Newcomer} \ {NoName}]

------------------------------------------------------------------------------
(* The name. *)

\* /start clears the dialogue; with a nation's link it keeps it, and the nation.
Start(u, link) ==
    /\ talk' = Put(talk, u, IF link THEN [talk[u] EXCEPT !.preferred = TRUE] ELSE NoTalk)
    /\ UNCHANGED <<late, accepting, trader, citizen, lots, inFirstTrade, trades, checked>>
    /\ UNCHANGED settingsVars

\* _begin_registration; a registered player's dashboard is a name the module lacks.
BeginRegistration(u) ==
    /\ talk' = Put(talk, u, IF Registered(u) THEN NoTalk
                            ELSE [NoTalk EXCEPT !.state = "ONBOARDING_NAME",
                                                !.preferred = talk[u].preferred])
    /\ late' = Put(late, u, FALSE)
    /\ UNCHANGED <<accepting, trader, citizen, lots, inFirstTrade, trades, checked>>
    /\ UNCHANGED settingsVars

\* The suggested name is checked, kept, and the next state set; the page of nations
\* (or the preferred nation) is a name the module lacks.
UseSuggestedName(u, n) ==
    /\ talk[u].state = "ONBOARDING_NAME" /\ ~Exists(n)
    /\ talk' = Put(talk, u, [talk[u] EXCEPT !.found = FoundFree(n), !.state = "SELECT_NATION"])
    /\ late' = Put(late, u, FALSE)
    /\ UNCHANGED <<accepting, trader, citizen, lots, inFirstTrade, trades, checked>>
    /\ UNCHANGED settingsVars

\* onboarding_name: after the length, the words and the other players' names comes
\* the pattern, TRADER_NAME_RE, which the module does not import.
OnboardingName(u) ==
    /\ talk[u].state = "ONBOARDING_NAME"
    /\ talk' = Put(talk, u, IF late[u] THEN NoTalk ELSE talk[u])
    /\ UNCHANGED <<late, accepting, trader, citizen, lots, inFirstTrade, trades, checked>>
    /\ UNCHANGED settingsVars

CancelOnboarding(u) ==
    /\ talk[u].state # "none"
    /\ talk' = Put(talk, u, NoTalk)
    /\ UNCHANGED <<late, accepting, trader, citizen, lots, inFirstTrade, trades, checked>>
    /\ UNCHANGED settingsVars

\* The button of an older message.
OnboardingBackName(u) ==
    /\ talk[u].state = "SELECT_NATION"
    /\ talk' = Put(talk, u, [talk[u] EXCEPT !.state = "SET_USERNAME_PLAYER"])
    /\ UNCHANGED <<late, accepting, trader, citizen, lots, inFirstTrade, trades, checked>>
    /\ UNCHANGED settingsVars

\* accept_valid_name, to the query that looks for the name.
AcceptChecks(u, n) ==
    /\ talk[u].state = "SET_USERNAME_PLAYER" /\ accepting[u] = NameUnchecked
    /\ IF Registered(u)
       THEN talk' = Put(talk, u, NoTalk) /\ UNCHANGED accepting
       ELSE ~Exists(n) /\ accepting' = Put(accepting, u, FoundFree(n)) /\ UNCHANGED talk
    /\ UNCHANGED <<late, trader, citizen, lots, inFirstTrade, trades, checked>>
    /\ UNCHANGED settingsVars

\* The insert: it fails when exactly this name has been taken since. The nation whose
\* group the player is in already, when there is one, becomes the home nation.
AcceptWrites(u, synced) ==
    /\ accepting[u] # NameUnchecked
    /\ accepting' = Put(accepting, u, NameUnchecked)
    /\ IF Violates(u, accepting[u].name) THEN UNCHANGED <<trader, checked, talk, citizen, lots>>
       ELSE /\ trader' = Put(trader, u, accepting[u].name)
            /\ checked' = Put(checked, u, accepting[u].seen)
            /\ talk' = Put(talk, u, NoTalk)
            /\ citizen' = Put(citizen, u, citizen[u] \/ synced)
            /\ lots' = IF synced /\ ~citizen[u] THEN Put(lots, u, Capital) ELSE lots
    /\ UNCHANGED <<late, inFirstTrade, trades>>
    /\ UNCHANGED settingsVars

------------------------------------------------------------------------------
(* The nation. The buttons are those of older messages. *)

\* nation_page, select_nation and back_to_nations.
BrowseNations(u) ==
    /\ talk[u].state = "SELECT_NATION"
    /\ talk' = Put(talk, u, IF late[u] THEN NoTalk ELSE talk[u])
    /\ late' = Put(late, u, FALSE)
    /\ UNCHANGED <<accepting, trader, citizen, lots, inFirstTrade, trades, checked>>
    /\ UNCHANGED settingsVars

\* confirm_nation in time: the name is written without another check, in a
\* transaction of its own, and _join_user decides about the nation.
ConfirmNation(u, answer) ==
    /\ talk[u].state = "SELECT_NATION" /\ ~late[u] /\ talk[u].found # NameUnchecked
    /\ ~Violates(u, talk[u].found.name)
    /\ trader' = Put(trader, u, talk[u].found.name)
    /\ checked' = Put(checked, u, talk[u].found.seen)
    /\ CASE answer = "joined" /\ ~citizen[u] ->
                /\ citizen' = Put(citizen, u, TRUE)
                /\ lots' = Put(lots, u, Capital)
                /\ talk' = Put(talk, u, [NoTalk EXCEPT !.first = TRUE])
         [] answer = "requested" /\ ~citizen[u] ->
                talk' = Put(talk, u, NoTalk) /\ UNCHANGED <<citizen, lots>>
         [] OTHER -> UNCHANGED <<talk, citizen, lots>>
    /\ UNCHANGED <<late, accepting, inFirstTrade, trades>>
    /\ UNCHANGED settingsVars

\* Late, or without a name: the dialogue is over.
ConfirmNationTooLate(u) ==
    /\ talk[u].state = "SELECT_NATION" /\ (late[u] \/ talk[u].found = NameUnchecked)
    /\ talk' = Put(talk, u, NoTalk)
    /\ UNCHANGED <<late, accepting, trader, citizen, lots, inFirstTrade, trades, checked>>
    /\ UNCHANGED settingsVars

TimePasses(u) ==
    /\ talk[u].state # "none"
    /\ late' = Put(late, u, TRUE)
    /\ UNCHANGED <<talk, accepting, trader, citizen, lots, inFirstTrade, trades, checked>>
    /\ UNCHANGED settingsVars

------------------------------------------------------------------------------
(* The first trade: fifty units, sold without a fee. *)

\* A citizen who has not traded is offered it again.
NewPlayerNextStep(u) ==
    /\ citizen[u] /\ trades[u] = 0
    /\ talk' = Put(talk, u, [talk[u] EXCEPT !.first = TRUE])
    /\ UNCHANGED <<late, accepting, trader, citizen, lots, inFirstTrade, trades, checked>>
    /\ UNCHANGED settingsVars

\* The data of the dialogue are read before the transaction.
PressFirstTrade(u) ==
    /\ talk[u].first /\ inFirstTrade[u] + trades[u] < bound.presses
    /\ inFirstTrade' = Put(inFirstTrade, u, inFirstTrade[u] + 1)
    /\ UNCHANGED <<talk, late, accepting, trader, citizen, lots, trades, checked>>
    /\ UNCHANGED settingsVars

\* Mutant: the holding is not looked at again.
MaySellUnchecked(u) == citizen[u]

MaySell(u) == citizen[u] /\ lots[u] >= 1

\* confirm_first_trade under the locks, and the dialogue's end.
ConfirmFirstTrade(u) ==
    /\ inFirstTrade[u] > 0
    /\ inFirstTrade' = Put(inFirstTrade, u, inFirstTrade[u] - 1)
    /\ IF MaySell(u)
       THEN /\ lots' = Put(lots, u, lots[u] - 1)
            /\ trades' = Put(trades, u, trades[u] + 1)
            /\ talk' = Put(talk, u, NoTalk)
       ELSE UNCHANGED <<lots, trades, talk>>
    /\ UNCHANGED <<late, accepting, trader, citizen, checked>>
    /\ UNCHANGED settingsVars

SkipFirstTrade(u) ==
    /\ talk' = Put(talk, u, NoTalk)
    /\ UNCHANGED <<late, accepting, trader, citizen, lots, inFirstTrade, trades, checked>>
    /\ UNCHANGED settingsVars

------------------------------------------------------------------------------
(* The settings of a registered player. *)

\* cancel_fsm, cancel_nation_change, and every other step that clears the state.
SettingsClosed(u) == talk' = Put(talk, u, NoTalk)

\* show_settings, settings:back, the ways back from the stats and out of a dialogue.
ShowSettings(u) ==
    /\ u \in bound.settings /\ Registered(u) /\ talk[u] # NoTalk
    /\ SettingsClosed(u)
    /\ UNCHANGED <<late, accepting, renaming, trader, citizen, lots, inFirstTrade, trades,
                   checked, renamed, bound>>

\* start_change_username, start_change_nation, confirm_nation_change: the dialogue's
\* state, whatever it was; its data stay.
StartChange(u, state) ==
    /\ u \in bound.settings /\ Registered(u) /\ talk[u].state # state
    /\ state \in {"CHANGE_USERNAME", "SELECT_NEW_NATION"}
           \/ (state = "CONFIRM_CHANGE_NATION" /\ citizen[u])
    /\ talk' = Put(talk, u, [talk[u] EXCEPT !.state = state])
    /\ UNCHANGED <<late, accepting, renaming, trader, citizen, lots, inFirstTrade, trades,
                   checked, renamed, bound>>

\* select_new_nation that is not refused (ChangeHome of Membership): the button
\* works in every state.
SelectNewNation(u) ==
    /\ u \in bound.settings /\ citizen[u] /\ talk[u] # NoTalk
    /\ SettingsClosed(u)
    /\ UNCHANGED <<late, accepting, renaming, trader, citizen, lots, inFirstTrade, trades,
                   checked, renamed, bound>>

\* is_username_taken: another player's, exactly.
RenameChecks(u, n) ==
    /\ talk[u].state = "CHANGE_USERNAME" /\ Registered(u) /\ renaming[u] = NoName
    /\ ~Violates(u, n) /\ renamed = {} /\ u \in bound.settings
    /\ renaming' = Put(renaming, u, n)
    /\ UNCHANGED <<talk, late, accepting, trader, citizen, lots, inFirstTrade, trades,
                   checked, renamed, bound>>

\* change_username: it fails, and the dialogue stays, when the name was taken since.
RenameWrites(u) ==
    /\ renaming[u] # NoName
    /\ renaming' = Put(renaming, u, NoName)
    /\ IF Violates(u, renaming[u]) THEN UNCHANGED <<trader, talk, renamed>>
       ELSE /\ trader' = Put(trader, u, renaming[u])
            /\ talk' = Put(talk, u, NoTalk)
            /\ renamed' = renamed \union {u}
    /\ UNCHANGED <<late, accepting, citizen, lots, inFirstTrade, trades, checked, bound>>

------------------------------------------------------------------------------
OnboardingInit ==
    /\ talk = [u \in Newcomer |-> NoTalk]
    /\ late = [u \in Newcomer |-> FALSE]
    /\ accepting = [u \in Newcomer |-> NameUnchecked]
    /\ trader = [u \in Newcomer |-> NoName]
    /\ citizen = [u \in Newcomer |-> FALSE]
    /\ lots = [u \in Newcomer |-> 0]
    /\ inFirstTrade = [u \in Newcomer |-> 0]
    /\ trades = [u \in Newcomer |-> 0]
    /\ checked = [u \in Newcomer |-> {}]
    /\ renaming = [u \in Newcomer |-> NoName] /\ renamed = {}
    /\ bound \in Bounds

OnboardingStep(u) ==
    \/ \E link \in BOOLEAN : Start(u, link)
    \/ BeginRegistration(u) \/ OnboardingName(u) \/ CancelOnboarding(u) \/ OnboardingBackName(u)
    \/ \E n \in bound.names : UseSuggestedName(u, n) \/ AcceptChecks(u, n)
    \/ \E synced \in BOOLEAN : AcceptWrites(u, synced)
    \/ BrowseNations(u) \/ ConfirmNationTooLate(u) \/ TimePasses(u)
    \/ \E answer \in {"joined", "requested", "refused"} : ConfirmNation(u, answer)
    \/ NewPlayerNextStep(u) \/ PressFirstTrade(u) \/ ConfirmFirstTrade(u) \/ SkipFirstTrade(u)
    \/ ShowSettings(u) \/ SelectNewNation(u) \/ RenameWrites(u)
    \/ \E n \in bound.names : RenameChecks(u, n)
    \/ \E state \in {"CHANGE_USERNAME", "CONFIRM_CHANGE_NATION", "SELECT_NEW_NATION"} :
            StartChange(u, state)

OnboardingNext == \E u \in Newcomer : OnboardingStep(u)

OnboardingSpec == OnboardingInit /\ [][OnboardingNext]_onboardingVars

------------------------------------------------------------------------------
(* Properties *)

\* Two players have never exactly the same name; and they have names that differ
\* in case only if neither name was there when the other one was checked, however a
\* player's handlers overlap; or one of them has it by the settings, which look for
\* exactly the same name.
NamesCollideOnlyUnchecked ==
    \A u, v \in Newcomer : u # v /\ Registered(u) /\ Registered(v) =>
        /\ trader[u] # trader[v]
        /\ SameName(trader[u], trader[v]) => \/ trader[u] \notin checked[v] /\ trader[v] \notin checked[u]
                                             \/ {u, v} \cap renamed # {}

\* Whatever the presses of the first trade that overlap, nobody sells what the
\* capital does not cover, and everything sold is in the books.
FirstTradesWithinCapital ==
    \A u \in Newcomer : citizen[u] => lots[u] >= 0 /\ lots[u] + trades[u] = Capital

=============================================================================
