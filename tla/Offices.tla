------------------------------ MODULE Offices ------------------------------
(*****************************************************************************)
(* A nation's management panel, for one officer's chat at a time: the        *)
(* screens that lead to each other by their buttons, the founder's settings, *)
(* and the announcement, whose text is typed in a dialogue that only an      *)
(* announcement or another dialogue ends. Roles are given and taken by       *)
(* others meanwhile (Membership); a screen's buttons outlive the role it was *)
(* drawn for.                                                                *)
(*****************************************************************************)
EXTENDS Game

CONSTANTS
    Official,       \* players whose chats are looked at
    Country,        \* nations
    NoCountry,
    Policy,         \* join policies; a personality and an invite code are set alike
    MaxTexts        \* bound: texts under way at once

ASSUME OfficesAssumption == NoCountry \notin Country /\ MaxTexts \in Nat

VARIABLES
    officer,        \* the active membership of a player: nation and role
    extant,         \* nations that are not dissolved
    charter,        \* join_policy of each nation
    screen,         \* the panel message in a player's chat
    asker,          \* NationManagementStates.announcement, with its nation_id
    texts,          \* texts being published, as they came
    asked,          \* history: the last prompt's nation, and whether it was confirmed
    posted          \* history: the announcement the last step published, if any

officeVars == <<officer, extant, charter, screen, asker, texts, asked, posted>>

Outside  == [land |-> NoCountry, role |-> "none"]
NoScreen == [kind |-> "none", land |-> NoCountry]
Roles    == {"founder", "minister", "trader", "citizen"}
Standing == [land : Country, role : Roles]

\* _require_admin, _require_founder: the role as it is now.
Admin(p, n)   == officer[p].land = n /\ officer[p].role \in {"founder", "minister"}
Founder(p, n) == officer[p] = [land |-> n, role |-> "founder"]

\* The buttons of a screen that lead to another one. The panel also opens from
\* the dashboard (open_admin_panel, founder_panel_entry).
Leads == [none             |-> {},
          panel            |-> {"members", "logs", "wars", "settings"},
          members          |-> {"member"},
          member           |-> {"members"},
          logs             |-> {},
          wars             |-> {},
          settings         |-> {},
          founder_settings |-> {"dissolve"},
          dissolve         |-> {"settings"},
          prompt           |-> {}]

NotPosted == [land |-> NoCountry, by |-> Outside,
              to |-> [land |-> NoCountry, confirmed |-> FALSE], step |-> "none"]

NothingPosted == posted' = NotPosted

Shows(p, kind, n) == screen' = [screen EXCEPT ![p] = [kind |-> kind, land |-> n]]

------------------------------------------------------------------------------
(* Screens. *)

\* nation_admin_panel, show_members, member_management, show_logs and
\* show_active_wars: officers only. None of them leaves a dialogue, the cancel
\* button of the prompt (nm:panel) included.
Opens(p, n, kind) ==
    /\ kind \in {"panel", "members", "member", "logs", "wars"}
    /\ kind = "panel" \/ (screen[p].land = n /\ kind \in Leads[screen[p].kind])
    /\ Admin(p, n)
    /\ Shows(p, kind, n)
    /\ UNCHANGED <<officer, extant, charter, asker, texts, asked>>
    /\ NothingPosted

\* nation_settings: the same screen with more buttons for a founder.
OpensSettings(p, n) ==
    /\ screen[p].land = n /\ "settings" \in Leads[screen[p].kind]
    /\ Admin(p, n)
    /\ Shows(p, IF Founder(p, n) THEN "founder_settings" ELSE "settings", n)
    /\ UNCHANGED <<officer, extant, charter, asker, texts, asked>>
    /\ NothingPosted

\* set_join_policy, set_personality, regenerate_invite_code: the screen stays.
SetsCharter(p, n, policy) ==
    /\ screen[p] = [kind |-> "founder_settings", land |-> n]
    /\ Founder(p, n)
    /\ charter' = [charter EXCEPT ![n] = policy]
    /\ UNCHANGED <<officer, extant, screen, asker, texts, asked>>
    /\ NothingPosted

\* dissolve_nation: the question.
AsksToDissolve(p, n) ==
    /\ screen[p] = [kind |-> "founder_settings", land |-> n]
    /\ Founder(p, n)
    /\ Shows(p, "dissolve", n)
    /\ UNCHANGED <<officer, extant, charter, asker, texts, asked>>
    /\ NothingPosted

\* confirm_dissolve: the panel message becomes a sentence without buttons.
ConfirmsDissolution(p, n) ==
    /\ screen[p] = [kind |-> "dissolve", land |-> n]
    /\ Founder(p, n) /\ n \in extant
    /\ extant' = extant \ {n}
    /\ officer' = [q \in Official |-> IF officer[q].land = n THEN Outside ELSE officer[q]]
    /\ screen' = [screen EXCEPT ![p] = NoScreen]
    /\ UNCHANGED <<charter, asker, texts, asked>>
    /\ NothingPosted

------------------------------------------------------------------------------
(* Announcements. *)

\* start_announcement, from the panel.
StartsAnnouncement(p, n) ==
    /\ screen[p] = [kind |-> "panel", land |-> n]
    /\ Admin(p, n)
    /\ asker' = [asker EXCEPT ![p] = n]
    /\ asked' = [asked EXCEPT ![p] = [land |-> n, confirmed |-> FALSE]]
    /\ Shows(p, "prompt", n)
    /\ UNCHANGED <<officer, extant, charter, texts>>
    /\ NothingPosted

\* publish_announcement's transaction. A refusal is raised and caught nowhere: the
\* dialogue stays open.
MayPublish(p, n) == Admin(p, n)

\* Any text is the announcement: publish_announcement is registered before
\* cancel_announcement and takes "/cancel" too.
TextComes(p) ==
    LET n == asker[p] IN
    /\ n # NoCountry /\ Len(texts[p]) < MaxTexts
    /\ MayPublish(p, n)
    /\ texts' = [texts EXCEPT ![p] = Append(@, [land |-> n, by |-> officer[p], to |-> asked[p],
                                                step |-> "checked"])]
    /\ UNCHANGED <<officer, extant, charter, screen, asker, asked>>
    /\ NothingPosted

Without(s, i) == SubSeq(s, 1, i - 1) \o SubSeq(s, i + 1, Len(s))

\* send_message to the capital, or its failure: then the dialogue stays open too.
Posts(p, i) ==
    /\ i \in DOMAIN texts[p] /\ texts[p][i].step = "checked"
    /\ \/ /\ posted' = texts[p][i]
          /\ texts' = [texts EXCEPT ![p][i].step = "sent"]
       \/ texts' = [texts EXCEPT ![p] = Without(@, i)] /\ NothingPosted
    /\ UNCHANGED <<officer, extant, charter, screen, asker, asked>>

\* state.clear, and the confirmation.
Confirms(p, i) ==
    /\ i \in DOMAIN texts[p] /\ texts[p][i].step = "sent"
    /\ asker' = [asker EXCEPT ![p] = NoCountry]
    /\ asked' = [asked EXCEPT ![p].confirmed = TRUE]
    /\ texts' = [texts EXCEPT ![p] = Without(@, i)]
    /\ UNCHANGED <<officer, extant, charter, screen>>
    /\ NothingPosted

\* trader_public_announcement: a command in the group itself; no dialogue.
GroupCommand(p) ==
    /\ officer[p].role \in {"founder", "minister", "trader"}
    /\ officer[p].land \in extant
    /\ posted' = [land |-> officer[p].land, by |-> officer[p],
                  to |-> [land |-> officer[p].land, confirmed |-> FALSE], step |-> "command"]
    /\ UNCHANGED <<officer, extant, charter, screen, asker, texts, asked>>

------------------------------------------------------------------------------
(* Meanwhile. *)

\* Another dialogue begins, or the main menu: state.clear.
GoesElsewhere(p) ==
    /\ asker[p] # NoCountry \/ screen[p] # NoScreen
    /\ asker' = [asker EXCEPT ![p] = NoCountry]
    /\ screen' = [screen EXCEPT ![p] = NoScreen]
    /\ UNCHANGED <<officer, extant, charter, texts, asked>>
    /\ NothingPosted

\* The process dies: what is under way is lost; the dialogue is in Redis.
BotDies ==
    /\ \E p \in Official : texts[p] # <<>>
    /\ texts' = [p \in Official |-> <<>>]
    /\ UNCHANGED <<officer, extant, charter, screen, asker, asked>>
    /\ NothingPosted

\* A join, an appointment, a kick or a departure (Membership).
OfficerChanges(p) ==
    /\ \/ officer[p] # Outside /\ officer' = [officer EXCEPT ![p] = Outside]
       \/ \E s \in Standing : /\ s.land \in extant /\ officer[p].land \in {s.land, NoCountry}
                              /\ s # officer[p]
                              /\ officer' = [officer EXCEPT ![p] = s]
    /\ UNCHANGED <<extant, charter, screen, asker, texts, asked>>
    /\ NothingPosted

------------------------------------------------------------------------------

OfficesInit ==
    /\ officer = [p \in Official |-> Outside]
    /\ extant = Country
    /\ charter \in [Country -> {CHOOSE c \in Policy : TRUE}]
    /\ screen = [p \in Official |-> NoScreen]
    /\ asker = [p \in Official |-> NoCountry]
    /\ texts = [p \in Official |-> <<>>]
    /\ asked = [p \in Official |-> [land |-> NoCountry, confirmed |-> FALSE]]
    /\ posted = NotPosted

OfficesNext ==
    \/ BotDies
    \/ \E p \in Official :
         \/ TextComes(p) \/ GroupCommand(p) \/ GoesElsewhere(p) \/ OfficerChanges(p)
         \/ \E i \in 1..MaxTexts : Posts(p, i) \/ Confirms(p, i)
         \/ \E n \in Country :
              \/ OpensSettings(p, n) \/ AsksToDissolve(p, n) \/ ConfirmsDissolution(p, n)
              \/ StartsAnnouncement(p, n)
              \/ \E kind \in DOMAIN Leads : Opens(p, n, kind)
              \/ \E policy \in Policy : SetsCharter(p, n, policy)

OfficesSpec == OfficesInit /\ [][OfficesNext]_officeVars

------------------------------------------------------------------------------
(* Properties. *)

\* What is published in a nation's name was typed by somebody in office there when
\* it came (a trader only by the group's command), for the nation whose prompt he
\* opened last, and before that prompt's text was confirmed to him - however long
\* the dialogue stayed open, whatever role he had when he opened it, and although
\* neither /cancel nor the prompt's cancel button closes it.
AnnouncementsByOfficers ==
    posted # NotPosted =>
        /\ posted.by.land = posted.land
        /\ posted.by.role \in {"founder", "minister"} \/
             (posted.by.role = "trader" /\ posted.step = "command")
        /\ posted.to = [land |-> posted.land, confirmed |-> FALSE]

=============================================================================
