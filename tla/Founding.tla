------------------------------ MODULE Founding ------------------------------
(*****************************************************************************)
(* The founding of a nation: the dialogue in private, the group that the bot *)
(* is made an administrator of, and the draft that both fill. A draft lives  *)
(* for half an hour after its last change; nobody removes it then. Buttons   *)
(* of older panels can be pressed whenever the dialogue's state lets them.   *)
(* A handler is let in by the dialogue's state, writes the draft in a        *)
(* transaction and sets the dialogue's next state after the commit; other    *)
(* handlers of the same founder run in between, and it may end anywhere.     *)
(*****************************************************************************)
EXTENDS Game

CONSTANTS
    Candidate,      \* players who found a nation
    Chat,           \* Telegram groups
    Code,           \* currency codes
    Task,           \* handlers under way at a time
    NoChat, NoCode

ASSUME FoundingAssumption ==
    NoChat \notin Chat /\ NoCode \notin Code

VARIABLES
    fsm,            \* the candidate's dialogue
    known,          \* users.username is set
    draft,          \* the active draft, or NoDraft
    nation,         \* the nation the candidate founded and still leads, or NoNation
    codes,          \* currency codes of nations, dissolved ones included
    task,           \* a handler: whose, how far, the dialogue's state it was let in by or will
                    \* set, the group it binds; stale: a history, the draft changed since it wrote
    changed         \* history: the draft changed since the dialogue's question was settled

foundingVars == <<fsm, known, draft, nation, codes, task, changed>>

NoDraft == [status |-> "none", group |-> NoChat, code |-> NoCode, late |-> FALSE]
NoNation == [group |-> NoChat, code |-> NoCode]

\* ACTIVE_DRAFT_STATUSES: an expired draft is one of them until it is marked.
ActiveDraft(u) == draft[u].status # "none"
LiveDraft(u) == ActiveDraft(u) /\ ~draft[u].late

NoTask == [of |-> NoPlayer, at |-> "idle", state |-> "none", group |-> NoChat, stale |-> FALSE]
At(t, u, at) == task[t].of = u /\ task[t].at = at

\* A transaction that locks the draft's row for more than a step.
Locked(u) == \E t \in Task : At(t, u, "binding")

TaskEnds(t) == task' = [task EXCEPT ![t] = NoTask]

\* What the handlers of u are about to ask, and what is asked now, is older than the draft.
Outdated(u, t) == task[t].of = u /\ task[t].at = "asks"
Since(u, t) == [task[t] EXCEPT !.stale = @ \/ Outdated(u, t)]

\* t writes u's draft and goes on as next.
Write(t, u, d, next) ==
    /\ draft' = [draft EXCEPT ![u] = d]
    /\ task' = [x \in Task |-> IF x = t THEN next ELSE Since(u, x)]
    /\ changed' = [changed EXCEPT ![u] = TRUE]

\* The handler that has yet to set the dialogue's state.
ToAsk(u, state) == [NoTask EXCEPT !.of = u, !.at = "asks", !.state = state]

\* state.clear.
Clear(u) ==
    /\ fsm' = [fsm EXCEPT ![u] = "none"]
    /\ changed' = [changed EXCEPT ![u] = FALSE]

NewDraft == [NoDraft EXCEPT !.status = "WAITING_GROUP"]

\* What set_nation_name, set_currency_code and set_flag ask of the draft; the mark of
\* an expired one is undone with the rest.
Accepts(u, stati) == ~Locked(u) /\ LiveDraft(u) /\ draft[u].status \in stati

------------------------------------------------------------------------------
(* The private dialogue. *)

\* start_founder, /start and "start as a player".
StartFounder(u) ==
    /\ Clear(u)
    /\ UNCHANGED <<known, draft, nation, codes, task>>

\* A message or a press of a button: the filters of the handlers look at the state.
Arrives(t, u) ==
    /\ task[t] = NoTask
    /\ task' = [task EXCEPT ![t] = [NoTask EXCEPT !.of = u, !.at = "arrived", !.state = fsm[u]]]
    /\ UNCHANGED <<fsm, known, draft, nation, codes, changed>>

LetIn(t, u, states) == At(t, u, "arrived") /\ task[t].state \in states

\* get_or_create_draft, then the group step.
ToGroupStep(t, u) ==
    IF nation[u] # NoNation THEN TaskEnds(t) /\ UNCHANGED <<draft, changed>>
    ELSE Write(t, u, IF LiveDraft(u) THEN draft[u] ELSE NewDraft, ToAsk(u, "WAITING_GROUP_ADMIN"))

FounderHasGroup(t, u) ==
    /\ LetIn(t, u, {"none"})
    /\ IF known[u] THEN ~Locked(u) /\ ToGroupStep(t, u)
       ELSE task' = [task EXCEPT ![t] = ToAsk(u, "SET_USERNAME_FOUNDER")] /\ UNCHANGED <<draft, changed>>
    /\ UNCHANGED <<fsm, known, nation, codes>>

\* A valid name that is free; it is kept although the draft may be refused, ...
ReceiveFounderUsername(t, u) ==
    /\ LetIn(t, u, {"SET_USERNAME_FOUNDER"})
    /\ known' = [known EXCEPT ![u] = TRUE]
    /\ task' = [task EXCEPT ![t].at = "named"]
    /\ UNCHANGED <<fsm, draft, nation, codes, changed>>

\* ... which is made in a transaction of its own.
FirstDraft(t, u) ==
    /\ At(t, u, "named") /\ ~Locked(u)
    /\ ToGroupStep(t, u)
    /\ UNCHANGED <<fsm, known, nation, codes>>

ReceiveNationName(t, u) ==
    /\ LetIn(t, u, {"SET_NATION_NAME"})
    /\ Accepts(u, {"GROUP_READY", "NAMING", "FLAG", "REVIEW"}) /\ draft[u].group # NoChat
    /\ Write(t, u, [draft[u] EXCEPT !.status = "NAMING"], ToAsk(u, "SET_CURRENCY_CODE"))
    /\ UNCHANGED <<fsm, known, nation, codes>>

\* set_currency_code; the dialogue ends, the panel to confirm stays.
ReceiveCurrencyCode(t, u, c) ==
    /\ LetIn(t, u, {"SET_CURRENCY_CODE"})
    /\ Accepts(u, {"NAMING", "REVIEW"}) /\ c \notin codes
    /\ Write(t, u, [draft[u] EXCEPT !.status = "REVIEW", !.code = c], ToAsk(u, "none"))
    /\ UNCHANGED <<fsm, known, nation, codes>>

SelectFounderFlag(t, u) ==
    /\ LetIn(t, u, {"SELECT_FLAG"})
    /\ Accepts(u, {"FLAG", "REVIEW"})
    /\ Write(t, u, [draft[u] EXCEPT !.status = "REVIEW"], ToAsk(u, "CONFIRM"))
    /\ UNCHANGED <<fsm, known, nation, codes>>

\* founder_edit_name, founder_edit_flag and founder_recode set the draft back,
\* whatever it was; an expired one is marked. Only the last prolongs it.
SetBack(t, u, states, status, state) ==
    /\ LetIn(t, u, states) /\ ActiveDraft(u) /\ ~Locked(u)
    /\ IF draft[u].late THEN Write(t, u, NoDraft, NoTask)
       ELSE Write(t, u, [draft[u] EXCEPT !.status = status], ToAsk(u, state))
    /\ UNCHANGED <<fsm, known, nation, codes>>

\* Mutant: the draft stays as it is.
FounderEditFlagAsIs(t, u) == SetBack(t, u, {"none", "CONFIRM"}, draft[u].status, "SELECT_FLAG")

FounderEditName(t, u) == SetBack(t, u, {"none", "SELECT_FLAG", "CONFIRM"}, "NAMING", "SET_NATION_NAME")
FounderEditFlag(t, u) == SetBack(t, u, {"none", "CONFIRM"}, "FLAG", "SELECT_FLAG")
FounderRecode(t, u) == SetBack(t, u, {"none"}, "NAMING", "SET_CURRENCY_CODE")

\* reset_group: of an expired draft, too.
FounderEditGroup(t, u) ==
    /\ LetIn(t, u, {"none", "CONFIRM"}) /\ ActiveDraft(u) /\ ~Locked(u)
    /\ Write(t, u, NewDraft, ToAsk(u, "WAITING_GROUP_ADMIN"))
    /\ UNCHANGED <<fsm, known, nation, codes>>

\* Not while a code or the first name is asked for. The dialogue ends first, ...
CancelFounder(t, u) ==
    /\ LetIn(t, u, {"WAITING_GROUP_ADMIN", "SET_NATION_NAME", "SELECT_FLAG", "CONFIRM"})
    /\ Clear(u)
    /\ task' = [task EXCEPT ![t].at = "cancels"]
    /\ UNCHANGED <<known, draft, nation, codes>>

\* ... then the draft: cancel_draft.
DraftCancelled(t, u) ==
    /\ At(t, u, "cancels") /\ ~Locked(u)
    /\ Write(t, u, NoDraft, NoTask)
    /\ UNCHANGED <<fsm, known, nation, codes>>

\* state.set_state and state.clear after the commit.
Asks(t, u) ==
    /\ At(t, u, "asks")
    /\ fsm' = [fsm EXCEPT ![u] = task[t].state]
    /\ changed' = [changed EXCEPT ![u] = task[t].stale]
    /\ TaskEnds(t)
    /\ UNCHANGED <<known, draft, nation, codes>>

\* A handler refuses or fails, or the process ends; after a promotion the number of
\* members is asked for before the dialogue is told, which may fail as well.
HandlerEnds(t) ==
    /\ task[t] # NoTask
    /\ TaskEnds(t)
    /\ UNCHANGED <<fsm, known, draft, nation, codes, changed>>

------------------------------------------------------------------------------
(* The group. *)

\* The bot is promoted in g by a founder who administers it: _verify_group.
PromotedIn(u, g) == draft[u].group \in {NoChat, g} /\ ~(draft[u].status = "NAMING" /\ draft[u].group = g)

\* The draft's link is followed in g.
LinkFollowedIn(u, g) == ~(draft[u].status = "NAMING" /\ draft[u].group = g)

\* The button to check the group.
CheckPressedFor(u, g) == fsm[u] = "WAITING_GROUP_ADMIN" /\ draft[u].group = g

\* All three end in bind_group, which locks the draft and looks for others
\* that hold g.
BindLooks(t, u, g) ==
    /\ task[t] = NoTask
    /\ LiveDraft(u) /\ ~Locked(u) /\ draft[u].group \in {NoChat, g}
    /\ PromotedIn(u, g) \/ LinkFollowedIn(u, g) \/ CheckPressedFor(u, g)
    /\ \A v \in Candidate \ {u} : ActiveDraft(v) => draft[v].group # g
    /\ task' = [task EXCEPT ![t] = [NoTask EXCEPT !.of = u, !.at = "binding", !.group = g]]
    /\ UNCHANGED <<fsm, known, draft, nation, codes, changed>>

\* Mutant: no nation is looked for.
MayHoldNation(u, g) == \A v \in Candidate \ {u} : ActiveDraft(v) => draft[v].group # g

\* The rest of bind_group: the group's nation, and the unique index on the drafts.
MayHold(u, g) ==
    /\ \A v \in Candidate : nation[v].group # g
    /\ \A v \in Candidate \ {u} : ActiveDraft(v) => draft[v].group # g

BindWrites(t, u) ==
    LET g == task[t].group
    IN  /\ At(t, u, "binding")
        /\ IF MayHold(u, g)
           THEN Write(t, u, [draft[u] EXCEPT !.status = "NAMING", !.group = g, !.late = FALSE],
                      ToAsk(u, "SET_CURRENCY_CODE"))
           ELSE TaskEnds(t) /\ UNCHANGED <<draft, changed>>
        /\ UNCHANGED <<fsm, known, nation, codes>>

------------------------------------------------------------------------------
(* The foundation. *)

\* finalize_draft with create_nation: everything or nothing.
MayFound(u) ==
    /\ draft[u].status = "REVIEW" /\ LiveDraft(u)
    /\ draft[u].group # NoChat /\ draft[u].code # NoCode
    /\ nation[u] = NoNation
    /\ draft[u].code \notin codes
    /\ \A v \in Candidate : nation[v].group # draft[u].group

\* create_nation
Founded(u) == [group |-> draft[u].group, code |-> draft[u].code]

ConfirmFounder(t, u) ==
    /\ LetIn(t, u, {"none", "CONFIRM"}) /\ ~Locked(u) /\ MayFound(u)
    /\ nation' = [nation EXCEPT ![u] = Founded(u)]
    /\ codes' = codes \union {draft[u].code}
    /\ Write(t, u, NoDraft, ToAsk(u, "none"))
    /\ UNCHANGED <<fsm, known>>

\* Half an hour passes. Nobody marks the draft; what the dialogue asks for will be refused.
DraftExpires(u) ==
    /\ LiveDraft(u)
    /\ draft' = [draft EXCEPT ![u].late = TRUE]
    /\ task' = [t \in Task |-> Since(u, t)]
    /\ changed' = [changed EXCEPT ![u] = TRUE]
    /\ UNCHANGED <<fsm, known, nation, codes>>

\* The group has no nation any more, the code stays taken.
NationDissolved(u) ==
    /\ nation[u] # NoNation
    /\ nation' = [nation EXCEPT ![u] = NoNation]
    /\ UNCHANGED <<fsm, known, draft, codes, task, changed>>

FoundingInit ==
    /\ fsm = [u \in Candidate |-> "none"] /\ known = [u \in Candidate |-> FALSE]
    /\ draft = [u \in Candidate |-> NoDraft]
    /\ nation = [u \in Candidate |-> NoNation] /\ codes = {}
    /\ task = [t \in Task |-> NoTask] /\ changed = [u \in Candidate |-> FALSE]

Dialogue(t, u) ==
    \/ FounderHasGroup(t, u) \/ ReceiveFounderUsername(t, u) \/ FirstDraft(t, u)
    \/ ReceiveNationName(t, u) \/ (\E c \in Code : ReceiveCurrencyCode(t, u, c))
    \/ SelectFounderFlag(t, u) \/ FounderEditName(t, u) \/ FounderEditFlag(t, u)
    \/ FounderRecode(t, u) \/ FounderEditGroup(t, u)
    \/ CancelFounder(t, u) \/ DraftCancelled(t, u) \/ ConfirmFounder(t, u)

FoundingNext ==
    \E u \in Candidate :
        \/ StartFounder(u) \/ DraftExpires(u) \/ NationDissolved(u)
        \/ \E t \in Task : \/ Arrives(t, u) \/ Dialogue(t, u) \/ Asks(t, u) \/ HandlerEnds(t)
                           \/ (\E g \in Chat : BindLooks(t, u, g)) \/ BindWrites(t, u)

FoundingSpec == FoundingInit /\ [][FoundingNext]_foundingVars

------------------------------------------------------------------------------
(* Properties *)

\* A group is the capital of one nation or in the draft of one founder, never of two
\* and never both, and no two nations have the same code, whichever founders and
\* groups are bound and founded at the same time.
CapitalsClaimedOnce ==
    \A u, v \in Candidate : u # v =>
        /\ ActiveDraft(u) /\ draft[u].group # NoChat =>
               draft[u].group # nation[v].group /\ (ActiveDraft(v) => draft[u].group # draft[v].group)
        /\ nation[u] # NoNation => nation[u].group # nation[v].group /\ nation[u].code # nation[v].code

\* What the dialogue asks for fits the draft, unless the draft has expired or another
\* handler has written it since the handler that asked did: not by any order of the
\* founder's buttons, texts and groups, and not if handlers end half-way.
DialogueFitsDraft ==
    \A u \in Candidate : ~changed[u] =>
        /\ fsm[u] = "SET_CURRENCY_CODE" => draft[u].status \in {"NAMING", "REVIEW"}
        /\ fsm[u] = "SELECT_FLAG" => draft[u].status \in {"FLAG", "REVIEW"}
        /\ fsm[u] = "CONFIRM" => draft[u].status = "REVIEW"
        /\ fsm[u] = "SET_NATION_NAME" => draft[u].status \in {"NAMING", "FLAG", "REVIEW"}

=============================================================================
