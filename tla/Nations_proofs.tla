--------------------------- MODULE Nations_proofs ---------------------------
(*****************************************************************************)
(* What is proved of the parts of a nation's life, one section each, for any *)
(* number of players, groups, codes, motions and countries.                  *)
(*****************************************************************************)
EXTENDS MCNations, Inductions

------------------------------------------------------------------------------
(* Founding. *)

DialogueState == {"none", "SET_USERNAME_FOUNDER", "WAITING_GROUP_ADMIN", "SET_NATION_NAME",
                  "SET_CURRENCY_CODE", "SELECT_FLAG", "CONFIRM"}

Draft == [status : {"none", "WAITING_GROUP", "NAMING", "FLAG", "REVIEW"},
          group : Chat \cup {NoChat}, code : Code \cup {NoCode}, late : BOOLEAN]

FoundedNation == [group : Chat, code : Code] \cup {NoNation}

Handler == [of : Candidate \cup {NoPlayer},
            at : {"idle", "arrived", "named", "asks", "cancels", "binding"},
            state : DialogueState, group : Chat \cup {NoChat}, stale : BOOLEAN]

FoundingTypeOK ==
    /\ fsm \in [Candidate -> DialogueState]
    /\ known \in [Candidate -> BOOLEAN]
    /\ draft \in [Candidate -> Draft]
    /\ nation \in [Candidate -> FoundedNation]
    /\ codes \in SUBSET Code
    /\ task \in [Task -> Handler]
    /\ changed \in [Candidate -> BOOLEAN]
    /\ \A t \in Task : /\ task[t].at # "idle" => task[t].of \in Candidate
                       /\ task[t].at = "binding" => task[t].group \in Chat

\* A nation's code stays taken.
CodesTaken == \A u \in Candidate : nation[u] # NoNation => nation[u].code \in codes

\* A draft in which state may be asked for.
Fits(state, d) ==
    /\ state = "SET_CURRENCY_CODE" => d.status \in {"NAMING", "REVIEW"}
    /\ state = "SELECT_FLAG" => d.status \in {"FLAG", "REVIEW"}
    /\ state = "CONFIRM" => d.status = "REVIEW"
    /\ state = "SET_NATION_NAME" => d.status \in {"NAMING", "FLAG", "REVIEW"}

\* What a handler will ask fits the draft, if the draft is still as the handler left it.
AsksFit ==
    \A t \in Task : task[t].at = "asks" /\ ~task[t].stale =>
                        Fits(task[t].state, draft[task[t].of])

FoundingInv ==
    FoundingTypeOK /\ CodesTaken /\ CapitalsClaimedOnce /\ AsksFit /\ DialogueFitsDraft

(* The drafts and handlers there are. *)
LEMMA DraftTypes ==
    /\ NoDraft \in Draft /\ NoDraft.status = "none" /\ NoDraft.late = FALSE
    /\ NewDraft \in Draft /\ NewDraft.status = "WAITING_GROUP" /\ NewDraft.late = FALSE
    /\ NewDraft.group = NoChat /\ NoNation.group = NoChat /\ NoNation.code = NoCode
    /\ NoCode \notin Code /\ NoChat \notin Chat
    /\ NoNation \in FoundedNation
    /\ NoTask \in Handler /\ NoTask.at = "idle"
BY FoundingAssumption DEF NoDraft, NewDraft, Draft, NoNation, FoundedNation, NoTask, Handler,
                          DialogueState

LEMMA FoundingStarts == FoundingInit => FoundingInv
BY DraftTypes DEF FoundingInit, FoundingInv, FoundingTypeOK, CodesTaken, CapitalsClaimedOnce,
      AsksFit, DialogueFitsDraft, ActiveDraft, DialogueState

(* A draft that keeps its group, or gives it up, takes nobody's capital. *)
LEMMA DraftKeepsCapital ==
    ASSUME FoundingTypeOK, CapitalsClaimedOnce, NEW u \in Candidate, NEW d \in Draft,
           d.status # "none" /\ d.group # NoChat => ActiveDraft(u) /\ d.group = draft[u].group,
           draft' = [draft EXCEPT ![u] = d], nation' = nation
    PROVE  CapitalsClaimedOnce'
BY DEF FoundingTypeOK, CapitalsClaimedOnce, ActiveDraft

(* What the handlers of u will ask is older than u's draft from now on. *)
LEMMA HandlersOutdated ==
    ASSUME FoundingTypeOK
    PROVE  \A u \in Candidate, x \in Task :
             /\ Since(u, x) \in Handler /\ Since(u, x).of = task[x].of
             /\ Since(u, x).at = task[x].at /\ Since(u, x).group = task[x].group
             /\ Since(u, x).state = task[x].state
             /\ ~Since(u, x).stale => ~task[x].stale /\ ~(task[x].of = u /\ task[x].at = "asks")
<1>. SUFFICES ASSUME NEW u \in Candidate, NEW x \in Task
     PROVE  /\ Since(u, x) \in Handler /\ Since(u, x).of = task[x].of
            /\ Since(u, x).at = task[x].at /\ Since(u, x).group = task[x].group
            /\ Since(u, x).state = task[x].state
            /\ ~Since(u, x).stale => ~task[x].stale /\ ~(task[x].of = u /\ task[x].at = "asks")
    OBVIOUS
<1>. DEFINE b == task[x].stale \/ Outdated(u, x)
<1>1. task[x] \in Handler
    BY DEF FoundingTypeOK
<1>2. b \in BOOLEAN /\ (~b => ~task[x].stale /\ ~(task[x].of = u /\ task[x].at = "asks"))
    BY <1>1 DEF Handler, Outdated
<1>3. Since(u, x) = [task[x] EXCEPT !.stale = b]
    BY DEF Since
<1>. HIDE DEF b
<1>. QED BY <1>1, <1>2, <1>3 DEF Handler

(* Whatever a handler writes into the draft and goes on to ask, if it fits: the *)
(* others that have yet to ask, and what is asked, are older now.               *)
LEMMA WriteFits ==
    ASSUME FoundingTypeOK, AsksFit, DialogueFitsDraft, NEW t \in Task, NEW u \in Candidate, NEW d \in Draft,
           NEW next \in Handler, Write(t, u, d, next), fsm' = fsm,
           next.at = "idle" \/ (next.at = "asks" /\ next.of = u /\ Fits(next.state, d)),
           known' \in [Candidate -> BOOLEAN], nation' \in [Candidate -> FoundedNation],
           codes' \in SUBSET Code
    PROVE  FoundingTypeOK' /\ AsksFit' /\ DialogueFitsDraft'
<1>1. /\ draft' = [draft EXCEPT ![u] = d] /\ changed' = [changed EXCEPT ![u] = TRUE]
      /\ task' = [x \in Task |-> IF x = t THEN next ELSE Since(u, x)]
    BY DEF Write
<1>2. ASSUME NEW x \in Task
      PROVE  /\ task'[x] \in Handler
             /\ task'[x].at # "idle" => task'[x].of \in Candidate
             /\ task'[x].at = "binding" => task'[x].group \in Chat
             /\ task'[x].at = "asks" /\ ~task'[x].stale =>
                    Fits(task'[x].state, draft'[task'[x].of])
    <2>1. CASE x = t
        BY <1>1, <2>1 DEF FoundingTypeOK
    <2>2. CASE x # t
        <3>1. task'[x] = Since(u, x)
            BY <1>1, <2>2
        <3>2. /\ task'[x] \in Handler /\ task'[x].of = task[x].of /\ task'[x].at = task[x].at
              /\ task'[x].group = task[x].group /\ task'[x].state = task[x].state
              /\ ~task'[x].stale => ~task[x].stale /\ ~(task[x].of = u /\ task[x].at = "asks")
            BY <3>1, HandlersOutdated
        <3>3. task[x].at # "idle" /\ task[x].of # u => draft'[task[x].of] = draft[task[x].of]
            BY <1>1 DEF FoundingTypeOK
        <3>. QED BY <3>2, <3>3 DEF FoundingTypeOK, AsksFit
    <2>. QED BY <2>1, <2>2
<1>3. FoundingTypeOK'
    BY <1>1, <1>2 DEF FoundingTypeOK
<1>4. AsksFit'
    BY <1>2 DEF AsksFit
<1>5. DialogueFitsDraft'
    BY <1>1 DEF DialogueFitsDraft, FoundingTypeOK
<1>. QED BY <1>3, <1>4, <1>5

(* A write that keeps the draft's group. *)
LEMMA WriteKeepsInv ==
    ASSUME FoundingInv, NEW t \in Task, NEW u \in Candidate, NEW d \in Draft,
           d.status # "none" /\ d.group # NoChat => ActiveDraft(u) /\ d.group = draft[u].group,
           NEW next \in Handler, Write(t, u, d, next), UNCHANGED <<fsm, nation, codes>>,
           next.at = "idle" \/ (next.at = "asks" /\ next.of = u /\ Fits(next.state, d)),
           known' \in [Candidate -> BOOLEAN]
    PROVE  FoundingInv'
<1>1. FoundingTypeOK /\ CodesTaken /\ CapitalsClaimedOnce /\ AsksFit /\ DialogueFitsDraft
    BY DEF FoundingInv
<1>2. FoundingTypeOK' /\ AsksFit' /\ DialogueFitsDraft'
    BY <1>1, WriteFits DEF FoundingTypeOK
<1>3. CapitalsClaimedOnce'
    BY <1>1, DraftKeepsCapital DEF Write
<1>4. CodesTaken'
    BY <1>1 DEF CodesTaken
<1>. QED BY <1>2, <1>3, <1>4 DEF FoundingInv

(* The handlers that go on to ask. *)
LEMMA ToAskTypes ==
    \A u \in Candidate, state \in DialogueState :
        /\ ToAsk(u, state) \in Handler /\ ToAsk(u, state).at = "asks" /\ ToAsk(u, state).of = u
        /\ ToAsk(u, state).state = state
BY DEF ToAsk, NoTask, Handler

(* A handler goes on, or leaves, and the draft stays. *)
LEMMA GoesOnKeepsInv ==
    ASSUME FoundingInv, NEW t \in Task, NEW next \in Handler, task' = [task EXCEPT ![t] = next],
           next.at # "idle" => next.of \in Candidate,
           next.at = "binding" => next.group \in Chat,
           next.at = "asks" /\ ~next.stale => Fits(next.state, draft[next.of]),
           UNCHANGED <<draft, nation, codes>>, known' \in [Candidate -> BOOLEAN],
           \/ UNCHANGED <<fsm, changed>>
           \/ \E u \in Candidate, state \in DialogueState, b \in BOOLEAN :
                 /\ fsm' = [fsm EXCEPT ![u] = state] /\ changed' = [changed EXCEPT ![u] = b]
                 /\ ~b => Fits(state, draft[u])
    PROVE  FoundingInv'
<1>1. FoundingTypeOK /\ CodesTaken /\ CapitalsClaimedOnce /\ AsksFit /\ DialogueFitsDraft
    BY DEF FoundingInv
<1>2. CodesTaken' /\ CapitalsClaimedOnce'
    BY <1>1 DEF CodesTaken, CapitalsClaimedOnce, ActiveDraft
<1>3. fsm' \in [Candidate -> DialogueState] /\ changed' \in [Candidate -> BOOLEAN]
    BY <1>1 DEF FoundingTypeOK
<1>4. FoundingTypeOK'
    BY <1>1, <1>3 DEF FoundingTypeOK
<1>5. AsksFit'
    BY <1>1 DEF AsksFit, FoundingTypeOK
<1>6. DialogueFitsDraft'
    BY <1>1 DEF DialogueFitsDraft, Fits, FoundingTypeOK
<1>. QED BY <1>2, <1>4, <1>5, <1>6 DEF FoundingInv

(* The group step: the draft lives, or a new one is begun. *)
LEMMA ToGroupStepKeepsInv ==
    ASSUME FoundingInv, NEW t \in Task, NEW u \in Candidate, ToGroupStep(t, u),
           UNCHANGED <<fsm, known, nation, codes>>
    PROVE  FoundingInv'
<1>1. known' \in [Candidate -> BOOLEAN]
    BY DEF FoundingInv, FoundingTypeOK
<1>2. CASE nation[u] # NoNation
    <2>1. UNCHANGED <<draft, changed>> /\ task' = [task EXCEPT ![t] = NoTask]
        BY <1>2 DEF ToGroupStep, TaskEnds
    <2>. QED BY <1>1, <2>1, DraftTypes, GoesOnKeepsInv
<1>3. CASE nation[u] = NoNation
    <2>. DEFINE d == IF LiveDraft(u) THEN draft[u] ELSE NewDraft
                next == ToAsk(u, "WAITING_GROUP_ADMIN")
    <2>1. Write(t, u, d, next)
        BY <1>3 DEF ToGroupStep
    <2>2. d \in Draft /\ (d.group # NoChat => ActiveDraft(u) /\ d.group = draft[u].group)
        BY DraftTypes DEF LiveDraft, FoundingInv, FoundingTypeOK
    <2>3. next \in Handler /\ next.at = "asks" /\ next.of = u /\ next.state = "WAITING_GROUP_ADMIN"
        BY ToAskTypes DEF DialogueState
    <2>. HIDE DEF d, next
    <2>4. Fits(next.state, d)
        BY <2>3 DEF Fits
    <2>. QED BY <1>1, <2>1, <2>2, <2>3, <2>4, WriteKeepsInv
<1>. QED BY <1>2, <1>3

(* What a handler writes and goes on to ask, in a draft that keeps its group. *)
LEMMA WriteAndAskKeepsInv ==
    ASSUME FoundingInv, NEW t \in Task, NEW u \in Candidate, NEW d \in Draft,
           NEW state \in DialogueState, Write(t, u, d, ToAsk(u, state)), Fits(state, d),
           d.status # "none" /\ d.group # NoChat => ActiveDraft(u) /\ d.group = draft[u].group,
           UNCHANGED <<fsm, known, nation, codes>>
    PROVE  FoundingInv'
<1>. DEFINE next == ToAsk(u, state)
<1>1. next \in Handler /\ next.at = "asks" /\ next.of = u /\ next.state = state
    BY ToAskTypes
<1>2. known' \in [Candidate -> BOOLEAN] /\ Write(t, u, d, next)
    BY DEF FoundingInv, FoundingTypeOK
<1>. HIDE DEF next
<1>. QED BY <1>1, <1>2, WriteKeepsInv

(* A draft set back: an expired one is removed, and the dialogue stays. *)
LEMMA SetBackKeepsInv ==
    ASSUME FoundingInv, NEW t \in Task, NEW u \in Candidate, NEW states,
           NEW stat \in {"NAMING", "FLAG"}, NEW state \in DialogueState,
           SetBack(t, u, states, stat, state),
           stat = "NAMING" => state \in {"SET_NATION_NAME", "SET_CURRENCY_CODE"},
           stat = "FLAG" => state = "SELECT_FLAG"
    PROVE  FoundingInv'
<1>1. CASE draft[u].late
    <2>1. Write(t, u, NoDraft, NoTask) /\ UNCHANGED <<fsm, known, nation, codes>>
        BY <1>1 DEF SetBack
    <2>2. known' \in [Candidate -> BOOLEAN]
        BY <2>1 DEF FoundingInv, FoundingTypeOK
    <2>. QED BY <2>1, <2>2, DraftTypes, WriteKeepsInv
<1>2. CASE ~draft[u].late
    <2>. DEFINE d == [draft[u] EXCEPT !.status = stat]
    <2>1. Write(t, u, d, ToAsk(u, state)) /\ ActiveDraft(u) /\ UNCHANGED <<fsm, known, nation, codes>>
        BY <1>2 DEF SetBack
    <2>4. draft[u] \in Draft
        BY DEF FoundingInv, FoundingTypeOK
    <2>2. d \in Draft /\ d.group = draft[u].group /\ d.status = stat
        BY <2>4 DEF Draft
    <2>. HIDE DEF d
    <2>3. Fits(state, d)
        BY <2>2 DEF Fits
    <2>. QED BY <2>1, <2>2, <2>3, WriteAndAskKeepsInv
<1>. QED BY <1>1, <1>2

(* The private dialogue. *)
LEMMA DialogueKeepsInv ==
    ASSUME FoundingInv, NEW t \in Task, NEW u \in Candidate,
           Dialogue(t, u), ~ConfirmFounder(t, u)
    PROVE  FoundingInv'
<1>1. /\ draft[u] \in Draft /\ known \in [Candidate -> BOOLEAN] /\ task \in [Task -> Handler]
      /\ task[t] \in Handler /\ \A x \in Task : task[x].at # "idle" => task[x].of \in Candidate
    BY DEF FoundingInv, FoundingTypeOK
<1>3. CASE FounderHasGroup(t, u)
    <2>1. CASE known[u]
        BY <1>3, <2>1, ToGroupStepKeepsInv DEF FounderHasGroup
    <2>2. CASE ~known[u]
        <3>. DEFINE next == ToAsk(u, "SET_USERNAME_FOUNDER")
        <3>1. task' = [task EXCEPT ![t] = next] /\ UNCHANGED <<fsm, known, draft, nation, codes, changed>>
            BY <1>3, <2>2 DEF FounderHasGroup
        <3>2. next \in Handler /\ next.at = "asks" /\ next.of = u /\ next.state = "SET_USERNAME_FOUNDER"
            BY ToAskTypes DEF DialogueState
        <3>. HIDE DEF next
        <3>3. Fits(next.state, draft[next.of])
            BY <3>2 DEF Fits
        <3>. QED BY <1>1, <3>1, <3>2, <3>3, GoesOnKeepsInv
    <2>. QED BY <2>1, <2>2
<1>4. CASE ReceiveFounderUsername(t, u)
    <2>. DEFINE next == [task[t] EXCEPT !.at = "named"]
    <2>1. /\ known' \in [Candidate -> BOOLEAN] /\ task' = [task EXCEPT ![t] = next]
          /\ UNCHANGED <<fsm, draft, nation, codes, changed>>
        BY <1>1, <1>4 DEF ReceiveFounderUsername
    <2>2. next \in Handler /\ next.at = "named" /\ next.of = u
        BY <1>1, <1>4 DEF ReceiveFounderUsername, LetIn, At, Handler
    <2>. HIDE DEF next
    <2>. QED BY <2>1, <2>2, GoesOnKeepsInv
<1>5. CASE FirstDraft(t, u)
    BY <1>5, ToGroupStepKeepsInv DEF FirstDraft
<1>6. CASE ReceiveNationName(t, u)
    <2>. DEFINE d == [draft[u] EXCEPT !.status = "NAMING"]
    <2>1. /\ Write(t, u, d, ToAsk(u, "SET_CURRENCY_CODE")) /\ ActiveDraft(u)
          /\ UNCHANGED <<fsm, known, nation, codes>>
        BY <1>6 DEF ReceiveNationName, Accepts, LiveDraft
    <2>2. d \in Draft /\ d.group = draft[u].group /\ d.status = "NAMING"
        BY <1>1 DEF Draft
    <2>. HIDE DEF d
    <2>3. Fits("SET_CURRENCY_CODE", d)
        BY <2>2 DEF Fits
    <2>. QED BY <2>1, <2>2, <2>3, WriteAndAskKeepsInv DEF DialogueState
<1>7. ASSUME NEW c \in Code, ReceiveCurrencyCode(t, u, c) PROVE FoundingInv'
    <2>. DEFINE d == [draft[u] EXCEPT !.status = "REVIEW", !.code = c]
    <2>1. /\ Write(t, u, d, ToAsk(u, "none")) /\ ActiveDraft(u)
          /\ UNCHANGED <<fsm, known, nation, codes>>
        BY <1>7 DEF ReceiveCurrencyCode, Accepts, LiveDraft
    <2>2. d \in Draft /\ d.group = draft[u].group
        BY <1>1 DEF Draft
    <2>. HIDE DEF d
    <2>3. Fits("none", d)
        BY DEF Fits
    <2>. QED BY <2>1, <2>2, <2>3, WriteAndAskKeepsInv DEF DialogueState
<1>8. CASE SelectFounderFlag(t, u)
    <2>. DEFINE d == [draft[u] EXCEPT !.status = "REVIEW"]
    <2>1. /\ Write(t, u, d, ToAsk(u, "CONFIRM")) /\ ActiveDraft(u)
          /\ UNCHANGED <<fsm, known, nation, codes>>
        BY <1>8 DEF SelectFounderFlag, Accepts, LiveDraft
    <2>2. d \in Draft /\ d.group = draft[u].group /\ d.status = "REVIEW"
        BY <1>1 DEF Draft
    <2>. HIDE DEF d
    <2>3. Fits("CONFIRM", d)
        BY <2>2 DEF Fits
    <2>. QED BY <2>1, <2>2, <2>3, WriteAndAskKeepsInv DEF DialogueState
<1>9. CASE FounderEditName(t, u) \/ FounderEditFlag(t, u) \/ FounderRecode(t, u)
    BY <1>9, SetBackKeepsInv DEF FounderEditName, FounderEditFlag, FounderRecode, DialogueState
<1>10. CASE FounderEditGroup(t, u)
    <2>1. Fits("WAITING_GROUP_ADMIN", NewDraft)
        BY DEF Fits
    <2>. QED BY <1>10, <2>1, DraftTypes, WriteAndAskKeepsInv DEF FounderEditGroup, DialogueState
<1>11. CASE CancelFounder(t, u)
    <2>. DEFINE next == [task[t] EXCEPT !.at = "cancels"]
    <2>1. /\ task' = [task EXCEPT ![t] = next] /\ fsm' = [fsm EXCEPT ![u] = "none"]
          /\ changed' = [changed EXCEPT ![u] = FALSE] /\ UNCHANGED <<known, draft, nation, codes>>
        BY <1>11 DEF CancelFounder, Clear
    <2>2. next \in Handler /\ next.at = "cancels" /\ next.of = u
        BY <1>1, <1>11 DEF CancelFounder, LetIn, At, Handler
    <2>3. Fits("none", draft[u]) /\ "none" \in DialogueState
        BY DEF Fits, DialogueState
    <2>. HIDE DEF next
    <2>. QED BY <1>1, <2>1, <2>2, <2>3, GoesOnKeepsInv
<1>12. CASE DraftCancelled(t, u)
    BY <1>1, <1>12, DraftTypes, WriteKeepsInv DEF DraftCancelled
<1>. QED BY <1>3, <1>4, <1>5, <1>6, <1>7, <1>8, <1>9, <1>10, <1>11, <1>12 DEF Dialogue

(* What is not the dialogue's own: updates that arrive, the dialogue told, the group. *)
LEMMA HandlersKeepInv ==
    ASSUME FoundingInv, NEW t \in Task, NEW u \in Candidate,
           \/ Arrives(t, u) \/ Asks(t, u) \/ HandlerEnds(t)
           \/ (\E g \in Chat : BindLooks(t, u, g)) \/ BindWrites(t, u)
    PROVE  FoundingInv'
<1>1. /\ draft[u] \in Draft /\ known \in [Candidate -> BOOLEAN] /\ task \in [Task -> Handler]
      /\ task[t] \in Handler /\ fsm[u] \in DialogueState
    BY DEF FoundingInv, FoundingTypeOK
<1>2. CASE Arrives(t, u)
    <2>. DEFINE next == [NoTask EXCEPT !.of = u, !.at = "arrived", !.state = fsm[u]]
    <2>1. task' = [task EXCEPT ![t] = next] /\ UNCHANGED <<fsm, known, draft, nation, codes, changed>>
        BY <1>2 DEF Arrives
    <2>2. next \in Handler /\ next.at = "arrived" /\ next.of = u
        BY <1>1, DraftTypes DEF Handler, NoTask
    <2>. HIDE DEF next
    <2>. QED BY <1>1, <2>1, <2>2, GoesOnKeepsInv
<1>3. CASE Asks(t, u)
    <2>1. /\ task' = [task EXCEPT ![t] = NoTask] /\ fsm' = [fsm EXCEPT ![u] = task[t].state]
          /\ changed' = [changed EXCEPT ![u] = task[t].stale] /\ UNCHANGED <<known, draft, nation, codes>>
          /\ task[t].of = u /\ task[t].at = "asks"
        BY <1>3 DEF Asks, TaskEnds, At
    <2>2. task[t].state \in DialogueState /\ task[t].stale \in BOOLEAN
        BY <1>1 DEF Handler
    <2>3. ~task[t].stale => Fits(task[t].state, draft[u])
        BY <2>1 DEF FoundingInv, AsksFit
    <2>. QED BY <1>1, <2>1, <2>2, <2>3, DraftTypes, GoesOnKeepsInv
<1>4. CASE HandlerEnds(t)
    BY <1>1, <1>4, DraftTypes, GoesOnKeepsInv DEF HandlerEnds, TaskEnds
<1>5. ASSUME NEW g \in Chat, BindLooks(t, u, g) PROVE FoundingInv'
    <2>. DEFINE next == [NoTask EXCEPT !.of = u, !.at = "binding", !.group = g]
    <2>1. task' = [task EXCEPT ![t] = next] /\ UNCHANGED <<fsm, known, draft, nation, codes, changed>>
        BY <1>5, Zenon DEF BindLooks
    <2>2. next \in Handler /\ next.at = "binding" /\ next.of = u /\ next.group = g
        BY <1>1, DraftTypes DEF Handler, NoTask
    <2>. HIDE DEF next
    <2>. QED BY <1>1, <2>1, <2>2, GoesOnKeepsInv
<1>6. CASE BindWrites(t, u)
    <2>1. CASE ~MayHold(u, task[t].group)
        <3>1. task' = [task EXCEPT ![t] = NoTask] /\ UNCHANGED <<fsm, known, draft, nation, codes, changed>>
            BY <1>6, <2>1 DEF BindWrites, TaskEnds
        <3>. QED BY <1>1, <3>1, DraftTypes, GoesOnKeepsInv
    <2>2. CASE MayHold(u, task[t].group)
        <3>. DEFINE d == [draft[u] EXCEPT !.status = "NAMING", !.group = task[t].group, !.late = FALSE]
                    next == ToAsk(u, "SET_CURRENCY_CODE")
        <3>1. Write(t, u, d, next) /\ UNCHANGED <<fsm, known, nation, codes>>
            BY <1>6, <2>2 DEF BindWrites
        <3>2. d \in Draft /\ d.group = task[t].group /\ d.status = "NAMING"
            BY <1>1 DEF Draft, Handler
        <3>3. next \in Handler /\ next.at = "asks" /\ next.of = u /\ next.state = "SET_CURRENCY_CODE"
            BY ToAskTypes DEF DialogueState
        <3>. HIDE DEF d, next
        <3>4. Fits(next.state, d)
            BY <3>2, <3>3 DEF Fits
        <3>5. FoundingTypeOK' /\ AsksFit' /\ DialogueFitsDraft'
            BY <3>1, <3>2, <3>3, <3>4, WriteFits DEF FoundingInv, FoundingTypeOK
        <3>6. CapitalsClaimedOnce'
            <4>1. draft' = [draft EXCEPT ![u] = d] /\ nation' = nation /\ draft \in [Candidate -> Draft]
                BY <3>1 DEF Write, FoundingInv, FoundingTypeOK
            <4>. QED BY <4>1, <3>2, <2>2 DEF FoundingInv, CapitalsClaimedOnce, ActiveDraft, MayHold
        <3>. QED BY <3>1, <3>5, <3>6 DEF FoundingInv, CodesTaken
    <2>. QED BY <2>1, <2>2
<1>. QED BY <1>2, <1>3, <1>4, <1>5, <1>6

(* The foundation and time. *)
LEMMA NationKeepsInv ==
    ASSUME FoundingInv, NEW u \in Candidate,
           StartFounder(u) \/ (\E t \in Task : ConfirmFounder(t, u)) \/ DraftExpires(u) \/ NationDissolved(u)
    PROVE  FoundingInv'
<1>. USE DEF FoundingInv
<1>1. /\ draft[u] \in Draft /\ draft \in [Candidate -> Draft] /\ known \in [Candidate -> BOOLEAN]
      /\ task \in [Task -> Handler] /\ nation \in [Candidate -> FoundedNation] /\ codes \in SUBSET Code
    BY DEF FoundingTypeOK
<1>2. \A v \in Candidate : nation[v] # NoNation =>
         nation[v].group # NoChat /\ nation[v].code # NoCode
    BY FoundingAssumption DEF FoundingTypeOK, FoundedNation
<1>3. CASE StartFounder(u)
    <2>1. /\ fsm' = [fsm EXCEPT ![u] = "none"] /\ changed' = [changed EXCEPT ![u] = FALSE]
          /\ UNCHANGED <<known, draft, nation, codes, task>>
        BY <1>3 DEF StartFounder, Clear
    <2>. QED BY <2>1 DEF FoundingTypeOK, CodesTaken, CapitalsClaimedOnce, AsksFit, DialogueFitsDraft,
                         ActiveDraft, DialogueState
<1>5. ASSUME NEW t \in Task, ConfirmFounder(t, u) PROVE FoundingInv'
    <2>. DEFINE n == Founded(u)
                next == ToAsk(u, "none")
    <2>1. /\ nation' = [nation EXCEPT ![u] = n] /\ codes' = codes \cup {n.code}
          /\ Write(t, u, NoDraft, next) /\ UNCHANGED <<fsm, known>>
        BY <1>5 DEF ConfirmFounder, Founded
    <2>2. /\ n \in FoundedNation /\ n.code \in Code /\ n.code \notin codes /\ n.group # NoChat
          /\ n.group = draft[u].group /\ ActiveDraft(u) /\ \A v \in Candidate : nation[v].group # n.group
        BY <1>1, <1>5 DEF ConfirmFounder, MayFound, LiveDraft, Founded, Draft, FoundedNation
    <2>6. next \in Handler /\ next.at = "asks" /\ next.of = u /\ next.state = "none"
        BY ToAskTypes DEF DialogueState
    <2>. HIDE DEF n, next
    <2>7. Fits(next.state, NoDraft)
        BY <2>6 DEF Fits
    <2>8. /\ known' \in [Candidate -> BOOLEAN] /\ nation' \in [Candidate -> FoundedNation]
          /\ codes' \in SUBSET Code /\ fsm' = fsm
        BY <1>1, <2>1, <2>2
    <2>3. FoundingTypeOK' /\ AsksFit' /\ DialogueFitsDraft'
        BY <2>1, <2>6, <2>7, <2>8, DraftTypes, WriteFits
    <2>9. draft' = [draft EXCEPT ![u] = NoDraft]
        BY <2>1 DEF Write
    <2>10. CodesTaken'
        BY <1>1, <2>1, <2>2 DEF CodesTaken
    <2>4. CapitalsClaimedOnce'
        <3>1. ASSUME NEW v \in Candidate, v # u
              PROVE  /\ draft'[v] = draft[v] /\ nation'[v] = nation[v] /\ nation[v].group # n.group
                     /\ ActiveDraft(v) => draft[v].group # n.group
                     /\ nation[v].code # n.code
            BY <1>1, <3>1, <2>1, <2>2, <2>9, <1>2, DraftTypes
               DEF CapitalsClaimedOnce, ActiveDraft, CodesTaken
        <3>2. draft'[u].status = "none" /\ nation'[u] = n
            BY <1>1, <2>1, <2>9, DraftTypes
        <3>. QED BY <3>1, <3>2 DEF CapitalsClaimedOnce, ActiveDraft
    <2>. QED BY <2>3, <2>4, <2>10
<1>6. CASE DraftExpires(u)
    <2>. DEFINE d == [draft[u] EXCEPT !.late = TRUE]
    <2>1. /\ draft' = [draft EXCEPT ![u] = d] /\ changed' = [changed EXCEPT ![u] = TRUE]
          /\ task' = [x \in Task |-> Since(u, x)]
          /\ UNCHANGED <<fsm, known, nation, codes>>
        BY <1>6 DEF DraftExpires
    <2>2. d \in Draft /\ d.group = draft[u].group /\ d.status = draft[u].status
        BY <1>1 DEF Draft
    <2>. HIDE DEF d
    <2>3. CapitalsClaimedOnce'
        BY <2>1, <2>2, DraftKeepsCapital DEF ActiveDraft
    <2>4. ASSUME NEW x \in Task
          PROVE  /\ task'[x] \in Handler /\ task'[x].of = task[x].of /\ task'[x].at = task[x].at
                 /\ task'[x].group = task[x].group /\ task'[x].state = task[x].state
                 /\ ~task'[x].stale => ~task[x].stale /\ ~(task[x].of = u /\ task[x].at = "asks")
        <3>1. task'[x] = Since(u, x)
            BY <2>1
        <3>. QED BY <3>1, HandlersOutdated
    <2>5. FoundingTypeOK'
        BY <1>1, <2>1, <2>2, <2>4 DEF FoundingTypeOK
    <2>6. AsksFit'
        BY <1>1, <2>1, <2>4 DEF AsksFit, FoundingTypeOK
    <2>. QED BY <2>1, <2>3, <2>5, <2>6 DEF FoundingTypeOK, CodesTaken, DialogueFitsDraft
<1>7. CASE NationDissolved(u)
    <2>1. nation' = [nation EXCEPT ![u] = NoNation]
          /\ UNCHANGED <<fsm, known, draft, codes, task, changed>>
        BY <1>7 DEF NationDissolved
    <2>2. FoundingTypeOK' /\ CodesTaken' /\ AsksFit' /\ DialogueFitsDraft'
        BY <2>1, DraftTypes DEF FoundingTypeOK, CodesTaken, AsksFit, DialogueFitsDraft
    <2>3. CapitalsClaimedOnce'
        BY <2>1, <1>2, DraftTypes DEF CapitalsClaimedOnce, FoundingTypeOK, ActiveDraft
    <2>. QED BY <2>2, <2>3
<1>. QED BY <1>3, <1>5, <1>6, <1>7

LEMMA FoundingKeepsInv == FoundingInv /\ [FoundingNext]_foundingVars => FoundingInv'
<1>. SUFFICES ASSUME FoundingInv, [FoundingNext]_foundingVars PROVE FoundingInv'
    OBVIOUS
<1>1. CASE UNCHANGED foundingVars
    BY <1>1 DEF foundingVars, FoundingInv, FoundingTypeOK, CodesTaken, CapitalsClaimedOnce,
                AsksFit, DialogueFitsDraft, ActiveDraft
<1>2. ASSUME NEW u \in Candidate,
             \/ StartFounder(u) \/ DraftExpires(u) \/ NationDissolved(u)
             \/ \E t \in Task : \/ Arrives(t, u) \/ Dialogue(t, u) \/ Asks(t, u) \/ HandlerEnds(t)
                                \/ (\E g \in Chat : BindLooks(t, u, g)) \/ BindWrites(t, u)
      PROVE  FoundingInv'
    BY <1>2, DialogueKeepsInv, HandlersKeepInv, NationKeepsInv
<1>. QED BY <1>1, <1>2 DEF FoundingNext

(* A group is the capital of one nation or in the draft of one founder, and no two  *)
(* nations have the same code: bind_group and create_nation look again under the    *)
(* draft's lock, whatever was found before.                                         *)
THEOREM CapitalsAreClaimedOnce == FoundingSpec => []CapitalsClaimedOnce
<1>1. FoundingInv => CapitalsClaimedOnce
    BY DEF FoundingInv
<1>. QED BY FoundingStarts, FoundingKeepsInv, <1>1, PTL DEF FoundingSpec

(* What the dialogue asks for is what set_currency_code, set_flag and finalize_draft  *)
(* will accept, although the dialogue is told after the commit and handlers overlap   *)
(* or end in between, unless the draft has expired or another handler has written it  *)
(* since the handler that asked did.                                                  *)
THEOREM DialogueFitsTheDraft == FoundingSpec => []DialogueFitsDraft
<1>1. FoundingInv => DialogueFitsDraft
    BY DEF FoundingInv
<1>. QED BY FoundingStarts, FoundingKeepsInv, <1>1, PTL DEF FoundingSpec

------------------------------------------------------------------------------
(* The world. *)

Event == [kind : Kind, by : {"job", "panel"}, age : Nat, left : Nat, active : BOOLEAN,
          announced : BOOLEAN, posts : Nat]

WorldTypeOK ==
    /\ trend \in Kind \cup {"calm"}
    /\ events \in Seq(Event)
    /\ announcing \in [event : Nat, step : {"none", "made", "posted"}]

EventsApart ==
    \A i, j \in DOMAIN events :
        i < j /\ events[i].kind = events[j].kind /\ events[j].by = "job" => events[i].age > Rearm

PostedOnce ==
    \A i \in DOMAIN events :
        /\ events[i].posts <= 1
        /\ events[i].announced => events[i].posts = 1 /\ events[i].by = "job"

\* The job knows how far it is with an event of its own.
JobKnows ==
    announcing # Untold =>
        /\ announcing.event \in DOMAIN events /\ events[announcing.event].by = "job"
        /\ announcing.step = "made" => events[announcing.event].posts = 0
        /\ announcing.step = "posted" => events[announcing.event].posts = 1

WorldInv == WorldTypeOK /\ EventsApart /\ PostedOnce /\ JobKnows

LEMMA InvEventsToldOnce == WorldInv => EventsToldOnce
BY DEF WorldInv, EventsToldOnce, EventsApart, PostedOnce

LEMMA WorldStarts == WorldInit => WorldInv
<1>. SUFFICES ASSUME WorldInit PROVE WorldInv
    OBVIOUS
<1>1. events = <<>> /\ DOMAIN events = {} /\ Len(events) = 0
    BY DEF WorldInit
<1>2. WorldTypeOK
    BY DEF WorldInit, WorldTypeOK, Untold, NoEvent
<1>. QED BY <1>1, <1>2 DEF WorldInit, WorldInv, EventsApart, PostedOnce, JobKnows

(* Events that only grow older, as long as their ends are. *)
LEMMA OlderEvents ==
    ASSUME WorldInv, UNCHANGED announcing, events' \in Seq(Event), trend' \in Kind \cup {"calm"},
           Len(events') = Len(events),
           \A i \in DOMAIN events :
               /\ events'[i].kind = events[i].kind /\ events'[i].by = events[i].by
               /\ events'[i].posts = events[i].posts /\ events'[i].announced = events[i].announced
               /\ events[i].age > Rearm => events'[i].age > Rearm
    PROVE  WorldInv'
<1>1. DOMAIN events' = DOMAIN events /\ events \in Seq(Event)
    BY DEF WorldInv, WorldTypeOK
<1>2. WorldTypeOK'
    BY DEF WorldInv, WorldTypeOK
<1>3. EventsApart'
    BY <1>1 DEF WorldInv, EventsApart
<1>4. PostedOnce' /\ JobKnows'
    BY <1>1 DEF WorldInv, PostedOnce, JobKnows
<1>. QED BY <1>2, <1>3, <1>4 DEF WorldInv

LEMMA ExpiredType ==
    ASSUME NEW s \in Seq(Event)
    PROVE  /\ Expired(s) \in Seq(Event) /\ Len(Expired(s)) = Len(s)
           /\ \A i \in DOMAIN s : \E b \in BOOLEAN : Expired(s)[i] = [s[i] EXCEPT !.active = b]
<1>1. \A i \in DOMAIN s : s[i] \in Event
    OBVIOUS
<1>2. ASSUME NEW i \in DOMAIN s, NEW b \in BOOLEAN PROVE [s[i] EXCEPT !.active = b] \in Event
    BY <1>1 DEF Event
<1>3. \A i \in DOMAIN s : [s[i] EXCEPT !.active = @ /\ s[i].left > 0] \in Event
    BY <1>1 DEF Event
<1>4. Expired(s) \in [1..Len(s) -> Event]
    BY <1>3 DEF Expired
<1>5. ASSUME NEW i \in DOMAIN s
      PROVE  \E b \in BOOLEAN : Expired(s)[i] = [s[i] EXCEPT !.active = b]
    <2>. DEFINE b == s[i].active /\ s[i].left > 0
    <2>1. Expired(s)[i] = [s[i] EXCEPT !.active = b] /\ b \in BOOLEAN
        BY DEF Expired
    <2>. QED BY <2>1
<1>. QED BY <1>4, <1>5

(* One more event, made by the panel or by the job. *)
LEMMA OneMoreEvent ==
    ASSUME WorldInv, UNCHANGED trend, NEW s \in Seq(Event), NEW e \in Event,
           events' = Append(s, e), Len(s) = Len(events),
           \A i \in DOMAIN events :
               \E b \in BOOLEAN : s[i] = [events[i] EXCEPT !.active = b],
           e.posts = 0, ~e.announced,
           \/ e.by = "panel" /\ UNCHANGED announcing
           \/ /\ e.by = "job" /\ announcing' = [event |-> Len(events) + 1, step |-> "made"]
              /\ \A i \in DOMAIN events : events[i].kind = e.kind => events[i].age > Rearm
    PROVE  WorldInv'
<1>1. events \in Seq(Event) /\ \A i \in DOMAIN events : events[i] \in Event
    BY DEF WorldInv, WorldTypeOK
<1>2. events' \in Seq(Event) /\ DOMAIN events' = 1..(Len(events) + 1) /\ DOMAIN events = 1..Len(events)
      /\ events'[Len(events) + 1] = e /\ Len(events) \in Nat
    BY <1>1
<1>3. ASSUME NEW i \in DOMAIN events
      PROVE  /\ events'[i].kind = events[i].kind /\ events'[i].by = events[i].by
             /\ events'[i].posts = events[i].posts /\ events'[i].announced = events[i].announced
             /\ events'[i].age = events[i].age
    <2>1. events'[i] = s[i]
        BY <1>1
    <2>2. PICK b \in BOOLEAN : s[i] = [events[i] EXCEPT !.active = b]
        OBVIOUS
    <2>. QED BY <1>1, <2>1, <2>2 DEF Event
<1>4. announcing' \in [event : Nat, step : {"none", "made", "posted"}]
    BY <1>2 DEF WorldInv, WorldTypeOK
<1>5. WorldTypeOK'
    BY <1>2, <1>4 DEF WorldInv, WorldTypeOK
<1>6. EventsApart'
    BY <1>2, <1>3 DEF WorldInv, EventsApart
<1>7. PostedOnce'
    BY <1>2, <1>3 DEF WorldInv, PostedOnce
<1>8. JobKnows'
    BY <1>2, <1>3 DEF WorldInv, JobKnows
<1>. QED BY <1>5, <1>6, <1>7, <1>8 DEF WorldInv

(* A step of the job with its event. *)
LEMMA JobGoesOn ==
    ASSUME WorldInv, UNCHANGED trend, announcing # Untold,
           NEW e \in Event, events' = [events EXCEPT ![announcing.event] = e],
           e.kind = events[announcing.event].kind, e.by = "job",
           e.age = events[announcing.event].age, e.posts <= 1, e.announced => e.posts = 1,
           \/ announcing' = Untold
           \/ announcing' = [announcing EXCEPT !.step = "posted"] /\ e.posts = 1
    PROVE  WorldInv'
<1>1. events \in Seq(Event) /\ announcing.event \in DOMAIN events /\ events[announcing.event].by = "job"
    BY DEF WorldInv, WorldTypeOK, JobKnows
<1>2. events' \in Seq(Event) /\ DOMAIN events' = DOMAIN events /\ events'[announcing.event] = e
      /\ \A i \in DOMAIN events : i # announcing.event => events'[i] = events[i]
    BY <1>1
<1>3. announcing' \in [event : Nat, step : {"none", "made", "posted"}]
      /\ (announcing' # Untold => announcing'.event = announcing.event /\ announcing'.step = "posted"
                                  /\ e.posts = 1)
    BY DEF WorldInv, WorldTypeOK, Untold, NoEvent
<1>4. WorldTypeOK'
    BY <1>2, <1>3 DEF WorldInv, WorldTypeOK
<1>5. EventsApart'
    BY <1>1, <1>2 DEF WorldInv, EventsApart
<1>6. PostedOnce'
    BY <1>2 DEF WorldInv, PostedOnce
<1>7. JobKnows'
    BY <1>1, <1>2, <1>3 DEF WorldInv, JobKnows
<1>. QED BY <1>4, <1>5, <1>6, <1>7 DEF WorldInv

(* An event that is told, marked or older is the same event. *)
LEMMA EventTold ==
    ASSUME NEW e \in Event, NEW n \in Nat, NEW told, told = [e EXCEPT !.posts = n]
    PROVE  /\ told \in Event /\ told.kind = e.kind /\ told.by = e.by /\ told.age = e.age
           /\ told.posts = n /\ told.announced = e.announced
BY DEF Event

LEMMA EventMarked ==
    ASSUME NEW e \in Event, NEW marked, marked = [e EXCEPT !.announced = TRUE]
    PROVE  /\ marked \in Event /\ marked.kind = e.kind /\ marked.by = e.by
           /\ marked.age = e.age /\ marked.posts = e.posts
BY DEF Event

LEMMA WorldKeepsInv == WorldInv /\ [WorldNext]_worldVars => WorldInv'
<1>. SUFFICES ASSUME WorldInv, [WorldNext]_worldVars PROVE WorldInv'
    OBVIOUS
<1>1. events \in Seq(Event) /\ Len(events) \in Nat /\ DOMAIN events = 1..Len(events)
      /\ \A i \in DOMAIN events : events[i] \in Event
    BY DEF WorldInv, WorldTypeOK
<1>2. Rearm \in Nat /\ Duration \in Nat
    BY WorldAssumption
<1>4. CASE JobEnds
    BY <1>4 DEF JobEnds, WorldInv, WorldTypeOK, EventsApart, PostedOnce, JobKnows, Untold, NoEvent
<1>5. CASE TrendChanges
    BY <1>1, <1>5, OlderEvents DEF TrendChanges
<1>6. CASE ClockTicks
    <2>1. /\ events' = [i \in DOMAIN events |->
                           [events[i] EXCEPT !.age = Capped(events[i].age + 1, Rearm + 1),
                                             !.left = Less(events[i].left)]]
          /\ UNCHANGED <<trend, announcing>>
        BY <1>6 DEF ClockTicks
    <2>2. ASSUME NEW i \in DOMAIN events
          PROVE  /\ events'[i] \in Event /\ events'[i].kind = events[i].kind
                 /\ events'[i].by = events[i].by /\ events'[i].posts = events[i].posts
                 /\ events'[i].announced = events[i].announced
                 /\ events[i].age > Rearm => events'[i].age > Rearm
        <3>. DEFINE n == Capped(events[i].age + 1, Rearm + 1)
                    l == Less(events[i].left)
        <3>1. events[i] \in Event /\ events[i].age \in Nat /\ events[i].left \in Nat
            BY <1>1 DEF Event
        <3>2. n \in Nat /\ l \in Nat /\ (events[i].age > Rearm => n > Rearm)
            BY <1>2, <3>1 DEF Capped, Less
        <3>3. events'[i] = [events[i] EXCEPT !.age = n, !.left = l]
            BY <2>1
        <3>. HIDE DEF n, l
        <3>4. /\ events'[i] \in Event /\ events'[i].kind = events[i].kind
              /\ events'[i].by = events[i].by /\ events'[i].posts = events[i].posts
              /\ events'[i].announced = events[i].announced /\ events'[i].age = n
            BY <3>1, <3>2, <3>3 DEF Event
        <3>. QED BY <3>2, <3>4
    <2>3. DOMAIN events' = 1..Len(events)
        BY <1>1, <2>1
    <2>4. events' \in [1..Len(events) -> Event]
        BY <1>1, <2>1, <2>2
    <2>5. events' \in Seq(Event) /\ Len(events') = Len(events)
        BY <1>1, <2>4
    <2>. QED BY <2>1, <2>2, <2>5, OlderEvents DEF WorldInv, WorldTypeOK
<1>7. CASE JobMakesEvent
    <2>1. /\ Expired(events) \in Seq(Event) /\ Len(Expired(events)) = Len(events)
          /\ \A i \in DOMAIN events : \E b \in BOOLEAN : Expired(events)[i] = [events[i] EXCEPT !.active = b]
        BY <1>1, ExpiredType
    <2>2. CASE trend \in Kind /\ ~Recent(trend) /\ Len(events) < MaxEvents
        <3>. DEFINE e == NewEvent(trend, "job", Duration)
        <3>1. e \in Event /\ e.posts = 0 /\ ~e.announced /\ e.by = "job" /\ e.kind = trend
            BY <1>2, <2>2 DEF NewEvent, Event
        <3>2. \A i \in DOMAIN events : events[i].kind = e.kind => events[i].age > Rearm
            BY <1>1, <1>2, <2>2, <3>1 DEF Recent, Event
        <3>3. events' = Append(Expired(events), e) /\ UNCHANGED trend
              /\ announcing' = [event |-> Len(events) + 1, step |-> "made"]
            BY <1>7, <2>2 DEF JobMakesEvent
        <3>. HIDE DEF e
        <3>. QED BY <2>1, <3>1, <3>2, <3>3, OneMoreEvent
    <2>3. CASE ~(trend \in Kind /\ ~Recent(trend) /\ Len(events) < MaxEvents)
        <3>1. events' = Expired(events) /\ UNCHANGED <<trend, announcing>>
            BY <1>7, <2>3 DEF JobMakesEvent
        <3>2. ASSUME NEW i \in DOMAIN events
              PROVE  /\ events'[i].kind = events[i].kind /\ events'[i].by = events[i].by
                     /\ events'[i].posts = events[i].posts /\ events'[i].announced = events[i].announced
                     /\ events'[i].age = events[i].age
            <4>1. PICK b \in BOOLEAN : events'[i] = [events[i] EXCEPT !.active = b]
                BY <2>1, <3>1
            <4>. QED BY <1>1, <4>1 DEF Event
        <3>. QED BY <2>1, <3>1, <3>2, OlderEvents DEF WorldInv, WorldTypeOK
    <2>. QED BY <2>2, <2>3
<1>8. CASE JobPosts
    <2>1. announcing # Untold
        BY <1>8 DEF JobPosts, Untold
    <2>2. announcing.event \in DOMAIN events /\ events[announcing.event] \in Event
          /\ events[announcing.event].by = "job" /\ events[announcing.event].posts = 0
          /\ ~events[announcing.event].announced
        BY <1>1, <1>8, <2>1 DEF JobPosts, WorldInv, JobKnows, PostedOnce
    <2>. DEFINE old == events[announcing.event]
                e == [old EXCEPT !.posts = old.posts + 1]
    <2>3. e \in Event /\ e.kind = old.kind /\ e.by = "job" /\ e.age = old.age /\ e.posts = 1
          /\ e.posts <= 1
        <3>1. old.posts + 1 = 1 /\ old \in Event
            BY <2>2
        <3>2. e = [old EXCEPT !.posts = 1]
            BY <3>1
        <3>. HIDE DEF e
        <3>. QED BY <2>2, <3>1, <3>2, EventTold
    <2>4. events' = [events EXCEPT ![announcing.event] = e] /\ UNCHANGED trend
          /\ announcing' \in {[announcing EXCEPT !.step = "posted"], Untold}
        BY <1>8 DEF JobPosts
    <2>. HIDE DEF e
    <2>. QED BY <2>1, <2>3, <2>4, JobGoesOn
<1>9. CASE JobMarks
    <2>1. announcing # Untold
        BY <1>9 DEF JobMarks, Untold
    <2>. DEFINE old == events[announcing.event]
                e == [old EXCEPT !.announced = TRUE]
    <2>2. announcing.event \in DOMAIN events /\ old \in Event /\ old.by = "job" /\ old.posts = 1
        BY <1>1, <1>9, <2>1 DEF JobMarks, WorldInv, JobKnows
    <2>3. e \in Event /\ e.kind = old.kind /\ e.by = "job" /\ e.age = old.age /\ e.posts = 1
          /\ e.posts <= 1
        <3>1. e = [old EXCEPT !.announced = TRUE] /\ old \in Event
            BY <2>2
        <3>. HIDE DEF e
        <3>. QED BY <2>2, <3>1, EventMarked
    <2>4. events' = [events EXCEPT ![announcing.event] = e] /\ UNCHANGED trend
          /\ announcing' = Untold
        BY <1>9 DEF JobMarks
    <2>. HIDE DEF e
    <2>. QED BY <2>1, <2>3, <2>4, JobGoesOn
<1>11. ASSUME NEW kind \in Kind, NEW length \in {1, Rearm}, AdminMakesEvent(kind, length)
       PROVE  WorldInv'
    <2>. DEFINE e == NewEvent(kind, "panel", length)
    <2>1. e \in Event /\ e.posts = 0 /\ ~e.announced /\ e.by = "panel"
        BY <1>2 DEF NewEvent, Event
    <2>2. \A i \in DOMAIN events : \E b \in BOOLEAN : events[i] = [events[i] EXCEPT !.active = b]
        <3>1. ASSUME NEW i \in DOMAIN events
              PROVE  events[i].active \in BOOLEAN /\ events[i] = [events[i] EXCEPT !.active = events[i].active]
            BY <1>1 DEF Event
        <3>. QED BY <3>1
    <2>3. events' = Append(events, e) /\ UNCHANGED <<trend, announcing>>
        BY <1>11 DEF AdminMakesEvent
    <2>. HIDE DEF e
    <2>. QED BY <1>1, <2>1, <2>2, <2>3, OneMoreEvent
<1>12. CASE UNCHANGED worldVars
    BY <1>12 DEF worldVars, WorldInv, WorldTypeOK, EventsApart, PostedOnce, JobKnows
<1>. QED BY <1>4, <1>5, <1>6, <1>7, <1>8, <1>9, <1>11, <1>12 DEF WorldNext

(* The job's events are EVENT_REARM apart; a group reads of an event once at most, and *)
(* of every event that is marked: what the queries look at outlives the process and    *)
(* the job, wherever it ends.                                                          *)
THEOREM EventsAreToldOnce == WorldSpec => []EventsToldOnce
BY WorldStarts, WorldKeepsInv, InvEventsToldOnce, PTL DEF WorldSpec

------------------------------------------------------------------------------
(* What is typed minutes after a button: proposals. *)

(* A sequence without one of its elements. *)
LEMMA OneRemoved ==
    ASSUME NEW S, NEW s \in Seq(S), NEW i \in 1..Len(s)
    PROVE  /\ Without(s, i) \in Seq(S) /\ Len(Without(s, i)) = Len(s) - 1
           /\ \A j \in 1..Len(Without(s, i)) : \E k \in 1..Len(s) : Without(s, i)[j] = s[k]
<1>. DEFINE r == Without(s, i)
            a == SubSeq(s, 1, i - 1)
            b == SubSeq(s, i + 1, Len(s))
<1>1. Len(s) \in Nat /\ i \in Int /\ 1 <= i /\ i <= Len(s) /\ \A j \in 1..Len(s) : s[j] \in S
    OBVIOUS
<1>2. a \in Seq(S) /\ Len(a) = i - 1 /\ \A j \in 1..(i - 1) : a[j] = s[j]
    <2>1. 1 \in Int /\ i - 1 \in Int /\ \A j \in 1..(i - 1) : s[j] \in S
        BY <1>1
    <2>2. /\ a \in Seq(S) /\ Len(a) = IF 1 <= i - 1 THEN (i - 1) - 1 + 1 ELSE 0
          /\ \A j \in 1..((i - 1) - 1 + 1) : a[j] = s[1 + j - 1]
        BY <2>1, SubSeqProperties
    <2>. HIDE DEF a
    <2>. QED BY <1>1, <2>2
<1>3. b \in Seq(S) /\ Len(b) = Len(s) - i /\ \A j \in 1..(Len(s) - i) : b[j] = s[i + j]
    <2>1. i + 1 \in Int /\ Len(s) \in Int /\ \A j \in (i + 1)..Len(s) : s[j] \in S
        BY <1>1
    <2>2. /\ b \in Seq(S) /\ Len(b) = IF i + 1 <= Len(s) THEN Len(s) - (i + 1) + 1 ELSE 0
          /\ \A j \in 1..(Len(s) - (i + 1) + 1) : b[j] = s[(i + 1) + j - 1]
        BY <2>1, SubSeqProperties
    <2>. HIDE DEF b
    <2>3. Len(b) = Len(s) - i /\ Len(s) - (i + 1) + 1 = Len(s) - i
        BY <1>1, <2>2
    <2>4. ASSUME NEW j \in 1..(Len(s) - i) PROVE b[j] = s[i + j]
        <3>1. j \in 1..(Len(s) - (i + 1) + 1) /\ (i + 1) + j - 1 = i + j
            BY <1>1, <2>3
        <3>. QED BY <2>2, <3>1
    <2>. QED BY <2>2, <2>3, <2>4
<1>4. r = a \o b
    BY Zenon DEF Without
<1>. HIDE DEF a, b, r
<1>5. /\ r \in Seq(S) /\ Len(r) = Len(a) + Len(b)
      /\ \A j \in 1..(Len(a) + Len(b)) : r[j] = IF j <= Len(a) THEN a[j] ELSE b[j - Len(a)]
    <2>1. a \in Seq(S) /\ b \in Seq(S)
        BY <1>2, <1>3
    <2>2. /\ a \o b \in Seq(S) /\ Len(a \o b) = Len(a) + Len(b)
          /\ \A j \in 1..(Len(a) + Len(b)) : (a \o b)[j] = IF j <= Len(a) THEN a[j] ELSE b[j - Len(a)]
        BY <2>1, ConcatProperties, Zenon
    <2>. QED BY <1>4, <2>2, Zenon
<1>6. Len(r) = Len(s) - 1
    <2>1. Len(r) = (i - 1) + (Len(s) - i)
        BY <1>2, <1>3, <1>5
    <2>. QED BY <1>1, <2>1
<1>7. ASSUME NEW j \in 1..Len(r) PROVE \E k \in 1..Len(s) : r[j] = s[k]
    <2>1. CASE j <= i - 1
        <3>1. j \in 1..(i - 1) /\ j \in 1..(Len(a) + Len(b)) /\ j <= Len(a) /\ j \in 1..Len(s)
            BY <2>1, <1>1, <1>2, <1>3, <1>5
        <3>2. r[j] = s[j]
            BY <3>1, <1>2, <1>5
        <3>. QED BY <3>1, <3>2
    <2>2. CASE ~(j <= i - 1)
        <3>1. /\ j \in 1..(Len(a) + Len(b)) /\ ~(j <= Len(a)) /\ j - Len(a) \in 1..(Len(s) - i)
              /\ i + (j - Len(a)) = j + 1 /\ j + 1 \in 1..Len(s)
            <4>1. j \in Int /\ 1 <= j /\ j <= Len(s) - 1 /\ Len(a) = i - 1 /\ Len(b) = Len(s) - i
                BY <1>1, <1>2, <1>3, <1>5
            <4>. QED BY <2>2, <1>1, <4>1
        <3>2. r[j] = b[j - Len(a)]
            BY <3>1, <1>5
        <3>3. r[j] = s[j + 1]
            BY <3>1, <3>2, <1>3
        <3>. QED BY <3>1, <3>3
    <2>. QED BY <2>1, <2>2
<1>. QED BY <1>5, <1>6, <1>7 DEF r

Wish == [state : {"none", "WAITING_VALUE", "CONFIRM_PROPOSAL"}, topic : Topic \cup {Nowhere},
         target : Homeland \cup {Nowhere}]

Recorded == [topic : Topic \cup {Nowhere}, target : Homeland \cup {Nowhere}, by : BOOLEAN,
             from : Homeland \cup {Nowhere}]

ProposingTypeOK ==
    /\ wish \in Wish
    /\ eligible \in BOOLEAN
    /\ homeland \in Homeland \cup {Nowhere}
    /\ confirming \in Seq(Wish)
    /\ motions \in Seq(Recorded)
    /\ dialogues \in Nat /\ dialogues <= MaxMotions /\ doubled \in Nat

\* A wish that can be confirmed has a target only if its topic is a nation's.
Aimed(w) == w.topic \notin NationTopic => w.target = Nowhere

WishesAimed ==
    /\ wish.state = "CONFIRM_PROPOSAL" => Aimed(wish)
    /\ \A i \in 1..Len(confirming) : Aimed(confirming[i])

MotionsByTheEligible ==
    \A i \in 1..Len(motions) : /\ motions[i].by
                               /\ motions[i].topic \in NationTopic <=> motions[i].target # Nowhere

\* The panel on show, if nobody has pressed its button yet.
Unread == wish.state = "CONFIRM_PROPOSAL" /\ \A i \in 1..Len(confirming) : confirming[i] # wish

\* Every proposal, and every press that may become one, has its panel or its overlap.
EnoughPanels ==
    Len(motions) + Len(confirming) + (IF Unread /\ dialogues < MaxMotions THEN 1 ELSE 0)
        <= dialogues + doubled

ProposingInv == ProposingTypeOK /\ WishesAimed /\ MotionsByTheEligible /\ EnoughPanels

LEMMA InvProposals == ProposingInv => ProposalsByTheEligible
<1>. SUFFICES ASSUME ProposingInv PROVE ProposalsByTheEligible
    OBVIOUS
<1>1. Len(motions) \in Nat /\ Len(confirming) \in Nat /\ DOMAIN motions = 1..Len(motions)
      /\ dialogues \in Nat /\ doubled \in Nat
    BY DEF ProposingInv, ProposingTypeOK
<1>2. Len(motions) <= dialogues + doubled
    BY <1>1 DEF ProposingInv, EnoughPanels
<1>. QED BY <1>1, <1>2 DEF ProposingInv, MotionsByTheEligible, ProposalsByTheEligible

LEMMA ProposingStarts == ProposingInit => ProposingInv
<1>. SUFFICES ASSUME ProposingInit PROVE ProposingInv
    OBVIOUS
<1>1. Len(confirming) = 0 /\ Len(motions) = 0 /\ wish.state = "none" /\ wish \in Wish
      /\ confirming \in Seq(Wish) /\ motions \in Seq(Recorded)
    BY DEF ProposingInit, NoWish, Wish
<1>2. ProposingTypeOK
    <2>1. dialogues = 0 /\ doubled = 0 /\ eligible = FALSE /\ homeland = Nowhere /\ 0 <= MaxMotions
        BY ProposingAssumption DEF ProposingInit
    <2>. QED BY <1>1, <2>1 DEF ProposingTypeOK
<1>. QED BY <1>1, <1>2 DEF ProposingInit, ProposingInv, WishesAimed, MotionsByTheEligible, EnoughPanels,
                           Unread

(* A step of the dialogue that leaves nothing to confirm. *)
LEMMA WishAside ==
    ASSUME ProposingInv, wish' \in Wish, wish'.state # "CONFIRM_PROPOSAL",
           UNCHANGED <<eligible, homeland, confirming, motions, dialogues, doubled>>
    PROVE  ProposingInv'
<1>1. Len(motions) \in Nat /\ Len(confirming) \in Nat /\ dialogues \in Nat /\ doubled \in Nat
    BY DEF ProposingInv, ProposingTypeOK
<1>2. ProposingTypeOK' /\ WishesAimed' /\ MotionsByTheEligible'
    BY DEF ProposingInv, ProposingTypeOK, WishesAimed, Aimed, MotionsByTheEligible
<1>3. ~Unread'
    BY DEF Unread
<1>4. EnoughPanels'
    BY <1>1, <1>3 DEF ProposingInv, EnoughPanels
<1>. QED BY <1>2, <1>4 DEF ProposingInv

LEMMA ProposingKeepsInv == ProposingInv /\ [ProposingNext]_proposingVars => ProposingInv'
<1>. SUFFICES ASSUME ProposingInv, [ProposingNext]_proposingVars PROVE ProposingInv'
    OBVIOUS
<1>1. /\ Len(motions) \in Nat /\ Len(confirming) \in Nat /\ dialogues \in Nat /\ doubled \in Nat
      /\ wish \in Wish /\ confirming \in Seq(Wish) /\ motions \in Seq(Recorded) /\ MaxMotions \in Nat
    BY ProposingAssumption DEF ProposingInv, ProposingTypeOK
<1>2. NoWish \in Wish /\ NoWish.state # "CONFIRM_PROPOSAL"
    BY DEF NoWish, Wish
<1>3. CASE GovernanceNew \/ GovernanceCancel
    BY <1>2, <1>3, WishAside DEF GovernanceNew, GovernanceCancel
<1>4. ASSUME NEW topic \in Topic, GovernanceSelectRule(topic) PROVE ProposingInv'
    <2>1. wish' \in Wish /\ wish'.state # "CONFIRM_PROPOSAL"
        BY <1>1, <1>4 DEF GovernanceSelectRule, Wish
    <2>. QED BY <1>4, <2>1, WishAside DEF GovernanceSelectRule
<1>5. CASE GovernanceReceiveValue
    <2>1. CASE ~eligible
        BY <1>2, <1>5, <2>1, WishAside DEF GovernanceReceiveValue
    <2>2. CASE eligible
        <3>1. /\ wish.state = "WAITING_VALUE"
              /\ wish' = [wish EXCEPT !.state = "CONFIRM_PROPOSAL", !.target = TargetOf(wish.topic)]
              /\ dialogues' = Capped(dialogues + 1, MaxMotions)
              /\ UNCHANGED <<eligible, homeland, confirming, motions, doubled>>
            BY <1>5, <2>2 DEF GovernanceReceiveValue
        <3>2. wish' \in Wish /\ Aimed(wish')
            BY <1>1, <3>1 DEF Wish, TargetOf, Aimed, ProposingInv, ProposingTypeOK
        <3>3. dialogues' \in Nat /\ dialogues' <= MaxMotions
              /\ (dialogues' = dialogues + 1 \/ (dialogues' = dialogues /\ ~(dialogues' < MaxMotions)))
            <4>1. dialogues <= MaxMotions
                BY DEF ProposingInv, ProposingTypeOK
            <4>. QED BY <1>1, <3>1, <4>1 DEF Capped
        <3>4. ProposingTypeOK' /\ WishesAimed' /\ MotionsByTheEligible'
            BY <3>1, <3>2, <3>3 DEF ProposingInv, ProposingTypeOK, WishesAimed, Aimed,
                                    MotionsByTheEligible
        <3>5. EnoughPanels'
            BY <1>1, <3>1, <3>3 DEF ProposingInv, EnoughPanels, Unread
        <3>. QED BY <3>4, <3>5 DEF ProposingInv
    <2>. QED BY <2>1, <2>2 DEF ProposingInv, ProposingTypeOK
<1>6. CASE PressConfirm
    <2>1. /\ wish.state = "CONFIRM_PROPOSAL" /\ confirming' = Append(confirming, wish)
          /\ dialogues < MaxMotions /\ UNCHANGED <<wish, eligible, homeland, motions, dialogues>>
          /\ doubled' = IF \E i \in DOMAIN confirming : confirming[i] = wish
                        THEN doubled + 1 ELSE doubled
        BY <1>6 DEF PressConfirm
    <2>2. /\ confirming' \in Seq(Wish) /\ Len(confirming') = Len(confirming) + 1
          /\ confirming'[Len(confirming) + 1] = wish
          /\ \A i \in 1..Len(confirming) : confirming'[i] = confirming[i]
        BY <1>1, <2>1
    <2>3. DOMAIN confirming = 1..Len(confirming)
        BY <1>1
    <2>4. doubled' \in Nat /\ (Unread => doubled' = doubled) /\ (~Unread => doubled' = doubled + 1)
        BY <1>1, <2>1, <2>3 DEF Unread
    <2>5. ~Unread'
        <3>1. Len(confirming) + 1 \in 1..Len(confirming') /\ confirming'[Len(confirming) + 1] = wish'
            BY <1>1, <2>1, <2>2
        <3>. QED BY <3>1 DEF Unread
    <2>6. ProposingTypeOK' /\ WishesAimed' /\ MotionsByTheEligible'
        BY <1>1, <2>1, <2>2, <2>4 DEF ProposingInv, ProposingTypeOK, WishesAimed, Aimed,
                                      MotionsByTheEligible
    <2>7. EnoughPanels'
        BY <1>1, <2>1, <2>2, <2>4, <2>5 DEF ProposingInv, EnoughPanels
    <2>. QED BY <2>6, <2>7 DEF ProposingInv
<1>7. ASSUME NEW i \in 1..2, GovernanceConfirm(i) PROVE ProposingInv'
    <2>. DEFINE w == confirming[i]
    <2>1. i \in 1..Len(confirming) /\ w \in Wish
        BY <1>1, <1>7 DEF GovernanceConfirm
    <2>2. confirming' = Without(confirming, i) /\ UNCHANGED <<eligible, homeland, dialogues, doubled>>
        BY <1>7 DEF GovernanceConfirm, Without
    <2>3. /\ confirming' \in Seq(Wish) /\ Len(confirming') = Len(confirming) - 1
          /\ \A j \in 1..Len(confirming') : \E k \in 1..Len(confirming) : confirming'[j] = confirming[k]
        <3>1. /\ Without(confirming, i) \in Seq(Wish) /\ Len(Without(confirming, i)) = Len(confirming) - 1
              /\ \A j \in 1..Len(Without(confirming, i)) :
                    \E k \in 1..Len(confirming) : Without(confirming, i)[j] = confirming[k]
            BY <1>1, <2>1, OneRemoved, Zenon
        <3>. QED BY <2>2, <3>1, Zenon
    <2>4. CASE MayPropose(w)
        <3>. DEFINE m == [topic |-> w.topic, target |-> w.target, by |-> eligible, from |-> homeland]
        <3>1. motions' = Append(motions, m) /\ wish' = NoWish
            BY <1>7, <2>4 DEF GovernanceConfirm
        <3>2. m \in Recorded
            BY <2>1 DEF Wish, Recorded, ProposingInv, ProposingTypeOK
        <3>3. m.by /\ (m.topic \in NationTopic <=> m.target # Nowhere)
            BY <2>1, <2>4 DEF MayPropose, MayProposeAsTyped, ProposingInv, WishesAimed, Aimed
        <3>. HIDE DEF m
        <3>4. /\ motions' \in Seq(Recorded) /\ Len(motions') = Len(motions) + 1
              /\ motions'[Len(motions) + 1] = m
              /\ \A j \in 1..Len(motions) : motions'[j] = motions[j]
            BY <1>1, <3>1, <3>2
        <3>5. ProposingTypeOK'
            BY <1>2, <2>2, <2>3, <3>1, <3>4 DEF ProposingInv, ProposingTypeOK
        <3>6. WishesAimed' /\ MotionsByTheEligible'
            BY <1>1, <1>2, <2>3, <3>1, <3>3, <3>4 DEF ProposingInv, WishesAimed, Aimed,
                                                     MotionsByTheEligible
        <3>7. ~Unread'
            BY <1>2, <3>1 DEF Unread
        <3>8. EnoughPanels'
            BY <1>1, <2>2, <2>3, <3>4, <3>7 DEF ProposingInv, EnoughPanels
        <3>. QED BY <3>5, <3>6, <3>8 DEF ProposingInv
    <2>5. CASE ~MayPropose(w)
        <3>1. UNCHANGED <<motions, wish>>
            BY <1>7, <2>5 DEF GovernanceConfirm
        <3>2. ProposingTypeOK' /\ WishesAimed' /\ MotionsByTheEligible'
            BY <2>2, <2>3, <3>1 DEF ProposingInv, ProposingTypeOK, WishesAimed, Aimed,
                                    MotionsByTheEligible
        <3>3. EnoughPanels'
            BY <1>1, <2>2, <2>3, <3>1 DEF ProposingInv, EnoughPanels
        <3>. QED BY <3>2, <3>3 DEF ProposingInv
    <2>. QED BY <2>4, <2>5
<1>8. ASSUME NEW e \in BOOLEAN, NEW h \in Homeland \cup {Nowhere}, StandingChanges(e, h)
      PROVE  ProposingInv'
    BY <1>8 DEF StandingChanges, ProposingInv, ProposingTypeOK, WishesAimed, Aimed,
                MotionsByTheEligible, EnoughPanels, Unread
<1>9. CASE UNCHANGED proposingVars
    BY <1>9 DEF proposingVars, ProposingInv, ProposingTypeOK, WishesAimed, Aimed,
                MotionsByTheEligible, EnoughPanels, Unread
<1>. QED BY <1>3, <1>4, <1>5, <1>6, <1>7, <1>8, <1>9 DEF ProposingNext

------------------------------------------------------------------------------
(* What is typed minutes after a button: announcements. *)

Prompt == [land : Country \cup {NoCountry}, confirmed : BOOLEAN]

Typed == [land : Country, by : Standing \cup {Outside}, to : Prompt, step : {"checked", "sent"}]

OfficesTypeOK ==
    /\ officer \in [Official -> Standing \cup {Outside}]
    /\ asker \in [Official -> Country \cup {NoCountry}]
    /\ asked \in [Official -> Prompt]
    /\ texts \in [Official -> Seq(Typed)]

\* What an officer types after his prompt, before it is confirmed.
OfficersText(t) ==
    /\ t.by.land = t.land /\ t.by.role \in {"founder", "minister"}
    /\ t.to = [land |-> t.land, confirmed |-> FALSE]

TextsByOfficers == \A p \in Official : \A i \in 1..Len(texts[p]) : OfficersText(texts[p][i])

\* An open dialogue has the nation of the last prompt, not confirmed yet.
PromptsOpen ==
    \A p \in Official : asker[p] # NoCountry => asked[p] = [land |-> asker[p], confirmed |-> FALSE]

OfficesInv == OfficesTypeOK /\ TextsByOfficers /\ PromptsOpen /\ AnnouncementsByOfficers

LEMMA OfficesStarts == OfficesInit => OfficesInv
<1>. SUFFICES ASSUME OfficesInit PROVE OfficesInv
    OBVIOUS
<1>1. texts = [p \in Official |-> <<>>] /\ <<>> \in Seq(Typed)
    BY DEF OfficesInit
<1>2. \A p \in Official : Len(texts[p]) = 0
    BY <1>1
<1>3. OfficesTypeOK
    BY <1>1 DEF OfficesInit, OfficesTypeOK, Prompt
<1>. QED BY <1>2, <1>3 DEF OfficesInit, OfficesInv, TextsByOfficers, PromptsOpen, AnnouncementsByOfficers

(* Roles and screens change, and nothing is published. *)
LEMMA NothingPublished ==
    ASSUME OfficesInv, officer' \in [Official -> Standing \cup {Outside}],
           asker' \in [Official -> Country \cup {NoCountry}],
           \A p \in Official : asker'[p] \in {asker[p], NoCountry},
           UNCHANGED <<asked, texts>>, NothingPosted
    PROVE  OfficesInv'
<1>1. OfficesTypeOK' /\ TextsByOfficers'
    BY DEF OfficesInv, OfficesTypeOK, TextsByOfficers
<1>2. PromptsOpen'
    BY DEF OfficesInv, PromptsOpen
<1>3. AnnouncementsByOfficers'
    BY DEF NothingPosted, AnnouncementsByOfficers
<1>. QED BY <1>1, <1>2, <1>3 DEF OfficesInv

(* The texts of one chat change. *)
LEMMA TextsChange ==
    ASSUME OfficesInv, NEW p \in Official, NEW s \in Seq(Typed),
           \A i \in 1..Len(s) : OfficersText(s[i]),
           texts' = [texts EXCEPT ![p] = s], officer' = officer
    PROVE  TextsByOfficers' /\ texts' \in [Official -> Seq(Typed)] /\ officer' \in [Official -> Standing \cup {Outside}]
<1>1. texts' \in [Official -> Seq(Typed)] /\ texts'[p] = s
      /\ \A q \in Official : q # p => texts'[q] = texts[q]
    BY DEF OfficesInv, OfficesTypeOK
<1>2. ASSUME NEW q \in Official, NEW i \in 1..Len(texts'[q]) PROVE OfficersText(texts'[q][i])
    <2>1. CASE q = p
        BY <1>1, <1>2, <2>1
    <2>2. CASE q # p
        BY <1>1, <1>2, <2>2 DEF OfficesInv, TextsByOfficers
    <2>. QED BY <2>1, <2>2
<1>3. TextsByOfficers'
    BY <1>2 DEF TextsByOfficers, OfficersText
<1>. QED BY <1>1, <1>3 DEF OfficesInv, OfficesTypeOK

(* A chat's texts without one of them. *)
LEMMA TextRemoved ==
    ASSUME OfficesInv, NEW p \in Official, NEW i \in 1..Len(texts[p])
    PROVE  /\ Without(texts[p], i) \in Seq(Typed)
           /\ \A j \in 1..Len(Without(texts[p], i)) : OfficersText(Without(texts[p], i)[j])
<1>1. texts[p] \in Seq(Typed) /\ \A k \in 1..Len(texts[p]) : OfficersText(texts[p][k])
    BY DEF OfficesInv, OfficesTypeOK, TextsByOfficers
<1>2. /\ Without(texts[p], i) \in Seq(Typed)
      /\ \A j \in 1..Len(Without(texts[p], i)) :
            \E k \in 1..Len(texts[p]) : Without(texts[p], i)[j] = texts[p][k]
    BY <1>1, OneRemoved, Zenon
<1>. QED BY <1>1, <1>2, Zenon

LEMMA OfficesKeepsInv == OfficesInv /\ [OfficesNext]_officeVars => OfficesInv'
<1>. SUFFICES ASSUME OfficesInv, [OfficesNext]_officeVars PROVE OfficesInv'
    OBVIOUS
<1>1. /\ officer \in [Official -> Standing \cup {Outside}] /\ asker \in [Official -> Country \cup {NoCountry}]
      /\ asked \in [Official -> Prompt] /\ texts \in [Official -> Seq(Typed)]
    BY DEF OfficesInv, OfficesTypeOK
<1>2. CASE BotDies
    <2>1. texts' = [p \in Official |-> <<>>] /\ <<>> \in Seq(Typed)
          /\ UNCHANGED <<officer, asker, asked>> /\ NothingPosted
        BY <1>2 DEF BotDies
    <2>2. \A p \in Official : Len(texts'[p]) = 0
        BY <2>1
    <2>3. texts' \in [Official -> Seq(Typed)]
        BY <2>1
    <2>. QED BY <1>1, <2>1, <2>2, <2>3 DEF OfficesInv, OfficesTypeOK, TextsByOfficers, PromptsOpen,
                                     AnnouncementsByOfficers, NothingPosted
<1>3. ASSUME NEW p \in Official, TextComes(p) PROVE OfficesInv'
    <2>. DEFINE t == [land |-> asker[p], by |-> officer[p], to |-> asked[p], step |-> "checked"]
                s == Append(texts[p], t)
    <2>1. asker[p] # NoCountry /\ Admin(p, asker[p]) /\ texts' = [texts EXCEPT ![p] = s]
          /\ UNCHANGED <<officer, asker, asked>> /\ NothingPosted
        BY <1>3 DEF TextComes, MayPublish
    <2>2. t \in Typed
        BY <1>1, <2>1 DEF Typed
    <2>3. OfficersText(t)
        BY <2>1 DEF OfficersText, Admin, OfficesInv, PromptsOpen
    <2>. HIDE DEF t
    <2>4. texts[p] \in Seq(Typed) /\ \A i \in 1..Len(texts[p]) : OfficersText(texts[p][i])
        BY <1>1 DEF OfficesInv, TextsByOfficers
    <2>5. s \in Seq(Typed) /\ \A i \in 1..Len(s) : s[i] = t \/ \E k \in 1..Len(texts[p]) : s[i] = texts[p][k]
        BY <2>2, <2>4
    <2>. HIDE DEF s
    <2>6. \A i \in 1..Len(s) : OfficersText(s[i])
        BY <2>3, <2>4, <2>5, Zenon
    <2>7. TextsByOfficers' /\ texts' \in [Official -> Seq(Typed)]
        BY <2>1, <2>5, <2>6, TextsChange
    <2>. QED BY <1>1, <2>1, <2>7 DEF OfficesInv, OfficesTypeOK, PromptsOpen, AnnouncementsByOfficers,
                                     NothingPosted
<1>4. ASSUME NEW p \in Official, NEW i \in 1..MaxTexts, Posts(p, i) PROVE OfficesInv'
    <2>1. i \in 1..Len(texts[p]) /\ texts[p][i] \in Typed /\ OfficersText(texts[p][i])
          /\ UNCHANGED <<officer, asker, asked>> /\ texts[p] \in Seq(Typed)
        BY <1>1, <1>4 DEF Posts, OfficesInv, TextsByOfficers
    <2>2. CASE posted' = texts[p][i] /\ texts' = [texts EXCEPT ![p][i].step = "sent"]
        <3>. DEFINE t == [texts[p][i] EXCEPT !.step = "sent"]
                    s == [texts[p] EXCEPT ![i] = t]
        <3>1. t \in Typed /\ OfficersText(t)
            BY <2>1 DEF Typed, OfficersText
        <3>2. texts' = [texts EXCEPT ![p] = s]
            BY <2>2
        <3>. HIDE DEF t
        <3>3. s \in Seq(Typed) /\ Len(s) = Len(texts[p])
              /\ \A j \in 1..Len(s) : s[j] = t \/ s[j] = texts[p][j]
            BY <2>1, <3>1
        <3>. HIDE DEF s
        <3>4. \A j \in 1..Len(s) : OfficersText(s[j])
            BY <3>1, <3>3 DEF OfficesInv, TextsByOfficers
        <3>5. TextsByOfficers' /\ texts' \in [Official -> Seq(Typed)]
            BY <2>1, <3>2, <3>3, <3>4, TextsChange
        <3>6. AnnouncementsByOfficers'
            BY <2>1, <2>2 DEF AnnouncementsByOfficers, OfficersText
        <3>. QED BY <1>1, <2>1, <3>5, <3>6 DEF OfficesInv, OfficesTypeOK, PromptsOpen
    <2>3. CASE texts' = [texts EXCEPT ![p] = Without(@, i)] /\ NothingPosted
        <3>1. texts' = [texts EXCEPT ![p] = Without(texts[p], i)]
            BY <2>3
        <3>2. TextsByOfficers' /\ texts' \in [Official -> Seq(Typed)]
            BY <2>1, <3>1, TextRemoved, TextsChange
        <3>. QED BY <1>1, <2>1, <2>3, <3>2 DEF OfficesInv, OfficesTypeOK, PromptsOpen,
                                               AnnouncementsByOfficers, NothingPosted
    <2>. QED BY <1>4, <2>2, <2>3 DEF Posts
<1>5. ASSUME NEW p \in Official, NEW i \in 1..MaxTexts, Confirms(p, i) PROVE OfficesInv'
    <2>1. i \in 1..Len(texts[p]) /\ texts[p] \in Seq(Typed)
          /\ asker' = [asker EXCEPT ![p] = NoCountry] /\ asked' = [asked EXCEPT ![p].confirmed = TRUE]
          /\ UNCHANGED officer /\ NothingPosted
          /\ texts' = [texts EXCEPT ![p] = Without(texts[p], i)]
        BY <1>1, <1>5 DEF Confirms
    <2>2. TextsByOfficers' /\ texts' \in [Official -> Seq(Typed)]
        BY <2>1, TextRemoved, TextsChange
    <2>3. asked' \in [Official -> Prompt] /\ \A q \in Official : q # p => asked'[q] = asked[q]
        BY <1>1, <2>1 DEF Prompt
    <2>. QED BY <1>1, <2>1, <2>2, <2>3 DEF OfficesInv, OfficesTypeOK, PromptsOpen,
                                           AnnouncementsByOfficers, NothingPosted
<1>6. ASSUME NEW p \in Official, GroupCommand(p) PROVE OfficesInv'
    <2>1. AnnouncementsByOfficers'
        BY <1>6 DEF GroupCommand, AnnouncementsByOfficers
    <2>. QED BY <1>6, <2>1 DEF GroupCommand, OfficesInv, OfficesTypeOK, TextsByOfficers, PromptsOpen
<1>7. ASSUME NEW p \in Official, NEW n \in Country, StartsAnnouncement(p, n) PROVE OfficesInv'
    <2>. DEFINE a == [land |-> n, confirmed |-> FALSE]
    <2>1. asker' = [asker EXCEPT ![p] = n] /\ asked' = [asked EXCEPT ![p] = a]
          /\ UNCHANGED <<officer, texts>> /\ NothingPosted
        BY <1>7 DEF StartsAnnouncement
    <2>2. a \in Prompt
        BY DEF Prompt
    <2>. QED BY <1>1, <2>1, <2>2 DEF OfficesInv, OfficesTypeOK, TextsByOfficers, PromptsOpen,
                                     AnnouncementsByOfficers, NothingPosted
<1>8. ASSUME NEW p \in Official, GoesElsewhere(p) \/ OfficerChanges(p) PROVE OfficesInv'
    <2>1. officer' \in [Official -> Standing \cup {Outside}] /\ asker' \in [Official -> Country \cup {NoCountry}]
          /\ (\A q \in Official : asker'[q] \in {asker[q], NoCountry})
          /\ UNCHANGED <<asked, texts>> /\ NothingPosted
        BY <1>1, <1>8 DEF GoesElsewhere, OfficerChanges
    <2>. QED BY <2>1, NothingPublished
<1>9. ASSUME NEW p \in Official, NEW n \in Country,
             \/ OpensSettings(p, n) \/ AsksToDissolve(p, n)
             \/ (\E kind \in DOMAIN Leads : Opens(p, n, kind))
             \/ (\E policy \in Policy : SetsCharter(p, n, policy))
      PROVE  OfficesInv'
    <2>1. UNCHANGED <<officer, asker, asked, texts>> /\ NothingPosted
        BY <1>9 DEF OpensSettings, AsksToDissolve, Opens, SetsCharter
    <2>. QED BY <1>1, <2>1, NothingPublished
<1>10. ASSUME NEW p \in Official, NEW n \in Country, ConfirmsDissolution(p, n) PROVE OfficesInv'
    <2>1. officer' \in [Official -> Standing \cup {Outside}] /\ UNCHANGED <<asker, asked, texts>> /\ NothingPosted
        BY <1>1, <1>10 DEF ConfirmsDissolution
    <2>. QED BY <1>1, <2>1, NothingPublished
<1>11. CASE UNCHANGED officeVars
    BY <1>11 DEF officeVars, OfficesInv, OfficesTypeOK, TextsByOfficers, PromptsOpen,
                 AnnouncementsByOfficers
<1>. QED BY <1>2, <1>3, <1>4, <1>5, <1>6, <1>7, <1>8, <1>9, <1>10, <1>11 DEF OfficesNext

(* create_proposal and publish_announcement look again at who asks: a proposal is    *)
(* recorded only for somebody eligible at that moment, with its target, and for a    *)
(* panel or an overlap of its own; an announcement was typed by an officer in office *)
(* when it came, for the nation he was asked about last.                             *)
THEOREM TypedByTheEligibleOnly == ProposingSpec /\ OfficesSpec => []TypedByTheEligible
<1>1. ProposingSpec => []ProposalsByTheEligible
    BY ProposingStarts, ProposingKeepsInv, InvProposals, PTL DEF ProposingSpec
<1>2. OfficesInv => AnnouncementsByOfficers
    BY DEF OfficesInv
<1>3. OfficesSpec => []AnnouncementsByOfficers
    BY OfficesStarts, OfficesKeepsInv, <1>2, PTL DEF OfficesSpec
<1>4. ProposalsByTheEligible /\ AnnouncementsByOfficers => TypedByTheEligible
    BY DEF TypedByTheEligible
<1>. QED BY <1>1, <1>3, <1>4, PTL

------------------------------------------------------------------------------
(* The treasury. What is shown in a chat is an amount that was typed; every    *)
(* step that moves money moves as much out of one place as into the other.     *)

TreasuryTypes ==
    /\ rank \in [Player -> {"none", "citizen", "minister", "founder"}]
    /\ purse \in [Player -> Int] /\ vaultRow \in Int \cup {NoVault}
    /\ entry \in [Player -> [step : TreasuryStates, amount : Nat]]
    /\ confirms \in [Player -> SUBSET Nat]

\* Money goes from the purses to the treasury, or back.
Moves(u, x) ==
    /\ purse' = [purse EXCEPT ![u] = @ - x]
    /\ Ensured(vaultRow') = Ensured(vaultRow) + x

LEMMA VaultIs ==
    ASSUME TreasuryTypes
    PROVE  Ensured(vaultRow) \in Int /\ Ensured(Ensured(vaultRow)) = Ensured(vaultRow)
BY TreasuryAssumption DEF TreasuryTypes, Ensured

LEMMA TreasuryStarts == TreasuryInit => TreasuryTypes
<1>. SUFFICES ASSUME TreasuryInit PROVE TreasuryTypes
    OBVIOUS
<1>1. NothingTyped \in [step : TreasuryStates, amount : Nat]
    BY DEF NothingTyped, TreasuryStates
<1>2. entry \in [Player -> [step : TreasuryStates, amount : Nat]]
    BY <1>1 DEF TreasuryInit
<1>3. purse \in [Player -> Int] /\ vaultRow \in Int \cup {NoVault}
    BY TreasuryAssumption DEF TreasuryInit
<1>4. confirms \in [Player -> SUBSET Nat] /\ rank \in [Player -> {"none", "citizen", "minister", "founder"}]
    BY DEF TreasuryInit
<1>. QED BY <1>2, <1>3, <1>4 DEF TreasuryTypes

(* A step that moves money moves it between one purse and the treasury. *)
LEMMA TreasuryKeeps ==
    ASSUME TreasuryTypes, [TreasuryNext]_treasuryVars
    PROVE  /\ TreasuryTypes'
           /\ \/ purse' = purse /\ Ensured(vaultRow') = Ensured(vaultRow)
              \/ \E u \in Player, x \in Nat : purse[u] >= x /\ Moves(u, x)
              \/ \E u \in Player : \E x \in confirms[u] :
                    rank[u] = "founder" /\ standing /\ Moves(u, 0 - x)
<1>1. /\ rank \in [Player -> {"none", "citizen", "minister", "founder"}]
      /\ purse \in [Player -> Int] /\ vaultRow \in Int \cup {NoVault}
      /\ entry \in [Player -> [step : TreasuryStates, amount : Nat]]
      /\ confirms \in [Player -> SUBSET Nat]
    BY DEF TreasuryTypes
<1>2. Ensured(vaultRow) \in Int /\ Ensured(Ensured(vaultRow)) = Ensured(vaultRow)
      /\ \A n \in Int : Ensured(n) = n
    BY VaultIs, TreasuryAssumption DEF Ensured
<1>3. ASSUME NEW u \in Player, NEW e, e \in [step : TreasuryStates, amount : Nat], SetEntry(u, e)
      PROVE  entry' \in [Player -> [step : TreasuryStates, amount : Nat]]
    BY <1>1, <1>3 DEF SetEntry
<1>4. NothingTyped \in [step : TreasuryStates, amount : Nat]
    BY DEF NothingTyped, TreasuryStates
<1>5. CASE UNCHANGED treasuryVars
    BY <1>5 DEF treasuryVars, TreasuryTypes
<1>6. ASSUME NEW u \in Player,
             RenderTreasury(u) \/ ShowReport(u) \/ TreasuryBack(u) \/ StartDeposit(u) \/ StartWithdraw(u)
      PROVE  TreasuryTypes' /\ purse' = purse /\ Ensured(vaultRow') = Ensured(vaultRow)
    <2>1. /\ UNCHANGED <<rank, purse, confirms>>
          /\ vaultRow' = vaultRow \/ vaultRow' = Ensured(vaultRow)
        BY <1>6 DEF RenderTreasury, ShowReport, TreasuryBack, StartDeposit, StartWithdraw
    <2>2. /\ [step |-> "ENTER_DEPOSIT_AMOUNT", amount |-> 0] \in [step : TreasuryStates, amount : Nat]
          /\ [step |-> "ENTER_WITHDRAW_AMOUNT", amount |-> 0] \in [step : TreasuryStates, amount : Nat]
        BY DEF TreasuryStates
    <2>3. entry' \in [Player -> [step : TreasuryStates, amount : Nat]]
        BY <1>1, <1>3, <1>4, <1>6, <2>2
           DEF RenderTreasury, ShowReport, TreasuryBack, StartDeposit, StartWithdraw
    <2>. QED BY <1>1, <1>2, <2>1, <2>3 DEF TreasuryTypes
<1>7. ASSUME NEW u \in Player, NEW x \in Entry, ReceiveDepositAmount(u, x)
      PROVE  /\ TreasuryTypes'
             /\ \/ purse' = purse /\ Ensured(vaultRow') = Ensured(vaultRow)
                \/ purse[u] >= x /\ Moves(u, x)
    <2>1. x \in Nat /\ UNCHANGED <<rank, confirms>>
        BY <1>7, TreasuryAssumption DEF ReceiveDepositAmount
    <2>2. CASE standing /\ purse[u] >= x /\ x >= MinDeposit
        <3>1. /\ purse' = [purse EXCEPT ![u] = @ - x] /\ vaultRow' = Ensured(vaultRow) + x
              /\ SetEntry(u, NothingTyped)
            BY <1>7, <2>2 DEF ReceiveDepositAmount
        <3>2. entry' \in [Player -> [step : TreasuryStates, amount : Nat]]
            BY <1>3, <1>4, <3>1
        <3>3. purse' \in [Player -> Int] /\ vaultRow' \in Int
            BY <1>1, <1>2, <2>1, <3>1
        <3>4. Moves(u, x)
            BY <1>2, <3>1, <3>3 DEF Moves
        <3>. QED BY <1>1, <2>1, <2>2, <3>2, <3>3, <3>4 DEF TreasuryTypes
    <2>3. CASE ~ (standing /\ purse[u] >= x /\ x >= MinDeposit)
        <3>1. SetEntry(u, IF standing THEN entry[u] ELSE NothingTyped) /\ UNCHANGED <<purse, vaultRow>>
            BY <1>7, <2>3 DEF ReceiveDepositAmount
        <3>2. (IF standing THEN entry[u] ELSE NothingTyped) \in [step : TreasuryStates, amount : Nat]
            BY <1>1, <1>4
        <3>3. entry' \in [Player -> [step : TreasuryStates, amount : Nat]]
            BY <1>3, <3>1, <3>2
        <3>. QED BY <1>1, <2>1, <3>1, <3>3 DEF TreasuryTypes
    <2>. QED BY <2>2, <2>3
<1>8. ASSUME NEW u \in Player, NEW x \in Entry, ReceiveWithdrawAmount(u, x)
      PROVE  TreasuryTypes' /\ purse' = purse /\ Ensured(vaultRow') = Ensured(vaultRow)
    <2>1. /\ x \in Nat /\ UNCHANGED <<rank, purse, vaultRow>>
          /\ SetEntry(u, [step |-> "CONFIRM_WITHDRAW", amount |-> x])
          /\ confirms' = [confirms EXCEPT ![u] = @ \cup {x}]
        BY <1>8, TreasuryAssumption DEF ReceiveWithdrawAmount
    <2>2. [step |-> "CONFIRM_WITHDRAW", amount |-> x] \in [step : TreasuryStates, amount : Nat]
        BY <2>1 DEF TreasuryStates
    <2>3. entry' \in [Player -> [step : TreasuryStates, amount : Nat]]
        BY <1>3, <2>1, <2>2
    <2>4. confirms' \in [Player -> SUBSET Nat]
        BY <1>1, <2>1
    <2>. QED BY <1>1, <2>1, <2>3, <2>4 DEF TreasuryTypes
<1>9. ASSUME NEW u \in Player, ConfirmWithdrawText(u)
      PROVE  TreasuryTypes' /\ purse' = purse /\ Ensured(vaultRow') = Ensured(vaultRow)
    <2>1. /\ UNCHANGED <<rank, purse, vaultRow, entry>>
          /\ confirms' = [confirms EXCEPT ![u] = @ \cup {entry[u].amount}]
        BY <1>9 DEF ConfirmWithdrawText
    <2>2. entry[u].amount \in Nat
        BY <1>1
    <2>3. confirms' \in [Player -> SUBSET Nat]
        BY <1>1, <2>1, <2>2
    <2>. QED BY <1>1, <2>1, <2>3 DEF TreasuryTypes
<1>10. ASSUME NEW u \in Player, NEW x \in Entry, NEW gone \in BOOLEAN, ConfirmWithdraw(u, x, gone)
       PROVE  /\ TreasuryTypes'
              /\ \/ purse' = purse /\ Ensured(vaultRow') = Ensured(vaultRow)
                 \/ x \in confirms[u] /\ rank[u] = "founder" /\ standing /\ Moves(u, 0 - x)
    <2>1. x \in confirms[u] /\ x \in Nat /\ rank' = rank
        BY <1>10, TreasuryAssumption DEF ConfirmWithdraw
    <2>2. CASE MayWithdraw(u) /\ standing /\ ~ (Ensured(vaultRow) < x)
        <3>1. /\ vaultRow' = Ensured(vaultRow) - x /\ purse' = [purse EXCEPT ![u] = @ + x]
              /\ SetEntry(u, NothingTyped)
              /\ confirms' = [confirms EXCEPT ![u] = IF gone THEN @ \ {x} ELSE @]
            BY <1>10, <2>2 DEF ConfirmWithdraw
        <3>2. entry' \in [Player -> [step : TreasuryStates, amount : Nat]]
            BY <1>3, <1>4, <3>1
        <3>3. confirms' \in [Player -> SUBSET Nat]
            BY <1>1, <3>1
        <3>4. purse' \in [Player -> Int] /\ vaultRow' \in Int
            BY <1>1, <1>2, <2>1, <3>1
        <3>5. Moves(u, 0 - x)
            <4>1. purse[u] - (0 - x) = purse[u] + x
                BY <1>1, <2>1
            <4>2. purse' = [purse EXCEPT ![u] = @ - (0 - x)]
                BY <1>1, <3>1, <4>1
            <4>3. Ensured(vaultRow') = Ensured(vaultRow) + (0 - x)
                BY <1>2, <2>1, <3>1, <3>4
            <4>. QED BY <4>2, <4>3 DEF Moves
        <3>. QED BY <1>1, <2>1, <2>2, <3>2, <3>3, <3>4, <3>5 DEF TreasuryTypes, MayWithdraw, Role
    <2>3. CASE ~ (MayWithdraw(u) /\ standing /\ ~ (Ensured(vaultRow) < x))
        <3>1. /\ UNCHANGED <<purse, confirms>> /\ (vaultRow' = vaultRow \/ vaultRow' = Ensured(vaultRow))
              /\ (entry' = entry \/ SetEntry(u, NothingTyped))
            BY <1>10, <2>3 DEF ConfirmWithdraw
        <3>2. entry' \in [Player -> [step : TreasuryStates, amount : Nat]]
            <4>1. CASE entry' = entry
                BY <1>1, <4>1
            <4>2. CASE SetEntry(u, NothingTyped)
                BY <1>3, <1>4, <4>2
            <4>. QED BY <3>1, <4>1, <4>2
        <3>. QED BY <1>1, <1>2, <2>1, <3>1, <3>2 DEF TreasuryTypes
    <2>. QED BY <2>2, <2>3
<1>11. ASSUME NEW u \in Player, ShowWarTargets(u) \/ ConfirmWarTarget(u) \/ ExecuteWarDeclaration(u)
       PROVE  TreasuryTypes' /\ purse' = purse /\ Ensured(vaultRow') = Ensured(vaultRow)
    <2>1. /\ UNCHANGED <<rank, purse, confirms, entry>>
          /\ vaultRow' = vaultRow \/ vaultRow' = Ensured(vaultRow)
        BY <1>11 DEF ShowWarTargets, ConfirmWarTarget, ExecuteWarDeclaration
    <2>. QED BY <1>1, <1>2, <2>1 DEF TreasuryTypes
<1>12. ASSUME \E u \in Player : Leaves(u) \/ Returns(u)
       PROVE  TreasuryTypes' /\ purse' = purse /\ Ensured(vaultRow') = Ensured(vaultRow)
    <2>1. PICK u \in Player, r \in {"none", "citizen", "founder"} : rank' = [rank EXCEPT ![u] = r]
        BY <1>12 DEF Leaves, Returns
    <2>2. rank' \in [Player -> {"none", "citizen", "minister", "founder"}]
        BY <1>1, <2>1
    <2>. QED BY <1>1, <1>12, <2>2 DEF TreasuryTypes, Leaves, Returns
<1>13. CASE Dissolved \/ WarEnds
    BY <1>1, <1>13 DEF Dissolved, WarEnds, TreasuryTypes
<1>14. ASSUME NEW u \in Player, NEW x \in Entry, ReceiveDepositAmount(u, x)
       PROVE  x \in Nat
    BY TreasuryAssumption
<1>. QED BY <1>5, <1>6, <1>7, <1>8, <1>9, <1>10, <1>11, <1>12, <1>13, <1>14 DEF TreasuryNext, TreasuryStep

\* The purses and the treasury, before a step and after it.
LEMMA MoneyIs ==
    /\ Money = SumOver(purse, Player) + Ensured(vaultRow)
    /\ Money' = SumOver(purse', Player) + Ensured(vaultRow')
BY DEF Money, SumOver, MapThenSumSet, MapThenFoldSet, Ensured

(* Out of one purse and into the treasury: the sum stays. *)
LEMMA MoneyStays ==
    ASSUME TreasuryTypes, TreasuryTypes', NEW u \in Player, NEW x \in Int, Moves(u, x)
    PROVE  Money' = Money
<1>1. PICK p, q : p = purse /\ q = purse'
    OBVIOUS
<1>2. p \in [Player -> Int] /\ q \in [Player -> Int] /\ q = [p EXCEPT ![u] = @ - x]
    BY <1>1 DEF TreasuryTypes, Moves
<1>3. Money = SumOver(p, Player) + Ensured(vaultRow)
    BY <1>1, MoneyIs
<1>4. Money' = SumOver(q, Player) + Ensured(vaultRow')
    BY <1>1, MoneyIs
<1>5. IsFiniteSet(Player)
    BY TreasuryAssumption
<1>6. q[u] = p[u] - x /\ p[u] \in Int /\ \A y \in Player \ {u} : q[y] = p[y]
    BY <1>2
<1>7. SumOver(q, Player) = SumOver(p, Player) - p[u] + q[u]
    <2>1. \A y \in Player : p[y] \in Int /\ q[y] \in Int
        BY <1>2
    <2>2. \A y \in Player \ {u} : q[y] = p[y]
        BY <1>6
    <2>. QED BY <1>5, <2>1, <2>2, SumChanges
<1>8. SumOver(p, Player) \in Int
    BY <1>2, <1>5, SumWithout
<1>9. Ensured(vaultRow') = Ensured(vaultRow) + x /\ Ensured(vaultRow) \in Int
    BY VaultIs DEF Moves
<1>. QED BY <1>3, <1>4, <1>6, <1>7, <1>8, <1>9

LEMMA TreasuryAlways == TreasurySpec => []TreasuryTypes
<1>1. TreasuryTypes /\ [TreasuryNext]_treasuryVars => TreasuryTypes'
    BY TreasuryKeeps
<1>. QED BY <1>1, TreasuryStarts, PTL DEF TreasurySpec

(* However late and often a dialogue of the treasury is answered: money goes    *)
(* only from a purse to the treasury or to the founder of a standing nation    *)
(* who typed the amount, and a war is declared by one who is in office then.    *)
THEOREM PowersAreOfTheMoment == TreasurySpec => PowersOfTheMoment
<1>1. ASSUME TreasuryTypes, [TreasuryNext]_treasuryVars PROVE OnlyFounderTakesWhatWasTyped
    <2>1. TreasuryTypes' /\ purse \in [Player -> Int] /\ confirms \in [Player -> SUBSET Nat]
          /\ Ensured(vaultRow) \in Int
        BY <1>1, TreasuryKeeps, VaultIs DEF TreasuryTypes
    <2>2. CASE purse' = purse /\ Ensured(vaultRow') = Ensured(vaultRow)
        <3>1. Money' = Money
            BY <2>2, MoneyIs
        <3>. QED BY <2>1, <2>2, <3>1 DEF OnlyFounderTakesWhatWasTyped
    <2>3. ASSUME NEW u \in Player, NEW x \in Nat, Moves(u, x) PROVE OnlyFounderTakesWhatWasTyped
        <3>1. Money' = Money
            BY <1>1, <2>1, <2>3, MoneyStays
        <3>2. ~ (Ensured(vaultRow') < Ensured(vaultRow))
            BY <2>1, <2>3 DEF Moves
        <3>. QED BY <3>1, <3>2 DEF OnlyFounderTakesWhatWasTyped
    <2>4. ASSUME NEW u \in Player, NEW x \in confirms[u], rank[u] = "founder", standing, Moves(u, 0 - x)
          PROVE OnlyFounderTakesWhatWasTyped
        <3>1. x \in Nat /\ 0 - x \in Int
            BY <2>1
        <3>2. Money' = Money
            BY <1>1, <2>1, <2>4, <3>1, MoneyStays
        <3>3. /\ Ensured(vaultRow') = Ensured(vaultRow) + (0 - x)
              /\ purse'[u] = purse[u] - (0 - x) /\ purse[u] \in Int
            BY <2>1, <2>4 DEF Moves
        <3>4. Ensured(vaultRow') < Ensured(vaultRow) =>
                /\ Ensured(vaultRow) - Ensured(vaultRow') = x /\ purse'[u] > purse[u]
            BY <2>1, <3>1, <3>3
        <3>5. Ensured(vaultRow') < Ensured(vaultRow) =>
                /\ rank[u] = "founder" /\ standing
                /\ Ensured(vaultRow) - Ensured(vaultRow') \in confirms[u] /\ purse'[u] > purse[u]
            BY <2>4, <3>4
        <3>. QED BY <3>2, <3>5 DEF OnlyFounderTakesWhatWasTyped
    <2>. QED BY <1>1, <2>2, <2>3, <2>4, TreasuryKeeps
<1>2. ASSUME TreasuryTypes, [TreasuryNext]_treasuryVars PROVE WarByThoseInOffice
    BY <1>2 DEF TreasuryNext, TreasuryStep, treasuryVars, RenderTreasury, ShowReport, TreasuryBack,
                StartDeposit, StartWithdraw, ConfirmWithdrawText, ReceiveDepositAmount,
                ReceiveWithdrawAmount, ConfirmWithdraw, ShowWarTargets, ConfirmWarTarget,
                ExecuteWarDeclaration, Leaves, Returns, Dissolved, WarEnds, WarByThoseInOffice,
                MayDeclare, Role
<1>3. TreasuryTypes /\ [TreasuryNext]_treasuryVars =>
            [OnlyFounderTakesWhatWasTyped /\ WarByThoseInOffice]_treasuryVars
    BY <1>1, <1>2
<1>. QED BY <1>3, TreasuryAlways, PTL DEF TreasurySpec, PowersOfTheMoment

------------------------------------------------------------------------------
(* Row locks. A transaction on its way has taken a beginning of its order and *)
(* still has the rest to take; what is known of the orders of each kind tells *)
(* what it may hold when it waits.                                            *)

Deeds == {"nothing", "trade", "duty", "war", "dissolve", "rates", "reset", "robots", "lesson",
          "vote", "revoke", "cycle"}

Row == {UserRow(p) : p \in Player} \cup {NationRow(n) : n \in Land}
        \cup {LessonRow(p, l) : p \in Player, l \in LessonId}
        \cup {MotionRow(m) : m \in Ruling \cup Voted} \cup {RuleRow(m) : m \in Ruling}
RowLock == [row : Row, mode : {"update", "write", "share"}]

OfUser(a) == \E p \in Player : a.row = UserRow(p)
OfNation(a) == \E n \in Land : a.row = NationRow(n)
OfLesson(a) == \E p \in Player, l \in LessonId : a.row = LessonRow(p, l)
Guard(p) == ForUpdate(NationRow(LivesIn[p]))

CycleLocks == {ForUpdate(RuleRow(m)) : m \in Ruling}
                \cup {ForUpdate(MotionRow(m)) : m \in Ruling \cup Voted}
                \cup {RefersTo(UserRow(p)) : p \in Player}

\* Nations by their ids, and a citizen under the lock of his nation.
LandFirst(o) ==
    \A i \in 1..Len(o) :
        \/ \E n \in Land : /\ o[i].row = NationRow(n)
                           /\ \A j \in 1..(i - 1) : OfNation(o[j]) /\ o[j].row[2] < n
        \/ \E p \in Player : o[i].row = UserRow(p) /\ \E j \in 1..(i - 1) : o[j] = Guard(p)

LessonOrder(o) ==
    /\ Len(o) > 1 /\ OfLesson(o[1]) /\ \E p \in Player : o[2] = ForUpdate(UserRow(p))
    /\ \A i \in 3..Len(o) : OfLesson(o[i])

\* Proposals that are voted on come before players.
CycleOrder(o) ==
    \A i \in 1..Len(o) :
        /\ o[i] \in CycleLocks
        /\ (\E m \in Voted : o[i].row = MotionRow(m)) => \A j \in 1..(i - 1) : ~OfUser(o[j])

OrderOf(d, o) ==
    /\ o \in Seq(RowLock)
    /\ d = "trade" => \E p \in Player, n \in Land : o = PlayerThenNation(p, n)
    /\ d = "duty" => \E p, q \in Player :
                        LivesIn[p] = LivesIn[q] /\ o = NationThenPlayer(LivesIn[p], p, q)
    /\ d \in {"duty", "war", "dissolve", "reset"} => LandFirst(o)
    /\ d = "war" => \A i \in 1..Len(o) : OfUser(o[i]) => o[i].mode = "share"
    /\ d = "reset" => \A i \in 1..Len(o) : OfNation(o[i])
    /\ d = "lesson" => LessonOrder(o)
    /\ d = "vote" => \E m \in Voted, p \in Player : o = ProposalThenVoter(m, p)
    /\ d = "revoke" => \E m \in Ruling, p \in Player : o = RuleThenProposal(m, p)
    /\ d = "cycle" => CycleOrder(o)

\* k locks of the order o are taken.
Taken(o, k, q, h) ==
    /\ k \in 0..Len(o) /\ q \in Seq(RowLock) /\ Len(q) = Len(o) - k
    /\ \A i \in 1..Len(q) : q[i] = o[k + i]
    /\ h = {o[i] : i \in 1..k}

\* The rate engine and the AI cycle are in no order.
Stage(d, q, h) ==
    /\ d \in Deeds
    /\ d = "nothing" => q = <<>> /\ h = {}
    /\ d \notin Unordered \cup {"nothing"} => \E o, k : OrderOf(d, o) /\ Taken(o, k, q, h)

NoConflict == \A s, t \in Session : s # t => \A a \in held[s], b \in held[t] : ~InConflict(a, b)
OneCycle == \A s, t \in Session : s # t => ~(doing[s] = "cycle" /\ doing[t] = "cycle")

\* With these locks, or this deed, s is in nobody's way.
Apart(h, s) == \A t \in Session : t # s => \A a \in h, b \in held[t] : ~InConflict(a, b)
Alone(d, s) == \A t \in Session : t # s => ~(d = "cycle" /\ doing[t] = "cycle")

LocksInv ==
    /\ todo = [s \in Session |-> todo[s]] /\ held = [s \in Session |-> held[s]]
    /\ doing = [s \in Session |-> doing[s]]
    /\ \A s \in Session : Stage(doing[s], todo[s], held[s])
    /\ NoConflict /\ OneCycle

LEMMA RowsDiffer ==
    /\ \A p, q \in Player : UserRow(p) = UserRow(q) => p = q
    /\ \A n, m \in Land : NationRow(n) = NationRow(m) => n = m
    /\ \A n \in Land : NationRow(n)[2] = n /\ n \in Nat
    /\ \A m, k : MotionRow(m) = MotionRow(k) => m = k
    /\ \A p, n : UserRow(p) # NationRow(n)
    /\ \A p, q, l : UserRow(p) # LessonRow(q, l)
    /\ \A p, m : UserRow(p) # MotionRow(m) /\ UserRow(p) # RuleRow(m)
    /\ \A p, n, l : NationRow(n) # LessonRow(p, l)
    /\ \A n, m : NationRow(n) # MotionRow(m) /\ NationRow(n) # RuleRow(m)
    /\ \A p, l, m : LessonRow(p, l) # MotionRow(m) /\ LessonRow(p, l) # RuleRow(m)
    /\ \A m, k : MotionRow(m) # RuleRow(k)
    /\ \A r : /\ ForUpdate(r).row = r /\ ForUpdate(r).mode = "update"
              /\ Writes(r).row = r /\ Writes(r).mode = "write"
              /\ RefersTo(r).row = r /\ RefersTo(r).mode = "share"
BY LocksAssumption, GameAssumption
   DEF UserRow, NationRow, LessonRow, MotionRow, RuleRow, ForUpdate, Writes, RefersTo

LEMMA LocksOfRows ==
    /\ \A r \in Row : ForUpdate(r) \in RowLock /\ Writes(r) \in RowLock /\ RefersTo(r) \in RowLock
    /\ \A p \in Player : UserRow(p) \in Row /\ LivesIn[p] \in Land /\ Guard(p) \in RowLock
    /\ \A n \in Land : NationRow(n) \in Row
    /\ \A p \in Player, l \in LessonId : LessonRow(p, l) \in Row
    /\ \A m \in Ruling \cup Voted : MotionRow(m) \in Row
    /\ \A m \in Ruling : RuleRow(m) \in Row
BY LocksAssumption DEF Row, RowLock, ForUpdate, Writes, RefersTo, Guard

LEMMA InOrderIs ==
    ASSUME NEW S, IsFiniteSet(S), S \subseteq Nat
    PROVE  /\ InOrder(S) \in Seq(S) /\ DOMAIN InOrder(S) = 1..Cardinality(S)
           /\ \A i, j \in DOMAIN InOrder(S) : i < j => InOrder(S)[i] < InOrder(S)[j]
<1>1. PICK s : Ascending(s, S)
    BY AscendingExists
<1>2. Cardinality(S) \in Nat /\ S \subseteq Int
    BY FS_CardinalityType
<1>3. s \in SetToSeqs(S) /\ \A i, j \in DOMAIN s : i < j => s[i] < s[j]
    <2>1. s \in [1..Cardinality(S) -> S] /\ \A i, j \in 1..Cardinality(S) : i < j => s[i] < s[j]
        BY <1>1 DEF Ascending
    <2>2. ASSUME NEW i \in 1..Cardinality(S), NEW j \in 1..Cardinality(S), i # j PROVE s[i] # s[j]
        <3>1. i < j \/ j < i
            BY <1>2, <2>2
        <3>2. s[i] < s[j] \/ s[j] < s[i]
            BY <2>1, <3>1
        <3>3. s[i] \in Int /\ s[j] \in Int
            BY <1>2, <2>1
        <3>. QED BY <3>2, <3>3
    <2>. QED BY <2>1, <2>2 DEF SetToSeqs
<1>4. PICK o : o = InOrder(S)
    OBVIOUS
<1>5. o \in SetToSeqs(S) /\ \A i, j \in DOMAIN o : i < j => o[i] < o[j]
    BY <1>3, <1>4 DEF InOrder
<1>6. o \in [1..Cardinality(S) -> S]
    BY <1>5 DEF SetToSeqs
<1>7. o \in Seq(S)
    BY <1>2, <1>6
<1>. QED BY <1>4, <1>5, <1>6, <1>7

LEMMA InOrderHasAll ==
    ASSUME NEW S, IsFiniteSet(S), S \subseteq Nat, NEW x \in S
    PROVE  \E i \in DOMAIN InOrder(S) : InOrder(S)[i] = x
<1>1. PICK o : o = InOrder(S)
    OBVIOUS
<1>2. o \in Seq(S) /\ DOMAIN o = 1..Cardinality(S) /\ \A i, j \in DOMAIN o : i < j => o[i] < o[j]
    BY <1>1, InOrderIs
<1>3. PICK n \in Nat : n = Cardinality(S)
    BY FS_CardinalityType
<1>4. o \in Injection(1..n, S)
    <2>1. o \in [1..n -> S]
        BY <1>2, <1>3
    <2>2. ASSUME NEW i \in 1..n, NEW j \in 1..n, o[i] = o[j] PROVE i = j
        <3>1. o[i] \in Nat /\ o[j] \in Nat
            BY <2>1
        <3>2. ~(o[i] < o[j]) /\ ~(o[j] < o[i])
            BY <2>2, <3>1
        <3>. QED BY <1>2, <1>3, <3>2
    <2>. QED BY <2>1, <2>2 DEF Injection, IsInjective
<1>5. Cardinality(1..n) = Cardinality(S)
    BY <1>3, FS_Interval
<1>6. o \in Surjection(1..n, S)
    BY <1>4, <1>5, FS_Injection
<1>. QED BY <1>1, <1>2, <1>3, <1>6 DEF Surjection

LEMMA SeqsOfSet ==
    ASSUME NEW S, IsFiniteSet(S), NEW s \in SetToSeqs(S)
    PROVE  s \in Seq(S)
<1>1. Cardinality(S) \in Nat
    BY FS_CardinalityType
<1>. QED BY <1>1 DEF SetToSeqs

LEMMA AnyAsFound ==
    ASSUME NEW S, IsFiniteSet(S), NEW s \in AsFound(S)
    PROVE  s \in Seq(S)
<1>1. PICK T \in SUBSET S : s \in SetToSeqs(T)
    BY DEF AsFound, SetToAllKPermutations
<1>2. s \in Seq(T)
    BY <1>1, FS_Subset, SeqsOfSet
<1>. QED BY <1>2

(* The orders of the transactions. *)
LEMMA TradeOrders ==
    ASSUME NEW p \in Player, NEW n \in Land
    PROVE  OrderOf("trade", PlayerThenNation(p, n))
<1>1. ForUpdate(UserRow(p)) \in RowLock /\ ForUpdate(NationRow(n)) \in RowLock
    BY LocksOfRows
<1>2. PlayerThenNation(p, n) \in Seq(RowLock)
    BY <1>1 DEF PlayerThenNation
<1>. QED BY <1>2 DEF OrderOf

LEMMA DutyOrders ==
    ASSUME NEW p \in Player, NEW q \in Player, LivesIn[p] = LivesIn[q]
    PROVE  OrderOf("duty", NationThenPlayer(LivesIn[p], p, q))
<1>1. PICK a, b, c : a = Guard(p) /\ b = ForUpdate(UserRow(p)) /\ c = RefersTo(UserRow(q))
    OBVIOUS
<1>2. PICK o : o = <<a, b, c>>
    OBVIOUS
<1>3. o = NationThenPlayer(LivesIn[p], p, q)
    BY <1>1, <1>2 DEF NationThenPlayer, Guard
<1>4. a \in RowLock /\ b \in RowLock /\ c \in RowLock
    BY <1>1, LocksOfRows
<1>5. o \in Seq(RowLock) /\ Len(o) = 3 /\ o[1] = a /\ o[2] = b /\ o[3] = c
    BY <1>2, <1>4
<1>6. a.row = NationRow(LivesIn[p]) /\ LivesIn[p] \in Land
    BY <1>1, RowsDiffer, LocksOfRows DEF Guard
<1>7. b.row = UserRow(p) /\ c.row = UserRow(q) /\ a = Guard(p) /\ a = Guard(q)
    BY <1>1, RowsDiffer DEF Guard
<1>8. LandFirst(o)
    <2>1. \A i \in 1..3 : i = 1 \/ i = 2 \/ i = 3
        OBVIOUS
    <2>2. 1 \in 1..(2 - 1) /\ 1 \in 1..(3 - 1) /\ 1..(1 - 1) = {}
        OBVIOUS
    <2>. QED BY <1>5, <1>6, <1>7, <2>1, <2>2 DEF LandFirst
<1>. QED BY <1>3, <1>5, <1>8 DEF OrderOf

LEMMA MotionOrders ==
    ASSUME NEW p \in Player
    PROVE  /\ \A m \in Voted : OrderOf("vote", ProposalThenVoter(m, p))
           /\ \A m \in Ruling : OrderOf("revoke", RuleThenProposal(m, p))
<1>1. RefersTo(UserRow(p)) \in RowLock
    BY LocksOfRows
<1>2. ASSUME NEW m \in Voted PROVE OrderOf("vote", ProposalThenVoter(m, p))
    <2>1. ForUpdate(MotionRow(m)) \in RowLock
        BY LocksOfRows
    <2>2. ProposalThenVoter(m, p) \in Seq(RowLock)
        BY <1>1, <2>1 DEF ProposalThenVoter
    <2>. QED BY <2>2 DEF OrderOf
<1>3. ASSUME NEW m \in Ruling PROVE OrderOf("revoke", RuleThenProposal(m, p))
    <2>1. ForUpdate(MotionRow(m)) \in RowLock /\ ForUpdate(RuleRow(m)) \in RowLock
        BY LocksOfRows
    <2>2. RuleThenProposal(m, p) \in Seq(RowLock)
        BY <1>1, <2>1 DEF RuleThenProposal
    <2>. QED BY <2>2 DEF OrderOf
<1>. QED BY <1>2, <1>3

\* The rows of nations in their order, in one mode.
LEMMA NationsClimb ==
    ASSUME NEW S, S \subseteq Land, IsFiniteSet(S), NEW o,
           DOMAIN o = DOMAIN InOrder(S), o = [i \in DOMAIN o |-> o[i]],
           \A i \in DOMAIN o : o[i] \in RowLock /\ o[i].row = NationRow(InOrder(S)[i])
    PROVE  /\ o \in Seq(RowLock) /\ LandFirst(o) /\ \A i \in 1..Len(o) : OfNation(o[i])
<1>1. PICK s : s = InOrder(S)
    OBVIOUS
<1>2. s \in Seq(S) /\ \A i, j \in DOMAIN s : i < j => s[i] < s[j]
    BY <1>1, InOrderIs, LocksAssumption
<1>3. Len(s) \in Nat /\ DOMAIN s = 1..Len(s) /\ \A i \in DOMAIN s : s[i] \in Land
    BY <1>2
<1>4. o \in Seq(RowLock) /\ Len(o) = Len(s)
    BY <1>1, <1>3
<1>5. \A i \in 1..Len(o) : o[i].row = NationRow(s[i]) /\ s[i] \in Land /\ o[i].row[2] = s[i]
    BY <1>1, <1>3, <1>4, RowsDiffer
<1>6. \A i \in 1..Len(o) : OfNation(o[i])
    BY <1>5 DEF OfNation
<1>7. LandFirst(o)
    <2>. SUFFICES ASSUME NEW i \in 1..Len(o)
                  PROVE  \A j \in 1..(i - 1) : OfNation(o[j]) /\ o[j].row[2] < s[i]
        BY <1>5 DEF LandFirst
    <2>. SUFFICES ASSUME NEW j \in 1..(i - 1) PROVE OfNation(o[j]) /\ o[j].row[2] < s[i]
        OBVIOUS
    <2>1. j \in 1..Len(o) /\ j < i
        BY <1>3, <1>4
    <2>2. s[j] < s[i]
        BY <1>2, <1>3, <1>4, <2>1
    <2>. QED BY <1>5, <1>6, <2>1, <2>2
<1>. QED BY <1>4, <1>6, <1>7

LEMMA WarOrders ==
    ASSUME NEW a \in Land, NEW b \in Land
    PROVE  /\ OrderOf("war", BothNations(a, b))
           /\ \A p \in Player : LivesIn[p] = a => OrderOf("war", Declaration(a, b, p))
<1>1. IsFiniteSet({a, b}) /\ {a, b} \subseteq Land /\ {a, b} \subseteq Nat
    BY LocksAssumption, FS_Subset
<1>2. PICK s : s = InOrder({a, b})
    OBVIOUS
<1>3. s \in Seq({a, b}) /\ \E i \in DOMAIN s : s[i] = a
    BY <1>1, <1>2, InOrderIs, InOrderHasAll
<1>4. PICK o : o = [i \in DOMAIN s |-> ForUpdate(NationRow(s[i]))]
    OBVIOUS
<1>5. BothNations(a, b) = o
    BY <1>2, <1>4 DEF BothNations, AllForUpdate, NationRows
<1>6. \A i \in DOMAIN s : s[i] \in Land
    BY <1>3
<1>7. \A i \in DOMAIN o : o[i] \in RowLock /\ o[i].row = NationRow(s[i])
    BY <1>4, <1>6, LocksOfRows, RowsDiffer
<1>8. DOMAIN o = DOMAIN InOrder({a, b}) /\ o = [i \in DOMAIN o |-> o[i]]
    BY <1>2, <1>4
<1>9. o \in Seq(RowLock) /\ LandFirst(o) /\ \A i \in 1..Len(o) : OfNation(o[i])
    BY <1>1, <1>2, <1>7, <1>8, NationsClimb
<1>10. \A i \in 1..Len(o) : ~OfUser(o[i])
    BY <1>9, RowsDiffer DEF OfNation, OfUser
<1>11. OrderOf("war", o)
    BY <1>9, <1>10 DEF OrderOf
<1>12. ASSUME NEW p \in Player, LivesIn[p] = a PROVE OrderOf("war", Declaration(a, b, p))
    <2>1. PICK u : u = RefersTo(UserRow(p))
        OBVIOUS
    <2>2. u \in RowLock /\ u.row = UserRow(p) /\ u.mode = "share"
        BY <2>1, LocksOfRows, RowsDiffer
    <2>3. PICK d : d = o \o <<u>>
        OBVIOUS
    <2>4. /\ d \in Seq(RowLock) /\ Len(o) \in Nat /\ Len(d) = Len(o) + 1 /\ d[Len(d)] = u
          /\ \A i \in 1..Len(o) : d[i] = o[i]
        BY <1>9, <2>2, <2>3
    <2>5. PICK j \in 1..Len(o) : o[j] = Guard(p)
        <3>1. DOMAIN s = 1..Len(o)
            BY <1>4, <1>9
        <3>. QED BY <1>3, <1>4, <1>12, <3>1 DEF Guard
    <2>6. \A i \in 1..Len(d) : i \in 1..Len(o) \/ i = Len(d)
        BY <2>4
    <2>7. LandFirst(d)
        <3>. SUFFICES ASSUME NEW i \in 1..Len(d)
             PROVE \/ \E n \in Land : /\ d[i].row = NationRow(n)
                                      /\ \A k \in 1..(i - 1) : OfNation(d[k]) /\ d[k].row[2] < n
                   \/ \E y \in Player : d[i].row = UserRow(y) /\ \E k \in 1..(i - 1) : d[k] = Guard(y)
            BY DEF LandFirst
        <3>1. CASE i = Len(d)
            <4>1. j \in 1..(i - 1) /\ d[j] = Guard(p) /\ d[i].row = UserRow(p)
                BY <2>2, <2>4, <2>5, <3>1
            <4>. QED BY <4>1
        <3>2. CASE i \in 1..Len(o)
            <4>1. \/ \E n \in Land : /\ o[i].row = NationRow(n)
                                     /\ \A k \in 1..(i - 1) : OfNation(o[k]) /\ o[k].row[2] < n
                  \/ \E y \in Player : o[i].row = UserRow(y) /\ \E k \in 1..(i - 1) : o[k] = Guard(y)
                BY <1>9, <3>2 DEF LandFirst
            <4>2. d[i] = o[i] /\ \A k \in 1..(i - 1) : d[k] = o[k]
                BY <2>4, <3>2
            <4>. QED BY <4>1, <4>2
        <3>. QED BY <2>6, <3>1, <3>2
    <2>8. \A i \in 1..Len(d) : OfUser(d[i]) => d[i].mode = "share"
        BY <1>10, <2>2, <2>4, <2>6
    <2>9. OrderOf("war", d)
        BY <2>4, <2>7, <2>8 DEF OrderOf
    <2>. QED BY <1>5, <2>1, <2>3, <2>9 DEF Declaration
<1>. QED BY <1>5, <1>11, <1>12

LEMMA ResetOrders == OrderOf("reset", NationsInOrder)
<1>1. PICK s : s = InOrder(Land)
    OBVIOUS
<1>2. s \in Seq(Land)
    BY <1>1, InOrderIs, LocksAssumption
<1>3. PICK o : o = [i \in DOMAIN s |-> Writes(NationRow(s[i]))]
    OBVIOUS
<1>4. NationsInOrder = o
    BY <1>1, <1>3 DEF NationsInOrder
<1>5. \A i \in DOMAIN o : o[i] \in RowLock /\ o[i].row = NationRow(s[i])
    BY <1>2, <1>3, LocksOfRows, RowsDiffer
<1>6. DOMAIN o = DOMAIN InOrder(Land) /\ o = [i \in DOMAIN o |-> o[i]]
    BY <1>1, <1>3
<1>7. o \in Seq(RowLock) /\ LandFirst(o) /\ \A i \in 1..Len(o) : OfNation(o[i])
    BY <1>1, <1>5, <1>6, LocksAssumption, NationsClimb
<1>. QED BY <1>4, <1>7 DEF OrderOf

LEMMA DissolveOrders ==
    ASSUME NEW n \in Land, NEW o \in NationThenCitizens(n)
    PROVE  OrderOf("dissolve", o)
<1>. DEFINE R == {ForUpdate(UserRow(p)) : p \in Citizens(n)}
<1>1. PICK c \in SetToSeqs(R) : o = <<ForUpdate(NationRow(n))>> \o c
    BY DEF NationThenCitizens
<1>2. IsFiniteSet(R)
    <2>. DEFINE f == [p \in Citizens(n) |-> ForUpdate(UserRow(p))]
    <2>1. IsFiniteSet(Citizens(n))
        BY LocksAssumption, FS_Subset DEF Citizens
    <2>2. f \in Surjection(Citizens(n), R)
        BY DEF Surjection
    <2>. HIDE DEF f, R
    <2>. QED BY <2>1, <2>2, FS_Surjection
<1>3. \A r \in R : \E p \in Player : r.row = UserRow(p) /\ LivesIn[p] = n /\ r \in RowLock
    BY RowsDiffer, LocksOfRows DEF Citizens
<1>. HIDE DEF R
<1>4. c \in Seq(R) /\ R \subseteq RowLock
    BY <1>1, <1>2, <1>3, SeqsOfSet
<1>5. PICK g : g = ForUpdate(NationRow(n))
    OBVIOUS
<1>6. g \in RowLock /\ g.row = NationRow(n)
    BY <1>5, LocksOfRows, RowsDiffer
<1>7. /\ o \in Seq(RowLock) /\ o[1] = g /\ Len(o) = Len(c) + 1 /\ Len(c) \in Nat
      /\ \A i \in 2..Len(o) : o[i] \in R
    <2>1. c \in Seq(RowLock) /\ \A i \in 1..Len(c) : c[i] \in R
        BY <1>4
    <2>2. o = <<g>> \o c
        BY <1>1, <1>5
    <2>3. /\ o \in Seq(RowLock) /\ Len(o) = Len(c) + 1 /\ o[1] = g
        BY <1>6, <2>1, <2>2
    <2>4. \A i \in 2..Len(o) : i - 1 \in 1..Len(c) /\ o[i] = c[i - 1]
        BY <1>6, <2>1, <2>2
    <2>. QED BY <2>1, <2>3, <2>4
<1>8. LandFirst(o)
    <2>. SUFFICES ASSUME NEW i \in 1..Len(o)
         PROVE \/ \E k \in Land : /\ o[i].row = NationRow(k)
                                  /\ \A j \in 1..(i - 1) : OfNation(o[j]) /\ o[j].row[2] < k
               \/ \E y \in Player : o[i].row = UserRow(y) /\ \E j \in 1..(i - 1) : o[j] = Guard(y)
        BY DEF LandFirst
    <2>1. CASE i = 1
        BY <1>6, <1>7, <2>1
    <2>2. CASE i \in 2..Len(o)
        <3>1. PICK y \in Player : o[i].row = UserRow(y) /\ LivesIn[y] = n
            BY <1>3, <1>7, <2>2
        <3>2. o[1] = Guard(y) /\ 1 \in 1..(i - 1)
            BY <1>5, <1>7, <2>2, <3>1 DEF Guard
        <3>. QED BY <3>1, <3>2
    <2>. QED BY <1>7, <2>1, <2>2
<1>. QED BY <1>7, <1>8 DEF OrderOf

LEMMA LessonOrders ==
    ASSUME NEW p \in Player, NEW l \in LessonId
    PROVE  OrderOf("lesson", ProgressThenPlayer(p, l))
<1>1. PICK s : s = InOrder(LessonId)
    OBVIOUS
<1>2. s \in Seq(LessonId)
    BY <1>1, InOrderIs, LocksAssumption
<1>3. PICK m : m = [i \in DOMAIN s |-> ForUpdate(LessonRow(p, s[i]))]
    OBVIOUS
<1>4. PICK x, y : x = ForUpdate(LessonRow(p, l)) /\ y = ForUpdate(UserRow(p))
    OBVIOUS
<1>5. \A k \in LessonId : ForUpdate(LessonRow(p, k)) \in RowLock /\ OfLesson(ForUpdate(LessonRow(p, k)))
    BY LocksOfRows, RowsDiffer DEF OfLesson
<1>6. m \in Seq(RowLock) /\ \A i \in 1..Len(m) : OfLesson(m[i])
    BY <1>2, <1>3, <1>5
<1>7. x \in RowLock /\ y \in RowLock
    BY <1>4, LocksOfRows
<1>8. PICK o : o = <<x, y>> \o m
    OBVIOUS
<1>9. /\ o \in Seq(RowLock) /\ Len(o) = 2 + Len(m) /\ Len(m) \in Nat /\ o[1] = x /\ o[2] = y
      /\ \A i \in 3..Len(o) : i - 2 \in 1..Len(m) /\ o[i] = m[i - 2]
    <2>1. <<x, y>> \in Seq(RowLock)
        BY <1>7
    <2>. QED BY <1>6, <1>8, <2>1
<1>10. LessonOrder(o)
    BY <1>4, <1>5, <1>6, <1>9 DEF LessonOrder
<1>11. OrderOf("lesson", o)
    BY <1>9, <1>10 DEF OrderOf
<1>. QED BY <1>1, <1>3, <1>4, <1>8, <1>11 DEF ProgressThenPlayer

LEMMA CycleHasOrder ==
    ASSUME NEW o \in CycleOrders
    PROVE  OrderOf("cycle", o)
<1>1. PICK a \in AsFound(Ruling), c \in AsFound(Ruling), b \in AsFound(Voted),
           r \in [Voted -> Ruling \cup Voted] :
               o = (Rules(a) \o Motions(b)) \o (Activations(b, r) \o (Motions(c) \o Rules(c)))
    <2>1. PICK k \in Cycle :
            o = (Rules(k.turns) \o Motions(k.ends))
                  \o (Activations(k.ends, k.replaced) \o (Motions(k.expires) \o Rules(k.expires)))
        BY Zenon DEF CycleOrders
    <2>2. /\ k.turns \in AsFound(Ruling) /\ k.ends \in AsFound(Voted)
          /\ k.expires \in AsFound(Ruling) /\ k.replaced \in [Voted -> Ruling \cup Voted]
        BY DEF Cycle
    <2>. QED BY <2>1, <2>2, Zenon
<1>. DEFINE A == {ForUpdate(RuleRow(m)) : m \in Ruling} \cup {ForUpdate(MotionRow(m)) : m \in Ruling \cup Voted}
            B == {ForUpdate(RuleRow(m)) : m \in Ruling} \cup {ForUpdate(MotionRow(m)) : m \in Ruling}
                    \cup {RefersTo(UserRow(p)) : p \in Player}
<1>2. a \in Seq(Ruling) /\ c \in Seq(Ruling) /\ b \in Seq(Voted)
    BY LocksAssumption, AnyAsFound
<1>3. Rules(a) \in Seq(A) /\ Motions(b) \in Seq(A)
    BY <1>2 DEF Rules, Motions
<1>4. Motions(c) \in Seq(B) /\ Rules(c) \in Seq(B)
    BY <1>2 DEF Rules, Motions
<1>5. Activations(b, r) \in Seq(B)
    <2>1. Len(b) \in Nat /\ \A i \in 1..Len(b) : b[i] \in Voted
        BY <1>2
    <2>2. \A i \in 1..2 * Len(b) : (i + 1) \div 2 \in 1..Len(b)
        BY <2>1
    <2>3. \A m \in Voted : /\ RefersTo(UserRow(ProposedBy[m])) \in B
                           /\ r[m] \in Ruling => ForUpdate(RuleRow(r[m])) \in B
        BY LocksAssumption
    <2>4. \A m \in Voted, i \in Nat : (IF i % 2 = 1 /\ r[m] \in Ruling THEN ForUpdate(RuleRow(r[m]))
                                       ELSE RefersTo(UserRow(ProposedBy[m]))) \in B
        BY <2>3
    <2>. HIDE DEF B
    <2>5. \A i \in 1..2 * Len(b) : b[(i + 1) \div 2] \in Voted /\ i \in Nat
        BY <2>1, <2>2
    <2>6. Activations(b, r) \in [1..2 * Len(b) -> B]
        BY <2>4, <2>5 DEF Activations
    <2>7. 2 * Len(b) \in Nat
        BY <2>1
    <2>. QED BY <2>6, <2>7
<1>6. \A x \in A : x \in CycleLocks /\ x \in RowLock /\ ~OfUser(x)
    BY LocksOfRows, RowsDiffer DEF CycleLocks, OfUser
<1>7. \A x \in B : x \in CycleLocks /\ x \in RowLock /\ ~\E m \in Voted : x.row = MotionRow(m)
    <2>1. \A m \in Ruling : m \notin Voted
        BY LocksAssumption
    <2>. QED BY <2>1, LocksOfRows, RowsDiffer DEF CycleLocks
<1>. HIDE DEF A, B
<1>8. PICK x, y : x = Rules(a) \o Motions(b) /\ y = Activations(b, r) \o (Motions(c) \o Rules(c))
    OBVIOUS
<1>9. x \in Seq(A) /\ y \in Seq(B) /\ o = x \o y
    BY <1>1, <1>3, <1>4, <1>5, <1>8
<1>10. /\ Len(x) \in Nat /\ Len(y) \in Nat /\ Len(o) = Len(x) + Len(y)
       /\ \A i \in 1..Len(x) : o[i] \in A
       /\ \A i \in 1..Len(o) : i > Len(x) => o[i] \in B
    <2>1. PICK S : S = A \cup B
        OBVIOUS
    <2>2. x \in Seq(S) /\ y \in Seq(S)
        BY <1>9, <2>1
    <2>3. /\ Len(x) \in Nat /\ Len(y) \in Nat /\ Len(o) = Len(x) + Len(y)
          /\ \A i \in 1..Len(x) : o[i] = x[i]
        BY <1>9, <2>2
    <2>4. \A i \in 1..Len(o) : i > Len(x) => o[i] = y[i - Len(x)] /\ i - Len(x) \in 1..Len(y)
        BY <1>9, <2>2, <2>3
    <2>. QED BY <1>9, <2>3, <2>4
<1>11. o \in Seq(RowLock)
    <2>1. A \subseteq RowLock /\ B \subseteq RowLock
        BY <1>6, <1>7
    <2>2. x \in Seq(RowLock) /\ y \in Seq(RowLock)
        BY <1>9, <2>1
    <2>. QED BY <1>9, <2>2
<1>12. CycleOrder(o)
    <2>. SUFFICES ASSUME NEW i \in 1..Len(o)
         PROVE /\ o[i] \in CycleLocks
               /\ (\E m \in Voted : o[i].row = MotionRow(m)) => \A j \in 1..(i - 1) : ~OfUser(o[j])
        BY DEF CycleOrder
    <2>1. CASE i > Len(x)
        BY <1>7, <1>10, <2>1
    <2>2. CASE i \in 1..Len(x)
        <3>1. \A j \in 1..(i - 1) : j \in 1..Len(x)
            BY <1>10, <2>2
        <3>. QED BY <1>6, <1>10, <2>2, <3>1
    <2>. QED BY <1>10, <2>1, <2>2
<1>. QED BY <1>11, <1>12 DEF OrderOf

LEMMA Replaced ==
    ASSUME NEW f, f = [s \in Session |-> f[s]], NEW x \in Session, NEW v, NEW g, g = [f EXCEPT ![x] = v]
    PROVE  /\ g = [s \in Session |-> g[s]] /\ g[x] = v
           /\ \A s \in Session : s # x => g[s] = f[s]
<1>1. DOMAIN f = Session
    OBVIOUS
<1>2. g = [s \in Session |-> IF s = x THEN v ELSE f[s]]
    BY <1>1
<1>. QED BY <1>2

LEMMA LocksStart == LocksInit => LocksInv
<1>. SUFFICES ASSUME LocksInit PROVE LocksInv
    OBVIOUS
<1>1. \A s \in Session : doing[s] = "nothing" /\ todo[s] = <<>> /\ held[s] = {}
    BY DEF LocksInit
<1>2. \A s \in Session : Stage(doing[s], todo[s], held[s])
    BY <1>1 DEF Stage, Deeds
<1>3. /\ todo = [s \in Session |-> todo[s]] /\ held = [s \in Session |-> held[s]]
      /\ doing = [s \in Session |-> doing[s]]
    BY <1>1 DEF LocksInit
<1>. QED BY <1>1, <1>2, <1>3 DEF LocksInv, NoConflict, OneCycle

\* A session takes up a transaction, goes on in it, or ends it.
LEMMA SessionMoves ==
    ASSUME LocksInv, NEW s \in Session, NEW d, NEW q, NEW h,
           doing' = [doing EXCEPT ![s] = d], todo' = [todo EXCEPT ![s] = q],
           held' = [held EXCEPT ![s] = h], Stage(d, q, h), Apart(h, s), Alone(d, s)
    PROVE  LocksInv'
<1>1. PICK f, g, k : f = doing /\ g = todo /\ k = held
    OBVIOUS
<1>2. PICK a, b, c : a = doing' /\ b = todo' /\ c = held'
    OBVIOUS
<1>3. f = [t \in Session |-> f[t]] /\ g = [t \in Session |-> g[t]] /\ k = [t \in Session |-> k[t]]
    BY <1>1 DEF LocksInv
<1>4. a = [f EXCEPT ![s] = d] /\ b = [g EXCEPT ![s] = q] /\ c = [k EXCEPT ![s] = h]
    BY <1>1, <1>2
<1>5. /\ a = [t \in Session |-> a[t]] /\ a[s] = d
      /\ \A t \in Session : t # s => a[t] = f[t]
    BY <1>3, <1>4, Replaced
<1>6. /\ b = [t \in Session |-> b[t]] /\ b[s] = q
      /\ \A t \in Session : t # s => b[t] = g[t]
    BY <1>3, <1>4, Replaced
<1>7. /\ c = [t \in Session |-> c[t]] /\ c[s] = h
      /\ \A t \in Session : t # s => c[t] = k[t]
    BY <1>3, <1>4, Replaced
<1>8. \A t \in Session : Stage(a[t], b[t], c[t])
    <2>. SUFFICES ASSUME NEW t \in Session PROVE Stage(a[t], b[t], c[t])
        OBVIOUS
    <2>1. CASE t = s
        BY <1>5, <1>6, <1>7, <2>1, Zenon
    <2>2. CASE t # s
        <3>1. Stage(f[t], g[t], k[t])
            BY <1>1 DEF LocksInv
        <3>. QED BY <1>5, <1>6, <1>7, <2>2, <3>1, Zenon
    <2>. QED BY <2>1, <2>2
<1>9. \A t, r \in Session : t # r => \A x \in c[t], y \in c[r] : ~InConflict(x, y)
    <2>1. \A t, r \in Session : t # r => \A x \in k[t], y \in k[r] : ~InConflict(x, y)
        BY <1>1 DEF LocksInv, NoConflict
    <2>2. \A x, y : InConflict(x, y) => InConflict(y, x)
        BY DEF InConflict
    <2>3. \A t \in Session : t # s => \A x \in h, y \in k[t] : ~InConflict(x, y)
        BY <1>1 DEF Apart
    <2>. QED BY <1>7, <2>1, <2>2, <2>3
<1>10. \A t, r \in Session : t # r => ~(a[t] = "cycle" /\ a[r] = "cycle")
    <2>1. \A t, r \in Session : t # r => ~(f[t] = "cycle" /\ f[r] = "cycle")
        BY <1>1 DEF LocksInv, OneCycle
    <2>. QED BY <1>1, <1>5, <2>1 DEF Alone
<1>11. \A t \in Session : Stage(doing'[t], todo'[t], held'[t])
    BY <1>2, <1>8, Zenon
<1>12. \A t \in Session : Stage(doing[t], todo[t], held[t])'
    BY <1>11 DEF Stage, OrderOf, Taken, LandFirst, LessonOrder, CycleOrder
<1>13. NoConflict'
    <2>1. \A t, r \in Session : t # r => \A x \in held'[t], y \in held'[r] : ~InConflict(x, y)
        BY <1>2, <1>9, Zenon
    <2>. QED BY <2>1 DEF NoConflict, InConflict
<1>14. OneCycle'
    BY <1>2, <1>10 DEF OneCycle
<1>. QED BY <1>2, <1>5, <1>6, <1>7, <1>12, <1>13, <1>14 DEF LocksInv

LEMMA BeginKeepsLocks ==
    ASSUME LocksInv, NEW s \in Session, NEW name, NEW order, Begin(s, name, order),
           name \in Deeds \ {"nothing"}, name \notin Unordered => OrderOf(name, order)
    PROVE  LocksInv'
<1>1. doing[s] = "nothing" /\ Stage(doing[s], todo[s], held[s])
    BY DEF Begin, LocksInv
<1>2. held[s] = {}
    BY <1>1 DEF Stage
<1>3. held' = [held EXCEPT ![s] = {}]
    BY <1>2 DEF Begin, LocksInv
<1>4. doing' = [doing EXCEPT ![s] = name] /\ todo' = [todo EXCEPT ![s] = order]
    BY DEF Begin
<1>5. Stage(name, order, {})
    <2>1. ASSUME OrderOf(name, order) PROVE Taken(order, 0, order, {})
        <3>1. order \in Seq(RowLock)
            BY <2>1 DEF OrderOf
        <3>. QED BY <3>1 DEF Taken
    <2>. QED BY <2>1 DEF Stage
<1>6. Alone(name, s)
    BY DEF Begin, Jobs, Alone
<1>7. Apart({}, s)
    BY DEF Apart
<1>. QED BY <1>3, <1>4, <1>5, <1>6, <1>7, SessionMoves

(* One lock more. *)
LEMMA StageGoesOn ==
    ASSUME NEW d, NEW q, NEW h, Stage(d, q, h), q # <<>>
    PROVE  Stage(d, Tail(q), h \cup {Head(q)})
<1>1. CASE d \in Unordered
    BY <1>1 DEF Stage, Unordered
<1>2. CASE d \notin Unordered
    <2>1. d \in Deeds /\ d # "nothing"
        BY DEF Stage
    <2>2. PICK o, k : OrderOf(d, o) /\ Taken(o, k, q, h)
        BY <1>2, <2>1 DEF Stage
    <2>3. o \in Seq(RowLock) /\ Len(o) \in Nat
        BY <2>2 DEF OrderOf
    <2>4. /\ k \in 0..Len(o) /\ q \in Seq(RowLock) /\ Len(q) = Len(o) - k
          /\ \A i \in 1..Len(q) : q[i] = o[k + i]
          /\ h = {o[i] : i \in 1..k}
        BY <2>2 DEF Taken
    <2>5. Len(q) > 0 /\ k + 1 \in 0..Len(o) /\ k + 1 \in 1..(k + 1)
        BY <2>3, <2>4
    <2>6. Head(q) = o[k + 1]
        BY <2>4, <2>5
    <2>7. /\ Tail(q) \in Seq(RowLock) /\ Len(Tail(q)) = Len(o) - (k + 1)
          /\ \A i \in 1..Len(Tail(q)) : Tail(q)[i] = q[i + 1] /\ i + 1 \in 1..Len(q)
        BY <2>3, <2>4, <2>5
    <2>8. \A i \in 1..Len(Tail(q)) : Tail(q)[i] = o[(k + 1) + i]
        <3>. SUFFICES ASSUME NEW i \in 1..Len(Tail(q)) PROVE Tail(q)[i] = o[(k + 1) + i]
            OBVIOUS
        <3>1. k + (i + 1) = (k + 1) + i
            BY <2>4
        <3>. QED BY <2>4, <2>7, <3>1
    <2>9. h \cup {Head(q)} = {o[i] : i \in 1..(k + 1)}
        <3>1. \A i : i \in 1..(k + 1) <=> i \in 1..k \/ i = k + 1
            BY <2>4
        <3>. QED BY <2>4, <2>6, <3>1
    <2>10. Taken(o, k + 1, Tail(q), h \cup {Head(q)})
        BY <2>5, <2>7, <2>8, <2>9 DEF Taken
    <2>. QED BY <1>2, <2>1, <2>2, <2>10 DEF Stage
<1>. QED BY <1>1, <1>2

LEMMA LockKeepsLocks ==
    ASSUME LocksInv, NEW s \in Session, Lock(s)
    PROVE  LocksInv'
<1>1. /\ todo[s] # <<>> /\ WaitsFor(s) = {} /\ UNCHANGED doing
      /\ held' = [held EXCEPT ![s] = @ \cup {Head(todo[s])}]
      /\ todo' = [todo EXCEPT ![s] = Tail(@)]
    BY DEF Lock
<1>2. PICK d, q, h : d = doing[s] /\ q = todo[s] /\ h = held[s]
    OBVIOUS
<1>3. Stage(d, Tail(q), h \cup {Head(q)})
    <2>1. Stage(d, q, h)
        BY <1>2 DEF LocksInv
    <2>. QED BY <1>1, <1>2, <2>1, StageGoesOn
<1>4. /\ doing' = [doing EXCEPT ![s] = d] /\ todo' = [todo EXCEPT ![s] = Tail(q)]
      /\ held' = [held EXCEPT ![s] = h \cup {Head(q)}]
    BY <1>1, <1>2 DEF LocksInv
<1>5. Apart(h \cup {Head(q)}, s)
    <2>1. \A t \in Session : t # s => \A a \in h, b \in held[t] : ~InConflict(a, b)
        BY <1>2 DEF LocksInv, NoConflict
    <2>2. \A t \in Session : t # s => \A b \in held[t] : ~InConflict(b, Head(q))
        BY <1>1, <1>2 DEF WaitsFor
    <2>3. \A x, y : InConflict(x, y) => InConflict(y, x)
        BY DEF InConflict
    <2>. QED BY <2>1, <2>2, <2>3 DEF Apart
<1>6. Alone(d, s)
    BY <1>2 DEF LocksInv, OneCycle, Alone
<1>. QED BY <1>3, <1>4, <1>5, <1>6, SessionMoves

LEMMA LocksKeep ==
    ASSUME LocksInv, [LocksNext]_lockVars
    PROVE  LocksInv'
<1>1. CASE UNCHANGED lockVars
    <2>1. doing' = doing /\ todo' = todo /\ held' = held
        BY <1>1 DEF lockVars
    <2>2. \A t \in Session : Stage(doing'[t], todo'[t], held'[t])
        BY <2>1, Zenon DEF LocksInv
    <2>3. \A t \in Session : Stage(doing[t], todo[t], held[t])'
        BY <2>2 DEF Stage, OrderOf, Taken, LandFirst, LessonOrder, CycleOrder
    <2>. QED BY <2>1, <2>3 DEF LocksInv, NoConflict, OneCycle, InConflict
<1>2. ASSUME NEW s \in Session, Lock(s) PROVE LocksInv'
    BY <1>2, LockKeepsLocks
<1>3. ASSUME NEW s \in Session, Commit(s) \/ DeadlockDetected(s) PROVE LocksInv'
    <2>1. /\ doing' = [doing EXCEPT ![s] = "nothing"] /\ todo' = [todo EXCEPT ![s] = <<>>]
          /\ held' = [held EXCEPT ![s] = {}]
        BY <1>3 DEF Commit, DeadlockDetected, Ends
    <2>2. Stage("nothing", <<>>, {})
        BY DEF Stage, Deeds
    <2>3. Apart({}, s) /\ Alone("nothing", s)
        BY DEF Apart, Alone
    <2>. QED BY <2>1, <2>2, <2>3, SessionMoves
<1>4. \A n \in Deeds : n # "nothing" => n \in Deeds \ {"nothing"}
    OBVIOUS
<1>5. \A p \in Human : p \in Player
    BY DEF Human
<1>6. ASSUME NEW s \in Session, NEW p \in Human, NEW n \in Land, Begin(s, "trade", PlayerThenNation(p, n))
      PROVE  LocksInv'
    <2>1. OrderOf("trade", PlayerThenNation(p, n))
        BY <1>5, TradeOrders
    <2>. QED BY <1>6, <2>1, BeginKeepsLocks DEF Deeds
<1>7. ASSUME NEW s \in Session, NEW p \in Player, NEW q \in Human, LivesIn[p] = LivesIn[q],
             Begin(s, "duty", NationThenPlayer(LivesIn[p], p, q))
      PROVE  LocksInv'
    <2>1. OrderOf("duty", NationThenPlayer(LivesIn[p], p, q))
        BY <1>5, <1>7, DutyOrders
    <2>. QED BY <1>7, <2>1, BeginKeepsLocks DEF Deeds
<1>8. ASSUME NEW s \in Session, NEW b \in Land, NEW q \in Human,
             Begin(s, "war", Declaration(LivesIn[q], b, q))
      PROVE  LocksInv'
    <2>1. LivesIn[q] \in Land
        BY <1>5, LocksOfRows
    <2>2. OrderOf("war", Declaration(LivesIn[q], b, q))
        BY <1>5, <2>1, WarOrders
    <2>. QED BY <1>8, <2>2, BeginKeepsLocks DEF Deeds
<1>9. ASSUME NEW s \in Session, NEW a \in Land, NEW b \in Land, Begin(s, "war", BothNations(a, b))
      PROVE  LocksInv'
    <2>1. OrderOf("war", BothNations(a, b))
        BY WarOrders
    <2>. QED BY <1>9, <2>1, BeginKeepsLocks DEF Deeds
<1>10. ASSUME NEW s \in Session, NEW n \in Land, NEW o \in NationThenCitizens(n), Begin(s, "dissolve", o)
       PROVE  LocksInv'
    <2>1. OrderOf("dissolve", o)
        BY DissolveOrders
    <2>. QED BY <1>10, <2>1, BeginKeepsLocks DEF Deeds
<1>11. ASSUME NEW s \in Session, NEW o, Begin(s, "rates", o) \/ Begin(s, "robots", o)
       PROVE  LocksInv'
    BY <1>11, BeginKeepsLocks DEF Deeds, Unordered
<1>12. ASSUME NEW s \in Session, Begin(s, "reset", NationsInOrder)
       PROVE  LocksInv'
    BY <1>12, ResetOrders, BeginKeepsLocks DEF Deeds
<1>13. ASSUME NEW s \in Session, NEW p \in Human, NEW l \in LessonId,
              Begin(s, "lesson", ProgressThenPlayer(p, l))
       PROVE  LocksInv'
    <2>1. OrderOf("lesson", ProgressThenPlayer(p, l))
        BY <1>5, LessonOrders
    <2>. QED BY <1>13, <2>1, BeginKeepsLocks DEF Deeds
<1>14. ASSUME NEW s \in Session, NEW p \in Human, NEW m \in Voted, Begin(s, "vote", ProposalThenVoter(m, p))
       PROVE  LocksInv'
    <2>1. OrderOf("vote", ProposalThenVoter(m, p))
        BY <1>5, MotionOrders
    <2>. QED BY <1>14, <2>1, BeginKeepsLocks DEF Deeds
<1>15. ASSUME NEW s \in Session, NEW p \in Human, NEW m \in Ruling,
              Begin(s, "revoke", RuleThenProposal(m, p))
       PROVE  LocksInv'
    <2>1. OrderOf("revoke", RuleThenProposal(m, p))
        BY <1>5, MotionOrders
    <2>. QED BY <1>15, <2>1, BeginKeepsLocks DEF Deeds
<1>16. ASSUME NEW s \in Session, NEW o \in CycleOrders, Begin(s, "cycle", o) PROVE LocksInv'
    <2>1. OrderOf("cycle", o)
        BY CycleHasOrder
    <2>. QED BY <1>16, <2>1, BeginKeepsLocks DEF Deeds
<1>. QED BY <1>1, <1>2, <1>3, <1>6, <1>7, <1>8, <1>9, <1>10, <1>11, <1>12, <1>13, <1>14, <1>15, <1>16
         DEF LocksNext

(* A session that waits: the lock w that it asks for, and those it holds.        *)
Waits(d, w, h) ==
    /\ d = "trade" => \E p \in Player, n \in Land :
          \/ w = ForUpdate(UserRow(p)) /\ h = {}
          \/ w = ForUpdate(NationRow(n)) /\ h = {ForUpdate(UserRow(p))}
    /\ d = "duty" => \E p, q \in Player :
          /\ LivesIn[p] = LivesIn[q]
          /\ \/ w = Guard(p) /\ h = {}
             \/ w = ForUpdate(UserRow(p)) /\ h = {Guard(p)}
             \/ w = RefersTo(UserRow(q)) /\ h = {Guard(p), ForUpdate(UserRow(p))}
    /\ d \in {"duty", "war", "dissolve", "reset"} =>
          /\ \/ \E n \in Land : w.row = NationRow(n) /\ \A a \in h : OfNation(a) /\ a.row[2] < n
             \/ \E p \in Player : w.row = UserRow(p) /\ Guard(p) \in h
          /\ \A a \in h : OfNation(a) \/ \E p \in Player : a.row = UserRow(p) /\ Guard(p) \in h
    /\ d = "war" /\ OfUser(w) => w.mode = "share"
    /\ d = "reset" => OfNation(w) /\ \A a \in h : OfNation(a)
    /\ d = "lesson" =>
          /\ OfLesson(w) \/ (OfUser(w) /\ \A a \in h : OfLesson(a))
          /\ \A a \in h : OfLesson(a) \/ OfUser(a)
    /\ d = "vote" => \E m \in Voted, p \in Player :
          \/ w = ForUpdate(MotionRow(m)) /\ h = {}
          \/ w = RefersTo(UserRow(p)) /\ h = {ForUpdate(MotionRow(m))}
    /\ d = "revoke" => \E m \in Ruling, p \in Player :
          \/ w = ForUpdate(RuleRow(m)) /\ h = {}
          \/ w = ForUpdate(MotionRow(m)) /\ h = {ForUpdate(RuleRow(m))}
          \/ w = RefersTo(UserRow(p)) /\ h = {ForUpdate(RuleRow(m)), ForUpdate(MotionRow(m))}
    /\ d = "cycle" =>
          /\ w \in CycleLocks /\ h \subseteq CycleLocks
          /\ (\E m \in Voted : w.row = MotionRow(m)) => \A a \in h : ~OfUser(a)

LEMMA WaitsInOrder ==
    ASSUME NEW d, NEW q, NEW h, Stage(d, q, h), q # <<>>, d \notin Unordered
    PROVE  Waits(d, Head(q), h) /\ Head(q) \in RowLock /\ h \subseteq RowLock /\ d \in Deeds \ {"nothing"}
<1>1. d \in Deeds /\ d # "nothing"
    BY DEF Stage
<1>2. PICK o, k : OrderOf(d, o) /\ Taken(o, k, q, h)
    BY <1>1 DEF Stage
<1>3. o \in Seq(RowLock) /\ Len(o) \in Nat
    BY <1>2 DEF OrderOf
<1>4. /\ k \in Nat /\ q \in Seq(RowLock) /\ Len(q) = Len(o) - k
      /\ \A i \in 1..Len(q) : q[i] = o[k + i]
      /\ h = {o[i] : i \in 1..k}
    BY <1>2, <1>3 DEF Taken
<1>5. Len(q) > 0 /\ k + 1 \in 1..Len(o)
    BY <1>3, <1>4
<1>6. PICK w : w = Head(q)
    OBVIOUS
<1>7. w = o[k + 1]
    BY <1>4, <1>5, <1>6
<1>8. w \in RowLock /\ h \subseteq RowLock
    BY <1>3, <1>4, <1>5, <1>7
<1>9. (k + 1) - 1 = k
    BY <1>4
<1>10. CASE d = "trade"
    <2>1. PICK p \in Player, n \in Land : o = <<ForUpdate(UserRow(p)), ForUpdate(NationRow(n))>>
        BY <1>2, <1>10 DEF OrderOf, PlayerThenNation
    <2>2. PICK a, b : a = ForUpdate(UserRow(p)) /\ b = ForUpdate(NationRow(n))
        OBVIOUS
    <2>3. o = <<a, b>>
        BY <2>1, <2>2
    <2>4. k = 0 \/ k = 1
        BY <1>4, <1>5, <2>3
    <2>5. (w = a /\ h = {}) \/ (w = b /\ h = {a})
        <3>1. 1..0 = {} /\ 1..1 = {1} /\ o[1] = a /\ o[2] = b
            BY <2>3
        <3>2. CASE k = 0
            BY <1>4, <1>7, <3>1, <3>2
        <3>3. CASE k = 1
            BY <1>4, <1>7, <3>1, <3>3
        <3>. QED BY <2>4, <3>2, <3>3
    <2>6. Waits(d, w, h)
        BY <1>10, <2>2, <2>5 DEF Waits
    <2>. QED BY <1>1, <1>6, <1>8, <2>6
<1>. DEFINE First == /\ \/ \E n \in Land : w.row = NationRow(n) /\ \A a \in h : OfNation(a) /\ a.row[2] < n
                        \/ \E p \in Player : w.row = UserRow(p) /\ Guard(p) \in h
                     /\ \A a \in h : OfNation(a) \/ \E p \in Player : a.row = UserRow(p) /\ Guard(p) \in h
<1>11. ASSUME LandFirst(o) PROVE First
    <2>1. \A i \in 1..Len(o) :
            \/ \E n \in Land : /\ o[i].row = NationRow(n)
                               /\ \A j \in 1..(i - 1) : OfNation(o[j]) /\ o[j].row[2] < n
            \/ \E p \in Player : o[i].row = UserRow(p) /\ \E j \in 1..(i - 1) : o[j] = Guard(p)
        BY <1>11 DEF LandFirst
    <2>2. \/ \E n \in Land : w.row = NationRow(n) /\ \A a \in h : OfNation(a) /\ a.row[2] < n
          \/ \E p \in Player : w.row = UserRow(p) /\ Guard(p) \in h
        <3>1. \/ \E n \in Land : /\ o[k + 1].row = NationRow(n)
                                 /\ \A j \in 1..k : OfNation(o[j]) /\ o[j].row[2] < n
              \/ \E p \in Player : o[k + 1].row = UserRow(p) /\ \E j \in 1..k : o[j] = Guard(p)
            BY <1>5, <1>9, <2>1
        <3>2. CASE \E n \in Land : /\ o[k + 1].row = NationRow(n)
                                   /\ \A j \in 1..k : OfNation(o[j]) /\ o[j].row[2] < n
            <4>1. PICK n \in Land : /\ w.row = NationRow(n)
                                    /\ \A j \in 1..k : OfNation(o[j]) /\ o[j].row[2] < n
                BY <1>7, <3>2
            <4>2. \A a \in h : OfNation(a) /\ a.row[2] < n
                BY <1>4, <4>1
            <4>. QED BY <4>1, <4>2
        <3>3. CASE \E p \in Player : o[k + 1].row = UserRow(p) /\ \E j \in 1..k : o[j] = Guard(p)
            BY <1>4, <1>7, <3>3
        <3>. QED BY <3>1, <3>2, <3>3
    <2>3. ASSUME NEW a \in h PROVE OfNation(a) \/ \E p \in Player : a.row = UserRow(p) /\ Guard(p) \in h
        <3>1. PICK i \in 1..k : a = o[i]
            BY <1>4
        <3>2. i \in 1..Len(o) /\ \A j \in 1..(i - 1) : j \in 1..k
            BY <1>3, <1>4, <1>5
        <3>3. CASE \E n \in Land : o[i].row = NationRow(n)
            BY <3>1, <3>3 DEF OfNation
        <3>4. CASE \E p \in Player : o[i].row = UserRow(p) /\ \E j \in 1..(i - 1) : o[j] = Guard(p)
            BY <1>4, <3>1, <3>2, <3>4
        <3>. QED BY <2>1, <3>2, <3>3, <3>4
    <2>. QED BY <2>2, <2>3
<1>12. CASE d = "duty"
    <2>1. PICK p, r \in Player : LivesIn[p] = LivesIn[r] /\ o = NationThenPlayer(LivesIn[p], p, r)
        BY <1>2, <1>12 DEF OrderOf
    <2>2. PICK a, b, c : a = Guard(p) /\ b = ForUpdate(UserRow(p)) /\ c = RefersTo(UserRow(r))
        OBVIOUS
    <2>3. o = <<a, b, c>>
        BY <2>1, <2>2 DEF NationThenPlayer, Guard
    <2>4. k = 0 \/ k = 1 \/ k = 2
        BY <1>4, <1>5, <2>3
    <2>5. (w = a /\ h = {}) \/ (w = b /\ h = {a}) \/ (w = c /\ h = {a, b})
        <3>1. 1..0 = {} /\ 1..1 = {1} /\ 1..2 = {1, 2}
            OBVIOUS
        <3>2. o[1] = a /\ o[2] = b /\ o[3] = c
            BY <2>3
        <3>3. CASE k = 0
            BY <1>4, <1>7, <3>1, <3>2, <3>3
        <3>4. CASE k = 1
            BY <1>4, <1>7, <3>1, <3>2, <3>4
        <3>5. CASE k = 2
            BY <1>4, <1>7, <3>1, <3>2, <3>5
        <3>. QED BY <2>4, <3>3, <3>4, <3>5
    <2>6. First
        BY <1>2, <1>11, <1>12 DEF OrderOf
    <2>. HIDE DEF First
    <2>7. Waits(d, w, h)
        BY <1>12, <2>1, <2>2, <2>5, <2>6 DEF Waits, First
    <2>. QED BY <1>1, <1>6, <1>8, <2>7
<1>13. CASE d \in {"war", "dissolve", "reset"}
    <2>1. First
        BY <1>2, <1>11, <1>13 DEF OrderOf
    <2>2. d = "war" /\ OfUser(w) => w.mode = "share"
        BY <1>2, <1>5, <1>7 DEF OrderOf
    <2>3. d = "reset" => OfNation(w) /\ \A a \in h : OfNation(a)
        <3>1. d = "reset" => \A i \in 1..Len(o) : OfNation(o[i])
            BY <1>2 DEF OrderOf
        <3>2. \A i \in 1..k : i \in 1..Len(o)
            BY <1>4, <1>5
        <3>. QED BY <1>4, <1>5, <1>7, <3>1, <3>2
    <2>. HIDE DEF First
    <2>4. Waits(d, w, h)
        BY <1>13, <2>1, <2>2, <2>3 DEF Waits, First
    <2>. QED BY <1>1, <1>6, <1>8, <2>4
<1>14. CASE d = "lesson"
    <2>1. /\ Len(o) > 1 /\ OfLesson(o[1]) /\ \E p \in Player : o[2] = ForUpdate(UserRow(p))
          /\ \A i \in 3..Len(o) : OfLesson(o[i])
        BY <1>2, <1>14 DEF OrderOf, LessonOrder
    <2>2. OfUser(o[2])
        BY <2>1, RowsDiffer DEF OfUser
    <2>3. \A i \in 1..Len(o) : i = 1 \/ i = 2 \/ i \in 3..Len(o)
        BY <1>3
    <2>4. \A i \in 1..k : i \in 1..Len(o)
        BY <1>4, <1>5
    <2>5. \A a \in h : OfLesson(a) \/ OfUser(a)
        BY <1>4, <2>1, <2>2, <2>3, <2>4
    <2>6. OfLesson(w) \/ (OfUser(w) /\ \A a \in h : OfLesson(a))
        <3>1. CASE k + 1 = 2
            <4>1. k = 1
                BY <1>4, <3>1
            <4>. QED BY <1>4, <1>7, <2>1, <2>2, <3>1, <4>1
        <3>2. CASE k + 1 # 2
            BY <1>5, <1>7, <2>1, <2>3, <3>2
        <3>. QED BY <3>1, <3>2
    <2>7. Waits(d, w, h)
        BY <1>14, <2>5, <2>6 DEF Waits
    <2>. QED BY <1>1, <1>6, <1>8, <2>7
<1>15. CASE d = "vote"
    <2>1. PICK m \in Voted, p \in Player : o = <<ForUpdate(MotionRow(m)), RefersTo(UserRow(p))>>
        BY <1>2, <1>15 DEF OrderOf, ProposalThenVoter
    <2>2. PICK a, b : a = ForUpdate(MotionRow(m)) /\ b = RefersTo(UserRow(p))
        OBVIOUS
    <2>3. o = <<a, b>>
        BY <2>1, <2>2
    <2>4. k = 0 \/ k = 1
        BY <1>4, <1>5, <2>3
    <2>5. (w = a /\ h = {}) \/ (w = b /\ h = {a})
        <3>1. 1..0 = {} /\ 1..1 = {1} /\ o[1] = a /\ o[2] = b
            BY <2>3
        <3>2. CASE k = 0
            BY <1>4, <1>7, <3>1, <3>2
        <3>3. CASE k = 1
            BY <1>4, <1>7, <3>1, <3>3
        <3>. QED BY <2>4, <3>2, <3>3
    <2>6. Waits(d, w, h)
        BY <1>15, <2>2, <2>5 DEF Waits
    <2>. QED BY <1>1, <1>6, <1>8, <2>6
<1>16. CASE d = "revoke"
    <2>1. PICK m \in Ruling, p \in Player : o = RuleThenProposal(m, p)
        BY <1>2, <1>16 DEF OrderOf
    <2>2. PICK a, b, c : a = ForUpdate(RuleRow(m)) /\ b = ForUpdate(MotionRow(m)) /\ c = RefersTo(UserRow(p))
        OBVIOUS
    <2>3. o = <<a, b, c>>
        BY <2>1, <2>2 DEF RuleThenProposal
    <2>4. k = 0 \/ k = 1 \/ k = 2
        BY <1>4, <1>5, <2>3
    <2>5. (w = a /\ h = {}) \/ (w = b /\ h = {a}) \/ (w = c /\ h = {a, b})
        <3>1. 1..0 = {} /\ 1..1 = {1} /\ 1..2 = {1, 2}
            OBVIOUS
        <3>2. o[1] = a /\ o[2] = b /\ o[3] = c
            BY <2>3
        <3>3. CASE k = 0
            BY <1>4, <1>7, <3>1, <3>2, <3>3
        <3>4. CASE k = 1
            BY <1>4, <1>7, <3>1, <3>2, <3>4
        <3>5. CASE k = 2
            BY <1>4, <1>7, <3>1, <3>2, <3>5
        <3>. QED BY <2>4, <3>3, <3>4, <3>5
    <2>6. Waits(d, w, h)
        BY <1>16, <2>2, <2>5 DEF Waits
    <2>. QED BY <1>1, <1>6, <1>8, <2>6
<1>17. CASE d = "cycle"
    <2>1. \A i \in 1..Len(o) :
            /\ o[i] \in CycleLocks
            /\ (\E m \in Voted : o[i].row = MotionRow(m)) => \A j \in 1..(i - 1) : ~OfUser(o[j])
        BY <1>2, <1>17 DEF OrderOf, CycleOrder
    <2>2. \A i \in 1..k : i \in 1..Len(o)
        BY <1>4, <1>5
    <2>3. w \in CycleLocks /\ h \subseteq CycleLocks
        BY <1>4, <1>5, <1>7, <2>1, <2>2
    <2>4. (\E m \in Voted : w.row = MotionRow(m)) => \A a \in h : ~OfUser(a)
        <3>1. (\E m \in Voted : o[k + 1].row = MotionRow(m)) => \A j \in 1..k : ~OfUser(o[j])
            BY <1>5, <1>9, <2>1
        <3>. QED BY <1>4, <1>7, <3>1
    <2>5. Waits(d, w, h)
        BY <1>17, <2>3, <2>4 DEF Waits
    <2>. QED BY <1>1, <1>6, <1>8, <2>5
<1>. QED BY <1>1, <1>10, <1>12, <1>13, <1>14, <1>15, <1>16, <1>17 DEF Deeds, Unordered

(* Who holds, and who asks for, which rows. *)
LEMMA RowsOfDeeds ==
    ASSUME NEW d \in Deeds, d # "nothing", d \notin Unordered, NEW w, NEW h, Waits(d, w, h)
    PROVE  /\ \A a \in h \cup {w} :
                /\ OfLesson(a) => d = "lesson"
                /\ (\E m \in Ruling : a.row = RuleRow(m)) => d \in {"revoke", "cycle"}
                /\ (\E m \in Ruling : a.row = MotionRow(m)) => d \in {"revoke", "cycle"}
                /\ (\E m \in Voted : a.row = MotionRow(m)) => d \in {"vote", "cycle"}
           /\ \A a \in h :
                /\ OfNation(a) => d \in {"duty", "war", "dissolve", "reset"}
                /\ OfUser(a) => d \in {"trade", "duty", "war", "dissolve", "lesson", "cycle"}
<1>1. CASE d \in {"duty", "war", "dissolve", "reset"}
    <2>1. /\ OfNation(w) \/ OfUser(w)
          /\ \A a \in h : OfNation(a) \/ OfUser(a)
        BY <1>1 DEF Waits, OfNation, OfUser
    <2>2. \A a \in h \cup {w} : /\ ~OfLesson(a)
                                /\ \A m : a.row # RuleRow(m) /\ a.row # MotionRow(m)
        BY <2>1, RowsDiffer DEF OfNation, OfUser, OfLesson
    <2>3. d = "reset" => \A a \in h : ~OfUser(a)
        <3>1. d = "reset" => \A a \in h : OfNation(a)
            BY DEF Waits
        <3>. QED BY <3>1, RowsDiffer DEF OfNation, OfUser
    <2>. QED BY <1>1, <2>2, <2>3
<1>2. CASE d = "lesson"
    <2>1. \A a \in h : OfLesson(a) \/ OfUser(a)
        BY <1>2 DEF Waits
    <2>2. OfLesson(w) \/ OfUser(w)
        BY <1>2 DEF Waits
    <2>3. \A a \in h \cup {w} : \A m : a.row # RuleRow(m) /\ a.row # MotionRow(m)
        BY <2>1, <2>2, RowsDiffer DEF OfUser, OfLesson
    <2>4. \A a \in h : ~OfNation(a)
        BY <2>1, RowsDiffer DEF OfUser, OfLesson, OfNation
    <2>. QED BY <1>2, <2>3, <2>4
<1>3. CASE d = "trade"
    <2>1. OfNation(w) \/ OfUser(w)
        BY <1>3, RowsDiffer DEF Waits, OfNation, OfUser
    <2>2. \A a \in h : OfUser(a)
        BY <1>3, RowsDiffer DEF Waits, OfUser
    <2>3. \A a \in h \cup {w} : /\ ~OfLesson(a)
                                /\ \A m : a.row # RuleRow(m) /\ a.row # MotionRow(m)
        BY <2>1, <2>2, RowsDiffer DEF OfNation, OfUser, OfLesson
    <2>4. \A a \in h : ~OfNation(a)
        BY <2>2, RowsDiffer DEF OfUser, OfNation
    <2>. QED BY <1>3, <2>3, <2>4
<1>4. CASE d = "vote"
    <2>1. \A a \in h : \E m \in Voted : a.row = MotionRow(m)
        BY <1>4, RowsDiffer DEF Waits
    <2>2. OfUser(w) \/ \E m \in Voted : w.row = MotionRow(m)
        BY <1>4, RowsDiffer DEF Waits, OfUser
    <2>3. \A m \in Voted : m \notin Ruling
        BY LocksAssumption
    <2>4. \A a \in h \cup {w} : /\ ~OfLesson(a)
                                /\ \A m \in Ruling : a.row # RuleRow(m) /\ a.row # MotionRow(m)
        BY <2>1, <2>2, <2>3, RowsDiffer DEF OfUser, OfLesson
    <2>5. \A a \in h : ~OfNation(a) /\ ~OfUser(a)
        BY <2>1, RowsDiffer DEF OfUser, OfNation
    <2>. QED BY <1>4, <2>4, <2>5
<1>5. CASE d = "revoke"
    <2>1. \A a \in h : \E m \in Ruling : a.row = RuleRow(m) \/ a.row = MotionRow(m)
        BY <1>5, RowsDiffer DEF Waits
    <2>2. OfUser(w) \/ \E m \in Ruling : w.row = RuleRow(m) \/ w.row = MotionRow(m)
        BY <1>5, RowsDiffer DEF Waits, OfUser
    <2>3. \A m \in Voted : m \notin Ruling
        BY LocksAssumption
    <2>4. \A a \in h \cup {w} : ~OfLesson(a) /\ \A m \in Voted : a.row # MotionRow(m)
        BY <2>1, <2>2, <2>3, RowsDiffer DEF OfUser, OfLesson
    <2>5. \A a \in h : ~OfNation(a) /\ ~OfUser(a)
        BY <2>1, RowsDiffer DEF OfUser, OfNation
    <2>. QED BY <1>5, <2>4, <2>5
<1>6. CASE d = "cycle"
    <2>1. \A a \in h \cup {w} : a \in CycleLocks
        BY <1>6 DEF Waits
    <2>2. \A a \in h \cup {w} : ~OfLesson(a) /\ ~OfNation(a)
        BY <2>1, RowsDiffer DEF CycleLocks, OfLesson, OfNation
    <2>. QED BY <1>6, <2>2
<1>. QED BY <1>1, <1>2, <1>3, <1>4, <1>5, <1>6 DEF Deeds, Unordered

\* Nobody waits in a circle for nations, each for a later one than he is waited for.
LEMMA NoClimbInACircle ==
    ASSUME NEW D, D # {},
           \A s \in D : OfNation(Head(todo[s])),
           \A s \in D : \E t \in D : Head(todo[s]).row[2] < Head(todo[t]).row[2]
    PROVE  FALSE
<1>. DEFINE W == {n \in Land : \E s \in D : Head(todo[s]).row = NationRow(n)}
<1>1. IsFiniteSet(W) /\ W \subseteq Nat
    BY LocksAssumption, FS_Subset
<1>2. \A s \in D : \E n \in W : Head(todo[s]).row = NationRow(n) /\ Head(todo[s]).row[2] = n
    BY RowsDiffer DEF OfNation
<1>3. W # {}
    BY <1>2
<1>. HIDE DEF W
<1>4. PICK n \in W : \A m \in W : m <= n
    BY <1>1, <1>3, GreatestExists
<1>5. PICK s \in D : Head(todo[s]).row[2] = n
    BY <1>4, RowsDiffer DEF W
<1>6. PICK t \in D : n < Head(todo[t]).row[2]
    BY <1>5
<1>7. PICK m \in W : Head(todo[t]).row[2] = m
    BY <1>2
<1>8. m <= n /\ n < m /\ m \in Nat /\ n \in Nat
    BY <1>1, <1>4, <1>6, <1>7
<1>. QED BY <1>8

LEMMA OnlyKnownCircles ==
    ASSUME LocksInv, NEW C \in Circles,
           \A s \in C : doing[s] \notin Unordered,
           \A s, t \in C : s # t => ~ (doing[s] = "lesson" /\ doing[t] = "lesson"),
           \A s, t \in C : ~ (doing[s] = "trade" /\ doing[t] \in {"duty", "dissolve", "war"}),
           \A s, t \in C : ~ (doing[s] = "cycle" /\ doing[t] \in {"revoke", "dissolve"})
    PROVE  FALSE
<1>. DEFINE w(s) == Head(todo[s])
            Blocks(t, s, a) == t \in C /\ t # s /\ a \in held[t] /\ a.row = w(s).row
                                /\ ("update" \in {a.mode, w(s).mode} \/ (a.mode = "write" /\ w(s).mode = "write"))
<1>1. C # {} /\ C \subseteq Session
    BY DEF Circles
\* Everybody waits for somebody, and somebody for him.
<1>2. \A s \in C : (\E t \in C : t \in WaitsFor(s)) /\ (\E t \in C : s \in WaitsFor(t))
    BY DEF Circles
<1>3. \A s, t : t \in WaitsFor(s) <=> /\ t \in Session \ {s} /\ todo[s] # <<>>
                                      /\ \E a \in held[t] : InConflict(a, w(s))
    BY DEF WaitsFor
<1>4. \A a, b : InConflict(a, b) <=>
            a.row = b.row /\ ("update" \in {a.mode, b.mode} \/ (a.mode = "write" /\ b.mode = "write"))
    BY DEF InConflict
<1>5. \A s \in C : todo[s] # <<>> /\ \E t, a : Blocks(t, s, a)
    <2>. SUFFICES ASSUME NEW s \in C PROVE todo[s] # <<>> /\ \E t, a : Blocks(t, s, a)
        OBVIOUS
    <2>1. PICK t \in C : t \in WaitsFor(s)
        BY <1>2
    <2>2. PICK a \in held[t] : InConflict(a, w(s))
        BY <1>3, <2>1
    <2>3. Blocks(t, s, a)
        BY <1>3, <1>4, <2>1, <2>2
    <2>. QED BY <1>3, <2>1, <2>3
<1>6. \A s \in C : \E t, a : t \in C /\ Blocks(s, t, a)
    <2>. SUFFICES ASSUME NEW s \in C PROVE \E t, a : t \in C /\ Blocks(s, t, a)
        OBVIOUS
    <2>1. PICK t \in C : s \in WaitsFor(t)
        BY <1>2
    <2>2. PICK a \in held[s] : InConflict(a, w(t))
        BY <1>3, <2>1
    <2>3. Blocks(s, t, a)
        BY <1>3, <1>4, <2>1, <2>2
    <2>. QED BY <2>1, <2>3
<1>7. \A s \in C : Waits(doing[s], w(s), held[s]) /\ doing[s] \in Deeds \ {"nothing"}
    <2>. SUFFICES ASSUME NEW s \in C
                  PROVE  Waits(doing[s], w(s), held[s]) /\ doing[s] \in Deeds \ {"nothing"}
        OBVIOUS
    <2>1. Stage(doing[s], todo[s], held[s]) /\ todo[s] # <<>> /\ doing[s] \notin Unordered
        BY <1>1, <1>5 DEF LocksInv
    <2>. QED BY <2>1, WaitsInOrder
<1>8. \A s, t \in C : s # t => \A a \in held[s], b \in held[t] :
            ~(a.row = b.row /\ ("update" \in {a.mode, b.mode}))
    BY <1>1 DEF LocksInv, NoConflict, InConflict
<1>9. \A s, t \in C : s # t => ~(doing[s] = "cycle" /\ doing[t] = "cycle")
    BY <1>1 DEF LocksInv, OneCycle
<1>10. ASSUME NEW s \in C
      PROVE  /\ \A a \in held[s] \cup {w(s)} :
                /\ OfLesson(a) => doing[s] = "lesson"
                /\ (\E m \in Ruling : a.row = RuleRow(m)) => doing[s] \in {"revoke", "cycle"}
                /\ (\E m \in Ruling : a.row = MotionRow(m)) => doing[s] \in {"revoke", "cycle"}
                /\ (\E m \in Voted : a.row = MotionRow(m)) => doing[s] \in {"vote", "cycle"}
             /\ \A a \in held[s] :
                /\ OfNation(a) => doing[s] \in {"duty", "war", "dissolve", "reset"}
                /\ OfUser(a) => doing[s] \in {"trade", "duty", "war", "dissolve", "lesson", "cycle"}
    <2>. HIDE DEF w
    <2>1. Waits(doing[s], w(s), held[s]) /\ doing[s] \in Deeds /\ doing[s] # "nothing"
          /\ doing[s] \notin Unordered
        BY <1>7
    <2>. QED BY <2>1, RowsOfDeeds
<1>. HIDE DEF w
\* No lesson: another lesson would hold what it waits for, or wait for what it holds.
<1>11. ASSUME NEW s \in C PROVE doing[s] # "lesson"
    <2>. SUFFICES ASSUME doing[s] = "lesson" PROVE FALSE
        OBVIOUS
    <2>1. OfLesson(w(s)) \/ \A a \in held[s] : OfLesson(a)
        BY <1>7 DEF Waits
    <2>2. CASE OfLesson(w(s))
        <3>1. PICK t, a : Blocks(t, s, a)
            BY <1>5
        <3>2. OfLesson(a)
            BY <2>2, <3>1 DEF OfLesson
        <3>. QED BY <1>10, <3>1, <3>2
    <2>3. CASE \A a \in held[s] : OfLesson(a)
        <3>1. PICK t, a : t \in C /\ Blocks(s, t, a)
            BY <1>6
        <3>2. OfLesson(w(t))
            BY <2>3, <3>1 DEF OfLesson
        <3>. QED BY <1>10, <3>1, <3>2
    <2>. QED BY <2>1, <2>2, <2>3
\* No revocation: who waits for one of its rows is another one, which holds its rule.
<1>12. ASSUME NEW s \in C PROVE doing[s] # "revoke"
    <2>. SUFFICES ASSUME doing[s] = "revoke" PROVE FALSE
        OBVIOUS
    <2>1. \A t \in C : doing[t] # "cycle"
        OBVIOUS
    <2>2. PICK t, a : t \in C /\ Blocks(s, t, a)
        BY <1>6
    <2>3. PICK m \in Ruling : /\ (a = ForUpdate(RuleRow(m)) \/ a = ForUpdate(MotionRow(m)))
                               /\ ForUpdate(RuleRow(m)) \in held[s]
        BY <1>7, <2>2 DEF Waits
    <2>4. w(t).row = RuleRow(m) \/ w(t).row = MotionRow(m)
        BY <2>2, <2>3, RowsDiffer
    <2>5. doing[t] = "revoke"
        BY <1>10, <2>1, <2>2, <2>4
    <2>6. held[t] # {}
        BY <1>6, <2>2
    <2>7. PICK k \in Ruling, p \in Player :
            \/ w(t) = ForUpdate(MotionRow(k)) /\ held[t] = {ForUpdate(RuleRow(k))}
            \/ w(t) = RefersTo(UserRow(p))
        BY <1>7, <2>2, <2>5, <2>6 DEF Waits
    <2>8. k = m /\ ForUpdate(RuleRow(m)) \in held[t]
        BY <2>4, <2>7, RowsDiffer
    <2>9. ForUpdate(RuleRow(m)).mode = "update"
        BY RowsDiffer
    <2>. QED BY <1>8, <2>2, <2>3, <2>8, <2>9
\* Who waits for a row of the governance cycle's waits for a player.
<1>13. ASSUME NEW s \in C, doing[s] = "cycle", NEW t \in C, NEW a, Blocks(s, t, a) PROVE OfUser(a)
    <2>1. a \in CycleLocks
        BY <1>7, <1>13 DEF Waits
    <2>2. doing[t] # "cycle" /\ doing[t] # "revoke"
        BY <1>9, <1>12, <1>13
    <2>3. CASE a.row \in {RuleRow(m) : m \in Ruling} \cup {MotionRow(m) : m \in Ruling}
        BY <1>10, <1>13, <2>2, <2>3
    <2>4. CASE a.row \in {MotionRow(m) : m \in Voted}
        <3>1. PICK m \in Voted : w(t).row = MotionRow(m)
            BY <1>13, <2>4
        <3>2. doing[t] = "vote"
            BY <1>10, <2>2, <3>1
        <3>3. held[t] # {}
            BY <1>6
        <3>4. PICK p \in Player : w(t) = RefersTo(UserRow(p))
            BY <1>7, <3>2, <3>3 DEF Waits
        <3>. QED BY <3>1, <3>4, RowsDiffer
    <2>. QED BY <2>1, <2>3, <2>4, RowsDiffer DEF CycleLocks, OfUser
\* No governance cycle: a duty or a war holds the player, and waits for another.
<1>14. ASSUME NEW s \in C PROVE doing[s] # "cycle"
    <2>. SUFFICES ASSUME doing[s] = "cycle" PROVE FALSE
        OBVIOUS
    <2>1. PICK p \in Player : w(s) = RefersTo(UserRow(p))
        <3>1. w(s) \in CycleLocks /\ ((\E m \in Voted : w(s).row = MotionRow(m)) => \A a \in held[s] : ~OfUser(a))
            BY <1>7 DEF Waits
        <3>2. PICK t, a : Blocks(t, s, a)
            BY <1>5
        <3>3. doing[t] # "cycle" /\ doing[t] # "revoke"
            BY <1>9, <1>12, <3>2
        <3>4. ~ \E m \in Ruling : w(s).row = RuleRow(m) \/ w(s).row = MotionRow(m)
            BY <1>10, <3>2, <3>3
        <3>5. ~ \E m \in Voted : w(s).row = MotionRow(m)
            <4>1. PICK x, b : x \in C /\ Blocks(s, x, b)
                BY <1>6
            <4>2. OfUser(b)
                BY <1>13, <4>1
            <4>. QED BY <3>1, <4>1, <4>2
        <3>. QED BY <3>1, <3>4, <3>5, RowsDiffer DEF CycleLocks
    <2>2. \A x \in C : \A a \in held[x] : OfUser(a) /\ a.mode = "update" => doing[x] \in {"trade", "duty", "war"}
        <3>1. ASSUME NEW x \in C, NEW a \in held[x], OfUser(a), a.mode = "update"
              PROVE  doing[x] # "cycle"
            <4>1. ASSUME doing[x] = "cycle" PROVE FALSE
                <5>1. a \in CycleLocks
                    BY <1>7, <4>1 DEF Waits
                <5>. QED BY <3>1, <5>1, RowsDiffer DEF CycleLocks, OfUser
            <4>. QED BY <4>1
        <3>. QED BY <1>10, <1>11, <3>1
    <2>3. \A x \in C : doing[x] # "trade"
        <3>1. PICK t, a : t \in C /\ Blocks(s, t, a)
            BY <1>6
        <3>2. OfUser(a) /\ a \in CycleLocks
            BY <1>7, <1>13, <3>1 DEF Waits
        <3>3. a.mode = "share"
            BY <3>2, RowsDiffer DEF CycleLocks, OfUser
        <3>4. OfUser(w(t)) /\ w(t).mode = "update" /\ held[t] # {}
            BY <1>6, <3>1, <3>2, <3>3 DEF OfUser
        <3>5. doing[t] # "trade"
            <4>1. ASSUME doing[t] = "trade" PROVE FALSE
                <5>1. PICK n \in Land : w(t) = ForUpdate(NationRow(n))
                    BY <1>7, <3>1, <3>4, <4>1 DEF Waits
                <5>. QED BY <3>4, <5>1, RowsDiffer DEF OfUser
            <4>. QED BY <4>1
        <3>6. doing[t] # "reset"
            <4>1. ASSUME doing[t] = "reset" PROVE FALSE
                <5>1. OfNation(w(t))
                    BY <1>7, <3>1, <4>1 DEF Waits
                <5>2. ~OfUser(w(t))
                    BY <5>1, RowsDiffer DEF OfUser, OfNation
                <5>. QED BY <3>4, <5>2
            <4>. QED BY <4>1
        <3>7. doing[t] # "war"
            BY <1>7, <3>1, <3>4 DEF Waits
        <3>8. doing[t] # "vote"
            <4>1. ASSUME doing[t] = "vote" PROVE FALSE
                <5>1. PICK q \in Player : w(t) = RefersTo(UserRow(q))
                    BY <1>7, <3>1, <3>4, <4>1 DEF Waits
                <5>. QED BY <3>4, <5>1, RowsDiffer
            <4>. QED BY <4>1
        <3>9. doing[t] = "duty"
            BY <1>7, <1>9, <1>11, <1>12, <3>1, <3>5, <3>6, <3>7, <3>8 DEF Deeds, Unordered
        <3>. QED BY <3>1, <3>9
    <2>4. PICK y, b : Blocks(y, s, b)
        BY <1>5
    <2>5. OfUser(b) /\ b.mode = "update" /\ doing[y] \in {"duty", "war"}
        <3>1. w(s).mode = "share" /\ w(s).row = UserRow(p)
            BY <2>1, RowsDiffer
        <3>. QED BY <2>2, <2>3, <2>4, <3>1 DEF OfUser
    <2>6. PICK q \in Player : w(y).row = UserRow(q) /\ Guard(q) \in held[y]
        <3>1. \/ \E n \in Land : w(y).row = NationRow(n) /\ \A a \in held[y] : OfNation(a) /\ a.row[2] < n
              \/ \E q \in Player : w(y).row = UserRow(q) /\ Guard(q) \in held[y]
            BY <1>7, <2>4, <2>5 DEF Waits
        <3>2. ~OfNation(b)
            BY <2>5, RowsDiffer DEF OfUser, OfNation
        <3>. QED BY <2>4, <3>1, <3>2
    <2>7. w(y).mode = "share"
        <3>1. CASE doing[y] = "war"
            BY <1>7, <2>4, <2>6, <3>1 DEF Waits, OfUser
        <3>2. CASE doing[y] = "duty"
            <4>1. PICK p1, p2 \in Player :
                    \/ w(y) = Guard(p1) /\ held[y] = {}
                    \/ w(y) = ForUpdate(UserRow(p1)) /\ held[y] = {Guard(p1)}
                    \/ w(y) = RefersTo(UserRow(p2))
                BY <1>7, <2>4, <3>2 DEF Waits
            <4>2. b # Guard(p1)
                BY <2>5, RowsDiffer DEF OfUser, Guard
            <4>. QED BY <2>4, <4>1, <4>2, RowsDiffer
        <3>. QED BY <2>5, <3>1, <3>2
    <2>8. PICK z, c : Blocks(z, y, c)
        BY <1>5, <2>4
    <2>9. c.row = UserRow(q) /\ c.mode = "update"
        BY <2>6, <2>7, <2>8
    <2>10. doing[z] \in {"duty", "war"}
        BY <2>2, <2>3, <2>8, <2>9 DEF OfUser
    <2>11. Guard(q) \in held[z]
        <3>1. OfNation(c) \/ \E r \in Player : c.row = UserRow(r) /\ Guard(r) \in held[z]
            BY <1>7, <2>8, <2>10 DEF Waits
        <3>. QED BY <2>9, <3>1, RowsDiffer DEF OfNation
    <2>12. Guard(q).mode = "update"
        BY RowsDiffer DEF Guard
    <2>. QED BY <1>8, <2>4, <2>6, <2>8, <2>11, <2>12
\* No vote, since nobody could wait for it.
<1>15. ASSUME NEW s \in C PROVE doing[s] # "vote"
    <2>. SUFFICES ASSUME doing[s] = "vote" PROVE FALSE
        OBVIOUS
    <2>1. PICK t, a : t \in C /\ Blocks(s, t, a)
        BY <1>6
    <2>2. PICK m \in Voted : a = ForUpdate(MotionRow(m))
        BY <1>7, <2>1 DEF Waits
    <2>3. w(t).row = MotionRow(m)
        BY <2>1, <2>2, RowsDiffer
    <2>4. doing[t] = "vote" /\ held[t] # {}
        BY <1>6, <1>10, <1>14, <2>1, <2>3
    <2>5. PICK p \in Player : w(t) = RefersTo(UserRow(p))
        BY <1>7, <2>1, <2>4 DEF Waits
    <2>. QED BY <2>3, <2>5, RowsDiffer
<1>16. \A s \in C : doing[s] \in {"trade", "duty", "war", "dissolve", "reset"}
    BY <1>7, <1>11, <1>12, <1>14, <1>15 DEF Deeds, Unordered
\* The others wait for nations, and who holds one waits for a later one.
<1>17. ASSUME NEW s \in C PROVE OfNation(w(s))
    <2>1. CASE doing[s] = "trade"
        <3>1. PICK n \in Land : w(s) = ForUpdate(NationRow(n))
            BY <1>6, <1>7, <2>1 DEF Waits
        <3>. QED BY <3>1, RowsDiffer DEF OfNation
    <2>2. CASE \E t \in C : doing[t] = "trade" /\ doing[s] # "trade"
        <3>1. doing[s] = "reset"
            BY <1>16, <2>2
        <3>. QED BY <1>7, <3>1 DEF Waits
    <2>3. CASE \A t \in C : doing[t] # "trade"
        <3>. SUFFICES ASSUME ~OfNation(w(s)) PROVE FALSE
            OBVIOUS
        <3>1. PICK p \in Player : w(s).row = UserRow(p) /\ Guard(p) \in held[s]
            BY <1>7, <1>16, <2>3 DEF Waits, OfNation
        <3>2. PICK t, a : Blocks(t, s, a)
            BY <1>5
        <3>3. OfNation(a) \/ \E r \in Player : a.row = UserRow(r) /\ Guard(r) \in held[t]
            BY <1>7, <1>16, <2>3, <3>2 DEF Waits
        <3>4. Guard(p) \in held[t]
            BY <3>1, <3>2, <3>3, RowsDiffer DEF OfNation
        <3>5. Guard(p).mode = "update"
            BY RowsDiffer DEF Guard
        <3>. QED BY <1>8, <3>1, <3>2, <3>4, <3>5
    <2>. QED BY <2>1, <2>2, <2>3
<1>18. ASSUME NEW s \in C PROVE \E t \in C : w(s).row[2] < w(t).row[2]
    <2>1. PICK t, a : Blocks(t, s, a)
        BY <1>5
    <2>2. OfNation(a)
        BY <1>17, <2>1 DEF OfNation
    <2>3. doing[t] \in {"duty", "war", "dissolve", "reset"}
        BY <1>10, <2>1, <2>2
    <2>4. OfNation(w(t))
        BY <1>17, <2>1
    <2>5. PICK n \in Land : w(t).row = NationRow(n) /\ a.row[2] < n
        <3>1. \/ \E n \in Land : w(t).row = NationRow(n) /\ \A b \in held[t] : OfNation(b) /\ b.row[2] < n
              \/ \E p \in Player : w(t).row = UserRow(p) /\ Guard(p) \in held[t]
            BY <1>7, <2>1, <2>3 DEF Waits
        <3>2. ~ \E p \in Player : w(t).row = UserRow(p)
            BY <2>4, RowsDiffer DEF OfNation
        <3>. QED BY <2>1, <3>1, <3>2
    <2>6. w(s).row[2] < w(t).row[2]
        BY <2>1, <2>5, RowsDiffer
    <2>. QED BY <2>1, <2>6
<1>. USE DEF w
<1>. QED BY <1>1, <1>17, <1>18, NoClimbInACircle

(* The orders of the rows are the only protection there is: whoever is not in the   *)
(* rate engine or the AI cycle deadlocks as lessons of one player do, as a trade does *)
(* with one who took the nation first, or as the governance cycle does with a         *)
(* revocation or a dissolution.                                                       *)
THEOREM DeadlocksAreKnown == LocksSpec => []KnownDeadlocksOnly
<1>1. LocksInv /\ [LocksNext]_lockVars => LocksInv'
    BY LocksKeep
<1>2. LocksInv => KnownDeadlocksOnly
    BY OnlyKnownCircles DEF KnownDeadlocksOnly
<1>. QED BY <1>1, <1>2, LocksStart, PTL DEF LocksSpec

=============================================================================
