----------------------------- MODULE AdminPanel -----------------------------
(*****************************************************************************)
(* What the admin panel writes, and what it then shows of it: the rows an    *)
(* admin changes, the governance ledger every change is noted in, and the    *)
(* players' list that is answered from Redis until it is flushed or expires. *)
(* A request of actions.py looks at the row in one transaction, writes it    *)
(* with its note in a second one, and flushes the cache after that; a        *)
(* request that finalizes a founding draft writes its note in a transaction  *)
(* of its own; the others are one transaction. The bot's own steps run in    *)
(* between.                                                                  *)
(*****************************************************************************)
EXTENDS Game, SequencesExt

CONSTANTS
    Subject,        \* players the requests are about
    Request,        \* requests of the panel that may be under way at once
    Switch,         \* lessons and missions: rows with an is_active
    Draft,          \* drafts of one founder, in the order of their ids
    MaxNotes        \* bound: notes in the ledger

ASSUME AdminAssumption == Draft \subseteq Nat /\ MaxNotes \in Nat

VARIABLES
    deleted,        \* players whose users.deleted_at is set: banned, or robots switched off
    enabled,        \* switches that are on
    warRow,         \* status of a war, who gave it, and whether a resolution that is under
                    \* way has read it as active
    drafts,         \* status of each draft
    made,           \* drafts that became a nation
    ledger,         \* governance_ledger's notes of the panel, oldest first
    handled,        \* what each request is at
    kept            \* admin:players:* in Redis, with a history of its making

adminVars == <<deleted, enabled, warRow, drafts, made, ledger, handled, kept>>

NoRequest == [job |-> <<"none", 0>>, at |-> "none"]
NotKept   == [seen |-> {}, late |-> FALSE, missed |-> FALSE, there |-> FALSE]
Result    == {"attacker", "defender", "draw"}

\* The subject of a note: rule_key and the row's id.
PlayerRow(p) == <<"player", p>>
SwitchRow(x) == <<"switch", x>>
DraftRow(d)  == <<"draft", d>>
WarRow       == <<"war", 0>>

Noted(kind, on, says) == Append(ledger, [kind |-> kind, on |-> on, says |-> says])
Room == Len(ledger) < MaxNotes

\* Enter(q, kind, on, at): the request q has come as far as at.
Enter(q, kind, on, at) == handled' = [handled EXCEPT ![q] = [job |-> <<kind, on>>, at |-> at]]
On(q) == handled[q].job[2]
Leave(q) == handled' = [handled EXCEPT ![q] = NoRequest]
Free(q) == handled[q].job[1] = "none"
At(q, kind, at) == handled[q].job[1] = kind /\ handled[q].at = at

------------------------------------------------------------------------------
(* actions.py: look, write, flush. *)

\* The reads of ban_player, unban_player and end_war: their answers refuse at once.
LooksAt(q) ==
    /\ Free(q)
    /\ \/ \E p \in Subject \ deleted : Enter(q, "ban", p, "looked")
       \/ \E p \in deleted : Enter(q, "unban", p, "looked")
       \/ warRow.status = "ACTIVE" /\ \E r \in Result : Enter(q, "end_war", r, "looked")
    /\ UNCHANGED <<deleted, enabled, warRow, drafts, made, ledger, kept>>

\* The mutant takes any rowcount for success.
AnyRows(written) == TRUE

\* The check of rowcount: anything but the one row is a 409 and a rollback.
OneRow(written) == Cardinality(written) = 1

\* The UPDATE writes the rows its WHERE still finds; the note is in its transaction.
BanWrites(q) ==
    /\ At(q, "ban", "looked") /\ Room
    /\ LET p == On(q)
           written == {p} \ deleted
       IN  IF OneRow(written)
           THEN /\ deleted' = deleted \union written
                /\ ledger' = Noted("admin_ban", PlayerRow(p), "banned")
                /\ Enter(q, "ban", p, "written")
           ELSE Leave(q) /\ UNCHANGED <<deleted, ledger>>
    /\ UNCHANGED <<enabled, warRow, drafts, made, kept>>

UnbanWrites(q) ==
    /\ At(q, "unban", "looked") /\ Room
    /\ LET p == On(q)
           written == {p} \intersect deleted
       IN  IF OneRow(written)
           THEN /\ deleted' = deleted \ written
                /\ ledger' = Noted("admin_unban", PlayerRow(p), "active")
                /\ Enter(q, "unban", p, "written")
           ELSE Leave(q) /\ UNCHANGED <<deleted, ledger>>
    /\ UNCHANGED <<enabled, warRow, drafts, made, kept>>

EndWarWrites(q) ==
    /\ At(q, "end_war", "looked") /\ Room
    /\ LET result == On(q)
           written == {w \in {warRow} : w.status = "ACTIVE"}
       IN  IF OneRow(written)
           THEN /\ warRow' = IF written = {} THEN warRow
                          ELSE [warRow EXCEPT !.by = "panel",
                                    !.status = IF result = "draw" THEN "DRAW" ELSE "ENDED"]
                /\ ledger' = Noted("admin_end_war", WarRow, result)
                /\ Enter(q, "end_war", result, "written")
           ELSE Leave(q) /\ UNCHANGED <<warRow, ledger>>
    /\ UNCHANGED <<deleted, enabled, drafts, made, kept>>

\* _invalidate: a delete that fails is logged, and the answer is the same.
Flushes(q) ==
    /\ handled[q].at = "written"
    /\ \/ kept' = NotKept
       \/ kept' = [kept EXCEPT !.missed = kept.there]
    /\ Leave(q)
    /\ UNCHANGED <<deleted, enabled, warRow, drafts, made, ledger>>

\* The process ends, or the admin's connection does, before the request is through.
RequestDies(q) ==
    /\ ~Free(q)
    /\ kept' = [kept EXCEPT !.missed = @ \/ (kept.there /\ handled[q].at = "written")]
    /\ Leave(q)
    /\ UNCHANGED <<deleted, enabled, warRow, drafts, made, ledger>>

------------------------------------------------------------------------------
(* Requests of one transaction. None of them flushes the cache. *)

\* profile_ban and profile_unban: no look at what the row says, no old value.
ProfileSet(p) ==
    /\ Room
    /\ \/ deleted' = deleted \union {p} /\ ledger' = Noted("admin_profile_ban", PlayerRow(p), "banned")
       \/ deleted' = deleted \ {p} /\ ledger' = Noted("admin_profile_unban", PlayerRow(p), "active")
    /\ UNCHANGED <<enabled, warRow, drafts, made, handled, kept>>

\* toggle_academy_lesson, toggle_mission: the row's value is turned over under its lock.
Toggles(s) ==
    /\ Room
    /\ enabled' = IF s \in enabled THEN enabled \ {s} ELSE enabled \union {s}
    /\ ledger' = Noted("toggle", SwitchRow(s), IF s \in enabled THEN "off" ELSE "on")
    /\ UNCHANGED <<deleted, warRow, drafts, made, handled, kept>>

\* update_academy_lesson, update_mission: the value of the form, whatever the row says.
SetsByForm(s, on) ==
    /\ Room
    /\ enabled' = IF on THEN enabled \union {s} ELSE enabled \ {s}
    /\ ledger' = Noted("update", SwitchRow(s), IF on THEN "on" ELSE "off")
    /\ UNCHANGED <<deleted, warRow, drafts, made, handled, kept>>

Editable == {"EDITING", "REVIEW"}

\* founding_cancel refuses what is over; cancel_founder_draft cancels whatever the status.
CancelsDraft(d, guarded) ==
    /\ Room /\ drafts[d] # "NONE"
    /\ guarded => drafts[d] \in Editable
    /\ drafts' = [drafts EXCEPT ![d] = "CANCELLED"]
    /\ ledger' = Noted("admin_founding_cancel", DraftRow(d), "CANCELLED")
    /\ UNCHANGED <<deleted, enabled, warRow, made, handled, kept>>

------------------------------------------------------------------------------
(* Finalizing a draft: found by its id, made by its founder. *)

\* founding_finalize wants REVIEW; finalize_founder_draft only that the draft is there.
FinalizeLooks(q, d, guarded) ==
    /\ Free(q) /\ drafts[d] # "NONE"
    /\ guarded => drafts[d] = "REVIEW"
    /\ Enter(q, "finalize", d, "looked")
    /\ UNCHANGED <<deleted, enabled, warRow, drafts, made, ledger, kept>>

\* finalize_draft: the founder's draft in REVIEW, which may be another one. An
\* expired draft, or one without its fields, is refused (MayFound of Founding);
\* one nation per founder.
FinalizeMakes(q) ==
    /\ At(q, "finalize", "looked")
    /\ \/ \E d \in Draft :
            /\ drafts[d] = "REVIEW" /\ made = {}
            /\ drafts' = [drafts EXCEPT ![d] = "COMPLETED"]
            /\ made' = made \union {d}
            /\ Enter(q, "finalize", On(q), "made")
       \/ Leave(q) /\ UNCHANGED <<drafts, made>>
    /\ UNCHANGED <<deleted, enabled, warRow, ledger, kept>>

\* The note, in the transaction after.
FinalizeNotes(q) ==
    /\ At(q, "finalize", "made") /\ Room
    /\ ledger' = Noted("admin_founding_finalize", DraftRow(On(q)), "COMPLETED")
    /\ Leave(q)
    /\ UNCHANGED <<deleted, enabled, warRow, drafts, made, kept>>

------------------------------------------------------------------------------
(* The bot meanwhile, and the list of players. *)

\* resolve_war reads the war before it locks the nations, ...
WarRead ==
    /\ warRow.status = "ACTIVE" /\ ~warRow.resolving
    /\ warRow' = [warRow EXCEPT !.resolving = TRUE]
    /\ UNCHANGED <<deleted, enabled, drafts, made, ledger, handled, kept>>

\* ... and decides by what it has read: the SELECT that locks the war's row does not read
\* a loaded object again. Its result is written over the one that the panel gave meanwhile.
WarResolves ==
    /\ warRow.resolving
    /\ \E s \in {"ENDED", "DRAW"} :
            warRow' = [status |-> s, resolving |-> FALSE,
                       by |-> IF warRow.status = "ACTIVE" THEN "bot" ELSE "late bot"]
    /\ UNCHANGED <<deleted, enabled, drafts, made, ledger, handled, kept>>

\* A resolution fails, or the process ends.
WarStays ==
    /\ warRow.resolving
    /\ warRow' = [warRow EXCEPT !.resolving = FALSE]
    /\ UNCHANGED <<deleted, enabled, drafts, made, ledger, handled, kept>>

\* get_or_create_draft, when none is alive; the dialogue, and cancel_draft; confirm_founder.
FounderActs(d) ==
    /\ \/ /\ drafts[d] = "NONE" /\ made = {}
          /\ \A e \in Draft : drafts[e] \notin Editable /\ (e < d => drafts[e] # "NONE")
          /\ drafts' = [drafts EXCEPT ![d] = "EDITING"] /\ UNCHANGED made
       \/ drafts[d] = "EDITING" /\ drafts' = [drafts EXCEPT ![d] = "REVIEW"] /\ UNCHANGED made
       \/ drafts[d] \in Editable /\ drafts' = [drafts EXCEPT ![d] = "CANCELLED"] /\ UNCHANGED made
       \/ /\ drafts[d] = "REVIEW" /\ made = {}
          /\ drafts' = [drafts EXCEPT ![d] = "COMPLETED"] /\ made' = made \union {d}
    /\ UNCHANGED <<deleted, enabled, warRow, ledger, handled, kept>>

\* cached, when Redis has no answer: list_players reads the rows ...
ListReads(q) ==
    /\ Free(q) /\ ~kept.there
    /\ Enter(q, "list", deleted, "computed")
    /\ UNCHANGED <<deleted, enabled, warRow, drafts, made, ledger, kept>>

\* ... and keeps what it read, whatever was flushed since.
ListKeeps(q) ==
    /\ At(q, "list", "computed")
    /\ kept' = [seen |-> On(q), late |-> On(q) # deleted,
                missed |-> FALSE, there |-> TRUE]
    /\ Leave(q)
    /\ UNCHANGED <<deleted, enabled, warRow, drafts, made, ledger>>

ListExpires ==
    /\ kept.there
    /\ kept' = NotKept
    /\ UNCHANGED <<deleted, enabled, warRow, drafts, made, ledger, handled>>

------------------------------------------------------------------------------

AdminInit ==
    /\ deleted = {} /\ enabled = Switch
    /\ warRow = [status |-> "ACTIVE", by |-> "nobody", resolving |-> FALSE]
    /\ drafts = [d \in Draft |-> "NONE"] /\ made = {}
    /\ ledger = <<>>
    /\ handled = [q \in Request |-> NoRequest]
    /\ kept = NotKept

AdminNext ==
    \/ \E q \in Request : \/ LooksAt(q) \/ BanWrites(q) \/ UnbanWrites(q) \/ EndWarWrites(q)
                          \/ Flushes(q) \/ RequestDies(q)
                          \/ FinalizeMakes(q) \/ FinalizeNotes(q)
                          \/ ListReads(q) \/ ListKeeps(q)
                          \/ \E d \in Draft, g \in BOOLEAN : FinalizeLooks(q, d, g)
    \/ \E p \in Subject : ProfileSet(p)
    \/ \E s \in Switch : Toggles(s) \/ \E on \in BOOLEAN : SetsByForm(s, on)
    \/ \E d \in Draft : FounderActs(d) \/ \E g \in BOOLEAN : CancelsDraft(d, g)
    \/ WarRead \/ WarResolves \/ WarStays \/ ListExpires

AdminSpec == AdminInit /\ [][AdminNext]_adminVars

------------------------------------------------------------------------------
(* Properties. *)

NothingNoted == [kind |-> "none", on |-> <<"none", 0>>, says |-> "nothing"]

\* What the ledger says last about a subject.
LastNote(row) == LET i == SelectLastInSeq(ledger, LAMBDA n : n.on = row)
               IN  IF i = 0 THEN NothingNoted ELSE ledger[i]

WhichPlayers(says) == {p \in Subject : LastNote(PlayerRow(p)).says = says}

\* What an admin is told is so. The ledger's last word about a player, a lesson or a
\* mission is the row's state, whoever else wrote the row in between; about a war it
\* is, unless a resolution that read the war before the panel ended it has written
\* over it; a draft it calls completed belongs to a founder whose nation was made, and
\* one it calls cancelled is. The players' list differs from the rows about a player
\* only if its last writer does not flush it (panel_sections.py), has not flushed it
\* yet or could not, or if the list was read before that write and kept after it.
PanelTellsTruly ==
    /\ WhichPlayers("banned") \subseteq deleted /\ WhichPlayers("active") \cap deleted = {}
    /\ \A s \in Switch : LastNote(SwitchRow(s)).says # "nothing" =>
                            (LastNote(SwitchRow(s)).says = "on") = (s \in enabled)
    /\ LET result == LastNote(WarRow).says
       IN  result # "nothing" => \/ warRow.by = "panel" /\ (result = "draw") = (warRow.status = "DRAW")
                                 \/ warRow.by = "late bot"
    /\ \A d \in Draft : /\ LastNote(DraftRow(d)).says = "COMPLETED" => made # {}
                        /\ LastNote(DraftRow(d)).says = "CANCELLED" => drafts[d] = "CANCELLED"
    /\ kept.there =>
         \A p \in Subject : \/ (p \in kept.seen) = (p \in deleted)
                           \/ kept.late \/ kept.missed
                           \/ LastNote(PlayerRow(p)).kind \in {"admin_profile_ban", "admin_profile_unban"}
                           \/ \E q \in Request : handled[q].at = "written" /\ On(q) = p

=============================================================================
