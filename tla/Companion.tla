----------------------------- MODULE Companion -----------------------------
(*****************************************************************************)
(* AICompanion.reply, which writes the analysis a nation's group reads after *)
(* an event: the player's context is read, a reply kept for that very        *)
(* context is looked for in Redis, else the models are tried one after the   *)
(* other, and what one of them says is kept and remembered as the player's   *)
(* last message, which is part of the next context. Redis may fail at each   *)
(* use, and the call goes on without it.                                     *)
(*****************************************************************************)
EXTENDS Game

CONSTANTS
    Asker,          \* players a reply is written for
    Call,           \* replies under way at once
    Question,       \* prompts
    Text,           \* usable texts of a model
    NoText,         \* no message
    Models,         \* how many models _candidate_models lists
    MaxChanges      \* bound: changes of what the database says of a player

Fallback == "AI_FALLBACK_MESSAGE"

ASSUME CompanionAssumption ==
    /\ NoText \notin Text \cup {Fallback} /\ Fallback \notin Text /\ NoPlayer \notin Asker
    /\ Models \in Nat \ {0} /\ MaxChanges \in Nat

VARIABLES
    usable,         \* AI_ENABLED, and an API key
    says,           \* what the database says of a player: balances, trades, nation
    last,           \* opex:ai:last-bot:* of each player
    replies,        \* opex:ai:response:*, each with the context it was written for
    calls           \* the call each worker is at, or has ended

companionVars == <<usable, says, last, replies, calls>>

NoContext == [who |-> NoPlayer, says |-> 0, last |-> NoText, question |-> NoText]
NoCall == [step |-> "over", for |-> NoContext, tried |-> 0, reply |-> NoText,
           written |-> NoContext]

\* The mutant leaves the player's state out of the key.
KeyWithoutState(context) == [context EXCEPT !.says = 0]

\* build_cache_key: the whole context and the question.
Key(context) == context

\* A call that ends with a text written for a context, or with the fallback.
EndsWith(c, text, context) ==
    calls' = [calls EXCEPT ![c].step = "over", ![c].reply = text, ![c].written = context]

FallsBack(c) == EndsWith(c, Fallback, calls[c].for)

------------------------------------------------------------------------------
\* build_user_context. A last message that cannot be read is none.
Asks(c, u, question) ==
    /\ calls[c].step = "over"
    /\ \E message \in {last[u], NoText} :
         calls' = [calls EXCEPT ![c] =
                     [NoCall EXCEPT !.step = "asked",
                        !.for = [who |-> u, says |-> says[u], last |-> message,
                                 question |-> question]]]
    /\ UNCHANGED <<usable, says, last, replies>>

\* The player does not exist, or the database fails.
ContextFails(c) ==
    /\ calls[c].step = "asked"
    /\ FallsBack(c)
    /\ UNCHANGED <<usable, says, last, replies>>

\* get_cached_response: a hit is the answer, and is not remembered. A miss, or a
\* failure of Redis, goes on to the client.
LooksUp(c) ==
    /\ calls[c].step = "asked"
    /\ \/ \E r \in replies : r.key = Key(calls[c].for) /\ EndsWith(c, r.reply, r.written)
       \/ IF usable THEN calls' = [calls EXCEPT ![c].step = "model"] ELSE FallsBack(c)
    /\ UNCHANGED <<usable, says, last, replies>>

\* generate_content raises: the next model, and the fallback after the last one.
ModelFails(c) ==
    /\ calls[c].step = "model"
    /\ IF calls[c].tried + 1 = Models
       THEN FallsBack(c)
       ELSE calls' = [calls EXCEPT ![c].tried = @ + 1]
    /\ UNCHANGED <<usable, says, last, replies>>

\* parse_ai_response finds a reply in it, or raises: then no other model is tried.
ModelAnswers(c) ==
    /\ calls[c].step = "model"
    /\ \/ \E t \in Text : calls' = [calls EXCEPT ![c].step = "parsed", ![c].reply = t]
       \/ FallsBack(c)
    /\ UNCHANGED <<usable, says, last, replies>>

\* set_cached_response.
Keeps(c) ==
    /\ calls[c].step = "parsed"
    /\ LET key == Key(calls[c].for)
           kept == [key |-> key, reply |-> calls[c].reply, written |-> calls[c].for]
       IN  replies' \in {replies, {r \in replies : r.key # key} \union {kept}}
    /\ calls' = [calls EXCEPT ![c].step = "kept"]
    /\ UNCHANGED <<usable, says, last>>

\* remember_bot_message, and the answer.
Remembers(c) ==
    /\ calls[c].step = "kept"
    /\ last' \in {last, [last EXCEPT ![calls[c].for.who] = calls[c].reply]}
    /\ EndsWith(c, calls[c].reply, calls[c].for)
    /\ UNCHANGED <<usable, says, replies>>

------------------------------------------------------------------------------
(* Meanwhile. *)

PlayerActs(u) ==
    /\ says[u] < MaxChanges
    /\ says' = [says EXCEPT ![u] = @ + 1]
    /\ UNCHANGED <<usable, last, replies, calls>>

\* ai_cache_ttl_seconds, ai_last_message_ttl_seconds.
ReplyExpires ==
    /\ \E r \in replies : replies' = replies \ {r}
    /\ UNCHANGED <<usable, says, last, calls>>

LastExpires(u) ==
    /\ last[u] # NoText
    /\ last' = [last EXCEPT ![u] = NoText]
    /\ UNCHANGED <<usable, says, replies, calls>>

\* The process ends with its calls; what Redis has stays.
CallsDie ==
    /\ \E c \in Call : calls[c] # NoCall
    /\ calls' = [c \in Call |-> NoCall]
    /\ UNCHANGED <<usable, says, last, replies>>

------------------------------------------------------------------------------
CompanionInit ==
    /\ usable \in BOOLEAN
    /\ says = [u \in Asker |-> 0] /\ last = [u \in Asker |-> NoText]
    /\ replies = {} /\ calls = [c \in Call |-> NoCall]

CompanionNext ==
    \/ \E c \in Call : \/ \E u \in Asker, question \in Question : Asks(c, u, question)
                       \/ ContextFails(c) \/ LooksUp(c) \/ ModelFails(c) \/ ModelAnswers(c)
                       \/ Keeps(c) \/ Remembers(c)
    \/ \E u \in Asker : PlayerActs(u) \/ LastExpires(u)
    \/ ReplyExpires \/ CallsDie

CompanionSpec == CompanionInit /\ [][CompanionNext]_companionVars

------------------------------------------------------------------------------
(* Properties. *)

\* Whatever calls overlap and whichever use of Redis fails, a player is answered
\* with what a model wrote for the player's own question, with the state and the
\* last message of the call's start, or with the fallback; the fallback itself is
\* neither kept for a later call nor taken for the player's last message.
AnswersFitTheirContext ==
    /\ \A c \in Call : calls[c].step = "over" => calls[c].written = calls[c].for
    /\ \A r \in replies : r.reply \in Text
    /\ \A u \in Asker : last[u] # Fallback

=============================================================================
