------------------------------- MODULE World -------------------------------
(*****************************************************************************)
(* The events of the world: those that a job makes of a strong move of a     *)
(* nation's rate, and those of an admin. The job's event is committed, then  *)
(* told to the nation's group, then marked as told: the message may be       *)
(* delivered although the call fails, a process may die in between, and      *)
(* nothing takes the job up again.                                           *)
(*****************************************************************************)
EXTENDS Game

CONSTANTS
    Rearm,          \* EVENT_REARM, in steps of the clock
    Duration,       \* EVENT_DURATION: shorter
    MaxEvents       \* bound: events of the nation looked at

ASSUME WorldAssumption ==
    /\ {Rearm, Duration, MaxEvents} \subseteq Nat
    /\ 0 < Duration /\ Duration < Rearm

VARIABLES
    trend,          \* the 24-hour move of the nation's rate, if no nation's is stronger
    events,         \* world_events of that nation, oldest first; posts: a history
    announcing      \* run_world_event_job: the event being announced, and how far it is

worldVars == <<trend, events, announcing>>

Kind == {"MARKET_BOOM", "MARKET_CRASH"}
NoEvent == 0
Untold == [event |-> NoEvent, step |-> "none"]

------------------------------------------------------------------------------

NewEvent(kind, by, length) ==
    [kind |-> kind, by |-> by, age |-> 0, left |-> length, active |-> TRUE, announced |-> FALSE,
     posts |-> 0]

\* expire_world_events.
Expired(s) == [i \in DOMAIN s |-> [s[i] EXCEPT !.active = @ /\ s[i].left > 0]]

\* The mutant looks at events that are still active only.
RecentActive(kind) ==
    \E i \in DOMAIN events : events[i].kind = kind /\ events[i].active /\ events[i].left > 0

\* The query before a new event: of the nation and the kind, whoever made it, and
\* active or not.
Recent(kind) == \E i \in DOMAIN events : events[i].kind = kind /\ events[i].age <= Rearm

\* generate_market_world_event, in one transaction with the query for the group.
JobMakesEvent ==
    /\ announcing = Untold
    /\ IF trend \in Kind /\ ~Recent(trend) /\ Len(events) < MaxEvents
       THEN /\ events' = Append(Expired(events), NewEvent(trend, "job", Duration))
            /\ announcing' = [event |-> Len(events) + 1, step |-> "made"]
       ELSE events' = Expired(events) /\ UNCHANGED announcing
    /\ UNCHANGED trend

\* send_message delivers; the job goes on, or its call fails all the same and ends it.
JobPosts ==
    /\ announcing.step = "made"
    /\ events' = [events EXCEPT ![announcing.event].posts = @ + 1]
    /\ announcing' \in {[announcing EXCEPT !.step = "posted"], Untold}
    /\ UNCHANGED trend

\* announced_in_group, in a second transaction.
JobMarks ==
    /\ announcing.step = "posted"
    /\ events' = [events EXCEPT ![announcing.event].announced = TRUE]
    /\ announcing' = Untold
    /\ UNCHANGED trend

\* A message that is not delivered, a nation without a group, or the end of the process.
JobEnds ==
    /\ announcing # Untold
    /\ announcing' = Untold
    /\ UNCHANGED <<trend, events>>

\* create_event of the admin panel: any kind, any length, never announced.
AdminMakesEvent(kind, length) ==
    /\ Len(events) < MaxEvents
    /\ events' = Append(events, NewEvent(kind, "panel", length))
    /\ UNCHANGED <<trend, announcing>>

------------------------------------------------------------------------------

TrendChanges ==
    /\ \E t \in Kind \union {"calm"} : t # trend /\ trend' = t
    /\ UNCHANGED <<events, announcing>>

\* The rest of an event's time, down to none.
Less(n) == IF n = 0 THEN 0 ELSE n - 1

ClockTicks ==
    /\ events' = [i \in DOMAIN events |->
                    [events[i] EXCEPT !.age = Capped(events[i].age + 1, Rearm + 1),
                                      !.left = Less(events[i].left)]]
    /\ UNCHANGED <<trend, announcing>>

------------------------------------------------------------------------------

WorldInit == trend = "calm" /\ events = <<>> /\ announcing = Untold

WorldNext ==
    \/ TrendChanges \/ ClockTicks
    \/ JobMakesEvent \/ JobPosts \/ JobMarks \/ JobEnds
    \/ \E kind \in Kind, length \in {1, Rearm} : AdminMakesEvent(kind, length)

WorldSpec == WorldInit /\ [][WorldNext]_worldVars

------------------------------------------------------------------------------
(* Properties. *)

\* An event is made and told once, wherever the job ends. The job's events of one
\* kind are further apart than EVENT_REARM, also when the first has long expired, is
\* the panel's, or has no mark because the process died; a group reads of an event
\* once at most, although a message that was delivered may count as failed; and what
\* is marked as announced it has read.
EventsToldOnce ==
    /\ \A i, j \in DOMAIN events :
         i < j /\ events[i].kind = events[j].kind /\ events[j].by = "job" =>
             events[i].age > Rearm
    /\ \A i \in DOMAIN events :
         /\ events[i].posts <= 1
         /\ events[i].announced => events[i].posts = 1 /\ events[i].by = "job"

=============================================================================
