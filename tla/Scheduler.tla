----------------------------- MODULE Scheduler -----------------------------
(*****************************************************************************)
(* One job of the bot's scheduler and the two ways Redis joins it to the     *)
(* admin panel: a list of commands that a loop in the bot's process takes    *)
(* from, and a hash with the job's state that a listener writes after every  *)
(* event. Commands and hash outlive the process; the scheduler's own state   *)
(* does not.                                                                 *)
(*****************************************************************************)
EXTENDS Game, SequencesExt

CONSTANTS
    MaxCommands,    \* bound: commands waiting
    MaxWrites       \* bound: writes of the job's state under way

ASSUME SchedulerAssumption == {MaxCommands, MaxWrites} \subseteq Nat

VARIABLES
    process,        \* "down", "starting" (jobs added, scheduler not started) or "up"
    seeded,         \* install_scheduler_monitor's task has written
    paused,         \* the job has no next run time
    running,        \* an instance of the job runs (max_instances = 1)
    loop,           \* scheduler_control_loop: "none", "waiting", "dead" or the command taken
    commands,       \* opex:admin:scheduler:commands
    writes,         \* persist_scheduler_job_state calls whose write is not done, oldest first
    panel,          \* opex:scheduler:job:<id>, and who wrote it
    muddled         \* history: the last write done was overtaken, or failed

schedulerVars == <<process, seeded, paused, running, loop, commands, writes, panel, muddled>>

Command == {"pause", "resume", "run_now"}

Unwritten == [status |-> "unknown", paused |-> FALSE, by |-> "nobody"]

\* persist_scheduler_job_state up to its write: a job of a scheduler that is not
\* started has no next run time.
StateNow(status, p, by) == [status |-> status, paused |-> p \/ process = "starting", by |-> by,
                            old |-> FALSE, own |-> FALSE]

------------------------------------------------------------------------------
(* The process. *)

\* build_scheduler and install_scheduler_monitor.
ProcessStarts ==
    /\ process = "down"
    /\ process' = "starting"
    /\ seeded' = FALSE /\ paused' = FALSE
    /\ UNCHANGED <<running, loop, commands, writes, panel, muddled>>

\* The seeding task runs when main first waits: while the world warms up, or later.
Seed ==
    /\ process # "down" /\ ~seeded /\ Len(writes) < MaxWrites
    /\ seeded' = TRUE
    /\ LET unscheduled == paused \/ process = "starting"
       IN  writes' = Append(writes, StateNow(IF unscheduled THEN "paused" ELSE "scheduled", paused,
                                             IF process = "starting" THEN "seed" ELSE "live"))
    /\ UNCHANGED <<process, paused, running, loop, commands, panel, muddled>>

\* scheduler.start, and the control loop's task.
SchedulerStarts ==
    /\ process = "starting"
    /\ process' = "up"
    /\ loop' = "waiting"
    /\ UNCHANGED <<seeded, paused, running, commands, writes, panel, muddled>>

\* The process ends: what it held is gone, what Redis has stays.
ProcessEnds ==
    /\ process # "down"
    /\ process' = "down"
    /\ running' = FALSE /\ loop' = "none" /\ writes' = <<>> /\ paused' = FALSE /\ seeded' = FALSE
    /\ panel' = [panel EXCEPT !.by = IF @ = "nobody" THEN @ ELSE "earlier"]
    /\ muddled' = FALSE
    /\ UNCHANGED <<commands>>

------------------------------------------------------------------------------
(* The job. *)

\* The time comes, or run_now made it now.
JobRuns ==
    /\ process = "up" /\ ~paused /\ ~running
    /\ running' = TRUE
    /\ UNCHANGED <<process, seeded, paused, loop, commands, writes, panel, muddled>>

\* The listener's event: the job's function catches its own errors, so that it
\* always ends well; a run that came too late is missed.
JobEvent(status) ==
    /\ process = "up" /\ Len(writes) < MaxWrites
    /\ IF status = "success" THEN running ELSE ~running /\ ~paused
    /\ running' = FALSE
    /\ writes' = Append(writes, StateNow(status, paused, "live"))
    /\ UNCHANGED <<process, seeded, paused, loop, commands, panel, muddled>>

\* The i-th write under way is over; those that were computed before it are old.
Over(i) ==
    /\ writes' = RemoveAt([j \in DOMAIN writes |-> [writes[j] EXCEPT !.old = @ \/ j < i]], i)
    /\ loop' = IF writes[i].own THEN "waiting" ELSE loop
    /\ UNCHANGED <<process, seeded, paused, running, commands>>

\* It reaches Redis, in whatever order the connections do,
WriteDone(i) ==
    /\ Over(i)
    /\ panel' = [status |-> writes[i].status, paused |-> writes[i].paused, by |-> writes[i].by]
    /\ muddled' = writes[i].old

\* or Redis fails, and nobody hears of it.
WriteFails(i) == Over(i) /\ muddled' = TRUE /\ UNCHANGED panel

------------------------------------------------------------------------------
(* Commands. *)

\* scheduler_command, scheduler_job_action and the AI world's three buttons.
SchedulerCommand(c) ==
    /\ Len(commands) < MaxCommands
    /\ commands' = Append(commands, c)
    /\ UNCHANGED <<process, seeded, paused, running, loop, writes, panel, muddled>>

\* blpop: what is taken is gone from Redis.
LoopTakes ==
    /\ loop = "waiting" /\ commands # <<>>
    /\ loop' = Head(commands)
    /\ commands' = Tail(commands)
    /\ UNCHANGED <<process, seeded, paused, running, writes, panel, muddled>>

\* blpop stands outside the try: an error of Redis is the end of the loop.
LoopDies ==
    /\ loop = "waiting"
    /\ loop' = "dead"
    /\ UNCHANGED <<process, seeded, paused, running, commands, writes, panel, muddled>>

\* Mutant: the state as it was before the command.
PausedAfterStale(c) == paused

\* job.modify gives a paused job a next run time again.
PausedAfter(c) == c = "pause"

\* The command is carried out and the state written, by the loop itself.
LoopExecutes ==
    /\ loop \in Command /\ Len(writes) < MaxWrites
    /\ paused' = (loop = "pause")
    /\ LET status == CASE loop = "pause" -> "paused" [] loop = "resume" -> "scheduled"
                       [] loop = "run_now" -> "queued"
       IN  writes' = Append(writes, [StateNow(status, PausedAfter(loop), "live") EXCEPT !.own = TRUE])
    /\ loop' = "writing"
    /\ UNCHANGED <<process, seeded, running, commands, panel, muddled>>

------------------------------------------------------------------------------
SchedulerInit ==
    /\ process = "down" /\ seeded = FALSE
    /\ paused = FALSE /\ running = FALSE
    /\ loop = "none" /\ commands = <<>> /\ writes = <<>>
    /\ panel = Unwritten /\ muddled = FALSE

SchedulerNext ==
    \/ ProcessStarts \/ Seed \/ SchedulerStarts \/ ProcessEnds
    \/ JobRuns \/ LoopTakes \/ LoopDies \/ LoopExecutes
    \/ \E status \in {"success", "missed"} : JobEvent(status)
    \/ \E i \in DOMAIN writes : WriteDone(i) \/ WriteFails(i)
    \/ \E c \in Command : SchedulerCommand(c)

SchedulerSpec == SchedulerInit /\ [][SchedulerNext]_schedulerVars

------------------------------------------------------------------------------
(* Properties *)

\* Once everything under way is written, the panel shows the job paused exactly
\* when it is, whatever commands and runs overlapped; unless the state was written
\* before the scheduler was started or by an earlier process, or a write failed or
\* was overtaken by a later one.
PanelShowsPausedTruly ==
    panel.by = "live" /\ writes = <<>> /\ ~muddled => panel.paused = paused

=============================================================================
