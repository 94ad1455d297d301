------------------------------ MODULE Repairs ------------------------------
(*****************************************************************************)
(* The two agents that change the program's own repository: Owner AI, at the *)
(* owner's request, and the support's code repair. Each run reads files of   *)
(* main, makes a branch, writes whole files, waits for CI and merges. A file *)
(* is the set of changes it has, and every run makes one change of its own;  *)
(* what a model answers keeps the changes that it was shown. A long file is  *)
(* shown cut, and a file that was not shown at all can be written as well.   *)
(*****************************************************************************)
EXTENDS Integers, FiniteSets

CONSTANTS
    OwnerRun,       \* requests of the owner; several can run at a time
    SupportRun,     \* reports that call for a repair; _REPAIR_LOCK admits one
    People,         \* the change that somebody else pushes to main
    MaxTries        \* bound: commits of one run (MAX_PLAN_ROUNDS, DEFAULT_REPAIR_ATTEMPTS)

ASSUME RepairsAssumption ==
    /\ OwnerRun \cap SupportRun = {} /\ People \notin OwnerRun \cup SupportRun
    /\ "none" \notin OwnerRun \cup SupportRun \cup {People}
    /\ MaxTries \in Nat \ {0}

VARIABLES
    main,           \* the changes that main has
    lost,           \* history: the changes that main had and lost
    deployed,       \* those of the program that runs
    phase,          \* run -> "idle", "planning", "patching", "waiting" or "over"
    read,           \* run -> the changes in the files it was shown
    base,           \* run -> main when its branch was made
    head,           \* run -> the changes in its branch
    tries,          \* run -> commits
    ci,             \* run -> CI's verdict on the branch's head
    cut             \* history: the runs that were shown less than there was

repairVars == <<main, lost, deployed, phase, read, base, head, tries, ci, cut>>

Run == OwnerRun \cup SupportRun

NoBranch == {"none"}

Set(f, r, v) == [f EXCEPT ![r] = v]

\* GitHub's three-way merge of a branch that was made from b and has h now into m.
Merged(b, h, m) == (m \ (b \ h)) \cup (h \ b)

\* r reads files; it may be shown them cut, or some of them not at all.
Reads(r, files) ==
    \E shown \in SUBSET files :
        /\ read' = Set(read, r, shown)
        /\ cut' = IF shown = files THEN cut ELSE cut \cup {r}

\* A commit on the branch, and the pull request, of which CI has seen nothing yet.
Commits(r, files) ==
    /\ head' = Set(head, r, files)
    /\ ci' = Set(ci, r, "none")
    /\ tries' = Set(tries, r, tries[r] + 1)
    /\ phase' = Set(phase, r, "waiting")

------------------------------------------------------------------------------
(* Owner AI: it reads first, and makes the branch when it has something to write. *)

\* run_owner_ai up to the first plan: the files that the request seems to need.
OwnerStarts(r) ==
    /\ r \in OwnerRun /\ phase[r] = "idle"
    /\ phase' = Set(phase, r, "planning") /\ Reads(r, main)
    /\ UNCHANGED <<main, lost, deployed, base, head, tries, ci>>

\* Files are read from main, or from the branch once there is one.
OwnerShown(r) == IF base[r] = NoBranch THEN main ELSE head[r]

\* inspect
OwnerInspects(r) ==
    /\ r \in OwnerRun /\ phase[r] = "planning"
    /\ Reads(r, OwnerShown(r))
    /\ UNCHANGED <<main, lost, deployed, phase, base, head, tries, ci>>

\* The whole files that the planner answers with.
OwnerFiles(r) == read[r] \cup {r}

\* modify: a branch of today's main, the whole files, a pull request.
OwnerModifies(r) ==
    /\ r \in OwnerRun /\ phase[r] = "planning" /\ tries[r] < MaxTries
    /\ base' = Set(base, r, IF base[r] = NoBranch THEN main ELSE base[r])
    /\ Commits(r, OwnerFiles(r))
    /\ UNCHANGED <<main, lost, deployed, read, cut>>

\* A failure, or no verdict in time, and the next round.
OwnerGoesOn(r) ==
    /\ r \in OwnerRun /\ phase[r] = "waiting" /\ ci[r] # "passed"
    /\ phase' = Set(phase, r, "planning")
    /\ UNCHANGED <<main, lost, deployed, read, base, head, tries, ci, cut>>

------------------------------------------------------------------------------
(* The support's repair: it makes the branch first, and reads then. *)

\* Mutant: the files are read before the branch is made.
BranchOfTries(r) == main

\* _base_ref and _create_branch stand before the first read.
BranchOf(r) == IF base[r] = NoBranch THEN main ELSE base[r]

\* repair_code up to its branch.
SupportStarts(r) ==
    /\ r \in SupportRun /\ phase[r] = "idle"
    /\ \A s \in SupportRun : phase[s] \in {"idle", "over"}
    /\ phase' = Set(phase, r, "planning") /\ base' = Set(base, r, BranchOf(r))
    /\ UNCHANGED <<main, lost, deployed, read, head, tries, ci, cut>>

\* Main at first, then the branch.
SupportShown(r) == IF tries[r] = 0 THEN main ELSE head[r]

\* The files the report names, and what they import.
SupportReads(r) ==
    /\ r \in SupportRun /\ phase[r] = "planning"
    /\ Reads(r, SupportShown(r))
    /\ phase' = Set(phase, r, "patching")
    /\ UNCHANGED <<main, lost, deployed, base, head, tries, ci>>

\* The whole files of _generate_patch.
SupportFiles(r) == read[r] \cup {r}

\* _prepare_changes, _apply_changes and the pull request.
SupportPatches(r) ==
    /\ r \in SupportRun /\ phase[r] = "patching" /\ tries[r] < MaxTries
    /\ base' = Set(base, r, BranchOf(r))
    /\ Commits(r, SupportFiles(r))
    /\ UNCHANGED <<main, lost, deployed, read, cut>>

SupportTriesAgain(r) ==
    /\ r \in SupportRun /\ phase[r] = "waiting" /\ ci[r] = "failed"
    /\ phase' = Set(phase, r, "planning")
    /\ UNCHANGED <<main, lost, deployed, read, base, head, tries, ci, cut>>

------------------------------------------------------------------------------
(* Both. *)

\* GitHub tries the pull request.
CiRuns(r, verdict) ==
    /\ phase[r] = "waiting" /\ ci[r] = "none"
    /\ ci' = Set(ci, r, verdict)
    /\ UNCHANGED <<main, lost, deployed, phase, read, base, head, tries, cut>>

\* _wait_for_ci: all runs of the branch's head are over, and none has failed.
Passed(r) == ci[r] = "passed"

\* _merge_pr, which names no commit: whatever main has become meanwhile. The run is over,
\* be it that the call's answer is lost and it says that main is as it was.
Merges(r) ==
    /\ phase[r] = "waiting" /\ Passed(r)
    /\ main' = Merged(base[r], head[r], main)
    /\ lost' = lost \cup (main \ main')
    /\ phase' = Set(phase, r, "over")
    /\ UNCHANGED <<deployed, read, base, head, tries, ci, cut>>

\* The merge is refused, for a conflict or for want of a right, or its call fails; too many
\* rounds, too late, an answer without a change, an error. Branch and pull request stay.
GivesUp(r) ==
    /\ phase[r] \in {"planning", "patching", "waiting"}
    /\ phase' = Set(phase, r, "over")
    /\ UNCHANGED <<main, lost, deployed, read, base, head, tries, ci, cut>>

\* Somebody pushes to main.
Pushed ==
    /\ People \notin main \cup lost
    /\ main' = main \cup {People}
    /\ UNCHANGED <<lost, deployed, phase, read, base, head, tries, ci, cut>>

\* Railway deploys main: the process ends with the runs that were under way in it.
Redeployed ==
    /\ main # deployed
    /\ deployed' = main
    /\ phase' = [r \in Run |-> IF phase[r] = "idle" THEN "idle" ELSE "over"]
    /\ UNCHANGED <<main, lost, read, base, head, tries, ci, cut>>

RepairsInit ==
    /\ main = {} /\ lost = {} /\ deployed = {}
    /\ phase = [r \in Run |-> "idle"] /\ read = [r \in Run |-> {}]
    /\ base = [r \in Run |-> NoBranch] /\ head = [r \in Run |-> NoBranch]
    /\ tries = [r \in Run |-> 0] /\ ci = [r \in Run |-> "none"] /\ cut = {}

RepairsNext ==
    \/ \E r \in Run :
        \/ OwnerStarts(r) \/ OwnerInspects(r) \/ OwnerModifies(r) \/ OwnerGoesOn(r)
        \/ SupportStarts(r) \/ SupportReads(r) \/ SupportPatches(r) \/ SupportTriesAgain(r)
        \/ (\E verdict \in {"passed", "failed"} : CiRuns(r, verdict))
        \/ Merges(r) \/ GivesUp(r)
    \/ Pushed \/ Redeployed

RepairsSpec == RepairsInit /\ [][RepairsNext]_repairVars

------------------------------------------------------------------------------
(* Properties *)

\* What has reached main is not lost, whichever runs and people change it at the
\* same time, except by a run that has not read it before it wrote: Owner AI, which
\* makes its branch after it has read, and takes out again what came to main in
\* between; and a run that was shown files cut, or wrote files it was not shown.
\* (lost is what main has had and lost already.)
LostOnlyUnread ==
    [][\A c \in main \ (main' \cup lost) :
          \E r \in OwnerRun \cup cut : phase[r] # phase'[r] /\ c \in base[r] \ read[r]]_repairVars

=============================================================================
