----------------------------- MODULE MCServices ------------------------------
(***************************************************************************)
(* The instance for what is done for a player or by the operators: trades,   *)
(* alerts, missions, registration, lessons, jobs, repairs, the panel and the *)
(* companion. These parts share no state with one another in the model: a    *)
(* behaviour chooses one of them at its start and stays in it, and the       *)
(* variables of the others keep their first values. The state space is the   *)
(* sum of those of the parts.                                                *)
(***************************************************************************)
EXTENDS Market, Alerts, Missions, Onboarding, Academy, Scheduler, Repairs, AdminPanel,
        Companion, TLC

CONSTANTS u1, u2, w1

VARIABLE part

Parts == {"market", "alerts", "missions", "onboarding", "academy", "scheduler", "repairs",
          "admin", "companion"}

MCModuleOf == <<1, 1, 2>>
MCQuestions == <<2, 1, 1>>
MCXpFor == <<0, 2, 3>>
MCBounds ==
    {[presses |-> 2, settings |-> {}, names |-> Twins],
     [presses |-> 0, settings |-> {w1}, names |-> Twins],
     [presses |-> 0, settings |-> {}, names |-> Name]}

\* The part p stays, and every other part is left alone.
Alone(p) ==
    /\ UNCHANGED part
    /\ IF p = "market" THEN TRUE ELSE UNCHANGED marketVars
    /\ IF p = "alerts" THEN TRUE ELSE UNCHANGED alertsVars
    /\ IF p = "missions" THEN TRUE ELSE UNCHANGED missionVars
    /\ IF p = "onboarding" THEN TRUE ELSE UNCHANGED onboardingVars
    /\ IF p = "academy" THEN TRUE ELSE UNCHANGED academyVars
    /\ IF p = "scheduler" THEN TRUE ELSE UNCHANGED schedulerVars
    /\ IF p = "repairs" THEN TRUE ELSE UNCHANGED repairVars
    /\ IF p = "admin" THEN TRUE ELSE UNCHANGED adminVars
    /\ IF p = "companion" THEN TRUE ELSE UNCHANGED companionVars

\* The first state of a part is fixed while another part is looked at.
PartsInit ==
    /\ part \in Parts
    /\ MarketInit /\ AlertsInit /\ MissionsInit /\ OnboardingInit /\ AcademyInit
    /\ SchedulerInit /\ RepairsInit /\ AdminInit /\ CompanionInit
    /\ part # "alerts" => price = 1
    /\ part # "onboarding" => bound.presses > 0
    /\ part # "companion" => usable

PartsNext ==
    \/ part = "market"     /\ MarketNext /\ Alone("market")
    \/ part = "alerts"     /\ AlertsNext /\ Alone("alerts")
    \/ part = "missions"   /\ MissionsNext /\ Alone("missions")
    \/ part = "onboarding" /\ OnboardingNext /\ Alone("onboarding")
    \/ part = "academy"    /\ AcademyNext /\ Alone("academy")
    \/ part = "scheduler"  /\ SchedulerNext /\ Alone("scheduler")
    \/ part = "repairs"    /\ RepairsNext /\ Alone("repairs")
    \/ part = "admin"      /\ AdminNext /\ Alone("admin")
    \/ part = "companion"  /\ CompanionNext /\ Alone("companion")

PartsSpec ==
    PartsInit /\ [][PartsNext]_<<part, marketVars, alertsVars, missionVars,
        onboardingVars, academyVars, schedulerVars, repairVars, adminVars, companionVars>>

=============================================================================
