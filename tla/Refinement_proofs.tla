-------------------------- MODULE Refinement_proofs --------------------------
(***************************************************************************)
(* Without the admin panel's override, users.home_nation_id mirrors the     *)
(* active membership, so a user has one citizenship at most, and the bot    *)
(* implements the abstract Citizenship.                                     *)
(***************************************************************************)
EXTENDS Citizenship_proofs

USE Nations

AbstractStep == [Abstract!CitizenshipNext]_(Abstract!citizenshipVars)

(* The four ways a step can treat citizenships. *)
LEMMA CitizensUntouched ==
    ASSUME HomeMirrorsMembership, UNCHANGED <<home, activeIn, nationState>>
    PROVE  HomeMirrorsMembership' /\ AbstractStep
BY DEF HomeMirrorsMembership, AbstractStep, Abstract!citizenshipVars

LEMMA CitizenJoins ==
    ASSUME TypeOK, HomeMirrorsMembership, NEW u \in User, NEW n \in Nation,
           nationState[n] # "absent", IndexAllows(u, n),
           activeIn' = [activeIn EXCEPT ![u] = {n}],
           home' = [home EXCEPT ![u] = n],
           UNCHANGED nationState
    PROVE  HomeMirrorsMembership' /\ AbstractStep
<1>1. ASSUME NEW v \in User
      PROVE  activeIn'[v] = IF home'[v] = NoNation THEN {} ELSE {home'[v]}
    <2>1. CASE v = u
        BY <2>1, SortsAssumption DEF TypeOK
    <2>2. CASE v # u
        <3>1. activeIn'[v] = activeIn[v] /\ home'[v] = home[v]
            BY <2>2 DEF TypeOK
        <3>. QED BY <3>1 DEF HomeMirrorsMembership
    <2>. QED BY <2>1, <2>2
<1>2. home[u] = NoNation \/ home[u] = n
    BY DEF HomeMirrorsMembership, IndexAllows
<1>3. CASE home[u] = n
    <2>1. home' = home
        BY <1>3 DEF TypeOK
    <2>. QED BY <1>1, <2>1 DEF AbstractStep, Abstract!citizenshipVars, HomeMirrorsMembership
<1>4. CASE home[u] = NoNation
    <2>1. Abstract!Become(u, n)
        BY <1>4 DEF Abstract!Become
    <2>. QED BY <1>1, <2>1 DEF AbstractStep, Abstract!CitizenshipNext, HomeMirrorsMembership
<1>. QED BY <1>2, <1>3, <1>4

LEMMA CitizenLeaves ==
    ASSUME TypeOK, HomeMirrorsMembership, NEW u \in User, NEW n \in Nation,
           activeIn' = [activeIn EXCEPT ![u] = @ \ {n}],
           home' = [home EXCEPT ![u] = IF @ = n THEN NoNation ELSE @],
           UNCHANGED nationState
    PROVE  HomeMirrorsMembership' /\ AbstractStep
<1>1. ASSUME NEW v \in User
      PROVE  activeIn'[v] = IF home'[v] = NoNation THEN {} ELSE {home'[v]}
    <2>0. activeIn[v] = IF home[v] = NoNation THEN {} ELSE {home[v]}
        BY DEF HomeMirrorsMembership
    <2>1. CASE v = u
        <3>1. activeIn'[u] = activeIn[u] \ {n}
            BY DEF TypeOK
        <3>2. home'[u] = IF home[u] = n THEN NoNation ELSE home[u]
            BY DEF TypeOK
        <3>. QED BY <2>0, <2>1, <3>1, <3>2
    <2>2. CASE v # u
        <3>1. activeIn'[v] = activeIn[v] /\ home'[v] = home[v]
            BY <2>2 DEF TypeOK
        <3>. QED BY <2>0, <3>1
    <2>. QED BY <2>1, <2>2
<1>2. CASE home[u] # n
    <2>1. home' = home
        BY <1>2 DEF TypeOK
    <2>. QED BY <1>1, <2>1 DEF AbstractStep, Abstract!citizenshipVars, HomeMirrorsMembership
<1>3. CASE home[u] = n
    <2>1. home' = [home EXCEPT ![u] = NoNation] /\ home[u] # NoNation
        BY <1>3, SortsAssumption
    <2>2. Abstract!Cease(u)
        BY <2>1 DEF Abstract!Cease
    <2>. QED BY <1>1, <2>2 DEF AbstractStep, Abstract!CitizenshipNext, HomeMirrorsMembership
<1>. QED BY <1>2, <1>3

LEMMA CitizenEnrolled ==
    ASSUME TypeOK, HomeMirrorsMembership, NEW u \in User, NEW n \in Nation,
           nationState[n] # "absent", IndexAllows(u, n), Enroll(u, n), UNCHANGED nationState
    PROVE  HomeMirrorsMembership' /\ AbstractStep
<1>1. home[u] = NoNation \/ home[u] = n
    BY DEF HomeMirrorsMembership, IndexAllows
<1>2. home' = [home EXCEPT ![u] = n]
    BY <1>1 DEF TypeOK, Enroll
<1>3. activeIn' = [activeIn EXCEPT ![u] = {n}]
    BY DEF Enroll
<1>. QED BY <1>2, <1>3, CitizenJoins

LEMMA CitizenSynced ==
    ASSUME TypeOK, HomeMirrorsMembership, NEW u \in User, NEW n \in Human, NEW s \in Status,
           SyncAllowed(u, n, s), SyncMembership(u, n, s), UNCHANGED nationState
    PROVE  HomeMirrorsMembership' /\ AbstractStep
<1>1. CASE UNCHANGED gameVars
    BY <1>1, CitizensUntouched DEF gameVars
<1>2. CASE s = "member" /\ u \in registered /\ Enroll(u, n)
    <2>1. n \in Nation /\ nationState[n] # "absent" /\ IndexAllows(u, n)
        BY <1>2 DEF SyncAllowed
    <2>. QED BY <1>2, <2>1, CitizenEnrolled
<1>3. CASE Expel(u, n, s)
    <2>1. CASE home[u] # n
        <3>1. home' = home
            BY <1>3, <2>1 DEF Expel, TypeOK
        <3>2. home' = [home EXCEPT ![u] = IF @ = n THEN NoNation ELSE @]
            BY <2>1, <3>1 DEF TypeOK
        <3>3. activeIn' = [activeIn EXCEPT ![u] = @ \ {n}]
            BY <1>3 DEF Expel
        <3>. QED BY <3>2, <3>3, CitizenLeaves
    <2>2. CASE home[u] = n
        <3>1. activeIn[u] = {n}
            BY <2>2, SortsAssumption DEF HomeMirrorsMembership
        <3>2. Fallback(u, n) = {}
            BY <3>1 DEF Fallback
        <3>3. home' = [home EXCEPT ![u] = IF @ = n THEN NoNation ELSE @]
            BY <1>3, <2>2, <3>2 DEF Expel
        <3>4. activeIn' = [activeIn EXCEPT ![u] = @ \ {n}]
            BY <1>3 DEF Expel
        <3>. QED BY <3>3, <3>4, CitizenLeaves
    <2>. QED BY <2>1, <2>2
<1>. QED BY <1>1, <1>2, <1>3 DEF SyncMembership, SyncActive, SyncInactive

(* A nation is founded by a user without one, and dissolved with its citizens. *)
LEMMA NationFounded ==
    ASSUME TypeOK, HomeMirrorsMembership, NEW u \in User, NEW n \in Human, CreateNation(u, n)
    PROVE  HomeMirrorsMembership' /\ AbstractStep
<1>1. home[u] = NoNation
    BY DEF CreateNation, FoundingWrites, HomeMirrorsMembership
<1>2. /\ nationState[n] = "absent"
      /\ home' = [home EXCEPT ![u] = n] /\ activeIn' = [activeIn EXCEPT ![u] = {n}]
      /\ nationState' = [nationState EXCEPT ![n] = "active"]
    BY DEF CreateNation, FoundingWrites
<1>3. Abstract!Found(u, n)
    BY <1>1, <1>2 DEF Abstract!Found
<1>4. AbstractStep
    BY <1>3 DEF AbstractStep, Abstract!CitizenshipNext
<1>5. ASSUME NEW v \in User
      PROVE  activeIn'[v] = IF home'[v] = NoNation THEN {} ELSE {home'[v]}
    <2>1. CASE v = u
        BY <1>2, <2>1, SortsAssumption DEF TypeOK
    <2>2. CASE v # u
        <3>1. activeIn'[v] = activeIn[v] /\ home'[v] = home[v]
            BY <1>2, <2>2 DEF TypeOK
        <3>. QED BY <3>1 DEF HomeMirrorsMembership
    <2>. QED BY <2>1, <2>2
<1>. QED BY <1>4, <1>5 DEF HomeMirrorsMembership

LEMMA NationDissolved ==
    ASSUME TypeOK, NoPartialCitizenship, HomeMirrorsMembership, NEW u \in User, DissolveCommit(u)
    PROVE  HomeMirrorsMembership' /\ AbstractStep
<1>. DEFINE n == op[u].nation
<1>0. n \in Nation
    BY OpMoves DEF DissolveCommit, Op
<1>1. CASE UNCHANGED <<gameVars, count, nationState>>
    BY <1>1, CitizensUntouched DEF gameVars
<1>2. CASE nationState[n] = "active"
    <2>1. /\ home' = [t \in User |-> IF t \in Citizens(n) THEN NoNation ELSE home[t]]
          /\ activeIn' = [t \in User |-> IF t \in Citizens(n) THEN activeIn[t] \ {n}
                                                              ELSE activeIn[t]]
          /\ nationState' = [nationState EXCEPT ![n] = "dissolved"]
        BY <1>2 DEF DissolveCommit
    <2>. HIDE DEF n
    <2>2. \A t \in User : t \in Citizens(n) <=> home[t] = n
        <3>1. ASSUME NEW t \in User PROVE n \in activeIn[t] <=> home[t] = n
            BY <1>0, SortsAssumption DEF HomeMirrorsMembership
        <3>2. ASSUME NEW t \in User, n \in activeIn[t] PROVE t \in registered
            BY <3>2 DEF NoPartialCitizenship
        <3>3. registered \subseteq User
            BY DEF TypeOK
        <3>. QED BY <3>1, <3>2, <3>3 DEF Citizens
    <2>3. home' = [t \in User |-> IF home[t] = n THEN NoNation ELSE home[t]]
        BY <2>1, <2>2
    <2>4. Abstract!Dissolve(n)
        BY <1>2, <2>1, <2>3 DEF Abstract!Dissolve
    <2>5. AbstractStep
        BY <1>0, <2>4 DEF AbstractStep, Abstract!CitizenshipNext
    <2>6. ASSUME NEW t \in User
          PROVE  activeIn'[t] = IF home'[t] = NoNation THEN {} ELSE {home'[t]}
        <3>1. activeIn[t] = IF home[t] = NoNation THEN {} ELSE {home[t]}
            BY DEF HomeMirrorsMembership
        <3>2. CASE home[t] = n
            BY <1>0, <2>1, <2>2, <3>1, <3>2, SortsAssumption
        <3>3. CASE home[t] # n
            BY <2>1, <2>2, <3>1, <3>3
        <3>. QED BY <3>2, <3>3
    <2>. QED BY <2>5, <2>6 DEF HomeMirrorsMembership
<1>. QED BY <1>1, <1>2 DEF DissolveCommit

(* Every step keeps the mirror and is a step of the abstraction or a stutter. *)
LEMMA MirrorStep ==
    ASSUME "admin_home" \notin Features
    PROVE  CitizenshipInv /\ HomeMirrorsMembership /\ [Next]_vars
               => HomeMirrorsMembership' /\ AbstractStep
<1>. SUFFICES ASSUME CitizenshipInv, HomeMirrorsMembership, [Next]_vars
              PROVE  HomeMirrorsMembership' /\ AbstractStep
    OBVIOUS
<1>0. TypeOK /\ RowsInv /\ HandlersInv /\ NoPartialCitizenship
    BY DEF CitizenshipInv, RowsInv
<1>. DEFINE Good == HomeMirrorsMembership' /\ AbstractStep
<1>1. UNCHANGED <<home, activeIn, nationState>> => Good
    BY CitizensUntouched
<1>. HIDE DEF Good
<1>. USE DEF gameVars, nationVars
<1>2. ASSUME NEW e \in inflight, NEW again \in BOOLEAN, HandleChatMember(e, again) PROVE Good
    <2>1. e.user \in User /\ e.nation \in Human /\ e.status \in Status
        BY <1>0 DEF TypeOK, Update
    <2>2. /\ SyncAllowed(e.user, e.nation, e.status)
          /\ SyncMembership(e.user, e.nation, e.status)
          /\ UNCHANGED nationState
        BY <1>2 DEF HandleChatMember
    <2>. QED BY <1>0, <2>1, <2>2, CitizenSynced DEF Good
<1>3. ASSUME NEW u \in User, SyncWrite(u) PROVE Good
    <2>1. CASE UNCHANGED gameVars
        BY <1>1, <1>3, <2>1 DEF SyncWrite
    <2>2. ASSUME NEW n \in op[u].rows, IndexAllows(u, n), Enroll(u, n) PROVE Good
        <3>1. n \in Nation
            BY <1>0, OpMoves DEF Op
        <3>2. nationState[n] # "absent"
            BY <1>0 DEF HandlersInv, KnownToHandlers
        <3>3. UNCHANGED nationState
            BY <1>3 DEF SyncWrite
        <3>. QED BY <1>0, <2>2, <3>1, <3>2, <3>3, CitizenEnrolled DEF Good
    <2>. QED BY <1>3, <2>1, <2>2 DEF SyncWrite
<1>4. ASSUME NEW u \in User, JoinCommit(u) PROVE Good
    <2>1. CASE UNCHANGED <<gameVars, proj, count>>
        BY <1>1, <1>4, <2>1 DEF JoinCommit
    <2>2. CASE SyncAllowed(u, op[u].nation, "member") /\ SyncActive(u, op[u].nation)
        <3>1. op[u].nation \in Human
            BY <1>0, <1>4, OpMoves DEF JoinCommit, Op
        <3>2. SyncMembership(u, op[u].nation, "member") /\ "member" \in Status
            BY <2>2 DEF SyncMembership, Status
        <3>3. UNCHANGED nationState
            BY <1>4 DEF JoinCommit
        <3>. QED BY <1>0, <2>2, <3>1, <3>2, <3>3, CitizenSynced DEF Good
    <2>. QED BY <1>4, <2>1, <2>2 DEF JoinCommit
<1>5. ASSUME NEW u \in User, NEW n \in AI, JoinAI(u, n) PROVE Good
    <2>1. /\ n \in Nation /\ nationState[n] # "absent" /\ IndexAllows(u, n)
          /\ activeIn' = [activeIn EXCEPT ![u] = {n}] /\ home' = [home EXCEPT ![u] = n]
          /\ UNCHANGED nationState
        BY <1>5 DEF JoinAI, IndexAllows
    <2>. QED BY <1>0, <2>1, CitizenJoins DEF Good
<1>6. ASSUME NEW u \in User, KickCommit(u) PROVE Good
    <2>. DEFINE n == op[u].nation
                t == op[u].target
    <2>0. n \in Nation /\ t \in User
        BY <1>0, <1>6, OpMoves DEF KickCommit, Op, Kicking
    <2>1. CASE UNCHANGED <<gameVars, count>>
        BY <1>1, <1>6, <2>1 DEF KickCommit
    <2>2. CASE n \in activeIn[t]
        <3>1. /\ activeIn' = [activeIn EXCEPT ![t] = @ \ {n}]
              /\ home' = [home EXCEPT ![t] = NoNation]
              /\ UNCHANGED nationState
            BY <1>6, <2>2 DEF KickCommit
        <3>. HIDE DEF n, t
        <3>2. home[t] = n
            BY <2>0, <2>2 DEF HomeMirrorsMembership
        <3>3. home' = [home EXCEPT ![t] = IF @ = n THEN NoNation ELSE @]
            BY <3>1, <3>2
        <3>. QED BY <1>0, <2>0, <3>1, <3>3, CitizenLeaves DEF Good
    <2>. QED BY <1>6, <2>1, <2>2 DEF KickCommit
<1>7. ASSUME NEW u \in User, NEW n \in Nation, RepairMembership(u, n) PROVE Good
    <2>1. nationState[n] # "absent"
        BY <1>0, <1>7, RepairFacts DEF RepairMembership
    <2>2. /\ IndexAllows(u, n)
          /\ activeIn' = [activeIn EXCEPT ![u] = {n}] /\ home' = [home EXCEPT ![u] = n]
          /\ UNCHANGED nationState
        BY <1>7 DEF RepairMembership
    <2>. QED BY <1>0, <2>1, <2>2, CitizenJoins DEF Good
<1>8. ASSUME NEW u \in User, NEW n \in Nation, n \in activeIn[u] PROVE home[u] = n
    BY <1>8 DEF HomeMirrorsMembership
<1>9. ASSUME NEW u \in User, NEW n \in Nation, PointHome(u, n) \/ ChangeHome(u, n) PROVE Good
    <2>1. home[u] = n
        BY <1>8, <1>9 DEF PointHome, ChangeHome
    <2>2. home' = [home EXCEPT ![u] = n] /\ UNCHANGED <<activeIn, nationState>>
        BY <1>9 DEF PointHome, ChangeHome
    <2>3. UNCHANGED home
        BY <1>0, <2>1, <2>2 DEF TypeOK
    <2>. QED BY <1>1, <2>2, <2>3
<1>10. CASE TelegramNext
    BY <1>1, <1>2, <1>10 DEF TelegramNext, TelegramChange, DropChatMember, Good
<1>11. CASE JoinNext
    <2>1. ASSUME NEW u \in User, NEW n \in Human, CreateNation(u, n) PROVE Good
        BY <1>0, <2>1, NationFounded DEF Good
    <2>2. ASSUME NEW u \in User,
                 RegisterUser(u) \/ SyncRead(u) \/ RegisterWithoutSync(u)
                 \/ \E n \in Human : JoinLookup(u, n)
          PROVE  Good
        BY <1>1, <2>2 DEF RegisterUser, SyncRead, RegisterWithoutSync, JoinLookup
    <2>. QED BY <1>3, <1>4, <1>5, <1>11, <2>1, <2>2 DEF JoinNext, Good
<1>12. CASE ManageNext
    <2>1. ASSUME NEW u \in User, DissolveCommit(u) PROVE Good
        BY <1>0, <2>1, NationDissolved DEF Good
    <2>2. ASSUME NEW u \in User, RoleCommit(u) PROVE Good
        BY <1>1, <2>2 DEF RoleCommit
    <2>. QED BY <1>1, <1>6, <1>12, <2>1, <2>2
             DEF ManageNext, KickRead, RoleRead, DissolveRead, KickCheck, TelegramBan, TelegramUnban,
                 Good
<1>13. CASE AccountNext
    <2>1. ~RepairScript /\ \A u \in User, n \in Nation \cup {NoNation} : ~AdminSetHome(u, n)
        BY DEF RepairScript, AdminSetHome
    <2>2. ASSUME NEW u \in User, NEW n \in Nation, BuyCurrency(u, n) \/ SellCurrency(u, n)
          PROVE  Good
        BY <1>1, <2>2 DEF BuyCurrency, SellCurrency
    <2>. QED BY <1>7, <1>9, <1>13, <2>1, <2>2 DEF AccountNext, Good
<1>14. CASE SystemNext
    BY <1>1, <1>14 DEF SystemNext, ReconcileRead, ReconcileWrite, RateRead,
        RateWrite, Restart, Good
<1>15. CASE UNCHANGED vars
    BY <1>1, <1>15 DEF vars, Good
<1>. QED BY <1>10, <1>11, <1>12, <1>13, <1>14, <1>15 DEF Next, Good

LEMMA InitMirror == Init => HomeMirrorsMembership /\ Abstract!CitizenshipInit
<1>. SUFFICES ASSUME Init PROVE HomeMirrorsMembership /\ Abstract!CitizenshipInit
    OBVIOUS
<1>0. TypeOK
    BY InitType
<1>1. ASSUME NEW u \in User
      PROVE  \/ InitiallyHome(u) = {} /\ home[u] = NoNation
             \/ home[u] \in Human /\ InitiallyHome(u) = {home[u]}
    <2>1. CASE InitiallyHome(u) = {}
        BY <2>1 DEF Init
    <2>2. CASE InitiallyHome(u) # {}
        <3>1. home[u] \in InitiallyHome(u)
            BY <2>2 DEF Init
        <3>2. \A n \in InitiallyHome(u) : n = home[u]
            BY <3>1, FoundersAssumption, SortsAssumption DEF InitiallyHome
        <3>. QED BY <3>1, <3>2 DEF InitiallyHome
    <2>. QED BY <2>1, <2>2
<1>2. HomeMirrorsMembership
    <2>1. \A u \in User : activeIn[u] = InitiallyHome(u)
        BY DEF Init
    <2>. QED BY <1>1, <2>1, SortsAssumption DEF HomeMirrorsMembership
<1>3. ASSUME NEW u \in User, home[u] # NoNation PROVE nationState[home[u]] = "active"
    <2>1. home[u] \in Human /\ InitialFounder[home[u]] = u
        BY <1>1, <1>3 DEF InitiallyHome
    <2>. QED BY <2>1, SortsAssumption DEF Init
<1>4. nationState \in [Nation -> {"absent", "active"}]
    BY DEF Init
<1>. QED BY <1>0, <1>2, <1>3, <1>4 DEF Abstract!CitizenshipInit, TypeOK

(* The SYNC RULE: as long as nobody uses the admin panel's override, the home  *)
(* pointer of every user is their one active membership, or NULL.              *)
THEOREM MirrorKept ==
    ASSUME "admin_home" \notin Features PROVE Spec => []HomeMirrorsMembership
<1>1. CitizenshipInv /\ HomeMirrorsMembership /\ [Next]_vars => HomeMirrorsMembership'
    BY MirrorStep
<1>2. Init => HomeMirrorsMembership
    BY InitMirror
<1>. QED BY <1>1, <1>2, CitizenshipInvariant, PTL DEF Spec

(* The bot implements Citizenship: nobody is moved between nations without     *)
(* leaving the first, nobody keeps a nation that is dissolved under them, and  *)
(* only a user without a nation founds one.                                    *)
THEOREM Implementation ==
    ASSUME "admin_home" \notin Features PROVE Spec => ImplementsCitizenship
<1>1. CitizenshipInv /\ HomeMirrorsMembership /\ [Next]_vars => AbstractStep
    BY MirrorStep
<1>2. Init => Abstract!CitizenshipInit
    BY InitMirror
<1>. QED BY <1>1, <1>2, CitizenshipInvariant, MirrorKept, PTL
         DEF Spec, ImplementsCitizenship, Abstract!CitizenshipSpec, AbstractStep

=============================================================================
