------------------------- MODULE Citizenship_proofs -------------------------
(***************************************************************************)
(* The rows that make a citizen stay whole and the founder stays the        *)
(* founder, under every handler. Whose citizenship of a group's nation the  *)
(* group backs, what a kick and a dissolution leave behind, and what goes   *)
(* over the limits of the roles; what needs some handlers out of use, or    *)
(* Telegram's order, says so.                                               *)
(***************************************************************************)
EXTENDS Membership_proofs

USE Nations

(* No step unmakes a nation or gives an existing one another founder. *)
NationsKept ==
    \A n \in Nation : nationState[n] # "absent" =>
        nationState'[n] # "absent" /\ founder'[n] = founder[n]

(* What a step that does not touch the rows' variables keeps. *)
rowsVars == <<activeIn, memberRole, holding, nationState, founder>>

LEMMA RowsUntouched ==
    ASSUME RowsInv, UNCHANGED rowsVars, registered \subseteq registered'
    PROVE  RowsInv'
BY DEF RowsInv, rowsVars, NoPartialCitizenship, FounderRole, FounderStanding,
       OneNationPerFounder

(* One user's citizenship of n is written, with a role and a wallet, and the  *)
(* role agrees with the founder of n.                                         *)
LEMMA RowsEnrolled ==
    ASSUME TypeOK, RowsInv, NEW u \in registered, NEW n \in Nation, NEW r \in MemberRole,
           nationState[n] # "absent",
           r = "founder" <=> founder[n] = u,
           activeIn' = [activeIn EXCEPT ![u] = {n}],
           memberRole' = [memberRole EXCEPT ![u][n] = r],
           holding' \in [User -> [Nation -> {"absent", "empty", "funded"}]],
           \A v \in User, m \in Nation : holding[v][m] # "absent" => holding'[v][m] # "absent",
           holding'[u][n] # "absent",
           UNCHANGED <<registered, nationState, founder>>
    PROVE  RowsInv'
<1>0. u \in User
    BY DEF TypeOK
<1>1. NoPartialCitizenship'
    <2>. SUFFICES ASSUME NEW v \in User, NEW m \in activeIn'[v]
                  PROVE  /\ v \in registered
                         /\ memberRole'[v][m] # "none"
                         /\ holding'[v][m] # "absent"
                         /\ nationState[m] # "absent"
        BY DEF NoPartialCitizenship
    <2>1. CASE v = u
        BY <1>0, <2>1 DEF TypeOK, MemberRole
    <2>2. CASE v # u
        <3>1. m \in activeIn[v] /\ m \in Nation
            BY <1>0, <2>2 DEF TypeOK
        <3>2. memberRole'[v][m] = memberRole[v][m]
            BY <1>0, <2>2, <3>1 DEF TypeOK
        <3>. QED BY <3>1, <3>2 DEF RowsInv, NoPartialCitizenship
    <2>. QED BY <2>1, <2>2
<1>2. FounderRole'
    <2>. SUFFICES ASSUME NEW v \in User, NEW m \in Nation
                  PROVE  memberRole'[v][m] = "founder" <=> founder[m] = v
        BY DEF FounderRole
    <2>1. CASE v = u /\ m = n
        BY <1>0, <2>1 DEF TypeOK
    <2>2. CASE ~(v = u /\ m = n)
        <3>1. memberRole'[v][m] = memberRole[v][m]
            BY <1>0, <2>2 DEF TypeOK
        <3>. QED BY <3>1 DEF RowsInv, FounderRole
    <2>. QED BY <2>1, <2>2
<1>3. FounderStanding'
    <2>. SUFFICES ASSUME NEW m \in Nation, founder[m] # NoUser
                  PROVE  /\ founder[m] \in registered
                         /\ holding'[founder[m]][m] # "absent"
                         /\ nationState[m] # "absent"
        BY DEF FounderStanding
    <2>1. founder[m] \in User
        BY DEF TypeOK
    <2>. QED BY <2>1 DEF RowsInv, FounderStanding
<1>4. OneNationPerFounder'
    BY DEF RowsInv, OneNationPerFounder
<1>. QED BY <1>1, <1>2, <1>3, <1>4 DEF RowsInv

(* Memberships only end, wallets only empty: nothing can go missing. *)
LEMMA RowsEnded ==
    ASSUME TypeOK, RowsInv,
           \A v \in User : activeIn'[v] \subseteq activeIn[v],
           \A v \in User, m \in Nation : holding[v][m] # "absent" => holding'[v][m] # "absent",
           \A m \in Nation : /\ nationState[m] # "absent" => nationState'[m] # "absent"
                             /\ nationState'[m] = "active" => nationState[m] = "active",
           UNCHANGED <<registered, memberRole, founder>>
    PROVE  RowsInv'
<1>1. NoPartialCitizenship'
    <2>. SUFFICES ASSUME NEW v \in User, NEW m \in activeIn'[v]
                  PROVE  /\ v \in registered
                         /\ memberRole[v][m] # "none"
                         /\ holding'[v][m] # "absent"
                         /\ nationState'[m] # "absent"
        BY DEF NoPartialCitizenship
    <2>1. m \in activeIn[v] /\ m \in Nation
        BY DEF TypeOK
    <2>. QED BY <2>1 DEF RowsInv, NoPartialCitizenship
<1>2. FounderRole'
    BY DEF RowsInv, FounderRole
<1>3. FounderStanding'
    <2>. SUFFICES ASSUME NEW m \in Nation, founder[m] # NoUser
                  PROVE  /\ founder[m] \in registered
                         /\ holding'[founder[m]][m] # "absent"
                         /\ nationState'[m] # "absent"
        BY DEF FounderStanding
    <2>1. founder[m] \in User
        BY DEF TypeOK
    <2>. QED BY <2>1 DEF RowsInv, FounderStanding
<1>4. OneNationPerFounder'
    BY DEF RowsInv, OneNationPerFounder
<1>. QED BY <1>1, <1>2, <1>3, <1>4 DEF RowsInv

(* Enrolment gives a user a whole citizenship. *)
LEMMA RowsEnroll ==
    ASSUME TypeOK, RowsInv, NEW u \in registered, NEW n \in Nation,
           nationState[n] # "absent", Enroll(u, n),
           UNCHANGED <<registered, nationState, founder>>
    PROVE  RowsInv'
<1>0. u \in User
    BY DEF TypeOK
<1>1. EnsuredRole(u, n) \in MemberRole
    BY <1>0 DEF TypeOK, EnsuredRole, MemberRole
<1>2. EnsuredRole(u, n) = "founder" <=> founder[n] = u
    BY <1>0 DEF EnsuredRole, RowsInv, FounderRole
<1>3. holding' \in [User -> [Nation -> {"absent", "empty", "funded"}]]
    BY <1>0, EnrollType
<1>4. /\ \A v \in User, m \in Nation : holding[v][m] # "absent" => holding'[v][m] # "absent"
      /\ holding'[u][n] # "absent"
    BY <1>0 DEF TypeOK, Enroll, Opened
<1>5. /\ activeIn' = [activeIn EXCEPT ![u] = {n}]
      /\ memberRole' = [memberRole EXCEPT ![u][n] = EnsuredRole(u, n)]
    BY DEF Enroll
<1>. QED BY <1>1, <1>2, <1>3, <1>4, <1>5, RowsEnrolled

LEMMA RowsSync ==
    ASSUME TypeOK, RowsInv, NEW u \in User, NEW n \in Human, NEW s \in Status,
           SyncAllowed(u, n, s), SyncMembership(u, n, s),
           UNCHANGED <<registered, nationState, founder>>
    PROVE  RowsInv'
<1>1. CASE UNCHANGED gameVars
    BY <1>1, RowsUntouched DEF rowsVars, gameVars
<1>2. CASE u \in registered /\ Enroll(u, n)
    <2>1. n \in Nation /\ nationState[n] # "absent"
        BY DEF SyncAllowed
    <2>. QED BY <1>2, <2>1, RowsEnroll
<1>3. CASE Expel(u, n, s)
    <2>1. \A v \in User : activeIn'[v] \subseteq activeIn[v]
        BY <1>3 DEF Expel, TypeOK
    <2>2. \A v \in User, m \in Nation : holding[v][m] # "absent" => holding'[v][m] # "absent"
        <3>1. PICK h : /\ h \in {holding[u][n], Liquidated(holding[u][n])}
                       /\ holding' = [holding EXCEPT ![u][n] = h]
            BY <1>3 DEF Expel
        <3>2. holding[u][n] # "absent" => h # "absent"
            BY <3>1 DEF Liquidated
        <3>3. holding \in [User -> [Nation -> {"absent", "empty", "funded"}]]
            BY DEF TypeOK
        <3>. QED BY <3>1, <3>2, <3>3
    <2>. QED BY <1>3, <2>1, <2>2, RowsEnded DEF Expel
<1>. QED BY <1>1, <1>2, <1>3 DEF SyncMembership, SyncActive, SyncInactive

(* Founding writes the first citizenship of a nation that had none. *)
LEMMA RowsFounded ==
    ASSUME TypeOK, RowsInv, NEW u \in registered, NEW n \in Human,
           nationState[n] = "absent",
           \A m \in Nation : ~(founder[m] = u /\ nationState[m] = "active"),
           nationState' = [nationState EXCEPT ![n] = "active"],
           founder' = [founder EXCEPT ![n] = u],
           holding' = [holding EXCEPT ![u][n] = "funded"],
           memberRole' = [memberRole EXCEPT ![u][n] = "founder"],
           activeIn' = [activeIn EXCEPT ![u] = {n}],
           UNCHANGED registered
    PROVE  RowsInv'
<1>a. u \in User /\ n \in Nation
    BY DEF TypeOK
<1>b. founder[n] = NoUser
    BY <1>a DEF RowsInv, FounderStanding
<1>0. u \in User /\ founder[n] = NoUser /\ n \in Nation
    BY <1>a, <1>b
<1>1. NoPartialCitizenship'
    <2>. SUFFICES ASSUME NEW v \in User, NEW m \in activeIn'[v]
                  PROVE  /\ v \in registered
                         /\ memberRole'[v][m] # "none"
                         /\ holding'[v][m] # "absent"
                         /\ nationState'[m] # "absent"
        BY DEF NoPartialCitizenship
    <2>1. CASE v = u
        <3>1. m = n
            BY <1>0, <2>1 DEF TypeOK
        <3>2. memberRole'[u][n] = "founder" /\ holding'[u][n] = "funded"
              /\ nationState'[n] = "active"
            BY <1>0 DEF TypeOK
        <3>. QED BY <2>1, <3>1, <3>2
    <2>2. CASE v # u
        <3>1. m \in activeIn[v] /\ m \in Nation
            BY <1>0, <2>2 DEF TypeOK
        <3>2. memberRole'[v][m] = memberRole[v][m] /\ holding'[v][m] = holding[v][m]
            BY <1>0, <2>2, <3>1 DEF TypeOK
        <3>3. nationState[m] # "absent" => nationState'[m] # "absent"
            BY <3>1 DEF TypeOK
        <3>. QED BY <3>1, <3>2, <3>3 DEF RowsInv, NoPartialCitizenship
    <2>. QED BY <2>1, <2>2
<1>2. FounderRole'
    <2>. SUFFICES ASSUME NEW v \in User, NEW m \in Nation
                  PROVE  memberRole'[v][m] = "founder" <=> founder'[m] = v
        BY DEF FounderRole
    <2>1. CASE m # n
        <3>1. memberRole'[v][m] = memberRole[v][m] /\ founder'[m] = founder[m]
            BY <1>0, <2>1 DEF TypeOK
        <3>. QED BY <3>1 DEF RowsInv, FounderRole
    <2>2. CASE m = n /\ v = u
        BY <1>0, <2>2 DEF TypeOK
    <2>3. CASE m = n /\ v # u
        <3>1. memberRole[v][n] # "founder"
            BY <1>0, SortsAssumption DEF RowsInv, FounderRole
        <3>. QED BY <1>0, <2>3, <3>1 DEF TypeOK
    <2>. QED BY <2>1, <2>2, <2>3
<1>3. FounderStanding'
    <2>. SUFFICES ASSUME NEW m \in Nation, founder'[m] # NoUser
                  PROVE  /\ founder'[m] \in registered
                         /\ holding'[founder'[m]][m] # "absent"
                         /\ nationState'[m] # "absent"
        BY DEF FounderStanding
    <2>1. CASE m = n
        BY <1>0, <2>1 DEF TypeOK
    <2>2. CASE m # n
        <3>1. founder'[m] = founder[m] /\ nationState'[m] = nationState[m]
            BY <2>2 DEF TypeOK
        <3>2. founder[m] \in User /\ holding'[founder[m]][m] = holding[founder[m]][m]
            BY <1>0, <2>2, <3>1 DEF TypeOK
        <3>. QED BY <3>1, <3>2 DEF RowsInv, FounderStanding
    <2>. QED BY <2>1, <2>2
<1>4. OneNationPerFounder'
    BY <1>0 DEF TypeOK, RowsInv, OneNationPerFounder
<1>. QED BY <1>1, <1>2, <1>3, <1>4 DEF RowsInv

(* An appointment changes the role of a member who is not the founder. *)
LEMMA RowsAppointed ==
    ASSUME TypeOK, RowsInv, NEW t \in User, NEW n \in Human, NEW r \in Appointable,
           memberRole[t][n] # "founder",
           memberRole' = [memberRole EXCEPT ![t][n] = r],
           UNCHANGED <<registered, activeIn, holding, nationState, founder>>
    PROVE  RowsInv'
<1>0. /\ memberRole'[t][n] = r
      /\ \A v \in User, m \in Nation :
             ~(v = t /\ m = n) => memberRole'[v][m] = memberRole[v][m]
    BY DEF TypeOK
<1>1. NoPartialCitizenship'
    <2>1. \A v \in User : activeIn[v] \subseteq Nation
        BY DEF TypeOK
    <2>. QED BY <1>0, <2>1 DEF RowsInv, NoPartialCitizenship, Appointable
<1>2. FounderRole'
    BY <1>0 DEF RowsInv, FounderRole, Appointable
<1>3. FounderStanding' /\ OneNationPerFounder'
    BY DEF RowsInv, FounderStanding, OneNationPerFounder
<1>. QED BY <1>1, <1>2, <1>3 DEF RowsInv

(* What the resolver repairs: the target is live, the user has a wallet there, *)
(* and gets the founder's role exactly in a nation of their own.               *)
LEMMA RepairFacts ==
    ASSUME TypeOK, RowsInv, NEW u \in User, NEW n \in Nation, n \in RepairTargets(u)
    PROVE  /\ nationState[n] # "absent"
           /\ holding[u][n] # "absent"
           /\ RepairRole(u) = "founder" <=> founder[n] = u
<1>0. u # NoUser
    BY SortsAssumption
<1>1. CASE ResolveCase(u) = "home founder"
    <2>1. n = home[u] /\ RepairRole(u) = "founder"
        BY <1>1 DEF RepairTargets, RepairRole
    <2>2. LiveHome(u) /\ founder[home[u]] = u
        BY <1>1 DEF ResolveCase
    <2>. QED BY <1>0, <2>1, <2>2 DEF LiveHome, RowsInv, FounderStanding
<1>2. CASE ResolveCase(u) = "home wallet"
    <2>1. n = home[u] /\ RepairRole(u) = "citizen"
        BY <1>2 DEF RepairTargets, RepairRole
    <2>2. LiveHome(u) /\ founder[home[u]] # u /\ holding[u][home[u]] # "absent"
        BY <1>2 DEF ResolveCase
    <2>. QED BY <2>1, <2>2 DEF LiveHome
<1>3. CASE ResolveCase(u) = "founded"
    <2>1. n \in LiveFounded(u) /\ RepairRole(u) = "founder"
        BY <1>3 DEF RepairTargets, RepairRole
    <2>. QED BY <1>0, <2>1 DEF LiveFounded, RowsInv, FounderStanding
<1>4. CASE ResolveCase(u) = "wallet"
    <2>1. n \in LiveWallets(u) /\ RepairRole(u) = "citizen"
        BY <1>4 DEF RepairTargets, RepairRole
    <2>2. n \notin LiveFounded(u)
        BY <1>4 DEF ResolveCase
    <2>. QED BY <2>1, <2>2 DEF LiveWallets, LiveFounded
<1>. QED BY <1>1, <1>2, <1>3, <1>4 DEF RepairTargets

(* The rows survive every step. *)
LEMMA RowsStep == CitizenshipInv /\ [Next]_vars => RowsInv'
<1>. SUFFICES ASSUME CitizenshipInv, [Next]_vars PROVE RowsInv'
    OBVIOUS
<1>. USE DEF telegramVars, nationVars, gameVars
<1>0. TypeOK /\ RowsInv /\ HandlersInv
    BY DEF CitizenshipInv
<1>1. CASE TelegramNext
    <2>1. ASSUME NEW u \in User, NEW n \in Human, NEW s \in Status, TelegramChange(u, n, s)
          PROVE  RowsInv'
        BY <1>0, <2>1, RowsUntouched DEF TelegramChange, rowsVars
    <2>2. ASSUME NEW e \in inflight, NEW again \in BOOLEAN, HandleChatMember(e, again)
          PROVE  RowsInv'
        <3>1. e.user \in User /\ e.nation \in Human /\ e.status \in Status
            BY <1>0 DEF TypeOK, Update
        <3>2. /\ SyncAllowed(e.user, e.nation, e.status)
              /\ SyncMembership(e.user, e.nation, e.status)
              /\ UNCHANGED <<registered, nationState, founder>>
            BY <2>2 DEF HandleChatMember
        <3>. QED BY <1>0, <3>1, <3>2, RowsSync
    <2>3. ASSUME NEW e \in inflight, DropChatMember(e) PROVE RowsInv'
        BY <1>0, <2>3, RowsUntouched DEF DropChatMember, rowsVars
    <2>. QED BY <1>1, <2>1, <2>2, <2>3 DEF TelegramNext
<1>2. CASE JoinNext
    <2>1. ASSUME NEW u \in User, RegisterUser(u) PROVE RowsInv'
        BY <1>0, <2>1, RowsUntouched DEF RegisterUser, rowsVars
    <2>2. ASSUME NEW u \in User, SyncRead(u) PROVE RowsInv'
        BY <1>0, <2>2, RowsUntouched DEF SyncRead, rowsVars
    <2>3. ASSUME NEW u \in User, SyncWrite(u) PROVE RowsInv'
        <3>1. CASE UNCHANGED gameVars
            BY <1>0, <2>3, <3>1, RowsUntouched DEF SyncWrite, rowsVars
        <3>2. ASSUME NEW n \in op[u].rows, Enroll(u, n) PROVE RowsInv'
            <4>1. n \in Nation
                BY <1>0, OpMoves DEF Op
            <4>2. u \in registered /\ nationState[n] # "absent"
                BY <1>0, <2>3 DEF HandlersInv, KnownToHandlers, SyncWrite
            <4>. QED BY <1>0, <2>3, <3>2, <4>1, <4>2, RowsEnroll DEF SyncWrite
        <3>. QED BY <2>3, <3>1, <3>2 DEF SyncWrite
    <2>4. ASSUME NEW u \in User, RegisterWithoutSync(u) PROVE RowsInv'
        BY <1>0, <2>4, RowsUntouched DEF RegisterWithoutSync, rowsVars
    <2>5. ASSUME NEW u \in User, JoinCommit(u) PROVE RowsInv'
        <3>1. CASE UNCHANGED <<gameVars, proj, count>>
            BY <1>0, <2>5, <3>1, RowsUntouched DEF JoinCommit, rowsVars
        <3>2. CASE SyncAllowed(u, op[u].nation, "member") /\ SyncActive(u, op[u].nation)
            <4>1. op[u].nation \in Human
                BY <1>0, <2>5, OpMoves DEF JoinCommit, Op
            <4>2. SyncMembership(u, op[u].nation, "member") /\ "member" \in Status
                BY <3>2 DEF SyncMembership, Status
            <4>. QED BY <1>0, <2>5, <3>2, <4>1, <4>2, RowsSync DEF JoinCommit
        <3>. QED BY <2>5, <3>1, <3>2 DEF JoinCommit
    <2>6. ASSUME NEW u \in User, NEW n \in Human, JoinLookup(u, n) PROVE RowsInv'
        BY <1>0, <2>6, RowsUntouched DEF JoinLookup, rowsVars
    <2>7. ASSUME NEW u \in User, NEW n \in Human, CreateNation(u, n) PROVE RowsInv'
        BY <1>0, <2>7, RowsFounded DEF CreateNation, FoundingWrites
    <2>8. ASSUME NEW u \in User, NEW n \in AI, JoinAI(u, n) PROVE RowsInv'
        <3>1. u \in registered /\ nationState[n] # "absent"
            BY <2>8 DEF JoinAI
        <3>2. founder[n] # u
            BY <1>0, <2>8 DEF JoinAI, RowsInv, FounderRole
        <3>3. /\ activeIn' = [activeIn EXCEPT ![u] = {n}]
              /\ memberRole' = [memberRole EXCEPT ![u][n] = "citizen"]
              /\ holding' = [holding EXCEPT ![u][n] = Opened(@)]
              /\ UNCHANGED <<registered, nationState, founder>>
            BY <2>8 DEF JoinAI
        <3>4. holding' \in [User -> [Nation -> {"absent", "empty", "funded"}]]
            BY <1>0, <3>3 DEF TypeOK, Opened
        <3>5. /\ \A v \in User, m \in Nation : holding[v][m] # "absent" => holding'[v][m] # "absent"
              /\ holding'[u][n] # "absent"
            <4>1. PICK h : h = Opened(holding[u][n]) /\ holding' = [holding EXCEPT ![u][n] = h]
                BY <3>3
            <4>2. h # "absent" /\ n \in Nation
                BY <4>1 DEF Opened
            <4>. QED BY <1>0, <4>1, <4>2 DEF TypeOK
        <3>. QED BY <1>0, <3>1, <3>2, <3>3, <3>4, <3>5, RowsEnrolled DEF MemberRole
    <2>. QED BY <1>2, <2>1, <2>2, <2>3, <2>4, <2>5, <2>6, <2>7, <2>8 DEF JoinNext
<1>3. CASE ManageNext
    <2>1. ASSUME NEW u \in User, NEW t \in User, NEW n \in Human, KickRead(u, n, t)
          PROVE  RowsInv'
        BY <1>0, <2>1, RowsUntouched DEF KickRead, rowsVars
    <2>2. ASSUME NEW u \in User, NEW t \in User, NEW n \in Human,
                 NEW r \in Appointable, RoleRead(u, n, t, r)
          PROVE  RowsInv'
        BY <1>0, <2>2, RowsUntouched DEF RoleRead, rowsVars
    <2>3. ASSUME NEW u \in User, NEW n \in Human, DissolveRead(u, n) PROVE RowsInv'
        BY <1>0, <2>3, RowsUntouched DEF DissolveRead, rowsVars
    <2>4. ASSUME NEW u \in User, KickCheck(u) PROVE RowsInv'
        BY <1>0, <2>4, RowsUntouched DEF KickCheck, rowsVars
    <2>5. ASSUME NEW u \in User, KickCommit(u) PROVE RowsInv'
        <3>. DEFINE n == op[u].nation
                    t == op[u].target
        <3>1. n \in Human /\ t \in User
            BY <1>0, <2>5, OpMoves DEF KickCommit, Op, Kicking
        <3>2. CASE UNCHANGED gameVars
            BY <1>0, <2>5, <3>2, RowsUntouched DEF KickCommit, rowsVars
        <3>3. CASE /\ holding' = [holding EXCEPT ![t][n] = Liquidated(@)]
                   /\ activeIn' = [activeIn EXCEPT ![t] = @ \ {n}]
                   /\ UNCHANGED memberRole
            <4>. HIDE DEF n, t
            <4>1. \A v \in User : activeIn'[v] \subseteq activeIn[v]
                BY <1>0, <3>1, <3>3 DEF TypeOK
            <4>2. \A v \in User, m \in Nation :
                      holding[v][m] # "absent" => holding'[v][m] # "absent"
                BY <1>0, <3>1, <3>3 DEF TypeOK, Liquidated
            <4>. QED BY <1>0, <2>5, <3>3, <4>1, <4>2, RowsEnded DEF KickCommit
        <3>. QED BY <2>5, <3>2, <3>3 DEF KickCommit
    <2>6. ASSUME NEW u \in User, RoleCommit(u) PROVE RowsInv'
        <3>1. CASE UNCHANGED gameVars
            BY <1>0, <2>6, <3>1, RowsUntouched DEF RoleCommit, rowsVars
        <3>2. CASE MayAppoint(op[u].held, op[u].target, op[u].nation, op[u].asked)
            <4>1. /\ op[u].nation \in Human /\ op[u].target \in User
                  /\ op[u].asked \in Appointable
                BY <1>0, <2>6, OpMoves DEF RoleCommit, Op
            <4>2. /\ memberRole' = [memberRole EXCEPT ![op[u].target][op[u].nation] = op[u].asked]
                  /\ UNCHANGED <<registered, activeIn, holding, nationState, founder>>
                BY <2>6, <3>2 DEF RoleCommit
            <4>. QED BY <1>0, <3>2, <4>1, <4>2, RowsAppointed DEF MayAppoint
        <3>. QED BY <2>6, <3>1, <3>2 DEF RoleCommit
    <2>7. ASSUME NEW u \in User, DissolveCommit(u) PROVE RowsInv'
        <3>. DEFINE n == op[u].nation
        <3>1. n \in Human
            BY <1>0, <2>7, OpMoves DEF DissolveCommit, Op
        <3>2. CASE UNCHANGED <<gameVars, count, nationState>>
            BY <1>0, <2>7, <3>2, RowsUntouched DEF DissolveCommit, rowsVars
        <3>3. CASE nationState[n] = "active"
            <4>1. /\ holding' = [t \in User |-> IF t \in Citizens(n)
                         THEN [holding[t] EXCEPT ![n] = Liquidated(@)] ELSE holding[t]]
                  /\ activeIn' = [t \in User |-> IF t \in Citizens(n)
                         THEN activeIn[t] \ {n} ELSE activeIn[t]]
                  /\ nationState' = [nationState EXCEPT ![n] = "dissolved"]
                  /\ UNCHANGED <<registered, memberRole, founder>>
                BY <2>7, <3>3 DEF DissolveCommit
            <4>. HIDE DEF n
            <4>2. \A v \in User : activeIn'[v] \subseteq activeIn[v]
                BY <4>1 DEF TypeOK
            <4>3. \A v \in User, m \in Nation :
                      holding[v][m] # "absent" => holding'[v][m] # "absent"
                BY <1>0, <3>1, <4>1 DEF TypeOK, Liquidated
            <4>4. \A m \in Nation : /\ nationState[m] # "absent" => nationState'[m] # "absent"
                                    /\ nationState'[m] = "active" => nationState[m] = "active"
                BY <1>0, <3>1, <3>3, <4>1 DEF TypeOK
            <4>. QED BY <1>0, <4>1, <4>2, <4>3, <4>4, RowsEnded
        <3>. QED BY <2>7, <3>2, <3>3 DEF DissolveCommit
    <2>8. ASSUME NEW u \in User, NEW ok \in BOOLEAN, TelegramBan(u, ok) PROVE RowsInv'
        BY <1>0, <2>8, RowsUntouched DEF TelegramBan, rowsVars
    <2>9. ASSUME NEW u \in User, NEW ok \in BOOLEAN, TelegramUnban(u, ok) PROVE RowsInv'
        BY <1>0, <2>9, RowsUntouched DEF TelegramUnban, rowsVars
    <2>. QED BY <1>3, <2>1, <2>2, <2>3, <2>4, <2>5, <2>6, <2>7, <2>8, <2>9 DEF ManageNext
<1>4. CASE AccountNext
    <2>1. ASSUME NEW u \in User, NEW n \in Nation, RepairMembership(u, n) PROVE RowsInv'
        <3>1. u \in registered /\ nationState[n] # "absent" /\ holding[u][n] # "absent"
            BY <1>0, <2>1, RepairFacts DEF RepairMembership
        <3>2. RepairRole(u) = "founder" <=> founder[n] = u
            BY <1>0, <2>1, RepairFacts DEF RepairMembership
        <3>3. /\ activeIn' = [activeIn EXCEPT ![u] = {n}]
              /\ memberRole' = [memberRole EXCEPT ![u][n] = RepairRole(u)]
              /\ UNCHANGED <<registered, holding, nationState, founder>>
            BY <2>1 DEF RepairMembership
        <3>4. RepairRole(u) \in MemberRole
            BY DEF RepairRole, MemberRole
        <3>5. holding' \in [User -> [Nation -> {"absent", "empty", "funded"}]]
            BY <1>0, <3>3 DEF TypeOK
        <3>. QED BY <1>0, <3>1, <3>2, <3>3, <3>4, <3>5, RowsEnrolled
    <2>2. ASSUME NEW u \in User, NEW n \in Nation, PointHome(u, n) PROVE RowsInv'
        BY <1>0, <2>2, RowsUntouched DEF PointHome, rowsVars
    <2>3. ASSUME NEW u \in User, NEW n \in Nation,
                 BuyCurrency(u, n) \/ SellCurrency(u, n) \/ ChangeHome(u, n)
          PROVE  RowsInv'
        <3>1. \A v \in User, m \in Nation : holding[v][m] # "absent" => holding'[v][m] # "absent"
            BY <1>0, <2>3 DEF BuyCurrency, SellCurrency, ChangeHome, TypeOK
        <3>2. UNCHANGED <<registered, activeIn, memberRole, nationState, founder>>
            BY <2>3 DEF BuyCurrency, SellCurrency, ChangeHome
        <3>. QED BY <1>0, <3>1, <3>2, RowsEnded
    <2>4. ASSUME NEW u \in User, NEW n \in Nation \cup {NoNation}, AdminSetHome(u, n)
          PROVE  RowsInv'
        BY <1>0, <2>4, RowsUntouched DEF AdminSetHome, rowsVars
    <2>5. ASSUME RepairScript PROVE RowsInv'
        BY <1>0, <2>5, RowsUntouched DEF RepairScript, rowsVars
    <2>. QED BY <1>4, <2>1, <2>2, <2>3, <2>4, <2>5 DEF AccountNext
<1>5. CASE SystemNext
    BY <1>0, <1>5, RowsUntouched DEF SystemNext, ReconcileRead, ReconcileWrite, RateRead,
        RateWrite, Restart, rowsVars
<1>6. CASE UNCHANGED vars
    BY <1>0, <1>6, RowsUntouched DEF vars, rowsVars
<1>. QED BY <1>1, <1>2, <1>3, <1>4, <1>5, <1>6 DEF Next

-----------------------------------------------------------------------------
(* The handlers. *)

LEMMA NationsStep ==
    CitizenshipInv /\ [Next]_vars => NationsKept /\ registered \subseteq registered'
<1>. SUFFICES ASSUME CitizenshipInv, [Next]_vars
              PROVE  NationsKept /\ registered \subseteq registered'
    OBVIOUS
<1>. USE DEF nationVars, NationsKept
<1>0. TypeOK
    BY DEF CitizenshipInv
<1>1. CASE UNCHANGED nationVars /\ registered \subseteq registered'
    BY <1>1
<1>2. ASSUME NEW u \in User, NEW n \in Human, CreateNation(u, n)
      PROVE  NationsKept /\ registered \subseteq registered'
    <2>1. \A m \in Nation : nationState[m] # "absent" => m # n
        BY <1>2 DEF CreateNation, FoundingWrites
    <2>2. /\ nationState' = [nationState EXCEPT ![n] = "active"]
          /\ founder' = [founder EXCEPT ![n] = u]
          /\ registered' = registered
        BY <1>2 DEF CreateNation, FoundingWrites
    <2>. QED BY <1>0, <2>1, <2>2 DEF TypeOK
<1>3. ASSUME NEW u \in User, DissolveCommit(u)
      PROVE  NationsKept /\ registered \subseteq registered'
    <2>1. UNCHANGED <<registered, founder>>
        BY <1>3 DEF DissolveCommit
    <2>2. CASE UNCHANGED nationState
        BY <2>1, <2>2
    <2>3. CASE nationState' = [nationState EXCEPT ![op[u].nation] = "dissolved"]
        BY <1>0, <2>1, <2>3 DEF TypeOK
    <2>. QED BY <1>3, <2>2, <2>3 DEF DissolveCommit
<1>4. CASE TelegramNext
    BY <1>1, <1>4 DEF TelegramNext, TelegramChange, HandleChatMember, DropChatMember
<1>5. CASE JoinNext
    BY <1>1, <1>2, <1>5 DEF JoinNext, RegisterUser, SyncRead, SyncWrite, RegisterWithoutSync,
                            JoinCommit, JoinLookup, JoinAI
<1>6. CASE ManageNext
    BY <1>1, <1>3, <1>6 DEF ManageNext, KickRead, RoleRead, DissolveRead, KickCheck, KickCommit,
                            RoleCommit, TelegramBan, TelegramUnban
<1>7. CASE AccountNext
    BY <1>1, <1>7 DEF AccountNext, RepairMembership, PointHome, BuyCurrency, SellCurrency,
                      ChangeHome, AdminSetHome, RepairScript
<1>8. CASE SystemNext
    BY <1>1, <1>8 DEF SystemNext, ReconcileRead, ReconcileWrite, RateRead,
        RateWrite, Restart
<1>9. CASE UNCHANGED vars
    BY <1>1, <1>9 DEF vars
<1>. QED BY <1>4, <1>5, <1>6, <1>7, <1>8, <1>9 DEF Next

(* What HandlersInv asks of the record o of u's handler, after the step. *)
SafeAfter(u, o) ==
    /\ o.step \in {"registered", "syncing"} => u \in registered'
    /\ o.step \in {"ban", "unban", "kick_commit"}
           => nationState'[o.nation] # "absent" /\ founder'[o.nation] # o.target
    /\ \A n \in o.rows : nationState'[n] # "absent"

LEMMA SafeAgain ==
    ASSUME TypeOK, HandlersInv, NationsKept, registered \subseteq registered', NEW u \in User
    PROVE  SafeAfter(u, op[u])
<1>1. op[u] \in Op
    BY OpMoves
<1>2. op[u].step \in {"registered", "syncing"} => u \in registered'
    BY DEF HandlersInv, KnownToHandlers
<1>3. ASSUME op[u].step \in {"ban", "unban", "kick_commit"}
      PROVE  nationState'[op[u].nation] # "absent" /\ founder'[op[u].nation] # op[u].target
    <2>1. op[u].nation \in Nation
        BY <1>1, <1>3 DEF Op, Kicking
    <2>2. nationState[op[u].nation] # "absent" /\ founder[op[u].nation] # op[u].target
        BY <1>3 DEF HandlersInv, KnownToHandlers, KickSparesFounder
    <2>. QED BY <2>1, <2>2 DEF NationsKept
<1>4. ASSUME NEW n \in op[u].rows PROVE nationState'[n] # "absent"
    <2>1. n \in Nation
        BY <1>1 DEF Op
    <2>2. nationState[n] # "absent"
        BY DEF HandlersInv, KnownToHandlers
    <2>. QED BY <2>1, <2>2 DEF NationsKept
<1>. QED BY <1>2, <1>3, <1>4 DEF SafeAfter

LEMMA SafeHandlers ==
    ASSUME \A u \in User : SafeAfter(u, op'[u]) PROVE HandlersInv'
BY DEF SafeAfter, HandlersInv, KnownToHandlers, KickSparesFounder

(* A step that moves one handler, to a record that is safe. *)
LEMMA HandlerMoved ==
    ASSUME TypeOK, HandlersInv, NationsKept, registered \subseteq registered',
           NEW u \in User, NEW o, op' = [op EXCEPT ![u] = o], SafeAfter(u, o)
    PROVE  HandlersInv'
<1>1. ASSUME NEW v \in User PROVE SafeAfter(v, op'[v])
    <2>1. CASE v = u
        BY <2>1 DEF TypeOK
    <2>2. CASE v # u
        <3>1. op'[v] = op[v]
            BY <2>2 DEF TypeOK
        <3>. QED BY <3>1, SafeAgain
    <2>. QED BY <2>1, <2>2
<1>. QED BY <1>1, SafeHandlers

LEMMA HandlersUntouched ==
    ASSUME TypeOK, HandlersInv, NationsKept, registered \subseteq registered', UNCHANGED op
    PROVE  HandlersInv'
<1>1. ASSUME NEW v \in User PROVE SafeAfter(v, op'[v])
    BY SafeAgain
<1>. QED BY <1>1, SafeHandlers

(* A handler that ends, or that has only looked something up, owes nothing. *)
LEMMA HandlerQuiet ==
    ASSUME TypeOK, HandlersInv, NationsKept, registered \subseteq registered',
           NEW u \in User, NEW o, op' = [op EXCEPT ![u] = o],
           o.step \in {"idle", "joining", "kick", "role", "dissolve"}, o.rows = {}
    PROVE  HandlersInv'
<1>1. SafeAfter(u, o)
    BY DEF SafeAfter
<1>. QED BY <1>1, HandlerMoved

(* The handlers' records survive every step. *)
LEMMA HandlersStep == CitizenshipInv /\ [Next]_vars => HandlersInv'
<1>. SUFFICES ASSUME CitizenshipInv, [Next]_vars PROVE HandlersInv'
    OBVIOUS
<1>0. /\ TypeOK /\ RowsInv /\ HandlersInv
      /\ NationsKept /\ registered \subseteq registered'
    BY NationsStep DEF CitizenshipInv
<1>1. CASE UNCHANGED op
    BY <1>0, <1>1, HandlersUntouched
<1>2. ASSUME NEW u \in User, NEW n, NEW t, NEW r, NEW h,
             NEW st \in {"idle", "joining", "kick", "role", "dissolve"},
             Start(u, st, n, t, r, h, {})
      PROVE  HandlersInv'
    <2>. DEFINE o == [step |-> st, nation |-> n, target |-> t, asked |-> r,
                      held |-> h, rows |-> {}]
    <2>1. op' = [op EXCEPT ![u] = o] /\ o.step = st /\ o.rows = {}
        BY <1>2 DEF Start
    <2>. HIDE DEF o
    <2>. QED BY <1>0, <2>1, HandlerQuiet
<1>3. ASSUME NEW u \in User, Finish(u) PROVE HandlersInv'
    <2>1. op' = [op EXCEPT ![u] = Idle] /\ Idle.step = "idle" /\ Idle.rows = {}
        BY <1>3 DEF Finish, Idle
    <2>. QED BY <1>0, <2>1, HandlerQuiet
<1>4. ASSUME NEW u \in User, NEW st \in {"ban", "unban", "kick_commit"}, Advance(u, st),
             nationState[op[u].nation] # "absent", founder[op[u].nation] # op[u].target,
             op[u].nation \in Nation
      PROVE  HandlersInv'
    <2>. DEFINE o == [op[u] EXCEPT !.step = st]
    <2>1. op' = [op EXCEPT ![u] = o]
        BY <1>4 DEF Advance
    <2>2. op[u] \in Op
        BY <1>0, OpMoves
    <2>3. o.step = st /\ o.nation = op[u].nation /\ o.target = op[u].target /\ o.rows = op[u].rows
        BY <2>2 DEF Op
    <2>4. \A n \in o.rows : nationState'[n] # "absent"
        BY <1>0, <2>3, SafeAgain DEF SafeAfter
    <2>5. nationState'[op[u].nation] # "absent" /\ founder'[op[u].nation] # op[u].target
        BY <1>0, <1>4 DEF NationsKept
    <2>. HIDE DEF o
    <2>6. SafeAfter(u, o)
        BY <2>3, <2>4, <2>5 DEF SafeAfter
    <2>. QED BY <1>0, <2>1, <2>6, HandlerMoved
<1>5. ASSUME NEW u \in User, RegisterUser(u) PROVE HandlersInv'
    <2>. DEFINE o == [step |-> "registered", nation |-> NoNation, target |-> NoUser,
                      asked |-> "none", held |-> "none", rows |-> {}]
    <2>1. op' = [op EXCEPT ![u] = o] /\ u \in registered'
        BY <1>5 DEF RegisterUser, Start
    <2>2. SafeAfter(u, o)
        BY <2>1 DEF SafeAfter
    <2>. HIDE DEF o
    <2>. QED BY <1>0, <2>1, <2>2, HandlerMoved
<1>6. ASSUME NEW u \in User, SyncRead(u) PROVE HandlersInv'
    <2>. DEFINE known == {n \in Human : proj[n][u] = "member" /\ nationState[n] = "active"}
                o == [step |-> "syncing", nation |-> NoNation, target |-> NoUser,
                      asked |-> "none", held |-> "none", rows |-> known]
    <2>1. op' = [op EXCEPT ![u] = o]
        BY <1>6 DEF SyncRead, Start
    <2>2. u \in registered'
        BY <1>0, <1>6 DEF SyncRead, HandlersInv, KnownToHandlers
    <2>3. \A n \in known : nationState'[n] # "absent"
        BY <1>0 DEF NationsKept
    <2>4. o.step = "syncing" /\ o.rows = known
        OBVIOUS
    <2>. HIDE DEF o, known
    <2>5. SafeAfter(u, o)
        BY <2>2, <2>3, <2>4 DEF SafeAfter
    <2>. QED BY <1>0, <2>1, <2>5, HandlerMoved
<1>7. ASSUME NEW u \in User, KickCheck(u) PROVE HandlersInv'
    <2>1. CASE Finish(u)
        BY <1>3, <2>1
    <2>2. CASE MayKick(op[u].held, op[u].target, op[u].nation) /\ Advance(u, "ban")
        <3>1. op[u].nation \in Nation /\ op[u].target \in User
            BY <1>0, <1>7, OpMoves DEF KickCheck, Op, Kicking
        <3>2. /\ op[u].nation \in activeIn[op[u].target]
              /\ memberRole[op[u].target][op[u].nation] # "founder"
            BY <2>2 DEF MayKick
        <3>3. nationState[op[u].nation] # "absent" /\ founder[op[u].nation] # op[u].target
            BY <1>0, <3>1, <3>2 DEF RowsInv, NoPartialCitizenship, FounderRole
        <3>. QED BY <1>4, <2>2, <3>1, <3>3
    <2>. QED BY <1>7, <2>1, <2>2 DEF KickCheck
<1>8. ASSUME NEW u \in User, op[u].step \in {"ban", "unban", "kick_commit"}
      PROVE  /\ nationState[op[u].nation] # "absent"
             /\ founder[op[u].nation] # op[u].target
             /\ op[u].nation \in Nation
    <2>1. op[u].nation \in Nation
        BY <1>0, <1>8, OpMoves DEF Op, Kicking
    <2>. QED BY <1>0, <1>8, <2>1 DEF HandlersInv, KnownToHandlers, KickSparesFounder
<1>9. ASSUME NEW u \in User, NEW ok \in BOOLEAN, TelegramBan(u, ok) PROVE HandlersInv'
    <2>1. CASE Finish(u)
        BY <1>3, <2>1
    <2>2. CASE Advance(u, "unban")
        <3>1. op[u].step = "ban"
            BY <1>9 DEF TelegramBan
        <3>. QED BY <1>4, <1>8, <2>2, <3>1
    <2>. QED BY <1>9, <2>1, <2>2 DEF TelegramBan
<1>10. ASSUME NEW u \in User, NEW ok \in BOOLEAN, TelegramUnban(u, ok) PROVE HandlersInv'
    <2>1. op[u].step = "unban" /\ Advance(u, "kick_commit")
        BY <1>10 DEF TelegramUnban
    <2>. QED BY <1>4, <1>8, <2>1
<1>11. ASSUME Restart PROVE HandlersInv'
    <2>1. ASSUME NEW u \in User PROVE SafeAfter(u, op'[u])
        BY <1>11 DEF Restart, SafeAfter, Idle
    <2>. QED BY <2>1, SafeHandlers
<1>12. CASE TelegramNext
    BY <1>1, <1>12 DEF TelegramNext, TelegramChange, HandleChatMember, DropChatMember
<1>13. CASE JoinNext
    <2>1. ASSUME NEW u \in User, SyncWrite(u) \/ JoinCommit(u) PROVE HandlersInv'
        BY <1>3, <2>1 DEF SyncWrite, JoinCommit
    <2>2. ASSUME NEW u \in User, NEW n \in Human, JoinLookup(u, n) PROVE HandlersInv'
        BY <1>2, <2>2 DEF JoinLookup
    <2>. QED BY <1>1, <1>5, <1>6, <1>13, <2>1, <2>2
             DEF JoinNext, RegisterWithoutSync, JoinAI, CreateNation, FoundingWrites
<1>14. CASE ManageNext
    <2>1. ASSUME NEW u \in User, NEW t \in User, NEW n \in Human, KickRead(u, n, t)
          PROVE  HandlersInv'
        BY <1>2, <2>1 DEF KickRead
    <2>2. ASSUME NEW u \in User, NEW t \in User, NEW n \in Human,
                 NEW r \in Appointable, RoleRead(u, n, t, r)
          PROVE  HandlersInv'
        BY <1>2, <2>2 DEF RoleRead
    <2>3. ASSUME NEW u \in User, NEW n \in Human, DissolveRead(u, n) PROVE HandlersInv'
        BY <1>2, <2>3 DEF DissolveRead
    <2>4. ASSUME NEW u \in User, KickCommit(u) \/ RoleCommit(u) \/ DissolveCommit(u)
          PROVE  HandlersInv'
        BY <1>3, <2>4 DEF KickCommit, RoleCommit, DissolveCommit
    <2>. QED BY <1>7, <1>9, <1>10, <1>14, <2>1, <2>2, <2>3, <2>4 DEF ManageNext
<1>15. CASE AccountNext
    BY <1>1, <1>15 DEF AccountNext, RepairMembership, PointHome, BuyCurrency, SellCurrency,
                       ChangeHome, AdminSetHome, RepairScript
<1>16. CASE SystemNext
    BY <1>1, <1>11, <1>16 DEF SystemNext, ReconcileRead, ReconcileWrite, RateRead,
        RateWrite
<1>17. CASE UNCHANGED vars
    BY <1>1, <1>17 DEF vars
<1>. QED BY <1>12, <1>13, <1>14, <1>15, <1>16, <1>17 DEF Next

-----------------------------------------------------------------------------
(* The first state. *)
LEMMA InitCitizenship == Init => CitizenshipInv
<1>. SUFFICES ASSUME Init PROVE CitizenshipInv
    OBVIOUS
<1>1. TypeOK
    BY InitType
<1>2. ASSUME NEW n \in Human, InitialFounder[n] # NoUser
      PROVE  /\ InitialFounder[n] \in Founders /\ InitialFounder[n] \in registered
             /\ holding[InitialFounder[n]][n] = "funded" /\ nationState[n] = "active"
    <2>1. InitialFounder[n] \in User
        BY <1>2, FoundersAssumption
    <2>2. InitialFounder[n] \in Founders
        BY <2>1 DEF Founders
    <2>3. holding[InitialFounder[n]][n] = "funded"
        BY <2>1 DEF Init, InitiallyIn
    <2>4. nationState[n] = "active"
        BY <1>2 DEF Init
    <2>. QED BY <2>2, <2>3, <2>4 DEF Init
<1>3. ASSUME NEW u \in User, NEW n \in activeIn[u]
      PROVE  n \in Human /\ InitialFounder[n] = u /\ InitialFounder[n] # NoUser
    BY <1>3, SortsAssumption DEF Init, InitiallyHome
<1>4. NoPartialCitizenship
    <2>1. ASSUME NEW u \in User, NEW n \in activeIn[u]
          PROVE  /\ u \in registered /\ memberRole[u][n] # "none"
                 /\ holding[u][n] # "absent" /\ nationState[n] # "absent"
        <3>1. n \in Human /\ InitialFounder[n] = u /\ InitialFounder[n] # NoUser
            BY <1>3
        <3>2. memberRole[u][n] = "founder"
            BY <3>1 DEF Init, InitiallyIn
        <3>. QED BY <1>2, <3>1, <3>2
    <2>. QED BY <2>1 DEF NoPartialCitizenship
<1>5. FounderRole
    <2>1. ASSUME NEW u \in User, NEW n \in Nation
          PROVE  memberRole[u][n] = "founder" <=> founder[n] = u
        <3>1. memberRole[u][n] = (IF InitiallyIn(u, n) THEN "founder" ELSE "none")
            BY DEF Init
        <3>2. founder[n] = (IF n \in Human THEN InitialFounder[n] ELSE NoUser)
            BY DEF Init
        <3>3. u # NoUser
            BY SortsAssumption
        <3>. QED BY <3>1, <3>2, <3>3 DEF InitiallyIn
    <2>. QED BY <2>1 DEF FounderRole
<1>6. \A n \in Nation : founder[n] # NoUser => n \in Human /\ founder[n] = InitialFounder[n]
    BY DEF Init
<1>7. FounderStanding
    BY <1>2, <1>6 DEF FounderStanding
<1>8. OneNationPerFounder
    BY <1>6, FoundersAssumption DEF OneNationPerFounder
<1>9. HandlersInv
    BY DEF Init, HandlersInv, KnownToHandlers, KickSparesFounder, Idle
<1>. QED BY <1>1, <1>4, <1>5, <1>7, <1>8, <1>9 DEF CitizenshipInv, RowsInv

(* The inductive invariant of the rows and the handlers. *)
LEMMA CitizenshipInvariant == Spec => []CitizenshipInv
<1>1. CitizenshipInv /\ [Next]_vars => CitizenshipInv'
    BY TypeStep, RowsStep, HandlersStep DEF CitizenshipInv
<1>. QED BY <1>1, InitCitizenship, PTL DEF Spec

(* Whatever the handlers, Telegram and the resolver do, and in whatever order, *)
(* an active member is a registered user with a role and a wallet.             *)
THEOREM NeverPartial == Spec => []NoPartialCitizenship
<1>1. CitizenshipInv => NoPartialCitizenship
    BY DEF CitizenshipInv, RowsInv
<1>. QED BY <1>1, CitizenshipInvariant, PTL

(* The role of founder and nations.founder_user_id always agree. *)
THEOREM FounderRoleAgrees == Spec => []FounderRole
<1>1. CitizenshipInv => FounderRole
    BY DEF CitizenshipInv, RowsInv
<1>. QED BY <1>1, CitizenshipInvariant, PTL

(* Nobody is the founder of two live nations. *)
THEOREM FoundsOnce == Spec => []OneNationPerFounder
<1>1. CitizenshipInv => OneNationPerFounder
    BY DEF CitizenshipInv, RowsInv
<1>. QED BY <1>1, CitizenshipInvariant, PTL

(* A kick that has passed its check does not hit the founder, whatever other *)
(* handlers do during its calls to Telegram.                                 *)
THEOREM FounderNeverKicked == Spec => []KickSparesFounder
<1>1. CitizenshipInv => KickSparesFounder
    BY DEF CitizenshipInv, HandlersInv
<1>. QED BY <1>1, CitizenshipInvariant, PTL

-----------------------------------------------------------------------------
(* Kicks and the group. Telegram numbers what it tells by its clock.          *)

Pending(u, n) == {e \in inflight : e.nation = n /\ e.user = u}

StampsInv ==
    /\ \A e \in inflight : e.at < clock
    /\ \A e, f \in inflight : e.at = f.at => e = f

\* The bot has recorded whoever has a citizenship of a human nation, or is about
\* to get one from a registration, as a member of its group.
RecordedInv ==
    /\ \A u \in User : \A n \in activeIn[u] \cap Human : proj[n][u] = "member"
    /\ \A u \in User : op[u].step = "syncing" => \A n \in op[u].rows : proj[n][u] = "member"

\* The update sent last says where the user is; when all are handled, whom the bot
\* has recorded as a member is one.
ToldAt(u, n) ==
    IF Pending(u, n) = {}
    THEN nationState[n] = "active" /\ proj[n][u] = "member" => truth[n][u] = "member"
    ELSE \E e \in Pending(u, n) : /\ e.status = truth[n][u]
                                  /\ \A f \in Pending(u, n) : f.at <= e.at
ToldInv ==
    /\ \A u \in User : op[u].step # "joining"
    /\ \A u \in User, n \in Human : ToldAt(u, n)

\* Nobody registers.
NobodyRegisters ==
    \A u \in User : op[u].step \notin {"registered", "syncing"}

GroupInv == StampsInv /\ RecordedInv /\ ToldInv

(* No handler starts on a step of K. *)
NoneStarts(K) == \A v \in User : op'[v].step \in K => op'[v] = op[v]

LEMMA OpStarts ==
    ASSUME NEW K, TypeOK, "idle" \notin K, NEW u \in User
    PROVE  /\ UNCHANGED op => NoneStarts(K)
           /\ Finish(u) => NoneStarts(K)
           /\ \A st : st \notin K /\ Advance(u, st) => NoneStarts(K)
           /\ \A st, n, t, a, h, r : st \notin K /\ Start(u, st, n, t, a, h, r) => NoneStarts(K)
<1>0. op \in [User -> Op]
    BY DEF TypeOK
<1>1. UNCHANGED op => NoneStarts(K)
    BY DEF NoneStarts
<1>2. ASSUME NEW o, o.step \notin K, op' = [op EXCEPT ![u] = o] PROVE NoneStarts(K)
    <2>1. ASSUME NEW v \in User, op'[v].step \in K PROVE op'[v] = op[v]
        BY <1>0, <1>2, <2>1
    <2>. QED BY <2>1 DEF NoneStarts
<1>3. ASSUME Finish(u) PROVE NoneStarts(K)
    <2>1. op' = [op EXCEPT ![u] = Idle] /\ Idle.step = "idle"
        BY <1>3 DEF Finish, Idle
    <2>. QED BY <1>2, <2>1
<1>4. ASSUME NEW st, st \notin K, Advance(u, st) PROVE NoneStarts(K)
    <2>. DEFINE o == [op[u] EXCEPT !.step = st]
    <2>1. op' = [op EXCEPT ![u] = o]
        BY <1>4 DEF Advance
    <2>2. o.step = st
        BY <1>0 DEF Op
    <2>. HIDE DEF o
    <2>. QED BY <1>2, <1>4, <2>1, <2>2
<1>5. ASSUME NEW st, NEW n, NEW t, NEW a, NEW h, NEW r, st \notin K, Start(u, st, n, t, a, h, r)
      PROVE  NoneStarts(K)
    <2>. DEFINE o == [step |-> st, nation |-> n, target |-> t, asked |-> a, held |-> h, rows |-> r]
    <2>1. op' = [op EXCEPT ![u] = o] /\ o.step = st
        BY <1>5 DEF Start
    <2>. HIDE DEF o
    <2>. QED BY <1>2, <1>5, <2>1
<1>. QED BY <1>1, <1>3, <1>4, <1>5


(* Who begins to register, and who looks a join up. *)
LEMMA Starters ==
    ASSUME TypeOK, [Next]_vars, NEW K \in SUBSET {"registered", "syncing", "joining"}
    PROVE  \/ NoneStarts(K)
           \/ "registered" \in K /\ \E u \in User : RegisterUser(u)
           \/ "syncing" \in K /\ \E u \in User : SyncRead(u)
           \/ "joining" \in K /\ \E u \in User, n \in Human : JoinLookup(u, n)
<1>0. "idle" \notin K
    OBVIOUS
<1>1. UNCHANGED op => NoneStarts(K)
    BY DEF NoneStarts
<1>2. ASSUME NEW u \in User, Finish(u) PROVE NoneStarts(K)
    BY <1>0, <1>2, OpStarts
<1>3. ASSUME NEW u \in User, NEW st \in {"ban", "unban", "kick_commit"}, Advance(u, st)
      PROVE  NoneStarts(K)
    BY <1>0, <1>3, OpStarts
<1>4. ASSUME NEW u \in User, NEW st, NEW n, NEW t, NEW a, NEW h, NEW r,
             Start(u, st, n, t, a, h, r), st \notin K
      PROVE  NoneStarts(K)
    BY <1>0, <1>4, OpStarts
<1>5. CASE TelegramNext
    BY <1>1, <1>5 DEF TelegramNext, TelegramChange, HandleChatMember, DropChatMember
<1>6. CASE JoinNext
    <2>1. ASSUME NEW u \in User, RegisterUser(u), "registered" \notin K PROVE NoneStarts(K)
        BY <1>4, <2>1 DEF RegisterUser
    <2>2. ASSUME NEW u \in User, SyncRead(u), "syncing" \notin K PROVE NoneStarts(K)
        BY <1>4, <2>2 DEF SyncRead
    <2>3. ASSUME NEW u \in User, NEW n \in Human, JoinLookup(u, n), "joining" \notin K
          PROVE  NoneStarts(K)
        BY <1>4, <2>3 DEF JoinLookup
    <2>4. ASSUME NEW u \in User, SyncWrite(u) \/ JoinCommit(u) PROVE NoneStarts(K)
        BY <1>2, <2>4 DEF SyncWrite, JoinCommit
    <2>. QED BY <1>1, <1>6, <2>1, <2>2, <2>3, <2>4
             DEF JoinNext, RegisterWithoutSync, JoinAI, CreateNation, FoundingWrites
<1>7. CASE ManageNext
    <2>1. ASSUME NEW u \in User, NEW t \in User, NEW n \in Human, KickRead(u, n, t)
          PROVE  NoneStarts(K)
        BY <1>4, <2>1 DEF KickRead
    <2>2. ASSUME NEW u \in User, NEW t \in User, NEW n \in Human,
                 NEW r \in Appointable, RoleRead(u, n, t, r)
          PROVE  NoneStarts(K)
        BY <1>4, <2>2 DEF RoleRead
    <2>3. ASSUME NEW u \in User, NEW n \in Human, DissolveRead(u, n) PROVE NoneStarts(K)
        BY <1>4, <2>3 DEF DissolveRead
    <2>4. ASSUME NEW u \in User, KickCommit(u) \/ RoleCommit(u) \/ DissolveCommit(u)
          PROVE  NoneStarts(K)
        BY <1>2, <2>4 DEF KickCommit, RoleCommit, DissolveCommit
    <2>5. ASSUME NEW u \in User, KickCheck(u) PROVE NoneStarts(K)
        BY <1>2, <1>3, <2>5 DEF KickCheck
    <2>6. ASSUME NEW u \in User, NEW ok \in BOOLEAN, TelegramBan(u, ok) \/ TelegramUnban(u, ok)
          PROVE  NoneStarts(K)
        BY <1>2, <1>3, <2>6 DEF TelegramBan, TelegramUnban
    <2>. QED BY <1>7, <2>1, <2>2, <2>3, <2>4, <2>5, <2>6 DEF ManageNext
<1>8. CASE AccountNext
    BY <1>1, <1>8 DEF AccountNext, RepairMembership, PointHome, BuyCurrency, SellCurrency,
                      ChangeHome, AdminSetHome, RepairScript
<1>9. CASE SystemNext
    <2>1. ASSUME Restart PROVE NoneStarts(K)
        BY <1>0, <2>1 DEF Restart, NoneStarts, Idle
    <2>. QED BY <1>1, <1>9, <2>1 DEF SystemNext, ReconcileRead, ReconcileWrite, RateRead, RateWrite
<1>10. CASE UNCHANGED vars
    BY <1>1, <1>10 DEF vars
<1>. QED BY <1>5, <1>6, <1>7, <1>8, <1>9, <1>10 DEF Next

(* Who writes the projection. *)
LEMMA WhoRecords ==
    ASSUME [Next]_vars
    PROVE  \/ UNCHANGED proj
           \/ \E e \in inflight, again \in BOOLEAN : HandleChatMember(e, again)
           \/ \E u \in User : JoinCommit(u) /\ u \in registered
                                /\ SyncAllowed(u, op[u].nation, "member") /\ SyncActive(u, op[u].nation)
           \/ \E u \in User, n \in Human : CreateNation(u, n)
<1>1. CASE TelegramNext
    BY <1>1 DEF TelegramNext, TelegramChange, DropChatMember
<1>2. CASE JoinNext
    BY <1>2 DEF JoinNext, RegisterUser, SyncRead, SyncWrite, RegisterWithoutSync, JoinCommit,
                JoinLookup, JoinAI
<1>3. CASE ManageNext
    BY <1>3 DEF ManageNext, KickRead, RoleRead, DissolveRead, KickCheck, KickCommit, RoleCommit,
                DissolveCommit, TelegramBan, TelegramUnban
<1>4. CASE AccountNext
    BY <1>4 DEF AccountNext, RepairMembership, PointHome, BuyCurrency, SellCurrency,
                ChangeHome, AdminSetHome, RepairScript
<1>5. CASE SystemNext
    BY <1>5 DEF SystemNext, ReconcileRead, ReconcileWrite, RateRead, RateWrite, Restart
<1>6. CASE UNCHANGED vars
    BY <1>6 DEF vars
<1>. QED BY <1>1, <1>2, <1>3, <1>4, <1>5, <1>6 DEF Next

(* Who changes what state a nation is in. *)
LEMMA WhoFoundsAndDissolves ==
    ASSUME TypeOK, [Next]_vars
    PROVE  \/ UNCHANGED nationState
           \/ \E u \in User : DissolveCommit(u)
           \/ \E u \in User, n \in Human : CreateNation(u, n)
<1>. USE DEF nationVars
<1>1. CASE TelegramNext
    BY <1>1 DEF TelegramNext, TelegramChange, HandleChatMember, DropChatMember
<1>2. CASE JoinNext
    BY <1>2 DEF JoinNext, RegisterUser, SyncRead, SyncWrite, RegisterWithoutSync, JoinCommit,
                JoinLookup, JoinAI
<1>3. CASE ManageNext
    BY <1>3 DEF ManageNext, KickRead, RoleRead, DissolveRead, KickCheck, KickCommit, RoleCommit,
                TelegramBan, TelegramUnban
<1>4. CASE AccountNext
    BY <1>4 DEF AccountNext, RepairMembership, PointHome, BuyCurrency, SellCurrency,
                ChangeHome, AdminSetHome, RepairScript
<1>5. CASE SystemNext
    BY <1>5 DEF SystemNext, ReconcileRead, ReconcileWrite, RateRead, RateWrite, Restart
<1>6. CASE UNCHANGED vars
    BY <1>6 DEF vars
<1>. QED BY <1>1, <1>2, <1>3, <1>4, <1>5, <1>6 DEF Next

(* Who changes what Telegram says. *)
LEMMA WhoTells ==
    ASSUME TypeOK, [Next]_vars
    PROVE  \/ UNCHANGED telegramVars
           \/ /\ \E u \in User, n \in Human, s \in Status : Post(u, n, s)
              /\ UNCHANGED <<proj, nationState, activeIn>>
           \/ \E e \in inflight, again \in BOOLEAN : HandleChatMember(e, again)
           \/ \E e \in inflight : DropChatMember(e)
           \/ Restart
<1>1. CASE TelegramNext
    BY <1>1 DEF TelegramNext, TelegramChange, gameVars, nationVars
<1>2. CASE JoinNext
    BY <1>2 DEF JoinNext, RegisterUser, SyncRead, SyncWrite, RegisterWithoutSync, JoinCommit,
                JoinLookup, JoinAI, CreateNation, FoundingWrites
<1>3. CASE ManageNext
    <2>1. ASSUME NEW u \in User, NEW ok \in BOOLEAN, TelegramBan(u, ok) \/ TelegramUnban(u, ok),
                 ~UNCHANGED telegramVars
          PROVE  /\ \E t \in User, n \in Human, s \in Status : Post(t, n, s)
                 /\ UNCHANGED <<proj, nationState, activeIn>>
        <3>1. op[u].nation \in Human /\ op[u].target \in User
            BY <2>1, OpMoves DEF TelegramBan, TelegramUnban, Op, Kicking
        <3>2. Post(op[u].target, op[u].nation, "kicked") \/ Post(op[u].target, op[u].nation, "left")
            BY <2>1 DEF TelegramBan, TelegramUnban
        <3>3. UNCHANGED <<proj, nationState, activeIn>>
            BY <2>1 DEF TelegramBan, TelegramUnban, gameVars, nationVars
        <3>. QED BY <3>1, <3>2, <3>3 DEF Status
    <2>. QED BY <1>3, <2>1 DEF ManageNext, KickRead, RoleRead, DissolveRead, KickCheck, KickCommit,
                               RoleCommit, DissolveCommit
<1>4. CASE AccountNext
    BY <1>4 DEF AccountNext, RepairMembership, PointHome, BuyCurrency, SellCurrency,
                ChangeHome, AdminSetHome, RepairScript
<1>5. CASE SystemNext
    BY <1>5 DEF SystemNext, ReconcileRead, ReconcileWrite, RateRead, RateWrite
<1>6. CASE UNCHANGED vars
    BY <1>6 DEF vars, telegramVars
<1>. QED BY <1>1, <1>2, <1>3, <1>4, <1>5, <1>6 DEF Next

(* Who makes a citizen, and of what nation: only the registration does not look  *)
(* at the nation's state when it writes.                                         *)
LEMMA WhoAdmits ==
    ASSUME TypeOK, [Next]_vars, NEW u \in User, NEW n \in Nation,
           n \in activeIn'[u], n \notin activeIn[u]
    PROVE  /\ \/ nationState'[n] = "active"
              \/ SyncWrite(u)
           /\ \/ n \notin Human
              \/ proj'[n][u] = "member"
              \/ SyncWrite(u) /\ n \in op[u].rows
              \/ "resolve" \in Features
<1>. USE DEF gameVars, nationVars
<1>0. activeIn \in [User -> SUBSET Nation] /\ proj \in [Human -> [User -> Status \cup {"absent"}]]
      /\ nationState \in [Nation -> {"absent", "active", "dissolved"}]
    BY DEF TypeOK
<1>1. ~UNCHANGED activeIn
    OBVIOUS
<1>2. ASSUME NEW v \in User, NEW m \in Nation, activeIn' = [activeIn EXCEPT ![v] = {m}]
      PROVE  v = u /\ m = n
    BY <1>0, <1>2
<1>3. ASSUME NEW v \in User, activeIn' = [activeIn EXCEPT ![v] = @ \ {n}] PROVE FALSE
    BY <1>0, <1>3
<1>4. ASSUME NEW v \in User, NEW m \in Human, SyncAllowed(v, m, "member"), SyncActive(v, m),
             UNCHANGED nationState
      PROVE  nationState'[n] = "active" /\ proj'[n][u] = "member"
    <2>1. Enroll(v, m) /\ proj' = [proj EXCEPT ![m][v] = "member"] /\ nationState[m] = "active"
        BY <1>1, <1>4 DEF SyncActive, SyncAllowed
    <2>2. v = u /\ m = n
        BY <1>2, <2>1 DEF Enroll
    <2>. QED BY <1>0, <1>4, <2>1, <2>2
<1>5. ASSUME NEW e \in inflight, NEW again \in BOOLEAN, HandleChatMember(e, again)
      PROVE  nationState'[n] = "active" /\ proj'[n][u] = "member"
    <2>1. e.user \in User /\ e.nation \in Human
        BY DEF TypeOK, Update
    <2>2. e.status = "member"
        <3>1. ASSUME Expel(e.user, e.nation, e.status) PROVE FALSE
            BY <1>0, <2>1, <3>1 DEF Expel
        <3>. QED BY <1>1, <1>5, <3>1 DEF HandleChatMember, SyncMembership, SyncInactive
    <2>. QED BY <1>4, <1>5, <2>1, <2>2 DEF HandleChatMember, SyncMembership
<1>6. CASE TelegramNext
    BY <1>1, <1>5, <1>6 DEF TelegramNext, TelegramChange, DropChatMember
<1>7. CASE JoinNext
    <2>1. ASSUME NEW v \in User, SyncWrite(v) PROVE SyncWrite(u) /\ n \in op[u].rows
        <3>1. PICK m \in op[v].rows : Enroll(v, m)
            BY <1>1, <2>1 DEF SyncWrite
        <3>2. m \in Nation
            BY OpMoves DEF Op
        <3>3. v = u /\ m = n
            BY <1>2, <3>1, <3>2 DEF Enroll
        <3>. QED BY <2>1, <3>1, <3>3
    <2>2. ASSUME NEW v \in User, JoinCommit(v)
          PROVE  nationState'[n] = "active" /\ proj'[n][u] = "member"
        <3>1. SyncAllowed(v, op[v].nation, "member") /\ SyncActive(v, op[v].nation)
            BY <1>1, <2>2 DEF JoinCommit
        <3>2. op[v].nation \in Human /\ UNCHANGED nationState
            BY <2>2, OpMoves DEF JoinCommit, Op
        <3>. QED BY <1>4, <3>1, <3>2
    <2>3. ASSUME NEW v \in User, NEW m \in Human, CreateNation(v, m)
          PROVE  nationState'[n] = "active" /\ proj'[n][u] = "member"
        <3>1. v = u /\ m = n
            BY <1>2, <2>3 DEF CreateNation, FoundingWrites
        <3>. QED BY <1>0, <2>3, <3>1 DEF CreateNation, FoundingWrites
    <2>4. ASSUME NEW v \in User, NEW m \in AI, JoinAI(v, m)
          PROVE  nationState'[n] = "active" /\ n \notin Human
        <3>1. v = u /\ m = n
            BY <1>2, <2>4 DEF JoinAI
        <3>. QED BY <1>0, <2>4, <3>1, SortsAssumption DEF JoinAI
    <2>. QED BY <1>1, <1>7, <2>1, <2>2, <2>3, <2>4
             DEF JoinNext, RegisterUser, SyncRead, RegisterWithoutSync, JoinLookup
<1>8. CASE ManageNext
    <2>1. ASSUME NEW v \in User, KickCommit(v) PROVE FALSE
        BY <1>0, <1>1, <2>1 DEF KickCommit
    <2>2. ASSUME NEW v \in User, DissolveCommit(v) PROVE FALSE
        BY <1>0, <1>1, <2>2 DEF DissolveCommit
    <2>. QED BY <1>1, <1>8, <2>1, <2>2 DEF ManageNext, KickRead, RoleRead, DissolveRead, KickCheck,
                               RoleCommit, TelegramBan, TelegramUnban
<1>9. CASE AccountNext
    <2>1. ASSUME NEW v \in User, NEW m \in Nation, RepairMembership(v, m)
          PROVE  nationState'[n] = "active" /\ "resolve" \in Features
        <3>1. v = u /\ m = n
            BY <1>2, <2>1 DEF RepairMembership
        <3>2. nationState[m] = "active"
            <4>1. m \in RepairTargets(v)
                BY <2>1 DEF RepairMembership
            <4>2. CASE ResolveCase(v) \in {"home founder", "home wallet"}
                BY <4>1, <4>2 DEF RepairTargets, ResolveCase, LiveHome
            <4>3. CASE ResolveCase(v) \notin {"home founder", "home wallet"}
                BY <4>1, <4>3 DEF RepairTargets, LiveFounded, LiveWallets
            <4>. QED BY <4>2, <4>3
        <3>. QED BY <2>1, <3>1, <3>2 DEF RepairMembership
    <2>. QED BY <1>1, <1>9, <2>1 DEF AccountNext, PointHome, BuyCurrency, SellCurrency, ChangeHome,
                                     AdminSetHome, RepairScript
<1>10. CASE SystemNext
    BY <1>1, <1>10 DEF SystemNext, ReconcileRead, ReconcileWrite, RateRead, RateWrite, Restart
<1>11. CASE UNCHANGED vars
    BY <1>1, <1>11 DEF vars
<1>. QED BY <1>5, <1>6, <1>7, <1>8, <1>9, <1>10, <1>11 DEF Next

(* Who ends a citizenship of a human nation: an update from Telegram that says so, *)
(* or a handler that liquidates the wallet.                                        *)
LEMMA WhoReleases ==
    ASSUME TypeOK, [Next]_vars, NEW u \in User, NEW n \in Human,
           n \in activeIn[u], n \notin activeIn'[u]
    PROVE  \/ holding'[u][n] # "funded"
           \/ \E e \in inflight, again \in BOOLEAN :
                  /\ HandleChatMember(e, again)
                  /\ e.user = u /\ e.nation = n /\ Expel(u, n, e.status)
<1>. USE DEF gameVars
<1>0. /\ activeIn \in [User -> SUBSET Nation]
      /\ holding \in [User -> [Nation -> {"absent", "empty", "funded"}]]
      /\ n \in Nation
    BY DEF TypeOK
<1>1. ~UNCHANGED activeIn
    OBVIOUS
<1>2. ASSUME NEW v \in User, NEW m, activeIn' = [activeIn EXCEPT ![v] = {m}], IndexAllows(v, m)
      PROVE  FALSE
    BY <1>0, <1>2 DEF IndexAllows
<1>3. ASSUME NEW e \in inflight, NEW again \in BOOLEAN, HandleChatMember(e, again)
      PROVE  e.user = u /\ e.nation = n /\ Expel(u, n, e.status)
    <2>1. e.user \in User /\ e.nation \in Human
        BY DEF TypeOK, Update
    <2>2. CASE Expel(e.user, e.nation, e.status)
        BY <1>0, <2>1, <2>2 DEF Expel
    <2>3. CASE e.status = "member" /\ Enroll(e.user, e.nation) /\ IndexAllows(e.user, e.nation)
        BY <1>2, <2>1, <2>3 DEF Enroll
    <2>. QED BY <1>1, <1>3, <2>2, <2>3
             DEF HandleChatMember, SyncMembership, SyncActive, SyncInactive, SyncAllowed
<1>4. CASE TelegramNext
    BY <1>1, <1>3, <1>4 DEF TelegramNext, TelegramChange, DropChatMember
<1>5. CASE JoinNext
    <2>1. ASSUME NEW v \in User, SyncWrite(v) PROVE FALSE
        BY <1>1, <1>2, <2>1 DEF SyncWrite, Enroll
    <2>2. ASSUME NEW v \in User, JoinCommit(v) PROVE FALSE
        BY <1>1, <1>2, <2>2 DEF JoinCommit, SyncActive, SyncAllowed, Enroll
    <2>3. ASSUME NEW v \in User, NEW m \in Human, CreateNation(v, m) PROVE FALSE
        BY <1>2, <2>3 DEF CreateNation, FoundingWrites, IndexAllows
    <2>4. ASSUME NEW v \in User, NEW m \in AI, JoinAI(v, m) PROVE FALSE
        BY <1>2, <2>4 DEF JoinAI, IndexAllows
    <2>. QED BY <1>1, <1>5, <2>1, <2>2, <2>3, <2>4
             DEF JoinNext, RegisterUser, SyncRead, RegisterWithoutSync, JoinLookup
<1>6. CASE ManageNext
    <2>1. ASSUME NEW v \in User, KickCommit(v) PROVE holding'[u][n] # "funded"
        <3>1. op[v].target \in User
            BY <2>1, OpMoves DEF KickCommit, Op, Kicking
        <3>2. /\ activeIn' = [activeIn EXCEPT ![op[v].target] = @ \ {op[v].nation}]
              /\ holding' = [holding EXCEPT ![op[v].target][op[v].nation] = Liquidated(@)]
            BY <1>1, <2>1 DEF KickCommit
        <3>3. op[v].target = u /\ op[v].nation = n
            BY <1>0, <3>1, <3>2
        <3>. QED BY <1>0, <3>2, <3>3 DEF Liquidated
    <2>2. ASSUME NEW v \in User, DissolveCommit(v) PROVE holding'[u][n] # "funded"
        <3>1. /\ activeIn' = [t \in User |-> IF t \in Citizens(op[v].nation)
                                  THEN activeIn[t] \ {op[v].nation} ELSE activeIn[t]]
              /\ holding' = [t \in User |-> IF t \in Citizens(op[v].nation)
                                  THEN [holding[t] EXCEPT ![op[v].nation] = Liquidated(@)]
                                  ELSE holding[t]]
            BY <1>1, <2>2 DEF DissolveCommit
        <3>2. op[v].nation = n /\ u \in Citizens(n)
            BY <3>1
        <3>. QED BY <1>0, <3>1, <3>2 DEF Liquidated
    <2>. QED BY <1>1, <1>6, <2>1, <2>2 DEF ManageNext, KickRead, RoleRead, DissolveRead, KickCheck,
                               RoleCommit, TelegramBan, TelegramUnban
<1>7. CASE AccountNext
    <2>1. ASSUME NEW v \in User, NEW m \in Nation, RepairMembership(v, m) PROVE FALSE
        BY <1>2, <2>1 DEF RepairMembership
    <2>. QED BY <1>1, <1>7, <2>1 DEF AccountNext, PointHome, BuyCurrency, SellCurrency, ChangeHome,
                                     AdminSetHome, RepairScript
<1>8. CASE SystemNext
    BY <1>1, <1>8 DEF SystemNext, ReconcileRead, ReconcileWrite, RateRead, RateWrite, Restart
<1>9. CASE UNCHANGED vars
    BY <1>1, <1>9 DEF vars
<1>. QED BY <1>4, <1>5, <1>6, <1>7, <1>8, <1>9 DEF Next

(* Telegram's clock numbers its updates: the stamps stay apart, lost or repeated *)
(* updates and restarts of the bot included.                                     *)
LEMMA StampsStep ==
    ASSUME TypeOK, StampsInv, [Next]_vars PROVE StampsInv'
<1>0. inflight \subseteq Update /\ clock \in Nat /\ \A e \in inflight : e.at \in Nat
    BY DEF TypeOK, Update
<1>1. ASSUME inflight' \subseteq inflight, clock' \in {clock, clock + 1} PROVE StampsInv'
    BY <1>0, <1>1 DEF StampsInv
<1>2. ASSUME NEW u \in User, NEW n \in Human, NEW s \in Status, Post(u, n, s) PROVE StampsInv'
    <2>. DEFINE new == [nation |-> n, user |-> u, status |-> s, at |-> clock]
    <2>1. inflight' = inflight \cup {new} /\ clock' = clock + 1 /\ new.at = clock
        BY <1>2 DEF Post
    <2>. HIDE DEF new
    <2>2. \A e \in inflight : e.at < clock
        BY DEF StampsInv
    <2>3. \A e \in inflight' : e.at < clock'
        BY <1>0, <2>1, <2>2
    <2>4. ASSUME NEW e \in inflight', NEW f \in inflight', e.at = f.at PROVE e = f
        BY <1>0, <2>1, <2>2, <2>4 DEF StampsInv
    <2>. QED BY <2>3, <2>4 DEF StampsInv
<1>3. CASE UNCHANGED telegramVars
    BY <1>1, <1>3 DEF telegramVars
<1>4. ASSUME NEW e \in inflight, NEW again \in BOOLEAN, HandleChatMember(e, again) PROVE StampsInv'
    BY <1>1, <1>4 DEF HandleChatMember, Consume
<1>5. ASSUME NEW e \in inflight, DropChatMember(e) PROVE StampsInv'
    BY <1>1, <1>5 DEF DropChatMember, Consume
<1>6. CASE Restart
    BY <1>1, <1>6 DEF Restart
<1>. QED BY <1>2, <1>3, <1>4, <1>5, <1>6, WhoTells

(* What is recorded follows the citizenships, without the resolver. *)
LEMMA RecordedStep ==
    ASSUME CitizenshipInv, RecordedInv, "resolve" \notin Features, [Next]_vars
    PROVE  RecordedInv'
<1>0. /\ TypeOK /\ proj \in [Human -> [User -> Status \cup {"absent"}]]
      /\ NoPartialCitizenship
    BY DEF CitizenshipInv, TypeOK, RowsInv
<1>1. ASSUME NEW u \in User, op[u].step = "syncing", NEW n \in Human
      PROVE  proj'[n][u] = proj[n][u]
    <2>1. ASSUME NEW v \in User, NEW m \in Human, NEW s, v # u, proj' = [proj EXCEPT ![m][v] = s]
          PROVE  proj'[n][u] = proj[n][u]
        BY <1>0, <2>1
    <2>2. ASSUME NEW e \in inflight, NEW again \in BOOLEAN, HandleChatMember(e, again)
          PROVE  proj'[n][u] = proj[n][u]
        <3>1. e.user \in User /\ e.nation \in Human
            BY <1>0 DEF TypeOK, Update
        <3>2. e.user # u
            BY <1>1, <2>2 DEF HandleChatMember, Free
        <3>3. proj' = [proj EXCEPT ![e.nation][e.user] = "member"]
              \/ proj' = [proj EXCEPT ![e.nation][e.user] = e.status]
            BY <2>2 DEF HandleChatMember, SyncMembership, SyncActive, SyncInactive
        <3>. QED BY <2>1, <3>1, <3>2, <3>3
    <2>3. ASSUME NEW v \in User, JoinCommit(v), SyncActive(v, op[v].nation)
          PROVE  proj'[n][u] = proj[n][u]
        <3>1. v # u /\ op[v].nation \in Human
            BY <1>0, <1>1, <2>3, OpMoves DEF JoinCommit, Op
        <3>. QED BY <2>1, <2>3, <3>1 DEF SyncActive
    <2>4. ASSUME NEW v \in User, NEW m \in Human, CreateNation(v, m)
          PROVE  proj'[n][u] = proj[n][u]
        <3>1. v # u
            BY <1>1, <2>4 DEF CreateNation, Free
        <3>. QED BY <2>1, <2>4, <3>1 DEF CreateNation, FoundingWrites
    <2>. QED BY <2>2, <2>3, <2>4, WhoRecords
<1>2. ASSUME NEW u \in User, op'[u].step = "syncing", NEW n \in op'[u].rows
      PROVE  proj'[n][u] = "member"
    <2>1. CASE op'[u] = op[u]
        <3>1. n \in Human
            BY <1>0, <1>2, <2>1, OpMoves DEF Op
        <3>. QED BY <1>1, <1>2, <2>1, <3>1 DEF RecordedInv
    <2>2. CASE op'[u] # op[u]
        <3>1. ~NoneStarts({"syncing"})
            BY <1>2, <2>2 DEF NoneStarts
        <3>2. PICK v \in User : SyncRead(v)
            BY <1>0, <3>1, Starters
        <3>3. v = u
            BY <1>0, <2>2, <3>2 DEF SyncRead, Start, TypeOK
        <3>4. op'[u].rows = {m \in Human : proj[m][u] = "member" /\ nationState[m] = "active"}
            BY <1>0, <3>2, <3>3 DEF SyncRead, Start, TypeOK
        <3>5. proj' = proj
            BY <3>2 DEF SyncRead
        <3>. QED BY <1>2, <3>4, <3>5
    <2>. QED BY <2>1, <2>2
<1>3. ASSUME NEW u \in User, NEW n \in activeIn'[u] \cap Human PROVE proj'[n][u] = "member"
    <2>1. CASE n \notin activeIn[u]
        <3>1. proj'[n][u] = "member" \/ (SyncWrite(u) /\ n \in op[u].rows)
            <4>1. n \in Nation /\ n \in Human /\ n \in activeIn'[u]
                BY <1>3
            <4>. QED BY <1>0, <2>1, <4>1, WhoAdmits
        <3>2. CASE SyncWrite(u) /\ n \in op[u].rows
            BY <3>2 DEF SyncWrite, RecordedInv
        <3>. QED BY <3>1, <3>2
    <2>2. CASE n \in activeIn[u]
        <3>0. u \in registered /\ proj[n][u] = "member"
            BY <1>0, <2>2 DEF NoPartialCitizenship, RecordedInv
        <3>1. ASSUME NEW v \in User, NEW m \in Human, proj' = [proj EXCEPT ![m][v] = "member"]
              PROVE  proj'[n][u] = "member"
            BY <1>0, <3>0, <3>1
        <3>2. ASSUME NEW e \in inflight, NEW again \in BOOLEAN, HandleChatMember(e, again)
              PROVE  proj'[n][u] = "member"
            <4>0. e.user \in User /\ e.nation \in Human
                BY <1>0 DEF TypeOK, Update
            <4>1. CASE e.status = "member"
                BY <3>1, <3>2, <4>0, <4>1 DEF HandleChatMember, SyncMembership, SyncActive
            <4>2. CASE e.status # "member"
                <5>1. /\ proj' = [proj EXCEPT ![e.nation][e.user] = e.status]
                      /\ e.user \in registered => Expel(e.user, e.nation, e.status)
                    BY <3>2, <4>2 DEF HandleChatMember, SyncMembership, SyncInactive
                <5>2. ~(e.user = u /\ e.nation = n)
                    BY <1>0, <1>3, <3>0, <5>1 DEF Expel, TypeOK
                <5>. QED BY <1>0, <3>0, <4>0, <5>1, <5>2
            <4>. QED BY <4>1, <4>2
        <3>3. ASSUME NEW v \in User, JoinCommit(v), SyncActive(v, op[v].nation)
              PROVE  proj'[n][u] = "member"
            <4>1. op[v].nation \in Human
                BY <1>0, <3>3, OpMoves DEF JoinCommit, Op
            <4>. QED BY <3>1, <3>3, <4>1 DEF SyncActive
        <3>4. ASSUME NEW v \in User, NEW m \in Human, CreateNation(v, m)
              PROVE  proj'[n][u] = "member"
            BY <3>1, <3>4 DEF CreateNation, FoundingWrites
        <3>. QED BY <3>0, <3>2, <3>3, <3>4, WhoRecords
    <2>. QED BY <2>1, <2>2
<1>. QED BY <1>2, <1>3 DEF RecordedInv

(* What Telegram still has to tell, and what it has told. *)
LEMMA ToldStep ==
    ASSUME CitizenshipInv, StampsInv, ToldInv, Ordered,
           Features \cap {"join", "found", "restart"} = {}, [Next]_vars
    PROVE  ToldInv'
<1>. DEFINE P(u, n) == Pending(u, n)
<1>0. /\ TypeOK /\ inflight \subseteq Update /\ clock \in Nat
      /\ proj \in [Human -> [User -> Status \cup {"absent"}]]
      /\ truth \in [Human -> [User -> Status]]
      /\ \A e \in inflight : e.at \in Nat
    BY DEF CitizenshipInv, TypeOK, Update
<1>1. \A u \in User : op'[u].step # "joining"
    <2>1. \A u \in User, n \in Human : ~JoinLookup(u, n)
        BY DEF JoinLookup
    <2>2. NoneStarts({"joining"})
        BY <1>0, <2>1, Starters
    <2>. QED BY <2>2 DEF NoneStarts, ToldInv
<1>2. /\ \A u \in User : ~JoinCommit(u)
      /\ \A u \in User, n \in Human : ~CreateNation(u, n)
      /\ ~Restart
    BY DEF JoinCommit, CreateNation, Restart, ToldInv
<1>3. \A n \in Human : nationState'[n] = "active" => nationState[n] = "active"
    <2>1. nationState' = nationState \/ \E u \in User : DissolveCommit(u)
        BY <1>0, <1>2, WhoFoundsAndDissolves
    <2>2. nationState \in [Nation -> {"absent", "active", "dissolved"}]
        BY <1>0 DEF TypeOK
    <2>. QED BY <2>1, <2>2 DEF DissolveCommit
<1>4. ASSUME UNCHANGED <<truth, inflight>>, UNCHANGED proj, NEW u \in User, NEW n \in Human
      PROVE  ToldAt(u, n)'
    BY <1>3, <1>4 DEF ToldInv, ToldAt, Pending
<1>5. ASSUME NEW v \in User, NEW m \in Human, NEW s \in Status, Post(v, m, s),
             UNCHANGED <<proj, nationState>>, NEW u \in User, NEW n \in Human
      PROVE  ToldAt(u, n)'
    <2>. DEFINE new == [nation |-> m, user |-> v, status |-> s, at |-> clock]
    <2>1. /\ truth' = [truth EXCEPT ![m][v] = s] /\ inflight' = inflight \cup {new}
          /\ new.at = clock /\ new.nation = m /\ new.user = v /\ new.status = s
        BY <1>5 DEF Post
    <2>. HIDE DEF new
    <2>2. CASE u = v /\ n = m
        <3>1. new \in Pending(u, n)' /\ truth'[n][u] = s
            BY <1>0, <2>1, <2>2 DEF Pending
        <3>2. \A f \in Pending(u, n)' : f.at <= clock
            BY <1>0, <2>1 DEF Pending, StampsInv
        <3>. QED BY <2>1, <3>1, <3>2 DEF ToldAt
    <2>3. CASE ~(u = v /\ n = m)
        <3>1. Pending(u, n)' = Pending(u, n)
            BY <2>1, <2>3 DEF Pending
        <3>2. truth'[n][u] = truth[n][u]
            BY <1>0, <2>1, <2>3
        <3>. QED BY <1>5, <3>1, <3>2 DEF ToldInv, ToldAt
    <2>. QED BY <2>2, <2>3
\* An update that is used up: the last one says where the user is.
<1>6. ASSUME NEW e \in inflight, Deliverable(e), inflight' = inflight \ {e}, UNCHANGED <<truth, nationState>>,
             NEW u \in User, NEW n \in Human,
             e.user = u /\ e.nation = n =>
                 \/ proj'[n][u] = e.status
                 \/ proj'[n][u] = proj[n][u] /\ (nationState[n] = "active" => e.status = "member"),
             ~(e.user = u /\ e.nation = n) => proj'[n][u] = proj[n][u]
      PROVE  ToldAt(u, n)'
    <2>1. CASE ~(e.user = u /\ e.nation = n)
        <3>1. Pending(u, n)' = Pending(u, n)
            BY <1>6, <2>1 DEF Pending
        <3>. QED BY <1>6, <2>1, <3>1 DEF ToldInv, ToldAt
    <2>2. CASE e.user = u /\ e.nation = n
        <3>1. e \in Pending(u, n) /\ Pending(u, n)' = Pending(u, n) \ {e}
            BY <1>6, <2>2 DEF Pending
        <3>2. PICK f \in Pending(u, n) : f.status = truth[n][u] /\ \A g \in Pending(u, n) : g.at <= f.at
            BY <3>1 DEF ToldInv, ToldAt
        <3>3. \A g \in Pending(u, n) : e.at <= g.at /\ g \in inflight
            BY <1>6, <2>2 DEF Deliverable, Pending
        <3>4. CASE f = e
            <4>1. \A g \in Pending(u, n) : g = e
                <5>1. ASSUME NEW g \in Pending(u, n) PROVE g.at = e.at
                    <6>1. e.at <= g.at /\ g.at <= e.at
                        BY <3>2, <3>3, <3>4
                    <6>2. e.at \in Nat /\ g.at \in Nat
                        BY <1>0, <3>3
                    <6>. QED BY <6>1, <6>2
                <5>. QED BY <3>1, <3>3, <5>1 DEF StampsInv
            <4>2. Pending(u, n)' = {}
                BY <3>1, <4>1
            <4>. QED BY <1>6, <2>2, <3>2, <3>4, <4>2 DEF ToldAt
        <3>5. CASE f # e
            <4>1. f \in Pending(u, n)'
                BY <3>1, <3>5
            <4>. QED BY <1>6, <3>1, <3>2, <4>1 DEF ToldAt
        <3>. QED BY <3>4, <3>5
    <2>. QED BY <2>1, <2>2
<1>7. ASSUME NEW e \in inflight, NEW again \in BOOLEAN, HandleChatMember(e, again),
             NEW u \in User, NEW n \in Human
      PROVE  ToldAt(u, n)'
    <2>0. e.user \in User /\ e.nation \in Human
        BY <1>0 DEF Update
    <2>1. proj' = [proj EXCEPT ![e.nation][e.user] = e.status]
        BY <1>7 DEF HandleChatMember, SyncMembership, SyncActive, SyncInactive
    <2>2. UNCHANGED <<truth, nationState>> /\ Deliverable(e)
        BY <1>7 DEF HandleChatMember, nationVars
    <2>3. CASE inflight' = inflight \ {e}
        BY <1>0, <1>6, <2>0, <2>1, <2>2, <2>3
    <2>4. CASE inflight' = inflight
        <3>1. Pending(u, n)' = Pending(u, n)
            BY <2>4 DEF Pending
        <3>2. CASE e.user = u /\ e.nation = n
            <4>1. Pending(u, n) # {}
                BY <3>2 DEF Pending
            <4>. QED BY <2>2, <3>1, <4>1 DEF ToldInv, ToldAt
        <3>3. CASE ~(e.user = u /\ e.nation = n)
            <4>1. proj'[n][u] = proj[n][u]
                BY <1>0, <2>0, <2>1, <3>3
            <4>. QED BY <2>2, <3>1, <4>1 DEF ToldInv, ToldAt
        <3>. QED BY <3>2, <3>3
    <2>. QED BY <1>7, <2>3, <2>4 DEF HandleChatMember, Consume
<1>8. ASSUME NEW e \in inflight, DropChatMember(e), NEW u \in User, NEW n \in Human
      PROVE  ToldAt(u, n)'
    <2>1. /\ Deliverable(e) /\ inflight' = inflight \ {e} /\ UNCHANGED <<truth, nationState, proj>>
          /\ nationState[e.nation] = "active" => e.status = "member"
        BY <1>8 DEF DropChatMember, Consume, SyncAllowed, nationVars
    <2>. QED BY <1>6, <2>1
<1>9. ASSUME NEW u \in User, NEW n \in Human PROVE ToldAt(u, n)'
    <2>1. CASE UNCHANGED telegramVars
        <3>1. UNCHANGED <<truth, inflight>>
            BY <2>1 DEF telegramVars
        <3>2. CASE UNCHANGED proj
            BY <1>4, <3>1, <3>2
        <3>. QED BY <1>2, <1>7, <3>2, WhoRecords
    <2>. QED BY <1>0, <1>2, <1>5, <1>7, <1>8, <2>1, WhoTells
<1>. QED BY <1>1, <1>9 DEF ToldInv

(* Where updates come in Telegram's order and nothing but the group makes citizens *)
(* of a human nation, a citizen of one about whom Telegram has nothing more to     *)
(* tell is in its group.                                                           *)
THEOREM CitizensAreInTheGroup ==
    ASSUME Ordered, Features \cap {"join", "found", "restart", "resolve"} = {}
    PROVE  Spec => []HumanCitizenBacked
<1>. USE DEF GroupInv
<1>1. Init => GroupInv
    <2>. SUFFICES ASSUME Init PROVE GroupInv
        OBVIOUS
    <2>1. StampsInv
        BY DEF Init, StampsInv
    <2>2. \A u \in User : op[u].step = "idle"
        BY DEF Init, Idle
    <2>3. \A u \in User, n \in Human :
              /\ proj[n][u] = "member" <=> InitialFounder[n] = u
              /\ truth[n][u] = "member" <=> InitialFounder[n] = u
        BY DEF Init, InitiallyIn
    <2>4. ASSUME NEW u \in User, NEW n \in activeIn[u] \cap Human PROVE InitialFounder[n] = u
        BY DEF Init, InitiallyHome
    <2>5. RecordedInv
        BY <2>2, <2>3, <2>4 DEF RecordedInv
    <2>6. ToldInv
        BY <2>2, <2>3 DEF ToldInv, ToldAt, Pending, Init
    <2>. QED BY <2>1, <2>5, <2>6
<1>2. CitizenshipInv /\ GroupInv /\ [Next]_vars => GroupInv'
    BY StampsStep, RecordedStep, ToldStep DEF CitizenshipInv
<1>3. GroupInv => HumanCitizenBacked
    <2>. SUFFICES ASSUME GroupInv, NEW u \in User, NEW n \in activeIn[u] \cap Human,
                         Settled(u, n), nationState[n] = "active"
                  PROVE  truth[n][u] = "member"
        BY DEF HumanCitizenBacked
    <2>1. Pending(u, n) = {}
        BY DEF Settled, Pending
    <2>2. proj[n][u] = "member"
        BY DEF RecordedInv
    <2>. QED BY <2>1, <2>2 DEF ToldInv, ToldAt
<1>. QED BY <1>1, <1>2, <1>3, CitizenshipInvariant, PTL DEF Spec

(* Whoever the group removes has nothing left in the nation's currency, unless they  *)
(* had left before; where updates come in order and the resolver makes no citizens.  *)
THEOREM KicksLiquidate ==
    ASSUME Ordered, "resolve" \notin Features
    PROVE  Spec => KickLiquidates
<1>. DEFINE Inv == StampsInv /\ RecordedInv
            Act == \A u \in User : \A n \in Human :
                      KickUnderway(u, n) /\ n \in activeIn[u] /\ n \notin activeIn'[u]
                      /\ ~LeftBefore(u, n) => holding'[u][n] # "funded"
<1>1. Init => Inv
    <2>. SUFFICES ASSUME Init PROVE Inv
        OBVIOUS
    <2>1. StampsInv
        BY DEF Init, StampsInv
    <2>2. \A u \in User : op[u].step = "idle"
        BY DEF Init, Idle
    <2>3. ASSUME NEW u \in User, NEW n \in activeIn[u] \cap Human PROVE proj[n][u] = "member"
        BY DEF Init, InitiallyHome, InitiallyIn
    <2>. QED BY <2>1, <2>2, <2>3 DEF RecordedInv
<1>2. CitizenshipInv /\ Inv /\ [Next]_vars => Inv'
    BY StampsStep, RecordedStep DEF CitizenshipInv
<1>3. CitizenshipInv /\ Inv /\ [Next]_vars => Act
    <2>. SUFFICES ASSUME CitizenshipInv, Inv, [Next]_vars, NEW u \in User, NEW n \in Human,
                         n \in activeIn[u], n \notin activeIn'[u], ~LeftBefore(u, n),
                         holding'[u][n] = "funded"
                  PROVE  FALSE
        OBVIOUS
    <2>0. /\ TypeOK /\ n \in Nation
          /\ holding \in [User -> [Nation -> {"absent", "empty", "funded"}]]
          /\ inflight \subseteq Update
        BY DEF CitizenshipInv, TypeOK
    <2>1. PICK e \in inflight, again \in BOOLEAN :
              HandleChatMember(e, again) /\ e.user = u /\ e.nation = n /\ Expel(u, n, e.status)
        BY <2>0, WhoReleases
    <2>2. proj[n][u] = "member"
        BY DEF RecordedInv
    <2>3. e.status # "kicked"
        <3>1. WasActive(u, n)
            BY <2>2 DEF WasActive
        <3>. QED BY <2>0, <2>1, <3>1 DEF Expel, Liquidated
    <2>4. e.status # "member"
        <3>1. ASSUME e.status = "member" PROVE activeIn' = activeIn \/ n \in activeIn'[u]
            BY <2>0, <2>1, <3>1 DEF HandleChatMember, SyncMembership, SyncActive, Enroll, gameVars, TypeOK
        <3>. QED BY <3>1
    <2>5. e.status = "left"
        BY <2>0, <2>3, <2>4 DEF Update, Status
    <2>6. ASSUME NEW f \in inflight, f.nation = n, f.user = u, f.status = "kicked" PROVE e.at < f.at
        <3>1. e.at <= f.at
            BY <2>1, <2>6 DEF HandleChatMember, Deliverable
        <3>2. e.at # f.at
            BY <2>5, <2>6 DEF StampsInv
        <3>3. e.at \in Nat /\ f.at \in Nat
            BY <2>0 DEF Update
        <3>. QED BY <3>1, <3>2, <3>3
    <2>. QED BY <2>1, <2>5, <2>6 DEF LeftBefore
<1>4. Spec => []Inv
    BY <1>1, <1>2, CitizenshipInvariant, PTL DEF Spec
<1>5. CitizenshipInv /\ Inv /\ [Next]_vars => [Act]_vars
    BY <1>3
<1>6. Spec => [][Act]_vars
    <2>. HIDE DEF Act, Inv
    <2>. QED BY <1>4, <1>5, CitizenshipInvariant, PTL DEF Spec
<1>. QED BY <1>6 DEF KickLiquidates

(* Without registrations, which write what they read without the nation's lock, no  *)
(* dissolved nation has a citizen: neither the others that join nor the resolver    *)
(* let one in, and the dissolution releases them all.                               *)
THEOREM DissolvedIsEmpty ==
    ASSUME "register" \notin Features PROVE Spec => []NoCitizenOfDissolved
<1>. DEFINE Inv == NobodyRegisters /\ NoCitizenOfDissolved
<1>1. Init => Inv
    <2>. SUFFICES ASSUME Init PROVE Inv
        OBVIOUS
    <2>1. \A u \in User : op[u].step = "idle"
        BY DEF Init, Idle
    <2>2. ASSUME NEW u \in User, NEW n \in activeIn[u] PROVE nationState[n] # "dissolved"
        <3>1. n \in Human
            BY DEF Init, InitiallyHome
        <3>. QED BY <3>1 DEF Init
    <2>. QED BY <2>1, <2>2 DEF NobodyRegisters, NoCitizenOfDissolved
<1>2. ASSUME CitizenshipInv, Inv, [Next]_vars PROVE Inv'
    <2>0. /\ TypeOK /\ NoPartialCitizenship
          /\ activeIn \in [User -> SUBSET Nation]
          /\ nationState \in [Nation -> {"absent", "active", "dissolved"}]
        BY <1>2 DEF CitizenshipInv, RowsInv, TypeOK
    <2>1. NobodyRegisters'
        <3>1. \A u \in User : ~RegisterUser(u) /\ ~SyncRead(u)
            BY <1>2 DEF RegisterUser, SyncRead, NobodyRegisters
        <3>2. NoneStarts({"registered", "syncing"})
            BY <1>2, <2>0, <3>1, Starters
        <3>. QED BY <1>2, <3>2 DEF NoneStarts, NobodyRegisters
    <2>2. ASSUME NEW u \in User, NEW n \in Nation, n \in activeIn'[u], nationState'[n] = "dissolved"
          PROVE  FALSE
        <3>1. CASE n \notin activeIn[u]
            <4>1. ~SyncWrite(u)
                BY <1>2 DEF SyncWrite, NobodyRegisters
            <4>. QED BY <1>2, <2>0, <2>2, <3>1, <4>1, WhoAdmits
        <3>2. CASE n \in activeIn[u]
            <4>1. nationState[n] # "dissolved" /\ u \in registered
                BY <1>2, <2>0, <3>2 DEF NoCitizenOfDissolved, NoPartialCitizenship
            <4>2. PICK v \in User : DissolveCommit(v)
                <5>1. ASSUME NEW v \in User, NEW m \in Human, CreateNation(v, m) PROVE FALSE
                    BY <2>0, <2>2, <4>1, <5>1 DEF CreateNation, FoundingWrites
                <5>. QED BY <1>2, <2>0, <2>2, <4>1, <5>1, WhoFoundsAndDissolves
            <4>3. /\ nationState' = [nationState EXCEPT ![op[v].nation] = "dissolved"]
                  /\ activeIn' = [t \in User |-> IF t \in Citizens(op[v].nation)
                                    THEN activeIn[t] \ {op[v].nation} ELSE activeIn[t]]
                BY <2>2, <4>1, <4>2 DEF DissolveCommit
            <4>4. op[v].nation = n /\ u \in Citizens(n)
                BY <2>0, <2>2, <3>2, <4>1, <4>3 DEF Citizens
            <4>. QED BY <2>2, <4>3, <4>4
        <3>. QED BY <3>1, <3>2
    <2>3. NoCitizenOfDissolved'
        <3>1. \A u \in User : activeIn'[u] \subseteq Nation
            <4>1. TypeOK'
                BY <1>2, TypeStep DEF CitizenshipInv
            <4>. QED BY <4>1 DEF TypeOK
        <3>. QED BY <2>2, <3>1 DEF NoCitizenOfDissolved
    <2>. QED BY <2>1, <2>3
<1>3. Inv => NoCitizenOfDissolved
    OBVIOUS
<1>. HIDE DEF Inv
<1>. QED BY <1>1, <1>2, <1>3, CitizenshipInvariant, PTL DEF Spec

(* Who gives somebody the role of a minister or a trader. *)
LEMMA WhoAppoints ==
    ASSUME TypeOK, [Next]_vars, NEW u \in User, NEW n \in Nation,
           NEW r \in {"minister", "trader"}, memberRole'[u][n] = r, memberRole[u][n] # r
    PROVE  \E a \in User : RoleCommit(a)
                /\ MayAppoint(op[a].held, op[a].target, op[a].nation, op[a].asked)
<1>. USE DEF gameVars
<1>0. memberRole \in [User -> [Nation -> MemberRole \cup {"none"}]]
    BY DEF TypeOK
<1>1. ~UNCHANGED memberRole
    OBVIOUS
<1>2. ASSUME NEW v \in User, NEW m, NEW x \in {"citizen", "founder"},
             memberRole' = [memberRole EXCEPT ![v][m] = x]
      PROVE  FALSE
    BY <1>0, <1>2
<1>3. ASSUME NEW v \in User, NEW m, Enroll(v, m) PROVE FALSE
    <2>1. memberRole' = [memberRole EXCEPT ![v][m] = EnsuredRole(v, m)]
        BY <1>3 DEF Enroll
    <2>2. CASE memberRole[v][m] # "none"
        BY <1>0, <2>1, <2>2 DEF EnsuredRole
    <2>3. CASE memberRole[v][m] = "none"
        BY <1>2, <2>1, <2>3 DEF EnsuredRole
    <2>. QED BY <2>2, <2>3
<1>4. CASE TelegramNext
    <2>1. ASSUME NEW e \in inflight, NEW again \in BOOLEAN, HandleChatMember(e, again) PROVE FALSE
        <3>1. e.user \in User
            BY DEF TypeOK, Update
        <3>. QED BY <1>1, <1>3, <2>1, <3>1
                 DEF HandleChatMember, SyncMembership, SyncActive, SyncInactive, Expel
    <2>. QED BY <1>1, <1>4, <2>1 DEF TelegramNext, TelegramChange, DropChatMember
<1>5. CASE JoinNext
    <2>1. ASSUME NEW v \in User, SyncWrite(v) \/ JoinCommit(v) PROVE FALSE
        BY <1>1, <1>3, <2>1 DEF SyncWrite, JoinCommit, SyncActive
    <2>2. ASSUME NEW v \in User, NEW m \in Human, CreateNation(v, m) PROVE FALSE
        BY <1>2, <2>2 DEF CreateNation, FoundingWrites
    <2>3. ASSUME NEW v \in User, NEW m \in AI, JoinAI(v, m) PROVE FALSE
        BY <1>2, <2>3 DEF JoinAI
    <2>. QED BY <1>1, <1>5, <2>1, <2>2, <2>3
             DEF JoinNext, RegisterUser, SyncRead, RegisterWithoutSync, JoinLookup
<1>6. CASE ManageNext
    <2>1. ASSUME NEW v \in User, KickCommit(v) \/ DissolveCommit(v) PROVE FALSE
        BY <1>1, <2>1 DEF KickCommit, DissolveCommit
    <2>2. ASSUME NEW v \in User, RoleCommit(v)
          PROVE  MayAppoint(op[v].held, op[v].target, op[v].nation, op[v].asked)
        BY <1>1, <2>2 DEF RoleCommit
    <2>. QED BY <1>1, <1>6, <2>1, <2>2 DEF ManageNext, KickRead, RoleRead, DissolveRead, KickCheck,
                               TelegramBan, TelegramUnban
<1>7. CASE AccountNext
    <2>1. ASSUME NEW v \in User, NEW m \in Nation, RepairMembership(v, m) PROVE FALSE
        BY <1>2, <2>1 DEF RepairMembership, RepairRole
    <2>. QED BY <1>1, <1>7, <2>1 DEF AccountNext, PointHome, BuyCurrency, SellCurrency, ChangeHome,
                                     AdminSetHome, RepairScript
<1>8. CASE SystemNext
    BY <1>1, <1>8 DEF SystemNext, ReconcileRead, ReconcileWrite, RateRead, RateWrite, Restart
<1>9. CASE UNCHANGED vars
    BY <1>1, <1>9 DEF vars
<1>. QED BY <1>4, <1>5, <1>6, <1>7, <1>8, <1>9 DEF Next

(* A nation gets more ministers or traders than the limit only when one returns who *)
(* kept the role: appointments, at once or on a stale reading, do not go over it.   *)
THEOREM AppointmentsKeepLimits == Spec => LimitsBrokenOnlyByReturn
<1>. DEFINE Act == \A n \in Nation : \A r \in {"minister", "trader"} :
                       Crowded(n, r)' /\ ~Crowded(n, r) => Returns(n, r)
<1>1. ASSUME CitizenshipInv, [Next]_vars PROVE Act
    <2>. SUFFICES ASSUME NEW n \in Nation, NEW r \in {"minister", "trader"},
                         ~Crowded(n, r), ~Returns(n, r)
                  PROVE  ~Crowded(n, r)'
        OBVIOUS
    <2>. DEFINE H == Holders(n, r)
                Limit == IF r = "minister" THEN MinisterLimit ELSE TraderLimit
    <2>0. /\ TypeOK /\ memberRole \in [User -> [Nation -> MemberRole \cup {"none"}]]
        BY <1>1 DEF CitizenshipInv, TypeOK
    <2>1. IsFiniteSet(H) /\ Cardinality(H) \in Nat /\ H \subseteq User
        <3>1. H \subseteq User
            BY DEF Holders
        <3>. QED BY <3>1, SortsAssumption, FS_Subset, FS_CardinalityType
    <2>2. Limit \in Nat /\ Cardinality(H) <= Limit
        BY <2>1, BoundsAssumption DEF Crowded
    <2>3. ASSUME \A u \in User : memberRole'[u][n] = r => memberRole[u][n] = r
          PROVE  Cardinality(Holders(n, r)') <= Limit
        <3>1. Holders(n, r)' \subseteq H
            BY <2>3 DEF Holders, Returns
        <3>2. Cardinality(Holders(n, r)') <= Cardinality(H) /\ IsFiniteSet(Holders(n, r)')
            BY <2>1, <3>1, FS_Subset
        <3>3. Cardinality(Holders(n, r)') \in Nat
            BY <3>2, FS_CardinalityType
        <3>. QED BY <2>1, <2>2, <3>2, <3>3
    <2>4. ASSUME NEW u \in User, memberRole'[u][n] = r, memberRole[u][n] # r
          PROVE  Cardinality(Holders(n, r)') <= Limit
        <3>1. PICK a \in User : RoleCommit(a)
                   /\ MayAppoint(op[a].held, op[a].target, op[a].nation, op[a].asked)
            BY <1>1, <2>0, <2>4, WhoAppoints
        <3>2. /\ memberRole' = [memberRole EXCEPT ![op[a].target][op[a].nation] = op[a].asked]
              /\ activeIn' = activeIn
            BY <3>1 DEF RoleCommit
        <3>3. op[a].target = u /\ op[a].nation = n /\ op[a].asked = r
            BY <2>0, <2>4, <3>2
        <3>4. Cardinality(H) < Limit
            BY <3>1, <3>3 DEF MayAppoint, WithinLimit
        <3>5. Holders(n, r)' \subseteq H \cup {u}
            BY <2>0, <3>2, <3>3 DEF Holders
        <3>6. IsFiniteSet(H \cup {u}) /\ Cardinality(H \cup {u}) <= Cardinality(H) + 1
            <4>1. /\ IsFiniteSet(H \cup {u})
                  /\ u \in H => Cardinality(H \cup {u}) = Cardinality(H)
                  /\ u \notin H => Cardinality(H \cup {u}) = Cardinality(H) + 1
                <5>. HIDE DEF H
                <5>. QED BY <2>1, FS_AddElement
            <4>2. Cardinality(H) \in Nat
                BY <2>1
            <4>. QED BY <4>1, <4>2
        <3>7. /\ Cardinality(Holders(n, r)') <= Cardinality(H \cup {u})
              /\ IsFiniteSet(Holders(n, r)')
            BY <3>5, <3>6, FS_Subset
        <3>8. Cardinality(Holders(n, r)') \in Nat /\ Cardinality(H \cup {u}) \in Nat
            BY <3>6, <3>7, FS_CardinalityType
        <3>. QED BY <2>1, <2>2, <3>4, <3>6, <3>7, <3>8
    <2>5. Cardinality(Holders(n, r)') <= Limit /\ Cardinality(Holders(n, r)') \in Nat
        <3>1. Holders(n, r)' \subseteq User
            BY DEF Holders
        <3>2. Cardinality(Holders(n, r)') \in Nat
            BY <3>1, SortsAssumption, FS_Subset, FS_CardinalityType
        <3>. QED BY <2>3, <2>4, <3>2
    <2>. QED BY <2>2, <2>5 DEF Crowded
<1>2. CitizenshipInv /\ [Next]_vars => [Act]_vars
    BY <1>1
<1>3. Spec => [][Act]_vars
    <2>. HIDE DEF Act
    <2>. QED BY <1>2, CitizenshipInvariant, PTL DEF Spec
<1>. QED BY <1>3 DEF LimitsBrokenOnlyByReturn

=============================================================================
