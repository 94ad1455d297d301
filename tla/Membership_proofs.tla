------------------------- MODULE Membership_proofs -------------------------
(***************************************************************************)
(* Theorems about Membership, for every set of users and nations, every     *)
(* number of changes in Telegram, any delivery order and any selection of   *)
(* handlers; what needs the admin panel's override off says so.             *)
(***************************************************************************)
EXTENDS Membership, FiniteSetTheorems, TLAPS

(* Every kind of nation is a nation. *)
LEMMA Nations == Human \subseteq Nation /\ AI \subseteq Nation
BY DEF Nation

USE Nations

(* Telegram's total is a number. *)
LEMMA PopulationType ==
    ASSUME TypeOK, NEW n \in Human PROVE Population(n) \in Nat
<1>1. IsFiniteSet({u \in User : truth[n][u] = "member"})
    BY FS_Subset, SortsAssumption
<1>2. Cardinality({u \in User : truth[n][u] = "member"}) \in Nat
    BY <1>1, FS_CardinalityType
<1>. QED BY <1>2 DEF Population

(* So is the projection's. *)
LEMMA RecordedType ==
    ASSUME TypeOK, NEW n \in Human PROVE Recorded(n) \in Nat
<1>1. IsFiniteSet({u \in User : proj[n][u] = "member"})
    BY FS_Subset, SortsAssumption
<1>. QED BY <1>1, FS_CardinalityType DEF Recorded

(* The counter stops at zero. *)
LEMMA Minus1Type == \A k \in Nat : Minus1(k) \in Nat
BY DEF Minus1

(* Enrolling keeps the shape of what it changes. *)
LEMMA EnrollType ==
    ASSUME TypeOK, NEW u \in User, NEW n \in Nation, Enroll(u, n)
    PROVE  /\ home' \in [User -> Nation \cup {NoNation}]
           /\ userRole' \in [User -> UserRole]
           /\ activeIn' \in [User -> SUBSET Nation]
           /\ memberRole' \in [User -> [Nation -> MemberRole \cup {"none"}]]
           /\ holding' \in [User -> [Nation -> {"absent", "empty", "funded"}]]
<1>1. EnsuredRole(u, n) \in MemberRole
    BY DEF TypeOK, EnsuredRole, MemberRole
<1>2. holding' \in [User -> [Nation -> {"absent", "empty", "funded"}]]
    BY DEF TypeOK, Enroll, Opened
<1>3. memberRole' \in [User -> [Nation -> MemberRole \cup {"none"}]]
    BY <1>1 DEF TypeOK, Enroll
<1>4. home' \in [User -> Nation \cup {NoNation}]
    BY DEF TypeOK, Enroll
<1>5. activeIn' \in [User -> SUBSET Nation]
    BY DEF TypeOK, Enroll
<1>6. userRole' \in [User -> UserRole]
    BY DEF TypeOK, Enroll, UserRole, MemberRole
<1>. QED BY <1>2, <1>3, <1>4, <1>5, <1>6

LEMMA SyncType ==
    ASSUME TypeOK, NEW u \in User, NEW n \in Human, NEW s \in Status,
           SyncMembership(u, n, s)
    PROVE  /\ home' \in [User -> Nation \cup {NoNation}]
           /\ userRole' \in [User -> UserRole]
           /\ activeIn' \in [User -> SUBSET Nation]
           /\ memberRole' \in [User -> [Nation -> MemberRole \cup {"none"}]]
           /\ holding' \in [User -> [Nation -> {"absent", "empty", "funded"}]]
           /\ proj' \in [Human -> [User -> Status \cup {"absent"}]]
           /\ count' \in [Nation -> Nat]
<1>1. CASE s = "member"
    <2>1. SyncActive(u, n)
        BY <1>1 DEF SyncMembership
    <2>2. proj' \in [Human -> [User -> Status \cup {"absent"}]]
        BY <2>1 DEF TypeOK, SyncActive, Status
    <2>3. count' \in [Nation -> Nat]
        BY <2>1 DEF TypeOK, SyncActive
    <2>4. CASE u \in registered
        BY <2>1, <2>2, <2>3, <2>4, EnrollType DEF SyncActive
    <2>5. CASE u \notin registered
        BY <2>1, <2>2, <2>3, <2>5 DEF SyncActive, gameVars, TypeOK
    <2>. QED BY <2>4, <2>5
<1>2. CASE s # "member"
    <2>1. SyncInactive(u, n, s)
        BY <1>2 DEF SyncMembership
    <2>2. proj' \in [Human -> [User -> Status \cup {"absent"}]]
        BY <2>1 DEF TypeOK, SyncInactive
    <2>3. count' \in [Nation -> Nat]
        BY <2>1, Minus1Type DEF TypeOK, SyncInactive
    <2>4. CASE u \in registered
        <3>1. Expel(u, n, s)
            BY <2>1, <2>4 DEF SyncInactive
        <3>2. Fallback(u, n) \subseteq Nation
            BY DEF Fallback, TypeOK
        <3>3. Fallback(u, n) # {} =>
                (CHOOSE m \in Fallback(u, n) : TRUE) \in Nation
            BY <3>2
        <3>4. home' \in [User -> Nation \cup {NoNation}]
            BY <3>1, <3>3 DEF Expel, TypeOK
        <3>5. holding' \in [User -> [Nation -> {"absent", "empty", "funded"}]]
            BY <3>1 DEF Expel, TypeOK, Liquidated
        <3>. QED BY <2>2, <2>3, <3>1, <3>4, <3>5 DEF Expel, TypeOK, UserRole
    <2>5. CASE u \notin registered
        BY <2>1, <2>2, <2>3, <2>5 DEF SyncInactive, gameVars, TypeOK
    <2>. QED BY <2>4, <2>5
<1>. QED BY <1>1, <1>2

(* A posted update is one. *)
LEMMA PostType ==
    ASSUME TypeOK, NEW u \in User, NEW n \in Human, NEW s \in Status, Post(u, n, s)
    PROVE  /\ truth' \in [Human -> [User -> Status]]
           /\ inflight' \subseteq Update
           /\ clock' \in Nat
BY DEF TypeOK, Post, Update

(* A handler's record keeps its shape when it is finished or moves on. *)
LEMMA OpMoves ==
    ASSUME TypeOK, NEW u \in User
    PROVE  /\ Finish(u) => op' \in [User -> Op]
           /\ \A st \in Kicking :
                  op[u].step \in Kicking /\ Advance(u, st) => op' \in [User -> Op]
           /\ op[u] \in Op
<1>1. op \in [User -> Op] /\ op[u] \in Op
    BY DEF TypeOK
<1>2. Idle \in Op
    BY DEF Idle, Op, Steps, Kicking
<1>3. Finish(u) => op' \in [User -> Op]
    BY <1>1, <1>2 DEF Finish
<1>4. ASSUME NEW st \in Kicking, op[u].step \in Kicking, Advance(u, st)
      PROVE  op' \in [User -> Op]
    <2>1. [op[u] EXCEPT !.step = st] \in Op
        BY <1>1, <1>4 DEF Op, Kicking, Steps
    <2>. QED BY <1>1, <1>4, <2>1 DEF Advance
<1>. QED BY <1>1, <1>3, <1>4

(* The initial state has the types; founders are unique, so every initial home *)
(* is a nation.                                                                *)
LEMMA InitType == Init => TypeOK
<1>. SUFFICES ASSUME Init PROVE TypeOK
    OBVIOUS
<1>1. home \in [User -> Nation \cup {NoNation}]
    <2>1. \A u \in User : InitiallyHome(u) # {} =>
              (CHOOSE n \in InitiallyHome(u) : TRUE) \in Nation
        BY DEF InitiallyHome
    <2>. QED BY <2>1 DEF Init
<1>2. op \in [User -> Op]
    BY DEF Init, Idle, Op, Steps, Kicking
<1>3. registered \subseteq User
    BY FoundersAssumption DEF Init, Founders
<1>4. activeIn \in [User -> SUBSET Nation]
    BY DEF Init, InitiallyHome
<1>5. /\ memberRole \in [User -> [Nation -> MemberRole \cup {"none"}]]
      /\ userRole \in [User -> UserRole]
    BY DEF Init, MemberRole, UserRole
<1>6. /\ holding \in [User -> [Nation -> {"absent", "empty", "funded"}]]
      /\ proj \in [Human -> [User -> Status \cup {"absent"}]]
      /\ truth \in [Human -> [User -> Status]]
    BY DEF Init, Status
<1>7. founder \in [Nation -> User \cup {NoUser}]
    BY FoundersAssumption DEF Init
<1>8. nationState \in [Nation -> {"absent", "active", "dissolved"}]
    BY DEF Init
<1>9. /\ count \in [Nation -> Nat] /\ clock \in Nat
      /\ inflight \subseteq Update /\ counted \in [Human -> SUBSET Total]
    BY DEF Init
<1>. QED BY <1>1, <1>2, <1>3, <1>4, <1>5, <1>6, <1>7, <1>8, <1>9 DEF TypeOK

LEMMA TelegramNextType == TypeOK /\ TelegramNext => TypeOK'
<1>. SUFFICES ASSUME TypeOK, TelegramNext PROVE TypeOK'
    OBVIOUS
<1>1. ASSUME NEW u \in User, NEW n \in Human, NEW s \in Status, TelegramChange(u, n, s)
      PROVE  TypeOK'
    <2>1. Post(u, n, s)
        BY <1>1 DEF TelegramChange
    <2>. QED BY <1>1, <2>1, PostType DEF TelegramChange, TypeOK, gameVars, nationVars
<1>2. ASSUME NEW e \in inflight, NEW again \in BOOLEAN, HandleChatMember(e, again)
      PROVE  TypeOK'
    <2>1. e.user \in User /\ e.nation \in Human /\ e.status \in Status
        BY DEF TypeOK, Update
    <2>2. SyncMembership(e.user, e.nation, e.status)
        BY <1>2 DEF HandleChatMember
    <2>3. inflight' \subseteq inflight
        BY <1>2 DEF HandleChatMember, Consume
    <2>. QED BY <1>2, <2>1, <2>2, <2>3, SyncType DEF HandleChatMember, TypeOK, nationVars
<1>3. ASSUME NEW e \in inflight, DropChatMember(e) PROVE TypeOK'
    BY <1>3 DEF DropChatMember, Consume, TypeOK, gameVars, nationVars
<1>. QED BY <1>1, <1>2, <1>3 DEF TelegramNext

LEMMA JoinNextType == TypeOK /\ JoinNext => TypeOK'
<1>. SUFFICES ASSUME TypeOK, JoinNext PROVE TypeOK'
    OBVIOUS
<1>. USE DEF telegramVars, nationVars, gameVars
<1>1. ASSUME NEW u \in User, RegisterUser(u) PROVE TypeOK'
    <2>1. op' \in [User -> Op]
        BY <1>1 DEF RegisterUser, Start, TypeOK, Op, Steps, Kicking
    <2>. QED BY <1>1, <2>1 DEF RegisterUser, TypeOK
<1>2. ASSUME NEW u \in User, SyncRead(u) PROVE TypeOK'
    <2>1. op' \in [User -> Op]
        BY <1>2 DEF SyncRead, Start, TypeOK, Op, Steps, Kicking
    <2>. QED BY <1>2, <2>1 DEF SyncRead, TypeOK
<1>3. ASSUME NEW u \in User, SyncWrite(u) PROVE TypeOK'
    <2>1. op' \in [User -> Op] /\ op[u].rows \subseteq Nation
        BY <1>3, OpMoves DEF SyncWrite, Op
    <2>2. CASE \E n \in op[u].rows : Enroll(u, n)
        BY <1>3, <2>1, <2>2, EnrollType DEF SyncWrite, TypeOK
    <2>3. CASE UNCHANGED gameVars
        BY <1>3, <2>1, <2>3 DEF SyncWrite, TypeOK
    <2>. QED BY <1>3, <2>2, <2>3 DEF SyncWrite
<1>4. ASSUME NEW u \in User, RegisterWithoutSync(u) PROVE TypeOK'
    BY <1>4 DEF RegisterWithoutSync, TypeOK
<1>5. ASSUME NEW u \in User, NEW n \in Human, JoinLookup(u, n) PROVE TypeOK'
    <2>1. op' \in [User -> Op]
        BY <1>5 DEF JoinLookup, Start, TypeOK, Op, Steps, Kicking
    <2>. QED BY <1>5, <2>1 DEF JoinLookup, TypeOK
<1>6. ASSUME NEW u \in User, JoinCommit(u) PROVE TypeOK'
    <2>1. op' \in [User -> Op] /\ op[u].nation \in Nation \cup {NoNation}
        BY <1>6, OpMoves DEF JoinCommit, Op
    <2>4. op[u].nation \in Human
        BY <1>6, OpMoves DEF JoinCommit, Op
    <2>2. CASE SyncActive(u, op[u].nation)
        <3>1. SyncMembership(u, op[u].nation, "member") /\ "member" \in Status
            BY <2>2 DEF SyncMembership, Status
        <3>. QED BY <1>6, <2>1, <2>4, <3>1, SyncType DEF JoinCommit, TypeOK, Status
    <2>3. CASE UNCHANGED <<gameVars, proj, count>>
        BY <1>6, <2>1, <2>3 DEF JoinCommit, TypeOK
    <2>. QED BY <1>6, <2>2, <2>3 DEF JoinCommit
<1>7. ASSUME NEW u \in User, NEW n \in Human, CreateNation(u, n) PROVE TypeOK'
    BY <1>7 DEF CreateNation, FoundingWrites, TypeOK, UserRole, MemberRole, Status
<1>8. ASSUME NEW u \in User, NEW n \in AI, JoinAI(u, n) PROVE TypeOK'
    <2>1. holding' \in [User -> [Nation -> {"absent", "empty", "funded"}]]
        BY <1>8 DEF JoinAI, TypeOK, Opened
    <2>2. /\ memberRole' \in [User -> [Nation -> MemberRole \cup {"none"}]]
          /\ userRole' \in [User -> UserRole]
        BY <1>8 DEF JoinAI, TypeOK, UserRole, MemberRole
    <2>3. count' \in [Nation -> Nat]
        BY <1>8 DEF JoinAI, TypeOK
    <2>. QED BY <1>8, <2>1, <2>2, <2>3 DEF JoinAI, TypeOK
<1>. QED BY <1>1, <1>2, <1>3, <1>4, <1>5, <1>6, <1>7, <1>8 DEF JoinNext

LEMMA ManageNextType == TypeOK /\ ManageNext => TypeOK'
<1>. SUFFICES ASSUME TypeOK, ManageNext PROVE TypeOK'
    OBVIOUS
<1>. USE DEF telegramVars, nationVars, gameVars
<1>1. ASSUME NEW u \in User, NEW t \in User, NEW n \in Human, KickRead(u, n, t)
      PROVE  TypeOK'
    <2>1. op' \in [User -> Op]
        BY <1>1 DEF KickRead, Start, TypeOK, Op, Steps, Kicking
    <2>. QED BY <1>1, <2>1 DEF KickRead, TypeOK
<1>2. ASSUME NEW u \in User, NEW t \in User, NEW n \in Human,
             NEW r \in Appointable, RoleRead(u, n, t, r)
      PROVE  TypeOK'
    <2>1. op' \in [User -> Op]
        BY <1>2 DEF RoleRead, Start, TypeOK, Op, Steps, Kicking, Appointable, MemberRole
    <2>. QED BY <1>2, <2>1 DEF RoleRead, TypeOK
<1>3. ASSUME NEW u \in User, NEW n \in Human, DissolveRead(u, n) PROVE TypeOK'
    <2>1. op' \in [User -> Op]
        BY <1>3 DEF DissolveRead, Start, TypeOK, Op, Steps, Kicking, MemberRole
    <2>. QED BY <1>3, <2>1 DEF DissolveRead, TypeOK
<1>4. ASSUME NEW u \in User, KickCheck(u) PROVE TypeOK'
    <2>1. op' \in [User -> Op]
        BY <1>4, OpMoves DEF KickCheck, Kicking
    <2>. QED BY <1>4, <2>1 DEF KickCheck, TypeOK
<1>5. ASSUME NEW u \in User, KickCommit(u) PROVE TypeOK'
    <2>1. /\ op' \in [User -> Op]
          /\ op[u].nation \in Human /\ op[u].target \in User
        BY <1>5, OpMoves DEF KickCommit, Op, Kicking
    <2>2. CASE op[u].nation \in activeIn[op[u].target]
        <3>. DEFINE n == op[u].nation
                    t == op[u].target
        <3>1. /\ holding' = [holding EXCEPT ![t][n] = Liquidated(@)]
              /\ activeIn' = [activeIn EXCEPT ![t] = @ \ {n}]
              /\ home' = [home EXCEPT ![t] = NoNation]
              /\ userRole' = [userRole EXCEPT ![t] = "player"]
              /\ count' = [count EXCEPT ![n] = Minus1(@)]
              /\ memberRole' = memberRole
            BY <1>5, <2>2 DEF KickCommit
        <3>2. n \in Human /\ t \in User
            BY <2>1
        <3>. HIDE DEF n, t
        <3>3. holding' \in [User -> [Nation -> {"absent", "empty", "funded"}]]
            BY <3>1, <3>2 DEF TypeOK, Liquidated
        <3>4. count' \in [Nation -> Nat]
            BY <3>1, <3>2, Minus1Type DEF TypeOK
        <3>5. /\ activeIn' \in [User -> SUBSET Nation]
              /\ home' \in [User -> Nation \cup {NoNation}]
              /\ userRole' \in [User -> UserRole]
            BY <3>1, <3>2 DEF TypeOK, UserRole
        <3>. QED BY <1>5, <2>1, <3>1, <3>3, <3>4, <3>5 DEF KickCommit, TypeOK
    <2>3. CASE op[u].nation \notin activeIn[op[u].target]
        BY <1>5, <2>1, <2>3 DEF KickCommit, TypeOK
    <2>. QED BY <2>2, <2>3
<1>6. ASSUME NEW u \in User, RoleCommit(u) PROVE TypeOK'
    <2>1. /\ op' \in [User -> Op]
          /\ op[u].nation \in Human /\ op[u].target \in User
          /\ op[u].asked \in Appointable
        BY <1>6, OpMoves DEF RoleCommit, Op
    <2>2. CASE UNCHANGED gameVars
        BY <1>6, <2>1, <2>2 DEF RoleCommit, TypeOK
    <2>3. CASE /\ memberRole' = [memberRole EXCEPT ![op[u].target][op[u].nation] = op[u].asked]
               /\ userRole' = [userRole EXCEPT ![op[u].target] = op[u].asked]
               /\ UNCHANGED <<home, activeIn, holding>>
        <3>1. memberRole' \in [User -> [Nation -> MemberRole \cup {"none"}]]
            BY <2>1, <2>3 DEF TypeOK, MemberRole, Appointable
        <3>2. userRole' \in [User -> UserRole]
            BY <2>1, <2>3 DEF TypeOK, UserRole, MemberRole, Appointable
        <3>. QED BY <1>6, <2>1, <2>3, <3>1, <3>2 DEF RoleCommit, TypeOK
    <2>. QED BY <1>6, <2>2, <2>3 DEF RoleCommit
<1>7. ASSUME NEW u \in User, DissolveCommit(u) PROVE TypeOK'
    <2>1. op' \in [User -> Op] /\ op[u].nation \in Human
        BY <1>7, OpMoves DEF DissolveCommit, Op
    <2>2. CASE nationState[op[u].nation] = "active"
        <3>. DEFINE n == op[u].nation
        <3>1. /\ holding' = [t \in User |-> IF t \in Citizens(n)
                     THEN [holding[t] EXCEPT ![n] = Liquidated(@)] ELSE holding[t]]
              /\ activeIn' = [t \in User |-> IF t \in Citizens(n)
                     THEN activeIn[t] \ {n} ELSE activeIn[t]]
              /\ home' = [t \in User |-> IF t \in Citizens(n) THEN NoNation ELSE home[t]]
              /\ userRole' = [t \in User |-> IF t \in Citizens(n) THEN "player"
                                             ELSE userRole[t]]
              /\ count' = [count EXCEPT ![n] = 0]
              /\ nationState' = [nationState EXCEPT ![n] = "dissolved"]
              /\ memberRole' = memberRole
            BY <1>7, <2>2 DEF DissolveCommit
        <3>2. n \in Human
            BY <2>1
        <3>. HIDE DEF n
        <3>3. \A t \in User : [holding[t] EXCEPT ![n] = Liquidated(@)]
                  \in [Nation -> {"absent", "empty", "funded"}]
            BY <3>2 DEF TypeOK, Liquidated
        <3>4. holding' \in [User -> [Nation -> {"absent", "empty", "funded"}]]
            BY <3>1, <3>3 DEF TypeOK
        <3>5. /\ activeIn' \in [User -> SUBSET Nation]
              /\ home' \in [User -> Nation \cup {NoNation}]
              /\ userRole' \in [User -> UserRole]
            BY <3>1 DEF TypeOK, UserRole
        <3>6. /\ count' \in [Nation -> Nat]
              /\ nationState' \in [Nation -> {"absent", "active", "dissolved"}]
            BY <3>1, <3>2 DEF TypeOK
        <3>. QED BY <1>7, <2>1, <3>1, <3>4, <3>5, <3>6 DEF DissolveCommit, TypeOK
    <2>3. CASE nationState[op[u].nation] # "active"
        BY <1>7, <2>1, <2>3 DEF DissolveCommit, TypeOK
    <2>. QED BY <2>2, <2>3
<1>8. ASSUME NEW u \in User, NEW ok \in BOOLEAN, TelegramBan(u, ok) PROVE TypeOK'
    <2>1. /\ op' \in [User -> Op]
          /\ op[u].nation \in Human /\ op[u].target \in User
        BY <1>8, OpMoves DEF TelegramBan, Op, Kicking
    <2>2. /\ truth' \in [Human -> [User -> Status]]
          /\ inflight' \subseteq Update
          /\ clock' \in Nat
        <3>1. CASE Post(op[u].target, op[u].nation, "kicked")
            BY <2>1, <3>1, PostType DEF Status
        <3>2. CASE UNCHANGED telegramVars
            BY <3>2 DEF TypeOK
        <3>. QED BY <1>8, <3>1, <3>2 DEF TelegramBan
    <2>. QED BY <1>8, <2>1, <2>2 DEF TelegramBan, TypeOK
<1>9. ASSUME NEW u \in User, NEW ok \in BOOLEAN, TelegramUnban(u, ok) PROVE TypeOK'
    <2>1. /\ op' \in [User -> Op]
          /\ op[u].nation \in Human /\ op[u].target \in User
        BY <1>9, OpMoves DEF TelegramUnban, Op, Kicking
    <2>2. /\ truth' \in [Human -> [User -> Status]]
          /\ inflight' \subseteq Update
          /\ clock' \in Nat
        <3>1. CASE Post(op[u].target, op[u].nation, "left")
            BY <2>1, <3>1, PostType DEF Status
        <3>2. CASE UNCHANGED telegramVars
            BY <3>2 DEF TypeOK
        <3>. QED BY <1>9, <3>1, <3>2 DEF TelegramUnban
    <2>. QED BY <1>9, <2>1, <2>2 DEF TelegramUnban, TypeOK
<1>. QED BY <1>1, <1>2, <1>3, <1>4, <1>5, <1>6, <1>7, <1>8, <1>9 DEF ManageNext

LEMMA AccountNextType == TypeOK /\ AccountNext => TypeOK'
<1>. SUFFICES ASSUME TypeOK, AccountNext PROVE TypeOK'
    OBVIOUS
<1>. USE DEF telegramVars, nationVars
<1>1. ASSUME NEW u \in User, NEW n \in Nation, RepairMembership(u, n) PROVE TypeOK'
    BY <1>1 DEF RepairMembership, RepairRole, TypeOK, UserRole, MemberRole
<1>2. ASSUME NEW u \in User, NEW n \in Nation, PointHome(u, n) PROVE TypeOK'
    BY <1>2 DEF PointHome, TypeOK
<1>3. ASSUME NEW u \in User, NEW n \in Nation, BuyCurrency(u, n) PROVE TypeOK'
    BY <1>3 DEF BuyCurrency, TypeOK
<1>4. ASSUME NEW u \in User, NEW n \in Nation, SellCurrency(u, n) PROVE TypeOK'
    BY <1>4 DEF SellCurrency, TypeOK
<1>5. ASSUME NEW u \in User, NEW n \in Nation, ChangeHome(u, n) PROVE TypeOK'
    BY <1>5 DEF ChangeHome, TypeOK
<1>6. ASSUME NEW u \in User, NEW n \in Nation \cup {NoNation}, AdminSetHome(u, n)
      PROVE  TypeOK'
    BY <1>6 DEF AdminSetHome, TypeOK
<1>7. ASSUME RepairScript PROVE TypeOK'
    BY <1>7 DEF RepairScript, TypeOK
<1>. QED BY <1>1, <1>2, <1>3, <1>4, <1>5, <1>6, <1>7 DEF AccountNext

LEMMA SystemNextType == TypeOK /\ SystemNext => TypeOK'
<1>. SUFFICES ASSUME TypeOK, SystemNext PROVE TypeOK'
    OBVIOUS
<1>. USE DEF telegramVars, nationVars, gameVars
<1>1. ASSUME NEW n \in Human, ReconcileRead(n) PROVE TypeOK'
    <2>1. [job |-> "reconcile", total |-> Population(n)] \in Total
        BY PopulationType DEF Total
    <2>. QED BY <1>1, <2>1 DEF ReconcileRead, Hold, TypeOK
<1>2. ASSUME NEW n \in Human, ReconcileWrite(n) \/ RateWrite(n) PROVE TypeOK'
    <2>1. PICK t \in counted[n] :
              /\ Release(n, t)
              /\ count' \in {count, [count EXCEPT ![n] = t.total]}
              /\ UNCHANGED <<registered, gameVars, proj, nationVars, telegramVars, op>>
        BY <1>2 DEF ReconcileWrite, RateWrite, Held
    <2>2. t.total \in Nat
        BY <2>1 DEF TypeOK, Total
    <2>. QED BY <2>1, <2>2 DEF Release, TypeOK
<1>4. ASSUME NEW n \in Human, RateRead(n) PROVE TypeOK'
    <2>1. [job |-> "rate", total |-> Recorded(n)] \in Total
        BY RecordedType DEF Total
    <2>. QED BY <1>4, <2>1 DEF RateRead, Hold, TypeOK
<1>3. ASSUME Restart PROVE TypeOK'
    <2>1. op' \in [User -> Op]
        BY <1>3 DEF Restart, Idle, Op, Steps, Kicking
    <2>. QED BY <1>3, <2>1 DEF Restart, TypeOK
<1>. QED BY <1>1, <1>2, <1>3, <1>4 DEF SystemNext

LEMMA TypeStep == TypeOK /\ [Next]_vars => TypeOK'
<1>1. TypeOK /\ UNCHANGED vars => TypeOK'
    BY DEF TypeOK, vars
<1>. QED BY <1>1, TelegramNextType, JoinNextType, ManageNextType, AccountNextType,
            SystemNextType DEF Next

(* The state of the bot, the database and Telegram keeps its types. *)
THEOREM TypeCorrect == Spec => []TypeOK
BY TypeStep, InitType, PTL DEF Spec

=============================================================================
