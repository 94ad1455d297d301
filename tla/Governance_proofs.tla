------------------------- MODULE Governance_proofs -------------------------
(*****************************************************************************)
(* Governance: what became of a proposal is what its votes say, the limit on *)
(* the number of laws, what returns after it was replaced, and when the      *)
(* cache shows another law than the one in force. The loops of the cycle,    *)
(* which go through the rows in any order, are dealt with by RunInduction.   *)
(*****************************************************************************)
EXTENDS Governance, Inductions, FiniteSetTheorems

Stati == {"none", "draft", "voting", "passed", "rejected", "expired", "active", "revoked"}
LawStates == {"none", "active", "suspended", "ended"}

------------------------------------------------------------------------------
(* The invariant *)

GovernanceTypes ==
    /\ status \in [Motion -> Stati] /\ law \in [Motion -> LawStates]
    /\ age \in [Motion -> 0..3] /\ about \in [Motion -> Rule \union {NoRule}]
    /\ votes \in [Motion -> [Voter -> {"none", "for", "against"}]]
    /\ cache \in [Rule -> Motion \union {0, NoEntry}]
    /\ hourOver \subseteq Motion /\ revoking \subseteq Motion
    /\ superseded \subseteq Motion \X Motion

\* What a status says of the votes.
Agrees(state, p) ==
    /\ state \in {"passed", "active", "revoked"} => Decision(p) = "passed"
    /\ state \in {"rejected", "expired"} => Decision(p) = state
    /\ state = "draft" => votes[p] = [v \in Voter |-> "none"]

OneLaw(L) == \A p, q \in Active(L) : about[p] = about[q] => p = q

\* The laws are those of proposals that passed; what is suspended was halted
\* by a jump, and no law whose hour is over is in force.
LawsOfRecord ==
    /\ \A p \in Motion : Agrees(status[p], p)
    /\ \A p \in Motion : status[p] = "none" => votes[p] = [v \in Voter |-> "none"]
    /\ \A p \in Motion : law[p] # "none" => status[p] \in {"active", "revoked"}
    /\ \A p \in Motion : law[p] = "suspended" => p \in halted
    /\ \A p \in hourOver : law[p] = "suspended"
    /\ OneLaw(law)

\* Of a pair of which one replaced the other while this was suspended.
PairOfLaws(L, pq) ==
    /\ pq \in Motion \X Motion /\ pq[1] # pq[2] /\ about[pq[1]] = about[pq[2]]
    /\ L[pq[1]] # "none" /\ L[pq[2]] # "none"

\* What the cycle has written and not committed: of the rows it locks, ...
PendingRows ==
    /\ cycle.touched \subseteq Motion
    /\ cycle.status \in [Motion -> Stati] /\ cycle.law \in [Motion -> LawStates]
    /\ \A p \in Motion \ cycle.touched : cycle.law[p] = law[p]
    /\ \A p \in cycle.touched : /\ status[p] # "none" /\ cycle.status[p] # "none"
                                /\ Agrees(cycle.status[p], p)
                                /\ cycle.law[p] # "none" =>
                                       cycle.status[p] \in {"active", "revoked"}

\* ... of the laws, ...
PendingLaws ==
    /\ OneLaw(cycle.law)
    /\ \A p \in Motion : cycle.law[p] = "suspended" => p \in halted \union cycle.stop
    /\ \A pq \in superseded \union cycle.pairs : PairOfLaws(cycle.law, pq)
    /\ cycle.ran = {} => \/ Cardinality(Active(cycle.law)) <= MaxLaws
                         \/ Cardinality(Active(cycle.law)) <= Cardinality(Active(law))

\* ... and of the rules: where the law in force is about to change, the cache is
\* empty or was filled in the meantime.
PendingRules ==
    /\ \A p \in Motion : about[p] \notin cycle.emptied =>
           (law[p] = "active" <=> cycle.law[p] = "active")
    /\ \A r \in Rule : r \in cycle.emptied => cache[r] = NoEntry \/ r \in early

Pending == cycle # NoCycle => revoking = {} /\ PendingRows /\ PendingLaws /\ PendingRules

RevokingLaws ==
    \A p \in revoking : /\ law[p] = "active"
                        /\ \A r \in Rule : about[p] = r => cache[r] = NoEntry \/ r \in early

GovernanceInv ==
    /\ GovernanceTypes /\ LawsOfRecord /\ Pending /\ RevokingLaws
    /\ \A pq \in superseded : PairOfLaws(law, pq)
    /\ StaleRuleOnlyByEarlyRead

\* An answer that resolve has yet to keep, and that no emptying has come after or is
\* waiting for its commit, is right, but for the time that has passed.
Readings ==
    /\ reading \in [Reader -> [rule : Rule \union {NoRule}, law : Motion \union {0, NoEntry},
                               missed : BOOLEAN]]
    /\ \A c \in Reader : Answered(c) =>
           LET r == reading[c].rule
               p == reading[c].law
           IN  /\ p \in Motion \union {0}
               /\ \/ reading[c].missed
                  \/ /\ ~Awaited(r)
                     /\ p = Resolved(r) \/ (p \in Motion /\ age[p] = 3)

------------------------------------------------------------------------------
(* The loops of the cycle *)

\* An order of rows is a sequence of them.
LEMMA OrdersAreSequences ==
    ASSUME NEW S \in SUBSET Motion, NEW order \in Orders(S)
    PROVE  Len(order) \in Nat /\ \A k \in 1..Len(order) : order[k] \in S
<1>1. IsFiniteSet(S)
    BY GovernanceAssumption, FS_Subset
<1>2. Cardinality(S) \in Nat
    BY <1>1, FS_CardinalityType
<1>3. order \in [1..Cardinality(S) -> S]
    BY DEF Orders
<1>4. order \in Seq(S) /\ Len(order) = Cardinality(S)
    BY <1>2, <1>3
<1>. QED BY <1>2, <1>3, <1>4

\* What is true of the laws while the suspended ones are gone through.
ResumeKeeps(L) ==
    /\ L \in [Motion -> LawStates] /\ OneLaw(L)
    /\ \A p \in Motion : L[p] # AfterBreaker[p] =>
           p \in Returning(AfterBreaker) /\ L[p] \in {"active", "ended"}

LEMMA BreakerKeeps ==
    ASSUME GovernanceTypes, OneLaw(law)
    PROVE  ResumeKeeps(AfterBreaker)
<1>1. AfterBreaker \in [Motion -> LawStates]
    BY DEF GovernanceTypes, AfterBreaker, LawStates
<1>2. Active(AfterBreaker) \subseteq Active(law)
    BY DEF Active, AfterBreaker
<1>3. OneLaw(AfterBreaker)
    BY <1>2 DEF OneLaw
<1>. QED BY <1>1, <1>3 DEF ResumeKeeps

LEMMA ResumeOneKeeps ==
    ASSUME NEW L, ResumeKeeps(L), NEW p \in Returning(AfterBreaker), GovernanceTypes
    PROVE  ResumeKeeps(ResumeOne(L, p))
<1>. DEFINE place == IF Conflicts(L, p) THEN "ended" ELSE "active"
            M == [L EXCEPT ![p] = place]
<1>1. p \in Motion /\ place \in {"active", "ended"} /\ L \in [Motion -> LawStates]
    BY DEF Returning, GovernanceTypes, ResumeKeeps
<1>2. place = "active" => ~ Conflicts(L, p)
    OBVIOUS
<1>. HIDE DEF place
<1>3. M \in [Motion -> LawStates] /\ M[p] = place /\ \A q \in Motion \ {p} : M[q] = L[q]
    BY <1>1 DEF LawStates
<1>4. ResumeOne(L, p) = M
    BY DEF ResumeOne, place
<1>. HIDE DEF M
<1>5. OneLaw(M)
    <2>. SUFFICES ASSUME NEW x \in Active(M), NEW y \in Active(M), about[x] = about[y], x # y
                  PROVE  FALSE
        BY DEF OneLaw
    <2>1. x \in Motion /\ y \in Motion /\ M[x] = "active" /\ M[y] = "active"
        BY DEF Active
    <2>2. CASE x # p /\ y # p
        <3>1. x \in Active(L) /\ y \in Active(L)
            BY <2>1, <2>2, <1>3 DEF Active
        <3>. QED BY <3>1 DEF ResumeKeeps, OneLaw
    <2>3. CASE x = p
        <3>1. y \in Active(L) \ {p}
            BY <2>1, <2>3, <1>3 DEF Active
        <3>. QED BY <3>1, <2>1, <2>3, <1>2, <1>3 DEF Conflicts
    <2>4. CASE y = p
        <3>1. x \in Active(L) \ {p}
            BY <2>1, <2>4, <1>3 DEF Active
        <3>. QED BY <3>1, <2>1, <2>4, <1>2, <1>3 DEF Conflicts
    <2>. QED BY <2>2, <2>3, <2>4
<1>6. \A q \in Motion : M[q] # AfterBreaker[q] =>
          q \in Returning(AfterBreaker) /\ M[q] \in {"active", "ended"}
    BY <1>1, <1>3 DEF ResumeKeeps
<1>. QED BY <1>3, <1>4, <1>5, <1>6 DEF ResumeKeeps

\* Going through the suspended laws, in any order, keeps it.
LEMMA AfterResumeKeeps ==
    ASSUME GovernanceTypes, OneLaw(law), NEW order \in Orders(Returning(AfterBreaker))
    PROVE  ResumeKeeps(AfterResume(order))
<1>. DEFINE n == Len(order)
            Laws == [Motion -> LawStates]
            J == {L \in Laws : ResumeKeeps(L)}
            D == [k \in 1..n |-> [L \in J |-> ResumeOne(L, order[k])]]
            F(f) == f = [k \in 0..n |-> IF k = 0 THEN AfterBreaker
                                        ELSE ResumeOne(f[k - 1], order[k])]
<1>1. n \in Nat /\ \A k \in 1..n : order[k] \in Returning(AfterBreaker)
    <2>1. Returning(AfterBreaker) \in SUBSET Motion
        BY DEF Returning, GovernanceTypes
    <2>. QED BY <2>1, OrdersAreSequences
<1>2. AfterBreaker \in J
    BY BreakerKeeps DEF ResumeKeeps
<1>3. \A k \in 1..n : \A L \in J : ResumeOne(L, order[k]) \in J
    <2>. SUFFICES ASSUME NEW k \in 1..n, NEW L \in J PROVE ResumeOne(L, order[k]) \in J
        OBVIOUS
    <2>1. ResumeKeeps(ResumeOne(L, order[k]))
        BY <1>1, ResumeOneKeeps
    <2>. QED BY <2>1 DEF ResumeKeeps
<1>4. \A k \in 1..n : \A L \in J : D[k][L] = ResumeOne(L, order[k])
    OBVIOUS
<1>5. IsSteps(D, n, J)
    BY <1>3 DEF IsSteps
<1>. HIDE DEF D, J, n
<1>6. PICK f : IsRun(f, n, J, AfterBreaker, D)
    BY <1>1, <1>2, <1>5, RunExists
<1>7. F(f)
    <2>1. ASSUME NEW k \in 0..n
          PROVE  f[k] = IF k = 0 THEN AfterBreaker ELSE ResumeOne(f[k - 1], order[k])
        <3>1. CASE k # 0
            <4>1. k \in 1..n /\ k - 1 \in 0..n
                BY <1>1, <3>1
            <4>. QED BY <4>1, <3>1, <1>4, <1>6 DEF IsRun
        <3>. QED BY <3>1, <1>6 DEF IsRun
    <2>2. f = [k \in 0..n |-> f[k]]
        BY <1>6 DEF IsRun
    <2>. QED BY <2>1, <2>2, Zenon
<1>8. PICK g : g = (CHOOSE h : F(h))
    OBVIOUS
<1>9. F(g)
    BY <1>7, <1>8
<1>10. AfterResume(order) = g[n]
    BY <1>8 DEF AfterResume, n
<1>11. g[0] = AfterBreaker /\ \A k \in 1..n : g[k] = ResumeOne(g[k - 1], order[k])
    BY <1>9, <1>1
<1>12. g[n] \in J
    <2>1. g[0] \in J
        BY <1>2, <1>11
    <2>2. \A k \in 1..n : g[k - 1] \in J => g[k] \in J
        BY <1>3, <1>11
    <2>. HIDE DEF F
    <2>. QED BY <2>1, <2>2, <1>1, RunInduction
<1>. QED BY <1>10, <1>12 DEF J

\* What is true of the laws, given those that were left after the suspended
\* ones, while what passed is activated.
ActivationKeeps(resume, s) ==
    /\ s.law \in [Motion -> LawStates] /\ s.made \subseteq Motion /\ OneLaw(s.law)
    /\ \A p \in s.made : AfterVoting[p] = "passed" /\ s.law[p] \in {"active", "ended"}
    /\ \A p \in Motion \ s.made :
           \/ s.law[p] = resume[p]
           \/ /\ resume[p] = "active" /\ s.law[p] = "ended"
              /\ \E q \in s.made : about[q] = about[p]
    /\ \/ Cardinality(Active(s.law)) <= MaxLaws
       \/ Cardinality(Active(s.law)) <= Cardinality(Active(resume))

LEMMA ActiveIsFinite ==
    ASSUME NEW L
    PROVE  IsFiniteSet(Active(L)) /\ Cardinality(Active(L)) \in Nat
<1>1. Active(L) \subseteq Motion
    BY DEF Active
<1>. QED BY <1>1, GovernanceAssumption, FS_Subset, FS_CardinalityType

\* One more element, after others were taken away.
LEMMA OneMore ==
    ASSUME NEW A, IsFiniteSet(A), NEW B \in SUBSET A, NEW p
    PROVE  /\ Cardinality((A \ B) \union {p}) <= Cardinality(A) + 1
           /\ B # {} => Cardinality((A \ B) \union {p}) <= Cardinality(A)
<1>1. IsFiniteSet(A \ B) /\ Cardinality(A) \in Nat
    BY FS_Subset, FS_CardinalityType, A \ B \subseteq A
<1>2. Cardinality(A \ B) \in Nat /\ Cardinality(A \ B) <= Cardinality(A)
    BY <1>1, FS_Subset, FS_CardinalityType, A \ B \subseteq A
<1>. DEFINE C == A \ B
<1>3. Cardinality(C \union {p}) <= Cardinality(C) + 1 /\ Cardinality(C \union {p}) \in Nat
    <2>1. IsFiniteSet(C) /\ Cardinality(C) \in Nat
        BY <1>1, <1>2
    <2>. HIDE DEF C
    <2>2. Cardinality(C \union {p}) = IF p \in C THEN Cardinality(C) ELSE Cardinality(C) + 1
        BY <2>1, FS_AddElement
    <2>. QED BY <2>1, <2>2
<1>4. ASSUME B # {} PROVE Cardinality(A \ B) < Cardinality(A)
    BY <1>4, FS_Subset, FS_CardinalityType, A \ B \subseteq A, A \ B # A
<1>. QED BY <1>1, <1>2, <1>3, <1>4

LEMMA ActivateOneKeeps ==
    ASSUME NEW resume, NEW s, ActivationKeeps(resume, s), NEW p \in Motion,
           AfterVoting[p] = "passed"
    PROVE  ActivationKeeps(resume, ActivateOne(s, p))
<1>. DEFINE old == {q \in Active(s.law) : about[q] = about[p]}
            M == [q \in Motion |-> IF q = p THEN "active" ELSE
                                   IF q \in old THEN "ended" ELSE s.law[q]]
            t == [law |-> M, made |-> s.made \union {p}]
<1>1. CASE p \in s.made \/ (old = {} /\ ~HasPlace(s.law))
    <2>1. ActivateOne(s, p) = s
        BY <1>1 DEF ActivateOne
    <2>. QED BY <2>1
<1>2. CASE p \notin s.made /\ (old # {} \/ HasPlace(s.law))
    <2>1. ActivateOne(s, p) = t
        BY <1>2 DEF ActivateOne
    <2>2. /\ M \in [Motion -> LawStates] /\ M[p] = "active"
          /\ \A q \in old \ {p} : M[q] = "ended"
          /\ \A q \in Motion \ (old \union {p}) : M[q] = s.law[q]
        BY DEF ActivationKeeps, LawStates, Active
    <2>3. \A q \in old : q \in Motion /\ s.law[q] = "active" /\ about[q] = about[p]
        BY DEF Active
    <2>4. \A q \in Motion : s.law[q] = "active" /\ about[q] = about[p] => q \in old
        BY DEF Active
    <2>5. t.law = M /\ t.made = s.made \union {p}
        OBVIOUS
    <2>6. Active(M) = (Active(s.law) \ old) \union {p}
        BY <2>2, <2>3, Zenon DEF Active
    <2>. HIDE DEF M, t
    <2>7. OneLaw(M)
        <3>. SUFFICES ASSUME NEW x \in Active(M), NEW y \in Active(M), about[x] = about[y]
                      PROVE  x = y
            BY DEF OneLaw
        <3>1. (x = p \/ x \in Active(s.law) \ old) /\ (y = p \/ y \in Active(s.law) \ old)
            BY <2>6
        <3>2. \A z \in Active(s.law) \ old : about[z] # about[p]
            OBVIOUS
        <3>3. CASE x \in Active(s.law) /\ y \in Active(s.law)
            BY <3>3 DEF ActivationKeeps, OneLaw
        <3>. QED BY <3>1, <3>2, <3>3
    <2>8. Cardinality(Active(M)) <= MaxLaws \/ Cardinality(Active(M)) <= Cardinality(Active(resume))
        <3>. DEFINE A == Active(s.law)
        <3>1. IsFiniteSet(A) /\ Cardinality(A) \in Nat /\ Cardinality(Active(M)) \in Nat
              /\ Cardinality(Active(resume)) \in Nat
            BY ActiveIsFinite
        <3>2. old \in SUBSET A
            OBVIOUS
        <3>3. MaxLaws \in Nat
            BY GovernanceAssumption
        <3>4. /\ Cardinality(Active(M)) <= Cardinality(A) + 1
              /\ old # {} => Cardinality(Active(M)) <= Cardinality(A)
            <4>. HIDE DEF A, old
            <4>. QED BY <2>6, <3>1, <3>2, OneMore DEF A
        <3>5. Cardinality(A) <= MaxLaws \/ Cardinality(A) <= Cardinality(Active(resume))
            BY DEF ActivationKeeps
        <3>6. CASE old # {}
            <4>. HIDE DEF old, A
            <4>. QED BY <3>1, <3>3, <3>4, <3>5, <3>6
        <3>7. CASE HasPlace(s.law)
            <4>1. Cardinality(A) < MaxLaws
                BY <3>7 DEF HasPlace
            <4>. HIDE DEF old, A
            <4>. QED BY <3>1, <3>3, <3>4, <4>1
        <3>. QED BY <1>2, <3>6, <3>7
    <2>9. \A q \in t.made : AfterVoting[q] = "passed" /\ t.law[q] \in {"active", "ended"}
        <3>. SUFFICES ASSUME NEW q \in s.made \union {p}
                      PROVE  AfterVoting[q] = "passed" /\ M[q] \in {"active", "ended"}
            BY <2>5
        <3>1. CASE q = p
            BY <3>1, <2>2
        <3>2. CASE q # p
            <4>1. q \in s.made /\ q \in Motion /\ s.law[q] \in {"active", "ended"}
                  /\ AfterVoting[q] = "passed"
                BY <3>2 DEF ActivationKeeps
            <4>2. M[q] = "ended" \/ M[q] = s.law[q]
                BY <3>2, <4>1, <2>2
            <4>. QED BY <4>1, <4>2
        <3>. QED BY <3>1, <3>2
    <2>10. ASSUME NEW q \in Motion \ t.made
           PROVE  \/ t.law[q] = resume[q]
                  \/ /\ resume[q] = "active" /\ t.law[q] = "ended"
                     /\ \E x \in t.made : about[x] = about[q]
        <3>1. q # p /\ q \in Motion \ s.made /\ p \in t.made
            BY <2>5
        <3>2. \/ s.law[q] = resume[q]
              \/ /\ resume[q] = "active" /\ s.law[q] = "ended"
                 /\ \E x \in s.made : about[x] = about[q]
            BY <3>1 DEF ActivationKeeps
        <3>3. CASE q \in old
            <4>1. s.law[q] = "active" /\ about[q] = about[p] /\ M[q] = "ended"
                BY <3>3, <3>1, <2>2, <2>3
            <4>2. resume[q] = "active"
                BY <4>1, <3>2
            <4>. QED BY <4>1, <4>2, <3>1, <2>5
        <3>4. CASE q \notin old
            <4>1. M[q] = s.law[q]
                BY <3>4, <3>1, <2>2
            <4>. QED BY <4>1, <3>2, <2>5
        <3>. QED BY <3>3, <3>4
    <2>11. s.made \union {p} \subseteq Motion
        BY DEF ActivationKeeps
    <2>. QED BY <2>1, <2>2, <2>5, <2>7, <2>8, <2>9, <2>10, <2>11 DEF ActivationKeeps
<1>. QED BY <1>1, <1>2

\* Activating them one after the other, in any order, keeps it.
LEMMA ActivatedKeeps ==
    ASSUME NEW resume, NEW s \in [law : [Motion -> LawStates], made : SUBSET Motion],
           ActivationKeeps(resume, s),
           NEW S \in SUBSET Motion, \A p \in S : AfterVoting[p] = "passed",
           NEW order \in Orders(S)
    PROVE  /\ Activated(s, order) \in [law : [Motion -> LawStates], made : SUBSET Motion]
           /\ ActivationKeeps(resume, Activated(s, order))
<1>. DEFINE n == Len(order)
            J == {t \in [law : [Motion -> LawStates], made : SUBSET Motion] :
                      ActivationKeeps(resume, t)}
            D == [k \in 1..n |-> [t \in J |-> ActivateOne(t, order[k])]]
            F(f) == f = [k \in 0..n |-> IF k = 0 THEN s ELSE ActivateOne(f[k - 1], order[k])]
<1>1. n \in Nat /\ \A k \in 1..n : order[k] \in S
    BY OrdersAreSequences
<1>2. s \in J
    OBVIOUS
<1>3. \A k \in 1..n : \A t \in J : ActivateOne(t, order[k]) \in J
    <2>. SUFFICES ASSUME NEW k \in 1..n, NEW t \in J PROVE ActivateOne(t, order[k]) \in J
        OBVIOUS
    <2>1. order[k] \in Motion /\ AfterVoting[order[k]] = "passed" /\ ActivationKeeps(resume, t)
        BY <1>1
    <2>2. ActivationKeeps(resume, ActivateOne(t, order[k]))
        BY <2>1, ActivateOneKeeps
    <2>3. ActivateOne(t, order[k]) = t \/ \E M, made : ActivateOne(t, order[k]) = [law |-> M, made |-> made]
        BY DEF ActivateOne
    <2>. QED BY <2>2, <2>3 DEF ActivationKeeps
<1>4. \A k \in 1..n : \A t \in J : D[k][t] = ActivateOne(t, order[k])
    OBVIOUS
<1>5. IsSteps(D, n, J)
    <2>. HIDE DEF J
    <2>. QED BY <1>3 DEF IsSteps
<1>. HIDE DEF D, J, n
<1>6. PICK f : IsRun(f, n, J, s, D)
    BY <1>1, <1>2, <1>5, RunExists
<1>7. F(f)
    <2>1. ASSUME NEW k \in 0..n
          PROVE  f[k] = IF k = 0 THEN s ELSE ActivateOne(f[k - 1], order[k])
        <3>1. CASE k # 0
            <4>1. k \in 1..n /\ k - 1 \in 0..n
                BY <1>1, <3>1
            <4>. QED BY <4>1, <3>1, <1>4, <1>6 DEF IsRun
        <3>. QED BY <3>1, <1>6 DEF IsRun
    <2>2. f = [k \in 0..n |-> f[k]]
        BY <1>6 DEF IsRun
    <2>. QED BY <2>1, <2>2, Zenon
<1>8. PICK g : g = (CHOOSE h : F(h))
    OBVIOUS
<1>9. F(g)
    BY <1>7, <1>8
<1>10. Activated(s, order) = g[n]
    BY <1>8 DEF Activated, n
<1>11. g[0] = s /\ \A k \in 1..n : g[k] = ActivateOne(g[k - 1], order[k])
    BY <1>9, <1>1
<1>12. g[n] \in J
    <2>1. g[0] \in J
        BY <1>2, <1>11
    <2>2. \A k \in 1..n : g[k - 1] \in J => g[k] \in J
        BY <1>3, <1>11
    <2>. HIDE DEF F
    <2>. QED BY <2>1, <2>2, <1>1, RunInduction
<1>. QED BY <1>10, <1>12 DEF J

------------------------------------------------------------------------------
(* Votes *)

\* A proposal that nobody voted for has no quorum.
LEMMA NoVotesNoQuorum ==
    ASSUME NEW p \in Motion, votes[p] = [v \in Voter |-> "none"]
    PROVE  Decision(p) = "expired"
<1>. DEFINE choices == {"for", "against", "abstain"}
            nobody == {v \in Voter : votes[p][v] \in choices}
<1>1. nobody = {}
    OBVIOUS
<1>2. Total(votes[p], choices) = FoldSet(LAMBDA v, sum : Weight[v] + sum, 0, {})
    BY <1>1 DEF Total
<1>3. Total(votes[p], choices) = 0
    <2>. DEFINE F(g) == g = [s \in SUBSET {} |->
                                 IF s = {} THEN 0
                                 ELSE LET x == CHOOSE y \in s : TRUE
                                      IN  Weight[x] + g[s \ {x}]]
                f == [s \in SUBSET {} |-> 0]
    <2>1. SUBSET {} = {{}}
        OBVIOUS
    <2>2. F(f)
        <3>1. \A s \in SUBSET {} : s = {}
            BY <2>1
        <3>. QED BY <3>1
    <2>3. PICK g : g = (CHOOSE h : F(h))
        OBVIOUS
    <2>4. F(g)
        BY <2>2, <2>3
    <2>5. {} \in SUBSET {}
        BY <2>1
    <2>6. g[{}] = 0
        BY <2>4, <2>5
    <2>7. FoldSet(LAMBDA v, sum : Weight[v] + sum, 0, {}) = g[{}]
        BY <2>3 DEF FoldSet, MapThenFoldSet
    <2>. QED BY <1>2, <2>6, <2>7
<1>4. MinQuorum \in Nat \ {0}
    BY GovernanceAssumption
<1>. QED BY <1>3, <1>4 DEF Decision, HasQuorum

------------------------------------------------------------------------------
(* What a cycle writes *)

\* What AfterVoting says of each proposal.
LEMMA VotingOutcome ==
    ASSUME GovernanceInv, NEW p \in Motion
    PROVE  /\ AfterVoting[p] \in Stati /\ Agrees(AfterVoting[p], p)
           /\ AfterVoting[p] = "none" <=> status[p] = "none"
           /\ status[p] \in {"active", "revoked"} <=> AfterVoting[p] \in {"active", "revoked"}
<1>1. status[p] \in Stati /\ Agrees(status[p], p)
    BY DEF GovernanceInv, GovernanceTypes, LawsOfRecord
<1>2. Decision(p) \in {"expired", "rejected", "passed"}
    BY DEF Decision
<1>3. CASE status[p] = "draft" /\ age[p] >= 2
    <2>1. Decision(p) = "expired"
        BY <1>1, <1>3, NoVotesNoQuorum DEF Agrees
    <2>2. AfterVoting[p] = "expired"
        BY <1>3 DEF AfterVoting
    <2>. QED BY <1>3, <2>1, <2>2 DEF Agrees, Stati
<1>4. CASE ~ (status[p] = "draft" /\ age[p] >= 2) /\ status[p] = "draft" /\ age[p] = 0
    <2>1. AfterVoting[p] = "voting"
        BY <1>4 DEF AfterVoting
    <2>. QED BY <1>4, <2>1 DEF Agrees, Stati
<1>5. CASE status[p] = "voting" /\ age[p] >= 1
    <2>1. AfterVoting[p] = Decision(p)
        BY <1>5 DEF AfterVoting
    <2>. QED BY <1>2, <1>5, <2>1 DEF Agrees, Stati
<1>6. CASE /\ ~ (status[p] = "draft" /\ age[p] >= 2) /\ ~ (status[p] = "draft" /\ age[p] = 0)
           /\ ~ (status[p] = "voting" /\ age[p] >= 1)
    <2>1. AfterVoting[p] = status[p]
        BY <1>6 DEF AfterVoting
    <2>. QED BY <1>1, <2>1
<1>. QED BY <1>3, <1>4, <1>5, <1>6

LEMMA CycleWrites ==
    ASSUME GovernanceInv, CycleRuns
    PROVE  /\ (revoking = {} /\ PendingRows /\ PendingLaws /\ PendingRules)'
           /\ Empties(cycle'.emptied)
<1>1. GovernanceTypes /\ LawsOfRecord /\ cycle = NoCycle /\ revoking = {}
    BY DEF GovernanceInv, CycleRuns
<1>2. PICK first \in Orders(Returning(AfterBreaker)), second \in Orders(Passed),
           third \in Orders(Waiting) :
           LET resume == AfterResume(first)
               on == Activated(Activated([law |-> resume, made |-> {}], second), third)
               laws == LawsAfter(on)
               stati == StatusAfter(on.made)
           IN  /\ cycle' = [touched |-> {p \in Motion : laws[p] # law[p] \/ stati[p] # status[p]},
                            status |-> stati, law |-> laws, ran |-> Ran(resume),
                            pairs |-> {pq \in Motion \X on.made :
                                           resume[pq[1]] = "suspended" /\ about[pq[1]] = about[pq[2]]},
                            stop |-> {p \in Motion : law[p] = "active" /\ resume[p] = "suspended"},
                            jumped |-> jump, emptied |-> Emptied(resume, on.made)]
               /\ Empties(Emptied(resume, on.made))
    BY Zenon DEF CycleRuns
<1>. DEFINE resume == AfterResume(first)
            start == [law |-> resume, made |-> {}]
            on == Activated(Activated(start, second), third)
            made == on.made
            laws == LawsAfter(on)
            stati == StatusAfter(made)
            touched == {p \in Motion : laws[p] # law[p] \/ stati[p] # status[p]}
            pairs == {pq \in Motion \X made :
                          resume[pq[1]] = "suspended" /\ about[pq[1]] = about[pq[2]]}
            stop == {p \in Motion : law[p] = "active" /\ resume[p] = "suspended"}
            emptied == Emptied(resume, made)
<1>3. ResumeKeeps(resume)
    BY <1>1, AfterResumeKeeps DEF LawsOfRecord
<1>4. ActivationKeeps(resume, on)
    <2>1. start \in [law : [Motion -> LawStates], made : SUBSET Motion]
        BY <1>3 DEF ResumeKeeps
    <2>2. ActivationKeeps(resume, start)
        <3>1. start.law = resume /\ start.made = {}
            OBVIOUS
        <3>2. Cardinality(Active(resume)) <= Cardinality(Active(resume))
            BY ActiveIsFinite
        <3>. QED BY <1>3, <3>1, <3>2 DEF ResumeKeeps, ActivationKeeps
    <2>3. Passed \in SUBSET Motion /\ \A p \in Passed : AfterVoting[p] = "passed"
        BY DEF Passed
    <2>4. Waiting \in SUBSET Motion /\ \A p \in Waiting : AfterVoting[p] = "passed"
        BY DEF Waiting
    <2>. HIDE DEF start
    <2>5. /\ Activated(start, second) \in [law : [Motion -> LawStates], made : SUBSET Motion]
          /\ ActivationKeeps(resume, Activated(start, second))
        BY <2>1, <2>2, <2>3, ActivatedKeeps
    <2>. QED BY <2>4, <2>5, ActivatedKeeps
<1>5. /\ cycle'.touched = touched /\ cycle'.status = stati /\ cycle'.law = laws
      /\ cycle'.ran = Ran(resume) /\ cycle'.pairs = pairs /\ cycle'.stop = stop
      /\ cycle'.emptied = emptied /\ Empties(emptied)
      /\ cache' = CacheWithout(emptied)
    BY <1>2 DEF Empties
<1>6. /\ UNCHANGED <<status, about, age, votes, law, hourOver, revoking, superseded, halted>>
      /\ NoEntry' = NoEntry
    BY DEF CycleRuns
<1>. HIDE DEF resume, on, start
\* The laws, read off the two loops.
<1>7. made \subseteq Motion /\ on.law \in [Motion -> LawStates]
    BY <1>4 DEF ActivationKeeps
<1>8. laws \in [Motion -> LawStates]
      /\ \A p \in Motion : laws[p] = on.law[p] \/ (laws[p] = "ended" /\ on.law[p] = "active"
                                                   /\ p \in Over(made))
    BY <1>7 DEF LawsAfter, LawStates
<1>9. ASSUME NEW p \in Motion
      PROVE  /\ stati[p] \in Stati /\ Agrees(stati[p], p)
             /\ stati[p] = "none" => status[p] = "none"
             /\ p \in made => stati[p] \in {"active", "revoked"} /\ AfterVoting[p] = "passed"
             /\ status[p] \in {"active", "revoked"} => stati[p] \in {"active", "revoked"}
    <2>1. /\ AfterVoting[p] \in Stati /\ Agrees(AfterVoting[p], p)
          /\ AfterVoting[p] = "none" <=> status[p] = "none"
          /\ status[p] \in {"active", "revoked"} <=> AfterVoting[p] \in {"active", "revoked"}
        BY VotingOutcome
    <2>2. p \in made => AfterVoting[p] = "passed"
        BY <1>4 DEF ActivationKeeps
    <2>3. p \in Over(made) => p \in made \/ AfterVoting[p] = "active"
        BY DEF Over
    <2>4. stati[p] = IF p \in Over(made) THEN "revoked" ELSE
                     IF p \in made THEN "active" ELSE AfterVoting[p]
        BY DEF StatusAfter
    <2>. HIDE DEF stati, made
    <2>5. CASE p \in made \/ p \in Over(made)
        <3>1. Decision(p) = "passed" /\ stati[p] \in {"active", "revoked"}
            BY <2>1, <2>2, <2>3, <2>4, <2>5 DEF Agrees
        <3>2. status[p] # "none"
            BY <2>1, <2>2, <2>3, <2>5
        <3>. QED BY <2>2, <3>1, <3>2 DEF Agrees, Stati
    <2>6. CASE p \notin made /\ p \notin Over(made)
        BY <2>1, <2>4, <2>6
    <2>. QED BY <2>5, <2>6
<1>10. ASSUME NEW p \in Motion
       PROVE  /\ p \in made => on.law[p] \in {"active", "ended"}
              /\ p \notin made => \/ on.law[p] = resume[p]
                                  \/ /\ resume[p] = "active" /\ on.law[p] = "ended"
                                     /\ \E q \in made : about[q] = about[p]
    BY <1>4 DEF ActivationKeeps
<1>11. ASSUME NEW p \in Motion
       PROVE  /\ law[p] \in LawStates /\ resume[p] \in LawStates
              /\ AfterBreaker[p] = law[p] \/ (AfterBreaker[p] = "suspended" /\ law[p] = "active")
              /\ resume[p] = AfterBreaker[p] \/
                     (law[p] = "suspended" /\ resume[p] \in {"active", "ended"})
    <2>1. law[p] \in LawStates /\ resume[p] \in LawStates
        BY <1>1, <1>3 DEF GovernanceTypes, ResumeKeeps
    <2>2. AfterBreaker[p] = law[p] \/ (AfterBreaker[p] = "suspended" /\ law[p] = "active")
        BY DEF AfterBreaker
    <2>3. resume[p] # AfterBreaker[p] => p \in hourOver /\ resume[p] \in {"active", "ended"}
        BY <1>3 DEF ResumeKeeps, Returning
    <2>4. p \in hourOver => law[p] = "suspended"
        BY <1>1 DEF LawsOfRecord
    <2>. QED BY <2>1, <2>2, <2>3, <2>4
<1>12. ASSUME NEW p \in Motion, law[p] # "none"
       PROVE  p \notin made /\ on.law[p] # "none" /\ laws[p] # "none" /\ status[p] \in {"active", "revoked"}
    <2>1. status[p] \in {"active", "revoked"}
        BY <1>1, <1>12 DEF LawsOfRecord
    <2>2. p \notin made
        BY <2>1, <1>9, VotingOutcome
    <2>3. resume[p] # "none"
        BY <1>11, <1>12
    <2>. QED BY <2>1, <2>2, <2>3, <1>8, <1>10
<1>13. ASSUME NEW p \in Motion, laws[p] # "none"
       PROVE  p \in made \/ law[p] # "none"
    BY <1>13, <1>8, <1>10, <1>11
<1>. HIDE DEF laws, stati, made
<1>14. PendingRows'
    <2>1. \A p \in Motion \ touched : laws[p] = law[p]
        OBVIOUS
    <2>2. ASSUME NEW p \in touched
          PROVE  /\ status[p] # "none" /\ stati[p] # "none" /\ Agrees(stati[p], p)
                 /\ laws[p] # "none" => stati[p] \in {"active", "revoked"}
        <3>1. p \in Motion
            OBVIOUS
        <3>2. laws[p] # "none" => stati[p] \in {"active", "revoked"}
            BY <3>1, <1>9, <1>12, <1>13
        <3>3. status[p] # "none"
            <4>. SUFFICES ASSUME status[p] = "none" PROVE FALSE
                OBVIOUS
            <4>1. AfterVoting[p] = "none" /\ law[p] = "none"
                BY <3>1, VotingOutcome, <1>1 DEF LawsOfRecord
            <4>2. p \notin made /\ p \notin Over(made)
                BY <3>1, <4>1, <1>9 DEF Over
            <4>3. stati[p] = "none"
                BY <3>1, <4>1, <4>2 DEF stati, StatusAfter
            <4>4. laws[p] = "none"
                BY <3>1, <4>1, <4>2, <1>13
            <4>. QED BY <4>1, <4>3, <4>4
        <3>. QED BY <3>1, <3>2, <3>3, <1>9
    <2>3. stati \in [Motion -> Stati]
        <3>1. stati = [p \in Motion |-> stati[p]]
            BY DEF stati, StatusAfter
        <3>. QED BY <3>1, <1>9
    <2>4. touched \subseteq Motion
        OBVIOUS
    <2>. HIDE DEF touched
    <2>. QED BY <2>1, <2>2, <2>3, <2>4, <1>5, <1>6, <1>8 DEF PendingRows, Agrees, Decision
<1>15. PendingLaws'
    <2>1. Active(laws) \subseteq Active(on.law)
        BY <1>8 DEF Active
    <2>2. OneLaw(laws)
        BY <1>4, <2>1 DEF ActivationKeeps, OneLaw
    <2>3. ASSUME NEW p \in Motion, laws[p] = "suspended" PROVE p \in halted \union stop
        <3>1. on.law[p] = "suspended" /\ resume[p] = "suspended"
            BY <2>3, <1>8, <1>10
        <3>2. law[p] = "suspended" \/ law[p] = "active"
            BY <3>1, <1>11
        <3>. QED BY <3>1, <3>2, <1>1 DEF LawsOfRecord
    <2>4. ASSUME NEW pq \in superseded PROVE PairOfLaws(laws, pq)
        <3>1. PairOfLaws(law, pq)
            BY DEF GovernanceInv
        <3>. QED BY <3>1, <1>12 DEF PairOfLaws
    <2>5. ASSUME NEW pq \in pairs PROVE PairOfLaws(laws, pq)
        <3>1. /\ pq \in Motion \X Motion /\ pq[1] \in Motion /\ pq[2] \in Motion /\ pq[2] \in made
              /\ resume[pq[1]] = "suspended" /\ about[pq[1]] = about[pq[2]]
            BY <1>7
        <3>2. law[pq[1]] # "none"
            BY <3>1, <1>11
        <3>3. pq[1] \notin made /\ laws[pq[1]] # "none"
            BY <3>1, <3>2, <1>12
        <3>4. laws[pq[2]] # "none"
            BY <3>1, <1>8, <1>10
        <3>. QED BY <3>1, <3>3, <3>4 DEF PairOfLaws
    <2>6. Ran(resume) = {} => \/ Cardinality(Active(laws)) <= MaxLaws
                              \/ Cardinality(Active(laws)) <= Cardinality(Active(law))
        <3>. SUFFICES ASSUME Ran(resume) = {}
                      PROVE  \/ Cardinality(Active(laws)) <= MaxLaws
                             \/ Cardinality(Active(laws)) <= Cardinality(Active(law))
            OBVIOUS
        <3>1. Active(resume) \subseteq Active(law)
            BY <1>11 DEF Active, Ran
        <3>2. \A L : IsFiniteSet(Active(L)) /\ Cardinality(Active(L)) \in Nat
            BY ActiveIsFinite
        <3>3. Cardinality(Active(resume)) <= Cardinality(Active(law))
            BY <3>1, <3>2, FS_Subset
        <3>4. Cardinality(Active(laws)) <= Cardinality(Active(on.law))
            BY <2>1, <3>2, FS_Subset
        <3>5. \/ Cardinality(Active(on.law)) <= MaxLaws
              \/ Cardinality(Active(on.law)) <= Cardinality(Active(resume))
            BY <1>4 DEF ActivationKeeps
        <3>6. MaxLaws \in Nat
            BY GovernanceAssumption
        <3>. QED BY <3>2, <3>3, <3>4, <3>5, <3>6
    <2>. HIDE DEF pairs, stop
    <2>. QED BY <2>2, <2>3, <2>4, <2>5, <2>6, <1>5, <1>6
             DEF PendingLaws, OneLaw, Active, PairOfLaws
<1>16. PendingRules'
    <2>1. ASSUME NEW p \in Motion, about[p] \notin emptied
          PROVE  law[p] = "active" <=> laws[p] = "active"
        <3>1. p \notin Ran(resume) /\ p \notin made /\ p \notin Over(made) /\ law[p] = AfterBreaker[p]
            BY <2>1 DEF Emptied
        <3>2. ~ \E q \in made : about[q] = about[p]
            <4>. SUFFICES ASSUME NEW q \in made, about[q] = about[p] PROVE FALSE
                OBVIOUS
            <4>1. about[q] \in emptied
                BY DEF Emptied
            <4>. QED BY <4>1, <2>1
        <3>3. laws[p] = on.law[p] /\ on.law[p] = resume[p]
            BY <3>1, <3>2, <1>8, <1>10
        <3>4. resume[p] = law[p] \/ (law[p] = "suspended" /\ resume[p] = "ended")
            BY <3>1, <1>11 DEF Ran
        <3>. QED BY <3>3, <3>4
    <2>. HIDE DEF emptied
    <2>2. \A r \in Rule : r \in emptied => CacheWithout(emptied)[r] = NoEntry
        BY DEF CacheWithout
    <2>. QED BY <2>1, <2>2, <1>5, <1>6 DEF PendingRules
<1>. QED BY <1>1, <1>5, <1>6, <1>14, <1>15, <1>16

------------------------------------------------------------------------------
(* The cache *)

\* With one law for each rule, the one in force is the only choice.
LEMMA ResolvedIsInForce ==
    ASSUME GovernanceInv, NEW r \in Rule, NEW p \in Motion,
           law[p] = "active", about[p] = r, age[p] < 3
    PROVE  Resolved(r) = p
<1>1. InForce(r) = {p}
    BY DEF InForce, Active, GovernanceInv, LawsOfRecord, OneLaw
<1>2. Max({p}) = p
    <2>1. p \in Nat
        BY GovernanceAssumption
    <2>2. \E x \in {p} : \A y \in {p} : x >= y
        BY <2>1
    <2>. QED BY <2>2 DEF Max
<1>. QED BY <1>1, <1>2 DEF Resolved

LEMMA ResolvedIsKept ==
    ASSUME GovernanceInv, NEW r \in Rule
    PROVE  Resolved(r) \in Motion \union {0}
<1>1. CASE InForce(r) = {}
    BY <1>1 DEF Resolved
<1>2. CASE InForce(r) # {}
    <2>1. PICK p \in InForce(r) : TRUE
        BY <1>2
    <2>. QED BY <2>1, ResolvedIsInForce DEF InForce, Active
<1>. QED BY <1>1, <1>2

------------------------------------------------------------------------------
(* The invariant is inductive *)

LEMMA GovernanceStart == GovernanceInit => GovernanceInv
<1>. SUFFICES ASSUME GovernanceInit PROVE GovernanceInv
    OBVIOUS
<1>. USE DEF GovernanceInit
<1>1. GovernanceTypes
    BY DEF GovernanceTypes, Stati, LawStates
<1>2. LawsOfRecord
    BY DEF LawsOfRecord, Agrees, OneLaw, Active
<1>3. Pending /\ RevokingLaws /\ (\A pq \in superseded : PairOfLaws(law, pq))
    BY DEF Pending, RevokingLaws
<1>4. StaleRuleOnlyByEarlyRead
    BY DEF StaleRuleOnlyByEarlyRead
<1>. QED BY <1>1, <1>2, <1>3, <1>4 DEF GovernanceInv

\* A step that leaves the laws, the proposals and the votes, the cycle and the
\* revocation alone disturbs the cache at most.
LEMMA OnlyTheCache ==
    ASSUME GovernanceInv,
           UNCHANGED <<status, about, age, votes, law, hourOver, cycle, revoking, superseded, halted>>,
           cache' \in [Rule -> Motion \union {0, NoEntry}],
           \A r \in Rule : \/ cache'[r] = NoEntry
                           \/ cache'[r] = cache[r] /\ (r \in early => r \in early')
                           \/ r \in early'
                           \/ /\ ~Awaited(r)
                              /\ \/ cache'[r] = Resolved(r)
                                 \/ cache'[r] \in Motion /\ age[cache'[r]] = 3
    PROVE  GovernanceInv'
<1>1. GovernanceTypes' /\ LawsOfRecord' /\ (\A pq \in superseded : PairOfLaws(law, pq))'
    BY DEF GovernanceInv, GovernanceTypes, LawsOfRecord, Agrees, Decision, OneLaw, Active, PairOfLaws
<1>2. (\A r \in Rule : Resolved(r) = Resolved(r)') /\ NoEntry' = NoEntry
    BY DEF Resolved, InForce, Active
<1>3. Pending'
    <2>. SUFFICES ASSUME cycle # NoCycle
                  PROVE  (revoking = {} /\ PendingRows /\ PendingLaws /\ PendingRules)'
        BY DEF Pending, NoCycle
    <2>1. revoking = {} /\ PendingRows /\ PendingLaws /\ PendingRules
        BY DEF GovernanceInv, Pending
    <2>2. PendingRows'
        BY <2>1 DEF PendingRows, Agrees, Decision
    <2>3. PendingLaws'
        BY <2>1 DEF PendingLaws, OneLaw, Active, PairOfLaws
    <2>4. PendingRules'
        BY <2>1 DEF PendingRules, NoEntry, Awaited
    <2>. QED BY <2>1, <2>2, <2>3, <2>4
<1>4. RevokingLaws'
    BY DEF GovernanceInv, RevokingLaws, NoEntry, Awaited
<1>5. StaleRuleOnlyByEarlyRead'
    BY <1>2 DEF GovernanceInv, StaleRuleOnlyByEarlyRead
<1>. QED BY <1>1, <1>3, <1>4, <1>5 DEF GovernanceInv

LEMMA ProposalKeeps ==
    ASSUME GovernanceInv, NEW p \in Motion, NEW r \in Rule, CreateProposal(p, r)
    PROVE  GovernanceInv'
<1>. USE DEF CreateProposal
<1>1. GovernanceTypes /\ LawsOfRecord /\ status[p] = "none" /\ law[p] = "none"
    BY DEF GovernanceInv, LawsOfRecord
<1>2. /\ status' \in [Motion -> Stati] /\ about' \in [Motion -> Rule \union {NoRule}]
      /\ status'[p] = "draft" /\ \A q \in Motion \ {p} : status'[q] = status[q] /\ about'[q] = about[q]
    BY <1>1 DEF GovernanceTypes, Stati
<1>3. UNCHANGED <<age, votes, law, hourOver, cycle, revoking, cache, superseded, halted, early>>
    OBVIOUS
<1>. USE <1>3
<1>4. \A q \in Motion : law[q] # "none" => about'[q] = about[q]
    BY <1>1, <1>2
<1>5. GovernanceTypes'
    BY <1>1, <1>2 DEF GovernanceTypes
<1>6. \A q \in Motion : \A state : Agrees(state, q)' <=> Agrees(state, q)
    BY DEF Agrees, Decision
<1>7. LawsOfRecord'
    <2>1. \A q \in Motion : Agrees(status[q], q)'
        <3>1. votes[p] = [v \in Voter |-> "none"]
            BY <1>1 DEF LawsOfRecord
        <3>. QED BY <3>1, <1>1, <1>2 DEF LawsOfRecord, Agrees, Decision
    <2>2. OneLaw(law)'
        BY <1>1, <1>4 DEF LawsOfRecord, OneLaw, Active
    <2>. QED BY <1>1, <1>2, <2>1, <2>2 DEF LawsOfRecord
<1>8. (\A pq \in superseded : PairOfLaws(law, pq))'
    BY <1>4 DEF GovernanceInv, PairOfLaws
<1>9. Pending'
    <2>. SUFFICES ASSUME cycle # NoCycle
                  PROVE  (revoking = {} /\ PendingRows /\ PendingLaws /\ PendingRules)'
        BY DEF Pending, NoCycle
    <2>1. revoking = {} /\ PendingRows /\ PendingLaws /\ PendingRules
        BY DEF GovernanceInv, Pending
    <2>2. p \notin cycle.touched /\ cycle.law[p] = "none"
        BY <2>1, <1>1 DEF PendingRows
    <2>3. \A q \in Motion : cycle.law[q] # "none" => about'[q] = about[q]
        BY <2>2, <1>2
    <2>4. PendingRows'
        <3>1. \A q \in cycle.touched : q \in Motion /\ q # p /\ status'[q] = status[q]
            BY <2>1, <2>2, <1>2 DEF PendingRows
        <3>. QED BY <2>1, <3>1 DEF PendingRows, Agrees, Decision
    <2>5. PendingLaws'
        BY <2>1, <2>3 DEF PendingLaws, OneLaw, Active, PairOfLaws
    <2>6. PendingRules'
        <3>1. \A q \in Motion : about'[q] \notin cycle.emptied =>
                  (law[q] = "active" <=> cycle.law[q] = "active")
            BY <2>1, <2>2, <1>1, <1>2 DEF PendingRules
        <3>. QED BY <2>1, <3>1 DEF PendingRules, NoEntry
    <2>. QED BY <2>1, <2>4, <2>5, <2>6
<1>10. RevokingLaws'
    BY <1>1, <1>4 DEF GovernanceInv, RevokingLaws, GovernanceTypes, NoEntry
<1>11. StaleRuleOnlyByEarlyRead'
    <2>1. \A x \in Rule : InForce(x)' = InForce(x)
        BY <1>1, <1>2, <1>4 DEF InForce, Active
    <2>2. \A x \in Rule : Resolved(x)' = Resolved(x)
        BY <2>1 DEF Resolved
    <2>. QED BY <2>2 DEF GovernanceInv, StaleRuleOnlyByEarlyRead, NoEntry
<1>. QED BY <1>5, <1>7, <1>8, <1>9, <1>10, <1>11 DEF GovernanceInv

LEMMA VoteKeeps ==
    ASSUME GovernanceInv, NEW w \in Voter, NEW p \in Motion, NEW choice \in {"for", "against"},
           CastVote(w, p, choice)
    PROVE  GovernanceInv'
<1>. USE DEF CastVote
<1>1. GovernanceTypes /\ LawsOfRecord /\ status[p] = "voting"
    BY DEF GovernanceInv, MayVote
<1>2. UNCHANGED <<status, about, age, law, hourOver, cycle, revoking, cache, superseded, halted, early>>
    OBVIOUS
<1>3. /\ votes' \in [Motion -> [Voter -> {"none", "for", "against"}]]
      /\ \A q \in Motion \ {p} : votes'[q] = votes[q]
    <2>. DEFINE ballot == [votes[p] EXCEPT ![w] = choice]
    <2>1. votes' = [votes EXCEPT ![p] = ballot]
        OBVIOUS
    <2>2. ballot \in [Voter -> {"none", "for", "against"}]
        BY <1>1 DEF GovernanceTypes
    <2>. HIDE DEF ballot
    <2>. QED BY <2>1, <2>2, <1>1 DEF GovernanceTypes
<1>. USE <1>2
<1>4. \A q \in Motion \ {p} : \A state : Agrees(state, q)' <=> Agrees(state, q)
    BY <1>3 DEF Agrees, Decision
<1>5. GovernanceTypes'
    BY <1>1, <1>3 DEF GovernanceTypes
<1>6. LawsOfRecord'
    <2>1. \A q \in Motion : Agrees(status[q], q)'
        <3>. SUFFICES ASSUME NEW q \in Motion PROVE Agrees(status[q], q)'
            OBVIOUS
        <3>1. CASE q = p
            BY <3>1, <1>1 DEF Agrees
        <3>2. CASE q # p
            <4>1. Agrees(status[q], q) /\ votes'[q] = votes[q]
                BY <1>1, <1>3, <3>2 DEF LawsOfRecord
            <4>. QED BY <4>1 DEF Agrees, Decision
        <3>. QED BY <3>1, <3>2
    <2>2. \A q \in Motion : (status[q] = "none" => votes[q] = [v \in Voter |-> "none"])'
        BY <1>1, <1>3 DEF LawsOfRecord
    <2>3. OneLaw(law)'
        BY <1>1 DEF LawsOfRecord, OneLaw, Active
    <2>. QED BY <1>1, <2>1, <2>2, <2>3 DEF LawsOfRecord
<1>7. (\A pq \in superseded : PairOfLaws(law, pq))'
    BY DEF GovernanceInv, PairOfLaws
<1>8. Pending'
    <2>. SUFFICES ASSUME cycle # NoCycle
                  PROVE  (revoking = {} /\ PendingRows /\ PendingLaws /\ PendingRules)'
        BY DEF Pending, NoCycle
    <2>1. revoking = {} /\ PendingRows /\ PendingLaws /\ PendingRules /\ p \notin cycle.touched
        BY DEF GovernanceInv, Pending
    <2>2. PendingRows'
        <3>1. \A q \in cycle.touched : q \in Motion /\ votes'[q] = votes[q]
            BY <2>1, <1>3 DEF PendingRows
        <3>. QED BY <2>1, <3>1 DEF PendingRows, Agrees, Decision
    <2>3. PendingLaws'
        BY <2>1 DEF PendingLaws, OneLaw, Active, PairOfLaws
    <2>4. PendingRules'
        BY <2>1 DEF PendingRules, NoEntry
    <2>. QED BY <2>1, <2>2, <2>3, <2>4
<1>9. RevokingLaws'
    BY DEF GovernanceInv, RevokingLaws, NoEntry
<1>10. StaleRuleOnlyByEarlyRead'
    <2>1. \A x \in Rule : Resolved(x)' = Resolved(x)
        BY DEF Resolved, InForce, Active
    <2>. QED BY <2>1 DEF GovernanceInv, StaleRuleOnlyByEarlyRead, NoEntry
<1>. QED BY <1>5, <1>6, <1>7, <1>8, <1>9, <1>10 DEF GovernanceInv

LEMMA CycleRunsKeeps ==
    ASSUME GovernanceInv, CycleRuns
    PROVE  GovernanceInv'
<1>1. /\ UNCHANGED <<status, about, age, votes, law, hourOver, revoking, superseded, halted>>
      /\ \E rules : cache' = CacheWithout(rules) /\ early' = early \ rules
    BY DEF CycleRuns, Empties
<1>2. cache' \in [Rule -> Motion \union {0, NoEntry}]
      /\ \A r \in Rule : cache'[r] = NoEntry \/ (cache'[r] = cache[r] /\ (r \in early => r \in early'))
    BY <1>1 DEF GovernanceInv, GovernanceTypes, CacheWithout, NoEntry
<1>3. GovernanceTypes' /\ LawsOfRecord' /\ (\A pq \in superseded : PairOfLaws(law, pq))'
    BY <1>1, <1>2 DEF GovernanceInv, GovernanceTypes, LawsOfRecord, Agrees, Decision, OneLaw,
                      Active, PairOfLaws, NoEntry
<1>4. Pending'
    BY CycleWrites DEF Pending
<1>5. RevokingLaws'
    BY <1>1 DEF CycleRuns, RevokingLaws
<1>6. StaleRuleOnlyByEarlyRead'
    <2>1. \A x \in Rule : Resolved(x)' = Resolved(x)
        BY <1>1 DEF Resolved, InForce, Active
    <2>. QED BY <1>1, <1>2, <2>1 DEF GovernanceInv, StaleRuleOnlyByEarlyRead, NoEntry
<1>. QED BY <1>3, <1>4, <1>5, <1>6 DEF GovernanceInv

\* The commit writes the laws of the cycle, and rows it has locked only.
LEMMA CommitWrites ==
    ASSUME GovernanceInv, CycleCommits
    PROVE  /\ revoking = {} /\ PendingRows /\ PendingLaws /\ PendingRules
           /\ law' = cycle.law
           /\ \A p \in Motion : status'[p] = IF p \in cycle.touched THEN cycle.status[p] ELSE status[p]
<1>1. revoking = {} /\ PendingRows /\ PendingLaws /\ PendingRules
    BY DEF GovernanceInv, Pending, CycleCommits
<1>2. law' = [p \in Motion |-> IF p \in cycle.touched THEN cycle.law[p] ELSE law[p]]
    BY DEF CycleCommits, Merge
<1>3. cycle.law = [p \in Motion |-> cycle.law[p]]
    BY <1>1 DEF PendingRows
<1>4. law' = cycle.law
    BY <1>1, <1>2, <1>3 DEF PendingRows
<1>. QED BY <1>1, <1>4 DEF CycleCommits, Merge

LEMMA CommitKeeps ==
    ASSUME GovernanceInv, CycleCommits
    PROVE  GovernanceInv'
<1>1. /\ revoking = {} /\ PendingRows /\ PendingLaws /\ PendingRules
      /\ law' = cycle.law
      /\ \A p \in Motion : status'[p] = IF p \in cycle.touched THEN cycle.status[p] ELSE status[p]
    BY CommitWrites
<1>2. /\ UNCHANGED <<about, age, votes, revoking, cache, early>> /\ cycle' = NoCycle
      /\ hourOver' = {p \in hourOver : law'[p] = "suspended"} \ cycle.stop
      /\ superseded' = superseded \union cycle.pairs /\ halted' = halted \union cycle.stop
    BY DEF CycleCommits
<1>3. GovernanceTypes /\ LawsOfRecord
    BY DEF GovernanceInv
<1>4. GovernanceTypes'
    <2>1. status' \in [Motion -> Stati]
        <3>1. status' = [p \in Motion |-> status'[p]]
            BY DEF CycleCommits, Merge
        <3>2. \A p \in Motion : status'[p] \in Stati
            BY <1>1, <1>3 DEF PendingRows, GovernanceTypes
        <3>. QED BY <3>1, <3>2
    <2>2. superseded' \subseteq Motion \X Motion
        BY <1>1, <1>2, <1>3 DEF PendingLaws, PairOfLaws, GovernanceTypes
    <2>. QED BY <1>1, <1>2, <1>3, <2>1, <2>2 DEF GovernanceTypes, PendingRows, NoEntry
<1>5. LawsOfRecord'
    <2>1. \A p \in Motion : Agrees(status[p], p)'
        <3>. SUFFICES ASSUME NEW p \in Motion PROVE Agrees(status[p], p)'
            OBVIOUS
        <3>1. Agrees(status'[p], p)
            BY <1>1, <1>3 DEF PendingRows, LawsOfRecord
        <3>. QED BY <3>1, <1>2 DEF Agrees, Decision
    <2>2. \A p \in Motion : (status[p] = "none" => votes[p] = [v \in Voter |-> "none"])'
        BY <1>1, <1>2, <1>3 DEF PendingRows, LawsOfRecord
    <2>3. \A p \in Motion : (law[p] # "none" => status[p] \in {"active", "revoked"})'
        BY <1>1, <1>3 DEF PendingRows, LawsOfRecord
    <2>4. \A p \in Motion : (law[p] = "suspended" => p \in halted)'
        BY <1>1, <1>2 DEF PendingLaws
    <2>5. OneLaw(law)'
        BY <1>1, <1>2 DEF PendingLaws, OneLaw, Active
    <2>6. (\A p \in hourOver : law[p] = "suspended")'
        BY <1>2
    <2>. QED BY <2>1, <2>2, <2>3, <2>4, <2>5, <2>6 DEF LawsOfRecord
<1>6. (\A pq \in superseded : PairOfLaws(law, pq))'
    BY <1>1, <1>2 DEF PendingLaws, PairOfLaws
<1>7. Pending' /\ RevokingLaws'
    BY <1>1, <1>2 DEF Pending, RevokingLaws, NoCycle
<1>8. StaleRuleOnlyByEarlyRead'
    <2>. SUFFICES ASSUME NEW r \in Rule, cache[r] \notin {NoEntry, Resolved(r)'}
                  PROVE  r \in early \/ (cache[r] \in Motion /\ age[cache[r]] = 3)
        BY <1>2 DEF StaleRuleOnlyByEarlyRead, NoEntry
    <2>1. CASE r \in cycle.emptied
        BY <2>1, <1>1 DEF PendingRules
    <2>2. CASE r \notin cycle.emptied
        <3>1. InForce(r)' = InForce(r)
            BY <2>2, <1>1, <1>2 DEF PendingRules, InForce, Active
        <3>2. Resolved(r)' = Resolved(r)
            BY <3>1 DEF Resolved
        <3>. QED BY <3>2 DEF GovernanceInv, StaleRuleOnlyByEarlyRead
    <2>. QED BY <2>1, <2>2
<1>. QED BY <1>4, <1>5, <1>6, <1>7, <1>8 DEF GovernanceInv

\* What a change of only the cycle, the revocations or the hour leaves true.
LEMMA RecordKept ==
    ASSUME GovernanceInv, UNCHANGED <<status, about, age, votes, law, superseded, halted>>,
           \A r \in Rule : cache'[r] = NoEntry \/ (cache'[r] = cache[r] /\ (r \in early => r \in early')),
           cache' \in [Rule -> Motion \union {0, NoEntry}],
           hourOver' \subseteq {p \in Motion : law[p] = "suspended"}, revoking' \subseteq Motion
    PROVE  /\ GovernanceTypes' /\ LawsOfRecord' /\ (\A pq \in superseded : PairOfLaws(law, pq))'
           /\ StaleRuleOnlyByEarlyRead'
<1>1. GovernanceTypes' /\ LawsOfRecord' /\ (\A pq \in superseded : PairOfLaws(law, pq))'
    BY DEF GovernanceInv, GovernanceTypes, LawsOfRecord, Agrees, Decision, OneLaw, Active, PairOfLaws,
           NoEntry
<1>2. \A x \in Rule : Resolved(x)' = Resolved(x)
    BY DEF Resolved, InForce, Active
<1>3. StaleRuleOnlyByEarlyRead'
    BY <1>2 DEF GovernanceInv, StaleRuleOnlyByEarlyRead, NoEntry
<1>. QED BY <1>1, <1>3

LEMMA FailureKeeps ==
    ASSUME GovernanceInv, CycleFails
    PROVE  GovernanceInv'
<1>. USE DEF CycleFails
<1>1. /\ GovernanceTypes' /\ LawsOfRecord' /\ (\A pq \in superseded : PairOfLaws(law, pq))'
      /\ StaleRuleOnlyByEarlyRead'
    BY RecordKept DEF GovernanceInv, GovernanceTypes, LawsOfRecord
<1>2. Pending' /\ RevokingLaws'
    BY DEF GovernanceInv, Pending, RevokingLaws, NoEntry, NoCycle
<1>. QED BY <1>1, <1>2 DEF GovernanceInv

LEMMA RevocationKeeps ==
    ASSUME GovernanceInv, NEW p \in Motion, RevokeOverride(p)
    PROVE  GovernanceInv'
<1>. USE DEF RevokeOverride
<1>1. cache' \in [Rule -> Motion \union {0, NoEntry}] /\ early' = early \ {about[p]}
      /\ \A r \in Rule : cache'[r] = IF r = about[p] THEN NoEntry ELSE cache[r]
    BY DEF GovernanceInv, GovernanceTypes, CacheWithout, Empties, NoEntry
<1>2. /\ GovernanceTypes' /\ LawsOfRecord' /\ (\A pq \in superseded : PairOfLaws(law, pq))'
      /\ StaleRuleOnlyByEarlyRead'
    BY <1>1, RecordKept DEF GovernanceInv, GovernanceTypes, LawsOfRecord
<1>3. Pending' /\ RevokingLaws'
    BY <1>1 DEF Pending, RevokingLaws, NoEntry, NoCycle
<1>. QED BY <1>2, <1>3 DEF GovernanceInv

LEMMA RevokeCommitKeeps ==
    ASSUME GovernanceInv, NEW p \in Motion, RevokeCommits(p)
    PROVE  GovernanceInv'
<1>. USE DEF RevokeCommits
<1>1. GovernanceTypes /\ LawsOfRecord /\ law[p] = "active" /\ status[p] \in {"active", "revoked"}
      /\ cycle = NoCycle
    BY DEF GovernanceInv, RevokingLaws, LawsOfRecord, Pending
<1>2. /\ law' \in [Motion -> LawStates] /\ law'[p] = "ended"
      /\ status' \in [Motion -> Stati] /\ status'[p] = "revoked"
      /\ \A q \in Motion \ {p} : law'[q] = law[q] /\ status'[q] = status[q]
    BY <1>1 DEF GovernanceTypes, Stati, LawStates
<1>3. UNCHANGED <<about, age, votes, hourOver, cycle, cache, superseded, halted, early>> /\ revoking' = {}
    OBVIOUS
<1>4. GovernanceTypes'
    BY <1>1, <1>2, <1>3 DEF GovernanceTypes, NoEntry
<1>5. LawsOfRecord'
    <2>1. \A q \in Motion : Agrees(status[q], q)'
        <3>. SUFFICES ASSUME NEW q \in Motion PROVE Agrees(status[q], q)'
            OBVIOUS
        <3>1. Agrees(status'[q], q)
            BY <1>1, <1>2 DEF LawsOfRecord, Agrees
        <3>. QED BY <3>1, <1>3 DEF Agrees, Decision
    <2>2. OneLaw(law)'
        BY <1>1, <1>2, <1>3 DEF LawsOfRecord, OneLaw, Active
    <2>. QED BY <1>1, <1>2, <1>3, <2>1, <2>2 DEF LawsOfRecord
<1>6. (\A pq \in superseded : PairOfLaws(law, pq))'
    BY <1>2, <1>3 DEF GovernanceInv, PairOfLaws
<1>7. Pending' /\ RevokingLaws'
    BY <1>1, <1>3 DEF Pending, RevokingLaws, NoCycle
<1>8. StaleRuleOnlyByEarlyRead'
    <2>. SUFFICES ASSUME NEW r \in Rule, cache[r] \notin {NoEntry, Resolved(r)'}
                  PROVE  r \in early \/ (cache[r] \in Motion /\ age[cache[r]] = 3)
        BY <1>3 DEF StaleRuleOnlyByEarlyRead, NoEntry
    <2>1. CASE r = about[p]
        BY <2>1 DEF GovernanceInv, RevokingLaws
    <2>2. CASE r # about[p]
        <3>1. InForce(r)' = InForce(r)
            BY <2>2, <1>2, <1>3 DEF InForce, Active
        <3>2. Resolved(r)' = Resolved(r)
            BY <3>1 DEF Resolved
        <3>. QED BY <3>2 DEF GovernanceInv, StaleRuleOnlyByEarlyRead
    <2>. QED BY <2>1, <2>2
<1>. QED BY <1>4, <1>5, <1>6, <1>7, <1>8 DEF GovernanceInv

LEMMA KeptAnswerKeeps ==
    ASSUME GovernanceInv, Readings, NEW c \in Reader, ResolveKeeps(c)
    PROVE  GovernanceInv'
<1>. DEFINE r == reading[c].rule
            p == reading[c].law
<1>1. /\ r \in Rule /\ p \in Motion \union {0}
      /\ reading[c].missed \/ (~Awaited(r) /\ (p = Resolved(r) \/ (p \in Motion /\ age[p] = 3)))
    BY DEF ResolveKeeps, Readings, Answered
<1>2. /\ UNCHANGED <<status, about, age, votes, law, hourOver, cycle, revoking, superseded, halted>>
      /\ cache' = [cache EXCEPT ![r] = p]
      /\ early' = IF reading[c].missed THEN early \union {r} ELSE early \ {r}
    BY DEF ResolveKeeps
<1>. HIDE DEF r, p
<1>3. cache' \in [Rule -> Motion \union {0, NoEntry}]
      /\ cache'[r] = p /\ \A x \in Rule \ {r} : cache'[x] = cache[x] /\ (x \in early => x \in early')
    BY <1>1, <1>2 DEF GovernanceInv, GovernanceTypes, NoEntry
<1>. QED BY <1>1, <1>2, <1>3, OnlyTheCache

\* The answers that are not kept yet.
LEMMA ReadingsStep ==
    ASSUME GovernanceInv, Readings, [GovernanceNext]_governanceVars
    PROVE  Readings'
<1>. DEFINE Type == [rule : Rule \union {NoRule}, law : Motion \union {0, NoEntry}, missed : BOOLEAN]
            Right(c) == Answered(c) =>
                /\ reading[c].law \in Motion \union {0}
                /\ \/ reading[c].missed
                   \/ /\ ~Awaited(reading[c].rule)
                      /\ \/ reading[c].law = Resolved(reading[c].rule)
                         \/ reading[c].law \in Motion /\ age[reading[c].law] = 3
<1>1. reading \in [Reader -> Type] /\ \A c \in Reader : Right(c)
    BY DEF Readings
<1>2. SUFFICES reading' \in [Reader -> Type] /\ \A c \in Reader : Right(c)'
    BY DEF Readings
<1>3. ASSUME reading' = reading, \A r \in Rule : Awaited(r)' => Awaited(r),
             \A c \in Reader : LET r == reading[c].rule  p == reading[c].law
                               IN  r \in Rule /\ ~Awaited(r) =>
                                     /\ p = Resolved(r) => p = Resolved(r)' \/ (p \in Motion /\ age'[p] = 3)
                                     /\ p \in Motion /\ age[p] = 3 => age'[p] = 3
      PROVE  reading' \in [Reader -> Type] /\ \A c \in Reader : Right(c)'
    BY <1>1, <1>3 DEF Answered
<1>4. ASSUME UNCHANGED <<reading, age, law, about, cycle, revoking>>
      PROVE  reading' \in [Reader -> Type] /\ \A c \in Reader : Right(c)'
    <2>1. \A r \in Rule : Resolved(r)' = Resolved(r) /\ Awaited(r)' = Awaited(r)
        BY <1>4 DEF Resolved, InForce, Active, Awaited, NoCycle
    <2>. QED BY <1>3, <1>4, <2>1
<1>5. ASSUME NEW p \in Motion, NEW r \in Rule, CreateProposal(p, r)
      PROVE  reading' \in [Reader -> Type] /\ \A c \in Reader : Right(c)'
    <2>. USE <1>5 DEF CreateProposal
    <2>1. law[p] = "none" /\ (\A q \in Motion \ {p} : about'[q] = about[q])
        BY DEF GovernanceInv, LawsOfRecord, GovernanceTypes
    <2>2. \A x \in Rule : Resolved(x)' = Resolved(x)
        <3>1. \A x \in Rule : InForce(x)' = InForce(x)
            BY <2>1 DEF InForce, Active
        <3>. QED BY <3>1 DEF Resolved
    <2>3. \A x \in Rule : Awaited(x)' => Awaited(x)
        BY <2>1 DEF Awaited, NoCycle, GovernanceInv, RevokingLaws, GovernanceTypes
    <2>. QED BY <2>2, <2>3, <1>3
<1>6. ASSUME NEW rules, Empties(rules), UNCHANGED <<age, law, about>>,
             \A r \in Rule : Awaited(r)' => Awaited(r) \/ r \in rules
      PROVE  reading' \in [Reader -> Type] /\ \A c \in Reader : Right(c)'
    <2>1. \A r \in Rule : Resolved(r)' = Resolved(r)
        BY <1>6 DEF Resolved, InForce, Active
    <2>2. /\ reading' \in [Reader -> Type]
          /\ \A c \in Reader : /\ reading'[c].rule = reading[c].rule /\ reading'[c].law = reading[c].law
                                /\ reading'[c].missed = (reading[c].missed \/ reading[c].rule \in rules)
        <3>1. reading' = [c \in Reader |-> [reading[c] EXCEPT !.missed = @ \/ reading[c].rule \in rules]]
            BY <1>6 DEF Empties
        <3>2. ASSUME NEW c \in Reader
              PROVE  /\ reading'[c] \in Type
                     /\ reading'[c].rule = reading[c].rule /\ reading'[c].law = reading[c].law
                     /\ reading'[c].missed = (reading[c].missed \/ reading[c].rule \in rules)
            <4>. DEFINE late == reading[c].missed \/ reading[c].rule \in rules
            <4>1. reading[c] \in Type /\ reading'[c] = [reading[c] EXCEPT !.missed = late]
                BY <1>1, <3>1
            <4>2. late \in BOOLEAN
                BY <4>1
            <4>. HIDE DEF late
            <4>3. reading'[c] \in Type /\ reading'[c].rule = reading[c].rule
                  /\ reading'[c].law = reading[c].law /\ reading'[c].missed = late
                BY <4>1, <4>2
            <4>. QED BY <4>3 DEF late
        <3>. QED BY <3>1, <3>2
    <2>3. ASSUME NEW c \in Reader PROVE Right(c)'
        <3>. SUFFICES ASSUME Answered(c)', ~reading'[c].missed PROVE Right(c)'
            BY <1>1, <2>2 DEF Answered
        <3>1. Answered(c) /\ ~reading[c].missed /\ reading[c].rule \notin rules /\ reading[c].rule \in Rule
            BY <1>1, <2>2 DEF Answered
        <3>. QED BY <1>1, <1>6, <2>1, <2>2, <3>1
    <2>. QED BY <2>2, <2>3
<1>7. CASE CycleRuns
    <2>1. PICK rules : Empties(rules) /\ cycle'.emptied = rules
        BY <1>7, CycleWrites
    <2>2. UNCHANGED <<age, law, about>> /\ \A r \in Rule : Awaited(r)' => Awaited(r) \/ r \in rules
        BY <1>7, <2>1 DEF CycleRuns, Awaited
    <2>. QED BY <2>1, <2>2, <1>6
<1>8. ASSUME NEW p \in Motion, RevokeOverride(p)
      PROVE  reading' \in [Reader -> Type] /\ \A c \in Reader : Right(c)'
    <2>1. Empties({about[p]}) /\ UNCHANGED <<age, law, about>>
          /\ \A r \in Rule : Awaited(r)' => Awaited(r) \/ r \in {about[p]}
        BY <1>8 DEF RevokeOverride, Awaited, NoCycle
    <2>. QED BY <2>1, <1>6
<1>9. CASE CycleCommits
    <2>1. revoking = {} /\ PendingRules /\ law' = cycle.law /\ UNCHANGED <<about, age, revoking, reading>>
          /\ cycle # NoCycle /\ cycle' = NoCycle
        BY <1>9, CommitWrites DEF CycleCommits
    <2>2. \A r \in Rule : ~Awaited(r) => Resolved(r)' = Resolved(r)
        <3>. SUFFICES ASSUME NEW r \in Rule, r \notin cycle.emptied PROVE Resolved(r)' = Resolved(r)
            BY <2>1 DEF Awaited
        <3>1. InForce(r)' = InForce(r)
            BY <2>1 DEF PendingRules, InForce, Active
        <3>. QED BY <3>1 DEF Resolved
    <2>3. \A r \in Rule : Awaited(r)' => Awaited(r)
        BY <2>1 DEF Awaited, NoCycle
    <2>. QED BY <2>1, <2>2, <2>3, <1>3
<1>10. CASE CycleFails
    <2>1. UNCHANGED <<reading, age, law, about, revoking>> /\ cycle' = NoCycle
        BY <1>10 DEF CycleFails
    <2>2. \A r \in Rule : (Awaited(r)' => Awaited(r)) /\ Resolved(r)' = Resolved(r)
        BY <2>1 DEF Awaited, NoCycle, Resolved, InForce, Active
    <2>. QED BY <2>1, <2>2, <1>3
<1>11. ASSUME NEW p \in Motion, RevokeCommits(p)
       PROVE  reading' \in [Reader -> Type] /\ \A c \in Reader : Right(c)'
    <2>. USE <1>11 DEF RevokeCommits
    <2>1. \A r \in Rule : ~Awaited(r) => Resolved(r)' = Resolved(r)
        <3>. SUFFICES ASSUME NEW r \in Rule, about[p] # r PROVE Resolved(r)' = Resolved(r)
            BY DEF Awaited
        <3>1. InForce(r)' = InForce(r)
            BY DEF InForce, Active, GovernanceInv, GovernanceTypes
        <3>. QED BY <3>1 DEF Resolved
    <2>2. \A r \in Rule : Awaited(r)' => Awaited(r)
        BY DEF Awaited, NoCycle
    <2>. QED BY <2>1, <2>2, <1>3
<1>12. ASSUME NEW p \in Motion, ProposalAges(p)
       PROVE  reading' \in [Reader -> Type] /\ \A c \in Reader : Right(c)'
    <2>1. UNCHANGED <<about, law, cycle, revoking, reading>>
        BY <1>12 DEF ProposalAges
    <2>2. /\ age'[p] = age[p] + 1 /\ age[p] \in 0..2 /\ \A q \in Motion \ {p} : age'[q] = age[q]
        BY <1>12 DEF ProposalAges, GovernanceInv, GovernanceTypes
    <2>3. \A r \in Rule : \/ Resolved(r)' = Resolved(r)
                          \/ Resolved(r) = p /\ age'[p] = 3
        <3>. SUFFICES ASSUME NEW r \in Rule, Resolved(r)' # Resolved(r)
                      PROVE  Resolved(r) = p /\ age'[p] = 3
            OBVIOUS
        <3>1. InForce(r)' # InForce(r)
            BY DEF Resolved
        <3>2. law[p] = "active" /\ about[p] = r /\ age'[p] = 3
            BY <3>1, <2>1, <2>2 DEF InForce, Active
        <3>. QED BY <3>2, <2>2, ResolvedIsInForce
    <2>4. \A r \in Rule : Awaited(r)' => Awaited(r)
        BY <2>1 DEF Awaited, NoCycle
    <2>5. \A q \in Motion : age[q] = 3 => age'[q] = 3
        BY <2>2
    <2>. QED BY <2>1, <2>3, <2>4, <2>5, <1>3
<1>13. ASSUME NEW c \in Reader, NEW r \in Rule, ResolveReads(c, r)
       PROVE  reading' \in [Reader -> Type] /\ \A x \in Reader : Right(x)'
    <2>1. UNCHANGED <<age, law, about, cycle, revoking>>
          /\ reading' = [reading EXCEPT ![c] = [rule |-> r, law |-> Resolved(r), missed |-> Awaited(r)]]
        BY <1>13 DEF ResolveReads
    <2>2. \A x \in Rule : Resolved(x)' = Resolved(x) /\ Awaited(x)' = Awaited(x)
        BY <2>1 DEF Resolved, InForce, Active, Awaited, NoCycle
    <2>3. Resolved(r) \in Motion \union {0} /\ Awaited(r) \in BOOLEAN
        BY ResolvedIsKept DEF Awaited
    <2>4. /\ reading' \in [Reader -> Type] /\ \A x \in Reader \ {c} : reading'[x] = reading[x]
          /\ reading'[c].rule = r /\ reading'[c].law = Resolved(r) /\ reading'[c].missed = Awaited(r)
        BY <2>1, <2>3, <1>1
    <2>. QED BY <1>1, <2>1, <2>2, <2>3, <2>4 DEF Answered
<1>14. ASSUME NEW c \in Reader, ResolveKeeps(c)
       PROVE  reading' \in [Reader -> Type] /\ \A x \in Reader : Right(x)'
    <2>1. UNCHANGED <<age, law, about, cycle, revoking>> /\ reading' = [reading EXCEPT ![c] = NoAnswer]
        BY <1>14 DEF ResolveKeeps
    <2>2. \A x \in Rule : Resolved(x)' = Resolved(x) /\ Awaited(x)' = Awaited(x)
        BY <2>1 DEF Resolved, InForce, Active, Awaited, NoCycle
    <2>3. /\ reading' \in [Reader -> Type] /\ \A x \in Reader \ {c} : reading'[x] = reading[x]
          /\ reading'[c].rule = NoRule
        BY <2>1, <1>1 DEF NoAnswer
    <2>. QED BY <1>1, <2>1, <2>2, <2>3 DEF Answered
<1>15. CASE \/ \E v \in Voter, p \in Motion, choice \in {"for", "against"} : CastVote(v, p, choice)
            \/ \E r \in Rule : CacheExpires(r)
            \/ HourPasses \/ NewSnapshot \/ UNCHANGED governanceVars
    BY <1>15, <1>4 DEF CastVote, CacheExpires, HourPasses, NewSnapshot, governanceVars
<1>. HIDE DEF Type, Right
<1>. QED BY <1>5, <1>7, <1>8, <1>9, <1>10, <1>11, <1>12, <1>13, <1>14, <1>15 DEF GovernanceNext

LEMMA ExpiryKeeps ==
    ASSUME GovernanceInv, NEW r \in Rule, CacheExpires(r)
    PROVE  GovernanceInv'
<1>. USE DEF CacheExpires
<1>1. cache' \in [Rule -> Motion \union {0, NoEntry}]
      /\ cache'[r] = NoEntry /\ \A x \in Rule \ {r} : cache'[x] = cache[x]
    BY DEF GovernanceInv, GovernanceTypes, NoEntry
<1>2. \A x \in Rule \ {r} : x \in early => x \in early'
    OBVIOUS
<1>. QED BY <1>1, <1>2, OnlyTheCache

LEMMA AgeKeeps ==
    ASSUME GovernanceInv, NEW p \in Motion, ProposalAges(p)
    PROVE  GovernanceInv'
<1>. USE DEF ProposalAges
<1>1. UNCHANGED <<status, about, votes, law, hourOver, cycle, revoking, cache, superseded, halted, early>>
    OBVIOUS
<1>2. /\ age' \in [Motion -> 0..3] /\ age'[p] = age[p] + 1 /\ age[p] \in 0..2
      /\ \A q \in Motion \ {p} : age'[q] = age[q]
    BY DEF GovernanceInv, GovernanceTypes
<1>3. GovernanceTypes' /\ LawsOfRecord' /\ (\A pq \in superseded : PairOfLaws(law, pq))'
    BY <1>1, <1>2 DEF GovernanceInv, GovernanceTypes, LawsOfRecord, Agrees, Decision, OneLaw, Active,
                      PairOfLaws, NoEntry
<1>4. Pending'
    <2>. SUFFICES ASSUME cycle # NoCycle
                  PROVE  (revoking = {} /\ PendingRows /\ PendingLaws /\ PendingRules)'
        BY <1>1 DEF Pending, NoCycle
    <2>1. revoking = {} /\ PendingRows /\ PendingLaws /\ PendingRules
        BY DEF GovernanceInv, Pending
    <2>2. PendingRows'
        BY <1>1, <2>1 DEF PendingRows, Agrees, Decision
    <2>3. PendingLaws'
        BY <1>1, <2>1 DEF PendingLaws, OneLaw, Active, PairOfLaws
    <2>4. PendingRules'
        BY <1>1, <2>1 DEF PendingRules, NoEntry
    <2>. QED BY <1>1, <2>1, <2>2, <2>3, <2>4
<1>5. RevokingLaws'
    BY <1>1 DEF GovernanceInv, RevokingLaws, NoEntry
<1>6. StaleRuleOnlyByEarlyRead'
    <2>. SUFFICES ASSUME NEW r \in Rule, cache[r] \notin {NoEntry, Resolved(r)'}
                  PROVE  r \in early \/ (cache[r] \in Motion /\ age'[cache[r]] = 3)
        BY <1>1 DEF StaleRuleOnlyByEarlyRead, NoEntry
    <2>1. CASE cache[r] # Resolved(r)
        <3>1. r \in early \/ (cache[r] \in Motion /\ age[cache[r]] = 3)
            BY <2>1 DEF GovernanceInv, StaleRuleOnlyByEarlyRead
        <3>. QED BY <3>1, <1>2
    <2>2. CASE cache[r] = Resolved(r)
        <3>1. InForce(r)' # InForce(r)
            BY <2>2 DEF Resolved
        <3>2. law[p] = "active" /\ about[p] = r /\ age'[p] = 3
            BY <3>1, <1>1, <1>2 DEF InForce, Active
        <3>3. Resolved(r) = p
            BY <3>2, <1>2, ResolvedIsInForce
        <3>. QED BY <2>2, <3>2, <3>3
    <2>. QED BY <2>1, <2>2
<1>. QED BY <1>3, <1>4, <1>5, <1>6 DEF GovernanceInv

LEMMA HourKeeps ==
    ASSUME GovernanceInv, HourPasses
    PROVE  GovernanceInv'
<1>. USE DEF HourPasses
<1>1. /\ GovernanceTypes' /\ LawsOfRecord' /\ (\A pq \in superseded : PairOfLaws(law, pq))'
      /\ StaleRuleOnlyByEarlyRead'
    BY RecordKept DEF GovernanceInv, GovernanceTypes
<1>2. Pending'
    BY DEF GovernanceInv, Pending, PendingRows, PendingLaws, PendingRules, Agrees, Decision, OneLaw,
           Active, PairOfLaws, NoEntry, NoCycle
<1>3. RevokingLaws'
    BY DEF GovernanceInv, RevokingLaws, NoEntry
<1>. QED BY <1>1, <1>2, <1>3 DEF GovernanceInv

LEMMA GovernanceStep ==
    ASSUME GovernanceInv, Readings, [GovernanceNext]_governanceVars
    PROVE  GovernanceInv'
<1>1. CASE GovernanceNext
    <2>1. ASSUME NEW p \in Motion, RevokeOverride(p) \/ RevokeCommits(p) \/ ProposalAges(p)
          PROVE  GovernanceInv'
        BY <2>1, RevocationKeeps, RevokeCommitKeeps, AgeKeeps
    <2>2. ASSUME NEW r \in Rule, CacheExpires(r)
          PROVE  GovernanceInv'
        BY <2>2, ExpiryKeeps
    <2>3. CASE NewSnapshot \/ \E c \in Reader, r \in Rule : ResolveReads(c, r)
        BY <2>3, OnlyTheCache DEF NewSnapshot, ResolveReads, GovernanceInv, GovernanceTypes
    <2>4. ASSUME NEW c \in Reader, ResolveKeeps(c)
          PROVE  GovernanceInv'
        BY <2>4, KeptAnswerKeeps
    <2>. QED BY <1>1, <2>1, <2>2, <2>3, <2>4, ProposalKeeps, VoteKeeps, CycleRunsKeeps, CommitKeeps,
                FailureKeeps, HourKeeps DEF GovernanceNext
<1>2. CASE UNCHANGED governanceVars
    BY <1>2, OnlyTheCache DEF governanceVars, GovernanceInv, GovernanceTypes
<1>. QED BY <1>1, <1>2

LEMMA GovernanceInvariant == GovernanceSpec => []GovernanceInv
<1>1. GovernanceInit => Readings
    BY DEF GovernanceInit, Readings, NoAnswer, Answered, NoEntry
<1>. QED BY <1>1, GovernanceStart, GovernanceStep, ReadingsStep, PTL DEF GovernanceSpec

------------------------------------------------------------------------------
(* What it implies *)

(* What became of a proposal is what all the votes recorded for it say, those  *)
(* that arrive while it is being closed included.                              *)
THEOREM EveryVoteIsCounted == GovernanceSpec => []EveryVoteCounts
<1>1. GovernanceInv => EveryVoteCounts
    BY DEF GovernanceInv, LawsOfRecord, Agrees, EveryVoteCounts
<1>. QED BY <1>1, GovernanceInvariant, PTL

(* A law that another replaced while it was suspended is active again only if  *)
(* the other one was itself suspended, or is over.                             *)
THEOREM ReplacedLawsStayOut == GovernanceSpec => []ReplacedReturnsOnlyByJump
<1>1. ASSUME GovernanceInv PROVE ReplacedReturnsOnlyByJump
    <2>. SUFFICES ASSUME NEW pq \in superseded, law[pq[1]] = "active"
                  PROVE  pq[2] \in halted \/ law[pq[2]] = "ended"
        BY DEF ReplacedReturnsOnlyByJump
    <2>1. PairOfLaws(law, pq) /\ LawsOfRecord /\ GovernanceTypes
        BY <1>1 DEF GovernanceInv
    <2>2. law[pq[2]] # "active"
        BY <2>1 DEF PairOfLaws, LawsOfRecord, OneLaw, Active
    <2>3. law[pq[2]] \in {"suspended", "ended"}
        BY <2>1, <2>2 DEF PairOfLaws, GovernanceTypes, LawStates
    <2>. QED BY <2>1, <2>3 DEF PairOfLaws, LawsOfRecord
<1>. QED BY <1>1, GovernanceInvariant, PTL

(* The rest of the game sees another law than the one in force only if the law *)
(* was read before the commit of a change and kept after the cache had been    *)
(* emptied for it, or if its time has passed since it was read.                *)
THEOREM StaleRulesWereReadEarly == GovernanceSpec => []StaleRuleOnlyByEarlyRead
<1>1. GovernanceInv => StaleRuleOnlyByEarlyRead
    BY DEF GovernanceInv
<1>. QED BY <1>1, GovernanceInvariant, PTL

(* No rule has two active laws, and their number grows beyond the limit only   *)
(* in a cycle in which a suspended law came back.                              *)
THEOREM LawsStayWithinTheLimit == GovernanceSpec => LawsWithinLimit
<1>1. ASSUME GovernanceInv, GovernanceInv', [GovernanceNext]_governanceVars
      PROVE  [/\ \A p, q \in Active(law)' : about'[p] = about'[q] => p = q
              /\ LET before == Cardinality(Active(law))
                     after == Cardinality(Active(law)')
                 IN  after > MaxLaws /\ after > before => cycle # NoCycle /\ cycle.ran # {}]_governanceVars
    <2>1. \A p, q \in Active(law)' : about'[p] = about'[q] => p = q
        BY <1>1 DEF GovernanceInv, LawsOfRecord, OneLaw
    <2>2. /\ Cardinality(Active(law)) \in Nat /\ Cardinality(Active(law')) \in Nat /\ MaxLaws \in Nat
          /\ Active(law)' = Active(law')
        BY ActiveIsFinite, GovernanceAssumption DEF Active
    <2>3. CASE law' = law
        BY <2>1, <2>2, <2>3
    <2>4. CASE CycleCommits
        <3>1. law' = cycle.law /\ PendingLaws /\ cycle # NoCycle
            BY <1>1, <2>4, CommitWrites DEF CycleCommits
        <3>. QED BY <2>1, <2>2, <3>1 DEF PendingLaws
    <2>5. ASSUME NEW p \in Motion, RevokeCommits(p) PROVE Active(law') \subseteq Active(law)
        BY <1>1, <2>5 DEF RevokeCommits, Active, GovernanceInv, GovernanceTypes
    <2>6. ASSUME Active(law') \subseteq Active(law)
          PROVE  Cardinality(Active(law')) <= Cardinality(Active(law))
        BY <2>6, ActiveIsFinite, FS_Subset
    <2>7. law' = law \/ CycleCommits \/ \E p \in Motion : RevokeCommits(p)
        BY <1>1 DEF GovernanceNext, governanceVars, CreateProposal, CastVote, CycleRuns, CycleFails,
                    RevokeOverride, ProposalAges, ResolveReads, ResolveKeeps, CacheExpires,
                    HourPasses, NewSnapshot
    <2>8. CASE \E p \in Motion : RevokeCommits(p)
        <3>1. Cardinality(Active(law')) <= Cardinality(Active(law))
            BY <2>8, <2>5, <2>6
        <3>. QED BY <2>1, <2>2, <3>1
    <2>. QED BY <2>3, <2>4, <2>7, <2>8
<1>. QED BY <1>1, GovernanceInvariant, PTL DEF GovernanceSpec, LawsWithinLimit

=============================================================================
