---------------------------- MODULE MCMembership ----------------------------
(* Small instances of Membership for TLC. *)
EXTENDS Membership, TLC

CONSTANTS u1, u2, u3, n1, n2, a1

\* n1 exists at the start and u1 founded it; the other human nations do not
\* exist yet.
MCInitialFounder == [n \in Human |-> IF n = n1 THEN u1 ELSE NoUser]

\* A later start, to spare TLC the joining: everybody is a settled citizen of
\* n1, nothing is underway. Init reaches it: each player joins the group, the
\* bot handles the update, and the clock is a bound of the model only.
MCSettledInit ==
    /\ registered = User
    /\ home = [u \in User |-> n1]
    /\ userRole = [u \in User |-> IF u = u1 THEN "founder" ELSE "citizen"]
    /\ activeIn = [u \in User |-> {n1}]
    /\ memberRole = [u \in User |-> [n \in Nation |->
                        IF n # n1 THEN "none" ELSE IF u = u1 THEN "founder" ELSE "citizen"]]
    /\ holding = [u \in User |-> [n \in Nation |-> IF n = n1 THEN "funded" ELSE "absent"]]
    /\ proj = [n \in Human |-> [u \in User |-> IF n = n1 THEN "member" ELSE "absent"]]
    /\ nationState = [n \in Nation |-> IF n \in Human \ {n1} THEN "absent" ELSE "active"]
    /\ founder = [n \in Nation |-> IF n = n1 THEN u1 ELSE NoUser]
    /\ count = [n \in Nation |-> IF n = n1 THEN Cardinality(User) ELSE 0]
    /\ truth = [n \in Human |-> [u \in User |-> IF n = n1 THEN "member" ELSE "left"]]
    /\ inflight = {}
    /\ clock = 0
    /\ op = [u \in User |-> Idle]
    /\ counted = [n \in Human |-> {}]
MCSettledSpec == MCSettledInit /\ [][Next]_vars

\* Bound: at most two handlers are between two of their transactions, and at
\* most one update is on its way.
MCFewUnderway ==
    Cardinality({u \in User : op[u] # Idle}) <= 2 /\ Cardinality(inflight) <= 1

\* u1 is the founder; the others are interchangeable.
MCSymmetry == Permutations({u2, u3})

=============================================================================
