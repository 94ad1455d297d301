----------------------------- MODULE Citizenship -----------------------------
(***************************************************************************)
(* What citizenship promises the rest of the game: every user is a citizen  *)
(* of one nation or of none; nobody is moved from one nation to another     *)
(* without leaving the first; a nation that is dissolved stays dissolved,   *)
(* and its dissolution releases everybody it has at that moment; only a     *)
(* user without a nation founds one.                                        *)
(***************************************************************************)
CONSTANTS User, Nation, NoNation

VARIABLES citizenOf, state

citizenshipVars == <<citizenOf, state>>

CitizenshipInit ==
    /\ citizenOf \in [User -> Nation \cup {NoNation}]
    /\ state \in [Nation -> {"absent", "active"}]
    /\ \A u \in User : citizenOf[u] # NoNation => state[citizenOf[u]] = "active"

\* A user without a nation becomes a citizen of one that exists.
Become(u, n) ==
    /\ citizenOf[u] = NoNation /\ state[n] # "absent"
    /\ citizenOf' = [citizenOf EXCEPT ![u] = n]
    /\ UNCHANGED state

Cease(u) ==
    /\ citizenOf[u] # NoNation
    /\ citizenOf' = [citizenOf EXCEPT ![u] = NoNation]
    /\ UNCHANGED state

Found(u, n) ==
    /\ citizenOf[u] = NoNation /\ state[n] = "absent"
    /\ citizenOf' = [citizenOf EXCEPT ![u] = n]
    /\ state' = [state EXCEPT ![n] = "active"]

Dissolve(n) ==
    /\ state[n] = "active"
    /\ citizenOf' = [u \in User |-> IF citizenOf[u] = n THEN NoNation ELSE citizenOf[u]]
    /\ state' = [state EXCEPT ![n] = "dissolved"]

CitizenshipNext ==
    \/ \E u \in User, n \in Nation : Become(u, n) \/ Found(u, n)
    \/ \E u \in User : Cease(u)
    \/ \E n \in Nation : Dissolve(n)

CitizenshipSpec == CitizenshipInit /\ [][CitizenshipNext]_citizenshipVars

=============================================================================
