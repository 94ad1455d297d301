------------------------------ MODULE MCEconomy ------------------------------
(* A small instance of Wallets for TLC: three players, two nations. *)
EXTENDS Wallets, TLC

CONSTANTS u1, u2, u3, n1, n2, s1, s2

MCFounder == [n \in Country |-> IF n = n1 THEN u1 ELSE u2]
\* u3 is a citizen of n1.
MCStartHome == [u \in Player |-> IF u = u2 THEN n2 ELSE n1]
\* After a deposit the reparation n1 loses is what was deposited.
MCStartVault == [n \in Country |-> IF n = n1 THEN 196 ELSE 100]
MCCountryId == [n \in Country |-> IF n = n1 THEN 1 ELSE 2]

\* Sessions are interchangeable.
MCSessions == Permutations(Session)

=============================================================================
