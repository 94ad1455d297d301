-------------------------------- MODULE Game --------------------------------
(*****************************************************************************)
(* What the dialogues share: the players, and the conversation each of them  *)
(* has with the bot. A conversation is a state of the dialogue in progress   *)
(* (aiogram's FSM, kept in Redis) and a set of buttons the chat still shows: *)
(* a button can be pressed as long as it is shown, whatever the state is,    *)
(* and more than once before the message that has it is edited.              *)
(*****************************************************************************)
EXTENDS Integers, Sequences, FiniteSets

CONSTANTS
    Player,
    NoPlayer

ASSUME GameAssumption == NoPlayer \notin Player

\* At most n, and what a counter is capped at in every module.
Capped(k, n) == IF k > n THEN n ELSE k

=============================================================================
