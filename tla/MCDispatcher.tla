---------------------------- MODULE MCDispatcher ----------------------------
(***************************************************************************)
(* Instances of Dispatcher for TLC: of which kind the destination is, and  *)
(* how many rows its sender takes at once.                                 *)
(***************************************************************************)
EXTENDS Dispatcher

CONSTANTS chat

MCTelegram == [d \in Destination |-> "telegram"]
MCDiscord == [d \in Destination |-> "discord"]

MCTwo == [d \in Destination |-> 2]
=============================================================================
