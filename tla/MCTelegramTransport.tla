-------------------------- MODULE MCTelegramTransport --------------------------
(* Instances of TelegramTransport for TLC. *)
EXTENDS TelegramTransport, TLC

Symmetry == Permutations(Handlers)
=============================================================================
