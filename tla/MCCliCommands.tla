--------------------------- MODULE MCCliCommands ---------------------------
(* Instantiates CliCommands for TLC with the code's timings in ticks of    *)
(* 500 ms: whoami read timeout 2 s, command read timeout 5 s, spin_up's    *)
(* 500 ms sleep, and terminate()'s 50 polls of 100 ms.                     *)
EXTENDS CliCommands

CONSTANTS k1, k2, k3

MCTwoClients == {k1, k2}
MCThreeClients == {k1, k2, k3}

=============================================================================
