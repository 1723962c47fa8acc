---------------------------- MODULE MCSupervisor ----------------------------
(* Instantiates Supervisor for TLC: two sessions, so that a second spin_up *)
(* meets what the first left behind; a threshold of 2 and logs of up to 4  *)
(* lines, so that a count can both reach the threshold and be reset; two   *)
(* polls before SIGKILL, so that terminate() both loops and escalates.     *)
EXTENDS Supervisor

CONSTANTS c1, c2

MCConfigs == {c1, c2}
MCExistingConfigs == {c1}

=============================================================================
