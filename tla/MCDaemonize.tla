---------------------------- MODULE MCDaemonize ----------------------------
(* Instantiates Daemonize for TLC. Two CLI processes, or one CLI whose     *)
(* user types "daemonize" again after a timeout, start two daemons that    *)
(* share the temp paths and the installed binary.                          *)
EXTENDS Daemonize

CONSTANTS u1, u2

MCOneCli == {u1}
MCTwoClis == {u1, u2}

\* uname() of a supported machine, and of one detect_platform rejects.
MCLinuxAmd64 == [sysname |-> "Linux", machine |-> "x86_64"]
MCLinuxRiscv == [sysname |-> "Linux", machine |-> "riscv64"]
MCSupportedHost == {MCLinuxAmd64}
MCAnyHost == {MCLinuxAmd64, MCLinuxRiscv}

\* CLI command lines: the default port, an explicit 23888, a port the
\* daemon does not listen on, and one that wraps to 4464 in in_port_t.
MCNumerals == [s \in {"23888", "12345", "70000"} |->
                 CASE s = "23888" -> 23888 [] s = "12345" -> 12345
                   [] s = "70000" -> 70000]
MCDefaultArgv == {<< >>}
MCAnyArgv == {<< >>, <<"-i", "-p", "12345">>}

=============================================================================
