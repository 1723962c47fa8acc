------------------------------ MODULE Daemonize ------------------------------
(***************************************************************************)
(* Starting the daemon from the interactive CLI, and what the started      *)
(* daemons do with the files they share.                                   *)
(*                                                                         *)
(*  - InteractiveCLI::cmd_daemonize asks whether a daemon answers          *)
(*    "whoami:", spawns one with Daemonizer::spawn_daemon (double fork,    *)
(*    the parent waits only for the intermediate child), then polls        *)
(*    Daemonizer::wait_for_daemon until a daemon answers or the timeout.   *)
(*  - Every spawned process runs run_daemon_mode: the signal handlers are  *)
(*    installed first, then BinaryManager::ensure_binary_available         *)
(*    downloads to <tmp>/<filename>, extracts into <tmp>/wireproxy_extract *)
(*    and copies to ~/.argus/wireproxy/wireproxy; then TCPServer::start    *)
(*    binds 127.0.0.1:23888 or throws (FATAL, exit 1).                     *)
(*  - signal_handler stops the acceptor and calls exit(0).                 *)
(*                                                                         *)
(* The three paths are the same for every daemon, so two daemons started  *)
(* one after the other (a retry after a timeout, or two CLIs) share them.  *)
(* A daemon's wireproxy session is abstracted to alive or not; its         *)
(* lifecycle is the subject of Supervisor.                                 *)
(***************************************************************************)
EXTENDS Integers, FiniteSets, Sequences

CONSTANTS
    Clis,         \* interactive CLI processes (model values)
    MaxAttempts,  \* times each CLI user types "daemonize"
    WaitLimit,    \* polls of wait_for_daemon before the 10 s timeout
    Faults,       \* whether network, fork and disk errors can happen
    Hosts,        \* uname results the daemons may run on: [sysname, machine]
    Argvs,        \* command lines a CLI may be started with (argv[1..])
    Numerals      \* std::stoi of the numeric strings in Argvs; others throw

ASSUME MaxAttempts \in Nat \ {0} /\ WaitLimit \in Nat /\ Faults \in BOOLEAN

\* Every successful spawn_daemon starts one daemon process.
MaxDaemons == Cardinality(Clis) * MaxAttempts
Daemons == 1..MaxDaemons
NoIno == 0

VARIABLES
    cli,      \* cli[u]: where cmd_daemonize of CLI u is, and what it printed
    spawned,  \* number of daemon processes started so far
    dmn,      \* dmn[d]: daemon process d: pc, inode its ofstream holds, why it failed
    dl,       \* the file <tmp>/wireproxy_<os>_<arch>.tar.gz: content and inode
    ex,       \* the directory <tmp>/wireproxy_extract
    bin,      \* the file ~/.argus/wireproxy/wireproxy
    sess,     \* sess[d]: whether daemon d's wireproxy child is alive
    badExec,  \* history: some spin_up exec'd a binary whose copy had not finished
    host,     \* the machine's uname(), the same for every daemon
    argv      \* argv[u]: the command line CLI u was started with

vars == <<cli, spawned, dmn, dl, ex, bin, sess, badExec, host, argv>>

CliPcs == {"idle", "wait", "done"}
Said == {"none", "already", "spawn_error", "timeout", "success"}
DaemonPcs == {"none", "check", "download", "write", "extract", "find",
              "copy", "copying", "bind", "serving", "failed", "exited"}
Steps == {"none", "fault", "platform", "extract", "find", "copy", "bind"}

TypeOK ==
    /\ cli \in [Clis -> [pc : CliPcs, polls : 0..WaitLimit,
                         tries : 0..MaxAttempts, said : Said]]
    /\ spawned \in 0..MaxDaemons
    /\ dmn \in [Daemons -> [pc : DaemonPcs, ino : {NoIno} \cup Daemons, why : Steps]]
    /\ dl \in [st : {"none", "partial", "complete"}, ino : {NoIno} \cup Daemons]
    /\ ex \in {"absent", "empty", "bin"}
    /\ bin \in {"none", "partial", "complete"}
    /\ sess \in [Daemons -> {"none", "alive"}]
    /\ badExec \in BOOLEAN
    /\ host \in Hosts
    /\ argv \in [Clis -> Argvs]

Init ==
    /\ cli = [u \in Clis |-> [pc |-> "idle", polls |-> 0, tries |-> 0, said |-> "none"]]
    /\ spawned = 0
    /\ dmn = [d \in Daemons |-> [pc |-> "none", ino |-> NoIno, why |-> "none"]]
    /\ dl = [st |-> "none", ino |-> NoIno]
    /\ ex = "absent"
    /\ bin = "none"
    /\ sess = [d \in Daemons |-> "none"]
    /\ badExec = FALSE
    /\ host \in Hosts
    /\ argv \in [Clis -> Argvs]

Live(d) == dmn[d].pc \notin {"none", "failed", "exited"}

(***************************************************************************)
(* The command line and the probe.                                         *)
(***************************************************************************)
\* ArgParser::parse from argv index i, r the ParsedArgs so far. An unknown
\* option draws a warning; positional arguments are collected but never
\* read, so both leave r as it is. "-p" without a value is ignored.
DefaultArgs == [mode |-> "auto", help |-> FALSE, version |-> FALSE, port |-> 23888]
RECURSIVE ParseFrom(_, _, _)
ParseFrom(a, i, r) ==
    IF i > Len(a) THEN r
    ELSE CASE a[i] \in {"--daemon", "-d"} ->
                  ParseFrom(a, i + 1, [r EXCEPT !.mode = "daemon"])
           [] a[i] \in {"--interactive", "-i"} ->
                  ParseFrom(a, i + 1, [r EXCEPT !.mode = "interactive"])
           [] a[i] \in {"--help", "-h"} -> ParseFrom(a, i + 1, [r EXCEPT !.help = TRUE])
           [] a[i] \in {"--version", "-v"} ->
                  ParseFrom(a, i + 1, [r EXCEPT !.version = TRUE])
           [] a[i] \in {"--port", "-p"} /\ i + 1 <= Len(a) ->
                  ParseFrom(a, i + 2,
                      [r EXCEPT !.port = IF a[i + 1] \in DOMAIN Numerals
                                         THEN Numerals[a[i + 1]] ELSE 23888])
           [] OTHER -> ParseFrom(a, i + 1, r)
ParseArgs(a) == ParseFrom(a, 1, DefaultArgs)

\* main: --help and --version print and return, --daemon runs the daemon;
\* every other command line runs the interactive CLI (directly or through
\* run_auto_mode) with the parsed port.
RunsCli(a) ==
    LET r == ParseArgs(a) IN ~r.help /\ ~r.version /\ r.mode # "daemon"

\* sockpp::inet_address takes an in_port_t: the int port is taken mod 2^16.
InPort(p) == p % 65536

\* TCPServer::port_: the daemon listens on 23888 whatever its command line.
DaemonPort == 23888

\* DaemonClient::is_daemon_running: connect to the CLI's port, "whoami:", a
\* reply holding "version". Only a daemon past TCPServer::start answers.
ClientIsRunning(u) ==
    /\ InPort(ParseArgs(argv[u]).port) = DaemonPort
    /\ \E d \in Daemons : dmn[d].pc = "serving"

\* Daemonizer::is_daemon_running, the same probe, polled by wait_for_daemon.
\* cmd_daemonize default-constructs its Daemonizer, so it probes 23888
\* whatever port the CLI was given.
DaemonizerIsRunning(u) == \E d \in Daemons : dmn[d].pc = "serving"

(***************************************************************************)
(* Seeded faults: plausible slips in the code below, used as mutants.      *)
(***************************************************************************)
TimedOutLate(n) == n > WaitLimit
WaitSleepRestartClock(u) ==
    /\ cli[u].pc = "wait"
    /\ ~(cli[u].polls >= WaitLimit)
    /\ ~DaemonizerIsRunning(u)
    /\ cli' = [cli EXCEPT ![u].polls = 0]
    /\ UNCHANGED <<spawned, dmn, dl, ex, bin, sess, badExec, host, argv>>

(***************************************************************************)
(* Queries and helpers.                                                    *)
(***************************************************************************)
\* The loop condition of wait_for_daemon: elapsed time has reached the timeout.
TimedOut(n) == n >= WaitLimit

\* BinaryManager::binary_exists: exists() && is_regular_file(). A file that
\* a copy is still writing is a regular file too.
BinaryExists == bin # "none"

\* extract_archive calls create_directories(extract_dir) before running tar.
ExtractDirCreated == IF ex = "absent" THEN "empty" ELSE ex

\* extract_archive runs tar -xzf <archive> -C <dir> through std::system; it
\* succeeds only on a complete archive and an existing directory.
TarSucceeds == dl.st = "complete" /\ ExtractDirCreated # "absent"

\* acceptor_->open(addr, 5, REUSE) sets SO_REUSEPORT: a second daemon of the
\* same user binds and listens beside the first. It fails only when a socket
\* outside the model holds the port (another program, another user), which
\* is an environment error.
BindRefused(d) == Faults

\* The failure paths of ensure_binary_available after extraction:
\* remove_all(extract_dir) and remove(download_path), then return false.
CleanupTemp ==
    /\ ex' = "absent"
    /\ dl' = [st |-> "none", ino |-> NoIno]

\* BinaryManager::get_version: when binary_exists(), popen("<binary> -v")
\* executes the installed file, whatever it holds.
GetVersionExecs == BinaryExists

\* Some daemon's filesystem::copy has the installed binary open for writing.
Copying == \E e \in Daemons : dmn[e].pc = "copying"

\* Some wireproxy child runs the installed binary: opening it with O_TRUNC
\* fails with ETXTBSY, and the copy reports the error.
Running == \E e \in Daemons : sess[e] = "alive"

Fail(d, why) ==
    dmn' = [dmn EXCEPT ![d].pc = "failed", ![d].why = why]

Goto(d, pc) == dmn' = [dmn EXCEPT ![d].pc = pc]

(***************************************************************************)
(* InteractiveCLI::cmd_daemonize and Daemonizer.                           *)
(***************************************************************************)
\* The user types "daemonize" (again) at the prompt.
Typed(u) ==
    /\ RunsCli(argv[u])
    /\ cli[u].pc \in {"idle", "done"}
    /\ cli[u].tries < MaxAttempts

\* A daemon already answers: "Daemon is already running!".
AlreadyRunning(u) ==
    /\ Typed(u)
    /\ ClientIsRunning(u)
    /\ cli' = [cli EXCEPT ![u] = [@ EXCEPT !.pc = "done", !.tries = @ + 1,
                                            !.said = "already"]]
    /\ UNCHANGED <<spawned, dmn, dl, ex, bin, sess, badExec, host, argv>>

\* spawn_daemon fails: fork() < 0, or the intermediate child's setsid() or
\* second fork() fails and it exits 1.
SpawnFailed(u) ==
    /\ Faults
    /\ Typed(u)
    /\ ~ClientIsRunning(u)
    /\ cli' = [cli EXCEPT ![u] = [@ EXCEPT !.pc = "done", !.tries = @ + 1,
                                            !.said = "spawn_error"]]
    /\ UNCHANGED <<spawned, dmn, dl, ex, bin, sess, badExec, host, argv>>

\* spawn_daemon succeeds: the grandchild execs "--daemon", the intermediate
\* child exits 0 and the parent's waitpid returns; the CLI starts waiting.
SpawnDaemon(u) ==
    /\ Typed(u)
    /\ ~ClientIsRunning(u)
    /\ spawned' = spawned + 1
    /\ dmn' = [dmn EXCEPT ![spawned + 1].pc = "check"]
    /\ cli' = [cli EXCEPT ![u] = [pc |-> "wait", polls |-> 0,
                                  tries |-> @.tries + 1, said |-> "none"]]
    /\ UNCHANGED <<dl, ex, bin, sess, badExec, host, argv>>

\* wait_for_daemon: a poll finds the daemon: "SUCCESS! Daemon is now running."
WaitReady(u) ==
    /\ cli[u].pc = "wait"
    /\ ~TimedOut(cli[u].polls)
    /\ DaemonizerIsRunning(u)
    /\ cli' = [cli EXCEPT ![u].pc = "done", ![u].said = "success"]
    /\ UNCHANGED <<spawned, dmn, dl, ex, bin, sess, badExec, host, argv>>

\* A poll finds nothing; sleep 100 ms.
WaitSleep(u) ==
    /\ cli[u].pc = "wait"
    /\ ~TimedOut(cli[u].polls)
    /\ ~DaemonizerIsRunning(u)
    /\ cli' = [cli EXCEPT ![u].polls = @ + 1]
    /\ UNCHANGED <<spawned, dmn, dl, ex, bin, sess, badExec, host, argv>>

\* The loop ends on the timeout: "ERROR: Timeout waiting for daemon to start".
WaitTimeout(u) ==
    /\ cli[u].pc = "wait"
    /\ TimedOut(cli[u].polls)
    /\ cli' = [cli EXCEPT ![u].pc = "done", ![u].said = "timeout"]
    /\ UNCHANGED <<spawned, dmn, dl, ex, bin, sess, badExec, host, argv>>

CliWait(u) == WaitReady(u) \/ WaitSleep(u) \/ WaitTimeout(u)

Cli(u) == AlreadyRunning(u) \/ SpawnFailed(u) \/ SpawnDaemon(u) \/ CliWait(u)

(***************************************************************************)
(* run_daemon_mode and BinaryManager::ensure_binary_available, daemon d.   *)
(***************************************************************************)
\* binary_exists() at the top of ensure_binary_available: true skips to bind.
\* BinaryManager::detect_platform: the <os, arch> of the release archive
\* for uname() h, or NoPlatform where it throws (unknown OS or machine,
\* 32-bit ARM off Linux, or a pair with no published archive).
OsName(sys) == CASE sys = "Darwin" -> "darwin" [] sys = "Linux" -> "linux"
                 [] OTHER -> "none"
ArchName(os, m) ==
    CASE m \in {"x86_64", "AMD64"} -> "amd64"
      [] m = "arm64" -> "arm64"
      [] m = "aarch64" -> IF os = "linux" THEN "arm" ELSE "arm64"
      [] m \in {"armv7l", "armv6l", "arm"} /\ os = "linux" -> "arm"
      [] OTHER -> "none"
ValidArchives == {<<"darwin", "amd64">>, <<"darwin", "arm64">>,
                  <<"linux", "amd64">>, <<"linux", "arm">>}
NoPlatform == << >>
DetectPlatform(h) ==
    LET os == OsName(h.sysname)
        arch == ArchName(os, h.machine)
    IN IF os # "none" /\ <<os, arch>> \in ValidArchives THEN <<os, arch>>
       ELSE NoPlatform

\* ensure_binary_available: an installed binary is used as is; otherwise
\* detect_platform runs, and its exception ends run_daemon_mode ("FATAL
\* ERROR", exit 1) before any download.
CheckBinary(d) ==
    /\ dmn[d].pc = "check"
    /\ CASE BinaryExists -> Goto(d, "bind")
          [] DetectPlatform(host) = NoPlatform -> Fail(d, "platform")
          [] OTHER -> Goto(d, "download")
    /\ UNCHANGED <<cli, spawned, dl, ex, bin, sess, badExec, host, argv>>

\* download_file: cpr::Get returns a status other than 200, or the ofstream
\* does not open; "Failed to download wireproxy", exit 1.
DownloadFailed(d) ==
    /\ Faults
    /\ dmn[d].pc = "download"
    /\ Fail(d, "fault")
    /\ UNCHANGED <<cli, spawned, dl, ex, bin, sess, badExec, host, argv>>

\* download_file: the body is in memory; std::ofstream(destination) creates
\* the file, or truncates the one at the path (keeping its inode).
DownloadOpen(d) ==
    /\ dmn[d].pc = "download"
    /\ dl' = IF dl.st = "none" THEN [st |-> "partial", ino |-> d]
                               ELSE [dl EXCEPT !.st = "partial"]
    /\ dmn' = [dmn EXCEPT ![d].pc = "write", ![d].ino = dl'.ino]
    /\ UNCHANGED <<cli, spawned, ex, bin, sess, badExec, host, argv>>

\* file.write and file.close: the bytes land in the inode opened, which is
\* the one at the path only if no other daemon removed it meanwhile.
DownloadWrite(d) ==
    /\ dmn[d].pc = "write"
    /\ dl' = IF dl.st # "none" /\ dl.ino = dmn[d].ino
             THEN [dl EXCEPT !.st = "complete"] ELSE dl
    /\ Goto(d, "extract")
    /\ UNCHANGED <<cli, spawned, ex, bin, sess, badExec, host, argv>>

\* extract_archive: create_directories, then tar -xzf, which succeeds only
\* on a complete archive in an existing directory. On failure
\* ensure_binary_available removes download_path and returns false.
Extract(d) ==
    /\ dmn[d].pc = "extract"
    /\ \/ /\ TarSucceeds
          /\ ex' = "bin"
          /\ Goto(d, "find")
          /\ UNCHANGED dl
       \/ /\ ~TarSucceeds
          /\ ex' = ExtractDirCreated
          /\ dl' = [st |-> "none", ino |-> NoIno]
          /\ Fail(d, "extract")
    /\ UNCHANGED <<cli, spawned, bin, sess, badExec, host, argv>>

\* exists(extract_dir / "wireproxy"), or "Unable to find wireproxy binary".
Find(d) ==
    /\ dmn[d].pc = "find"
    /\ \/ /\ ex = "bin"
          /\ Goto(d, "copy")
          /\ UNCHANGED <<dl, ex>>
       \/ /\ ex # "bin"
          /\ CleanupTemp
          /\ Fail(d, "find")
    /\ UNCHANGED <<cli, spawned, bin, sess, badExec, host, argv>>

\* filesystem::copy(..., overwrite_existing, ec) opens the destination with
\* truncation; a missing source sets ec and takes the cleanup path.
CopyStart(d) ==
    /\ dmn[d].pc = "copy"
    /\ \/ /\ ex = "bin"
          /\ ~Running
          /\ bin' = "partial"
          /\ Goto(d, "copying")
          /\ UNCHANGED <<dl, ex>>
       \/ /\ ex # "bin" \/ Running
          /\ CleanupTemp
          /\ Fail(d, "copy")
          /\ UNCHANGED bin
    /\ UNCHANGED <<cli, spawned, sess, badExec, host, argv>>

\* The copy fails part way (disk full, I/O error): cleanup, return false.
CopyFailed(d) ==
    /\ Faults
    /\ dmn[d].pc = "copying"
    /\ CleanupTemp
    /\ Fail(d, "fault")
    /\ UNCHANGED <<cli, spawned, bin, sess, badExec, host, argv>>

\* The copy finishes; permissions, remove_all(extract_dir), remove(download),
\* get_version, and return binary_exists(). Another copy still writing
\* leaves the file short; get_version's popen of "<binary> -v" then fails
\* with ETXTBSY and only its output is lost.
CopyEnd(d) ==
    /\ dmn[d].pc = "copying"
    /\ bin' = IF \E e \in Daemons \ {d} : dmn[e].pc = "copying"
              THEN "partial" ELSE "complete"
    /\ CleanupTemp
    /\ Goto(d, "bind")
    /\ UNCHANGED <<cli, spawned, sess, badExec, host, argv>>

\* TCPServer::start: bind and listen, or throw; run_daemon_mode returns 1.
Bind(d) ==
    /\ dmn[d].pc = "bind"
    /\ \/ Goto(d, "serving")
       \/ BindRefused(d) /\ Fail(d, "bind")
    /\ UNCHANGED <<cli, spawned, dl, ex, bin, sess, badExec, host, argv>>

\* signal_handler: SIGINT or SIGTERM at any point after the handlers are
\* installed; g_server->stop() if set, then exit(0). Nothing else runs: the
\* temp files stay as they are and the wireproxy child is not signalled.
Shutdown(d) ==
    /\ Live(d)
    /\ Goto(d, "exited")
    /\ UNCHANGED <<cli, spawned, dl, ex, bin, sess, badExec, host, argv>>

\* A client's spin_up on a serving daemon runs get_version, then spawns the
\* installed binary. While another daemon's copy holds the file open for
\* writing, both execs fail with ETXTBSY and spin_up reports the dead
\* child, which changes nothing here.
SpinUp(d) ==
    /\ dmn[d].pc = "serving"
    /\ sess[d] = "none"
    /\ ~Copying
    /\ sess' = [sess EXCEPT ![d] = "alive"]
    /\ badExec' = (badExec \/ (GetVersionExecs /\ bin # "complete"))
    /\ UNCHANGED <<cli, spawned, dmn, dl, ex, bin, host, argv>>

\* A client's spin_down terminates the session.
SpinDown(d) ==
    /\ dmn[d].pc = "serving"
    /\ sess[d] = "alive"
    /\ sess' = [sess EXCEPT ![d] = "none"]
    /\ UNCHANGED <<cli, spawned, dmn, dl, ex, bin, badExec, host, argv>>

Daemon(d) ==
    \/ CheckBinary(d) \/ DownloadFailed(d) \/ DownloadOpen(d) \/ DownloadWrite(d)
    \/ Extract(d) \/ Find(d) \/ CopyStart(d) \/ CopyFailed(d) \/ CopyEnd(d)
    \/ Bind(d) \/ Shutdown(d) \/ SpinUp(d) \/ SpinDown(d)

Next == (\E u \in Clis : Cli(u)) \/ (\E d \in Daemons : Daemon(d))

\* The CLI is a foreground process polling in a loop: it keeps running.
\* Daemons, clients and signals get no fairness.
Spec == Init /\ [][Next]_vars /\ \A u \in Clis : WF_vars(CliWait(u))

(***************************************************************************)
(* Properties.                                                             *)
(***************************************************************************)
\* cmd_daemonize always returns to the prompt, whatever the spawned daemon
\* does: wait_for_daemon gives up at its timeout.
CmdDaemonizeReturns == \A u \in Clis : cli[u].pc = "wait" ~> cli[u].pc = "done"

\* Without network, fork, disk or bind errors, no daemon fails to start:
\* ensure_binary_available on the shared temp paths never fails by itself.
NoSpuriousStartupFailure ==
    \A d \in Daemons : dmn[d].pc = "failed" => dmn[d].why \in {"fault", "bind"}

\* spin_up never execs a wireproxy binary that a copy in
\* ensure_binary_available has not finished writing.
NoPartialBinaryExec == ~badExec

\* At most one wireproxy session is alive on the machine (spec.md §3
\* invariants 1 and 5). Each daemon's CommandHandler knows only its own
\* session, so this needs a single serving daemon, and a daemon's exit must
\* not leave its session behind for the next one to duplicate.
AtMostOneSession == Cardinality({d \in Daemons : sess[d] = "alive"}) <= 1

=============================================================================
