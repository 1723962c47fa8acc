# TLA+ models of WpDaemon

WpDaemon is a small C++ daemon. It supervises a single `wireproxy` child process for
clients that connect over a localhost TCP socket. The same binary is also the
interactive CLI that talks to the daemon and can start it. This directory holds TLA+
modules and TLC configurations for the concurrent parts of both. `PROJECT.json` lists
the components, the runs, the mutants, the findings and the hazards, and maps every
modelled definition to the source lines it translates.

## The system and how its parts interact

| Part | Source | Role |
|---|---|---|
| main | `src/unnamed/part_001` | Parses the command line (ArgParser) and runs the daemon, the CLI, or auto mode. `run_daemon_mode` creates the AuditLogger, ensures the wireproxy binary, builds the handler and starts the TCP server. SIGINT/SIGTERM stop the acceptor and `exit(0)`. |
| TCPServer | `src/unnamed/part_002` | Binds 127.0.0.1:23888 and runs one detached thread per client. Each `recv` buffer is parsed on its own and passed to the callback, which logs to audit.log and calls `execute`. |
| CommandHandler | `src/unnamed/part_000` | `execute` takes a mutex and dispatches `spin_up`, `spin_down`, `state`, `available_confs` and `whoami`. |
| StateMachine | `src/src/state_machine.cpp` | IDLE → STARTING → RUNNING → STOPPING → IDLE. It also allows STARTING → IDLE and RUNNING → IDLE. An invalid move is refused and leaves the state unchanged. |
| WireProxyProcess | `src/unnamed/part_004` (lines 1-237) | `spawn` forks the child into its own process group, with stdout/stderr on the session log, and starts a watchdog thread. `is_alive` is `waitpid(WNOHANG)`, so it reaps. `terminate` sends SIGTERM, polls 50 × 100 ms, then sends SIGKILL and does a blocking waitpid, then runs `cleanup` (stop flag, join). The destructor raises the stop flag, joins, and calls `terminate` if `pid_` is set and `terminated_` is false. |
| Watchdog | `monitor_log_for_network_errors` | Sleeps 500 ms, opens the LogManager's *current* log path and seeks to its end, then reads lines. Five consecutive network-error lines (ERROR: lines skipped, any other line resets the count) set the drop flag, send SIGTERM to the group, and end the thread. |
| LogManager | `src/src/log_manager.cpp` | `create_log` closes any open log without a footer, names the new file `<unix seconds>_<config>.log` and writes a header. `finalize` writes the footer with the shutdown method, or does nothing if no log is open. |
| BinaryManager | `src/src/binary_manager.cpp` | `ensure_binary_available`: if `~/.argus/wireproxy/wireproxy` is a regular file, use it. Otherwise detect the platform, download to a fixed temp path, untar into a fixed temp directory, and copy the binary in place. `get_version` executes the binary. |
| AuditLogger | `src/src/audit_logger.cpp` | Appends one entry per call to `~/.argus/wp-server-logs/audit.log`. `get_last_lines(n)` reads the file into a deque of n lines. |
| InteractiveCLI, DaemonClient | `src/src/interactive_cli.cpp` | Each command first probes the daemon with `whoami:` (2 s read timeout), then sends its command on a new connection (5 s read timeout). `daemonize` spawns a daemon and waits for it; `logs [n]` prints the tail of audit.log. |
| Daemonizer | `src/src/daemonizer.cpp` | `spawn_daemon` double-forks and execs `--daemon`. `wait_for_daemon` polls `is_daemon_running` for up to 10 s. |

Commands are serialised by the dispatcher mutex, so two commands never interleave.
What does interleave with a command is the following:
- the child process, which writes lines to its log and can exit at any moment;
- the watchdog thread of the current process object, which reads those lines, can
  raise the drop flag and can signal the group;
- the clients, whose read timeouts run while a handler holds the mutex: 500 ms after
  spawn, and up to 5 s in `terminate`;
- other daemon processes started by the CLI, which share the binary, the temp paths,
  the port and audit.log.

## Modules

- **`StateMachine.tla`** holds the transition table (`IsValidTransition`) and
  `TransitionTo(from, to)`, the state after one `transition_to` call. It is pure and
  has no variables; the handlers call it inside their actions.
- **`SessionLifecycle.tla`** is the abstract specification of what the supervisor
  promises about sessions. Session `cur` has phase none, running, dead (the child has
  been reaped, the footer is not yet written) or closed. A new session starts only
  from none or closed. A session whose log could not be created goes straight to
  closed (`Abandon`).
- **`Supervisor.tla`** is the detailed model of CommandHandler, WireProxyProcess, the
  watchdog and LogManager.
  - Variables and their code counterparts:

    | Variable | Code |
    |---|---|
    | `smState` | `current_state_` |
    | `procGen` | `process_` (a session number, or `NoGen` for nullptr) |
    | `logGen` | `current_log_path_` |
    | `log[g]` | the file of session g: status, sequence of line kinds, footer reason |
    | `child[g]` | the OS process: none, alive, zombie, reaped |
    | `wd[g]` | watchdog thread g: pc, file it tails, offset where it started, read position, `consecutive_errors` |
    | `stopFlag[g]` | `stop_monitoring_` |
    | `dropFlag[g]` | `network_drop_detected_` |
    | `clock` | the last `system_clock` second `create_log` read |
    | `logName[g]` | the file name of session g: `<<second, config>>` (`generate_log_filename`) |
    | `dpc`, `caller`, `polls`, `method` | where the command holding the mutex is in its handler |

    `signalledReaped` is a history variable: some `kill(-pid)` reached a reaped group.
  - A handler is one action per stretch between points where the model lets other
    threads run. Those points are the 500 ms sleep, each poll of terminate, the gap
    between reaping and stopping the watchdog, and each join. Every call a stretch
    makes is inside its action: `create_log`, `finalize`, `transition_to`, and the
    reaping `waitpid`.
  - Each decision of terminate()'s poll loop and of the watchdog's line loop is an
    operator of its own: `PollsLeft`, `NextPoll`, `PollReaps`, `ForceKill`,
    `MatchesPattern`, `HasErrorTag` and `ThresholdReached`. `TermPoll` and `WdRead`
    are built from them, and the seeded faults mutate them one at a time.
  - Session numbers double as pids. A session number is never reused, so a group that
    is signalled after its leader has been reaped stands for a pid the kernel may
    already have given to another process.
  - **`MCSupervisor.tla`** instantiates it with two config names as model values,
    one that exists and one that does not.
- **`Daemonize.tla`** models starting the daemon from the CLI and what the started
  daemons do with the files they share.
  - `cli[u]` is `cmd_daemonize` of CLI u: the probe (`AlreadyRunning`),
    `spawn_daemon` (`SpawnFailed`, `SpawnDaemon`) and the poll loop of
    `wait_for_daemon` (`WaitReady`, `WaitSleep`, `WaitTimeout`).
  - `argv[u]` is the CLI's command line. `ParseArgs` is `ArgParser::parse` as a
    RECURSIVE operator; `RunsCli` is main's dispatch on it. The CLI's own probe
    (`ClientIsRunning`, DaemonClient) connects to the parsed port taken mod 2^16
    (sockpp's `in_port_t`), while every daemon listens on 23888 (`DaemonPort`).
    `wait_for_daemon` polls `DaemonizerIsRunning`: cmd_daemonize's default
    `Daemonizer` always probes 23888.
  - `dmn[d]` is daemon process d in `run_daemon_mode`. It has one action per step of
    `ensure_binary_available`: `CheckBinary` (with `DetectPlatform` over the host's
    `uname`), `DownloadOpen` (the ofstream truncates the shared file), `DownloadWrite`,
    `DownloadFailed`, `Extract`, `Find`, `CopyStart`, `CopyFailed` and `CopyEnd`.
    Then come `Bind` and `Shutdown` (signal_handler's `exit(0)`). `Bind` opens the
    acceptor with `REUSE` (`SO_REUSEPORT`): it succeeds beside a serving daemon and
    fails only, as an environment fault, when a listener outside the model holds
    the port.
  - `dl`, `ex` and `bin` are the three shared paths: the archive, the extract
    directory and the installed binary. `dl.ino` records which daemon's ofstream holds
    the file.
  - `sess[d]` abstracts the daemon's wireproxy session to alive or not. `SpinUp` runs
    `get_version` and spawns the installed file. While a copy holds the file open for
    writing, the exec fails with ETXTBSY and nothing starts. `badExec` is a history
    variable: some exec ran a binary whose copy had not finished.
  - **`MCDaemonize.tla`** defines the CLIs, two hosts (Linux x86_64 and riscv64, for
    which no archive exists), two command lines (none, and `-i -p 12345`) and what
    `std::stoi` gives for the numeric strings.
- **`CliCommands.tla`** models the CLI's `status`, `configs`, `start` and `stop`
  against one daemon, in time.
  - `cl[c]` is the CLI process: `Probe` (whoami), `ProbeAnswered`, `ProbeTimedOut`,
    `CmdAnswered`, `CmdTimedOut`.
  - `wk[c]` is the TCPServer worker of c's current connection: `Lock` (execute takes
    the mutex and runs the handler), `Finish` (the handler returns and releases it)
    and `Reply` (the callback logs the result and writes the reply).
  - `Runs(cmd, up)` lists the ways each handler can go from the state it finds, and
    how many ticks it holds the mutex. These are the paths of `Supervisor`.
  - Time is discrete, and `Tick` advances it only when no step is due. One tick is
    500 ms, the shortest sleep of a handler.
  - `audit` is audit.log. Its initial value is what `run_daemon_mode` writes before
    the first client (`StartLogs`). The file is opened for appending, so it may
    also hold the entries of an earlier daemon that failed its binary check and ran
    the logger's destructor. `Connect` and `Reply` append the callback's entries.
  - `CmdLogs` and `GetLastLines` are `cmd_logs` and `get_last_lines(n)`. Both read
    the file into a deque through the RECURSIVE `ReadLines`; `LastNRef` is the
    reference tail they are checked against.
  - **`MCCliCommands.tla`** defines the clients.
- **`TcpWorker.tla`** models one connection of TCPServer: the peer's byte stream, the
  worker running `process_client`, and `parse_command`.
  - A command line is two stream units: its head, and its tail with the `\n`. `Recv`
    takes any non-empty prefix of the units in flight and parses it with `Parse`.
  - The worker exits through `RecvZero` (the peer half-closed), `RecvError` (reset),
    or a failed `Write`. The peer's actions are `PeerSend`, `PeerRead`,
    `PeerHalfClose` and `PeerClose`.

Every module has a block "Seeded faults" holding the mutant operators listed in
`PROJECT.json`. No run uses them.

## Runs

| Run | cfg | Expect | What it shows |
|---|---|---|---|
| `supervisor` | `MCSupervisor.cfg` | pass | The supervisor's invariants, its refinement of `SessionLifecycle`, and its two liveness properties. About 1.1M distinct states, around 3 min. |
| `stale_pid_signal` | `MCSupervisorStale.cfg` | violation | `NoSignalAfterReap` fails (see Findings). |
| `log_name_collision` | `MCSupervisorLogName.cfg` | violation | `LogsKept` fails (see Findings). |
| `daemonize_safety` | `MCDaemonize.cfg` | pass | `cmd_daemonize` always returns (`CmdDaemonizeReturns`), with every fault, both hosts and both command lines. About 102,000 states. |
| `temp_path_race` | `MCDaemonizeRace.cfg` | violation | `NoSpuriousStartupFailure` fails with no fault enabled. |
| `partial_binary_exec` | `MCDaemonizePartialBin.cfg` | violation | `NoPartialBinaryExec` fails. |
| `second_session` | `MCDaemonizeSecond.cfg` | violation | `AtMostOneSession` fails. |
| `cli_commands` | `MCCliCommands.cfg` | pass | `LogsShowLastLines` holds on every audit.log reached, and every action of the CLI and worker model fires. About 195,000 states, around 90 s. |
| `start_timeout_late` | `MCCliCommandsLate.cfg` | violation | `FailedStartStartedNothing` fails. |
| `probe_false_negative` | `MCCliCommandsProbe.cfg` | violation | `NoFalseNotRunning` fails. |
| `tcp_worker_exit` | `MCTcpWorker.cfg` | pass | The worker exits once its peer stops sending (`WorkerExits`). |
| `tcp_framing` | `MCTcpWorkerFraming.cfg` | violation | `RepliesMatchLines` fails. |

`supervisor` checks these properties:
- `TypeOK`.
- `NoOrphanChild`: an unreaped child always belongs to `process_`.
- `BoundaryConsistent`: between commands the state, `process_` and the open log
  agree, after every error path.
- `WatchdogTailsOwnLog`: a watchdog tails only its own session's log. This holds
  because every path that drops a session joins its thread first.
- `DropFooterJustified`: a footer that reports a network drop is written only for
  a log that, from where its watchdog started tailing, really holds `Threshold`
  pattern lines with only ERROR: lines between them. This is the safety half of the
  detector, the half a liveness property cannot see: it rules out a watchdog that
  trips early.
- `LifecycleRefined`: the supervisor implements `SessionLifecycle` under the mapping
  `LifecyclePhase`. In particular, no footer is written while the child is unreaped
  and no new log is opened while the previous session is running.
- `CommandCompletes`: every command returns, even if the child ignores SIGTERM.
- `TripsOnSustainedErrors`: when the tailed log holds `Threshold` pattern lines with
  only ERROR: lines between them, the watchdog sets the drop flag unless it is told
  to stop first.

Other properties of the passing runs:
- `CmdDaemonizeReturns`: `wait_for_daemon` gives up at its timeout, whatever the
  daemon does.
- `LogsShowLastLines`: `logs` with no argument shows the last 50 entries. `logs n`
  and `get_last_lines(n)` give the last n entries for every n from 0 to 14,
  including n = 0 and n longer than the file.
- `WorkerExits`: once the peer has stopped sending, the detached worker exits,
  whether the peer half-closes and keeps reading or closes outright.

Each property of a passing run has a mutant in `PROJECT.json`, a plausible slip in the
code that the run detects:
- the poll loop off by one;
- no blocking waitpid after SIGKILL;
- the catch path of spin_up not returning to IDLE;
- a detached watchdog thread;
- ERROR: lines counted like pattern lines;
- finalize before terminate;
- a strict threshold test;
- a poll loop that never advances;
- a wait loop that times out one poll late, or restarts its clock;
- a read timeout that never expires;
- a deque popped at n instead of above n;
- a zero-byte recv that does not break the loop.

## Bounds and why they are enough

- **Supervisor.**
  - `MaxSessions = 2` in the safety run. Two sessions give a second log after the
    first one, in every combination of failure paths. That is the case in which a
    watchdog could open the wrong log, or a stale log could be closed without a
    footer. The liveness properties are checked in the same run.
  - `MaxLines = 3`, counting the header. After the header, 2 child lines are enough
    to reach the threshold, reset it, and mix in ERROR: lines.
  - `Seconds = {0}` in the passing run: every `create_log` reads the same second.
    This only matters to `logName`, which no property of that run reads.
    `log_name_collision` uses `{0, 1}`, so that two logs can get the same name or
    different ones.
  - `Threshold = 2` stands for the code's 5. The counter logic is the same for any
    value, and 2 is the smallest value that distinguishes counting from tripping on
    a single line.
  - `PollLimit = 2` stands for 50. It keeps both the continue branch and the SIGKILL
    branch of the poll loop reachable.
- **Daemonize.**
  - Two CLIs with one attempt each, or one CLI with two attempts. Either way two
    daemons run against the same paths, which is what every race needs.
  - `WaitLimit` of 1 or 2 polls stands for the 100 polls of 100 ms. The timeout can
    fall at any step of a daemon, because daemon steps take no time in the model.
- **CliCommands.**
  - Two clients: one command can sit behind another's handler.
  - The timeouts are in 500 ms ticks, as in the code: `ProbeTimeout = 4` (2 s),
    `ReadTimeout = 10` (5 s), `UpTicks = 1` (500 ms), `TermTicks = 10` (50 polls of
    100 ms). Their ratios are exactly what decides the two timeout findings.
  - `LogsArgMax = 14` covers every n up to beyond the longest start log. The audit
    log grows to 18 entries in the run, so 50 and every n in 0..14 fall on both
    sides of its length.
- **TcpWorker.**
  - Three lines, six units, and every way of cutting them into recv buffers.
  - A send buffer of two replies, so that a peer that stops reading blocks the worker.

## Fairness

- **Supervisor.** The model assumes weak fairness for these steps:
  - `SpinUpProbe`;
  - `StateFinalize`;
  - `DtorStop`, `DtorJoin`;
  - `TermPoll`, `TermStop`, `TermJoin`;
  - each watchdog thread.

  These are threads that sleep or join and then continue: the OS scheduler resumes
  them. A join waits only for a thread that is itself fair, so it ends. Clients
  sending commands, and the child writing or exiting, get no fairness: a client may
  stay silent, and a child may run forever or ignore SIGTERM. SIGKILL is modelled as
  always effective, which is what the kernel guarantees.
- **Daemonize.** Only the CLI's wait loop is fair: it is a foreground process polling
  on a timer. Daemons may stall at any step, and signals may or may not come.
- **CliCommands.**
  No run checks a liveness property of this module, so its specification has no
  fairness conditions.
- **TcpWorker.** The worker is fair. Of the peer only reading is assumed fair:
  DaemonClient reads the reply to every command it sends. Without that assumption
  the worker blocks in `write()` for good. This is listed as a hazard.

## Findings

- **The destructor signals a reaped pid** (`stale_pid_signal`).
  - `is_alive()` reaps a dead child but does not clear `pid_` or set `terminated_`.
  - This happens in `handle_spin_up` (death during startup) and in
    `check_and_cleanup_process`. In both, `process_.reset()` runs the destructor,
    which calls `terminate()`.
  - `terminate()` sends SIGTERM to the group of the reaped pid, polls 50 times in
    vain while holding the dispatcher mutex for 5 s, then sends SIGKILL to the same
    group.
  - The watchdog can also trip in the gap between the reap and the stop flag.
  - spec.md §4.4 says a pid is validated before it is signalled.
- **Daemons race on the shared temp paths** (`temp_path_race`).
  - The download goes to a fixed file in the temp directory and is extracted into a
    fixed directory, with no lock.
  - When `cmd_daemonize` times out during a download and the user retries, the
    second daemon's ofstream truncates the archive the first is about to untar.
  - The first daemon fails and deletes the file, and the second can fail the same
    way. No daemon serves, although neither the network nor the disk failed.
- **A short binary is accepted and executed** (`partial_binary_exec`).
  - `binary_exists()` only tests for a regular file, and the copy writes in place.
  - A copy that fails or is killed part way leaves a short binary. The cleanup
    removes only the temp files.
  - Every later daemon accepts that binary, binds, and `spin_up` execs it.
  - While a copy is still running, the exec fails with ETXTBSY instead, and the
    model includes this.
- **A second daemon serves beside the first** (`second_session`).
  - `TCPServer::start` opens the acceptor with sockpp's `REUSE`, which sets
    `SO_REUSEPORT` on POSIX. A second daemon of the same user binds 127.0.0.1:23888
    while the first listens, instead of failing.
  - When `cmd_daemonize` times out during the first daemon's download and the user
    retries, both daemons come up, each with its own `CommandHandler` in IDLE. The
    kernel spreads connections between them, and two spin_ups start two wireproxy
    sessions. This is the trace TLC reports.
  - A CLI started with `-p` never sees a running daemon (see Observations), so its
    `daemonize` spawns one more daemon every time; the run includes such a CLI.
  - spec.md §3 (invariant 1) says at most one session exists.
- **Shutdown orphans the session** (`second_session`, same invariant).
  - `signal_handler` calls `exit(0)`: the wireproxy group is never signalled, and
    its log gets no footer.
  - The next daemon starts IDLE and spawns a second wireproxy beside the orphan.
  - spec.md §3 (invariants 1 and 5) and §5 say shutdown terminates the session.
  - With a bind that refused a second listener, TLC reports this path instead
    (`Shutdown` between the two `Bind` steps).
- **A start reported as failed starts later** (`start_timeout_late`).
  - `send_command` reads once with a 5 s timeout.
  - `execute` holds its mutex through `terminate()`'s 5 s of polls.
  - A start queued behind such a handler times out and prints an error. Then the
    worker runs `spin_up` and starts the session.
- **A running daemon is reported as not running** (`probe_false_negative`).
  - The 2 s whoami probe also waits for the dispatcher mutex.
  - While a handler polls `terminate()`, every command prints "Daemon is not
    running!", and `daemonize` would spawn a second daemon.
- **Commands split across segments are misparsed** (`tcp_framing`).
  - `process_client` parses every recv buffer on its own and drops what follows the
    first newline.
  - A command split into two segments gets "Newline not found" and then runs as an
    unknown command. Two pipelined commands in one segment get one reply.
  - spec.md §8 and §4.6 describe line-oriented framing with one reply per line.

- **Two sessions within one second share a log file** (`log_name_collision`).
  - `generate_log_filename` names the file after the config and the current second.
  - `create_log` opens it with `fopen(..., "w")`, which truncates an existing file.
  - A spin_up whose fork fails writes the header and the SpawnFailed footer, and
    returns to IDLE at once. A retry in the same second truncates that log.
  - spec.md §8 (invariant 4, scenario 6) says every session's log keeps its header
    and footer.

Observations that need no model checker (each a single deterministic path):
- `print_welcome` tests `!response.contains("error")`. Every reply carries an
  `"error"` key (null on success), so the test is always false.
- The daemon ignores `--port`: `TCPServer::port_` is fixed at 23888, and
  `spawn_daemon` passes only `--daemon`. A CLI started with `-p` probes a port no
  daemon listens on, so it reports "not running" and `daemonize` spawns a daemon.
  `cmd_daemonize` itself default-constructs its `Daemonizer`, which probes 23888:
  it finds the daemon already there and reports success, and the new daemon binds
  beside it. `CmdDaemonizeReturns` and `AtMostOneSession` are checked with such a
  CLI.
- The watchdog keeps the count on any line that *contains* `ERROR:`
  (`line.find("ERROR:")`, part_004:220). spec.md §4 says only `ERROR:`-prefixed lines
  keep it. A non-matching line with `ERROR:` in its middle does not reset the count.
  The model's "error" line kind follows the code.
- A port above 65535 wraps modulo 2^16 in `inet_address`.
- An audit entry whose command string keeps its `\n` spans two lines of audit.log,
  so `logs n` counts lines, not entries. The model counts entries.
- The CLI reads a reply with a single 4096-byte read and parses it as JSON. A longer
  or split reply fails to parse.

## Not modelled

- **Hazards only partly covered, or not at all.** Each has a note in `PROJECT.json`:
  - Which shutdown reason wins when the watchdog trips during `state`'s cleanup.
    `NoSignalAfterReap` catches the trip itself. spec.md does not say which reason
    should win.
  - The log path `state` reports after a failed `create_log`. The replies are not
    modelled.
  - A line the watchdog reads while the child is still writing it. The model's
    child appends whole lines.
  - A peer that stops reading.
  - The order of audit result entries.

  The first three belong to `Supervisor`.
- **`available_confs`, `whoami` and the ConfigManager listing.** They change no
  state.
- **Formatting.** The help, version and welcome texts, `trim` and `split`,
  timestamps, and the wording of entries and replies. No property depends on them.
- **The headers' declarations.** `command_handler.hpp`, `audit_logger.hpp`,
  `state_machine.hpp`, `binary_manager.hpp` and `utils.hpp` hold class declarations,
  doc comments and one-line accessors. The state they declare is the modules'
  VARIABLES. The only inline logic is `state_to_string` and `expand_tilde`, which
  are formatting and path building.
- **`print_welcome`.** It sends the same probe and `state:` request as `status`, so
  `CliCommands` already covers what it does to the daemon. What it prints is never
  shown, because of the `contains("error")` test noted under Findings.
- **`get_executable_path`.** It is a readlink with a fixed fallback.
- **The legacy copies.** These are `src/src/main.cpp`, `binary_management.cpp`,
  `unnamed/part_003`, and part_004 lines 238-386. The daemon does not build them.
- **The `setpgid` race at fork** (part_004:64). It depends on timing below the
  model's granularity.
