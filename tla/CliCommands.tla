----------------------------- MODULE CliCommands -----------------------------
(***************************************************************************)
(* InteractiveCLI commands against a running daemon, in time.              *)
(*                                                                         *)
(* cmd_status, cmd_configs, cmd_start and cmd_stop first call              *)
(* DaemonClient::is_daemon_running ("whoami:" with a 2 s read timeout),    *)
(* then send_command on a new connection with a 5 s read timeout. On the   *)
(* daemon, each connection has a TCPServer worker thread that hands the    *)
(* line to CommandHandler::execute, which holds one mutex for the whole    *)
(* handler: spin_up sleeps 500 ms, terminate() polls for 5 s before        *)
(* SIGKILL. A read that times out closes the client's socket, but the      *)
(* worker's command still runs.                                            *)
(*                                                                         *)
(* Time is discrete. A tick is 500 ms, the shortest sleep of a handler.    *)
(* Timers count the ticks left; a step that is due happens before time     *)
(* advances again. The daemon state is abstracted to whether a session     *)
(* is running; Supervisor models the handlers in full.                     *)
(***************************************************************************)
EXTENDS Naturals, FiniteSets, Sequences

CONSTANTS
    Clients,       \* CLI invocations, one command each (model values)
    ProbeTimeout,  \* ticks: read timeout of is_daemon_running (2 s)
    ReadTimeout,   \* ticks: read timeout of send_command (5 s)
    UpTicks,       \* ticks: spin_up's sleep before is_alive (500 ms)
    TermTicks,     \* ticks: terminate() when the child ignores SIGTERM (5 s)
    NoClient,      \* model value: the mutex is free
    LogsArgMax     \* largest argument of "logs [n]" that is checked

ASSUME /\ {ProbeTimeout, ReadTimeout, UpTicks, TermTicks} \subseteq Nat \ {0}
       /\ NoClient \notin Clients
       /\ LogsArgMax \in Nat

\* The CLI commands and the protocol command each sends.
UserCmds == {"status", "configs", "start", "stop"}
Wire == [status |-> "state", configs |-> "available_confs",
         start |-> "spin_up", stop |-> "spin_down"]
Timers == 0..(ReadTimeout + TermTicks)

VARIABLES
    cl,       \* cl[c]: the CLI process: pc, command, timer, what it printed
    wk,       \* wk[c]: the daemon worker of c's current connection
    inbox,    \* inbox[c]: a reply written to c's open connection
    holder,   \* the worker holding CommandHandler::mutex_
    running,  \* the daemon has a session (RUNNING)
    done,     \* done[c]: what the daemon did with c's command
    audit     \* audit.log: the entries the TCP callback wrote, in order

vars == <<cl, wk, inbox, holder, running, done, audit>>

ClPcs == {"idle", "probe", "cmd", "done"}
Printed == {"none", "not_running", "error", "ok"}
WkPcs == {"none", "queued", "exec", "reply", "gone"}
\* AuditCategory; "ok" is SUCCESS. STATE is left out: only
\* log_state_transition writes it, and nothing calls that.
AuditEvents == {"info", "action", "cmd", "ok", "error"}
Outcomes == {"none", "ok", "error"}

TypeOK ==
    /\ cl \in [Clients -> [pc : ClPcs, ucmd : UserCmds \cup {"none"},
                           timer : Timers, said : Printed]]
    /\ wk \in [Clients -> [pc : WkPcs, cmd : {"whoami", "none"} \cup
                               {Wire[u] : u \in UserCmds},
                           timer : Timers, out : Outcomes]]
    /\ inbox \in [Clients -> Outcomes]
    /\ holder \in Clients \cup {NoClient}
    /\ running \in BOOLEAN
    /\ done \in [Clients -> Outcomes]
    /\ audit \in Seq([who : Clients \cup {NoClient}, ev : AuditEvents])

(***************************************************************************)
(* audit.log, as the daemon writes it.                                      *)
(***************************************************************************)
\* An audit.log entry: the client it is about (NoClient for the daemon's
\* own entries) and its category.
Entry(c, ev) == [who |-> c, ev |-> ev]

\* AuditLogger::write_log: one entry appended to log a under the logger's
\* mutex (audit.log is opened for appending).
WriteLog(a, c, ev) == Append(a, Entry(c, ev))

\* The log_* wrappers; the daemon's own entries name no client.
LogCommand(a, c) == WriteLog(a, c, "cmd")
LogError(a, c) == WriteLog(a, c, "error")
LogSuccess(a, c) == WriteLog(a, c, "ok")
LogAction(a) == WriteLog(a, NoClient, "action")
LogInfo(a) == WriteLog(a, NoClient, "info")

\* The TCP callback logs an error when the reply's "error" is set.
LogResult(c, out) ==
    IF out = "error" THEN LogError(audit, c) ELSE LogSuccess(audit, c)

\* The AuditLogger constructor opens audit.log and logs "Audit logger
\* initialized" after what earlier daemons left in it.
AuditLoggerInit(a) == WriteLog(a, NoClient, "info")

\* The destructor logs "Audit logger shutting down".
AuditLoggerDtor(a) == WriteLog(a, NoClient, "info")

\* run_daemon_mode up to the check of the binary: "Starting daemon mode",
\* then "Checking wireproxy binary availability".
DaemonCheckLog(a) == LogAction(LogInfo(AuditLoggerInit(a)))

\* A daemon whose ensure_binary_available fails logs the error and returns
\* 1; leaving the scope runs the logger's destructor.
DaemonFailedLog(a) == AuditLoggerDtor(LogError(DaemonCheckLog(a), NoClient))

\* A daemon that gets its binary logs it ready, then the start of the TCP
\* server, before any client connects.
DaemonStartLog(a) == LogInfo(LogSuccess(DaemonCheckLog(a), NoClient))

\* What audit.log holds when the serving daemon accepts its first client:
\* audit.log survives restarts, so earlier daemons that failed their binary
\* check (here, none or one) left their entries in it.
StartLogs == {DaemonStartLog(<< >>), DaemonStartLog(DaemonFailedLog(<< >>))}

Init ==
    /\ cl = [c \in Clients |-> [pc |-> "idle", ucmd |-> "none", timer |-> 0,
                                said |-> "none"]]
    /\ wk = [c \in Clients |-> [pc |-> "none", cmd |-> "none", timer |-> 0,
                                out |-> "none"]]
    /\ inbox = [c \in Clients |-> "none"]
    /\ holder = NoClient
    /\ running \in BOOLEAN
    /\ done = [c \in Clients |-> "none"]
    /\ audit \in StartLogs

(***************************************************************************)
(* Seeded faults: plausible slips in the code below, used as mutants.      *)
(***************************************************************************)
ExpiredLate(t) == t < 0
KeepLastPopAtN(n, w, l) ==
    IF Len(Append(w, l)) >= n THEN Tail(Append(w, l)) ELSE Append(w, l)

(***************************************************************************)
(* Helpers.                                                                *)
(***************************************************************************)
\* A read timeout, a sleep or a poll loop has run out.
Expired(t) == t = 0

\* A worker opens on accept and gets the line in one recv (the CLI writes
\* the whole command at once). The callback writes "Command received" to
\* the audit log, then execute waits for the mutex.
Connect(c, cmd) ==
    /\ wk' = [wk EXCEPT ![c] = [pc |-> "queued", cmd |-> cmd,
                                timer |-> 0, out |-> "none"]]
    /\ audit' = LogCommand(audit, c)

\* What the CLI prints from a reply of send_command: the "error" field
\* set means "Error: ...", otherwise the result.
Verdict(out) == IF out = "ok" THEN "ok" ELSE "error"

(***************************************************************************)
(* The CLI (interactive_cli.cpp).                                          *)
(***************************************************************************)
\* The user types a command; is_daemon_running connects and sends "whoami:".
Probe(c) ==
    /\ cl[c].pc = "idle"
    /\ \E u \in UserCmds :
          cl' = [cl EXCEPT ![c] = [pc |-> "probe", ucmd |-> u,
                                   timer |-> ProbeTimeout, said |-> "none"]]
    /\ Connect(c, "whoami")
    /\ UNCHANGED <<inbox, holder, running, done>>

\* The whoami reply holds "version": the CLI closes that connection and
\* send_command connects again and writes the command line.
ProbeAnswered(c) ==
    /\ cl[c].pc = "probe"
    /\ inbox[c] # "none"
    /\ cl' = [cl EXCEPT ![c].pc = "cmd", ![c].timer = ReadTimeout]
    /\ Connect(c, Wire[cl[c].ucmd])
    /\ inbox' = [inbox EXCEPT ![c] = "none"]
    /\ UNCHANGED <<holder, running, done>>

\* conn.read times out: is_daemon_running returns false and the CLI prints
\* "Daemon is not running!". The worker's whoami still runs later.
ProbeTimedOut(c) ==
    /\ cl[c].pc = "probe"
    /\ inbox[c] = "none"
    /\ Expired(cl[c].timer)
    /\ cl' = [cl EXCEPT ![c].pc = "done", ![c].said = "not_running"]
    /\ UNCHANGED <<wk, inbox, holder, running, done, audit>>

\* send_command reads the reply; cmd_* prints "Error: ..." or the result.
CmdAnswered(c) ==
    /\ cl[c].pc = "cmd"
    /\ inbox[c] # "none"
    /\ cl' = [cl EXCEPT ![c].pc = "done", ![c].said = Verdict(inbox[c])]
    /\ inbox' = [inbox EXCEPT ![c] = "none"]
    /\ UNCHANGED <<wk, holder, running, done, audit>>

\* conn.read times out: "Error: Failed to read response: ...".
CmdTimedOut(c) ==
    /\ cl[c].pc = "cmd"
    /\ inbox[c] = "none"
    /\ Expired(cl[c].timer)
    /\ cl' = [cl EXCEPT ![c].pc = "done", ![c].said = "error"]
    /\ UNCHANGED <<wk, inbox, holder, running, done, audit>>

(***************************************************************************)
(* The daemon: a TCPServer worker calling CommandHandler::execute.         *)
(***************************************************************************)
\* The possible runs of a handler from the state it finds: the ticks it
\* holds the mutex, its reply, and whether a session runs afterwards.
\*  - spin_up on IDLE: config missing (no sleep), or sleep 500 ms and the
\*    child is alive (RUNNING) or dead at is_alive, and then
\*    process_.reset() runs terminate() on the reaped pid before IDLE;
\*  - spin_down on RUNNING: terminate(), the child exits at the first poll
\*    or ignores SIGTERM for all 50 polls;
\*  - state on RUNNING: the child is alive, or dead, and then
\*    process_.reset() runs terminate() on the reaped pid (the stale-pid
\*    path of Supervisor) before going IDLE;
\*  - otherwise an immediate reply.
Run(t, out, up) == [t |-> t, out |-> out, up |-> up]
Runs(cmd, up) ==
    CASE cmd = "spin_up" /\ ~up ->
             {Run(0, "error", FALSE), Run(UpTicks, "ok", TRUE),
              Run(UpTicks + TermTicks, "error", FALSE)}
      [] cmd = "spin_up" -> {Run(0, "error", TRUE)}
      [] cmd = "spin_down" /\ up -> {Run(1, "ok", FALSE), Run(TermTicks, "ok", FALSE)}
      [] cmd = "spin_down" -> {Run(0, "error", FALSE)}
      [] cmd = "state" /\ up -> {Run(0, "ok", TRUE), Run(TermTicks, "ok", FALSE)}
      [] OTHER -> {Run(0, "ok", up)}

\* execute takes the mutex (lock_guard) and dispatches. The handler's
\* effect is seen by no one else until the mutex is released, so it is
\* applied here; its sleeps are the timer.
Lock(c) ==
    /\ wk[c].pc = "queued"
    /\ holder = NoClient
    /\ holder' = c
    /\ \E r \in Runs(wk[c].cmd, running) :
          /\ wk' = [wk EXCEPT ![c] = [@ EXCEPT !.pc = "exec", !.timer = r.t,
                                               !.out = r.out]]
          /\ running' = r.up
          /\ done' = IF wk[c].cmd = "whoami" THEN done
                     ELSE [done EXCEPT ![c] = r.out]
    /\ UNCHANGED <<cl, inbox, audit>>

\* The handler returns and lock_guard releases the mutex.
Finish(c) ==
    /\ wk[c].pc = "exec"
    /\ Expired(wk[c].timer)
    /\ holder' = NoClient
    /\ wk' = [wk EXCEPT ![c].pc = "reply"]
    /\ UNCHANGED <<cl, inbox, running, done, audit>>

\* Outside the mutex the callback logs the result (log_error when the
\* reply's "error" is set, log_success otherwise); the worker writes the
\* reply, which reaches the CLI only if that connection is still open,
\* then reads 0 bytes (the CLI closed) and exits.
Reply(c) ==
    /\ wk[c].pc = "reply"
    /\ audit' = LogResult(c, wk[c].out)
    /\ wk' = [wk EXCEPT ![c].pc = "gone"]
    /\ inbox' = IF \/ cl[c].pc = "probe" /\ wk[c].cmd = "whoami"
                   \/ cl[c].pc = "cmd" /\ wk[c].cmd # "whoami"
                THEN [inbox EXCEPT ![c] = wk[c].out] ELSE inbox
    /\ UNCHANGED <<cl, holder, running, done>>

\* Time advances one tick when nothing is due now: no reply unread, no
\* timer run out, no free mutex with a worker waiting for it.
Due ==
    \/ \E c \in Clients : cl[c].pc \in {"probe", "cmd"}
                          /\ (inbox[c] # "none" \/ Expired(cl[c].timer))
    \/ \E c \in Clients : wk[c].pc = "exec" /\ Expired(wk[c].timer)
    \/ \E c \in Clients : wk[c].pc = "reply"
    \/ holder = NoClient /\ \E c \in Clients : wk[c].pc = "queued"

Timing ==
    \E c \in Clients : cl[c].pc \in {"probe", "cmd"} \/ wk[c].pc = "exec"

Tick ==
    /\ ~Due
    /\ Timing
    /\ cl' = [c \in Clients |-> IF cl[c].pc \in {"probe", "cmd"}
                                THEN [cl[c] EXCEPT !.timer = @ - 1] ELSE cl[c]]
    /\ wk' = [c \in Clients |-> IF wk[c].pc = "exec"
                                THEN [wk[c] EXCEPT !.timer = @ - 1] ELSE wk[c]]
    /\ UNCHANGED <<inbox, holder, running, done, audit>>

Client(c) == Probe(c) \/ ProbeAnswered(c) \/ ProbeTimedOut(c)
             \/ CmdAnswered(c) \/ CmdTimedOut(c)
Worker(c) == Lock(c) \/ Finish(c) \/ Reply(c)

Next == Tick \/ \E c \in Clients : Client(c) \/ Worker(c)

Spec == Init /\ [][Next]_vars

(***************************************************************************)
(* cmd_logs and AuditLogger::get_last_lines: the last n lines of the audit *)
(* log, read line by line into a deque. A line is a number; the output is  *)
(* the sequence of lines printed or joined.                                *)
(***************************************************************************)
\* One turn of the getline loop: push the line, pop the front when more
\* than n are kept.
KeepLast(n, w, l) ==
    IF Len(Append(w, l)) > n THEN Tail(Append(w, l)) ELSE Append(w, l)

\* The whole loop over the lines of s, starting from the empty deque w.
RECURSIVE ReadLines(_, _, _)
ReadLines(w, s, n) ==
    IF s = << >> THEN w ELSE ReadLines(KeepLast(n, w, Head(s)), Tail(s), n)

LastLines(s, n) == ReadLines(<< >>, s, n)

\* cmd_logs: nothing when audit.log is missing; otherwise the last
\* num_lines lines, num_lines being 50 unless the argument is non-empty
\* and std::stoul accepts it (parsed) as v.
CmdLogs(exists, parsed, v, s) ==
    IF exists THEN LastLines(s, IF parsed THEN v ELSE 50) ELSE << >>

\* AuditLogger::get_last_lines(n): "" when the file is missing.
GetLastLines(exists, s, n) == IF exists THEN LastLines(s, n) ELSE << >>

\* Reference: the last n elements of s, or all of s when it is shorter.
LastNRef(s, n) == IF Len(s) <= n THEN s ELSE SubSeq(s, Len(s) - n + 1, Len(s))

(***************************************************************************)
(* Properties.                                                             *)
(***************************************************************************)
\* When cmd_start prints "Error", the daemon did not start a session for
\* that command: a start reported as failed started nothing.
FailedStartStartedNothing ==
    \A c \in Clients : cl[c].ucmd = "start" /\ cl[c].said = "error" => done[c] # "ok"

\* The daemon runs throughout, so the CLI never prints "Daemon is not
\* running!" (is_daemon_running's whoami is answered within 2 s).
NoFalseNotRunning == \A c \in Clients : cl[c].said # "not_running"

\* Whatever the audit log holds, "logs [n]" shows its last n entries (50
\* by default) and get_last_lines(n) returns them, for every n from 0 to
\* LogsArgMax. audit.log exists: the daemon's AuditLogger created it.
LogsShowLastLines ==
    /\ CmdLogs(TRUE, FALSE, 0, audit) = LastNRef(audit, 50)
    /\ \A n \in 0..LogsArgMax :
          /\ CmdLogs(TRUE, TRUE, n, audit) = LastNRef(audit, n)
          /\ GetLastLines(TRUE, audit, n) = LastNRef(audit, n)

=============================================================================
