----------------------------- MODULE Supervisor -----------------------------
(***************************************************************************)
(* The concurrent core of WpDaemon: the command dispatcher                 *)
(* (CommandHandler, unnamed/part_000), the child-process manager and its   *)
(* log-tailing watchdog thread (WireProxyProcess, unnamed/part_004), the   *)
(* session log writer (LogManager, src/log_manager.cpp) and the lifecycle  *)
(* state machine (StateMachine.tla).                                       *)
(*                                                                         *)
(* Commands are serialised by the dispatcher's mutex, so a handler runs    *)
(* without interference from other commands; what interleaves with it are *)
(* the child process (which writes to the log and may exit at any time)    *)
(* and the watchdog thread of every process object.  A handler is split    *)
(* into one step per point where it sleeps, polls or joins the watchdog:   *)
(*   dpc = "up_sleep"    spin_up sleeping 500 ms before probing the child; *)
(*   dpc = "st_finalize" state has reaped the child, footer not written;   *)
(*   dpc = "dtor_stop"   process_.reset() about to run the destructor;     *)
(*   dpc = "dtor_join"   ~WireProxyProcess joining the watchdog;           *)
(*   dpc = "term_poll"   terminate() polling waitpid every 100 ms;         *)
(*   dpc = "term_stop"   terminate() left its loop, cleanup() not begun;   *)
(*   dpc = "term_join"   cleanup() joining the watchdog.                   *)
(*                                                                         *)
(* Sessions are numbered 1..MaxSessions in the order spin_up creates their *)
(* log file; the process object, its child and its watchdog carry the same *)
(* number, and the child's pid (and process group) is that number.         *)
(***************************************************************************)
EXTENDS Naturals, Sequences, SequencesExt, FiniteSets, StateMachine

CONSTANTS
    Configs,            \* config names a client may ask spin_up for
    ExistingConfigs,    \* those that resolve to a file under wireproxy_confs
    MaxSessions,        \* bound: log files (spin_up attempts) per behaviour
    MaxLines,           \* bound: lines in a log before the child stops writing
    Threshold,          \* ERROR_THRESHOLD of the watchdog (5 in the code)
    PollLimit,          \* polls of terminate() before SIGKILL (50 in the code)
    Seconds             \* values system_clock may give create_log, in seconds

ASSUME /\ ExistingConfigs \subseteq Configs
       /\ MaxSessions \in Nat \ {0}
       /\ Threshold \in Nat \ {0}
       /\ PollLimit \in Nat \ {0}
       /\ MaxLines > Threshold
       /\ Seconds \subseteq Nat /\ Seconds # {}

Gens == 1..MaxSessions
NoGen == 0                     \* process_ == nullptr; no log created yet

\* Kinds of line in a session log.  "net" contains one of the two network
\* patterns, "error" contains ERROR: and no pattern, "other" neither.
ChildLines == {"net", "error", "other"}
LineKinds == ChildLines \cup {"header", "footer"}

\* Shutdown Method written in a footer.
Reasons == {"none", "SpawnFailed", "DiedDuringStartup", "DiedUnexpectedly",
            "NetworkDrop", "Graceful", "ForceKilled"}

VARIABLES
    smState,          \* StateMachine::current_state_
    dpc,              \* where the command holding the mutex is
    caller,           \* which handler the running terminate()/destructor is for
    polls,            \* loop index i of terminate()'s poll loop
    method,           \* shutdown_method computed by terminate()
    procGen,          \* CommandHandler::process_ (its session, or NoGen)
    logGen,           \* LogManager::current_log_path_ (newest log, or NoGen)
    log,              \* log[g]: the file of session g and whether it is open
    child,            \* child[g]: the OS process of session g
    wd,               \* wd[g]: the watchdog thread of process object g
    stopFlag,         \* stopFlag[g]: stop_monitoring_ of process object g
    dropFlag,         \* dropFlag[g]: network_drop_detected_ of object g
    signalledReaped,  \* history: a kill(-pid) reached a group already reaped
    clock,            \* the seconds create_log last read from system_clock
    logName           \* logName[g]: the file name create_log gave session g

vars == <<smState, dpc, caller, polls, method, procGen, logGen, log, child,
          wd, stopFlag, dropFlag, signalledReaped, clock, logName>>

\* Files are named <timestamp>_<config>.log; NoName before create_log.
NoName == << >>

LogRec == [st: {"none", "open", "closed", "failed", "overwritten"},
           lines: Seq(LineKinds), reason: Reasons]
WdRec == [pc: {"none", "sleep", "tail", "done"}, file: 0..MaxSessions,
          start: 0..MaxLines + 1, pos: 0..MaxLines + 1, count: 0..Threshold]

TypeOK ==
    /\ smState \in States
    /\ dpc \in {"idle", "up_sleep", "st_finalize", "dtor_stop", "dtor_join",
                "term_poll", "term_stop", "term_join"}
    /\ caller \in {"none", "spin_up", "spin_down", "state"}
    /\ polls \in 0..PollLimit - 1
    /\ method \in {"none", "Graceful", "ForceKilled"}
    /\ procGen \in Gens \cup {NoGen}
    /\ logGen \in Gens \cup {NoGen}
    /\ log \in [Gens -> LogRec]
    /\ \A g \in Gens : Len(log[g].lines) <= MaxLines + 1
    /\ child \in [Gens -> {"none", "alive", "zombie", "reaped"}]
    /\ wd \in [Gens -> WdRec]
    /\ stopFlag \in [Gens -> BOOLEAN]
    /\ dropFlag \in [Gens -> BOOLEAN]
    /\ signalledReaped \in BOOLEAN
    /\ clock \in Seconds
    /\ logName \in [Gens -> (Seconds \X Configs) \cup {NoName}]

Init ==
    /\ smState = "IDLE"
    /\ dpc = "idle"
    /\ caller = "none"
    /\ polls = 0
    /\ method = "none"
    /\ procGen = NoGen
    /\ logGen = NoGen
    /\ log = [g \in Gens |-> [st |-> "none", lines |-> <<>>, reason |-> "none"]]
    /\ child = [g \in Gens |-> "none"]
    /\ wd = [g \in Gens |-> [pc |-> "none", file |-> 0, start |-> 0,
                             pos |-> 0, count |-> 0]]
    /\ stopFlag = [g \in Gens |-> FALSE]
    /\ dropFlag = [g \in Gens |-> FALSE]
    /\ signalledReaped = FALSE
    /\ clock \in Seconds
    /\ logName = [g \in Gens |-> NoName]

-----------------------------------------------------------------------------
(* LogManager *)

\* The file name create_log builds: the seconds since the epoch and the
\* config without its ".conf" suffix.
LogFileName(t, c) == << t, c >>

\* create_log reads system_clock, second resolution, never earlier than
\* its last reading while nobody sets the clock back, and names the file
\* of session g after it and config c.
ReadClock(g, c, t) ==
    /\ t >= clock
    /\ clock' = t
    /\ logName' = [logName EXCEPT ![g] = LogFileName(t, c)]

\* create_log for session g, file name nm: an open log of an earlier
\* session is fclose'd without a footer, then fopen(nm, "w") truncates any
\* earlier file of that name and the header is written; or fopen fails,
\* current_log_path_ already names the new file, and it throws.
CreateLog(g, ok, nm) ==
    LET closed == IF logGen # NoGen /\ log[logGen].st = "open"
                  THEN [log EXCEPT ![logGen].st = "closed"] ELSE log
        truncated == [h \in Gens |->
                        IF ok /\ h # g /\ logName[h] = nm /\ closed[h].st = "closed"
                        THEN [closed[h] EXCEPT !.st = "overwritten"]
                        ELSE closed[h]]
    IN [truncated EXCEPT ![g] = IF ok
                                THEN [st |-> "open", lines |-> <<"header">>,
                                      reason |-> "none"]
                                ELSE [@ EXCEPT !.st = "failed"]]

\* finalize(reason) on the log `lg`: a no-op when no log is open, otherwise
\* the footer is written and the file closed.
Finalize(lg, reason) ==
    IF logGen # NoGen /\ lg[logGen].st = "open"
    THEN [lg EXCEPT ![logGen] = [st |-> "closed",
                                 lines |-> Append(@.lines, "footer"),
                                 reason |-> reason]]
    ELSE lg

(* WireProxyProcess *)

\* kill(-pid_, SIGTERM) to the group of session g.  The child may handle it
\* or ignore it; what the model records is whether the group's leader had
\* already been reaped, when the pid may belong to another process.
SignalGroup(g) ==
    signalledReaped' = (signalledReaped \/ child[g] = "reaped")

\* The watchdog thread spawned with process object g is detached at spawn
\* (std::thread::detach), so joinable() is false and no join waits for it.
JoinedDetached(g) == TRUE

\* monitor_thread_.join() of object g has returned: the thread never
\* started or has exited.
Joined(g) == wd[g].pc \in {"none", "done"}

-----------------------------------------------------------------------------
(* Seeded faults.  Each is a plausible slip in one handler; the runs must  *)
(* tell it apart from the code (see PROJECT.json "mutants").               *)

\* terminate()'s loop bound is off by one (i <= 50).
PollsLeftOffByOne(i) == i + 1 <= PollLimit

\* The poll loop never advances its index (a missing ++i).
NextPollStuck(i) == i

\* After SIGKILL, the blocking waitpid is left out: the group is killed but
\* its leader is never reaped.
ForceKillNoWait(g) ==
    /\ SignalGroup(g)
    /\ child' = [child EXCEPT ![g] = IF @ = "alive" THEN "zombie" ELSE @]

\* The pattern test also matches ERROR: lines, which then count.
MatchesPatternOrError(line) == line \in {"net", "error"}

\* The reset branch is missing: no line resets consecutive_errors.

\* The threshold test is strict (consecutive_errors > ERROR_THRESHOLD).
ThresholdStrict(n) == n > Threshold

\* The catch block of handle_spin_up forgets transition_to(IDLE).
SpinUpLogFailedStuck(c) ==
    /\ dpc = "idle"
    /\ smState = "IDLE" /\ c \in ExistingConfigs
    /\ logGen < MaxSessions
    /\ logGen' = logGen + 1
    /\ \E t \in Seconds :
          /\ ReadClock(logGen + 1, c, t)
          /\ log' = CreateLog(logGen + 1, FALSE, LogFileName(t, c))
    /\ smState' = TransitionTo(smState, "STARTING")
    /\ UNCHANGED <<dpc, caller, polls, method, procGen, child, wd, stopFlag,
                   dropFlag, signalledReaped>>

\* handle_spin_down finalizes the log before calling terminate().
SpinDownFinalizeFirst ==
    /\ dpc = "idle"
    /\ smState = "RUNNING" /\ procGen # NoGen
    /\ smState' = TransitionTo(smState, "STOPPING")
    /\ log' = Finalize(log, "Graceful")
    /\ SignalGroup(procGen)
    /\ dpc' = "term_poll"
    /\ polls' = 0
    /\ caller' = "spin_down"
    /\ UNCHANGED <<method, procGen, logGen, child, wd, stopFlag, dropFlag, clock, logName>>

-----------------------------------------------------------------------------
(* The decisions of terminate()'s poll loop and of the watchdog's line loop *)

\* for (int i = 0; i < 50; ++i): another poll follows poll i.
PollsLeft(i) == i + 1 < PollLimit

\* ++i
NextPoll(i) == i + 1

\* waitpid(pid_, &status, WNOHANG) == pid_: the child has exited.
PollReaps(g) == child[g] = "zombie"

\* kill(-pid_, SIGKILL), then the blocking waitpid(pid_, &status, 0).
ForceKill(g) ==
    /\ SignalGroup(g)
    /\ child' = [child EXCEPT ![g] = "reaped"]

\* std::regex_search for "network is unreachable" or "can't assign
\* requested address".
MatchesPattern(line) == line = "net"

\* line.find("ERROR:") != npos, tested on lines without a pattern.
HasErrorTag(line) == line = "error"

\* consecutive_errors >= ERROR_THRESHOLD
ThresholdReached(n) == n >= Threshold

-----------------------------------------------------------------------------
(* CommandHandler::execute -> handle_spin_up, first critical section *)

\* The state is not IDLE, or the normalized config does not exist.
SpinUpRejected(c) ==
    /\ dpc = "idle"
    /\ smState # "IDLE" \/ c \notin ExistingConfigs
    /\ UNCHANGED vars

\* IDLE -> STARTING, then create_log throws: the catch block finds no open
\* log, resets process_ and goes back to IDLE.
SpinUpLogFailed(c) ==
    /\ dpc = "idle"
    /\ smState = "IDLE" /\ c \in ExistingConfigs
    /\ logGen < MaxSessions
    /\ logGen' = logGen + 1
    /\ \E t \in Seconds :
          /\ ReadClock(logGen + 1, c, t)
          /\ log' = CreateLog(logGen + 1, FALSE, LogFileName(t, c))
    /\ smState' = TransitionTo(TransitionTo(smState, "STARTING"), "IDLE")
    /\ UNCHANGED <<dpc, caller, polls, method, procGen, child, wd, stopFlag,
                   dropFlag, signalledReaped>>

\* The log is created and the process object made, but fork() fails: the log
\* is finalized with "Spawn failed", process_ reset, state back to IDLE.
SpinUpForkFailed(c) ==
    /\ dpc = "idle"
    /\ smState = "IDLE" /\ c \in ExistingConfigs
    /\ logGen < MaxSessions
    /\ logGen' = logGen + 1
    /\ \E t \in Seconds :
          LET g == logGen + 1
              created == CreateLog(g, TRUE, LogFileName(t, c))
          IN /\ ReadClock(g, c, t)
             /\ log' = [created EXCEPT ![g] = [st |-> "closed",
                                              lines |-> Append(@.lines, "footer"),
                                              reason |-> "SpawnFailed"]]
    /\ smState' = TransitionTo(TransitionTo(smState, "STARTING"), "IDLE")
    /\ UNCHANGED <<dpc, caller, polls, method, procGen, child, wd, stopFlag,
                   dropFlag, signalledReaped>>

\* spawn() forks the child (stdout/stderr on the log) and starts the
\* watchdog thread; the handler then sleeps 500 ms.
SpinUpSpawned(c) ==
    /\ dpc = "idle"
    /\ smState = "IDLE" /\ c \in ExistingConfigs
    /\ logGen < MaxSessions
    /\ LET g == logGen + 1 IN
       /\ logGen' = g
       /\ \E t \in Seconds :
             /\ ReadClock(g, c, t)
             /\ log' = CreateLog(g, TRUE, LogFileName(t, c))
       /\ procGen' = g
       /\ child' = [child EXCEPT ![g] = "alive"]
       /\ wd' = [wd EXCEPT ![g].pc = "sleep"]
       /\ stopFlag' = [stopFlag EXCEPT ![g] = FALSE]
       /\ dropFlag' = [dropFlag EXCEPT ![g] = FALSE]
    /\ smState' = TransitionTo(smState, "STARTING")
    /\ dpc' = "up_sleep"
    /\ UNCHANGED <<caller, polls, method,  signalledReaped>>

\* After the sleep, is_alive(): waitpid(WNOHANG) returns 0 while the child
\* runs (STARTING -> RUNNING), or reaps it.  A dead child's log is
\* finalized, then process_.reset() runs the destructor.
SpinUpProbe ==
    /\ dpc = "up_sleep"
    /\ \/ /\ child[procGen] = "alive"
          /\ smState' = TransitionTo(smState, "RUNNING")
          /\ dpc' = "idle"
          /\ UNCHANGED <<caller, child, log, stopFlag>>
       \/ /\ child[procGen] # "alive"
          /\ child' = [child EXCEPT ![procGen] = "reaped"]
          /\ log' = Finalize(log, "DiedDuringStartup")
          /\ dpc' = "dtor_stop"
          /\ caller' = "spin_up"
          /\ UNCHANGED <<smState>>
    /\ UNCHANGED <<polls, method, procGen, logGen, wd, stopFlag, dropFlag,
                   signalledReaped, clock, logName>>

-----------------------------------------------------------------------------
(* handle_spin_down *)

SpinDownRejected ==
    /\ dpc = "idle"
    /\ ~(smState = "RUNNING" /\ procGen # NoGen)
    /\ UNCHANGED <<smState, dpc, caller, polls, method, procGen, logGen, log,
                   child, wd, stopFlag, dropFlag, signalledReaped, clock, logName>>

\* RUNNING -> STOPPING, then terminate(): SIGTERM to the group and the poll
\* loop.  The child is not probed first.
SpinDown ==
    /\ dpc = "idle"
    /\ smState = "RUNNING" /\ procGen # NoGen
    /\ smState' = TransitionTo(smState, "STOPPING")
    /\ SignalGroup(procGen)
    /\ dpc' = "term_poll"
    /\ polls' = 0
    /\ caller' = "spin_down"
    /\ UNCHANGED <<method, procGen, logGen, log, child, wd, stopFlag, dropFlag, clock, logName>>

-----------------------------------------------------------------------------
(* handle_state and check_and_cleanup_process *)

\* The child is running, or there is no running session: reply only.
StateQuery ==
    /\ dpc = "idle"
    /\ ~(smState = "RUNNING" /\ procGen # NoGen /\ child[procGen] # "alive")
    /\ UNCHANGED vars

\* RUNNING and is_alive() reaps a dead child.
StateCleanup ==
    /\ dpc = "idle"
    /\ smState = "RUNNING" /\ procGen # NoGen /\ child[procGen] # "alive"
    /\ child' = [child EXCEPT ![procGen] = "reaped"]
    /\ dpc' = "st_finalize"
    /\ caller' = "state"
    /\ UNCHANGED <<smState, polls, method, procGen, logGen, log, wd, stopFlag,
                   dropFlag, signalledReaped, clock, logName>>

\* The footer reason is read from has_network_drop() and the log finalized;
\* process_.reset() comes next.
StateFinalize ==
    /\ dpc = "st_finalize"
    /\ log' = Finalize(log, IF dropFlag[procGen] THEN "NetworkDrop"
                                                 ELSE "DiedUnexpectedly")
    /\ dpc' = "dtor_stop"
    /\ UNCHANGED <<smState, caller, polls, method, procGen, logGen, child, wd,
                   stopFlag, dropFlag, signalledReaped, clock, logName>>

-----------------------------------------------------------------------------
(* ~WireProxyProcess, terminate() and cleanup() *)

\* The destructor raises stop_monitoring_ and starts joining the watchdog.
DtorStop ==
    /\ dpc = "dtor_stop"
    /\ stopFlag' = [stopFlag EXCEPT ![procGen] = TRUE]
    /\ dpc' = "dtor_join"
    /\ UNCHANGED <<smState, caller, polls, method, procGen, logGen, log, child,
                   wd, dropFlag, signalledReaped, clock, logName>>

\* The destructor has joined the watchdog.  pid_ is still set and
\* terminated_ still false (is_alive() changes neither), so it calls
\* terminate(), which sends SIGTERM to the group.
DtorJoin ==
    /\ dpc = "dtor_join"
    /\ Joined(procGen)
    /\ SignalGroup(procGen)
    /\ dpc' = "term_poll"
    /\ polls' = 0
    /\ UNCHANGED <<smState, caller, method, procGen, logGen, log, child, wd,
                   stopFlag, dropFlag, clock, logName>>

\* One iteration of terminate()'s loop: sleep 100 ms, waitpid(WNOHANG).  It
\* returns the pid once for a zombie; 0 for a live child and -1 for one
\* already reaped, which never end the loop.  After PollLimit polls:
\* kill(-pid_, SIGKILL) and a blocking waitpid.
TermPoll ==
    /\ dpc = "term_poll"
    /\ \/ /\ PollReaps(procGen)
          /\ child' = [child EXCEPT ![procGen] = "reaped"]
          /\ method' = "Graceful"
          /\ dpc' = "term_stop"
          /\ polls' = 0
          /\ UNCHANGED signalledReaped
       \/ /\ ~PollReaps(procGen) /\ PollsLeft(polls)
          /\ polls' = NextPoll(polls)
          /\ UNCHANGED <<child, method, dpc, signalledReaped>>
       \/ /\ ~PollReaps(procGen) /\ ~PollsLeft(polls)
          /\ ForceKill(procGen)
          /\ method' = "ForceKilled"
          /\ dpc' = "term_stop"
          /\ polls' = 0
    /\ UNCHANGED <<smState, caller, procGen, logGen, log, wd, stopFlag,
                   dropFlag, clock, logName>>

\* cleanup() raises stop_monitoring_ and starts joining the watchdog.
TermStop ==
    /\ dpc = "term_stop"
    /\ stopFlag' = [stopFlag EXCEPT ![procGen] = TRUE]
    /\ dpc' = "term_join"
    /\ UNCHANGED <<smState, caller, polls, method, procGen, logGen, log, child,
                   wd, dropFlag, signalledReaped, clock, logName>>

\* cleanup() has joined the watchdog and cleared pid_.  terminate() returns
\* to its caller: spin_down finalizes the log with the method; the
\* destructor returns to spin_up or state.  Either way process_ is gone and
\* the state goes to IDLE.
TermJoin ==
    /\ dpc = "term_join"
    /\ Joined(procGen)
    /\ log' = IF caller = "spin_down" THEN Finalize(log, method) ELSE log
    /\ procGen' = NoGen
    /\ smState' = TransitionTo(smState, "IDLE")
    /\ dpc' = "idle"
    /\ caller' = "none"
    /\ method' = "none"
    /\ UNCHANGED <<polls, logGen, child, wd, stopFlag, dropFlag, signalledReaped, clock, logName>>

-----------------------------------------------------------------------------
(* monitor_log_for_network_errors, the watchdog thread of object g *)

\* After 500 ms: open get_current_log_path() and seek to its end; give up
\* quietly if the file cannot be opened.
WdOpen(g) ==
    /\ wd[g].pc = "sleep"
    /\ wd' = [wd EXCEPT ![g] =
                IF log[logGen].st = "failed"
                THEN [@ EXCEPT !.pc = "done"]
                ELSE [pc |-> "tail", file |-> logGen,
                      start |-> Len(log[logGen].lines),
                      pos |-> Len(log[logGen].lines), count |-> 0]]
    /\ UNCHANGED <<smState, dpc, caller, polls, method, procGen, logGen, log,
                   child, stopFlag, dropFlag,  signalledReaped, clock, logName>>

\* One line read while the stop flag is down.  A pattern line counts; at the
\* threshold the flag is set under the lock, SIGTERM goes to the group if
\* pid_ is set and not terminated_, and the thread exits.  cleanup() joins
\* this thread before it clears either field, so the test always passes
\* here, even when the dispatcher has already reaped the child.  A line without ERROR: resets the count.
WdRead(g) ==
    /\ wd[g].pc = "tail"
    /\ ~stopFlag[g]
    /\ wd[g].pos < Len(log[wd[g].file].lines)
    /\ LET line == log[wd[g].file].lines[wd[g].pos + 1]
           n == wd[g].count + 1
       IN \/ /\ MatchesPattern(line) /\ ThresholdReached(n)
             /\ wd' = [wd EXCEPT ![g].pos = @ + 1, ![g].count = n,
                                 ![g].pc = "done"]
             /\ dropFlag' = [dropFlag EXCEPT ![g] = TRUE]
             /\ SignalGroup(g)
          \/ /\ MatchesPattern(line) /\ ~ThresholdReached(n)
             /\ wd' = [wd EXCEPT ![g].pos = @ + 1, ![g].count = n]
             /\ UNCHANGED <<dropFlag, signalledReaped>>
          \/ /\ ~MatchesPattern(line) /\ HasErrorTag(line)
             /\ wd' = [wd EXCEPT ![g].pos = @ + 1]
             /\ UNCHANGED <<dropFlag, signalledReaped>>
          \/ /\ ~MatchesPattern(line) /\ ~HasErrorTag(line)
             /\ wd' = [wd EXCEPT ![g].pos = @ + 1, ![g].count = 0]
             /\ UNCHANGED <<dropFlag, signalledReaped>>
    /\ UNCHANGED <<smState, dpc, caller, polls, method, procGen, logGen, log,
                   child, stopFlag, clock, logName>>

\* The loop condition sees stop_monitoring_ and the thread exits.
WdStop(g) ==
    /\ wd[g].pc = "tail"
    /\ stopFlag[g]
    /\ wd' = [wd EXCEPT ![g].pc = "done"]
    /\ UNCHANGED <<smState, dpc, caller, polls, method, procGen, logGen, log,
                   child, stopFlag, dropFlag,  signalledReaped, clock, logName>>

-----------------------------------------------------------------------------
(* The child process (wireproxy), through its inherited descriptors *)

\* A line of output lands in the log file it was spawned with.
ChildWrite(g, l) ==
    /\ child[g] = "alive"
    /\ Len(log[g].lines) < MaxLines
    /\ log' = [log EXCEPT ![g].lines = Append(@, l)]
    /\ UNCHANGED <<smState, dpc, caller, polls, method, procGen, logGen, child,
                   wd, stopFlag, dropFlag, signalledReaped, clock, logName>>

\* The child exits: on its own, on a bad config, or on a SIGTERM it handles.
ChildExit(g) ==
    /\ child[g] = "alive"
    /\ child' = [child EXCEPT ![g] = "zombie"]
    /\ UNCHANGED <<smState, dpc, caller, polls, method, procGen, logGen, log,
                   wd, stopFlag, dropFlag, signalledReaped, clock, logName>>

-----------------------------------------------------------------------------

Dispatcher ==
    \/ \E c \in Configs : \/ SpinUpRejected(c) \/ SpinUpLogFailed(c)
                          \/ SpinUpForkFailed(c) \/ SpinUpSpawned(c)
    \/ SpinUpProbe
    \/ SpinDownRejected \/ SpinDown
    \/ StateQuery \/ StateCleanup \/ StateFinalize
    \/ DtorStop \/ DtorJoin \/ TermPoll \/ TermStop \/ TermJoin

Watchdog(g) == WdOpen(g) \/ WdRead(g) \/ WdStop(g)

Child(g) == ChildExit(g) \/ \E l \in ChildLines : ChildWrite(g, l)

Next == Dispatcher \/ \E g \in Gens : Watchdog(g) \/ Child(g)

\* The thread holding the dispatcher mutex runs its command to the end (its
\* sleeps and polls end), and every watchdog thread keeps being scheduled.
\* Clients need not send commands and the child need not exit or write.
Fairness ==
    /\ WF_vars(SpinUpProbe) /\ WF_vars(StateFinalize)
    /\ WF_vars(DtorStop) /\ WF_vars(DtorJoin)
    /\ WF_vars(TermPoll) /\ WF_vars(TermStop) /\ WF_vars(TermJoin)
    /\ \A g \in Gens : WF_vars(Watchdog(g))

Spec == Init /\ [][Next]_vars /\ Fairness

-----------------------------------------------------------------------------
(* Properties *)

\* No orphaned child: a child that has not been reaped (alive, or a zombie
\* still in the process table) always belongs to the session the dispatcher
\* holds in process_.  Dropping a session before its child is reaped, on any
\* of the paths of spin_up, spin_down and state, breaks it.
NoOrphanChild ==
    \A g \in Gens : child[g] \in {"alive", "zombie"} => procGen = g

\* At command boundaries (no command holds the mutex) the lifecycle state,
\* the session and the log agree: the state is IDLE or RUNNING, a session
\* exists exactly when RUNNING, and the log is open exactly when a session
\* exists.  Every handler path, its error paths included, must restore this.
BoundaryConsistent ==
    dpc = "idle" =>
        /\ smState \in {"IDLE", "RUNNING"}
        /\ (smState = "RUNNING") = (procGen # NoGen)
        /\ (procGen # NoGen) = (logGen # NoGen /\ log[logGen].st = "open")

\* A watchdog thread only ever tails the log of its own session: the path it
\* reads from the LogManager 500 ms after spawn is still its session's,
\* because every path that drops a session joins its watchdog first.
WatchdogTailsOwnLog ==
    \A g \in Gens : wd[g].pc = "tail" => wd[g].file = g

\* `s` holds Threshold pattern lines with only ERROR: lines between them.
SustainedRun(s) ==
    \E i, j \in 1..Len(s) :
        /\ i <= j
        /\ \A k \in i..j : s[k] \in {"net", "error"}
        /\ Cardinality({k \in i..j : s[k] = "net"}) >= Threshold

\* The session log of g, from where its watchdog started tailing, holds such
\* a run.
Sustained(g) ==
    SustainedRun(SubSeq(log[wd[g].file].lines, wd[g].start + 1,
                        Len(log[wd[g].file].lines)))

\* Sustained network errors in the tailed log are detected: the watchdog
\* sets the network-drop flag unless it is told to stop first.
TripsOnSustainedErrors ==
    \A g \in Gens :
        (wd[g].pc = "tail" /\ Sustained(g)) ~> (dropFlag[g] \/ stopFlag[g])

\* No false trip: a footer that reports a network drop is written only for a
\* session whose log, from where its watchdog started tailing, really holds
\* Threshold consecutive pattern lines.  It ties the child's output, the
\* watchdog's counter and flag, and the reason check_and_cleanup_process
\* reads from has_network_drop() after the reap.
DropFooterJustified ==
    \A g \in Gens : log[g].reason = "NetworkDrop" =>
        SustainedRun(SubSeq(log[g].lines, wd[g].start + 1, Len(log[g].lines)))

\* Every command returns: the sleep, the poll loop with its SIGKILL
\* escalation and the joins of the watchdog all end, even when the child
\* ignores SIGTERM.
CommandCompletes == (dpc # "idle") ~> (dpc = "idle")

\* No signal is sent to the process group of a child the supervisor has
\* already reaped, whose pid the kernel may have given to another process
\* (spec.md §4.4).
NoSignalAfterReap == ~signalledReaped

\* Every session's log file stays on disk with its header and footer
\* (spec.md §8, invariant 4 and scenario 6): no later create_log reopens it
\* with "w", which two spin_ups of one config within a second would do.
LogsKept == \A g \in Gens : log[g].st # "overwritten"

\* Refinement mapping to SessionLifecycle: the newest log and where its
\* session is.
LifecyclePhase ==
    LET st == log[logGen].st
        ch == child[logGen]
    IN IF logGen = NoGen THEN "none"
       ELSE CASE st \in {"closed", "failed"} /\ ch \in {"none", "reaped"} -> "closed"
              [] st = "open" /\ ch \in {"alive", "zombie"}                -> "running"
              [] st = "open" /\ ch = "reaped"                             -> "dead"
              [] OTHER                                                    -> "broken"

Lifecycle == INSTANCE SessionLifecycle WITH cur <- logGen, phase <- LifecyclePhase

\* The supervisor implements the session lifecycle: one session at a time,
\* the footer written only after the child is reaped, a new log only after
\* the previous one was closed.
LifecycleRefined == Lifecycle!Spec

=============================================================================
