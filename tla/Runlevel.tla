------------------------------ MODULE Runlevel ------------------------------
(***************************************************************************)
(* The panel session of Mezurit2: the GUI thread (run_gui_thread) and the  *)
(* DAQ thread (run_daq_thread) share the logger and scope runlevels, the   *)
(* "scanning" flags which block callbacks, and one DAQ board.              *)
(*                                                                         *)
(* One critical section of the code is one step.  Between two critical     *)
(* sections of one function (set_scanning, then the two sections of        *)
(* set_scan_callback_mode; the two sections of stop_threads) the other     *)
(* thread may run, so each such function is a short sequence of steps      *)
(* with its position kept in guiPc or daqPc.                               *)
(*                                                                         *)
(* A sweep is abstracted to "some sweep of the panel has dir # 0", and a   *)
(* panel's timescale to "daq_SCAN_prepare accepts it", which is what makes *)
(* Scope.master_id # -1.  The boards of the code behave alike; one is kept.*)
(***************************************************************************)
EXTENDS Naturals, FiniteSets

CONSTANTS
    Panels,              \* panel ids 0 .. M2_NUM_PANEL-1
    Setup,               \* pid -1: the Setup page is showing
    Quit                 \* pid -2: the main loop is about to end

ASSUME RunlevelAssumption ==
    /\ Setup \notin Panels
    /\ Quit \notin Panels
    /\ Setup # Quit

VARIABLES
    pid,            \* ThreadVars.pid, set by the page callbacks
    panel,          \* ThreadVars.panel, set once per session
    guiPc,          \* where the GUI thread is
    nextPid,        \* the pid argument of the page callback being executed
    loggerRl,       \* ThreadVars.logger_rl
    scopeRl,        \* ThreadVars.scope_rl
    usable,         \* the panels whose scan passes daq_SCAN_prepare
    sweepScanning,  \* the panels where Sweep.scanning is set, in every sweep
    scopeScanning,  \* the panels where Scope.scanning is set
    sweeping,       \* the panels where some sweep has dir # 0
    daqPc,          \* where the DAQ thread is
    daqNext,        \* where set_scan_callback_mode returns to
    scanning,       \* the DAQ thread's local "scanning"
    daqFailed,      \* the DAQ thread's local "daq_failed"
    prepared,       \* DaqBoard.scan_prepared
    scanBuffer,     \* DaqBoard.scan_buffer is allocated
    running,        \* the board is acquiring a scan
    stray,          \* what made the session go on without its page, or "no" (history)
    crossed         \* a timescale of another page was verified under a running scan (history)

guiVars   == <<pid, panel, guiPc, nextPid>>
rlVars    == <<loggerRl, scopeRl>>
flagVars  == <<sweepScanning, scopeScanning>>
daqVars   == <<daqPc, daqNext, scanning, daqFailed>>
boardVars == <<prepared, scanBuffer, running>>
history   == <<stray, crossed>>
vars == <<guiVars, rlVars, usable, flagVars, sweeping, daqVars, boardVars, history>>

LoggerRl == {"STOP", "HOLD", "IDLE", "RECORD", "WAIT"}
ScopeRl  == {"STOP", "HOLD", "READY", "SCAN"}

GuiPc == {"main",                        \* main(): no session
          "start",                       \* run_gui_thread: before it sets the runlevels
          "loop",                        \* run_gui_thread: dispatching events
          "block_sweep", "block_scope",  \* scan_cb: set_scan_callback_mode(1)
          "unhold_scope",                \* clear_cb: between its two set_* calls
          "stop_rl", "stop_pid",         \* set_page_cb: inside, after stop_threads
          "join",                        \* mt_thread_join(daq_thread)
          "ended", "crash"}              \* main() returned; null panel used

DaqPc == {"off", "loop", "poll", "acquire", "triggers", "scope", "start", "arm",
          "finish", "block_sweep", "block_scope", "unblock_sweep",
          "unblock_scope", "scan_over", "sweeps", "last_scan", "exit"}

DaqNext == {"none", "acquire", "scope", "start_failed", "finished", "exit"}
-----------------------------------------------------------------------------
\* Panel p enters or leaves a set of panels.
With(S, p, on) == IF on THEN S \cup {p} ELSE S \ {p}
-----------------------------------------------------------------------------
(* The runlevel functions; callers hold rl_mutex for the whole of each.    *)
(* Operators named Bug... are the mutants of the definition they precede;  *)
(* no action uses them.                                                    *)

\* set_recording which does not look at the scope.
BugLoggerNeverWaits(rl) ==
    IF loggerRl \in {"STOP", rl} THEN loggerRl
    ELSE IF rl = "NO_HOLD" THEN (IF loggerRl = "HOLD" THEN "IDLE" ELSE loggerRl)
    ELSE IF loggerRl = "HOLD" THEN "HOLD"
    ELSE IF rl # "TOGGLE" THEN rl
    ELSE IF loggerRl = "IDLE" THEN "RECORD" ELSE "IDLE"

\* set_recording which leaves STOP.
BugLoggerRestarts(rl) ==
    IF loggerRl = "HOLD" THEN (IF rl = "NO_HOLD" THEN "IDLE" ELSE "HOLD")
    ELSE IF rl = "NO_HOLD" THEN loggerRl
    ELSE IF rl = "IDLE" \/ (rl = "TOGGLE" /\ loggerRl # "IDLE") THEN "IDLE"
    ELSE IF scopeRl = "SCAN" THEN "WAIT" ELSE "RECORD"

\* set_recording: STOP is final, HOLD is left by RL_NO_HOLD only, and RECORD
\* becomes WAIT while the scope is scanning.
LoggerAfter(rl) ==
    LET want == IF rl # "TOGGLE" THEN rl
                ELSE IF loggerRl = "IDLE" THEN "RECORD" ELSE "IDLE"
    IN  IF loggerRl \in {"STOP", rl} THEN loggerRl
        ELSE IF rl = "NO_HOLD" THEN (IF loggerRl = "HOLD" THEN "IDLE" ELSE loggerRl)
        ELSE IF loggerRl = "HOLD" THEN "HOLD"
        ELSE IF want = "RECORD" /\ scopeRl = "SCAN" THEN "WAIT" ELSE want

SetRecording(rl) == loggerRl' = LoggerAfter(rl) /\ UNCHANGED scopeRl

\* set_scanning without the test for STOP.
BugScopeRestarts(rl) ==
    LET want == IF rl # "TOGGLE" THEN rl
                ELSE IF scopeRl = "READY" THEN "SCAN" ELSE "READY"
    IN  IF scopeRl = rl THEN scopeRl
        ELSE IF rl = "NO_HOLD" THEN (IF scopeRl = "HOLD" THEN "READY" ELSE scopeRl)
        ELSE IF scopeRl = "HOLD" THEN "HOLD" ELSE want

ScopeAfter(rl) ==
    LET want == IF rl # "TOGGLE" THEN rl
                ELSE IF scopeRl = "READY" THEN "SCAN" ELSE "READY"
    IN  IF scopeRl \in {"STOP", rl} THEN scopeRl
        ELSE IF rl = "NO_HOLD" THEN (IF scopeRl = "HOLD" THEN "READY" ELSE scopeRl)
        ELSE IF scopeRl = "HOLD" THEN "HOLD" ELSE want

\* set_scanning: as above, and the logger waits for the scope.
SetScanning(rl) ==
    /\ scopeRl' = ScopeAfter(rl)
    /\ loggerRl' = IF scopeRl' = scopeRl \/ scopeRl = "HOLD" THEN loggerRl
                   ELSE IF scopeRl' = "SCAN" /\ loggerRl = "RECORD" THEN "WAIT"
                   ELSE IF scopeRl' # "SCAN" /\ loggerRl = "WAIT" THEN "RECORD"
                   ELSE loggerRl

\* daq_SCAN_prepare for panel p: frees scan_buffer, then accepts or refuses.
Prepare(ok) ==
    /\ scanBuffer' = FALSE
    /\ prepared' = ok
    /\ UNCHANGED running
-----------------------------------------------------------------------------
Init ==
    /\ pid = Setup
    /\ panel = Setup
    /\ guiPc = "main"
    /\ nextPid = Setup
    /\ loggerRl = "STOP"
    /\ scopeRl = "STOP"
    /\ usable \in SUBSET Panels
    /\ sweepScanning = {}
    /\ scopeScanning = {}
    /\ sweeping = {}
    /\ daqPc = "off"
    /\ daqNext = "none"
    /\ scanning = FALSE
    /\ daqFailed = FALSE
    /\ prepared = FALSE
    /\ scanBuffer = FALSE
    /\ running = FALSE
    /\ stray = "no"
    /\ crossed = FALSE
-----------------------------------------------------------------------------
(* The GUI thread.                                                         *)

\* set_page_cb, set_panel_csf and exit_cb where no threads are to be stopped.
GuiSetPage ==
    /\ guiPc \in {"main", "start", "loop"}
    /\ pid \notin Panels
    /\ \E q \in (Panels \cup {Setup, Quit}) \ {pid} : pid' = q
    /\ UNCHANGED <<panel, guiPc, nextPid, rlVars, usable, flagVars, sweeping, daqVars, boardVars,
                   history>>

\* main() enters run_gui_thread for the page pid, whose scope_update prepares the board.
\* Then run_gui_thread dispatches the events that have come.
GuiEnterPanel ==
    /\ guiPc = "main"
    /\ pid \in Panels
    /\ panel' = pid
    /\ guiPc' = "start"
    /\ Prepare(pid \in usable)
    /\ UNCHANGED <<pid, nextPid, rlVars, usable, flagVars, sweeping, daqVars, history>>

\* A page callback among these events stops threads which do not exist yet.
GuiStopInStart ==
    /\ guiPc = "start"
    /\ pid \in Panels
    /\ sweeping' = sweeping \ {panel}
    /\ loggerRl' = "STOP"
    /\ scopeRl' = "STOP"
    /\ \E q \in (Panels \cup {Setup, Quit}) \ {pid} : pid' = q
    /\ UNCHANGED <<panel, guiPc, nextPid, usable, flagVars, daqVars, boardVars, history>>

\* run_gui_thread sets the runlevels, which depend on the buffer being locked and on
\* a usable scan, and creates the DAQ thread; it does not look at pid again.
GuiStartSession ==
    /\ guiPc = "start"
    /\ guiPc' = "loop"
    /\ \E locked \in BOOLEAN :
          /\ loggerRl' = IF locked THEN "HOLD" ELSE "IDLE"
          /\ scopeRl' = IF panel \notin usable THEN "STOP" ELSE IF locked THEN "HOLD" ELSE "READY"
    /\ daqPc' = "loop"
    /\ daqNext' = "none"
    /\ scanning' = FALSE
    /\ daqFailed' = FALSE
    /\ stray' = IF pid = panel THEN "no" ELSE "start"
    /\ crossed' = FALSE
    /\ UNCHANGED <<pid, panel, nextPid, usable, flagVars, sweeping, boardVars>>

\* The page callbacks run by main() after pid was set and before run_gui_thread:
\* stop_threads dereferences tv->panel, which is NULL.
GuiStopWithoutPanel ==
    /\ guiPc = "main"
    /\ pid \in Panels
    /\ guiPc' = "crash"
    /\ UNCHANGED <<pid, panel, nextPid, rlVars, usable, flagVars, sweeping, daqVars, boardVars, history>>

\* record_cb.
GuiToggleRecord ==
    /\ guiPc = "loop" /\ pid \in Panels
    /\ SetRecording("TOGGLE")
    /\ UNCHANGED <<guiVars, usable, flagVars, sweeping, daqVars, boardVars, history>>

\* scan_cb: set_scanning, then block callbacks if a scan was requested.
GuiToggleScan ==
    /\ guiPc = "loop" /\ pid \in Panels
    /\ SetScanning("TOGGLE")
    /\ guiPc' = IF scopeRl' = "SCAN" THEN "block_sweep" ELSE "loop"
    /\ UNCHANGED <<pid, panel, nextPid, usable, flagVars, sweeping, daqVars, boardVars, history>>

\* set_scan_callback_mode(tv, 1), first critical section (and the pid test).
GuiBlockSweep ==
    /\ guiPc = "block_sweep"
    /\ IF pid \in Panels
       THEN /\ guiPc' = "block_scope"
            /\ sweepScanning' = sweepScanning \cup {panel}
       ELSE /\ guiPc' = "loop"
            /\ UNCHANGED sweepScanning
    /\ UNCHANGED <<pid, panel, nextPid, rlVars, usable, scopeScanning, sweeping, daqVars, boardVars, history>>

\* set_scan_callback_mode(tv, 1), second critical section.
GuiBlockScope ==
    /\ guiPc = "block_scope"
    /\ guiPc' = "loop"
    /\ scopeScanning' = scopeScanning \cup {panel}
    /\ UNCHANGED <<pid, panel, nextPid, rlVars, usable, sweepScanning, sweeping, daqVars, boardVars, history>>

\* clear_cb and clear_csf once the buffer is cleared: leave HOLD.
GuiClear ==
    /\ guiPc = "loop" /\ pid \in Panels
    /\ SetRecording("NO_HOLD")
    /\ guiPc' = "unhold_scope"
    /\ UNCHANGED <<pid, panel, nextPid, usable, flagVars, sweeping, daqVars, boardVars, history>>

GuiUnholdScope ==
    /\ guiPc = "unhold_scope"
    /\ SetScanning("NO_HOLD")
    /\ guiPc' = "loop"
    /\ UNCHANGED <<pid, panel, nextPid, usable, flagVars, sweeping, daqVars, boardVars, history>>

\* verify_timescale called while callbacks are blocked.
BugEditTimescaleUnblocked(p) ==
    /\ pid \in Panels
    /\ guiPc = "loop" \/ (guiPc = "start" /\ p = pid)
    /\ \E ok \in BOOLEAN :
          /\ usable' = With(usable, p, ok)
          /\ Prepare(ok)
    /\ crossed' = (crossed \/ (running /\ p # panel))
    /\ UNCHANGED <<guiVars, rlVars, flagVars, sweeping, daqVars, stray>>

\* timescale_cb of the page and timescale_mcf, which the terminal calls for any panel:
\* verify_timescale re-prepares the board unless p's own Scope.scanning is set.
GuiEditTimescale(p) ==
    /\ pid \in Panels
    /\ guiPc = "loop" \/ (guiPc = "start" /\ p = pid)
    /\ p \notin scopeScanning
    /\ \E ok \in BOOLEAN :
          /\ usable' = With(usable, p, ok)
          /\ Prepare(ok)
    /\ crossed' = (crossed \/ (running /\ p # panel))
    /\ UNCHANGED <<guiVars, rlVars, flagVars, sweeping, daqVars, stray>>

\* timescale_mcf on the Setup page: the value changes, nothing is verified.
GuiLoadTimescale(p) ==
    /\ guiPc = "main"
    /\ p \notin scopeScanning
    /\ \E ok \in BOOLEAN : usable' = With(usable, p, ok)
    /\ UNCHANGED <<guiVars, rlVars, flagVars, sweeping, daqVars, boardVars, history>>

\* sweep_direction_cb, on the page which is showing.
GuiSweep ==
    /\ guiPc \in {"start", "loop"}
    /\ pid \in Panels /\ pid \notin sweepScanning
    /\ \E on \in BOOLEAN : sweeping' = With(sweeping, pid, on)
    /\ UNCHANGED <<guiVars, rlVars, usable, flagVars, daqVars, boardVars, history>>

\* set_page_cb, set_panel_csf, exit_cb in a panel: stop_threads, first section.
GuiStopSweeps ==
    /\ guiPc = "loop"
    /\ pid \in Panels
    /\ \E q \in (Panels \cup {Setup, Quit}) \ {pid} : nextPid' = q
    /\ sweeping' = sweeping \ {panel}
    /\ guiPc' = "stop_rl"
    /\ UNCHANGED <<pid, panel, rlVars, usable, flagVars, daqVars, boardVars, history>>

\* stop_threads, second section: both runlevels go to STOP together.
GuiStopRl ==
    /\ guiPc = "stop_rl"
    /\ loggerRl' = "STOP"
    /\ scopeRl' = "STOP"
    /\ guiPc' = "stop_pid"
    /\ UNCHANGED <<pid, panel, nextPid, usable, flagVars, sweeping, daqVars, boardVars, history>>

\* The page callbacks assign tv->pid after stop_threads has returned.
GuiStopPid ==
    /\ guiPc = "stop_pid"
    /\ pid' = nextPid
    /\ nextPid' = Setup
    /\ guiPc' = "loop"
    /\ UNCHANGED <<panel, rlVars, usable, flagVars, sweeping, daqVars, boardVars, history>>

\* The test of run_gui_thread's loop.
GuiLeave ==
    /\ guiPc = "loop"
    /\ loggerRl = "STOP"
    /\ guiPc' = "join"
    /\ UNCHANGED <<pid, panel, nextPid, rlVars, usable, flagVars, sweeping, daqVars, boardVars, history>>

GuiJoin ==
    /\ guiPc = "join"
    /\ daqPc = "off"
    /\ guiPc' = "main"
    /\ panel' = Setup
    /\ UNCHANGED <<pid, nextPid, rlVars, usable, flagVars, sweeping, daqVars, boardVars, history>>

\* main() tests pid at the end of an iteration and leaves its loop.
MainEnds ==
    /\ guiPc = "main"
    /\ pid = Quit
    /\ guiPc' = "ended"
    /\ UNCHANGED <<pid, panel, nextPid, rlVars, usable, flagVars, sweeping, daqVars, boardVars, history>>

\* The process is gone.
ProcessOver ==
    /\ guiPc \in {"ended", "crash"}
    /\ UNCHANGED vars
-----------------------------------------------------------------------------
(* The DAQ thread.                                                         *)

DaqGoto(from, to) == daqPc = from /\ daqPc' = to

\* run_daq_thread without the run_scope_continue behind its loop.
BugNoLastScan ==
    /\ DaqGoto("loop", IF loggerRl # "STOP" THEN "poll" ELSE "exit")
    /\ UNCHANGED <<guiVars, rlVars, usable, flagVars, sweeping, daqNext, scanning, daqFailed, boardVars, history>>

\* The test of run_daq_thread's loop; after it, a scan in progress gets one
\* more run_scope_continue.
DaqLoopTest ==
    /\ DaqGoto("loop", IF loggerRl # "STOP" THEN "poll"
                       ELSE IF scanning THEN "last_scan" ELSE "exit")
    /\ UNCHANGED <<guiVars, rlVars, usable, flagVars, sweeping, daqNext, scanning, daqFailed, boardVars, history>>

\* A cycle without a command at one of the two places that execute commands.
DaqNoCommand ==
    /\ \/ DaqGoto("poll", "acquire")
       \/ DaqGoto("triggers", "scope")
    /\ UNCHANGED <<guiVars, rlVars, usable, flagVars, sweeping, daqNext, scanning, daqFailed, boardVars, history>>

\* The place after a command: polled commands match only while pid is a panel,
\* trigger commands (the "local" server) use the pid of the session.
CommandPlace == IF daqPc = "poll" THEN pid ELSE panel
AfterCommand == IF daqPc = "poll" THEN "acquire" ELSE "scope"

\* record_csf.
DaqRecordCommand ==
    /\ daqPc \in {"poll", "triggers"}
    /\ CommandPlace \in Panels
    /\ \E rl \in {"RECORD", "IDLE"} : SetRecording(rl)
    /\ daqPc' = AfterCommand
    /\ UNCHANGED <<guiVars, usable, flagVars, sweeping, daqNext, scanning, daqFailed, boardVars, history>>

\* scan_csf which blocks no callbacks.
BugScanWithoutBlock ==
    /\ daqPc \in {"poll", "triggers"}
    /\ CommandPlace \in Panels
    /\ \E rl \in {"SCAN", "READY"} : SetScanning(rl)
    /\ daqPc' = AfterCommand
    /\ UNCHANGED <<guiVars, usable, flagVars, sweeping, daqNext, scanning, daqFailed, boardVars, history>>

\* set_scan_callback_mode which does not know where it was called from.
BugNoReturnPlace ==
    /\ daqPc \in {"poll", "triggers"}
    /\ CommandPlace \in Panels
    /\ \E rl \in {"SCAN", "READY"} : SetScanning(rl)
    /\ daqPc' = IF scopeRl' = "SCAN" THEN "block_sweep" ELSE AfterCommand
    /\ UNCHANGED <<guiVars, usable, flagVars, sweeping, daqNext, scanning, daqFailed, boardVars, history>>

\* scan_csf.
DaqScanCommand ==
    /\ daqPc \in {"poll", "triggers"}
    /\ CommandPlace \in Panels
    /\ \E rl \in {"SCAN", "READY"} : SetScanning(rl)
    /\ IF scopeRl' = "SCAN"
       THEN daqPc' = "block_sweep" /\ daqNext' = AfterCommand
       ELSE daqPc' = AfterCommand /\ UNCHANGED daqNext
    /\ UNCHANGED <<guiVars, usable, flagVars, sweeping, scanning, daqFailed, boardVars, history>>

DaqBlockSweep ==
    /\ daqPc = "block_sweep"
    /\ IF pid \in Panels
       THEN /\ daqPc' = "block_scope"
            /\ sweepScanning' = sweepScanning \cup {panel}
            /\ UNCHANGED daqNext
       ELSE /\ daqPc' = daqNext
            /\ daqNext' = "none"
            /\ UNCHANGED sweepScanning
    /\ UNCHANGED <<guiVars, rlVars, usable, scopeScanning, sweeping, scanning, daqFailed, boardVars, history>>

DaqBlockScope ==
    /\ DaqGoto("block_scope", daqNext)
    /\ daqNext' = "none"
    /\ scopeScanning' = scopeScanning \cup {panel}
    /\ UNCHANGED <<guiVars, rlVars, usable, sweepScanning, sweeping, scanning, daqFailed, boardVars, history>>

\* sweep_direction_csf; it is registered per panel, so a polled command reaches
\* the sweeps of pid's panel.
DaqSweepCommand ==
    /\ daqPc \in {"poll", "triggers"}
    /\ CommandPlace \in Panels
    /\ \E on \in BOOLEAN :
          sweeping' = IF CommandPlace \in sweepScanning THEN sweeping
                      ELSE With(sweeping, CommandPlace, on)
    /\ daqPc' = AfterCommand
    /\ UNCHANGED <<guiVars, rlVars, usable, flagVars, daqNext, scanning, daqFailed, boardVars, history>>

\* The acquisition block, skipped while scanning.
DaqAcquire ==
    /\ DaqGoto("acquire", "triggers")
    /\ UNCHANGED <<guiVars, rlVars, usable, flagVars, sweeping, daqNext, scanning, daqFailed, boardVars, history>>

\* run_acquisition fails for the first time: HOLD is written over whatever
\* the runlevels are, STOP included.
DaqAcquireFails ==
    /\ DaqGoto("acquire", "triggers")
    /\ ~scanning /\ ~daqFailed
    /\ daqFailed' = TRUE
    /\ loggerRl' = "HOLD"
    /\ scopeRl' = "HOLD"
    /\ stray' = IF loggerRl = "STOP" THEN "failure" ELSE stray
    /\ UNCHANGED <<guiVars, usable, flagVars, sweeping, daqNext, scanning, boardVars, crossed>>

\* The scope block while no scan is in progress.
DaqScopeIdle ==
    /\ ~scanning
    /\ DaqGoto("scope", IF scopeRl = "SCAN" THEN "start" ELSE "sweeps")
    /\ UNCHANGED <<guiVars, rlVars, usable, flagVars, sweeping, daqNext, scanning, daqFailed, boardVars, history>>

\* run_scope_start: without a usable scan nothing is done; else stop all sweeps.
DaqStart ==
    /\ daqPc = "start"
    /\ IF panel \in usable
       THEN /\ daqPc' = "arm"
            /\ sweeping' = sweeping \ {panel}
            /\ UNCHANGED daqNext
       ELSE /\ daqPc' = "unblock_sweep"
            /\ daqNext' = "start_failed"
            /\ UNCHANGED sweeping
    /\ UNCHANGED <<guiVars, rlVars, usable, flagVars, scanning, daqFailed, boardVars, history>>

\* scan_array_start succeeds: the board needs to be prepared.
DaqArm ==
    /\ prepared
    /\ DaqGoto("arm", "sweeps")
    /\ scanning' = TRUE
    /\ running' = TRUE
    /\ scanBuffer' = TRUE
    /\ UNCHANGED <<guiVars, rlVars, usable, flagVars, sweeping, daqNext, daqFailed, prepared,
                   history>>

\* scan_array_start fails and scan_array_stop cleans up.  The buffer may have
\* been allocated before the driver refused the scan.
DaqArmFails ==
    /\ DaqGoto("arm", "unblock_sweep")
    /\ daqNext' = "start_failed"
    /\ running' = FALSE
    /\ scanBuffer' \in {scanBuffer, prepared}
    /\ UNCHANGED <<guiVars, rlVars, usable, flagVars, sweeping, scanning, daqFailed, prepared,
                   history>>

\* run_scope_continue reads more data: the scope is in SCAN and time remains.
DaqScanRead ==
    /\ scanning
    /\ scopeRl = "SCAN"
    /\ DaqGoto("scope", "loop") \/ DaqGoto("last_scan", "exit")
    /\ UNCHANGED <<guiVars, rlVars, usable, flagVars, sweeping, daqNext, scanning, daqFailed, boardVars, history>>

\* run_scope_continue finishes: the time is over or the scan was cancelled.
\* scan_array_stop stops the board.
DaqScanStop ==
    /\ scanning
    /\ \/ DaqGoto("scope", "finish") /\ daqNext' = "finished"
       \/ DaqGoto("last_scan", "finish") /\ daqNext' = "exit"
    /\ running' = FALSE
    /\ UNCHANGED <<guiVars, rlVars, usable, flagVars, sweeping, scanning, daqFailed, prepared, scanBuffer,
                   history>>

\* scan_array_process: the data go to the buffer, the board is prepared again.
DaqScanProcess ==
    /\ DaqGoto("finish", "unblock_sweep")
    /\ Prepare(panel \in usable)
    /\ UNCHANGED <<guiVars, rlVars, usable, flagVars, sweeping, daqNext, scanning, daqFailed,
                   history>>

\* set_scan_callback_mode(tv, 0); like the blocking call it returns at once when
\* pid is no panel.
DaqUnblockSweep ==
    /\ IF pid \in Panels
       THEN /\ DaqGoto("unblock_sweep", "unblock_scope")
            /\ sweepScanning' = sweepScanning \ {panel}
       ELSE /\ DaqGoto("unblock_sweep", "scan_over")
            /\ UNCHANGED sweepScanning
    /\ UNCHANGED <<guiVars, rlVars, usable, scopeScanning, sweeping, daqNext, scanning, daqFailed, boardVars, history>>

DaqUnblockScope ==
    /\ DaqGoto("unblock_scope", "scan_over")
    /\ scopeScanning' = scopeScanning \ {panel}
    /\ UNCHANGED <<guiVars, rlVars, usable, sweepScanning, sweeping, daqNext, scanning, daqFailed, boardVars, history>>

\* A finished scan which leaves the scope in SCAN.
BugScanStaysRequested ==
    /\ DaqGoto("scan_over", IF daqNext = "exit" THEN "exit" ELSE "sweeps")
    /\ \/ daqNext = "start_failed" /\ SetScanning("STOP") /\ UNCHANGED scanning
       \/ daqNext = "finished" /\ scanning' = FALSE /\ UNCHANGED rlVars
       \/ daqNext = "exit" /\ UNCHANGED <<rlVars, scanning>>
    /\ daqNext' = "none"
    /\ UNCHANGED <<guiVars, usable, flagVars, sweeping, daqFailed, boardVars, history>>

\* Back in run_daq_thread after run_scope_start or run_scope_continue.
DaqScanOver ==
    /\ DaqGoto("scan_over", IF daqNext = "exit" THEN "exit" ELSE "sweeps")
    /\ \/ daqNext = "start_failed" /\ SetScanning("STOP") /\ UNCHANGED scanning
       \/ daqNext = "finished" /\ SetScanning("READY") /\ scanning' = FALSE
       \/ daqNext = "exit" /\ UNCHANGED <<rlVars, scanning>>
    /\ daqNext' = "none"
    /\ UNCHANGED <<guiVars, usable, flagVars, sweeping, daqFailed, boardVars, history>>

\* The sweep block, skipped while scanning: a sweep may reach its end and stop.
DaqSweeps ==
    /\ DaqGoto("sweeps", "loop")
    /\ \/ UNCHANGED sweeping
       \/ ~scanning /\ sweeping' = sweeping \ {panel}
    /\ UNCHANGED <<guiVars, rlVars, usable, flagVars, daqNext, scanning, daqFailed, boardVars, history>>

\* The thread joins the GPIB thread, resets the boards and returns.
DaqExit ==
    /\ DaqGoto("exit", "off")
    /\ scanning' = FALSE
    /\ daqFailed' = FALSE
    /\ UNCHANGED <<guiVars, rlVars, usable, flagVars, sweeping, daqNext, boardVars, history>>
-----------------------------------------------------------------------------
GuiNext ==
    \/ GuiSetPage \/ GuiEnterPanel \/ GuiStopInStart \/ GuiStartSession \/ GuiStopWithoutPanel
    \/ GuiToggleRecord \/ GuiToggleScan \/ GuiBlockSweep \/ GuiBlockScope
    \/ GuiClear \/ GuiUnholdScope
    \/ \E p \in Panels : GuiEditTimescale(p) \/ GuiLoadTimescale(p)
    \/ GuiSweep
    \/ GuiStopSweeps \/ GuiStopRl \/ GuiStopPid
    \/ GuiLeave \/ GuiJoin \/ MainEnds \/ ProcessOver

DaqNextStep ==
    \/ DaqLoopTest \/ DaqNoCommand
    \/ DaqRecordCommand \/ DaqScanCommand \/ DaqBlockSweep \/ DaqBlockScope
    \/ DaqSweepCommand
    \/ DaqAcquire \/ DaqAcquireFails
    \/ DaqScopeIdle \/ DaqStart \/ DaqArm \/ DaqArmFails
    \/ DaqScanRead \/ DaqScanStop \/ DaqScanProcess
    \/ DaqUnblockSweep \/ DaqUnblockScope \/ DaqScanOver
    \/ DaqSweeps \/ DaqExit

Next == GuiNext \/ DaqNextStep

Spec == Init /\ [][Next]_vars

\* The DAQ thread is always running or runnable.  The GUI thread completes the
\* callback it is in, and the tests of its loops come up again and again.
Fairness ==
    /\ WF_vars(DaqNextStep)
    /\ SF_vars(DaqScanStop)
    /\ WF_vars(GuiBlockSweep) /\ WF_vars(GuiBlockScope) /\ WF_vars(GuiUnholdScope)
    /\ WF_vars(GuiStopRl) /\ WF_vars(GuiStopPid)
    /\ SF_vars(GuiLeave) /\ WF_vars(GuiJoin)

FairSpec == Spec /\ Fairness
-----------------------------------------------------------------------------
TypeOK ==
    /\ pid \in Panels \cup {Setup, Quit}
    /\ panel \in Panels \cup {Setup}
    /\ guiPc \in GuiPc
    /\ nextPid \in Panels \cup {Setup, Quit}
    /\ loggerRl \in LoggerRl
    /\ scopeRl \in ScopeRl
    /\ usable \subseteq Panels
    /\ sweepScanning \subseteq Panels
    /\ scopeScanning \subseteq Panels
    /\ sweeping \subseteq Panels
    /\ daqPc \in DaqPc
    /\ daqNext \in DaqNext
    /\ scanning \in BOOLEAN
    /\ daqFailed \in BOOLEAN
    /\ prepared \in BOOLEAN
    /\ scanBuffer \in BOOLEAN
    /\ running \in BOOLEAN
    /\ stray \in {"no", "start", "failure"}
    /\ crossed \in BOOLEAN

\* The logger waits exactly on behalf of a requested or running scan, and never
\* records next to one (set_recording, set_scanning, stop_threads and the
\* failure path of run_daq_thread together).  A stopped logger means a stopped
\* scope: what run_daq_thread relies on when it calls run_scope_continue once
\* more after its loop and expects it to finish.
RunlevelsCoupled ==
    /\ loggerRl = "WAIT" => scopeRl = "SCAN"
    /\ loggerRl = "RECORD" => scopeRl # "SCAN"
    /\ loggerRl = "STOP" => scopeRl = "STOP"

\* The board acquires only on behalf of a live DAQ thread: whatever way the
\* session ended, the scan was stopped before the thread returned.
BoardIdleOutsideSession == daqPc \in {"exit", "off"} => ~running

\* While the board runs, the callbacks of the panel are blocked, or the GUI
\* thread is inside the scan_cb which is about to block them.  Only a session which
\* goes on without its page (set_scan_callback_mode: "if (tv->pid < 0) return") scans
\* with callbacks that work.
CallbacksBlockedDuringScan ==
    running => \/ panel \in sweepScanning /\ panel \in scopeScanning
               \/ guiPc \in {"block_sweep", "block_scope"}
               \/ stray # "no"

\* The memory the board writes to is not freed under a running scan: neither by the
\* end of a scan, nor by the callbacks of the panel, nor by the start of a session.
\* Only a timescale of another page, or a session without its page, does that.
ScanBufferLive == running => (scanBuffer /\ prepared) \/ crossed \/ stray # "no"

\* A stopped scope stays stopped until the next session assigns the runlevels
\* (set_scanning: "must manually escape from SCOPE_RL_STOP"), except that a failing
\* acquisition puts it on HOLD; no command, button or end of a scan does.
StopLeftByFailureOnly ==
    [][scopeRl = "STOP" /\ daqPc # "off" => scopeRl' = "STOP" \/ (~daqFailed /\ daqFailed')]_vars

\* A scan request is answered: the scope does not stay in SCAN.
ScanEnds == scopeRl = "SCAN" ~> scopeRl # "SCAN"

\* Leaving a panel ends its session: the threads are joined, unless an acquisition
\* which fails just then writes HOLD over the STOP.
StopCompletes == guiPc = "stop_rl" ~> guiPc = "main" \/ stray = "failure"
-----------------------------------------------------------------------------
(* The inductive invariant behind the safety properties.                   *)

Session == {"loop", "block_sweep", "block_scope", "unhold_scope", "stop_rl", "stop_pid", "join"}

\* Where the two threads can be relative to each other, and what the return
\* place of set_scan_callback_mode can be.
Positions ==
    /\ daqPc # "off" => guiPc \in Session
    /\ guiPc \in Session \cup {"start"} => panel \in Panels
    /\ daqPc \in {"last_scan", "exit", "off"} => loggerRl = "STOP"
    /\ daqPc \in {"block_sweep", "block_scope"} => daqNext \in {"acquire", "scope"}
    /\ daqPc \in {"finish", "unblock_sweep", "unblock_scope", "scan_over"}
          => daqNext \in {"start_failed", "finished", "exit"}
    /\ daqNext # "none" => daqPc \in {"block_sweep", "block_scope", "finish", "unblock_sweep",
                                       "unblock_scope", "scan_over"}
    /\ daqNext = "exit" => loggerRl = "STOP"
    /\ daqPc \in {"start", "arm"} \/ daqNext = "start_failed" => ~scanning

\* The board runs only while the DAQ thread is in its loop and knows it.
BoardFollowsThread ==
    running => /\ scanning
               /\ daqPc \in {"loop", "poll", "acquire", "triggers", "scope", "sweeps",
                              "block_sweep", "block_scope", "last_scan"}

LifecycleInv == TypeOK /\ Positions /\ RunlevelsCoupled /\ BoardFollowsThread

\* A session whose page is gone is being stopped.
PageGone ==
    /\ guiPc \in {"stop_pid", "join"} => loggerRl = "STOP"
    /\ guiPc \in Session /\ pid \notin Panels => loggerRl = "STOP"
    /\ guiPc \in {"block_sweep", "block_scope"} => pid \in Panels

\* Where callbacks must be blocked: a scan is running, being set up, or
\* requested with nobody on the way to block them.
Ending == {"finish", "unblock_sweep", "unblock_scope", "scan_over", "exit", "off"}
BlockNeeded ==
    \/ scanning /\ daqPc \notin Ending
    \/ daqPc \in {"start", "arm"}
    \/ scopeRl = "SCAN" /\ daqPc \notin Ending \cup {"block_sweep", "block_scope"}

BlockHeld ==
    /\ BlockNeeded => \/ panel \in sweepScanning /\ panel \in scopeScanning
                      \/ guiPc = "block_sweep"
                      \/ guiPc = "block_scope" /\ panel \in sweepScanning
    /\ daqPc = "block_scope" => panel \in sweepScanning

\* Neither is lost but by the two causes which stray names.
BlockingInv == LifecycleInv /\ (stray = "no" => PageGone /\ BlockHeld) /\ ScanBufferLive
-----------------------------------------------------------------------------
(* Why the DAQ thread ends once the runlevels are at STOP.                 *)

\* The steps which it then has left, from each place of its pass.
StepsLeft ==
    CASE daqPc = "off"           -> 0
      [] daqPc = "exit"          -> 1
      [] daqPc = "scan_over"     -> IF daqNext = "exit" THEN 2 ELSE 9
      [] daqPc = "unblock_scope" -> IF daqNext = "exit" THEN 3 ELSE 10
      [] daqPc = "unblock_sweep" -> IF daqNext = "exit" THEN 4 ELSE 11
      [] daqPc = "finish"        -> IF daqNext = "exit" THEN 5 ELSE 12
      [] daqPc = "last_scan"     -> 6
      [] daqPc = "loop"          -> 7
      [] daqPc = "sweeps"        -> 8
      [] daqPc = "arm"           -> 13
      [] daqPc = "start"         -> 14
      [] daqPc = "scope"         -> 15
      [] daqPc = "block_scope"   -> IF daqNext = "scope" THEN 16 ELSE 20
      [] daqPc = "block_sweep"   -> IF daqNext = "scope" THEN 17 ELSE 21
      [] daqPc = "triggers"      -> 18
      [] daqPc = "acquire"       -> 19
      [] daqPc = "poll"          -> 22

\* Once stop_threads has stopped the runlevels, each step of the DAQ thread brings it
\* nearer to its end, whatever it was doing, whatever commands come and whether or not
\* a scan is running, and no callback adds to its work; only a failing acquisition
\* takes the logger out of STOP again.
StopShortens ==
    [][loggerRl = "STOP" /\ daqPc # "off" =>
          \/ ~daqFailed /\ daqFailed'
          \/ /\ loggerRl' = "STOP"
             /\ StepsLeft' <= StepsLeft
             /\ DaqNextStep => StepsLeft' < StepsLeft]_vars
=============================================================================
