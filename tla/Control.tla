------------------------------ MODULE Control -------------------------------
(***************************************************************************)
(* The terminal server of Mezurit2 (control/server.c, M2_TS_ID): a Python  *)
(* client sends one command at a time and waits for the reply.  The main   *)
(* loop executes commands on the Setup page; in a panel the DAQ thread     *)
(* accepts them and executes those meant for it, hands the others to the   *)
(* GUI thread through terminal_dirty, and some are answered later, by the  *)
(* GPIB thread or when a sweep, a scan or a trigger gives the event waited *)
(* for.  All of it shares argv and temp_socket under ts_mutex.             *)
(*                                                                         *)
(* A holder of ts_mutex runs one action, so the mutex is not a variable.   *)
(* A command is known by who executes it; channels and names are left out, *)
(* except that an event may or may not be the one waited for.              *)
(***************************************************************************)
EXTENDS Naturals, Sequences

CONSTANTS
    MaxRequests,  \* bound: commands sent by the clients in a behaviour
    MaxKills,     \* bound: terminals killed and respawned
    Commands,     \* the commands the clients use, a subset of AllCommands
    AbortAllowed, \* the user presses "abort" in the terminal menu
    Leaves        \* where the user goes from a panel, other than a panel

AllCommands == {"get_var", "set_panel", "load_config", "new_set", "set_scanning",
                "set_follower", "gpib_send_recv", "catch_sweep", "catch_scan_start",
                "catch_scan_finish", "catch_signal", "unknown"}

ASSUME ControlAssumption ==
    /\ MaxRequests \in Nat \ {0}
    /\ MaxKills \in Nat
    /\ Commands \subseteq AllCommands
    /\ AbortAllowed \in BOOLEAN
    /\ Leaves \subseteq {"setup", "quit"}

Requests == 1 .. MaxRequests
NoRequest == 0

VARIABLES
    sent,        \* how many requests have been sent
    cmdOf,       \* the command of a request
    client,      \* the request the terminal waits for
    kills,       \* how many terminals were killed
    aborted,     \* the commands the user has aborted so far (history)
    backlog,     \* connections perm_socket has not accepted yet
    argv,        \* the request in progress, on temp_socket
    answer,      \* the kind of the reply sent to a request
    stray,       \* a reply was sent while no command was in progress
    dirty,       \* ThreadVars.terminal_dirty
    catchSweep,  \* ThreadVars.catch_sweep_ici # -1
    catchSignal, \* ThreadVars.catch_signal # NULL
    page,        \* ThreadVars.pid: -1, a panel, -2
    stopping,    \* logger_rl = LOGGER_RL_STOP
    guiPc,       \* where the GUI thread is
    daqPc,       \* where the DAQ thread is
    gpibPc,      \* where the GPIB thread is
    gpibMsg,     \* ThreadVars.gpib_msg # NULL
    gpibRunning  \* ThreadVars.gpib_running

clientVars == <<sent, cmdOf, client, kills, aborted>>
serverVars == <<argv, answer, stray>>
catchVars  == <<catchSweep, catchSignal>>
pageVars   == <<page, stopping>>
gpibVars   == <<gpibPc, gpibMsg, gpibRunning>>
vars == <<clientVars, backlog, serverVars, dirty, catchVars, pageVars, guiPc, daqPc, gpibVars>>

GuiPc  == {"main", "main_test", "section", "events", "join", "ended", "crash"}
DaqPc  == {"off", "init", "test", "poll", "triggers", "scope", "sweeps", "last", "exit"}
GpibPc == {"off", "take", "query", "reply", "test"}
Answers == {"none", "done", "command_error", "argument_error", "abort",
            "gpib", "signal", "sweep", "catch_scan_start", "catch_scan_finish"}
-----------------------------------------------------------------------------
(* The server.                                                             *)

\* The masks of control_server_connect: which loops execute a command.
Mask(c) ==
    CASE c \in {"get_var", "set_panel", "gpib_send_recv"} -> {"setup", "gui"}
      [] c = "load_config"  -> {"setup"}
      [] c = "set_follower" -> {"setup", "daq"}
      [] c = "set_scanning" -> {"daq"}
      [] c = "unknown"      -> {}
      [] OTHER              -> {"gui"}

Current == IF argv = NoRequest THEN "none" ELSE cmdOf[argv]

\* control_server_reply: answer the request in progress and forget it.
Reply(kind) ==
    /\ IF argv = NoRequest THEN stray' = TRUE /\ UNCHANGED answer
       ELSE answer' = [answer EXCEPT ![argv] = kind] /\ UNCHANGED stray
    /\ argv' = NoRequest

\* control_server_poll accepts one connection, with its command.
Accept ==
    /\ argv = NoRequest
    /\ backlog # <<>>
    /\ backlog' = Tail(backlog)

\* The command accepted is executed and answered within the same section.
ReplyToAccepted(kind) ==
    /\ answer' = [answer EXCEPT ![Head(backlog)] = kind]
    /\ UNCHANGED <<argv, stray>>
-----------------------------------------------------------------------------
Init ==
    /\ sent = 0
    /\ cmdOf = [r \in Requests |-> "unknown"]
    /\ client = NoRequest
    /\ kills = 0
    /\ aborted = {}
    /\ backlog = <<>>
    /\ argv = NoRequest
    /\ answer = [r \in Requests |-> "none"]
    /\ stray = FALSE
    /\ dirty = FALSE
    /\ catchSweep = FALSE
    /\ catchSignal = FALSE
    /\ page = "setup"
    /\ stopping = FALSE
    /\ guiPc = "main"
    /\ daqPc = "off"
    /\ gpibPc = "off"
    /\ gpibMsg = FALSE
    /\ gpibRunning = FALSE
-----------------------------------------------------------------------------
(* The client process (send_recv_rcmd_cfunc).                              *)

ClientSend ==
    /\ client = NoRequest
    /\ sent < MaxRequests
    /\ sent' = sent + 1
    /\ client' = sent + 1
    /\ \E c \in Commands : cmdOf' = [cmdOf EXCEPT ![sent + 1] = c]
    /\ backlog' = Append(backlog, sent + 1)
    /\ UNCHANGED <<kills, aborted, serverVars, dirty, catchVars, pageVars, guiPc, daqPc, gpibVars>>

ClientReceive ==
    /\ client # NoRequest
    /\ answer[client] # "none"
    /\ client' = NoRequest
    /\ UNCHANGED <<sent, cmdOf, kills, aborted, backlog, serverVars, dirty, catchVars, pageVars, guiPc,
                   daqPc, gpibVars>>

\* respawn_cb: the terminal is killed and a new one started.  The server
\* accepts what the old one had sent all the same.
ClientKilled ==
    /\ client # NoRequest
    /\ kills < MaxKills
    /\ kills' = kills + 1
    /\ client' = NoRequest
    /\ UNCHANGED <<sent, cmdOf, aborted, backlog, serverVars, dirty, catchVars, pageVars, guiPc, daqPc,
                   gpibVars>>
-----------------------------------------------------------------------------
(* The main loop, while the Setup page is showing.                         *)

\* The loop polls and executes: every handler answers at once, except that
\* gpib_send_recv is deferred once the page has changed and set_panel then
\* finds no panel to stop.
MainExecute ==
    /\ guiPc = "main"
    /\ Accept
    /\ LET c == cmdOf[Head(backlog)]
       IN  /\ c = "gpib_send_recv" => page = "setup"
           /\ ReplyToAccepted(IF "setup" \notin Mask(c) THEN "command_error"
                             ELSE IF c = "gpib_send_recv" THEN "gpib" ELSE "done")
           /\ \/ UNCHANGED page
              \/ c = "set_panel" /\ page # "panel" /\ page' \in {"panel"} \cup (Leaves \ {"quit"})
    /\ guiPc' = "main_test"
    /\ UNCHANGED <<clientVars, dirty, catchVars, stopping, daqPc, gpibVars>>

MainDefer ==
    /\ guiPc = "main"
    /\ Accept
    /\ cmdOf[Head(backlog)] = "gpib_send_recv"
    /\ page # "setup"
    /\ argv' = Head(backlog)
    /\ gpibMsg' = TRUE
    /\ guiPc' = "main_test"
    /\ UNCHANGED <<clientVars, answer, stray, dirty, catchVars, pageVars, daqPc, gpibPc, gpibRunning>>

\* set_panel_csf or a page callback when pid is a panel but no session has
\* begun: stop_threads uses tv->panel, which is NULL (see Runlevel).
MainCrash ==
    /\ guiPc = "main"
    /\ page = "panel"
    /\ guiPc' = "crash"
    /\ UNCHANGED <<clientVars, backlog, serverVars, dirty, catchVars, pageVars, daqPc, gpibVars>>

\* Nothing to poll, or a command in progress.
MainIdle ==
    /\ guiPc = "main"
    /\ argv # NoRequest \/ backlog = <<>>
    /\ guiPc' = "main_test"
    /\ UNCHANGED <<clientVars, backlog, serverVars, dirty, catchVars, pageVars, daqPc, gpibVars>>

MainSetPage ==
    /\ guiPc = "main"
    /\ page # "panel"
    /\ page' \in {"panel"} \cup Leaves
    /\ UNCHANGED <<clientVars, backlog, serverVars, dirty, catchVars, stopping, guiPc, daqPc,
                   gpibVars>>

\* run_gui_thread which starts with terminal_dirty = 0.
BugDirtyReset ==
    /\ guiPc = "main_test"
    /\ guiPc' = CASE page = "panel" -> "section" [] page = "quit" -> "ended" [] OTHER -> "main"
    /\ IF page = "panel" THEN daqPc' = "init" /\ stopping' = FALSE /\ dirty' = FALSE
                         ELSE UNCHANGED <<daqPc, stopping, dirty>>
    /\ UNCHANGED <<clientVars, backlog, serverVars, catchVars, page, gpibVars>>

\* The tests at the end of the loop; run_gui_thread sets the runlevels and
\* creates the DAQ thread.
MainTest ==
    /\ guiPc = "main_test"
    /\ guiPc' = CASE page = "panel" -> "section" [] page = "quit" -> "ended" [] OTHER -> "main"
    /\ IF page = "panel" THEN daqPc' = "init" /\ stopping' = FALSE
                         ELSE UNCHANGED <<daqPc, stopping>>
    /\ UNCHANGED <<clientVars, backlog, serverVars, dirty, catchVars, page, gpibVars>>
-----------------------------------------------------------------------------
(* The GUI thread in a panel.                                              *)

\* set_panel_csf within a session: the threads are told to stop.
ChangePage ==
    /\ page' \in {"panel"} \cup (Leaves \ {"quit"})
    /\ stopping' = TRUE

\* The terminal section of run_gui_thread without work.
GuiNothing ==
    /\ guiPc = "section"
    /\ ~dirty
    /\ guiPc' = "events"
    /\ UNCHANGED <<clientVars, backlog, serverVars, dirty, catchVars, pageVars, daqPc, gpibVars>>

\* The terminal section without "terminal_dirty = 0".
BugDirtyKept ==
    /\ guiPc = "section"
    /\ dirty
    /\ argv # NoRequest
    /\ Reply(IF Current \in {"get_var", "new_set"} THEN "done" ELSE "command_error")
    /\ guiPc' = "events"
    /\ UNCHANGED <<clientVars, backlog, dirty, catchVars, pageVars, daqPc, gpibVars>>

\* terminal_dirty, and a handler which answers at once; set_panel changes the
\* page first.
GuiExecute ==
    /\ guiPc = "section"
    /\ dirty
    /\ argv # NoRequest
    /\ IF "gui" \notin Mask(Current) THEN Reply("command_error") /\ UNCHANGED pageVars
       ELSE /\ Current \in {"get_var", "new_set", "set_panel"}
            /\ Reply("done")
            /\ UNCHANGED pageVars \/ (Current = "set_panel" /\ ChangePage)
    /\ dirty' = FALSE
    /\ guiPc' = "events"
    /\ UNCHANGED <<clientVars, backlog, catchVars, daqPc, gpibVars>>

\* terminal_dirty, and a handler which returns NULL: the reply comes later.
GuiDefer ==
    /\ guiPc = "section"
    /\ dirty
    /\ \/ Current = "catch_sweep" /\ catchSweep' = TRUE /\ UNCHANGED <<catchSignal, gpibMsg>>
       \/ Current = "catch_signal" /\ catchSignal' = TRUE /\ UNCHANGED <<catchSweep, gpibMsg>>
       \/ Current \in {"catch_scan_start", "catch_scan_finish"} /\ UNCHANGED <<catchVars, gpibMsg>>
       \/ Current = "gpib_send_recv" /\ gpibMsg' = TRUE /\ UNCHANGED catchVars
    /\ dirty' = FALSE
    /\ guiPc' = "events"
    /\ UNCHANGED <<clientVars, backlog, serverVars, pageVars, daqPc, gpibPc, gpibRunning>>

\* The arguments of a deferred command do not parse.
GuiArgumentError ==
    /\ guiPc = "section"
    /\ dirty
    /\ Current \in {"catch_sweep", "catch_signal", "gpib_send_recv"}
    /\ Reply("argument_error")
    /\ dirty' = FALSE
    /\ guiPc' = "events"
    /\ UNCHANGED <<clientVars, backlog, catchVars, pageVars, daqPc, gpibVars>>

\* control_server_iterate reads argv[0] although argv is NULL.
GuiNoCommand ==
    /\ guiPc = "section"
    /\ dirty
    /\ argv = NoRequest
    /\ guiPc' = "crash"
    /\ UNCHANGED <<clientVars, backlog, serverVars, dirty, catchVars, pageVars, daqPc, gpibVars>>

\* set_page_cb and exit_cb among the events of a panel.
GuiSetPage ==
    /\ guiPc = "events"
    /\ page' \in {"panel"} \cup Leaves
    /\ stopping' = (stopping \/ page = "panel")
    /\ UNCHANGED <<clientVars, backlog, serverVars, dirty, catchVars, guiPc, daqPc, gpibVars>>

\* abort_control_cb: "only member of ThreadVars which needs to be reset".
GuiAbort ==
    /\ AbortAllowed
    /\ guiPc \in {"main", "events"}
    /\ argv # NoRequest
    /\ Reply("abort")
    /\ catchSweep' = FALSE
    /\ aborted' = aborted \cup {Current}
    /\ UNCHANGED <<sent, cmdOf, client, kills, backlog, dirty, catchSignal, pageVars, guiPc,
                   daqPc, gpibVars>>

\* The test of run_gui_thread's loop.
GuiTest ==
    /\ guiPc = "events"
    /\ guiPc' = IF stopping THEN "join" ELSE "section"
    /\ UNCHANGED <<clientVars, backlog, serverVars, dirty, catchVars, pageVars, daqPc, gpibVars>>

GuiJoin ==
    /\ guiPc = "join"
    /\ daqPc = "off"
    /\ guiPc' = "main"
    /\ UNCHANGED <<clientVars, backlog, serverVars, dirty, catchVars, pageVars, daqPc, gpibVars>>

ProcessOver ==
    /\ guiPc \in {"ended", "crash"}
    /\ UNCHANGED vars
-----------------------------------------------------------------------------
(* The DAQ thread.                                                         *)

DaqGoto(from, to) == daqPc = from /\ daqPc' = to

\* run_daq_thread resets the GPIB variables and creates the GPIB thread.
DaqInit ==
    /\ DaqGoto("init", "test")
    /\ gpibMsg' = FALSE
    /\ gpibRunning' = TRUE
    /\ gpibPc' = "take"
    /\ UNCHANGED <<clientVars, backlog, serverVars, dirty, catchVars, pageVars, guiPc>>

DaqTest ==
    /\ DaqGoto("test", IF stopping THEN "last" ELSE "poll")
    /\ UNCHANGED <<clientVars, backlog, serverVars, dirty, catchVars, pageVars, guiPc, gpibVars>>

\* Not yet time to poll, ts_mutex taken, or a command in progress.
DaqNoPoll ==
    /\ DaqGoto("poll", "triggers")
    /\ UNCHANGED <<clientVars, backlog, serverVars, dirty, catchVars, pageVars, guiPc, gpibVars>>

\* The poll accepts a command of the DAQ thread and executes it.  While the
\* session ends, pid may be -1 or -2 already, and then no mask matches.
DaqExecute ==
    /\ DaqGoto("poll", "triggers")
    /\ Accept
    /\ page = "panel"
    /\ "daq" \in Mask(cmdOf[Head(backlog)])
    /\ ReplyToAccepted("done")
    /\ dirty' = FALSE
    /\ UNCHANGED <<clientVars, catchVars, pageVars, guiPc, gpibVars>>

\* The poll accepts a command for somebody else: terminal_dirty.
DaqForward ==
    /\ DaqGoto("poll", "triggers")
    /\ Accept
    /\ page # "panel" \/ "daq" \notin Mask(cmdOf[Head(backlog)])
    /\ argv' = Head(backlog)
    /\ dirty' = TRUE
    /\ UNCHANGED <<clientVars, answer, stray, catchVars, pageVars, guiPc, gpibVars>>

\* run_triggers: perhaps a trigger emits the signal waited for
\* (emit_signal_csf); the reply repeats whatever command is in progress.
DaqTriggers ==
    /\ DaqGoto("triggers", "scope")
    /\ \/ UNCHANGED <<serverVars, catchSignal>>
       \/ catchSignal /\ Reply("signal") /\ catchSignal' = FALSE
    /\ UNCHANGED <<clientVars, backlog, dirty, catchSweep, pageVars, guiPc, gpibVars>>

\* A scan event which does not look at the command.
BugAnyScanEvent(c) == argv # NoRequest /\ Reply(c)
\* run_scope_start and run_scope_continue answer catch_scan_*.
ScanEvent(c) == Current = c /\ Reply(c)

DaqScope ==
    /\ DaqGoto("scope", "sweeps")
    /\ \/ UNCHANGED serverVars
       \/ ScanEvent("catch_scan_start")
       \/ ScanEvent("catch_scan_finish")
    /\ UNCHANGED <<clientVars, backlog, dirty, catchVars, pageVars, guiPc, gpibVars>>

\* run_sweep_response: perhaps the event waited for.
DaqSweeps ==
    /\ DaqGoto("sweeps", "test")
    /\ \/ UNCHANGED <<serverVars, catchSweep>>
       \/ /\ catchSweep /\ Current = "catch_sweep"
          /\ Reply("sweep")
          /\ catchSweep' = FALSE
    /\ UNCHANGED <<clientVars, backlog, dirty, catchSignal, pageVars, guiPc, gpibVars>>

\* The last run_scope_continue; then the GPIB thread is told to stop.
DaqLast ==
    /\ DaqGoto("last", "exit")
    /\ UNCHANGED serverVars \/ ScanEvent("catch_scan_finish")
    /\ gpibRunning' = FALSE
    /\ UNCHANGED <<clientVars, backlog, dirty, catchVars, pageVars, guiPc, gpibPc, gpibMsg>>

DaqExit ==
    /\ DaqGoto("exit", "off")
    /\ gpibPc = "off"
    /\ UNCHANGED <<clientVars, backlog, serverVars, dirty, catchVars, pageVars, guiPc, gpibVars>>
-----------------------------------------------------------------------------
(* The GPIB thread (run_gpib_thread).                                      *)

GpibTake ==
    /\ gpibPc = "take"
    /\ gpibPc' = IF gpibMsg THEN "query" ELSE "test"
    /\ gpibMsg' = FALSE
    /\ UNCHANGED <<clientVars, backlog, serverVars, dirty, catchVars, pageVars, guiPc, daqPc,
                   gpibRunning>>

GpibQuery ==
    /\ gpibPc = "query"
    /\ gpibPc' = "reply"
    /\ UNCHANGED <<clientVars, backlog, serverVars, dirty, catchVars, pageVars, guiPc, daqPc,
                   gpibMsg, gpibRunning>>

GpibReply ==
    /\ gpibPc = "reply"
    /\ Reply("gpib")
    /\ gpibPc' = "test"
    /\ UNCHANGED <<clientVars, backlog, dirty, catchVars, pageVars, guiPc, daqPc, gpibMsg,
                   gpibRunning>>

GpibTest ==
    /\ gpibPc = "test"
    /\ gpibPc' = IF gpibRunning THEN "take" ELSE "off"
    /\ UNCHANGED <<clientVars, backlog, serverVars, dirty, catchVars, pageVars, guiPc, daqPc,
                   gpibMsg, gpibRunning>>
-----------------------------------------------------------------------------
ClientNext == ClientSend \/ ClientReceive \/ ClientKilled

MainLoop   == MainExecute \/ MainDefer \/ MainIdle \/ MainTest
GuiLoop    == GuiNothing \/ GuiExecute \/ GuiDefer \/ GuiArgumentError \/ GuiNoCommand
              \/ GuiTest \/ GuiJoin
UserEvent  == MainSetPage \/ MainCrash \/ GuiSetPage \/ GuiAbort
DaqPoll    == DaqExecute \/ DaqForward
DaqLoop    == DaqInit \/ DaqTest \/ DaqNoPoll \/ DaqPoll \/ DaqTriggers \/ DaqScope
              \/ DaqSweeps \/ DaqLast \/ DaqExit
GpibLoop   == GpibTake \/ GpibQuery \/ GpibReply \/ GpibTest

Next == ClientNext \/ MainLoop \/ GuiLoop \/ UserEvent \/ DaqLoop \/ GpibLoop \/ ProcessOver

Spec == Init /\ [][Next]_vars

\* Each thread keeps running; the DAQ thread's poll timer expires again and
\* again, and its trylock does not fail every time.
Fairness == /\ WF_vars(MainLoop) /\ WF_vars(GuiLoop) /\ WF_vars(GpibLoop)
            /\ WF_vars(DaqLoop) /\ SF_vars(DaqPoll)

FairSpec == Spec /\ Fairness
-----------------------------------------------------------------------------
TypeOK ==
    /\ sent \in 0 .. MaxRequests
    /\ cmdOf \in [Requests -> AllCommands]
    /\ \A r \in 1 .. sent : cmdOf[r] \in Commands
    /\ client \in 0 .. sent
    /\ kills \in 0 .. MaxKills
    /\ aborted \subseteq Commands
    /\ backlog \in Seq(1 .. sent)
    /\ argv \in 0 .. sent
    /\ answer \in [Requests -> Answers]
    /\ stray \in BOOLEAN
    /\ dirty \in BOOLEAN
    /\ catchSweep \in BOOLEAN
    /\ catchSignal \in BOOLEAN
    /\ page \in {"setup", "panel", "quit"}
    /\ stopping \in BOOLEAN
    /\ guiPc \in GuiPc
    /\ daqPc \in DaqPc
    /\ gpibPc \in GpibPc
    /\ gpibMsg \in BOOLEAN
    /\ gpibRunning \in BOOLEAN

\* Which replies a command may get.
Fits(kind, c) ==
    /\ kind = "gpib" => c = "gpib_send_recv"
    /\ kind = "signal" => c = "catch_signal"
    /\ kind = "sweep" => c = "catch_sweep"
    /\ kind \in {"catch_scan_start", "catch_scan_finish"} => c = kind
    /\ kind = "done" => c \notin {"gpib_send_recv", "catch_sweep", "catch_signal",
                                "catch_scan_start", "catch_scan_finish"}

\* An abort which leaves a thread behind that replies without looking at the
\* command: the GPIB thread, or a trigger with the signal.
LateAborted == aborted \cap {"gpib_send_recv", "catch_signal"} # {}

EveryReplyFits == \A r \in Requests : Fits(answer[r], cmdOf[r])
NothingStray   == ~stray

\* A late reply reaches the command which waits for it: the GPIB thread, a
\* trigger, a scan or a sweep never answers another one, and no command which
\* waits for one of them is reported as done before.  And a reply is sent only
\* with a command in progress: otherwise control_server_reply writes to a socket
\* which it has closed and released before.  Killed terminals, changes of session
\* and aborts of other commands do no harm.
RightReply == ~LateAborted => EveryReplyFits /\ NothingStray

ScanCommands == {"catch_scan_start", "catch_scan_finish"}

\* control_server_iterate reads argv[0] without a test (run_gui_thread tests only
\* terminal_dirty).  Nothing but an abort or a scan event, which may come before
\* the GUI thread has executed the command, takes the command away from it.
DirtyHasCommand ==
    dirty /\ argv = NoRequest /\ aborted = {}
        => \E r \in 1 .. sent : cmdOf[r] \in ScanCommands

\* Whatever panels the user switches between and whoever owns the command when a
\* session ends, a reply is the one to the oldest request without a reply, which has
\* got none before; and a client which waits for no event gets its reply.
Answered == sent - Len(backlog) - (IF argv = NoRequest THEN 0 ELSE 1)

Replied == [r \in 1 .. Answered |-> answer[r]]

Promise == INSTANCE Replies WITH
        Kinds <- Answers \ {"none"}, asked <- sent,
        replies <- Replied, up <- guiPc \notin {"crash", "ended"}
RepliesInTurn == Promise!Spec
-----------------------------------------------------------------------------
(* The inductive invariant: whoever will reply later has the command in    *)
(* progress, and the GUI thread has executed it.                           *)

Unsent == \A r \in Requests : r > sent => answer[r] = "none"

\* A message which the DAQ thread will not reset before the GPIB thread sees it.
GpibBusy == (gpibMsg /\ daqPc \notin {"off", "init"}) \/ gpibPc \in {"query", "reply"}

ThreadsAt ==
    /\ guiPc \in {"main", "main_test"} => daqPc = "off"
    /\ daqPc \in {"off", "init"} => gpibPc = "off"

Owned ==
    /\ catchSweep => Current = "catch_sweep"
    /\ catchSignal => Current = "catch_signal"
    /\ GpibBusy => Current = "gpib_send_recv"
    /\ gpibPc \in {"query", "reply"} => ~gpibMsg
    /\ dirty => ~catchSweep /\ ~catchSignal /\ ~GpibBusy

ReplyInv == TypeOK /\ Unsent /\ ThreadsAt /\ Owned /\ EveryReplyFits /\ NothingStray

\* An abort of gpib_send_recv or catch_signal ends the argument.
ControlInv == LateAborted \/ ReplyInv

\* The requests without a reply are the last ones, in the order in which they were
\* sent: the one in progress, then those not accepted yet.
TurnInv ==
    /\ sent \in 0 .. MaxRequests
    /\ backlog \in Seq(Nat) /\ argv \in Nat
    /\ answer \in [Requests -> Answers]
    /\ Answered \in Nat
    /\ argv # NoRequest => argv = Answered + 1
    /\ \A i \in 1 .. Len(backlog) : backlog[i] = sent - Len(backlog) + i
=============================================================================
