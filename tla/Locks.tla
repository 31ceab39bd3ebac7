-------------------------------- MODULE Locks --------------------------------
(***************************************************************************)
(* The mutexes of a panel session, all components together: the paths of   *)
(* the GUI, the DAQ and the GPIB thread through run_gui_thread,            *)
(* run_daq_thread and run_gpib_thread (src/main/thread), their callbacks   *)
(* and control commands, as the mutexes they take and the shared state     *)
(* they read and write on the way.                                         *)
(*                                                                         *)
(* A path is a sequence of steps.  What a path does between is in the      *)
(* module of its component.  GMutex is not recursive.  Left out: paths     *)
(* which take one mutex alone and touch state which nobody else takes it   *)
(* for (status_mutex), flags which are read before a mutex is taken to     *)
(* skip a path altogether, and what the GUI thread does before it creates  *)
(* the DAQ thread or after it joined it.                                   *)
(***************************************************************************)
EXTENDS Naturals, Sequences

VARIABLES
    doing,   \* thread -> the name of its path
    todo,    \* thread -> the rest of its path
    owner    \* mutex -> the thread which holds it, or "nobody"

lockVars == <<doing, todo, owner>>

Threads == {"gui", "daq", "gpib"}

\* ts_mutex, rl_mutex, gpib_mutex, data_mutex; of a panel: sweep_mutex,
\* trigger_mutex, buffer.mutex, buffer.confirming, logger.mutex, scope.mutex.
Mutexes == {"ts", "rl", "gpib", "data", "sweep", "trigger", "buffer",
            "confirming", "logger", "scope"}

-----------------------------------------------------------------------------
(* Steps, and paths from them.  A set of paths is a choice. *)

Step(k, x) == [do |-> k, what |-> x, skip |-> 0]
Lock(m)    == Step("lock", m)
Unlock(m)  == Step("unlock", m)
Reads(r)   == {<<Step("read", r)>>}
Writes(r)  == {<<Step("write", r)>>}
Nothing    == {<<>>}

Seq2(A, B)    == {a \o b : a \in A, b \in B}
Seq3(A, B, C) == Seq2(A, Seq2(B, C))

Within(m, A) == {<<Lock(m)>> \o a \o <<Unlock(m)>> : a \in A}

\* mt_mutex_trylock: the path goes on without what it guards.
IfFree(m, A) ==
    {<<[do |-> "try", what |-> m, skip |-> Len(a) + 1]>> \o a \o <<Unlock(m)>> : a \in A}

-----------------------------------------------------------------------------
(* Functions which several threads call. *)

set_runlevel == Within("rl", Writes("runlevels"))   \* set_recording, set_scanning
get_runlevel == Within("rl", Reads("runlevels"))
set_scan_callback_mode == Seq2(Within("sweep", Writes("sweep blocked")),
                               Within("scope", Writes("scope blocked")))
stop_threads == Seq2(Within("sweep", Writes("dir")), set_runlevel)
scan_csf == Seq2(set_runlevel, set_scan_callback_mode)
BugBufferUnlocked == Writes("points")
buffer_csf == Within("buffer", Writes("points"))    \* add_set_csf, tzero_csf, save_buffer
trigger_csf == Within("trigger", Writes("triggers"))
sweep_direction_csf == Within("sweep", Writes("dir"))

-----------------------------------------------------------------------------
(* The GUI thread. *)

clear_buffer == Seq2(Within("confirming", Within("buffer", Reads("points")))
                       \cup Nothing,
                     Within("buffer", Seq2(Writes("points"), Writes("percent"))))
clear_csf == Seq2(Seq2(clear_buffer, Reads("points")), Seq2(set_runlevel, set_runlevel))

\* panel_lock, mcf_write_file, panel_unlock.
save_config ==
    {<<Lock("logger"), Lock("scope"), Lock("sweep"), Lock("trigger")>> \o a \o
     <<Unlock("logger"), Unlock("scope"), Unlock("sweep"), Unlock("trigger")>> :
       a \in Reads("triggers")}

\* set_var while a panel is shown: the handlers of the panel's variables.
trigger_expr_mcf == Seq3(Within("trigger", Writes("triggers")),
                         Within("trigger", Reads("triggers")),
                         Within("trigger", Reads("triggers")))
set_sweep == Within("sweep", Writes("limits"))
set_timescale == Within("scope", Writes("timescale"))
set_logger == Within("logger", Writes("settings"))
set_var == set_sweep \cup set_timescale \cup set_logger

gpib_send_recv_csf == Within("gpib", Writes("message"))   \* gpib_pause_cb, gpib_pause_csf
link_csf == Within("sweep", Writes("dir"))

\* A command of the terminal which the DAQ thread left, or a new page.
Serve(body) == Within("ts", Seq2(Writes("command"), body))
set_page == Seq2(stop_threads, Writes("pid"))

abort_control_cb == Within("ts", Writes("command"))

\* The widgets of a panel.
callback == set_runlevel \cup scan_csf \cup gpib_send_recv_csf
              \cup sweep_direction_csf \cup trigger_csf \cup buffer_csf
              \cup set_var \cup trigger_expr_mcf \cup set_page \cup abort_control_cb

\* run_runlevel_updates, the readers, the buffer's status and the plot.
updates == Within("trigger", Reads("triggers")) \cup Within("sweep", Reads("dir"))
             \cup get_runlevel \cup Within("sweep", Writes("dir"))
             \cup Within("data", Reads("readings")) \cup Within("buffer", Seq2(Reads("points"), Reads("percent")))
draw == Seq2(Within("buffer", Reads("points")), Reads("points"))

GuiPaths ==
    {<<"serve save_config", p>> : p \in Serve(save_config)}
      \cup {<<"serve set_var", p>> : p \in Serve(trigger_expr_mcf)}
      \cup {<<"serve", p>> : p \in Serve(clear_csf \cup buffer_csf \cup set_page \cup set_var
                                           \cup gpib_send_recv_csf \cup link_csf \cup Nothing)}
      \cup {<<"save_config", p>> : p \in save_config}
      \cup {<<"clear", p>> : p \in clear_csf}
      \cup {<<"callback", p>> : p \in callback}
      \cup {<<"updates", p>> : p \in updates}
      \cup {<<"draw", p>> : p \in draw}

-----------------------------------------------------------------------------
(* The DAQ thread. *)

\* The settings of the logger, then gpib_running, gpib_paused and gpib_msg, which belong
\* to gpib_mutex; the GPIB thread is created afterwards and joined after the end.
start == Seq3(Within("logger", Writes("settings")), Within("logger", Writes("settings")),
              Writes("message"))
end == Within("gpib", Writes("message"))

\* A channel's expression reads the slots of its instruments, and adds the slot of an
\* instrument which it comes to for the first time.
compute_function_read == Seq2(Reads("slots"), Nothing \cup Writes("board"))
request_pulse_csf == compute_function_read
set_dac_csf == Seq2(Writes("slots"), Writes("dir"))

\* The commands of the terminal which it takes itself.
poll == IfFree("ts", Seq3(Reads("pid"), Writes("command"),
                          set_runlevel \cup scan_csf \cup buffer_csf \cup trigger_csf
                            \cup sweep_direction_csf \cup set_dac_csf \cup request_pulse_csf))

acquire == Seq2(Within("gpib", compute_function_read), IfFree("data", Writes("readings")))
             \cup IfFree("logger", Writes("settings")) \cup set_runlevel

run_recording == Seq2(get_runlevel, Within("buffer", Writes("points")))

\* A line which changed is parsed, which may add slots, set the terminator of a device
\* and send it its introduction.  A line runs instructions through the local server.
trigger_parse == Nothing \cup Writes("board")
emit_signal_csf == Within("ts", Writes("command"))
run_triggers == Within("trigger", Seq3(Seq2(Writes("triggers"), trigger_parse), compute_function_read,
                  set_runlevel \cup scan_csf \cup emit_signal_csf \cup buffer_csf
                    \cup sweep_direction_csf \cup set_dac_csf \cup request_pulse_csf
                    \cup Nothing))

set_scan_progress == Within("buffer", Writes("percent"))
pulse == Seq2(compute_function_read, Writes("slots")) \cup Nothing
run_scope_start == Seq3(Within("sweep", Writes("dir")), set_scan_progress,
                        Seq2(pulse,
                             Within("ts", Writes("command"))
                               \cup Seq2(Reads("pid"), set_scan_callback_mode)))
scan_array_process == Within("buffer", Seq2(compute_function_read, Writes("points")))
run_scope_continue ==
    Seq2(Seq3(get_runlevel, Writes("slots") \cup Nothing, set_scan_progress),
         Seq3(scan_array_process, Seq2(Reads("pid"), set_scan_callback_mode),
              Within("ts", Writes("command"))))

run_sweeps == Seq2(Within("sweep", Within("gpib", Seq3(Reads("limits"), Writes("slots"), Writes("dir")))),
                   Within("ts", Writes("command")) \cup Nothing)

DaqPaths ==
    {<<"start", p>> : p \in start} \cup {<<"end", p>> : p \in end}
      \cup {<<"poll", p>> : p \in poll} \cup {<<"acquire", p>> : p \in acquire}
      \cup {<<"run_recording", p>> : p \in run_recording}
      \cup {<<"run_triggers", p>> : p \in run_triggers}
      \cup {<<"scan", p>> : p \in run_scope_start \cup run_scope_continue}
      \cup {<<"run_sweeps", p>> : p \in run_sweeps}

-----------------------------------------------------------------------------
(* The GPIB thread. *)

\* The reply is sent before gpib_mutex is released.
BugReplyInside ==
    {<<"round", p>> : p \in Within("gpib", Seq3(Writes("message"), Writes("slots"),
                                              Nothing \cup Within("ts", Writes("command"))))}

\* The tick and the query use the board after gpib_mutex was released.
GpibPaths ==
    {<<"round", p>> : p \in Seq3(Within("gpib", Seq2(Writes("message"), Writes("slots"))),
                                 Nothing \cup Writes("board"),
                                 Nothing \cup Seq3(Writes("board"), Reads("command"),
                                                   Within("ts", Writes("command"))))}

-----------------------------------------------------------------------------
(* Running them. *)

Paths == [gui |-> GuiPaths, daq |-> DaqPaths, gpib |-> GpibPaths]

LocksInit ==
    /\ doing = [t \in Threads |-> "none"]
    /\ todo = [t \in Threads |-> <<>>]
    /\ owner = [m \in Mutexes |-> "nobody"]

\* The GPIB thread lives from the start of the DAQ thread to its end.
Lives(t) ==
    t = "gpib" => /\ doing["daq"] \notin {"none", "start"}
                  /\ doing["daq"] = "end" => todo["daq"] # <<>>

\* The DAQ thread of a session starts when that of the last one has joined its GPIB thread.
InOrder(t, n) ==
    t = "daq" => /\ n = "start" <=> doing["daq"] \in {"none", "end"}
                 /\ n = "start" => todo["gpib"] = <<>>

Begin(t) ==
    /\ todo[t] = <<>>
    /\ Lives(t)
    /\ \E p \in Paths[t] : /\ InOrder(t, p[1])
                           /\ doing' = [doing EXCEPT ![t] = p[1]]
                           /\ todo' = [todo EXCEPT ![t] = p[2]]
    /\ UNCHANGED owner

At(t, k) == todo[t] # <<>> /\ Head(todo[t]).do = k
What(t) == Head(todo[t]).what
Advance(t, n) == todo' = [todo EXCEPT ![t] = SubSeq(@, n + 1, Len(@))]

Take(t) ==
    /\ At(t, "lock") \/ At(t, "try")
    /\ owner[What(t)] = "nobody"
    /\ owner' = [owner EXCEPT ![What(t)] = t]
    /\ Advance(t, 1)
    /\ UNCHANGED doing

Skip(t) ==
    /\ At(t, "try")
    /\ owner[What(t)] # "nobody"
    /\ Advance(t, Head(todo[t]).skip + 1)
    /\ UNCHANGED <<doing, owner>>

Release(t) ==
    /\ At(t, "unlock")
    /\ owner' = [owner EXCEPT ![What(t)] = "nobody"]
    /\ Advance(t, 1)
    /\ UNCHANGED doing

Touch(t) ==
    /\ At(t, "read") \/ At(t, "write")
    /\ Advance(t, 1)
    /\ UNCHANGED <<doing, owner>>

LocksNext == \E t \in Threads : Begin(t) \/ Take(t) \/ Skip(t) \/ Release(t) \/ Touch(t)

LocksSpec == LocksInit /\ [][LocksNext]_lockVars

-----------------------------------------------------------------------------
(* Properties. *)

Waits(t, u) == At(t, "lock") /\ owner[What(t)] = u
Stuck(S) == S # {} /\ \A t \in S : \E u \in S : Waits(t, u)
Rings == {S \in SUBSET Threads : Stuck(S) /\ \A R \in SUBSET S : Stuck(R) => R = S}

\* No thread waits for itself, and threads wait for each other in a ring in
\* two cases only, both while the DAQ thread is inside a trigger pass, whose
\* instructions take other mutexes under trigger_mutex: the GUI thread saves
\* the configuration (panel_lock takes the same mutexes in the other order)
\* or serves a set_var of a trigger's line or a save_config while it holds
\* ts_mutex, which emit_signal wants.
DeadlocksAreKnown ==
    \A S \in Rings :
       /\ S = {"gui", "daq"}
       /\ doing["gui"] \in {"save_config", "serve save_config", "serve set_var"}
       /\ doing["daq"] = "run_triggers"

\* Two threads are about to touch the same state, one of them to write it.
Race(t, u) ==
    /\ t # u
    /\ At(t, "write")
    /\ At(u, "read") \/ At(u, "write")
    /\ What(t) = What(u)

\* State which threads share is touched by one of them at a time, but for:
\* the points, which the plot reads without buffer.mutex; a sweep's direction,
\* which set_dac_csf writes without sweep_mutex; the page, which the DAQ
\* thread reads while the GUI thread leaves it; the command being served,
\* whose name the GPIB thread reads without ts_mutex for its reply; the
\* slots of the GPIB boards, which a trigger's expression, set_dac, a pulse and
\* a scan's rows use without gpib_mutex while the GPIB thread transfers them; the
\* message and the pause, which a new DAQ thread resets without gpib_mutex while
\* the GUI thread may set them; and the boards themselves, their devices, their
\* buffer and their list of slots, which the GPIB thread uses for its ticks and
\* queries without gpib_mutex while an expression adds a slot or asks a device.
RacesAreKnown ==
    \A t, u \in Threads : Race(t, u) =>
       \/ What(t) = "points" /\ doing["gui"] \in {"draw", "clear", "serve"}
       \/ What(t) = "dir" /\ "daq" \in {t, u} /\ doing["daq"] \in {"poll", "run_triggers"}
       \/ What(t) = "pid"
       \/ What(t) = "command" /\ "gpib" \in {t, u}
       \/ What(t) = "slots" /\ doing["daq"] \in {"poll", "run_triggers", "scan"}
       \/ What(t) = "message" /\ doing["daq"] = "start"
       \/ What(t) = "board" /\ {t, u} = {"daq", "gpib"}
-----------------------------------------------------------------------------
(* The locking discipline behind both properties: what a thread may do next *)
(* on a path n while it holds the mutexes H.                                *)

\* The mutex which shared state belongs to.
MutexOf(x) ==
    CASE x = "runlevels" -> "rl"
      [] x \in {"sweep blocked", "dir", "limits"} -> "sweep"
      [] x \in {"scope blocked", "timescale"} -> "scope"
      [] x \in {"points", "percent"} -> "buffer"
      [] x = "triggers" -> "trigger"
      [] x \in {"slots", "message"} -> "gpib"
      [] x = "readings" -> "data"
      [] x = "settings" -> "logger"
      [] x = "command" -> "ts"
      [] OTHER -> "none"

\* State which a path touches without that mutex.
Bare(t, n, x) ==
    \/ x = "pid"
    \/ t = "gui" /\ x = "points" /\ n \in {"draw", "clear", "serve"}
    \/ t = "daq" /\ x = "dir" /\ n \in {"poll", "run_triggers"}
    \/ t = "daq" /\ x = "slots" /\ n \in {"poll", "run_triggers", "scan"}
    \/ t = "daq" /\ x = "board"
    \/ t = "daq" /\ x = "message" /\ n = "start"
    \/ t = "gpib" /\ x \in {"command", "board"}

\* The paths of the GUI thread which want trigger_mutex while they hold another.
TriggerLast == {"save_config", "serve save_config", "serve set_var"}

\* The order of the mutexes: a thread which holds h may wait for m.
MayWait(t, n, h, m) ==
    \/ t = "gui" /\ h = "ts" /\ m # "ts" /\ (m = "trigger" => n \in TriggerLast)
    \/ t = "gui" /\ h = "confirming" /\ m = "buffer"
    \/ /\ t = "gui" /\ n \in TriggerLast
       /\ h \in {"logger", "scope", "sweep"} /\ m \in {"scope", "sweep", "trigger"}
    \/ t = "daq" /\ h = "ts"
    \/ t = "daq" /\ h = "sweep" /\ m = "gpib"
    \/ t = "daq" /\ h = "trigger" /\ n = "run_triggers"

Legal(t, n, H, s) ==
    /\ s.do \in {"lock", "try"} => s.what \in Mutexes \ H
    /\ s.do = "lock" => \A h \in H : MayWait(t, n, h, s.what)
    /\ s.do = "unlock" => s.what \in H
    /\ s.do \in {"read", "write"} => MutexOf(s.what) \in H \/ Bare(t, n, s.what)

Held(t) == {m \in Mutexes : owner[m] = t}

\* Every step which a thread comes to is legal, and a thread with nothing left to
\* do holds nothing.
Disciplined ==
    \A t \in Threads :
       IF todo[t] = <<>> THEN Held(t) = {}
       ELSE Legal(t, doing[t], Held(t), Head(todo[t]))
==============================================================================
