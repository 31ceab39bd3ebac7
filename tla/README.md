# Mezurit2 in TLA+

Mezurit2 is a GTK program for slow laboratory measurements. A panel owns channels (expressions over
DAQ and GPIB inputs), sweeps (channels moved with time), a logger, a scope, triggers and a buffer of
points. A DAQ thread and a GUI thread work on all of them at once, and Python terminals command both.

This directory holds TLA+ models of the parts where those threads meet, TLC runs over small
instances, and TLAPS proofs for any instance. Paths below are relative to `src/src/`.

    tlc -workers 2 -config Runlevel_session.cfg MCRunlevel.tla     # a run
    tlapm Panel_proofs.tla                                         # the proofs of a module

`PROJECT.json` lists the runs, the mutants (a plausible bug for every property, which the run must
notice), the source lines behind every definition, the hazards and the theorems.

## 1. Inventory

### Threads

| thread | code | what it does |
|---|---|---|
| GUI / main | `main.c` loop, `thread/gui.c` `run_gui_thread` | GTK callbacks; on the Setup page the main loop polls the terminal itself, in a panel `run_gui_thread` runs commands which the DAQ thread passed on, updates buttons, and joins the DAQ thread at the end |
| DAQ | `thread/acquire.c` `run_daq_thread` | one pass: poll commands, acquire, record, triggers, scope, sweeps |
| GPIB | `acquire.c` `run_gpib_thread` | periodic reads of instruments; `gpib_send_recv` for clients |
| terminals | `control/client.py`, `client.c` | one request at a time, each on a connection of its own |

The page callbacks change `tv->pid`; that ends one `run_gui_thread` session (`stop_threads`) and
starts the next. A session is: threads created, runlevels assigned, loop, STOP, join.

### Components

| component | state | operations | hard part | what makes it correct | module |
|---|---|---|---|---|---|
| panel session | `pid`, logger and scope runlevels, `scanning` flags, the DAQ board's prepared / running state | change page, start and stop session, record, scan, clear, edit timescale, callbacks blocked and unblocked | runlevels are moved by five functions in two threads, each in several critical sections | logger waits exactly for a scan; a running scan has callbacks blocked and a live buffer; scans and sessions end; the board is idle outside a session | Runlevel |
| control server | `argv` and `temp_socket`, the backlog, `terminal_dirty`, `catch_*`, `gpib_msg` | accept, execute, pass on, defer, reply, abort, kill and respawn a terminal | a command is taken by one thread, executed by a second and answered by a third | a reply goes to the command which caused it; every prompt command is answered, and in its turn, across page changes | Control implements Replies |
| sweeps | `dir`, `holding`, `request_*`, `follower`, `dir_dirty`, `jump_dirty`, the buttons | buttons, commands, ends of a sweep, links, `set_dac`, stop all, jumps | requests run recursively along links; several ends in one pass; `set_dac_csf` has no mutex | linked sweeps stay in step; no request survives its critical section; recursion ends; buttons follow | Sweep |
| triggers | lines, `line_dirty`, `armed`, `busy`, `ready`, current line, wait; the local control server | parse, check, execute, arm, disarm, force, cancel, edit, buttons | instructions of a running trigger change triggers, itself included | lines run in order and only while busy; a pass ends; buttons follow; an IF has no instructions | Trigger |
| data buffer | sets with columns, points and `data_saved`; `locked`; `do_time_reset`; the averaging buffer | record, append a scan, new set, T=0, save, clear, update for other channels | clearing asks the user with the mutex released; a save writes set by set | points fit their set; what is called saved is saved; nothing is discarded unasked; no old times after T=0 | Buffer |
| averaging and recording | the averaging buffer, `do_time_reset` | record, average, T=0 | T=0 comes between a time and its point | no old times after T=0 | Buffer |
| scan boards | of each board: connected, real, the channels it reads, the prepared scan, `scan_buffer` and the place in it; `Scope.scan`, `master_id`, the counters, the pulse | connect, read, write, prepare, start, read, stop, process, re-prepare | reads of any size, late samples, a start that fails at one of several boards, re-preparing before the next board's rows, intervals rounded down | samples in their places, rows of the right inputs, readings of this cycle, outputs restored, no ring running over | Daq (with Runlevel) |
| GPIB slots | of each slot a local and a global copy (value, known, write request), the pile, one text buffer per board | add, read, write, transfer, tick, query, connect, reset, pause | the copies are exchanged under a mutex which some writes do not take; all queries share the buffer | a reading is not older than the last write and is its own instrument's; a write arrives | Gpib |
| plot | the axes, `active_set`, `draw_set`, `draw_total`, the picture | draw a slice, build, clear, change axes, new session | it reads the points without the mutex under which they are appended | the picture is a prefix of the buffer and comes to be all of it; slices join | Plot implements Picture |
| axis limits | two limits, the bounds of their entries, the history | type, zoom, load, set from a terminal | limits arrive one after the other; the history is cut and full | limits in order, a zoom can be undone | Axis |
| configuration | the registered variables, the files, `block_update`, `dirty`, `mcf_activity` | load, save, defaults, `set_var`, start, exit | a file cut by a full disk or a kill; boards blocked while a file is read, and by early returns for longer | boards follow their settings, never under a panel; saved settings come back | Config |
| mutexes | who holds and who wants which | the paths through them | callbacks and instructions nest them in many orders | rings of waiting threads and unguarded accesses are known | Locks |
| sweep motion | value, step, end points, zero stop, blackout | `run_sweep_step` | order of tests, rounding | an end point is reached exactly | not modelled (open choice in Sweep) |
| status line | a pile of messages | add, show | filled by every thread | no message is shown twice | not modelled |
| client scripts | `autosweep`, `return_to_zero` | wait for events | `catch_sweep` may come after the event | the script ends | not modelled |
| channels, expressions | ChanSet, Python functions | build at the start of a session | index tables | tables are inverse to each other | not modelled |
| widgets, logger labels, utilities | GTK state | drawing, layout | none that a model would reach | | not modelled |

### Interaction

* All of them share `ThreadVars`. Locks: `rl_mutex` (runlevels), `ts_mutex` (server), `gpib_mutex`,
  `logger_mutex`, `scope_mutex`, `sweep_mutex`, `trigger_mutex` of a panel, `Buffer.mutex`.
* GUI to DAQ: runlevels, requests in sweeps and triggers, `do_time_reset`, `jump_dirty`.
* DAQ to GUI: `terminal_dirty` with `argv`, `dir_dirty`, `arm_dirty`, `busy_dirty`, GDK idle callbacks.
* DAQ to GPIB: `gpib_msg`. Triggers to everything: the local control server, which runs the same
  command callbacks inside `run_triggers` with `trigger_mutex` held.

## 2. Models and the code

One critical section of the code is one action, named for the thread and what it does (`GuiClear`,
`DaqStart`). Where a function locks twice, its position is a value of a program counter (`guiPc`,
`daqPc`, `phase`, `pass`, `gui`), so that the other threads run in between. Operators named `Bug...`
are the mutants: a plausible bug in the definition which follows them; nothing else uses them.
A *history* variable is one the code does not have and no action reads except to keep it up to date.

**Runlevel** (session, scan life cycle). `GuiSetPage` is the page callbacks. The start of a session is two steps of
`run_gui_thread`, with the events dispatched in between (`gui.c:92`): `GuiEnterPanel` (up to there; the board is prepared) and
`GuiStartSession` (runlevels assigned, DAQ thread created). A page callback among those events is `GuiStopInStart`: it stops runlevels which are
assigned afterwards all the same, and the session goes on without its page (`stray`). `GuiStopSweeps`, `GuiStopRl` and
`GuiStopPid` are the three critical sections of `stop_threads`. `SetRecording` and `SetScanning` translate
the tables of `set_recording` and `set_scanning`, including their refusals. The DAQ thread is a
counter through one pass of `run_daq_thread`, with `set_scan_callback_mode` (two mutexes, called from two
places) as a small subroutine whose return place is `daqNext`. One board stands for all.

**Control** (M2_TS_ID server). `argv` is the number of the request in progress. `DaqExecute` and
`DaqForward` are the callback table of the DAQ thread, `GuiExecute`, `GuiDefer`, ... of the GUI thread;
`Reply` is `control_server_reply`, which in the code does not test whether there is a command. What a
command does elsewhere is left out, apart from who replies and when. `MainCrash` is the path in which two
page changes reach `stop_threads` without a panel; the model stops there. The events at `gui.c:92` are not a step of their own here, so a page
change there is not modelled: a simplification which no property of Control is about. `Replies` is what a client may rely on: its requests are
answered in the order in which they were sent, each once, and every one while the server runs. The refinement maps the replies to
those of the first requests; which thread gives them, and what happened to the session meanwhile, is Control's.

**Sweep**. A call of `request_sweep_dir` or `exec_sweep_dir` for one sweep is one action, since they
recurse along `follower`; two threads may be in them at once only through `set_dac_csf`, which does not take `sweep_mutex`. The
commands which change links (`GuiLinkClear`, `GuiLinkSetup`) are the GUI thread's, under `sweep_mutex`, and so may come in the middle of it. The DAQ
thread's pass is `pass_request` over all sweeps, then `pass_exec`. What a channel's value is, and hence
which end was reached, is an open choice.

**Trigger**. `run_triggers` is three loops (parse, check, execute), with one turn of the
loop inside `trigger_exec` an action. An expression is its effect: a test, a wait, a trigger instruction, another
instruction, or an unknown one, which blocks the local server for good (`stuck`).

**Buffer**. Points are counted. `written` remembers how many points of a set are in the file, which is
what `data_saved` claims: a save may fail to open the file for any set, and a write may fall short without a
notice (`Written`). `sample` says whether the last reading has an old time; after a failed acquisition (`DaqFail`) it stays what it was while
`run_recording` goes on. `clear_buffer` is three actions, because it releases `Buffer.mutex` twice.

**Gpib** (slots of a board). A value is the number of the write it comes from, so that "old" can be said of a
reading; `last` and `sent` are the newest write of the program and of the instrument. `gpib_multi_transfer` and
`gpib_multi_tick` are one action per slot, the transfer of a reading three (`GpibTransfer`, `GpibCopyKnown`,
`GpibCopyCurrent`), since `DaqWrite` (`set_dac_csf`, the pulses of a scan) holds no mutex and may come in
between; `DaqSweep` (`run_sweep_step`) holds it. `buf` says whose text is in the one buffer of the board: `DaqParse`
puts an introduction there from the DAQ thread, and a device which failed to connect leaves it alone. Time is an
open choice: at a tick any slot may be due. What terminals do with `gpib_send_recv` is in Control; here it is a text in the buffer.

**Daq** (boards and scans). Sample number k of a scan is the number k, so that a sample in the wrong place shows. `Connect` is `daq_board_connect` on
the setup page; `EnterPanel` and `ChangeTimescale` prepare every board (`verify_timescale`); `Cycle`, `Read` and `EndOfRead` are `run_acquisition`,
with the list of channels which `daq_AI_read` regenerates when an input is read for the first time. `StartScan`, `StartFails`, `ScanCycle`, `StopScan`
and `Process` are `run_scope_start`, `run_scope_continue` and what `scope.c` does for all boards in turn. `Place` and `Stored` are the two calls of
`read()`; `Rows` is what `scan_array_process` appends. Each device may refuse, be slow, or give its last samples late; a cycle of the DAQ thread takes
at most `Jitter`, two, loop intervals, which is an assumption on the scheduler (the code does not look); a tick that fails leaves acquisition off for
the session; `read()` does not return -1. `Write` is `compute_function_write`, which goes on to followers (`Trail`), and may stop at any of them;
sweeps write outputs between scans, `set_dac` at any time (`WriteOutput`). `outs` are the outputs which channels write.

**Plot** and **Picture**. `Picture` is the promise: a prefix of the buffer's points, each once, growing to all of them while the plot is on. `Plot`
has the counters of `plot_tick` and `plot_data`, the two steps of `append_value` (count, write), reallocation, and the callbacks that end in
`plot_build`. The refinement maps the buffer to the points which are written, the picture to the points drawn. `NewSession` changes buffer and columns
and builds nothing: a `plot_build` comes only when the toolkit gives the plot a size (a `Change`), and until then the picture is `stale`; with
counters which point past the sets, `plot_data` gets lost (`LoseSet`). A point is the place where it falls, so that `Pen` can follow `draw_axis_lines`
over the slices. Its specification is named `PlotSpec`, so that one module can extend Runlevel and Plot: `Panel_proofs` is about both.

**Axis** has the limits of an axis and their history as functions of a record. **Config** uses them, next to one board of the setup page: a file is a
sequence of lines, `mcf_read_file` and `mcf_write_file` are functions between lines and settings, and numbers are in units of the seventh decimal, of
which `%f` writes six (`Printed`). `MenuLoad`, `MenuSave`, `ClientLoad`, `ClientSave`, `SetHardware`, `SetLimit` and the edits are the callbacks.
`hardware_array_unblock` ends most of them; `StaysBlocked` is what the early returns of `config_csf` leave. `Kill` and a full disk leave any number of
whole lines and perhaps the beginning of the next one, whose value is then read as another (`Rest`, `Shorter`); `saved` remembers what was written
whole. `Allocate` is the size which the toolkit gives the plot, at some time or never; `plot_build` then puts limits which came from the setup page
into the history.

**Locks**. Each thread follows any of its paths through the code, written down as a sequence of mutexes taken and released and of shared data
touched; names of paths are the names of functions. It composes all the other components as far as mutexes go. The DAQ thread begins each session with
`start` and ends it with `end`, between which the GPIB thread lives (`Lives`, `InOrder`); the GUI thread runs all the time. `board` stands for
the devices, buffers and piles of the GPIB boards, which no mutex guards.

How they fit together: Runlevel says when scans and sessions happen, and Daq, Trigger, Sweep, Buffer and Gpib have
a `NewSession` or panel step that stands for it; Control decides when a command runs, and the other modules have the command as an
action of the thread that runs it; Locks checks that the critical sections which the others take as atomic can be entered.

### Properties with an exception

Several properties end with "unless X happened", where X is mostly a history variable. The code does not guarantee the property without the
exception, so the exception is itself something to know about the code, and the property does *not* cover that hazard (section 4).

| exception | cause | properties |
|---|---|---|
| `stray` | a session goes on without its page: a stop lost while it started, or to a failing acquisition | `CallbacksBlockedDuringScan`, `ScanBufferLive`; `StopCompletes` and `StopLeftByFailureOnly` (failing acquisition only) |
| `crossed` | the timescale of another page was verified under a running scan | `ScanBufferLive` |
| `LateAborted`, `aborted` | an abort of a command which another thread holds | `RightReply`, `DirtyHasCommand` |
| `catch_scan_*` | a scan event before the command is executed | `DirtyHasCommand` |
| `raced` (Sweep) | `set_dac_csf` overlapped a click or a change of links | `LinkedInStep`, `NothingLeftPending` |
| `late` | a turn while `dir_dirty` is about to be cleared | `ButtonsShowDir` |
| `deadClick` | a THEN button pressed on a trigger which is not ready | `ButtonsFollow` |
| `selfCancel` | a trigger which cancels itself | `PassInOrder`, `PassEnds` |
| `doubt` | a scan appended to a set saved empty; a file truncated and not opened again; a write that fell short | `SavedIsWritten`, `NothingLostUnasked` |
| `arrived` | points which arrive while a clear is between test and exchange | `NothingLostUnasked` |
| `daqFailed` | an acquisition failed: its last sample is recorded on | `NoOldTimes` |
| `raced`, `mixed` (Gpib), a failed device | a write or an introduction which met the GPIB thread, a device that was not connected | `NoOldReading`, `OwnReading` |
| `startFailed` | a scan that failed to start | `NoOverrun`, `SamplesInPlace` |
| fault "zero" | a loop interval which makes an interval of cycles 0 | `NoOverrun` |
| `missed` | a device refused as a channel was added | `NoStaleReading` |
| `excused` | a pulse whose value was unknown, which was not written, or which was changed during the scan | `PulseUndone` |
| `stale` | a session began with another buffer and the plot was not built since | `ReadsInside`, `LinesJoined`, `ShowsTheBuffer` |
| `torn`, `CameBack` | data reallocated under the plot; points which leave the axes and come back | `LinesJoined` |
| blocked boards | an early return of `config_csf` | `BoardsFollow`, `ConnectsInSetup` |
| lower above upper | a saved lower limit above the upper one of now; entries that do not know the other limit | `SavedIsLoaded`, `LimitsOrdered` |
| `activity` | limits set on the setup page and the plot not built since | `ZoomsReturn` |

That a property with its exception holds means that in the model nothing else breaks it.

## 3. Runs

| run | instance | shows |
|---|---|---|
| runlevel_session | 1 panel, page changes to and from the Setup page, acquisitions and starts of scans that fail, under fairness | `ScanEnds`, `StopCompletes` |
| runlevel_failures | 2 panels (symmetric), page changes at any time, acquisitions fail, timescales of both panels are edited | `TypeOK`, `RunlevelsCoupled`, `BoardIdleOutsideSession`, `CallbacksBlockedDuringScan`, `ScanBufferLive`, `StopLeftByFailureOnly` |
| control_safety | 2 requests of any of 12 commands, 1 killed terminal, aborts, every page | `RightReply`, `DirtyHasCommand` |
| control_liveness | 3 requests, prompt commands, 1 killed terminal, aborts, switches between panels | `RepliesInTurn`: Control implements Replies, its fairness included |
| sweep_links | 2 sweeps, 3 operations, links changed by the GUI thread at any time | `LinkedInStep`, `NothingLeftPending`, `ButtonsShowDir`, `CallsEnd` |
| trigger_passes | 2 triggers of 2 lines, 2 operations, programs that wait, force, cancel and arm | `PassInOrder`, `ButtonsFollow`, `PassEnds` |
| buffer_saves | 2 layouts, 3 sets, 3 points, averaging over 2 samples, 4 operations, saves that fail for any of the sets | `SetsInOrder`, `SavedIsWritten`, `NothingLostUnasked`, `NoOldTimes` |
| gpib_slots | 2 slots, 2 writes a session | `NoOldReading`, `OwnReading`, `WriteArrives` |
| daq_scans | a board with a device and 2 inputs, a virtual board with 1; scans of 5 points, a ring of 8 samples, loop intervals 1 and 2; 2 outputs, one of which may follow the other, written with scans of one input | `NoOverrun`, `SamplesInPlace`, `RowsAreSamples`, `NoStaleReading`, `PulseUndone` |
| plot_slices | 4 points in 2 sets at 3 places, one outside the axes; slices of 3, chunks of 2 | `ReadsInside`, `LinesJoined`, and `ShowsTheBuffer`: Plot implements Picture, its fairness included |
| locks_paths | the GUI, DAQ and GPIB threads, each path of the module | `DeadlocksAreKnown`, `RacesAreKnown` |
| config_files | 2 device files, limits among -1, 0, 7 units of the seventh decimal and 10, a history of 2, 4 operations | `BoardsFollow`, `ConnectsInSetup`, `SavedIsLoaded`, `ZoomsReturn`, `LimitsOrdered` |

The runs reach 67,901 (runlevel_session), 3.1 million (runlevel_failures), 714 thousand (sweep_links), 328 thousand (buffer_saves), 523 thousand
(daq_scans), 486 thousand (plot_slices), 1.26 million (locks_paths) and 1.07 million (config_files) distinct states.

Why the bounds are enough. *Panels*: a safety property involves the panel showing and one hidden panel; panels are interchangeable. Whether scans and
sessions end depends on the panel of the session only, so one panel and the Setup page are enough there. *Requests*: a late reply can be confused with
the command which follows; with two requests there is one that follows, and three add a backlog behind a killed terminal. *Sweeps*: a link joins two,
and a ring of two is the smallest cycle; each behaviour has three operations, so that a click, a `set_dac` and a change of session can all overlap.
*Triggers*: one which acts on another and on itself; with two lines a wait can come before and after a line. *Buffer*: a set before, at and after a
change of layout, and four operations allow save, change, clear and another save. *Slots*: two instruments are needed for a text to be the wrong
one's, and two writes for a later one to overtake an earlier. *Boards*: two inputs interleave in one buffer, two boards share the rows; five points of
two inputs do not divide into the ring or the reads, so reads end within a point; at the longer interval an interval of cycles is 0, which `NoOverrun`
leaves out. A follower of a follower would need a third output: the proof of `PulseUndone` has any number. *Plot*: a slice ends inside a set and runs
over into the next one, data are reallocated with a chunk full and with a set added, and three points of a set leave the axes and come back. *Config*:
to go wrong it takes a change, a save, another change and a load or an edit; 7 units are rounded away by a save. `MaxOps`, `MaxRequests`, `MaxKills`,
`MaxPts`, `MaxSets` and `MaxWrites` bound the environment only: no step of a thread that has begun is refused because of them, apart from those which
append to a full buffer.

Symmetry is used only in runs without liveness. Deadlock is checked except where the environment may stop: the bound on operations
(config_files), a full buffer with everything drawn (plot_slices), a fault the program does not survive (daq_scans), and the
known rings of waiting threads (locks_paths). The end of the process in Runlevel is an explicit stuttering action.

### Fairness

* `Runlevel`: the DAQ thread and the GUI thread's straight-line sequences keep running (`WF`): they are
  threads with no wait other than mutexes which are released. `SF` for `DaqScanStop`, because a scan has an
  end although each look at the board may come before it, and for `GuiLeave`, because the
  loop of `run_gui_thread` tests its condition again after every event, whatever callbacks the user fires. Users need do nothing.
* `Control`: each thread's loop is weakly fair; `DaqPoll` is strongly fair, because the poll timer
  expires again and again, and the trylock on `ts_mutex` cannot fail for ever while the GUI thread releases
  it in each loop. Commands which wait for an event (catch_*, gpib_send_recv) are not
  claimed to be answered: the event may never come. `Replies` asks for `WF` of its `Answer` while the server is up; the run
  keeps to prompt commands and to switches between panels.
* `Sweep`: calls end and the DAQ thread decides. `Trigger`: the DAQ thread makes steps inside a pass.
* `Gpib`: the GPIB thread goes on (`WF`); whoever else takes `gpib_mutex` releases it in the same action. `WriteArrives` claims
  nothing once the user has paused the thread or the session is told to end.
* `Plot`: the DAQ thread leaves `append_point`, and a slice once begun is drawn (`WF`); `RequestDraw` is strongly fair, because
  `buffer->mutex` is free between two points and a thread waiting for it is served in the end. `Picture` asks for `WF` of its `Draw`.
* `Buffer`, `Daq`, `Locks`, `Config`, and every safety run, assume no fairness.

## 4. Seen while modelling

These are in the models, as behaviours or as the exceptions of the properties above. Where one is an exception, the property without it is
false of the code.

*Sessions and terminals*

* `scan_cb` requests the scan before it blocks the callbacks (`gui_callback.c:176`), so that a sweep may start during a scan, against
  `sweep_callback.c:107`;
* the scope answers `catch_scan_*` as soon as it is in `argv` (`acquire_sub.c:162`), perhaps before the GUI thread executes it, which then reads
  `argv[0]` of no command;
* a failing acquisition writes HOLD over both runlevels, whatever they are (`acquire.c:295`); if `stop_threads` has just set STOP, the stop is lost
  (`stray = "failure"`);
* a page change or an exit among the events which `run_gui_thread` dispatches at `gui.c:92` stops runlevels and sets `pid`; the runlevels are then
  assigned all the same (`gui.c:115`), and the session runs on without its page (`stray = "start"`). With `pid` negative `set_scan_callback_mode`
  returns at once (`acquire.c:440`), so that scans run with callbacks that work;
* an edit of a hidden panel's timescale re-prepares the one board under a running scan (`crossed`);
* an abort replies for a command which another thread still holds.

*Sweeps, triggers and the buffer*

* a turn of a sweep between the update of its button and the clearing of `dir_dirty` is never shown;
* an IF line with trigger instructions runs after all if a later line of the trigger sets `ready` again (`trigger.c:267`);
* `set_trigger_buttons_all` does not clear `arm_dirty` and `busy_dirty` (`trigger.c:211`), so a trigger once marked has its buttons set on every turn;
* a change of session sends a busy trigger back to its first line;
* a trigger which cancels and then forces itself loops for ever in `trigger_exec`, holding
  `trigger_mutex` (seen with three lines; why `PassEnds` has its exception);
* a scan does not reset `data_saved` (`scope.c:268`): appended to a set which was saved empty, it is discarded as saved;
* `write_vset_custom` looks at no error of `fprintf` or `fclose` (`varset.c:334`): with a full disk a set is called saved which is not in the file;
* after a failed acquisition `run_recording` still runs, with the sample of before (`acquire.c:303`): recording switched on again after a clear records
  points with times from before T=0;
* links changed by `link_clear` or `link_setup` while `set_dac_csf` is between request and execution leave a follower's request pending
  (`sweep_callback.c:266`);
* `write_svset_custom` adds up -1 for every set it could not write, so a partial failure may look like
  a success (`setvarset.c:105`); the numbers are not modelled;
* `buffer_update` uses a VarSet it has freed when it compares columns (`buffer.c:85-90`).

*Boards and instruments*

* when a scan fails to start, `scan_array_stop` also stops the boards which were not started; a virtual one then counts samples into a buffer
  it does not have, and boards stay prepared with `scan_offset` past 0, so that the next scan records memory nobody wrote (`NoOverrun` and `SamplesInPlace`
  have the exception `startFailed`); the pulse is not undone either;
* the rows of a second board show 0 for the channels of the first, which was prepared again before them (`scope.c:271`);
* preparing again may lose a point by rounding, scan after scan (`scope.c:271`);
* `request_pulse` or its cancellation during a scan makes the end restore the wrong output, and after a reconnection `pulse_original` is 0 V
  although the value is unknown;
* `daq_AI_read` ignores a failure of the tick it makes for a new channel; a reconnection does not reset `scan_saved` and `scan_pci`;
* the slowest `max_rate` (`logger.c:44`) gives a loop interval of 0.1 s, at which `prog_mult` is 0 and a counter is divided by it; at other rates
  `read_mult` may be 0 (`acquire_sub.c:215`). The run has such an interval and reaches the fault, of which `NoOverrun` says nothing;
* `set_follower` takes a ring of followers, along which `compute_function_write` calls itself until a write fails (`compute.c:259`); and a
  follower is written by a pulse and by its undoing, so that it does not come back to what it was;
* `set_dac` writes outputs during a scan, the pulsed one too (`sweep_callback.c:261`); the end of the scan then writes over it;
* `set_dac_csf` and the pulses of a scan write a slot without `gpib_mutex`, although `gpib.h:47` says that reads, writes and transfers
  are called one at a time: an old reading may take the place of the value to be written and be sent in its stead (`raced`);
* `gpib_multi_tick` parses the buffer although `gpib_string_query` may have failed (`gpib_slot_io.c:140`), and so gives one
  instrument's value to another (`OwnReading` has the exception);
* a write sets `known_global` only: until the first reply of the instrument, the value is unknown again after it was sent.

*Plot*

* `plot_data` reads the sets without `buffer->mutex`; `realloc` may move them meanwhile, although `plot.h:60` says that no locking is required (`torn`);
* when the points leave the axes and come back at the place where they left, the first segment after it is missing (`CameBack`);
* neither `plot_update_channels` nor `run_gui_thread` builds the plot when a session begins: it comes with a size which the toolkit may not allocate anew.
  Until then `active_set`, `draw_set` and `draw_total` are those of the buffer before, and `plot_data` may use a set which is not there (`LoseSet`).

*Mutexes*

* `DeadlocksAreKnown` names two rings: the GUI thread locks the mutexes of a panel (to save a configuration or to set a variable) under
  `ts_mutex` while a trigger's `emit_signal` wants `ts_mutex` under `trigger_mutex` (`acquire_callback.c:60`); and `panel_lock` takes the mutexes
  in another order than `run_triggers` and its instructions;
* `RacesAreKnown` names the accesses without the mutex that guards them elsewhere: the plot's reading of points, the direction which `set_dac_csf` writes,
  `tv->pid`, the command name which the GPIB thread reads for its reply, the slots; the GPIB message and pause, which a new DAQ thread resets without
  `gpib_mutex` (`acquire.c:245`) while the GUI thread may set them; and the boards, which the GPIB thread uses after it released the mutex
  (`acquire.c:152`, `160`) while an expression of the DAQ thread adds a slot or asks a device;
* `clear_csf` keeps `ts_mutex` locked while its dialog asks the user.

*Configuration*

* limits are loaded one after the other (`plot_callback.c:134`): with a saved lower limit above the upper one of now, such as (5, 10) over (-1, 1), the
  first line makes `rectify_range` exchange them, and the file comes out as (1, 10): a restart does not restore it;
* `plot_minmax_mcf` writes past the bounds of the entries, which then refuse good numbers or let limits pass in the wrong order;
* the early returns of `config_csf` leave boards blocked: later edits are not applied, and a save from the menu under a panel then connects
  a board while the DAQ thread runs;
* the reply of `load_config internal_default` has a `%s` without an argument (`config_callback.c:95`);
* `set_var` of a board's variable answers `ok|1` under a panel, where nothing changes;
* `mcf_write_file` writes six decimals (`%f`, `mcf2.c:309`) of limits which entries take with seven (`axis.c:41`);
* `mcf_write_file` looks at no error and truncates in place; where it broke off in the middle of a line, a shortened number or name is loaded as
  a value like any other; a file cut to nothing is not replaced by the system's defaults at the next start.

## 5. Proofs

TLAPS proves the following for every value of the constants, from the `ASSUME` of each module, which gives the constants their
types (every run evaluates it), and from what a theorem names as its hypotheses.

* `Panel_proofs`, the session: `TypeCorrect`; `Lifecycle` (`RunlevelsCoupled`), `BoardIdle` (`BoardIdleOutsideSession`) and `StopIsLeftByFailure`
  (`StopLeftByFailureOnly`); `CallbacksBlocked` and `BufferLive`; all of them whatever fails, whenever the page changes and whichever panel is edited,
  up to the exceptions of the properties. `LifecycleInv` adds to the properties where the two threads can be relative to each other (`Positions`) and
  that a running board implies a DAQ thread which knows it (`BoardFollowsThread`): without `Positions`, a thread that is off could resume a scan.
  `BlockingInv` adds `BlockHeld`: as soon as a scan is *requested*, and not only when it runs, its callbacks are blocked or the GUI thread is on its
  way to block them; and `PageGone`: a session whose page is gone is stopping, so its block cannot be cut short. Both hold until `stray` happens,
  which is just what breaks them. `StopLeadsOut`: from STOP on, the DAQ thread has at most 22 steps left, and no command or callback gives it more
  (`StopShortens`).
* `Panel_proofs`, the plot, for any places, windows, sizes of a slice and of a chunk: `PlotTypeCorrect`, `DrawsInside` (`ReadsInside`), `LinesMeet`
  (`LinesJoined`), and `DrawsThePicture`: every behaviour of Plot is one of Picture, but for the fairness. `DrawInv` says what the counters mean: with
  `Upto` the points of the first sets in a row, `draw_total` is their number up to `active_set` plus `draw_set`, a tick asks for no more than is
  written, and `dots` is that beginning of the buffer, up to `begin` while a slice is read. Since the DAQ thread only adds behind what is written
  (`Grown`), each of its steps keeps it. All this is said of a picture which is not stale. `PenIs` says of `draw_axis_lines` on any part of a set
  which lines it draws and which it leaves out (`Back`); `LineInv` is that for all that is drawn, and it holds because the pen of a slice starts one
  point before it.
* `Control_proofs`: `RepliesFit` (`RightReply`) and `DirtySafe` (`DirtyHasCommand`). `ReplyInv` says that whoever will reply later owns the command in
  progress: a message at the GPIB thread means that `argv` is `gpib_send_recv`, and so on, and that such a command is no longer `terminal_dirty`. An
  abort of a deferred command ends the argument, hence the disjunction `ControlInv`. `RepliesInOrder`: every behaviour of Control is one of Replies,
  but for the fairness; aborts are no exception here. `TurnInv` says that the command in progress is the oldest request without a reply and that the
  backlog holds the rest in the order in which they were sent, so that each step which replies, whichever thread takes it, maps to `Answer`, and all
  others to `Ask`, `Stop` or nothing.
* `Control_proofs`, the mutexes: `LockOrder` (`Disciplined`), `RingsAreKnown` (`DeadlocksAreKnown`), `SharedStateGuarded` (`RacesAreKnown`). What
  makes these hold is a discipline of each path alone, `Legal`: which mutex a thread may want while it holds which (`MayWait`), and that it touches
  shared data only under their mutex (`MutexOf`) or at a place known for it (`Bare`); `start`, before the GPIB thread lives, is such a place. `Runs`
  says of a piece of a path that it is legal from some mutexes held to others; it is composed as the paths are (`Seq2`, `Within`, `IfFree`), and the
  invariant is that what each thread has left runs from what it holds to nothing. A new path needs a proof of its own shape and none about the other
  threads. Two threads which wait for each other, or touch the same data, must then be in the places which `MayWait` and `Bare` name.
* `Trigger_proofs`: `LinesInOrder` (`PassInOrder`) for any number of triggers and lines and any expressions. `OrderInv` is the two properties with the
  types they need. The step that matters is a line (`LineStep`): a busy trigger cannot be started again by a command, so only a cancel among its own
  lines can move it. `ButtonsWillFollow` (`ButtonsFollow`) rests on `Marked`: every way in which an action changes a trigger, whatever its lines do to
  each other, leaves what it changed of the state marked for `set_trigger_buttons_all`. `PassesShrink` (`PassShrinks`): `PassLeft` falls with every
  step of a pass. It allows each trigger still to come all of its lines, so that nothing an instruction does to those adds to it, and the triggers
  which the pass has behind it do not come again; only by cancelling itself can the current one go back.
* `Sweep_proofs`, for any number of sweeps and any links: `TypeInvariant`, `NothingLeft` (`NothingLeftPending`), `LeadersInStep` (`LinkedInStep`),
  `ButtonsInStep` (`ButtonsShowDir`). `Alone` is the mutex: but for `set_dac_csf` one thread works at a time. `PendingInv` follows a request: only
  sweeps in use have one, and those which `pass_exec` has come past have none. `LinkInv` says of two linked sweeps that they are settled, or that a
  thread is just between them, having requested or executed one and bound by `follower` for the other. `ShowInv` says that a sweep whose button is out
  of date is dirty or about to be turned, even while the GUI thread forgets what is dirty. `CallsLeaveLess` (`CallsShrink`): requests stop because
  every call but the last of a chain makes one more sweep pending, executions because each makes one less so. `CallsLeft` counts both, whatever rings
  the links form, and what the other thread does meanwhile does not raise it.
* `Buffer_proofs`: `BufferInOrder` (`SetsInOrder`), `TimesAreNew` (`NoOldTimes`), `SavedKept` (`SavedIsWritten`) and `NothingLost`
  (`NothingLostUnasked`) for any number of points, sets and columns. `BufferInv` adds that the file never has more points of a set than the set, that
  all sets have the same columns even while the buffer is locked (so that unlocking it needs a look at the first set only, as in `buffer_update`), and
  that old samples are there only while a reset is due. It is locked only at HOLD, and at HOLD without that only after a failed acquisition. One lemma
  for each operation on the list of sets (`WithNewSetFacts`, `RecordedFacts`, ...) says that it keeps `Sound` and `Columns`.
* `Gpib_proofs`: `ReadingsFollowWrites` (`NoOldReading`) and `ReadingsAreOwn` (`OwnReading`) for any number of slots and writes. `SlotInv` follows the
  last write on its way: while a request is pending the copy beside it is the last write; with none pending both copies and the instrument have it
  (`LastWrite`), and so has the buffer between formatting and sending (`InBuffer`). Without `sent` in it, a reading taken before the write and
  transferred after it could not be excluded. `RoundsEnd` (`RoundShrinks`): at each step of the GPIB thread less is left of its transfer, after which
  `gpib_mutex` is free, and of its round; slots added meanwhile are within the bound `NSlot` and add nothing to `RoundLeft`.
* `Daq_proofs`: `PulseIsUndone` (`PulseUndone`) for any number of boards and voltages. `PulseInv` adds that what a board calls known is what is on its
  output (`RecordIsTrue`), and that during a scan only the pulsed output and those written meanwhile, as themselves or as followers (`touched`),
  differ from before (`PulseKept`). What can be reached along followers is a set (`Reach`), so that chains of any length and rings need no induction.
  `ReadingsAreFresh` (`NoStaleReading`) from `ReadInv`: what is requested was read in this cycle, and the list of channels which `daq_AI_read`
  regenerates is the set requested. `SamplesAreInPlace` (`SamplesInPlace`), `RowsHoldSamples` (`RowsAreSamples`) and `SamplesStayInside` from
  `ScanInv`: whatever the lengths of the reads and wherever the scan ends, the place in `scan_buffer` is the number of samples fetched, and they stand
  before it in order; between scans there is no buffer. `ReadsKeepPace` (`NoOverrun`) is for any loop interval, with cycles of at most `Jitter` of
  them; an interval of 0 stops the model with a fault of its own. `PaceInv` counts the cycles since each board's last read, and with them what its
  device has made.
* `Config_proofs`: `BoardIsSet` (`BoardsFollow`) and `ConnectedOnSetup` (`ConnectsInSetup`) for any files and values. `BoardInv` says that a board is
  out of date only while it is dirty, and dirty only while it is blocked. `AppendKeepsPrevious` is about `history_range_append` for any length of the
  history: what was current is one step back, even when the oldest entry had to go. `SavesAreLoaded` (`SavedIsLoaded`), `NothingZoomedAway`
  (`ZoomsReturn`) and `LimitsStayOrdered` (`LimitsOrdered`) rest on `LimitsInv`: a file is what was written whole, rounded, and perhaps one line more
  (`PrintedLines`, `PartAgrees`), and but for a load on the setup page the limits are the current entry of the history. What `mcf_read_file` makes of
  a file of any length is shown line by line.

The proofs have one step per action and below it one per conjunct the action can disturb; `PTL` combines them. What the folds of
the models compute (a file being read, the points of all sets in a row, `total_pts`, the pen) is shown by induction over
their length: a fold is unfolded to the function it chooses (`FoldsExists`, `PensExist`), and `UpTo`, which follows from the smallest number of a set
(`LeastNumber`), carries a fact about each length to all.

Of `CallsEnd`, `PassEnds`, `StopCompletes` and the return of the GPIB thread to its next round, the part which is about the code is proved: a measure
(`CallsLeft`, `PassLeft`, `StepsLeft`, `RoundLeft`) that is a natural number and falls with each step of the thread. That the thread takes its steps
is the fairness of the run.

Only model-checked: liveness itself (`ScanEnds`, `StopCompletes`, `CallsEnd`, `PassEnds`, `WriteArrives`, and the fairness of
`Replies` in `RepliesInTurn` and of `Picture` in `ShowsTheBuffer`), which needs `ENABLED`, out of the prover's reach. No module has a RECURSIVE operator.

## 6. Not modelled

Drawing, layout, formats of files, parsing of command arguments, the wording of messages, Python expressions, the
drivers (Comedi, NI-DAQ, GPIB libraries), and failures of the operating system (sockets, `malloc`).
The NI-DAQ and NI-DAQmx branches of the board code belong to other builds. `PROJECT.json` gives the reason for each component.
Left out of modelled parts: `read()` returning -1 in a scan, how much of a set a short write leaves, the events at `gui.c:92` in Control,
`status_mutex`, and in Locks what the GUI thread does before it creates the DAQ thread or after it joined it.

Hazards which no property covers, or which are the exception of one (section 2), so that only the models and section 4 speak of them; `PROJECT.json`
gives each its place:

* a stop that is overwritten (`acquire.c:293`, `gui.c:115`), a second page change before a session starts (`page_callback.c:32`; Runlevel
  and Control follow it to a crash);
* a command answered before it is executed (`terminal_callback.c:32`, `acquire_sub.c:162`);
* a ring of followers (`compute.c:259`); a step of a sweep which crosses its end and zero leaves zero stop out (`acquire_sub.c:276`);
* `data_saved` set wrongly (`varset.c:337`, `setvarset.c:109`, `scope.c:268`);
* a board that fails to start after others have started (`scope.c:206`), an interval of 0 cycles (`acquire_sub.c:215`);
* leaving a panel in mid-scan leaves its callback flags set until its next scan (`acquire.c:440`);
* the GPIB thread's message is forgotten when its session ends (`acquire.c:247`);
* a pulse is remembered by the number of its channel, which may be another one in the next session (`acquire_sub.c:154`);
* a scan requested between the end of one and `set_scanning(READY)` is dropped (`acquire.c:320`);
* a jump is performed whenever the DAQ thread next finds the sweep stopped (`sweep_callback.c:242`);
* a local command which no callback takes blocks every later trigger instruction (`compute_cfunc.c:161`).

## 7. What could come next

Order of the work so far: Runlevel, Control, Sweep, Trigger, Buffer, Gpib, Daq, Plot over Picture, Locks, Axis and Config, then Replies
over Control. Left:

1. **Sweep motion**: `run_sweep_step` and `num.c` in integers, as a refinement of the open choice in Sweep.
2. **Status** and **Client** (`autosweep` against an abstract Control: `catch_sweep` may come after the event).
3. An abstract specification of the buffer (a set of saved and unsaved points), and the proof that Buffer implements it.
4. Measures for the two remaining liveness properties with a loop of their own: `ScanEnds` (a scan's cycles, with Daq) and `WriteArrives`.
