-------------------------------- MODULE Sweep --------------------------------
(***************************************************************************)
(* The sweeps of a panel: how buttons, commands, sweep ends and leader /   *)
(* follower links change a sweep's direction (request_sweep_dir,           *)
(* exec_sweep_dir), and how the GUI thread shows it (dir_dirty).           *)
(*                                                                         *)
(* Both functions call themselves along the followers; one call is one     *)
(* step here, with the sweep it treats in cur.  Every caller holds         *)
(* sweep_mutex from its first to its last step, except set_dac_csf, whose  *)
(* steps therefore mix with those of the GUI thread, link changes included.*)
(*                                                                         *)
(* What a channel's value makes run_sweep_step decide is left open.  The   *)
(* sweeps 1 .. inv have a channel.                                         *)
(***************************************************************************)
EXTENDS Integers, FiniteSets

CONSTANTS
    N,        \* number of sweeps, M2_MAX_CHAN
    MaxOps    \* bound: clicks, commands and changes of session in a behaviour

ASSUME SweepAssumption == N \in Nat \ {0} /\ MaxOps \in Nat

VARIABLES
    inv,        \* ChanSet.N_inv_chan
    dir,        \* Sweep.dir
    holding,    \* the sweeps with Sweep.holding
    request,    \* request_dir and request_hold of a pending sweep, or NoRequest
    follower,   \* Sweep.follower, or 0
    dirDirty,   \* the sweeps with Sweep.dir_dirty
    jumpDirty,  \* the sweeps with Sweep.jump_dirty
    scanning,   \* Sweep.scanning, equal in every sweep
    shown,      \* what the stop/down/up buttons show, or Mixed
    guiFlush,   \* the GUI thread is between set_sweep_buttons_all and clearing dir_dirty
    mutex,      \* the thread which holds sweep_mutex
    phase,      \* what a thread is doing
    head,       \* the sweep of the outermost call of a thread
    last,       \* the last sweep of its loop
    cur,        \* the sweep of its current recursive call
    arg,        \* the arguments of its current call of request_sweep_dir
    ops,        \* operations so far
    commanded,  \* the sweeps which executed a request since links or channels changed (history)
    raced,      \* set_dac_csf overlapped a critical section of the GUI thread (history)
    late        \* the sweeps which turned between GuiShow and GuiClearDirty (history)

state   == <<dir, holding, request, dirDirty>>
screen  == <<shown, guiFlush>>
threads == <<mutex, phase, head, last, cur, arg>>
history == <<commanded, raced, late>>
vars == <<inv, state, follower, jumpDirty, scanning, screen, threads, ops, history>>

Sweeps  == 1 .. N
Dirs    == {-1, 0, 1}
Mixed   == 2
Threads == {"gui", "daq"}
NoRequest == <<0, FALSE, "none">>
Req(d, h) == <<d, h, "pending">>
Stop      == Req(0, FALSE)
Requests  == {Req(d, h) : d \in Dirs, h \in BOOLEAN}
Phases    == {"idle", "decide", "request", "exec", "pass_request", "pass_exec"}
-----------------------------------------------------------------------------
\* The first session has some channels, and no links, or the links of a ring which
\* link_setup_csf has made.
Init ==
    /\ inv \in Sweeps
    /\ dir = [s \in Sweeps |-> 0]
    /\ holding = {}
    /\ request = [s \in Sweeps |-> NoRequest]
    /\ follower \in {[s \in Sweeps |-> 0], [s \in Sweeps |-> (s % N) + 1]}
    /\ dirDirty = {}
    /\ jumpDirty = {}
    /\ scanning = FALSE
    /\ shown = [s \in Sweeps |-> 0]
    /\ guiFlush = FALSE
    /\ mutex = "none"
    /\ phase = [t \in Threads |-> "idle"]
    /\ head = [t \in Threads |-> 1]
    /\ last = [t \in Threads |-> 1]
    /\ cur = [t \in Threads |-> 1]
    /\ arg = [t \in Threads |-> Stop]
    /\ ops = 0
    /\ commanded = {}
    /\ raced = FALSE
    /\ late = {}
-----------------------------------------------------------------------------
Pending(s) == request[s] # NoRequest
Idle(t)    == phase[t] = "idle"

\* A user, a client or a trigger does something.
Operation == ops < MaxOps /\ ops' = ops + 1

\* set_dac_csf is under way: the DAQ thread works without the mutex.
DacUnderWay == ~Idle("daq") /\ mutex # "daq"

Lock(t) == mutex = "none" /\ mutex' = t

\* Thread t begins to call request_sweep_dir and exec_sweep_dir for from .. to.
Begin(t, ph, from, to, r) ==
    /\ Idle(t)
    /\ phase' = [phase EXCEPT ![t] = ph]
    /\ head' = [head EXCEPT ![t] = from]
    /\ last' = [last EXCEPT ![t] = to]
    /\ cur' = [cur EXCEPT ![t] = from]
    /\ arg' = [arg EXCEPT ![t] = r]

\* Thread t has finished: it releases the mutex if it holds it.
Finish(t) ==
    /\ phase' = [phase EXCEPT ![t] = "idle"]
    /\ head' = [head EXCEPT ![t] = 1]
    /\ last' = [last EXCEPT ![t] = 1]
    /\ cur' = [cur EXCEPT ![t] = 1]
    /\ arg' = [arg EXCEPT ![t] = Stop]
    /\ mutex' = IF mutex = t THEN "none" ELSE mutex
-----------------------------------------------------------------------------
(* request_sweep_dir and exec_sweep_dir.                                   *)

\* A call does nothing for a sweep without a channel, at the end of the links, or
\* when the request is pending already (or, to execute it, not pending).
BugTakes(s) == s \in 1 .. inv
Takes(s)    == s \in 1 .. inv /\ ~Pending(s)
Executes(s) == s \in 1 .. inv /\ Pending(s)

\* request_sweep_dir which hands the hold on to the follower.
BugPassesHold(t) ==
    /\ phase[t] \in {"request", "pass_request"}
    /\ Takes(cur[t])
    /\ request' = [request EXCEPT ![cur[t]] = arg[t]]
    /\ cur' = [cur EXCEPT ![t] = follower[cur[t]]]
    /\ UNCHANGED <<inv, dir, holding, dirDirty, follower, jumpDirty, scanning, screen, mutex,
                   phase, head, last, arg, ops, history>>

\* One call: a sweep which has no pending request takes this one and passes it
\* on; a follower stops while its leader holds.
Request(t) ==
    /\ phase[t] \in {"request", "pass_request"}
    /\ Takes(cur[t])
    /\ request' = [request EXCEPT ![cur[t]] = arg[t]]
    /\ cur' = [cur EXCEPT ![t] = follower[cur[t]]]
    /\ arg' = [arg EXCEPT ![t] = IF @[2] THEN Stop ELSE Req(@[1], FALSE)]
    /\ UNCHANGED <<inv, dir, holding, dirDirty, follower, jumpDirty, scanning, screen, mutex,
                   phase, head, last, ops, history>>

\* The last call of the chain finds nothing to do.
RequestDone(t) ==
    /\ phase[t] \in {"request", "pass_request"}
    /\ ~Takes(cur[t])
    /\ arg' = [arg EXCEPT ![t] = Stop]
    /\ \/ /\ phase[t] = "request"
          /\ phase' = [phase EXCEPT ![t] = "exec"]
          /\ cur' = [cur EXCEPT ![t] = head[t]]
          /\ UNCHANGED head
       \/ /\ phase[t] = "pass_request" /\ head[t] < last[t]
          /\ phase' = [phase EXCEPT ![t] = "decide"]
          /\ head' = [head EXCEPT ![t] = @ + 1]
          /\ cur' = [cur EXCEPT ![t] = head[t] + 1]
       \/ /\ phase[t] = "pass_request" /\ head[t] = last[t]
          /\ phase' = [phase EXCEPT ![t] = "pass_exec"]
          /\ head' = [head EXCEPT ![t] = 1]
          /\ cur' = [cur EXCEPT ![t] = 1]
    /\ UNCHANGED <<inv, state, follower, jumpDirty, scanning, screen, mutex, last, ops, history>>

\* exec_sweep_dir which forgets the follower.
BugExecAlone(t) ==
    /\ phase[t] \in {"exec", "pass_exec"}
    /\ Executes(cur[t])
    /\ LET s == cur[t]
           r == request[s]
       IN  /\ dirDirty' = IF dir[s] # r[1] THEN dirDirty \cup {s} ELSE dirDirty
           /\ dir' = [dir EXCEPT ![s] = r[1]]
           /\ holding' = IF r[2] THEN holding \cup {s} ELSE holding \ {s}
           /\ request' = [request EXCEPT ![s] = NoRequest]
           /\ commanded' = commanded \cup {s}
           /\ late' = IF guiFlush /\ dir[s] # r[1] THEN late \cup {s} ELSE late
    /\ cur' = [cur EXCEPT ![t] = 0]
    /\ UNCHANGED <<inv, follower, jumpDirty, scanning, screen, mutex, phase, head, last, arg, ops,
                   raced>>

\* exec_sweep_dir which does not tell the GUI thread.
BugExecUnmarked(t) ==
    /\ phase[t] \in {"exec", "pass_exec"}
    /\ Executes(cur[t])
    /\ LET s == cur[t]
           r == request[s]
       IN  /\ dirDirty' = dirDirty
           /\ dir' = [dir EXCEPT ![s] = r[1]]
           /\ holding' = IF r[2] THEN holding \cup {s} ELSE holding \ {s}
           /\ request' = [request EXCEPT ![s] = NoRequest]
           /\ cur' = [cur EXCEPT ![t] = follower[s]]
           /\ commanded' = commanded \cup {s}
           /\ late' = IF guiFlush /\ dir[s] # r[1] THEN late \cup {s} ELSE late
    /\ UNCHANGED <<inv, follower, jumpDirty, scanning, screen, mutex, phase, head, last, arg, ops,
                   raced>>

\* One call of exec_sweep_dir.
Exec(t) ==
    /\ phase[t] \in {"exec", "pass_exec"}
    /\ Executes(cur[t])
    /\ LET s == cur[t]
           r == request[s]
       IN  /\ dirDirty' = IF dir[s] # r[1] THEN dirDirty \cup {s} ELSE dirDirty
           /\ dir' = [dir EXCEPT ![s] = r[1]]
           /\ holding' = IF r[2] THEN holding \cup {s} ELSE holding \ {s}
           /\ request' = [request EXCEPT ![s] = NoRequest]
           /\ cur' = [cur EXCEPT ![t] = follower[s]]
           /\ commanded' = commanded \cup {s}
           /\ late' = IF guiFlush /\ dir[s] # r[1] THEN late \cup {s} ELSE late
    /\ UNCHANGED <<inv, follower, jumpDirty, scanning, screen, mutex, phase, head, last, arg, ops,
                   raced>>

\* The end of a chain: the loop goes on with the next sweep, or is over.
ExecDone(t) ==
    /\ phase[t] \in {"exec", "pass_exec"}
    /\ ~Executes(cur[t])
    /\ IF head[t] < last[t]
       THEN /\ phase' = [phase EXCEPT ![t] = IF @ = "exec" THEN "request" ELSE @]
            /\ head' = [head EXCEPT ![t] = @ + 1]
            /\ cur' = [cur EXCEPT ![t] = head[t] + 1]
            /\ UNCHANGED <<mutex, last, arg>>
       ELSE Finish(t)
    /\ UNCHANGED <<inv, state, follower, jumpDirty, scanning, screen, ops, history>>
-----------------------------------------------------------------------------
(* The GUI thread.                                                         *)

\* sweep_direction_cb: the button clicked is toggled, the others are not.
GuiDirection(s, d) ==
    /\ Operation
    /\ s <= inv /\ dir[s] # d /\ ~scanning
    /\ Lock("gui")
    /\ Begin("gui", "request", s, s, Req(d, FALSE))
    /\ shown' = [shown EXCEPT ![s] = Mixed]
    /\ raced' = (raced \/ DacUnderWay)
    /\ UNCHANGED <<inv, state, follower, jumpDirty, scanning, guiFlush, commanded, late>>

\* jump_go_cb: the sweep stops, the DAQ thread will jump.
GuiJump(s) ==
    /\ Operation
    /\ s <= inv /\ ~scanning
    /\ Lock("gui")
    /\ Begin("gui", "request", s, s, Stop)
    /\ jumpDirty' = jumpDirty \cup {s}
    /\ raced' = (raced \/ DacUnderWay)
    /\ UNCHANGED <<inv, state, follower, scanning, screen, commanded, late>>

\* stop_threads, first section: every sweep is stopped.
GuiStopAll ==
    /\ Operation
    /\ Lock("gui")
    /\ Begin("gui", "request", 1, N, Stop)
    /\ raced' = (raced \/ DacUnderWay)
    /\ UNCHANGED <<inv, state, follower, jumpDirty, scanning, screen, commanded, late>>

\* set_sweep_buttons_all: copy dir and dir_dirty, set the buttons of the dirty
\* sweeps; run_runlevel_updates then dispatches events before it clears dir_dirty.
GuiShow ==
    /\ Idle("gui") /\ ~guiFlush /\ mutex = "none"
    /\ dirDirty \cap 1 .. inv # {}
    /\ shown' = [s \in Sweeps |-> IF s \in dirDirty /\ s <= inv THEN dir[s] ELSE shown[s]]
    /\ guiFlush' = TRUE
    /\ late' = late \ (dirDirty \cap 1 .. inv)
    /\ UNCHANGED <<inv, state, follower, jumpDirty, scanning, threads, ops, commanded, raced>>

\* run_runlevel_updates clears dir_dirty of every sweep.
GuiClearDirty ==
    /\ Idle("gui") /\ guiFlush /\ mutex = "none"
    /\ dirDirty' = dirDirty \ 1 .. inv
    /\ guiFlush' = FALSE
    /\ UNCHANGED <<inv, dir, holding, request, follower, jumpDirty, scanning, shown, threads, ops,
                   history>>

\* link_clear_csf, a command the GUI thread executes; it waits for sweep_mutex, but
\* set_dac_csf does not hold that.
GuiLinkClear ==
    /\ Operation
    /\ Idle("gui") /\ ~guiFlush /\ mutex = "none"
    /\ follower' = [s \in Sweeps |-> 0]
    /\ commanded' = {}
    /\ raced' = (raced \/ DacUnderWay)
    /\ UNCHANGED <<inv, state, jumpDirty, scanning, screen, threads, late>>

\* link_setup_csf, another one: the channels named become a closed chain, in their
\* order.  A sweep named alone keeps its follower.
GuiLinkSetup ==
    /\ Operation
    /\ Idle("gui") /\ ~guiFlush /\ mutex = "none"
    /\ \E k \in 2 .. inv : \E chain \in [1 .. k -> 1 .. inv] :
          /\ \A i, j \in 1 .. k : i # j => chain[i] # chain[j]
          /\ follower' = [s \in Sweeps |->
                             IF \E i \in 1 .. k : chain[i] = s
                             THEN chain[((CHOOSE i \in 1 .. k : chain[i] = s) % k) + 1]
                             ELSE follower[s]]
    /\ commanded' = {}
    /\ raced' = (raced \/ DacUnderWay)
    /\ UNCHANGED <<inv, state, jumpDirty, scanning, screen, threads, late>>

\* set_scan_callback_mode, called by either thread.
SetScanning ==
    /\ Operation
    /\ mutex = "none" /\ (Idle("gui") \/ Idle("daq"))
    /\ scanning' = ~scanning
    /\ UNCHANGED <<inv, state, follower, jumpDirty, screen, threads, history>>

\* The session ends and another begins: sweep_array_update takes the channels of
\* the new one and leaves directions and links alone.
NewSession ==
    /\ Operation
    /\ Idle("gui") /\ Idle("daq") /\ ~guiFlush
    /\ inv' \in Sweeps
    /\ commanded' = {}
    /\ UNCHANGED <<state, follower, jumpDirty, scanning, screen, threads, raced, late>>
-----------------------------------------------------------------------------
(* The DAQ thread.                                                         *)

\* sweep_direction_csf.
DaqDirection(s, d) ==
    /\ Operation
    /\ s <= inv /\ ~scanning
    /\ Lock("daq")
    /\ Begin("daq", "request", s, s, Req(d, FALSE))
    /\ UNCHANGED <<inv, state, follower, jumpDirty, scanning, screen, history>>

\* set_dac_csf stops the sweep of the channel it has written, without the mutex
\* and whether or not a scan is running.
DaqSetDac(s) ==
    /\ Operation
    /\ s <= inv
    /\ Begin("daq", "request", s, s, Stop)
    /\ raced' = (raced \/ mutex # "none")
    /\ UNCHANGED <<inv, state, follower, jumpDirty, scanning, screen, mutex, commanded, late>>

\* run_scope_start stops the sweeps in use.
DaqStopAll ==
    /\ Operation
    /\ Lock("daq")
    /\ Begin("daq", "request", 1, inv, Stop)
    /\ UNCHANGED <<inv, state, follower, jumpDirty, scanning, screen, history>>

\* The sweep block of run_daq_thread: all of them decide, then all execute.
DaqPass ==
    /\ Lock("daq")
    /\ Begin("daq", "decide", 1, inv, Stop)
    /\ UNCHANGED <<inv, state, follower, jumpDirty, scanning, screen, ops, history>>

\* What run_sweep_step may request of sweep s in its present state.
Decisions(s) ==
    IF dir[s] = 0 \/ s \in dirDirty THEN {}
    ELSE IF s \in holding THEN {Stop, Req(-dir[s], FALSE)}   \* endstop, or turn around
    ELSE {Stop, Req(dir[s], TRUE)}          \* zerostop or no value, or the end reached

\* run_sweep_step for one sweep: it may request something, or move on.  A stopped
\* sweep performs its jump.
DaqDecide ==
    /\ phase["daq"] = "decide"
    /\ LET s == head["daq"]
       IN  /\ jumpDirty' = IF dir[s] = 0 \/ s \in dirDirty THEN jumpDirty \ {s} ELSE jumpDirty
           /\ \/ /\ \E r \in Decisions(s) : arg' = [arg EXCEPT !["daq"] = r]
                 /\ phase' = [phase EXCEPT !["daq"] = "pass_request"]
                 /\ UNCHANGED <<head, cur>>
              \/ /\ UNCHANGED arg
                 /\ IF s < last["daq"]
                    THEN /\ head' = [head EXCEPT !["daq"] = s + 1]
                         /\ cur' = [cur EXCEPT !["daq"] = s + 1]
                         /\ UNCHANGED phase
                    ELSE /\ head' = [head EXCEPT !["daq"] = 1]
                         /\ cur' = [cur EXCEPT !["daq"] = 1]
                         /\ phase' = [phase EXCEPT !["daq"] = "pass_exec"]
    /\ UNCHANGED <<inv, state, follower, scanning, screen, mutex, last, ops, history>>
-----------------------------------------------------------------------------
Call(t) == Request(t) \/ RequestDone(t) \/ Exec(t) \/ ExecDone(t)

Next ==
    \/ \E t \in Threads : Call(t)
    \/ \E s \in Sweeps : GuiJump(s) \/ DaqSetDac(s)
    \/ \E s \in Sweeps, d \in Dirs : GuiDirection(s, d) \/ DaqDirection(s, d)
    \/ GuiStopAll \/ GuiShow \/ GuiClearDirty \/ GuiLinkClear \/ GuiLinkSetup
    \/ SetScanning \/ NewSession \/ DaqStopAll \/ DaqPass \/ DaqDecide

Spec == Init /\ [][Next]_vars

\* Both threads keep running.
Fairness ==
    /\ \A t \in Threads : WF_vars(Call(t))
    /\ WF_vars(DaqDecide)

FairSpec == Spec /\ Fairness
-----------------------------------------------------------------------------
TypeOK ==
    /\ inv \in Sweeps
    /\ dir \in [Sweeps -> Dirs]
    /\ holding \subseteq Sweeps
    /\ request \in [Sweeps -> Requests \cup {NoRequest}]
    /\ follower \in [Sweeps -> 0 .. N]
    /\ dirDirty \subseteq Sweeps
    /\ jumpDirty \subseteq Sweeps
    /\ scanning \in BOOLEAN
    /\ shown \in [Sweeps -> Dirs \cup {Mixed}]
    /\ guiFlush \in BOOLEAN
    /\ mutex \in Threads \cup {"none"}
    /\ phase \in [Threads -> Phases]
    /\ head \in [Threads -> Sweeps]
    /\ last \in [Threads -> Sweeps]
    /\ cur \in [Threads -> 0 .. N]
    /\ arg \in [Threads -> Requests]
    /\ ops \in 0 .. MaxOps
    /\ commanded \subseteq Sweeps
    /\ raced \in BOOLEAN
    /\ late \subseteq Sweeps

Quiet == \A t \in Threads : Idle(t)

\* Two sweeps of a chain agree: both go the same way, or one holds at its end and
\* the other has stopped.
Agree(a, b) ==
    \/ dir[a] = dir[b] /\ a \notin holding /\ b \notin holding
    \/ a \in holding /\ dir[b] = 0 /\ b \notin holding
    \/ b \in holding /\ dir[a] = 0 /\ a \notin holding

Linked(a, b) == a # b /\ follower[a] = b /\ follower[b] = a /\ a <= inv /\ b <= inv

\* Leader and follower stay in step (run_daq_thread: "Otherwise leader/follower
\* relationships will get out of sync"): once one of two sweeps linked to each
\* other has executed a request both have, and they agree, whoever commanded
\* them, whichever of them reached its end, in one pass or in different ones.
\* The exception is set_dac_csf overlapping a click or a link change of the GUI thread.
LinkedInStep ==
    Quiet /\ ~raced =>
        \A a, b \in Sweeps : Linked(a, b) /\ a \in commanded => b \in commanded /\ Agree(a, b)

\* A request never outlives the critical section it was made in; a later click
\* would execute it instead of its own ("Doing nothing... (request already
\* pending)").  Again set_dac_csf is the exception: links cleared between its requests
\* and their execution leave the follower's request behind, for one.
NothingLeftPending == Quiet /\ ~raced => \A s \in Sweeps : ~Pending(s)

\* The calls along the followers come to an end however they are linked
\* (request_sweep_dir: "Setting pending = 1 above will stop circular
\* leader/follower arrangements").  After a race the two threads may follow each
\* other round a ring, one requesting, one executing.
CallsEnd == ~Quiet ~> Quiet \/ raced

\* A button shows the direction of its sweep, or will be set (run_runlevel_updates:
\* "clear dir_dirty only after buttons have actually flipped on the screen").  That
\* fails a sweep which turns after its button was set and before dir_dirty is
\* cleared: the clearing forgets it.
ButtonsShowDir ==
    Quiet /\ ~raced => \A s \in 1 .. inv : s \in dirDirty \/ shown[s] = dir[s] \/ s \in late
-----------------------------------------------------------------------------
(* Why the calls come to an end: the work left of them.                    *)

NumPending == Cardinality({s \in Sweeps : Pending(s)})

\* The sweeps after the current one in a thread's loop.
ToCome(t) == last[t] - head[t]

\* A thread makes no more calls and decisions from here than this: while it requests,
\* each call but the last of a chain adds a pending sweep, and while it executes, each
\* removes one.
CallsLeft(t) ==
    CASE phase[t] = "idle"         -> 0
      [] phase[t] = "request"      -> ToCome(t) * (2 * N + 2) + 2 * N + 2 - NumPending
      [] phase[t] = "exec"         -> ToCome(t) * (2 * N + 2) + NumPending + 1
      [] phase[t] = "decide"       -> ToCome(t) * (2 * N + 2) + 3 * N + 3
      [] phase[t] = "pass_request" -> ToCome(t) * (2 * N + 2) + 3 * N + 2 - NumPending
      [] phase[t] = "pass_exec"    -> ToCome(t) + NumPending + 1

\* However the sweeps are linked, every call leaves its thread less to do and nothing
\* else leaves it more, unless set_dac_csf has raced.
CallsShrink ==
    [][\A t \in Threads : ~Idle(t) /\ ~raced' =>
          /\ CallsLeft(t)' <= CallsLeft(t)
          /\ Call(t) \/ (t = "daq" /\ DaqDecide) => CallsLeft(t)' < CallsLeft(t)]_vars
=============================================================================
