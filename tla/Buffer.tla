-------------------------------- MODULE Buffer --------------------------------
(***************************************************************************)
(* The data buffer of a panel: a list of sets of points, shared by the DAQ *)
(* thread, which records points and appends scans, and the GUI thread,     *)
(* which clears it; commands of both start sets, reset the time and save.  *)
(* Every access holds Buffer.mutex, except that clear_buffer releases it   *)
(* between its test for unsaved points and the exchange of the buffer,     *)
(* and meanwhile may ask the user.                                         *)
(*                                                                         *)
(* Points are counted.  How many of them a set has in the file is history: *)
(* the code keeps the flag data_saved only.  All saves go to one file.     *)
(***************************************************************************)
EXTENDS Integers, SequencesExt

CONSTANTS
    Layouts,   \* the columns (names and units) a channel setup may give
    CbufLen,   \* Logger.cbuf_length
    MaxPts,    \* bound: points in the buffer
    MaxSets,   \* bound: sets in the buffer
    MaxOps     \* bound: changes of session, clears and saves in a behaviour

ASSUME BufferAssumption ==
    Layouts # {} /\ CbufLen \in Nat \ {0} /\ MaxPts \in Nat /\ MaxSets \in Nat /\ MaxOps \in Nat

VARIABLES
    layout,     \* the columns of ThreadVars.chanset
    sets,       \* Buffer.svs
    locked,     \* Buffer.locked
    held,       \* logger and scope are at HOLD
    recording,  \* logger_rl = RECORD
    doReset,    \* Buffer.do_time_reset
    cbuf,       \* the samples which data_daq averages: "old" if a T=0 came since
    sample,     \* data_daq, as recorded: "old" if any time in it is, or it is no reading
    daqFailed,  \* daq_failed of run_daq_thread
    pc,         \* the DAQ thread is about to acquire or to record
    gui,        \* what the GUI thread does: nothing, or a step of clear_buffer
    tzero,      \* the tzero argument of that clear_buffer
    ops,        \* operations so far
    arrived     \* points arrived since clear_buffer found all saved (history)

vars == <<layout, sets, locked, held, recording, doReset, cbuf, sample, daqFailed, pc, gui, tzero, ops,
          arrived>>

\* A VarSet: N_pt and data_saved; written is history: the points which are in the
\* file; so is doubt: data_saved is set by one of the three known causes.
VarSet == [cols : Layouts, n : 0 .. MaxPts, saved : BOOLEAN, written : 0 .. MaxPts, doubt : BOOLEAN]

\* prepare_vset.
NewSet(c) == [cols |-> c, n |-> 0, saved |-> FALSE, written |-> 0, doubt |-> FALSE]

Init ==
    /\ layout \in Layouts
    /\ sets = <<NewSet(layout)>>
    /\ locked = FALSE
    /\ held = FALSE
    /\ recording = FALSE
    /\ doReset = TRUE
    /\ cbuf = <<>>
    /\ sample = "old"
    /\ daqFailed = FALSE
    /\ pc = "acquire"
    /\ gui = "idle"
    /\ tzero = FALSE
    /\ ops = 0
    /\ arrived = FALSE
-----------------------------------------------------------------------------
Operation == ops < MaxOps /\ ops' = ops + 1

\* total_pts.
TotalPts(s) == FoldSeq(LAMBDA v, sum : sum + v.n, 0, s)

\* unsaved_data which looks at the first set only.
BugUnsaved(s) == s[1].n > 0 /\ ~s[1].saved

\* unsaved_data.
Unsaved(s) == \E i \in DOMAIN s : s[i].n > 0 /\ ~s[i].saved

\* add_set without the test for an empty set.
BugWithNewSet(s) == IF ~locked THEN Append(s, NewSet(layout)) ELSE s

\* add_set: an empty last set is used again.
WithNewSet(s) == IF ~locked /\ Last(s).n > 0 THEN Append(s, NewSet(layout)) ELSE s

\* run_recording which resets data_saved for the first point of a set only.
BugRecorded(s) == [s EXCEPT ![Len(s)].n = @ + 1, ![Len(s)].saved = @ /\ Last(s).n > 0]

\* append_point in run_recording.
Recorded(s) == [s EXCEPT ![Len(s)].n = @ + 1, ![Len(s)].saved = FALSE]

\* The appends of scan_array_process do not reset data_saved: a set saved while it
\* was empty goes on being called saved.
Scanned(s, k) ==
    LET p == WithNewSet(s)
    IN  WithNewSet([p EXCEPT ![Len(p)].n = @ + k, ![Len(p)].doubt = @ \/ (Last(p).saved /\ k > 0)])

\* write_svset_custom: the first set may truncate the file, the others append to it.
\* Only the sets in opened find the file open; points of those in short do not get into
\* it (the disk is full), which write_vset_custom does not notice.  How many are missing
\* makes no difference to the properties: none gets in.
Written(s, truncate, opened, short) ==
    LET Kept(i) == IF truncate /\ 1 \in opened THEN 0 ELSE s[i].written
    IN  [i \in DOMAIN s |->
            IF i \notin opened THEN [s[i] EXCEPT !.written = Kept(i), !.doubt = @ \/ (s[i].saved /\ Kept(i) # s[i].written)]
            ELSE IF i \in short THEN [s[i] EXCEPT !.saved = TRUE, !.written = Kept(i), !.doubt = (Kept(i) # s[i].n)]
            ELSE [s[i] EXCEPT !.saved = TRUE, !.written = s[i].n, !.doubt = FALSE]]

\* The GUI thread, or the DAQ thread before it acquires, can handle a command.
CommandTime == gui = "idle" \/ pc = "acquire"

Bounded(s) == Len(s) <= MaxSets /\ TotalPts(s) <= MaxPts
-----------------------------------------------------------------------------
(* The DAQ thread.                                                         *)

\* The time of a sample taken between a T=0 and the reset of the timer is old, too.
TimeBase == IF doReset THEN "old" ELSE "fresh"
Outdated == [i \in DOMAIN cbuf |-> "old"]

\* compute_set_time and run_acquisition: a sample, timed by the timer as it is, and the
\* average of the samples in the circular buffer.
DaqAcquire ==
    /\ pc = "acquire" /\ ~daqFailed
    /\ pc' = "record"
    /\ cbuf' = Append(IF Len(cbuf) < CbufLen THEN cbuf ELSE Tail(cbuf), TimeBase)
    /\ sample' = IF \E i \in DOMAIN cbuf' : cbuf'[i] = "old" THEN "old" ELSE "fresh"
    /\ UNCHANGED <<layout, sets, locked, held, recording, doReset, daqFailed, gui, tzero, ops, arrived>>

\* run_acquisition fails: data_daq stays as it is, and both runlevels go to HOLD.
DaqFail ==
    /\ pc = "acquire" /\ ~daqFailed
    /\ pc' = "record"
    /\ daqFailed' = TRUE
    /\ held' = TRUE
    /\ recording' = FALSE
    /\ UNCHANGED <<layout, sets, locked, doReset, cbuf, sample, gui, tzero, ops, arrived>>

\* It is not called again in the session, but run_recording is.
DaqAcquireNothing ==
    /\ pc = "acquire" /\ daqFailed
    /\ pc' = "record"
    /\ UNCHANGED <<layout, sets, locked, held, recording, doReset, cbuf, sample, daqFailed, gui, tzero, ops,
                   arrived>>

\* run_recording which resets the timer only.
BugDaqReset ==
    /\ pc = "record" /\ doReset
    /\ doReset' = FALSE
    /\ pc' = "acquire"
    /\ UNCHANGED <<layout, sets, locked, held, recording, cbuf, sample, daqFailed, gui, tzero, ops,
                   arrived>>

\* run_recording when the time is to be reset: nothing is recorded in this pass, and
\* samples with the old times are forgotten.
DaqReset ==
    /\ pc = "record" /\ doReset
    /\ doReset' = FALSE
    /\ cbuf' = <<>>
    /\ pc' = "acquire"
    /\ UNCHANGED <<layout, sets, locked, held, recording, sample, daqFailed, gui, tzero, ops,
                   arrived>>

\* run_recording: the point is recorded when it is the first one or differs enough
\* from the last.
DaqRecord ==
    /\ pc = "record" /\ ~doReset
    /\ \/ /\ recording
          /\ Bounded(Recorded(sets))
          /\ sets' = Recorded(sets)
          /\ arrived' = (arrived \/ gui = "clearing")
       \/ UNCHANGED <<sets, arrived>>
    /\ pc' = "acquire"
    /\ UNCHANGED <<layout, locked, held, recording, doReset, cbuf, sample, daqFailed, gui, tzero,
                   ops>>

\* A scan ends: scan_array_process appends its k points, in a set of their own.  (The
\* logger waits during the scan, so nothing was recorded meanwhile.)
DaqScan(k) ==
    /\ pc = "acquire" /\ ~held
    /\ Bounded(Scanned(sets, k))
    /\ sets' = Scanned(sets, k)
    /\ arrived' = (arrived \/ (gui = "clearing" /\ k > 0))
    /\ UNCHANGED <<layout, locked, held, recording, doReset, cbuf, sample, daqFailed, pc, gui, tzero,
                   ops>>
-----------------------------------------------------------------------------
(* Buttons and commands; triggers give the commands in the DAQ thread.     *)

\* add_set_cb and add_set_csf.
NewSetCommand ==
    /\ CommandTime
    /\ Bounded(WithNewSet(sets))
    /\ sets' = WithNewSet(sets)
    /\ UNCHANGED <<layout, locked, held, recording, doReset, cbuf, sample, daqFailed, pc, gui, tzero,
                   ops, arrived>>

\* tzero_cb and tzero_csf.
TimeZero ==
    /\ CommandTime
    /\ doReset' = TRUE
    /\ cbuf' = Outdated
    /\ sample' = "old"
    /\ UNCHANGED <<layout, sets, locked, held, recording, daqFailed, pc, gui, tzero, ops, arrived>>

\* save_cb (which overwrites the file, after asking) and save_csf (which appends).
Save(truncate) ==
    /\ CommandTime /\ Operation
    /\ truncate => gui = "idle"
    /\ \E opened \in SUBSET DOMAIN sets : \E short \in SUBSET opened :
          sets' = Written(sets, truncate, opened, short)
    /\ UNCHANGED <<layout, locked, held, recording, doReset, cbuf, sample, daqFailed, pc, gui, tzero,
                   arrived>>

\* record_cb and record_csf.
ToggleRecording ==
    /\ CommandTime /\ ~held
    /\ recording' = ~recording
    /\ UNCHANGED <<layout, sets, locked, held, doReset, cbuf, sample, daqFailed, pc, gui, tzero, ops,
                   arrived>>
-----------------------------------------------------------------------------
(* The GUI thread: clear_buffer.                                           *)

\* clear_cb or clear_csf, up to the test for unsaved points.
GuiClear(confirm, tz) ==
    /\ gui = "idle" /\ Operation
    /\ tzero' = tz
    /\ gui' = IF ~confirm THEN "confirmed" ELSE IF Unsaved(sets) THEN "asking" ELSE "clearing"
    /\ UNCHANGED <<layout, sets, locked, held, recording, doReset, cbuf, sample, daqFailed, pc,
                   arrived>>

GuiAnswer(yes) ==
    /\ gui = "asking"
    /\ gui' = IF yes THEN "confirmed" ELSE "idle"
    /\ UNCHANGED <<layout, sets, locked, held, recording, doReset, cbuf, sample, daqFailed, pc,
                   tzero, ops, arrived>>

\* The exchange of the buffer; then both runlevels leave HOLD.
GuiExchange ==
    /\ gui \in {"clearing", "confirmed"}
    /\ sets' = <<NewSet(layout)>>
    /\ locked' = FALSE
    /\ held' = FALSE
    /\ doReset' = (doReset \/ tzero)
    /\ cbuf' = IF tzero THEN Outdated ELSE cbuf
    /\ sample' = IF tzero THEN "old" ELSE sample
    /\ gui' = "idle"
    /\ tzero' = FALSE
    /\ arrived' = FALSE
    /\ UNCHANGED <<layout, recording, daqFailed, pc, ops>>

\* The panel is left and, with perhaps other channels, shown again: buffer_update asks
\* what to do with points which do not fit, and asks again if they are not saved.
NewSession ==
    /\ gui = "idle" /\ pc = "acquire" /\ Operation
    /\ layout' \in Layouts
    /\ IF TotalPts(sets) = 0
       THEN sets' = <<NewSet(layout')>> /\ locked' = FALSE
       ELSE IF sets[1].cols = layout'
            THEN UNCHANGED sets /\ locked' = FALSE
            ELSE \/ sets' = <<NewSet(layout')>> /\ locked' = FALSE
                 \/ UNCHANGED sets /\ locked' = TRUE
    /\ held' = locked'
    /\ recording' = FALSE
    /\ cbuf' = <<>>
    /\ sample' = "old"
    /\ daqFailed' = FALSE
    /\ UNCHANGED <<doReset, pc, gui, tzero, arrived>>
-----------------------------------------------------------------------------
Next ==
    \/ DaqAcquire \/ DaqFail \/ DaqAcquireNothing \/ DaqReset \/ DaqRecord
    \/ \E k \in 0 .. 1 : DaqScan(k)
    \/ NewSetCommand \/ TimeZero \/ ToggleRecording
    \/ \E b \in BOOLEAN : Save(b) \/ GuiAnswer(b) \/ (\E tz \in BOOLEAN : GuiClear(b, tz))
    \/ GuiExchange \/ NewSession

Spec == Init /\ [][Next]_vars
-----------------------------------------------------------------------------
TypeOK ==
    /\ layout \in Layouts
    /\ sets \in Seq(VarSet)
    /\ Bounded(sets)
    /\ locked \in BOOLEAN
    /\ held \in BOOLEAN
    /\ recording \in BOOLEAN
    /\ doReset \in BOOLEAN
    /\ cbuf \in BoundedSeq({"fresh", "old"}, CbufLen)
    /\ sample \in {"fresh", "old"}
    /\ daqFailed \in BOOLEAN
    /\ pc \in {"acquire", "record"}
    /\ gui \in {"idle", "asking", "clearing", "confirmed"}
    /\ tzero \in BOOLEAN
    /\ ops \in 0 .. MaxOps
    /\ arrived \in BOOLEAN

\* The buffer is never without a set, and only its last set may be empty: the GUI
\* thread counts sets as N_set less one when the last is empty, and active_vsp takes
\* the last one to record in.
OnlyLastEmpty == sets # <<>> /\ \A i \in 1 .. Len(sets) - 1 : sets[i].n > 0

\* A point is appended only to a set with its columns (append_point: "pt better have
\* the right length"): while anything may be recorded, every set has the columns of
\* the channels ("If not, no additional data can be recorded until the buffer is
\* manually cleared").
PointsFit == recording \/ ~held => \A i \in DOMAIN sets : sets[i].cols = layout

\* Both: whoever adds sets and appends points finds the sets in order.
SetsInOrder == OnlyLastEmpty /\ PointsFit

\* What is called saved is in the file, but for three causes: a scan appended to a set
\* which was saved empty, a save which truncated the file and then could not open it
\* for every set, and a write which fell short.
SavedIsWritten == \A i \in DOMAIN sets : sets[i].saved /\ ~sets[i].doubt => sets[i].written = sets[i].n

\* clear_buffer discards points which are in no file only when the user or the
\* client agreed, apart from the sets in doubt and from points which arrive between
\* its test and the exchange.
NothingLostUnasked ==
    gui = "clearing" /\ ~arrived =>
        \A i \in DOMAIN sets : sets[i].doubt \/ sets[i].written = sets[i].n

\* After T=0, whoever asked for it and at whatever place in the pass, no point is
\* recorded with times from before it, averaged or not (run_recording: "avoid
\* averaging old time() data").  After a failed acquisition run_recording goes on with
\* the last sample, however old: that is the exception.
NoOldTimes == pc = "record" /\ ~doReset /\ ~daqFailed => sample = "fresh"
-----------------------------------------------------------------------------
(* The inductive invariant behind the safety properties, without the       *)
(* bounds.                                                                 *)

PointSet == [cols : Layouts, n : Nat, saved : BOOLEAN, written : Nat, doubt : BOOLEAN]

\* Sets with points, perhaps but the last, and no more points in the file than there
\* are; what is called saved, and not in doubt, is written.
Sound(s) ==
    /\ s \in Seq(PointSet)
    /\ s # <<>>
    /\ \A i \in 1 .. Len(s) - 1 : s[i].n > 0
    /\ \A i \in 1 .. Len(s) : s[i].written <= s[i].n
    /\ \A i \in 1 .. Len(s) : s[i].saved /\ ~s[i].doubt => s[i].written = s[i].n

\* All sets have the same columns, those of the channels unless the buffer is locked.
Columns(s) ==
    /\ \A i \in 1 .. Len(s) : s[i].cols = s[1].cols
    /\ ~locked => \A i \in 1 .. Len(s) : s[i].cols = layout

InFile(s) == \A i \in 1 .. Len(s) : s[i].doubt \/ s[i].written = s[i].n

\* While the buffer is locked the runlevels are at HOLD, where nothing is recorded; a
\* failed acquisition brings them there as well.
LockedOnHold == (locked => held) /\ (held => ~recording /\ (locked \/ daqFailed))

FreshOrReset == doReset \/ \A i \in DOMAIN cbuf : cbuf[i] = "fresh"

Types ==
    /\ layout \in Layouts
    /\ locked \in BOOLEAN /\ recording \in BOOLEAN /\ doReset \in BOOLEAN /\ arrived \in BOOLEAN
    /\ cbuf \in Seq({"fresh", "old"}) /\ daqFailed \in BOOLEAN

BufferInv ==
    /\ Types
    /\ Sound(sets)
    /\ Columns(sets)
    /\ LockedOnHold
    /\ gui = "clearing" /\ ~arrived => InFile(sets)
    /\ FreshOrReset
    /\ NoOldTimes
=============================================================================
