--------------------------------- MODULE Daq ---------------------------------
(***************************************************************************)
(* The DAQ boards: src/lib/hardware/daq.c, daq_point_io.c and daq_scan.c   *)
(* (the COMEDI build), the scan arrays of src/main/tool/scope.c and the    *)
(* scope part of src/main/thread/acquire_sub.c, as the DAQ thread drives   *)
(* them: boards are connected on the setup page, a panel session reads its *)
(* channels once a cycle, and a scan moves the samples of every board      *)
(* through scan_buffer into the rows of the panel's data.                  *)
(*                                                                         *)
(* Sample k of a scan is the number k.  A reading is only told apart by    *)
(* being of this cycle or of an earlier one.  Each board has one output.   *)
(* How the GUI thread may interrupt a session is in Runlevel.              *)
(***************************************************************************)
EXTENDS Integers, Sequences, FiniteSets, Functions

CONSTANTS
    NBoards,        \* M2_NUM_DAQ
    AiChan,         \* board -> its AI channels
    Uses,           \* for the outputs which channels write: the sets of inputs others read
    PointCounts,    \* the values of floor(total_time * rate)
    Ring,           \* ai.buffer_size, in samples
    Loops,          \* loop intervals, in sample periods
    DummyInterval,  \* read_interval of a virtual board, in sample periods
    ProgInterval,   \* 1 / M2_SCOPE_PROGRESS_RATE, in sample periods
    Outputs,        \* the boards with an output
    Links,          \* output -> the followers it may be given
    Volts,          \* output voltages; 0 is among them
    Hardware        \* board -> what may be found at its node: "absent", "dummy", "real"

Boards == 0..(NBoards - 1)
Inputs == {bc \in Boards \X UNION {AiChan[b] : b \in Boards} : bc[2] \in AiChan[bc[1]]}

ASSUME DaqAssumption ==
    /\ NBoards \in Nat \ {0}
    /\ \A b \in Boards : AiChan[b] \subseteq Nat /\ IsFiniteSet(AiChan[b])
    /\ PointCounts \subseteq Nat
    /\ Ring \in Nat /\ DummyInterval \in Nat /\ ProgInterval \in Nat
    /\ Loops \subseteq Nat \ {0}
    /\ Outputs \subseteq Boards
    /\ \A o \in Outputs : Links[o] \subseteq Outputs
    /\ \A o \in DOMAIN Uses : o \subseteq Outputs /\ Uses[o] \subseteq SUBSET Inputs
    /\ 0 \in Volts
    /\ \A b \in Boards : Hardware[b] \subseteq {"absent", "dummy", "real"}

VARIABLES
    pc,         \* where the DAQ thread is
    kind,       \* is_connected and is_real of each board
    want,       \* the inputs the panel's channels are computed from
    req,        \* the channels with AnalogChannel.req
    multi,      \* multi_chan, the list the device reads
    reading,    \* known and voltage of each input: "none", "old" or "fresh"
    got,        \* what daq_AI_read gave in this cycle
    missed,     \* boards whose device failed when a channel was added
    daqFailed,  \* daq_failed of run_daq_thread
    ao,         \* known and voltage of each output, as the board records them
    level,      \* the voltage on each output
    outs,       \* the outputs which channels write, a channel each
    follow,     \* the output which ComputeFunc.sub_cf writes, -1 for none
    board,      \* the scan part of DaqBoard
    scan,       \* Scope.scan
    master,     \* Scope.master_id
    dev,        \* the acquiring devices: samples made, samples fetched
    counter,    \* ScanVars.counter, the same for every board
    loop,       \* loop_interval
    pulse,      \* pulse_vci: the output to pulse, -1 for none
    target,     \* pulse_target
    original,   \* pulse_original
    before,     \* history: the outputs when the scan was started
    touched,    \* history: outputs written during the scan, not as the pulse
    excused,    \* history: the scan's pulse could not be undone
    startFailed,\* history: a scan failed to start since the scans were prepared
    fault       \* history: what the program cannot survive

pointVars == <<kind, want, req, multi, reading, got, missed, daqFailed>>
levelVars == <<ao, level>>
outVars   == <<levelVars, outs, follow>>
scanVars  == <<board, scan, master, dev>>
loopVars  == <<counter, loop>>
pulseVars == <<pulse, target, original, before, touched, excused>>
vars == <<pc, pointVars, outVars, scanVars, loopVars, pulseVars, startFailed, fault>>

Junk == -2   \* what malloc leaves in scan_buffer

----------------------------------------------------------------------------
(* Point input and output.                                                 *)

Connected(b) == kind[b] # "absent"

\* The list daq_AI_read regenerates from the req flags, in channel order.
Regenerate(r) == CHOOSE s \in [1 .. Cardinality(r) -> r] : \A j, k \in DOMAIN s : j < k => s[j] < s[k]

\* daq_multi_tick of board b with device list l, when the device answers.
Ticked(b, l) ==
    [i \in Inputs |-> IF i[1] = b /\ i[2] \in Range(l) THEN "fresh" ELSE reading[i]]

\* After the cycle every reading is old.
Aged(r) == [i \in Inputs |-> IF r[i] = "fresh" THEN "old" ELSE r[i]]

\* subdevice_connect: nothing is known of the inputs, and the outputs are
\* recorded as 0 V but unknown.
Unknown == [known |-> FALSE, v |-> 0]

NoScan == [prepared |-> FALSE, alloc |-> FALSE, buf |-> <<>>, chans |-> <<>>, npt |-> 0,
           offset |-> 0]
Freed(rec) == [rec EXCEPT !.prepared = FALSE, !.alloc = FALSE, !.buf = <<>>]
Idle   == [made |-> 0, fetched |-> 0]

\* daq_board_connect on the setup page; the device may not open.
Connect(b, k) ==
    /\ pc = "setup"
    /\ kind' = [kind EXCEPT ![b] = k]
    /\ req' = [req EXCEPT ![b] = {}]
    /\ multi' = [multi EXCEPT ![b] = <<>>]
    /\ reading' = [i \in Inputs |-> IF i[1] = b THEN "none" ELSE reading[i]]
    /\ ao' = [o \in Outputs |-> IF o = b THEN Unknown ELSE ao[o]]
    /\ board' = [board EXCEPT ![b] = Freed(@)]
    /\ UNCHANGED <<pc, want, got, missed, daqFailed, level, outs, follow, scan, master, dev, loopVars,
                   pulseVars, startFailed, fault>>

\* run_acquisition, first half: daq_multi_tick of every board in turn, up to
\* the first failure (refusing is the set of devices which would fail).  After
\* a failure run_acquisition is not called again in the session.
Cycle(refusing) ==
    LET fails == {b \in refusing : kind[b] = "real" /\ multi[b] # <<>>}
        ticked == {b \in Boards : \A f \in fails : b < f}
        read == [i \in Inputs |-> IF i[1] \in ticked /\ i[2] \in Range(multi[i[1]])
                                  THEN "fresh" ELSE reading[i]]
    IN  /\ pc = "react" /\ ~daqFailed
        /\ daqFailed' = (fails # {})
        /\ IF daqFailed' THEN pc' = "react" /\ reading' = Aged(read)
                         ELSE pc' = "read" /\ reading' = read
        /\ UNCHANGED <<kind, want, req, multi, got, missed, outVars, scanVars, loopVars, pulseVars,
                       startFailed, fault>>

\* run_acquisition, second half: the channels are computed, and each input
\* they use is read by daq_AI_read.  The first time, the input joins the
\* device list and the board is read at once; that result is not looked at.
Read(i, answers) ==
    LET b == i[1]
        r == req[b] \union {i[2]}
        added == Connected(b) /\ i[2] \notin req[b]
    IN  /\ pc = "read"
        /\ i \in want /\ got[i] = "none"
        /\ req' = IF added THEN [req EXCEPT ![b] = r] ELSE req
        /\ multi' = IF added THEN [multi EXCEPT ![b] = Regenerate(r)] ELSE multi
        /\ reading' = IF added /\ answers THEN Ticked(b, multi'[b]) ELSE reading
        /\ missed' = IF added /\ ~answers THEN missed \union {b} ELSE missed
        /\ answers \/ (added /\ kind[b] = "real")
        /\ got' = [got EXCEPT ![i] =
                     IF ~Connected(b) \/ reading'[i] = "none" THEN "unknown" ELSE reading'[i]]
        /\ UNCHANGED <<pc, kind, want, daqFailed, outVars, scanVars, loopVars, pulseVars, startFailed, fault>>

EndOfRead ==
    /\ pc = "read"
    /\ \A i \in want : got[i] # "none"
    /\ pc' = "react"
    /\ got' = [i \in Inputs |-> "none"]
    /\ missed' = {}
    /\ reading' = Aged(reading)
    /\ UNCHANGED <<kind, want, req, multi, daqFailed, outVars, scanVars, loopVars, pulseVars,
                   startFailed, fault>>

\* The outputs reached from o, itself among them, along followers.
Reach(o) == {x \in Outputs : \A T \in SUBSET Outputs :
                o \in T /\ (\A y \in T : follow[y] # -1 => follow[y] \in T) => x \in T}

\* The outputs which compute_function_write goes on to when it writes o.
Trail(o) == IF follow[o] = -1 THEN {} ELSE Reach(follow[o])

\* compute_function_write of v to o, then to the followers, of the voltages w which
\* their expressions yield, as far as all writes are taken.  The record follows the
\* output.  (Around a ring of followers the writes end with one that is not taken, or
\* never, and then the program does nothing more.)
Write(o, v, taken) ==
    /\ Connected(o)
    /\ taken \/ kind[o] = "real"
    /\ IF ~taken THEN UNCHANGED levelVars
       ELSE \E S \in SUBSET Trail(o) : \E w \in [S -> Volts] :
            /\ \A x \in S : Connected(x) /\ (x = follow[o] \/ \E y \in S : follow[y] = x)
            /\ level' = [x \in Outputs |-> IF x \in S THEN w[x] ELSE IF x = o THEN v ELSE level[x]]
            /\ ao' = [x \in Outputs |-> IF x \in S \union {o} THEN [known |-> TRUE, v |-> level'[x]]
                                        ELSE ao[x]]

\* A sweep step, or set_dac from the terminal or a trigger, writes an output; only the
\* former waits for the end of a scan.
WriteOutput(b, v, taken) ==
    /\ pc \in {"react", "scan"}
    /\ b \in outs
    /\ Write(b, v, taken)
    /\ touched' = IF pc = "scan" THEN touched \union {b} \union Trail(b) ELSE touched
    /\ UNCHANGED <<pc, pointVars, outs, follow, scanVars, loopVars, pulse, target, original, before,
                   excused, startFailed, fault>>

\* set_follower_csf: the ring is not refused.
SetFollower(o, f) ==
    /\ pc \in {"setup", "react", "scan"}
    /\ o \in outs /\ f \in Links[o] \union {-1}
    /\ follow' = [follow EXCEPT ![o] = f]
    /\ UNCHANGED <<pc, pointVars, levelVars, outs, scanVars, loopVars, pulseVars, startFailed, fault>>

----------------------------------------------------------------------------
(* Preparing scans.                                                        *)

\* daq_SCAN_prepare, when it accepts a scan of the channels cs and n points.
Prepared(cs, n) ==
    [NoScan EXCEPT !.prepared = TRUE, !.chans = cs, !.npt = n]

\* A device may also refuse, or ask for another rate; a virtual board never.
\* Whatever happens, the buffer of an earlier scan is gone.
Refused(b, cs, n) ==
    IF cs = <<>> THEN Freed(board[b]) ELSE Freed(Prepared(cs, n))

\* The possible values of Scan.status for board b.
Statuses(b, cs) ==
    IF ~Connected(b) \/ cs = <<>> THEN {0}
    ELSE IF kind[b] = "dummy" THEN {1} ELSE {0, 1, 4}

BoardAfterPrepare(b, s) ==
    IF ~Connected(b) THEN board[b]
    ELSE IF s.status = 1 THEN Prepared(s.chans, s.npt) ELSE Refused(b, s.chans, s.npt)

\* reduce_chanset: the inputs of board b which a scan must record.
ScanChans(b, w) == Regenerate({c \in AiChan[b] : Connected(b) /\ <<b, c>> \in w})

\* verify_timescale: prepare every board, and follow the longest scan.
VerifyTimescale(w) ==
    LET chans == [b \in Boards |-> ScanChans(b, w)]
    IN  \E status \in [Boards -> {0, 1, 4}], n \in PointCounts :
        /\ \A b \in Boards : status[b] \in Statuses(b, chans[b])
        /\ scan' = [b \in Boards |-> [status |-> status[b], npt |-> n, chans |-> chans[b]]]
        /\ board' = [b \in Boards |-> BoardAfterPrepare(b, scan'[b])]
        /\ LET good == {b \in Boards : status[b] = 1}
           IN  IF good = {} THEN master' = -1 ELSE master' \in good
        /\ startFailed' = FALSE

\* run_gui_thread builds the channels and updates the scope, then the DAQ
\* thread begins.
EnterPanel(w, l) ==
    /\ pc = "setup"
    /\ want' = w
    /\ daqFailed' = FALSE
    /\ loop' = l
    /\ VerifyTimescale(w)
    /\ pc' = "react"
    /\ UNCHANGED <<kind, req, multi, reading, got, missed, outVars, dev, counter, pulseVars, fault>>

\* timescale_cb and timescale_mcf, which do nothing during a scan.
ChangeTimescale ==
    /\ pc = "react"
    /\ VerifyTimescale(want)
    /\ UNCHANGED <<pc, pointVars, outVars, dev, loopVars, pulseVars, fault>>

\* daq_multi_reset without the loop over req: the list stays empty.
BugLeavePanel ==
    /\ pc = "react"
    /\ pc' = "setup"
    /\ multi' = [b \in Boards |-> IF Connected(b) THEN <<>> ELSE multi[b]]
    /\ reading' = Aged(reading)
    /\ want' = {}
    /\ UNCHANGED <<kind, req, got, missed, daqFailed, outVars, scanVars, loopVars, pulseVars,
                   startFailed, fault>>

\* The end of run_daq_thread: daq_multi_reset of every board.
LeavePanel ==
    /\ pc = "react"
    /\ pc' = "setup"
    /\ req' = [b \in Boards |-> IF Connected(b) THEN {} ELSE req[b]]
    /\ multi' = [b \in Boards |-> IF Connected(b) THEN <<>> ELSE multi[b]]
    /\ reading' = Aged(reading)
    /\ want' = {}
    /\ UNCHANGED <<kind, got, missed, daqFailed, outVars, scanVars, loopVars, pulseVars, startFailed,
                   fault>>

----------------------------------------------------------------------------
(* Scans.                                                                  *)

Scanned == {b \in Boards : scan[b].status = 1}
Total(b) == Len(board[b].chans) * board[b].npt   \* scan_total

\* request_pulse: refused while the present value is unknown.
RequestPulse(b, v) ==
    /\ pc \in {"react", "scan"}
    /\ b # -1 => b \in outs /\ Connected(b) /\ ao[b].known
    /\ pulse' = b
    /\ target' = IF b = -1 THEN target ELSE v
    /\ excused' = (excused \/ pc = "scan")
    /\ UNCHANGED <<pc, pointVars, outVars, scanVars, loopVars, original, before, touched, startFailed,
                   fault>>

\* The interval without the safety factor of 4.
BugReadInterval(b) ==
    IF kind[b] = "dummy" THEN DummyInterval ELSE Ring \div Len(scan[b].chans)

\* compute_intervals: how many cycles pass between two reads of a board, and
\* between two reports of progress.
ReadInterval(b) ==
    IF kind[b] = "dummy" THEN DummyInterval ELSE Ring \div (4 * Len(scan[b].chans))
ReadMult(b) == ReadInterval(b) \div loop
ProgMult == ProgInterval \div loop

\* daq_SCAN_start allocates the buffer, resets the timer and starts the device.
Started(b) == [board[b] EXCEPT !.alloc = TRUE, !.buf = [j \in 0..(Total(b) - 1) |-> Junk]]

\* n samples, the first of them sample number first, stored from place at on.
Place(rec, at, first, n) ==
    [rec EXCEPT !.buf = [j \in DOMAIN rec.buf |->
        IF j \in at..(at + n - 1) THEN first + j - at ELSE rec.buf[j]]]

\* The second read() stores where the first did.
BugStored(rec, first, n1, n) ==
    [Place(Place(rec, rec.offset, first, n1), rec.offset, first + n1, n - n1)
        EXCEPT !.offset = @ + n]

\* daq_SCAN_read of n samples: a first read(), which may bring only n1 of
\* them, then a second one for the rest.
Stored(rec, first, n1, n) ==
    [Place(Place(rec, rec.offset, first, n1), rec.offset + n1, first + n1, n - n1)
        EXCEPT !.offset = @ + n]

\* A virtual board computes what belongs in the places from offset on; a
\* device yields its samples in order.
FirstSample(b, d) == IF kind[b] = "dummy" THEN board[b].offset ELSE d.fetched

\* A read() past the end of scan_buffer, or into no buffer at all.
Overflows(b, rec, n) == n > 0 /\ (~rec.alloc \/ rec.offset + n > Total(b))

\* Saved points, rounded up.
BugSaved(rec) ==
    IF rec.chans = <<>> THEN 0 ELSE (rec.offset + Len(rec.chans) - 1) \div Len(rec.chans)

\* Saved points: the ones with all their samples.
Saved(rec) == IF rec.chans = <<>> THEN 0 ELSE rec.offset \div Len(rec.chans)

\* The pulse is written before the value is saved.
BugPulse(taken) ==
    IF pulse = -1 \/ ~Connected(pulse)
    THEN taken /\ UNCHANGED <<levelVars, original>>
    ELSE original' = target /\ Write(pulse, target, taken)

\* The pulse of run_scope_start: the value is saved and the target written.
Pulse(taken) ==
    IF pulse = -1 \/ ~Connected(pulse)
    THEN taken /\ UNCHANGED <<levelVars, original>>
    ELSE original' = ao[pulse].v /\ Write(pulse, target, taken)

\* run_scope_start and scan_array_start: the boards are started in turn.
StartScan(taken) ==
    /\ pc = "react"
    /\ master # -1
    /\ Pulse(taken)
    /\ board' = [b \in Boards |-> IF b \in Scanned THEN Started(b) ELSE board[b]]
    /\ dev' = [b \in Boards |-> Idle]
    /\ counter' = 0
    /\ before' = level
    /\ touched' = IF pulse = -1 THEN {} ELSE Trail(pulse)
    /\ excused' = (pulse # -1 /\ ~ao[pulse].known)
    /\ pc' = "scan"
    /\ UNCHANGED <<pointVars, outs, follow, scan, master, loop, pulse, target, startFailed, fault>>

\* The start fails at board f: scan_array_stop is then called for every
\* prepared board, the ones which never started included, and no scan is
\* prepared again.  A virtual board which never started counts samples on its
\* timer nevertheless, and stores them where its buffer should be.
StartFails(f, taken, half) ==
    LET started == {b \in Scanned : b < f}
        after(b) == IF b \in started \/ b = f THEN Started(b) ELSE board[b]
        upTo(b) == IF half THEN Total(b) \div 2 ELSE Total(b)
        more(b) == IF kind[b] = "real" THEN (IF b \in started THEN upTo(b) ELSE 0)
                   ELSE IF upTo(b) > board[b].offset THEN upTo(b) - board[b].offset ELSE 0
        lost == {b \in Scanned : Overflows(b, after(b), more(b))}
        first(b) == IF kind[b] = "dummy" THEN board[b].offset ELSE 0
    IN  /\ pc = "react"
        /\ master # -1
        /\ f \in Scanned /\ kind[f] = "real"
        /\ Pulse(taken)
        /\ board' = [b \in Boards |->
              IF b \in Scanned /\ lost = {}
              THEN Stored(after(b), first(b), more(b), more(b)) ELSE after(b)]
        /\ startFailed' = TRUE
        /\ fault' = IF lost = {} THEN "none" ELSE "no_place"
        /\ pc' = IF lost = {} THEN "react" ELSE "fault"
        /\ UNCHANGED <<pointVars, outs, follow, scan, master, dev, loopVars, pulse, target, before,
                       touched, excused>>

\* A cycle may take longer than loop_interval, but not twice as long.
Jitter == 2
Made(b, m) ==
    LET new == dev[b].made + m * Len(board[b].chans) * loop
    IN  IF new > Total(b) THEN Total(b) ELSE new

\* run_scope_continue during the scan: scan_array_read, then the progress.
ScanCycle(m, half) ==
    LET due == {b \in Scanned : counter # 0 /\ counter % ReadMult(b) = 0}
        fresh(b) == Made(b, m) - dev[b].fetched
        first(b) == IF half THEN fresh(b) \div 2 ELSE fresh(b)
        overrun == {b \in Scanned : kind[b] = "real" /\ fresh(b) > Ring}
        lost == {b \in Scanned : Overflows(b, board[b], fresh(b))}
    IN  /\ pc = "scan"
        /\ \E b \in Scanned : (master \in Scanned => b = master) /\ dev[b].made < Total(b)
        /\ IF ProgMult = 0 \/ \E b \in Scanned : ReadMult(b) = 0
           THEN fault' = "zero_interval" /\ UNCHANGED <<board, dev, counter>>
           ELSE IF overrun # {}
           THEN fault' = "overrun" /\ UNCHANGED <<board, dev, counter>>
           ELSE IF due \intersect lost # {}
           THEN fault' = "no_place" /\ UNCHANGED <<board, dev, counter>>
           ELSE /\ fault' = "none"
                /\ counter' = counter + 1
                /\ dev' = [b \in Boards |->
                      [made    |-> IF b \in Scanned THEN Made(b, m) ELSE 0,
                       fetched |-> IF b \in due THEN Made(b, m) ELSE dev[b].fetched]]
                /\ board' = [b \in Boards |->
                      IF b \in due
                      THEN Stored(board[b], FirstSample(b, dev[b]), first(b), fresh(b))
                      ELSE board[b]]
        /\ pc' = IF fault' = "none" THEN "scan" ELSE "fault"
        /\ UNCHANGED <<pointVars, outVars, scan, master, loop, pulseVars, startFailed>>

\* How many samples a board has given when its scan is stopped: the retries
\* of daq_SCAN_stop may have brought nothing more, nearly everything, or all.
Given(b, late) ==
    IF b \notin Scanned THEN 0
    ELSE IF late = "all" THEN Total(b)
    ELSE IF late = "most" /\ dev[b].made < Total(b) THEN Total(b) - 1
    ELSE dev[b].made

\* The end of the scan, or its cancellation: scan_array_stop reads what the
\* devices made up to now or make during its retries, then the pulse is undone.
StopScan(late, taken) ==
    LET n == [b \in Boards |-> Given(b, late[b])]
        more(b) == n[b] - dev[b].fetched
        lost == {b \in Scanned : Overflows(b, board[b], more(b))}
    IN  /\ pc = "scan"
        /\ \A b \in Boards \ Scanned : late[b] = "none"
        /\ IF lost # {}
           THEN /\ fault' = "no_place" /\ pc' = "fault" /\ taken
                /\ UNCHANGED <<levelVars, board, dev, touched, excused>>
           ELSE /\ board' = [b \in Boards |->
                       IF b \in Scanned
                       THEN Stored(board[b], FirstSample(b, dev[b]), more(b), more(b))
                       ELSE board[b]]
                /\ dev' = [b \in Boards |-> [made |-> n[b], fetched |-> n[b]]]
                /\ IF pulse = -1 \/ ~Connected(pulse)
                   THEN taken /\ UNCHANGED <<levelVars, touched>>
                   ELSE /\ Write(pulse, original, taken)
                        /\ touched' = touched \union Trail(pulse)
                /\ excused' = (excused \/ ~taken)
                /\ fault' = "none" /\ pc' = "process"
        /\ UNCHANGED <<pointVars, outs, follow, scan, master, loopVars, pulse, target, original, before,
                       startFailed>>

Zero == -3

\* daq_AI_convert: 0 for an input which is not in the scan, and for the
\* points an interrupted scan did not reach.
Convert(b, c, pt) ==
    LET cs == board[b].chans
        pci == (CHOOSE k \in DOMAIN cs : cs[k] = c) - 1
    IN  IF ~Connected(b) \/ c \notin Range(cs) \/ pt >= Saved(board[b]) THEN Zero
        ELSE board[b].buf[pci + Len(cs) * pt]

\* scan_array_process: for each board in turn, a row for each of its points,
\* with every channel in it; then its scan is prepared again, which may round
\* a point away.  The boards before it have been prepared again already.
Rows == [b \in Scanned |->
           [pt \in 0..(scan[b].npt - 1) |->
              [i \in want |-> IF i[1] \in Scanned /\ i[1] < b THEN Zero
                              ELSE Convert(i[1], i[2], pt)]]]

Process(status, rounded) ==
    LET s == [b \in Boards |->
                IF b \in Scanned
                THEN [scan[b] EXCEPT !.status = status[b],
                                     !.npt = IF rounded /\ @ - 1 \in PointCounts THEN @ - 1 ELSE @]
                ELSE scan[b]]
    IN  /\ pc = "process"
        /\ \A b \in Boards : status[b] \in (IF b \in Scanned THEN Statuses(b, scan[b].chans) ELSE {0})
        /\ scan' = s
        /\ board' = [b \in Boards |-> IF b \in Scanned THEN BoardAfterPrepare(b, s[b]) ELSE board[b]]
        /\ dev' = [b \in Boards |-> Idle]
        /\ counter' = 0
        /\ before' = [b \in Outputs |-> 0]
        /\ touched' = {}
        /\ excused' = FALSE
        /\ startFailed' = FALSE
        /\ pc' = "react"
        /\ UNCHANGED <<pointVars, outVars, master, loop, pulse, target, original, fault>>

----------------------------------------------------------------------------
Init ==
    /\ pc = "setup"
    /\ kind = [b \in Boards |-> "absent"]
    /\ want = {}
    /\ req = [b \in Boards |-> {}]
    /\ multi = [b \in Boards |-> <<>>]
    /\ reading = [i \in Inputs |-> "none"]
    /\ got = [i \in Inputs |-> "none"]
    /\ missed = {}
    /\ daqFailed = FALSE
    /\ outs \in DOMAIN Uses
    /\ follow = [b \in Outputs |-> -1]
    /\ ao = [b \in Outputs |-> Unknown]
    /\ level = [b \in Outputs |-> 0]
    /\ board = [b \in Boards |-> NoScan]
    /\ scan = [b \in Boards |-> [status |-> 0, npt |-> 0, chans |-> <<>>]]
    /\ master = -1
    /\ dev = [b \in Boards |-> Idle]
    /\ counter = 0
    /\ loop \in Loops
    /\ pulse = -1 /\ target = 0 /\ original = 0
    /\ before = level
    /\ touched = {}
    /\ excused = FALSE
    /\ startFailed = FALSE
    /\ fault = "none"

Connecting == \E b \in Boards : \E k \in Hardware[b] : Connect(b, k)
Entering   == \E w \in Uses[outs], l \in Loops : EnterPanel(w, l)
Cycling    == \E refusing \in SUBSET Boards : Cycle(refusing)
Reading    == \E i \in Inputs, answers \in BOOLEAN : Read(i, answers)
Writing    == \E b \in Outputs, v \in Volts, taken \in BOOLEAN : WriteOutput(b, v, taken)
Following  == \E o \in Outputs, f \in Outputs \union {-1} : SetFollower(o, f)
Requesting == \E b \in Outputs \union {-1}, v \in Volts : RequestPulse(b, v)
Starting   == \E taken \in BOOLEAN : StartScan(taken)
Failing    == \E f \in Boards, taken, half \in BOOLEAN : StartFails(f, taken, half)
Scanning   == \E m \in 1..Jitter, half \in BOOLEAN : ScanCycle(m, half)
Stopping   == \E late \in [Boards -> {"none", "most", "all"}], taken \in BOOLEAN :
                 StopScan(late, taken)
Processing == \E s \in [Boards -> {0, 1, 4}], rounded \in BOOLEAN : Process(s, rounded)

Next ==
    \/ Connecting \/ Entering \/ ChangeTimescale \/ LeavePanel
    \/ Cycling \/ Reading \/ EndOfRead \/ Writing \/ Following \/ Requesting
    \/ Starting \/ Failing \/ Scanning \/ Stopping \/ Processing

Spec == Init /\ [][Next]_vars

----------------------------------------------------------------------------
(* Properties.                                                             *)

TypeOK ==
    /\ pc \in {"setup", "react", "read", "scan", "process", "fault"}
    /\ \A b \in Boards :
         /\ kind[b] \in {"absent", "dummy", "real"}
         /\ req[b] \subseteq AiChan[b] /\ Range(multi[b]) \subseteq AiChan[b]
         /\ board[b].prepared \in BOOLEAN /\ board[b].alloc \in BOOLEAN
         /\ scan[b].status \in {0, 1, 4}
         /\ dev[b].fetched \in 0..dev[b].made
    /\ reading \in [Inputs -> {"none", "old", "fresh"}]
    /\ got \in [Inputs -> {"none", "old", "fresh", "unknown"}]
    /\ want \subseteq Inputs /\ missed \subseteq Boards
    /\ ao \in [Outputs -> [known : BOOLEAN, v : Volts]] /\ level \in [Outputs -> Volts]
    /\ master \in Boards \union {-1} /\ pulse \in Outputs \union {-1}
    /\ counter \in Nat /\ loop \in Loops
    /\ {target, original} \subseteq Volts
    /\ outs \in DOMAIN Uses /\ follow \in [Outputs -> Outputs \union {-1}] /\ touched \subseteq Outputs
    /\ daqFailed \in BOOLEAN /\ excused \in BOOLEAN /\ startFailed \in BOOLEAN
    /\ fault \in {"none", "no_place", "overrun", "zero_interval"}

\* No sample is stored outside scan_buffer and no ring of a device runs over
\* between two reads, whatever the loop interval and the channels, unless a
\* scan failed to start since the scans were prepared (run_scope_start leaves
\* such boards half stopped).  An interval of 0 is the fault left: the slowest
\* max_rate gives one, and compute_intervals does not see to it.
NoOverrun == fault \in {"no_place", "overrun"} => startFailed

\* Sample j is at place j of scan_buffer, whatever the reads brought at a
\* time: AI_convert relies on it to tell the channels apart.
SamplesInPlace ==
    startFailed \/ \A b \in Boards : board[b].alloc =>
        /\ board[b].offset <= Total(b)
        /\ \A j \in 0..(board[b].offset - 1) : board[b].buf[j] = j

\* The rows of a scan hold, for each board, the samples of its own inputs in
\* order for all the points that were complete when it stopped, and 0 after.
RowsAreSamples ==
    pc = "process" /\ ~startFailed =>
        \A b \in Scanned : \A pt \in DOMAIN Rows[b], k \in DOMAIN scan[b].chans :
            LET n == Len(scan[b].chans)
            IN  Rows[b][pt][<<b, scan[b].chans[k]>>] =
                    IF pt < dev[b].fetched \div n THEN pt * n + k - 1 ELSE Zero

\* A known reading is of the cycle which uses it, unless the device failed
\* at the moment the channel was added (daq_AI_read drops that result).
NoStaleReading == \A i \in Inputs : got[i] = "old" => i[1] \in missed

\* When a scan is over, each output is what it was before it, whatever sweeps,
\* commands and triggers wrote to the pulsed one, unless it was written as itself
\* or as a follower meanwhile.  The pulse is not undone when a write failed, its
\* value was unknown or the pulse was changed during the scan.
PulseUndone ==
    pc = "process" /\ ~excused => \A o \in Outputs :
        \/ level[o] = before[o]
        \/ IF o = pulse /\ Connected(o) THEN o \in Trail(o) ELSE o \in touched
=============================================================================
