--------------------------------- MODULE Gpib ---------------------------------
(***************************************************************************)
(* The slots of a GPIB board: quantities of instruments which the GPIB     *)
(* thread polls and writes in its own time.  A slot has a local copy, used *)
(* by the GPIB thread, and a global one, used by the DAQ thread;           *)
(* gpib_multi_transfer moves values between them under gpib_mutex.  The    *)
(* DAQ thread holds that mutex in run_acquisition and around the sweeps,   *)
(* but not in set_dac_csf and at a pulse; it adds slots without it, too,   *)
(* when it parses a trigger.                                               *)
(*                                                                         *)
(* A value is the number of the write it comes from: a reading counts as   *)
(* the last write its instrument had received.                             *)
(***************************************************************************)
EXTENDS Integers, Functions

CONSTANTS
    NSlot,     \* bound: slots of the board; slot s belongs to an instrument of its own
    MaxWrites  \* bound: writes in a session

ASSUME GpibAssumption == NSlot \in Nat \ {0} /\ MaxWrites \in Nat

VARIABLES
    board,     \* GpibBoard: not connected, a dummy or a real one
    dev,       \* GpibBoard.dev of the slots' instruments
    slots,     \* GpibBoard.slots: what the pile holds
    occupied,  \* Pile.occupied
    buf,       \* GpibBoard.buf, which all queries share
    mutex,     \* ThreadVars.gpib_mutex: held by the GPIB thread or free
    gpibPc,    \* where the GPIB thread is
    at,        \* Pile.cur
    running,   \* ThreadVars.gpib_running
    paused,    \* ThreadVars.gpib_paused
    daqPc,     \* where the DAQ thread is
    last,      \* the last write to each slot (history)
    sent,      \* the last write each instrument has received
    raced,     \* slots whose last write was overwritten in a race (history)
    mixed      \* slots of which a query met an introduction (history)

gpibVars == <<gpibPc, at, mutex>>
flagVars == <<running, paused>>
busVars  == <<board, dev>>
pileVars == <<slots, occupied>>
historyVars == <<raced, mixed>>
vars == <<busVars, pileVars, buf, gpibVars, flagVars, daqPc, last, sent, historyVars>>

SlotIds == 1 .. NSlot

\* A value which was read out of another instrument's text.
Foreign == -1
Values == {Foreign} \cup 0 .. MaxWrites

GpibSlot == [requestLocal : BOOLEAN, requestGlobal : BOOLEAN,
             knownLocal : BOOLEAN, knownGlobal : BOOLEAN,
             currentLocal : Values, currentGlobal : Values]

\* gpib_slot_add.
NewSlot == [requestLocal |-> FALSE, requestGlobal |-> FALSE,
            knownLocal |-> FALSE, knownGlobal |-> FALSE,
            currentLocal |-> 0, currentGlobal |-> 0]

\* What is in the buffer: a slot's command or its instrument's reply, another text,
\* or nothing.
Content == [kind : {"command", "reply", "text", "empty"}, slot : 0 .. NSlot, n : Values]
Text  == [kind |-> "text", slot |-> 0, n |-> 0]
Empty == [kind |-> "empty", slot |-> 0, n |-> 0]

NoWrites == [s \in SlotIds |-> 0]
NoDevices == [s \in SlotIds |-> "none"]

InPile == 1 .. occupied

Init ==
    /\ board = "off"
    /\ dev = NoDevices
    /\ slots = [s \in SlotIds |-> NewSlot]
    /\ occupied = 0
    /\ buf = Empty
    /\ mutex = "free"
    /\ gpibPc = "off"
    /\ at = 1
    /\ running = FALSE
    /\ paused = FALSE
    /\ daqPc = "off"
    /\ last = NoWrites
    /\ sent = NoWrites
    /\ raced = {}
    /\ mixed = {}
-----------------------------------------------------------------------------
\* gpib_device_connect: a device of a dummy board is always there.
DeviceStates == IF board = "real" THEN {"ok", "failed"} ELSE {"ok"}

MoreWrites == FoldFunction(+, 0, last) < MaxWrites

\* gpib_slot_write.
Written(s) ==
    /\ s \in InPile
    /\ MoreWrites
    /\ last' = [last EXCEPT ![s] = @ + 1]
    /\ slots' = [slots EXCEPT ![s].currentGlobal = last[s] + 1, ![s].knownGlobal = TRUE,
                              ![s].requestGlobal = TRUE]

\* gpib_slot_add: it fails unless the board is connected.
SlotAdded ==
    /\ board # "off"
    /\ occupied < NSlot
    /\ occupied' = occupied + 1
    /\ slots' = [slots EXCEPT ![occupied + 1] = NewSlot]
    /\ \E d \in DeviceStates : dev' = [dev EXCEPT ![occupied + 1] = d]

\* gpib_string_query for slot s, whose device was connected with the slot: the text
\* then in the buffer.  Without the device nothing is written to it.
Replied(s) ==
    IF dev[s] = "failed" THEN {buf}
    ELSE IF board = "real" THEN {[kind |-> "reply", slot |-> s, n |-> sent[s]], Empty}
    ELSE {Empty}
-----------------------------------------------------------------------------
(* The GUI thread.                                                         *)

\* gpib_board_connect, in the setup page.
GuiConnect ==
    /\ daqPc = "off"
    /\ board' \in {"off", "dummy", "real"}
    /\ dev' = NoDevices
    /\ UNCHANGED <<pileVars, buf, gpibVars, flagVars, daqPc, last, sent, historyVars>>

\* gpib_send_recv_csf in the setup page, to any instrument.
GuiQuery ==
    /\ daqPc = "off"
    /\ board # "off"
    /\ buf' \in IF board = "real" THEN {buf, Text, Empty} ELSE {Empty}
    /\ UNCHANGED <<busVars, pileVars, gpibVars, flagVars, daqPc, last, sent, historyVars>>

\* build_chanset adds the slots of the channels, with an introduction each; then the
\* threads are started.
GuiStart ==
    /\ daqPc = "off"
    /\ \E k \in IF board = "off" THEN {0} ELSE 0 .. NSlot :
          /\ occupied' = k
          /\ dev' \in {d \in [SlotIds -> DeviceStates \cup {"none"}] :
                          \A s \in SlotIds : d[s] = "none" <=> s > k}
    /\ slots' = [s \in SlotIds |-> NewSlot]
    /\ buf' \in {buf} \cup CASE board = "real"  -> {Text, Empty}
                             [] board = "dummy" -> {Empty}
                             [] board = "off"   -> {}
    /\ daqPc' = "loop"
    /\ running' = TRUE
    /\ paused' = FALSE
    /\ gpibPc' = "start"
    /\ UNCHANGED <<board, at, mutex, last, sent, historyVars>>

\* gpib_pause_cb, gpib_pause_csf.
GuiPause ==
    /\ daqPc # "off"
    /\ mutex = "free"
    /\ paused' = ~paused
    /\ UNCHANGED <<busVars, pileVars, buf, gpibVars, running, daqPc, last, sent, historyVars>>
-----------------------------------------------------------------------------
(* The DAQ thread.                                                         *)

\* A conditional in a channel or in an armed trigger evaluates a device for the first
\* time: gpib_slot_add.
DaqAdd ==
    /\ daqPc = "loop"
    /\ SlotAdded
    /\ UNCHANGED <<board, buf, gpibVars, flagVars, daqPc, last, sent, historyVars>>

\* trigger_parse evaluates a device for the first time: gpib_slot_add and, when the
\* device can be written, gpib_string_query for an introduction.  The GPIB thread may
\* be in a query of its own.
DaqParse ==
    /\ daqPc = "loop"
    /\ SlotAdded
    /\ \/ /\ dev'[occupied'] = "failed"
          /\ UNCHANGED <<buf, historyVars>>
       \/ /\ dev'[occupied'] = "ok"
          /\ buf' \in IF board = "real" THEN {Text, Empty} ELSE {Empty}
          /\ raced' = IF gpibPc = "send" THEN raced \cup {at} ELSE raced
          /\ mixed' = IF gpibPc = "parse" THEN mixed \cup {at} ELSE mixed
    /\ UNCHANGED <<board, gpibVars, flagVars, daqPc, last, sent>>

\* run_sweep_step writes under gpib_mutex.
DaqSweep(s) ==
    /\ daqPc = "loop"
    /\ mutex = "free"
    /\ Written(s)
    /\ raced' = raced \ {s}
    /\ UNCHANGED <<busVars, occupied, buf, gpibVars, flagVars, daqPc, sent, mixed>>

\* set_dac_csf, run_scope_start and run_scope_continue write without it; one which
\* falls between the test and the end of the copy in gpib_multi_transfer meets a race.
DaqWrite(s) ==
    /\ daqPc = "loop"
    /\ Written(s)
    /\ raced' = IF gpibPc \in {"known", "current"} /\ at = s THEN raced \cup {s}
                                                            ELSE raced \ {s}
    /\ UNCHANGED <<busVars, occupied, buf, gpibVars, flagVars, daqPc, sent, mixed>>

\* The end of run_daq_thread.
DaqStop ==
    /\ daqPc = "loop"
    /\ mutex = "free"
    /\ running' = FALSE
    /\ daqPc' = "join"
    /\ UNCHANGED <<busVars, pileVars, buf, gpibVars, paused, last, sent, historyVars>>

\* The GPIB thread is joined, gpib_board_reset frees the slots; a text in the buffer is
\* from now on one of another session.
DaqJoin ==
    /\ daqPc = "join"
    /\ gpibPc = "off"
    /\ daqPc' = "off"
    /\ occupied' = 0
    /\ slots' = [s \in SlotIds |-> NewSlot]
    /\ dev' = NoDevices
    /\ last' = NoWrites
    /\ sent' = NoWrites
    /\ raced' = {}
    /\ mixed' = {}
    /\ buf' = IF buf = Empty THEN Empty ELSE Text
    /\ UNCHANGED <<board, gpibVars, flagVars>>
-----------------------------------------------------------------------------
(* The GPIB thread.                                                        *)

\* The loop test, except for the first time, and the head of the loop.
GpibTake ==
    /\ gpibPc = "start" \/ (gpibPc = "wait" /\ running)
    /\ mutex = "free"
    /\ IF paused THEN gpibPc' = "message" /\ mutex' = "free"
                 ELSE gpibPc' = "test" /\ mutex' = "gpib"
    /\ at' = 1
    /\ UNCHANGED <<busVars, pileVars, buf, flagVars, daqPc, last, sent, historyVars>>

GpibEnd ==
    /\ gpibPc = "wait"
    /\ mutex = "free"
    /\ ~running
    /\ gpibPc' = "off"
    /\ UNCHANGED <<busVars, pileVars, buf, at, mutex, flagVars, daqPc, last, sent, historyVars>>

\* gpib_multi_transfer which takes a reading before it looks for a request.
BugGpibTransfer ==
    /\ gpibPc = "test"
    /\ at \in InPile
    /\ gpibPc' = "known"
    /\ UNCHANGED <<busVars, pileVars, buf, at, mutex, flagVars, daqPc, last, sent, historyVars>>

\* gpib_multi_transfer, for a slot: a request is handed over, or a reading comes back
\* unless a request is still to be executed.
GpibTransfer ==
    /\ gpibPc = "test"
    /\ at \in InPile
    /\ \/ /\ slots[at].requestGlobal
          /\ slots' = [slots EXCEPT ![at].requestGlobal = FALSE, ![at].requestLocal = TRUE,
                                    ![at].currentLocal = slots[at].currentGlobal]
          /\ at' = at + 1
          /\ UNCHANGED gpibPc
       \/ /\ ~slots[at].requestGlobal /\ ~slots[at].requestLocal
          /\ gpibPc' = "known"
          /\ UNCHANGED <<slots, at>>
       \/ /\ ~slots[at].requestGlobal /\ slots[at].requestLocal
          /\ at' = at + 1
          /\ UNCHANGED <<slots, gpibPc>>
    /\ UNCHANGED <<busVars, occupied, buf, mutex, flagVars, daqPc, last, sent, historyVars>>

GpibCopyKnown ==
    /\ gpibPc = "known"
    /\ slots' = [slots EXCEPT ![at].knownGlobal = slots[at].knownLocal]
    /\ gpibPc' = "current"
    /\ UNCHANGED <<busVars, occupied, buf, at, mutex, flagVars, daqPc, last, sent, historyVars>>

GpibCopyCurrent ==
    /\ gpibPc = "current"
    /\ slots' = [slots EXCEPT ![at].currentGlobal = slots[at].currentLocal]
    /\ at' = at + 1
    /\ gpibPc' = "test"
    /\ UNCHANGED <<busVars, occupied, buf, mutex, flagVars, daqPc, last, sent, historyVars>>

\* All slots transferred: gpib_mutex is released.
GpibUnlock ==
    /\ gpibPc = "test"
    /\ at \notin InPile
    /\ mutex' = "free"
    /\ at' = 1
    /\ gpibPc' = "tick"
    /\ UNCHANGED <<busVars, pileVars, buf, flagVars, daqPc, last, sent, historyVars>>

\* gpib_multi_tick, for a slot: a request is formatted into the buffer, for a dummy
\* board into the slot's own buffer as well.
GpibFormat ==
    /\ gpibPc = "tick"
    /\ at \in InPile
    /\ slots[at].requestLocal
    /\ slots' = [slots EXCEPT ![at].requestLocal = FALSE]
    /\ sent' = IF board = "dummy" THEN [sent EXCEPT ![at] = slots[at].currentLocal] ELSE sent
    /\ buf' = [kind |-> "command", slot |-> at, n |-> slots[at].currentLocal]
    /\ gpibPc' = "send"
    /\ UNCHANGED <<busVars, occupied, at, mutex, flagVars, daqPc, last, historyVars>>

\* gpib_string_query with no reply expected: what is in the buffer goes to the
\* instrument, and the buffer is emptied, unless the device is not there.
GpibSend ==
    /\ gpibPc = "send"
    /\ IF dev[at] = "failed" THEN UNCHANGED <<buf, sent>>
       ELSE /\ buf' = Empty
            /\ sent' = IF board = "real" /\ buf.kind = "command"
                       THEN [sent EXCEPT ![at] = buf.n] ELSE sent
    /\ at' = at + 1
    /\ gpibPc' = "tick"
    /\ UNCHANGED <<busVars, pileVars, mutex, flagVars, daqPc, last, historyVars>>

\* gpib_multi_tick which looks at the slot's timer first, then at the request.
BugGpibSkip ==
    /\ gpibPc = "tick"
    /\ at \in InPile
    /\ at' = at + 1
    /\ UNCHANGED <<busVars, pileVars, buf, gpibPc, mutex, flagVars, daqPc, last, sent, historyVars>>

\* Not yet time for the slot.
GpibSkip ==
    /\ gpibPc = "tick"
    /\ at \in InPile
    /\ ~slots[at].requestLocal
    /\ at' = at + 1
    /\ UNCHANGED <<busVars, pileVars, buf, gpibPc, mutex, flagVars, daqPc, last, sent, historyVars>>

\* gpib_string_query which writes to the buffer only when a reply arrives.
BugGpibQuery ==
    /\ gpibPc = "tick"
    /\ at \in InPile
    /\ ~slots[at].requestLocal
    /\ buf' \in {buf} \cup Replied(at)
    /\ gpibPc' = "parse"
    /\ UNCHANGED <<busVars, pileVars, at, mutex, flagVars, daqPc, last, sent, historyVars>>

\* overtime_then_reset: the slot's instrument is asked.
GpibQuery ==
    /\ gpibPc = "tick"
    /\ at \in InPile
    /\ ~slots[at].requestLocal
    /\ buf' \in Replied(at)
    /\ gpibPc' = "parse"
    /\ UNCHANGED <<busVars, pileVars, at, mutex, flagVars, daqPc, last, sent, historyVars>>

\* What sscanf makes of the text: known or not, and the value.
Reading(n) == [known |-> TRUE, value |-> n]
NoReading == [known |-> FALSE, value |-> slots[at].currentLocal]

Parsed ==
    IF board = "dummy" THEN {Reading(sent[at])}
    ELSE IF buf.kind = "empty" THEN {NoReading}
    ELSE IF buf.kind = "reply" /\ buf.slot = at THEN {Reading(buf.n), NoReading}
    ELSE {Reading(Foreign), NoReading}

GpibParse ==
    /\ gpibPc = "parse"
    /\ \E p \in Parsed : slots' = [slots EXCEPT ![at].knownLocal = p.known,
                                                ![at].currentLocal = p.value]
    /\ at' = at + 1
    /\ gpibPc' = "tick"
    /\ UNCHANGED <<busVars, occupied, buf, mutex, flagVars, daqPc, last, sent, historyVars>>

\* After the slots, a message which gpib_send_recv_csf has left on a panel is sent and
\* answered; the messages themselves belong to the terminal's commands.
GpibMessage ==
    /\ gpibPc = "message" \/ (gpibPc = "tick" /\ at \notin InPile)
    /\ gpibPc' = "wait"
    /\ buf' \in IF board # "off" THEN {buf, Text, Empty} ELSE {buf}
    /\ UNCHANGED <<busVars, pileVars, at, mutex, flagVars, daqPc, last, sent, historyVars>>
-----------------------------------------------------------------------------
GuiNext == GuiConnect \/ GuiQuery \/ GuiStart \/ GuiPause

DaqNext ==
    \/ DaqAdd \/ DaqParse \/ DaqStop \/ DaqJoin
    \/ \E s \in SlotIds : DaqSweep(s) \/ DaqWrite(s)

GpibNext ==
    \/ GpibTake \/ GpibEnd
    \/ GpibTransfer \/ GpibCopyKnown \/ GpibCopyCurrent \/ GpibUnlock
    \/ GpibFormat \/ GpibSend \/ GpibSkip \/ GpibQuery \/ GpibParse
    \/ GpibMessage

Next == GuiNext \/ DaqNext \/ GpibNext

Spec == Init /\ [][Next]_vars

\* The GPIB thread goes on whenever the mutex, which nobody else keeps, is free.
FairSpec == Spec /\ WF_vars(GpibNext)
-----------------------------------------------------------------------------
(* Properties.                                                             *)

\* Every variable has its type, and the GPIB thread holds gpib_mutex exactly during
\* gpib_multi_transfer.
TypeOK ==
    /\ board \in {"off", "dummy", "real"}
    /\ dev \in [SlotIds -> {"none", "ok", "failed"}]
    /\ slots \in [SlotIds -> GpibSlot] /\ occupied \in 0 .. NSlot
    /\ buf \in Content
    /\ at \in 1 .. NSlot + 1
    /\ {running, paused} \subseteq BOOLEAN
    /\ daqPc \in {"off", "loop", "join"}
    /\ gpibPc \in {"off", "start", "test", "known", "current", "tick", "send", "parse",
                   "message", "wait"}
    /\ mutex = IF gpibPc \in {"test", "known", "current"} THEN "gpib" ELSE "free"
    /\ last \in [SlotIds -> 0 .. MaxWrites]
    /\ sent \in [SlotIds -> Values]
    /\ raced \subseteq SlotIds /\ mixed \subseteq SlotIds

\* A device which could not be connected leaves the buffer as it was, and an
\* introduction may have come between a query and the reading of the buffer.
MayMistake(s) == dev[s] = "failed" \/ s \in mixed

\* gpib_slot_read never answers with a value from before the last gpib_slot_write,
\* however the readings, the transfers and the writes fall, unless a write without
\* the mutex met the transfer, or an introduction a write.
NoOldReading ==
    \A s \in InPile \ raced : slots[s].knownGlobal =>
        slots[s].currentGlobal \in {last[s]} \cup (IF MayMistake(s) THEN {Foreign} ELSE {})

\* gpib_multi_tick takes a value out of another text than its instrument's reply in
\* these two cases only.
OwnReading == \A s \in InPile : slots[s].currentLocal = Foreign => MayMistake(s)

\* A value accepted by gpib_slot_write is sent to the instrument, or a later one is,
\* unless the GPIB thread is paused or told to end, the device is not there, or a race
\* overwrote it.
WriteArrives ==
    \A s \in SlotIds : \A n \in 1 .. MaxWrites :
        last[s] = n ~> \/ sent[s] >= n \/ s \in raced \/ dev[s] = "failed"
                       \/ paused \/ ~running
-----------------------------------------------------------------------------
(* The inductive invariant behind NoOldReading and OwnReading, without the *)
(* bound on the writes.                                                    *)

SlotRecord == [requestLocal : BOOLEAN, requestGlobal : BOOLEAN,
               knownLocal : BOOLEAN, knownGlobal : BOOLEAN,
               currentLocal : Int, currentGlobal : Int]

SlotTypes == slots \in [SlotIds -> SlotRecord]
BufferType ==
    buf \in [kind : {"command", "reply", "text", "empty"}, slot : 0 .. NSlot, n : Int]
Types ==
    /\ board \in {"off", "dummy", "real"}
    /\ dev \in [SlotIds -> {"none", "ok", "failed"}]
    /\ occupied \in 0 .. NSlot
    /\ at \in Nat
    /\ gpibPc \in {"off", "start", "test", "known", "current", "tick", "send", "parse",
                   "message", "wait"}
    /\ mutex = IF gpibPc \in {"test", "known", "current"} THEN "gpib" ELSE "free"
    /\ daqPc \in {"off", "loop", "join"}
    /\ last \in [SlotIds -> Nat]
    /\ sent \in [SlotIds -> Int]
    /\ raced \subseteq SlotIds
    /\ mixed \subseteq SlotIds

\* The GPIB thread is at a slot of the pile; outside a session nothing is in the pile.
Places ==
    /\ gpibPc \in {"known", "current", "send", "parse"} => at \in InPile
    /\ daqPc = "off" => gpibPc = "off" /\ occupied = 0
    /\ \A s \in SlotIds \ InPile :
          /\ last[s] = 0 /\ sent[s] = 0 /\ s \notin raced /\ s \notin mixed
          /\ slots[s] = NewSlot /\ buf.slot # s

Idle(s) == ~slots[s].requestGlobal /\ ~slots[s].requestLocal

\* A foreign value has come from a mistake.
Mistakes ==
    \A s \in InPile : ~MayMistake(s) =>
        /\ slots[s].currentLocal # Foreign
        /\ slots[s].currentGlobal # Foreign
        /\ sent[s] # Foreign
        /\ buf.slot = s => buf.n # Foreign

\* Where the last write is: in a request, global or local, or else in the instrument;
\* the copies agree with it in any case.
LastWrite ==
    \A s \in InPile \ raced :
        /\ slots[s].currentGlobal = last[s] \/ slots[s].currentGlobal = Foreign
        /\ slots[s].requestGlobal => slots[s].currentGlobal = last[s]
        /\ slots[s].requestLocal /\ ~slots[s].requestGlobal => slots[s].currentLocal = last[s]
        /\ Idle(s) => slots[s].currentLocal = last[s] \/ slots[s].currentLocal = Foreign
        /\ Idle(s) /\ dev[s] = "ok" /\ ~(gpibPc = "send" /\ at = s) => sent[s] = last[s]
        /\ gpibPc \in {"known", "current"} /\ at = s => Idle(s)

\* What the GPIB thread is about to send or to read.
InBuffer ==
    /\ gpibPc = "send" /\ at \notin raced /\ Idle(at) /\ dev[at] = "ok" =>
          /\ board = "dummy" => sent[at] = last[at]
          /\ board = "real" => buf.kind = "command" /\ buf.slot = at /\ buf.n = last[at]
    /\ gpibPc = "send" /\ buf.kind = "command" => buf.slot = at
    /\ gpibPc = "parse" /\ board = "real" /\ ~MayMistake(at) =>
          \/ buf.kind = "reply" /\ buf.slot = at /\ buf.n = sent[at]
          \/ buf.kind = "empty"
    /\ \A s \in InPile : dev[s] # "none" /\ board # "off" /\ (board = "dummy" => dev[s] = "ok")

SlotInv == SlotTypes /\ BufferType /\ Types /\ Places /\ Mistakes /\ LastWrite /\ InBuffer
-----------------------------------------------------------------------------
(* Why gpib_mutex comes free and the requests come up.                     *)

AtRange == at \in 1 .. NSlot + 1
Resting == {"off", "start", "wait"}

\* The steps which the GPIB thread has at most left in gpib_multi_transfer, and in the
\* whole round of its loop.
TransferLeft ==
    3 * (NSlot + 1 - at) + (CASE gpibPc = "test" -> 2 [] gpibPc = "known" -> 1 [] OTHER -> 0)
RoundLeft ==
    IF gpibPc \in Resting THEN 0
    ELSE IF gpibPc = "message" THEN 1
    ELSE IF gpibPc \in {"send", "parse"} THEN 2 * (NSlot + 1 - at)
    ELSE IF gpibPc = "tick" THEN 2 * (NSlot + 1 - at) + 1
    ELSE 2 * (NSlot + 1) + TransferLeft

\* Each step of the GPIB thread within a round brings it nearer to the round's end,
\* and no other thread delays it, though slots are added and written meanwhile.
RoundShrinks ==
    [][gpibPc \notin Resting =>
          /\ RoundLeft' <= RoundLeft
          /\ GpibNext => RoundLeft' < RoundLeft]_vars
=============================================================================
