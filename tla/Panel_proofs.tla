---------------------------- MODULE Panel_proofs ----------------------------
(* Proofs about a panel: its session (Runlevel), for any number of panels,  *)
(* and its plot (Plot), for any places, sizes of a slice and of a chunk.    *)
EXTENDS Runlevel, Plot, SequenceTheorems, WellFoundedInduction, TLAPS

-----------------------------------------------------------------------------
(* The runlevels and the scan lifecycle.                                    *)

\* The runlevels the callers of set_recording and set_scanning pass.
LoggerArgs == {"TOGGLE", "NO_HOLD", "RECORD", "IDLE"}
ScopeArgs  == {"TOGGLE", "NO_HOLD", "SCAN", "READY", "STOP"}

\* What every call of set_recording keeps: the coupling of the two runlevels,
\* and STOP, which it neither enters nor leaves.
LEMMA SetRecordingFacts ==
    ASSUME TypeOK, RunlevelsCoupled,
           NEW rl \in LoggerArgs, SetRecording(rl)
    PROVE  /\ loggerRl' \in LoggerRl /\ scopeRl' = scopeRl
           /\ loggerRl = "STOP" <=> loggerRl' = "STOP"
           /\ RunlevelsCoupled'
BY DEF TypeOK, LoggerRl, ScopeRl, LoggerArgs, SetRecording, LoggerAfter,
       RunlevelsCoupled

\* The same of set_scanning, which may stop the scope but never the logger.
LEMMA SetScanningFacts ==
    ASSUME TypeOK, RunlevelsCoupled,
           NEW rl \in ScopeArgs, SetScanning(rl)
    PROVE  /\ loggerRl' \in LoggerRl /\ scopeRl' \in ScopeRl
           /\ loggerRl = "STOP" <=> loggerRl' = "STOP"
           /\ scopeRl' = "SCAN" => rl \in {"SCAN", "TOGGLE"} \/ (rl = "NO_HOLD" /\ scopeRl = "SCAN")
           /\ RunlevelsCoupled'
BY DEF TypeOK, LoggerRl, ScopeRl, ScopeArgs, SetScanning, ScopeAfter,
       RunlevelsCoupled
-----------------------------------------------------------------------------
(* LifecycleInv is inductive whatever the acquisition and the terminal do.  *)

LEMMA LifecycleInit == Init => LifecycleInv
BY RunlevelAssumption
   DEF Init, LifecycleInv, TypeOK, Positions, Session, RunlevelsCoupled,
       BoardFollowsThread, GuiPc, DaqPc, DaqNext, LoggerRl, ScopeRl

\* One step for each action.  A Boolean which an action sets to FALSE gets a
\* step of its own: the SMT solver drops the type of such a variable.
LEMMA LifecycleStep ==
    ASSUME LifecycleInv, [Next]_vars
    PROVE  LifecycleInv'
<1> USE RunlevelAssumption
    DEF LifecycleInv, TypeOK, Positions, Session, RunlevelsCoupled,
        BoardFollowsThread, GuiPc, DaqPc, DaqNext, LoggerRl, ScopeRl,
        guiVars, rlVars, flagVars, daqVars, boardVars, history
<1>1. CASE GuiSetPage
    BY <1>1 DEF GuiSetPage
<1>2. CASE GuiStartSession
  <2>1. scanning' \in BOOLEAN /\ daqFailed' \in BOOLEAN /\ crossed' \in BOOLEAN
    BY <1>2, Zenon DEF GuiStartSession
  <2> QED
    BY <2>1, <1>2 DEF GuiStartSession
<1>41. CASE GuiEnterPanel
  <2>1. prepared' = (pid \in usable) /\ scanBuffer' = FALSE
    BY <1>41 DEF GuiEnterPanel, Prepare
  <2>2. prepared' = TRUE \/ prepared' = FALSE
    <3>1. CASE pid \in usable
      BY <2>1, <3>1
    <3>2. CASE pid \notin usable
      BY <2>1, <3>2
    <3> QED
      BY <3>1, <3>2
  <2>3. scanBuffer' \in BOOLEAN /\ prepared' \in BOOLEAN
    BY <2>1, <2>2
  <2> QED
    BY <2>3, <1>41 DEF GuiEnterPanel, Prepare
<1>42. CASE GuiStopInStart
    BY <1>42 DEF GuiStopInStart
<1>3. CASE GuiStopWithoutPanel
    BY <1>3 DEF GuiStopWithoutPanel
<1>4. CASE GuiToggleRecord
    BY <1>4, SetRecordingFacts DEF GuiToggleRecord, LoggerArgs
<1>5. CASE GuiToggleScan
    BY <1>5, SetScanningFacts DEF GuiToggleScan, ScopeArgs
<1>6. CASE GuiBlockSweep
    BY <1>6 DEF GuiBlockSweep
<1>7. CASE GuiBlockScope
    BY <1>7 DEF GuiBlockScope
<1>8. CASE GuiClear
    BY <1>8, SetRecordingFacts DEF GuiClear, LoggerArgs
<1>9. CASE GuiUnholdScope
    BY <1>9, SetScanningFacts DEF GuiUnholdScope, ScopeArgs
<1>10. CASE \E p \in Panels : GuiEditTimescale(p) \/ GuiLoadTimescale(p)
  <2>1. scanBuffer' \in BOOLEAN /\ crossed' \in BOOLEAN
    BY <1>10, Zenon DEF GuiEditTimescale, GuiLoadTimescale, Prepare
  <2> QED
    BY <2>1, <1>10 DEF GuiEditTimescale, GuiLoadTimescale, Prepare, With
<1>11. CASE GuiSweep
    BY <1>11 DEF GuiSweep, With
<1>12. CASE GuiStopSweeps
    BY <1>12 DEF GuiStopSweeps
<1>13. CASE GuiStopRl
    BY <1>13 DEF GuiStopRl
<1>14. CASE GuiStopPid
    BY <1>14 DEF GuiStopPid
<1>15. CASE GuiLeave
    BY <1>15 DEF GuiLeave
<1>16. CASE GuiJoin
    BY <1>16 DEF GuiJoin
<1>17. CASE MainEnds
    BY <1>17 DEF MainEnds
<1>18. CASE ProcessOver
    BY <1>18 DEF ProcessOver, vars
<1>19. CASE DaqLoopTest
    BY <1>19 DEF DaqLoopTest, DaqGoto
<1>20. CASE DaqNoCommand
    BY <1>20 DEF DaqNoCommand, DaqGoto
<1>21. CASE DaqRecordCommand
    BY <1>21, SetRecordingFacts DEF DaqRecordCommand, AfterCommand, CommandPlace,
       LoggerArgs
<1>22. CASE DaqScanCommand
    BY <1>22, SetScanningFacts DEF DaqScanCommand, AfterCommand, CommandPlace,
       ScopeArgs
<1>23. CASE DaqBlockSweep
    BY <1>23 DEF DaqBlockSweep
<1>24. CASE DaqBlockScope
    BY <1>24 DEF DaqBlockScope, DaqGoto
<1>25. CASE DaqSweepCommand
    BY <1>25 DEF DaqSweepCommand, AfterCommand, CommandPlace, With
<1>26. CASE DaqAcquire
    BY <1>26 DEF DaqAcquire, DaqGoto
<1>27. CASE DaqAcquireFails
    BY <1>27 DEF DaqAcquireFails, DaqGoto
<1>28. CASE DaqScopeIdle
    BY <1>28 DEF DaqScopeIdle, DaqGoto
<1>29. CASE DaqStart
    BY <1>29 DEF DaqStart
<1>30. CASE DaqArm
    BY <1>30 DEF DaqArm, DaqGoto
<1>31. CASE DaqArmFails
  <2>1. running' \in BOOLEAN
    BY <1>31, Zenon DEF DaqArmFails, DaqGoto
  <2> QED
    BY <2>1, <1>31 DEF DaqArmFails, DaqGoto
<1>32. CASE DaqScanRead
    BY <1>32 DEF DaqScanRead, DaqGoto
<1>33. CASE DaqScanStop
  <2>1. running' \in BOOLEAN
    BY <1>33, Zenon DEF DaqScanStop, DaqGoto
  <2> QED
    BY <2>1, <1>33 DEF DaqScanStop, DaqGoto
<1>34. CASE DaqScanProcess
  <2>1. scanBuffer' \in BOOLEAN
    BY <1>34, Zenon DEF DaqScanProcess, Prepare, DaqGoto
  <2> QED
    BY <2>1, <1>34 DEF DaqScanProcess, Prepare, DaqGoto
<1>35. CASE DaqUnblockSweep
    BY <1>35 DEF DaqUnblockSweep, DaqGoto
<1>36. CASE DaqUnblockScope
    BY <1>36 DEF DaqUnblockScope, DaqGoto
<1>37. CASE DaqScanOver
  <2>1. scanning' \in BOOLEAN
    BY <1>37, Zenon DEF DaqScanOver, DaqGoto
  <2> QED
    BY <2>1, <1>37, SetScanningFacts DEF DaqScanOver, DaqGoto, ScopeArgs
<1>38. CASE DaqSweeps
    BY <1>38 DEF DaqSweeps, DaqGoto
<1>39. CASE DaqExit
  <2>1. scanning' \in BOOLEAN /\ daqFailed' \in BOOLEAN
    BY <1>39, Zenon DEF DaqExit
  <2> QED
    BY <2>1, <1>39 DEF DaqExit, DaqGoto
<1>40. CASE UNCHANGED vars
    BY <1>40 DEF vars
<1> QED
    BY <1>1, <1>2, <1>3, <1>4, <1>5, <1>6, <1>7, <1>8, <1>9, <1>10, <1>11, <1>12,
       <1>13, <1>14, <1>15, <1>16, <1>17, <1>18, <1>19, <1>20, <1>21, <1>22, <1>23,
       <1>24, <1>25, <1>26, <1>27, <1>28, <1>29, <1>30, <1>31, <1>32, <1>33, <1>34,
       <1>35, <1>36, <1>37, <1>38, <1>39, <1>40, <1>41, <1>42 DEF Next, GuiNext, DaqNextStep

\* Every variable keeps its type in run_gui_thread, run_daq_thread and main.
THEOREM TypeCorrect == Spec => []TypeOK
<1>1. LifecycleInv => TypeOK
    BY DEF LifecycleInv
<1> QED
    BY <1>1, LifecycleInit, LifecycleStep, PTL DEF Spec

\* For any number of panels, and even when acquisitions fail: the logger waits
\* exactly for a scan (set_recording, set_scanning), and a stopped logger means
\* a stopped scope (stop_threads).
THEOREM Lifecycle == Spec => []RunlevelsCoupled
<1>1. LifecycleInv => RunlevelsCoupled
    BY DEF LifecycleInv
<1> QED
    BY <1>1, LifecycleInit, LifecycleStep, PTL DEF Spec

\* Under the same conditions the board is idle once the DAQ thread is past its
\* last run_scope_continue.
THEOREM BoardIdle == Spec => []BoardIdleOutsideSession
<1>1. LifecycleInv => BoardIdleOutsideSession
    BY DEF LifecycleInv, BoardFollowsThread, BoardIdleOutsideSession
<1> QED
    BY <1>1, LifecycleInit, LifecycleStep, PTL DEF Spec

\* Under the same conditions no button, command or end of a scan takes the
\* scope out of STOP within a session: only a failing acquisition does.
THEOREM StopIsLeftByFailure == Spec => StopLeftByFailureOnly
<1> DEFINE Kept == scopeRl = "STOP" /\ daqPc # "off"
                     => scopeRl' = "STOP" \/ (~daqFailed /\ daqFailed')
<1>1. ASSUME LifecycleInv, [Next]_vars
      PROVE  [Kept]_vars
  <2> SUFFICES ASSUME Next, scopeRl = "STOP", daqPc # "off", scopeRl' # "STOP"
               PROVE  ~daqFailed /\ daqFailed'
      BY <1>1
  <2>1. \A rl : ~SetScanning(rl)
      BY DEF SetScanning, ScopeAfter
  <2>2. guiPc \notin {"main", "start"}
      BY <1>1 DEF LifecycleInv, Positions, Session
  <2>3. ~GuiNext
    <3>1. ~(\/ GuiSetPage \/ GuiStopWithoutPanel \/ GuiBlockSweep \/ GuiBlockScope \/ GuiSweep
            \/ GuiStopSweeps \/ GuiStopPid \/ GuiLeave \/ GuiJoin \/ MainEnds \/ GuiEnterPanel)
        BY DEF GuiEnterPanel, GuiSetPage, GuiStopWithoutPanel, GuiBlockSweep, GuiBlockScope, GuiSweep,
               GuiStopSweeps, GuiStopPid, GuiLeave, GuiJoin, MainEnds, rlVars
    <3>2. ~(\/ GuiStartSession \/ GuiToggleRecord \/ GuiToggleScan \/ GuiClear \/ GuiUnholdScope
            \/ GuiStopRl \/ ProcessOver \/ GuiStopInStart)
        BY <2>1, <2>2 DEF GuiStopInStart, GuiStartSession, GuiToggleRecord, GuiToggleScan, GuiClear, GuiUnholdScope,
               GuiStopRl, ProcessOver, SetRecording, vars, rlVars
    <3>3. ~(\E p \in Panels : GuiEditTimescale(p) \/ GuiLoadTimescale(p))
        BY DEF GuiEditTimescale, GuiLoadTimescale, rlVars
    <3> QED
        BY <3>1, <3>2, <3>3 DEF GuiNext
  <2>4. ~(\/ DaqLoopTest \/ DaqNoCommand \/ DaqBlockSweep \/ DaqBlockScope \/ DaqSweepCommand
          \/ DaqAcquire \/ DaqScopeIdle \/ DaqStart \/ DaqArm \/ DaqArmFails)
      BY DEF DaqLoopTest, DaqNoCommand, DaqBlockSweep, DaqBlockScope, DaqSweepCommand, DaqAcquire,
             DaqScopeIdle, DaqStart, DaqArm, DaqArmFails, rlVars
  <2>5. ~(\/ DaqScanRead \/ DaqScanStop \/ DaqScanProcess \/ DaqUnblockSweep \/ DaqUnblockScope
          \/ DaqSweeps \/ DaqExit)
      BY DEF DaqScanRead, DaqScanStop, DaqScanProcess, DaqUnblockSweep, DaqUnblockScope, DaqSweeps,
             DaqExit, rlVars
  <2>6. ~(DaqRecordCommand \/ DaqScanCommand \/ DaqScanOver)
      BY <2>1 DEF DaqRecordCommand, DaqScanCommand, DaqScanOver, SetRecording, rlVars
  <2>7. DaqAcquireFails
      BY <2>3, <2>4, <2>5, <2>6 DEF Next, DaqNextStep
  <2> QED
      BY <2>7 DEF DaqAcquireFails
<1> QED
    BY <1>1, LifecycleInit, LifecycleStep, PTL DEF Spec, StopLeftByFailureOnly

\* Under the same conditions, and whatever commands still come: once the runlevels
\* are at STOP, the DAQ thread has at most 22 steps left to its end, each step it
\* takes lowers their number and no callback raises it; only a failing acquisition
\* takes the logger out of STOP.  This is the part of StopCompletes which needs no
\* fairness.
THEOREM StopLeadsOut == Spec => [](StepsLeft \in 0 .. 22) /\ StopShortens
<1> DEFINE Shortens ==
              loggerRl = "STOP" /\ daqPc # "off" =>
                 \/ ~daqFailed /\ daqFailed'
                 \/ /\ loggerRl' = "STOP"
                    /\ StepsLeft' <= StepsLeft
                    /\ DaqNextStep => StepsLeft' < StepsLeft
<1>1. ASSUME LifecycleInv
      PROVE  StepsLeft \in 0 .. 22
    BY <1>1 DEF LifecycleInv, TypeOK, DaqPc, StepsLeft
<1>2. ASSUME LifecycleInv, [Next]_vars
      PROVE  [Shortens]_vars
  <2> SUFFICES ASSUME Next, loggerRl = "STOP", daqPc # "off",
                      ~(~daqFailed /\ daqFailed')
               PROVE  /\ loggerRl' = "STOP"
                      /\ StepsLeft' <= StepsLeft
                      /\ DaqNextStep => StepsLeft' < StepsLeft
      BY <1>2
  <2>1. /\ scopeRl = "STOP" /\ guiPc \notin {"main", "start"}
        /\ daqPc \in {"block_sweep", "block_scope"} => daqNext \in {"acquire", "scope"}
        /\ daqPc \in {"finish", "unblock_sweep", "unblock_scope", "scan_over"}
              => daqNext \in {"start_failed", "finished", "exit"}
        /\ StepsLeft \in 0 .. 22
      BY <1>1, <1>2 DEF LifecycleInv, Positions, Session, RunlevelsCoupled
  <2>2. /\ \A rl : SetRecording(rl) => loggerRl' = "STOP"
        /\ \A rl : SetScanning(rl) => loggerRl' = "STOP" /\ scopeRl' = "STOP"
      BY <2>1 DEF SetRecording, SetScanning, LoggerAfter, ScopeAfter
  <2>3. CASE GuiNext
    <3>1. /\ loggerRl' = "STOP"
          /\ daqPc' = daqPc /\ daqNext' = daqNext
      <4>1. CASE \/ GuiSetPage \/ GuiStopWithoutPanel \/ GuiBlockSweep \/ GuiBlockScope \/ GuiSweep
                 \/ GuiStopSweeps \/ GuiStopRl \/ GuiStopPid \/ GuiLeave \/ GuiJoin \/ MainEnds
                 \/ ProcessOver \/ GuiEnterPanel \/ GuiStopInStart
          BY <4>1 DEF GuiEnterPanel, GuiStopInStart, GuiSetPage, GuiStopWithoutPanel, GuiBlockSweep, GuiBlockScope, GuiSweep,
                 GuiStopSweeps, GuiStopRl, GuiStopPid, GuiLeave, GuiJoin, MainEnds, ProcessOver,
                 vars, rlVars, daqVars
      <4>2. CASE GuiStartSession \/ GuiToggleRecord \/ GuiToggleScan \/ GuiClear \/ GuiUnholdScope
          BY <4>2, <2>1, <2>2 DEF GuiStartSession, GuiToggleRecord, GuiToggleScan, GuiClear,
                 GuiUnholdScope, daqVars
      <4>3. CASE \E p \in Panels : GuiEditTimescale(p) \/ GuiLoadTimescale(p)
          BY <4>3 DEF GuiEditTimescale, GuiLoadTimescale, rlVars, daqVars
      <4> QED
          BY <2>3, <4>1, <4>2, <4>3 DEF GuiNext
    <3>2. ~DaqNextStep
      <4>1. ASSUME DaqNextStep
            PROVE  daqPc' # daqPc
          BY <4>1, <2>1, <2>2
             DEF DaqNextStep, DaqLoopTest, DaqNoCommand, DaqRecordCommand, DaqScanCommand,
                 DaqBlockSweep, DaqBlockScope, DaqSweepCommand, DaqAcquire, DaqAcquireFails,
                 DaqScopeIdle, DaqStart, DaqArm, DaqArmFails, DaqScanRead, DaqScanStop,
                 DaqScanProcess, DaqUnblockSweep, DaqUnblockScope, DaqScanOver, DaqSweeps,
                 DaqExit, DaqGoto, AfterCommand
      <4> QED
          BY <3>1, <4>1
    <3>3. StepsLeft' = StepsLeft
        BY <3>1 DEF StepsLeft
    <3> QED
        BY <3>1, <3>2, <3>3, <2>1
  <2>4. CASE DaqNextStep
    <3>1. loggerRl' = "STOP"
      <4>1. CASE DaqRecordCommand \/ DaqScanCommand
          BY <4>1, <2>2 DEF DaqRecordCommand, DaqScanCommand
      <4>2. CASE DaqScanOver
          BY <4>2, <2>2 DEF DaqScanOver, rlVars
      <4>3. CASE ~(DaqRecordCommand \/ DaqScanCommand \/ DaqScanOver)
          BY <2>4, <4>3
             DEF DaqNextStep, DaqLoopTest, DaqNoCommand, DaqBlockSweep, DaqBlockScope,
                 DaqSweepCommand, DaqAcquire, DaqAcquireFails, DaqScopeIdle, DaqStart, DaqArm,
                 DaqArmFails, DaqScanRead, DaqScanStop, DaqScanProcess, DaqUnblockSweep,
                 DaqUnblockScope, DaqSweeps, DaqExit, rlVars
      <4> QED
          BY <4>1, <4>2, <4>3
    <3>2. StepsLeft' < StepsLeft
      <4>1. CASE DaqLoopTest \/ DaqNoCommand \/ DaqRecordCommand
          BY <4>1 DEF DaqLoopTest, DaqNoCommand, DaqRecordCommand, AfterCommand, DaqGoto, StepsLeft
      <4>2. CASE DaqScanCommand
          BY <4>2, <2>2 DEF DaqScanCommand, AfterCommand, StepsLeft
      <4>3. CASE DaqBlockSweep
          BY <4>3, <2>1 DEF DaqBlockSweep, StepsLeft
      <4>4. CASE DaqBlockScope
          BY <4>4, <2>1 DEF DaqBlockScope, DaqGoto, StepsLeft
      <4>5. CASE DaqSweepCommand \/ DaqAcquire \/ DaqAcquireFails
          BY <4>5 DEF DaqSweepCommand, DaqAcquire, DaqAcquireFails, AfterCommand, DaqGoto, StepsLeft
      <4>6. CASE DaqScopeIdle
          BY <4>6, <2>1 DEF DaqScopeIdle, DaqGoto, StepsLeft
      <4>7. CASE DaqStart
          BY <4>7 DEF DaqStart, StepsLeft
      <4>8. CASE DaqArm \/ DaqArmFails
          BY <4>8 DEF DaqArm, DaqArmFails, DaqGoto, StepsLeft
      <4>9. CASE DaqScanRead
          BY <4>9, <2>1 DEF DaqScanRead
      <4>10. CASE DaqScanStop \/ DaqScanProcess
          BY <4>10, <2>1 DEF DaqScanStop, DaqScanProcess, DaqGoto, StepsLeft
      <4>11. CASE DaqUnblockSweep \/ DaqUnblockScope
          BY <4>11, <2>1 DEF DaqUnblockSweep, DaqUnblockScope, DaqGoto, StepsLeft
      <4>12. CASE DaqScanOver
          BY <4>12, <2>1 DEF DaqScanOver, DaqGoto, StepsLeft
      <4>13. CASE DaqSweeps \/ DaqExit
          BY <4>13 DEF DaqSweeps, DaqExit, DaqGoto, StepsLeft
      <4> QED
          BY <2>4, <4>1, <4>2, <4>3, <4>4, <4>5, <4>6, <4>7, <4>8, <4>9, <4>10, <4>11, <4>12,
             <4>13 DEF DaqNextStep
    <3>3. StepsLeft' \in 0 .. 22
        BY <1>2, LifecycleStep DEF LifecycleInv, TypeOK, DaqPc, StepsLeft
    <3> QED
        BY <3>1, <3>2, <3>3, <2>1
  <2> QED
      BY <2>3, <2>4 DEF Next
<1> QED
    BY <1>1, <1>2, LifecycleInit, LifecycleStep, PTL DEF Spec, StopShortens
-----------------------------------------------------------------------------
(* BlockingInv is inductive: what a failing acquisition, a page left in the *)
(* start of its session and a timescale of another page undo is in stray    *)
(* and crossed (the README says what happens then).                         *)

LEMMA BlockingInit == Init => BlockingInv
BY LifecycleInit, RunlevelAssumption
   DEF Init, BlockingInv, PageGone, BlockHeld, BlockNeeded, Ending, ScanBufferLive, Session

LEMMA BlockingStep ==
    ASSUME BlockingInv, [Next]_vars
    PROVE  BlockingInv'
<1>0. LifecycleInv'
    BY LifecycleStep DEF BlockingInv
<1> USE <1>0, RunlevelAssumption
    DEF BlockingInv, LifecycleInv, TypeOK, Positions, Session, BoardFollowsThread,
        PageGone, BlockHeld, BlockNeeded, Ending, ScanBufferLive,
        GuiPc, DaqPc, DaqNext, guiVars, rlVars, flagVars, daqVars, boardVars, history
<1>1. CASE GuiSetPage
    BY <1>1 DEF GuiSetPage
<1>2. CASE GuiStartSession
    BY <1>2 DEF GuiStartSession
<1>41. CASE GuiEnterPanel
    BY <1>41 DEF GuiEnterPanel, Prepare
<1>42. CASE GuiStopInStart
    BY <1>42 DEF GuiStopInStart
<1>3. CASE GuiStopWithoutPanel
    BY <1>3 DEF GuiStopWithoutPanel
<1>4. CASE GuiToggleRecord
    BY <1>4, SetRecordingFacts DEF GuiToggleRecord, LoggerArgs, SetRecording
<1>5. CASE GuiToggleScan
    BY <1>5, SetScanningFacts DEF GuiToggleScan, ScopeArgs, RunlevelsCoupled
<1>6. CASE GuiBlockSweep
    BY <1>6 DEF GuiBlockSweep
<1>7. CASE GuiBlockScope
    BY <1>7 DEF GuiBlockScope
<1>8. CASE GuiClear
    BY <1>8, SetRecordingFacts DEF GuiClear, LoggerArgs, SetRecording
<1>9. CASE GuiUnholdScope
    BY <1>9, SetScanningFacts DEF GuiUnholdScope, ScopeArgs
<1>10. CASE \E p \in Panels : GuiEditTimescale(p) \/ GuiLoadTimescale(p)
    BY <1>10 DEF GuiEditTimescale, GuiLoadTimescale, Prepare, With
<1>11. CASE GuiSweep
    BY <1>11 DEF GuiSweep, With
<1>12. CASE GuiStopSweeps
    BY <1>12 DEF GuiStopSweeps
<1>13. CASE GuiStopRl
    BY <1>13 DEF GuiStopRl
<1>14. CASE GuiStopPid
    BY <1>14 DEF GuiStopPid
<1>15. CASE GuiLeave
    BY <1>15 DEF GuiLeave
<1>16. CASE GuiJoin
    BY <1>16 DEF GuiJoin
<1>17. CASE MainEnds
    BY <1>17 DEF MainEnds
<1>18. CASE ProcessOver
    BY <1>18 DEF ProcessOver, vars
<1>19. CASE DaqLoopTest
    BY <1>19 DEF DaqLoopTest, DaqGoto
<1>20. CASE DaqNoCommand
    BY <1>20 DEF DaqNoCommand, DaqGoto
<1>21. CASE DaqRecordCommand
    BY <1>21, SetRecordingFacts DEF DaqRecordCommand, AfterCommand, CommandPlace,
       LoggerArgs, SetRecording
<1>22. CASE DaqScanCommand
    BY <1>22, SetScanningFacts DEF DaqScanCommand, AfterCommand, CommandPlace,
       ScopeArgs
<1>23. CASE DaqBlockSweep
    BY <1>23 DEF DaqBlockSweep, RunlevelsCoupled
<1>24. CASE DaqBlockScope
    BY <1>24 DEF DaqBlockScope, DaqGoto
<1>25. CASE DaqSweepCommand
    BY <1>25 DEF DaqSweepCommand, AfterCommand, CommandPlace, With
<1>26. CASE DaqAcquire
    BY <1>26 DEF DaqAcquire, DaqGoto
<1>27. CASE DaqAcquireFails
    BY <1>27 DEF DaqAcquireFails, DaqGoto
<1>28. CASE DaqScopeIdle
    BY <1>28 DEF DaqScopeIdle, DaqGoto
<1>29. CASE DaqStart
    BY <1>29 DEF DaqStart
<1>30. CASE DaqArm
    BY <1>30 DEF DaqArm, DaqGoto
<1>31. CASE DaqArmFails
    BY <1>31 DEF DaqArmFails, DaqGoto
<1>32. CASE DaqScanRead
    BY <1>32 DEF DaqScanRead, DaqGoto
<1>33. CASE DaqScanStop
    BY <1>33 DEF DaqScanStop, DaqGoto
<1>34. CASE DaqScanProcess
    BY <1>34 DEF DaqScanProcess, Prepare, DaqGoto
<1>35. CASE DaqUnblockSweep
    BY <1>35 DEF DaqUnblockSweep, DaqGoto
<1>36. CASE DaqUnblockScope
    BY <1>36 DEF DaqUnblockScope, DaqGoto
<1>37. CASE DaqScanOver
    BY <1>37, SetScanningFacts DEF DaqScanOver, DaqGoto, ScopeArgs
<1>38. CASE DaqSweeps
    BY <1>38 DEF DaqSweeps, DaqGoto
<1>39. CASE DaqExit
    BY <1>39 DEF DaqExit, DaqGoto
<1>40. CASE UNCHANGED vars
    BY <1>40 DEF vars
<1> QED
    BY <1>1, <1>2, <1>3, <1>4, <1>5, <1>6, <1>7, <1>8, <1>9, <1>10, <1>11, <1>12,
       <1>13, <1>14, <1>15, <1>16, <1>17, <1>18, <1>19, <1>20, <1>21, <1>22, <1>23,
       <1>24, <1>25, <1>26, <1>27, <1>28, <1>29, <1>30, <1>31, <1>32, <1>33, <1>34,
       <1>35, <1>36, <1>37, <1>38, <1>39, <1>40, <1>41, <1>42 DEF Next, GuiNext, DaqNextStep

\* While the board runs, the callbacks which edit the panel's sweeps and scope
\* are blocked (or scan_cb is about to block them), for any number of panels, in
\* every session but one which goes on without its page.
THEOREM CallbacksBlocked == Spec => []CallbacksBlockedDuringScan
<1>1. BlockingInv => CallbacksBlockedDuringScan
    BY DEF BlockingInv, LifecycleInv, BoardFollowsThread, BlockHeld, BlockNeeded, Ending,
           CallbacksBlockedDuringScan
<1>2. BlockingInv /\ [Next]_vars => BlockingInv'
    BY BlockingStep
<1> QED
    BY <1>1, <1>2, BlockingInit, PTL DEF Spec

\* daq_SCAN_prepare frees the buffer of a running scan for a timescale of another
\* page and in a session without its page, and never else.
THEOREM BufferLive == Spec => []ScanBufferLive
<1>1. BlockingInv => ScanBufferLive
    BY DEF BlockingInv
<1>2. BlockingInv /\ [Next]_vars => BlockingInv'
    BY BlockingStep
<1> QED
    BY <1>1, <1>2, BlockingInit, PTL DEF Spec

LEMMA LeastNumber ==
    ASSUME NEW T, T \subseteq Nat, T # {}
    PROVE  \E m \in T : \A k \in T : m <= k
<1>1. PICK m \in T : \A k \in T : ~(<<k, m>> \in OpToRel(<, Nat))
    BY NatLessThanWellFounded, WFMin, Zenon
<1>2. ASSUME NEW k \in T
      PROVE  m <= k
  <2>1. ~(<<k, m>> \in OpToRel(<, Nat))
      BY <1>1
  <2>2. <<k, m>> \in Nat \X Nat /\ <<k, m>>[1] = k /\ <<k, m>>[2] = m
      OBVIOUS
  <2>3. ~(k < m)
      BY <2>1, <2>2 DEF OpToRel
  <2> QED
      BY <2>3
<1> QED
    BY <1>2

\* Induction up to a number, of membership in a set.
LEMMA UpTo ==
    ASSUME NEW n \in Nat, NEW T, 0 \in T, \A k \in 0..(n - 1) : k \in T => k + 1 \in T
    PROVE  \A k \in 0..n : k \in T
<1> SUFFICES ASSUME NEW i \in 0..n, i \notin T PROVE FALSE
    OBVIOUS
<1> DEFINE Out == {k \in 0..n : k \notin T}
<1>1. PICK k \in Out : \A j \in Out : k <= j
  <2>1. Out \subseteq Nat /\ Out # {}
      OBVIOUS
  <2> HIDE DEF Out
  <2> QED
      BY <2>1, LeastNumber
<1>2. k # 0 /\ k - 1 \in 0..(n - 1) /\ (k - 1) + 1 = k
    OBVIOUS
<1>3. k - 1 \in T
    BY <1>1, <1>2
<1> QED
    BY <1>2, <1>3

\* The function by which total_pts is defined, over the first n sets.
Folds(n, sets, g) ==
    g = [s \in SUBSET (1..n) |->
           IF s = {} THEN 0 ELSE g[s \ {Max(s)}] + Len(sets[Max(s)])]

LEMMA MaxIs ==
    ASSUME NEW m \in Nat, NEW s, s \subseteq 1..m, m \in s
    PROVE  Max(s) = m
<1>1. \A i \in s : m >= i
    OBVIOUS
<1>2. \A i \in s : (\A j \in s : i >= j) => i = m
    OBVIOUS
<1> QED
    BY <1>1, <1>2 DEF Max

LEMMA FoldsNext ==
    ASSUME NEW sets, NEW m \in Nat, NEW g, Folds(m, sets, g)
    PROVE  \E h : Folds(m + 1, sets, h)
<1> DEFINE h == [s \in SUBSET (1..(m + 1)) |->
                   IF m + 1 \in s THEN g[s \ {m + 1}] + Len(sets[m + 1]) ELSE g[s]]
           v(s) == IF s = {} THEN 0 ELSE h[s \ {Max(s)}] + Len(sets[Max(s)])
<1>1. ASSUME NEW s \in SUBSET (1..m)
      PROVE  h[s] = g[s] /\ g[s] = IF s = {} THEN 0 ELSE g[s \ {Max(s)}] + Len(sets[Max(s)])
  <2>1. s \in SUBSET (1..(m + 1)) /\ m + 1 \notin s
      OBVIOUS
  <2> QED
      BY <2>1 DEF Folds
<1>2. ASSUME NEW s \in SUBSET (1..(m + 1))
      PROVE  h[s] = v(s)
  <2>1. CASE m + 1 \in s
    <3>1. Max(s) = m + 1
      <4>1. m + 1 \in Nat /\ s \subseteq 1..(m + 1)
          OBVIOUS
      <4> QED
          BY <2>1, <4>1, MaxIs
    <3>2. s \ {m + 1} \in SUBSET (1..m)
        OBVIOUS
    <3>3. h[s \ {m + 1}] = g[s \ {m + 1}]
        BY <1>1, <3>2
    <3>4. h[s] = g[s \ {m + 1}] + Len(sets[m + 1])
        BY <2>1
    <3> HIDE DEF h
    <3> QED
        BY <2>1, <3>1, <3>3, <3>4
  <2>2. CASE m + 1 \notin s
    <3>1. s \in SUBSET (1..m)
        BY <2>2
    <3>2. s # {} => s \ {Max(s)} \in SUBSET (1..m)
        BY <3>1
    <3>3. s # {} => h[s \ {Max(s)}] = g[s \ {Max(s)}]
        BY <1>1, <3>2
    <3> HIDE DEF h
    <3> QED
        BY <1>1, <3>1, <3>3
  <2> QED
      BY <2>1, <2>2
<1>3. h = [s \in SUBSET (1..(m + 1)) |-> v(s)]
    BY <1>2, Zenon
<1> QED
    BY <1>3, Zenon DEF Folds

LEMMA FoldsExists ==
    ASSUME NEW sets, NEW n \in Nat
    PROVE  \E g : Folds(n, sets, g)
<1> DEFINE T == {k \in Nat : \E g : Folds(k, sets, g)}
<1>1. 0 \in T
  <2> DEFINE g == [s \in SUBSET (1..0) |-> 0]
  <2>1. \A s \in SUBSET (1..0) : s = {}
      OBVIOUS
  <2>2. Folds(0, sets, g)
      BY <2>1 DEF Folds
  <2> QED
      BY <2>2
<1>2. \A k \in 0..(n - 1) : k \in T => k + 1 \in T
    BY FoldsNext
<1>3. n \in 0..n
    OBVIOUS
<1> HIDE DEF T
<1>4. n \in T
    BY <1>1, <1>2, <1>3, UpTo
<1> QED
    BY <1>4 DEF T

\* FoldLeft, step by step.
LEMMA FoldSteps ==
    ASSUME NEW n \in Nat, NEW sets, DOMAIN sets = 1..n
    PROVE  \E r : /\ r[0] = 0
                  /\ \A k \in 1..n : r[k] = r[k - 1] + Len(sets[k])
                  /\ r[n] = total_pts(sets)
<1> DEFINE g == CHOOSE f : Folds(n, sets, f)
           r == [k \in 0..n |-> g[1..k]]
<1>1. Folds(n, sets, g)
    BY FoldsExists
<1>2. total_pts(sets) = g[1..n]
    BY DEF total_pts, FoldLeft, MapThenFoldSet, Folds
<1> HIDE DEF g
<1>3. r[n] = total_pts(sets)
    BY <1>2
<1>4. r[0] = 0
  <2>1. 1..0 = {} /\ {} \in SUBSET (1..n) /\ 0 \in 0..n
      OBVIOUS
  <2> QED
      BY <1>1, <2>1 DEF Folds
<1>5. ASSUME NEW k \in 1..n
      PROVE  r[k] = r[k - 1] + Len(sets[k])
  <2>0. (1..k) \ {k} = 1..(k - 1)
      OBVIOUS
  <2>1. 1..k \in SUBSET (1..n) /\ k \in 1..k /\ k \in Nat /\ k \in 0..n /\ k - 1 \in 0..n
      OBVIOUS
  <2>2. Max(1..k) = k
      BY <2>1, MaxIs
  <2>3. g[1..k] = g[1..(k - 1)] + Len(sets[k])
      BY <1>1, <2>0, <2>1, <2>2 DEF Folds
  <2> QED
      BY <2>1, <2>3
<1> HIDE DEF r
<1> QED
    BY <1>3, <1>4, <1>5
-----------------------------------------------------------------------------
(* The points of a buffer in their order.                                  *)

Points == Nat \X Nat
Buffers == Seq(Seq(Places \cup {Nowhere}))

\* The first m points of the set s.
Row(s, m) == [j \in 1..m |-> <<s, j>>]

\* p[k] are the points of the first k sets in order, k up to n.
Layout(n, sets, p) ==
    /\ p[0] = <<>>
    /\ \A k \in 1..n : p[k] = p[k - 1] \o Row(k, Len(sets[k]))

LEMMA RowType ==
    ASSUME NEW s \in Nat, NEW m \in Nat
    PROVE  Row(s, m) \in Seq(Points) /\ Len(Row(s, m)) = m /\ (m = 0 => Row(s, m) = <<>>)
<1>1. Row(s, m) \in [1..m -> Points]
    BY DEF Row, Points
<1>2. Row(s, m) \in Seq(Points)
    BY <1>1
<1>3. DOMAIN Row(s, m) = 1..m
    BY DEF Row
<1>4. Len(Row(s, m)) = m
    BY <1>2, <1>3, LenProperties
<1>5. m = 0 => Row(s, m) = <<>>
    BY <1>2, <1>4, EmptySeq
<1> QED
    BY <1>2, <1>4, <1>5

LEMMA LayoutExists ==
    ASSUME NEW sets \in Buffers
    PROVE  \E p : Layout(Len(sets), sets, p)
<1> DEFINE n == Len(sets)
           T == {k \in Nat : \E p : Layout(k, sets, p)}
<1>0. n \in Nat
    BY LenProperties DEF Buffers
<1>1. 0 \in T
  <2> DEFINE p == [i \in 0..0 |-> <<>>]
  <2>1. Layout(0, sets, p)
      BY DEF Layout
  <2> QED
      BY <2>1
<1>2. ASSUME NEW k \in 0..(n - 1), k \in T
      PROVE  k + 1 \in T
  <2>1. PICK p : Layout(k, sets, p)
      BY <1>2
  <2> DEFINE q == [i \in 0..(k + 1) |->
                     IF i = k + 1 THEN p[k] \o Row(k + 1, Len(sets[k + 1])) ELSE p[i]]
  <2>2. k \in Nat
      BY <1>0
  <2>3. q[0] = <<>>
      BY <2>1, <2>2 DEF Layout
  <2>4. ASSUME NEW i \in 1..(k + 1)
        PROVE  q[i] = q[i - 1] \o Row(i, Len(sets[i]))
    <3>1. CASE i = k + 1
      <4>0. i \in 0..(k + 1)
          BY <2>2
      <4>1. q[i] = p[k] \o Row(k + 1, Len(sets[k + 1]))
          BY <3>1, <4>0
      <4>2. i - 1 = k /\ q[k] = p[k]
          BY <2>2, <3>1
      <4> QED
          BY <3>1, <4>1, <4>2, Zenon
    <3>2. CASE i # k + 1
      <4>1. i \in 1..k /\ i \in 0..(k + 1) /\ i - 1 \in 0..(k + 1) /\ i - 1 # k + 1
          BY <2>2, <3>2
      <4>2. q[i] = p[i] /\ q[i - 1] = p[i - 1]
          BY <3>2, <4>1
      <4> HIDE DEF q
      <4> QED
          BY <2>1, <4>1, <4>2 DEF Layout
    <3> QED
        BY <3>1, <3>2
  <2> HIDE DEF q
  <2>5. Layout(k + 1, sets, q)
      BY <2>3, <2>4 DEF Layout
  <2> QED
      BY <2>2, <2>5
<1> HIDE DEF T
<1>3. \A k \in 0..n : k \in T
    BY <1>0, <1>1, <1>2, UpTo
<1> QED
    BY <1>0, <1>3 DEF T

Upto(sets) == CHOOSE p : Layout(Len(sets), sets, p)

\* The points of the first k sets, and the first m of the next one.
Prefix(sets, k, m) == Upto(sets)[k] \o Row(k + 1, m)

LEMMA UptoStep ==
    ASSUME NEW sets \in Buffers
    PROVE  /\ Upto(sets)[0] = <<>>
           /\ \A k \in 1..Len(sets) : Upto(sets)[k] = Upto(sets)[k - 1] \o Row(k, Len(sets[k]))
BY LayoutExists DEF Upto, Layout

LEMMA SetsAre ==
    ASSUME NEW sets \in Buffers
    PROVE  /\ Len(sets) \in Nat /\ DOMAIN sets = 1..Len(sets)
           /\ \A k \in 1..Len(sets) : /\ sets[k] \in Seq(Places \cup {Nowhere})
                                      /\ Len(sets[k]) \in Nat
                                      /\ DOMAIN sets[k] = 1..Len(sets[k])
<1>1. Len(sets) \in Nat /\ DOMAIN sets = 1..Len(sets)
    BY LenProperties DEF Buffers
<1>2. \A k \in 1..Len(sets) : sets[k] \in Seq(Places \cup {Nowhere})
    BY ElementOfSeq DEF Buffers
<1> QED
    BY <1>1, <1>2, LenProperties

LEMMA UptoType ==
    ASSUME NEW sets \in Buffers
    PROVE  \A k \in 0..Len(sets) : Upto(sets)[k] \in Seq(Points) /\ Len(Upto(sets)[k]) \in Nat
<1> DEFINE T == {k \in Nat : Upto(sets)[k] \in Seq(Points)}
<1>1. Len(sets) \in Nat
    BY SetsAre
<1>2. 0 \in T
  <2>1. <<>> \in Seq(Points)
      OBVIOUS
  <2> QED
      BY <2>1, UptoStep
<1>3. ASSUME NEW k \in 0..(Len(sets) - 1), k \in T
      PROVE  k + 1 \in T
  <2>1. k + 1 \in 1..Len(sets) /\ (k + 1) - 1 = k /\ k + 1 \in Nat
      BY <1>1
  <2>2. Upto(sets)[k + 1] = Upto(sets)[k] \o Row(k + 1, Len(sets[k + 1]))
      BY <2>1, UptoStep
  <2>3. Row(k + 1, Len(sets[k + 1])) \in Seq(Points)
      BY <2>1, SetsAre, RowType
  <2>4. Upto(sets)[k] \in Seq(Points)
      BY <1>3
  <2>5. Upto(sets)[k + 1] \in Seq(Points)
      BY <2>2, <2>3, <2>4, ConcatProperties
  <2> QED
      BY <2>1, <2>5
<1> HIDE DEF T
<1>4. \A k \in 0..Len(sets) : k \in T
    BY <1>1, <1>2, <1>3, UpTo
<1>5. \A k \in 0..Len(sets) : Upto(sets)[k] \in Seq(Points)
    BY <1>4 DEF T
<1> QED
    BY <1>5, LenProperties

\* The points before a set depend on the sets before it only.
LEMMA UptoAgree ==
    ASSUME NEW a \in Buffers, NEW b \in Buffers, NEW n \in Nat, n <= Len(a), n <= Len(b),
           \A k \in 1..n : Len(a[k]) = Len(b[k])
    PROVE  \A k \in 0..n : Upto(a)[k] = Upto(b)[k]
<1> DEFINE T == {k \in Nat : Upto(a)[k] = Upto(b)[k]}
<1>1. Len(a) \in Nat /\ Len(b) \in Nat
    BY SetsAre
<1>2. 0 \in T
    BY UptoStep
<1>3. ASSUME NEW k \in 0..(n - 1), k \in T
      PROVE  k + 1 \in T
  <2>1. k + 1 \in 1..n /\ k + 1 \in 1..Len(a) /\ k + 1 \in 1..Len(b) /\ (k + 1) - 1 = k
        /\ k + 1 \in Nat
      BY <1>1
  <2>2. /\ Upto(a)[k + 1] = Upto(a)[k] \o Row(k + 1, Len(a[k + 1]))
        /\ Upto(b)[k + 1] = Upto(b)[k] \o Row(k + 1, Len(b[k + 1]))
      BY <2>1, UptoStep
  <2>3. Upto(a)[k] = Upto(b)[k]
      BY <1>3
  <2>4. Len(a[k + 1]) = Len(b[k + 1])
      BY <2>1
  <2>5. Upto(a)[k + 1] = Upto(b)[k + 1]
      BY <2>2, <2>3, <2>4, Zenon
  <2> QED
      BY <2>1, <2>5
<1> HIDE DEF T
<1>4. \A k \in 0..n : k \in T
    BY <1>2, <1>3, UpTo
<1> QED
    BY <1>4 DEF T

LEMMA RowOf ==
    ASSUME NEW sets \in Buffers, NEW k \in 1..Len(sets)
    PROVE  /\ Row(k, Len(sets[k])) \in Seq(Points)
           /\ Len(Row(k, Len(sets[k]))) = Len(sets[k])
<1>1. k \in Nat /\ Len(sets[k]) \in Nat
    BY SetsAre
<1> QED
    BY <1>1, RowType

\* What a concatenation is, without the length of its second part.
LEMMA Joined ==
    ASSUME NEW S, NEW p \in Seq(S), NEW q \in Seq(S), NEW m, Len(q) = m
    PROVE  /\ p \o q \in Seq(S) /\ Len(p) \in Nat /\ m \in Nat
           /\ Len(p \o q) = Len(p) + m
           /\ \A i \in 1..(Len(p) + m) : (p \o q)[i] = IF i <= Len(p) THEN p[i] ELSE q[i - Len(p)]
<1>1. Len(p) \in Nat /\ Len(q) \in Nat
    BY LenProperties
<1> QED
    BY <1>1, ConcatProperties

LEMMA UptoLen ==
    ASSUME NEW sets \in Buffers, NEW k \in 1..Len(sets)
    PROVE  /\ Len(Upto(sets)[k]) = Len(Upto(sets)[k - 1]) + Len(sets[k])
           /\ Len(Upto(sets)[k - 1]) \in Nat /\ Len(sets[k]) \in Nat
<1>1. Len(sets) \in Nat /\ Len(sets[k]) \in Nat
    BY SetsAre
<1>2. k - 1 \in 0..Len(sets) /\ k \in Nat
    BY <1>1
<1>3. Upto(sets)[k - 1] \in Seq(Points) /\ Len(Upto(sets)[k - 1]) \in Nat
    BY <1>2, UptoType
<1>4. Row(k, Len(sets[k])) \in Seq(Points) /\ Len(Row(k, Len(sets[k]))) = Len(sets[k])
    BY RowOf
<1>5. Upto(sets)[k] = Upto(sets)[k - 1] \o Row(k, Len(sets[k]))
    BY UptoStep
<1>6. Len(Upto(sets)[k]) = Len(Upto(sets)[k - 1]) + Len(sets[k])
  <2>1. \A r \in Seq(Points) : Len(Upto(sets)[k - 1] \o r) = Len(Upto(sets)[k - 1]) + Len(r)
      BY <1>3, Joined
  <2> QED
      BY <1>4, <1>5, <2>1
<1> QED
    BY <1>1, <1>3, <1>6

\* The points are as many as total_pts counts.
LEMMA TotalIs ==
    ASSUME NEW sets \in Buffers
    PROVE  total_pts(sets) = Len(Upto(sets)[Len(sets)])
<1>1. Len(sets) \in Nat /\ DOMAIN sets = 1..Len(sets)
    BY SetsAre
<1>2. PICK r : /\ r[0] = 0
               /\ \A k \in 1..Len(sets) : r[k] = r[k - 1] + Len(sets[k])
               /\ r[Len(sets)] = total_pts(sets)
    BY <1>1, FoldSteps
<1> DEFINE T == {k \in Nat : Len(Upto(sets)[k]) = r[k]}
<1>3. 0 \in T
  <2>1. Len(<<>>) = 0
      OBVIOUS
  <2> QED
      BY <1>2, <2>1, UptoStep
<1>4. ASSUME NEW k \in 0..(Len(sets) - 1), k \in T
      PROVE  k + 1 \in T
  <2>1. k + 1 \in 1..Len(sets) /\ (k + 1) - 1 = k /\ k + 1 \in Nat
      BY <1>1
  <2>2. Len(Upto(sets)[k + 1]) = Len(Upto(sets)[k]) + Len(sets[k + 1])
      BY <2>1, UptoLen
  <2>3. r[k + 1] = r[k] + Len(sets[k + 1])
      BY <1>2, <2>1
  <2>4. Len(Upto(sets)[k]) = r[k]
      BY <1>4
  <2>5. Len(Upto(sets)[k + 1]) = r[k + 1]
      BY <2>2, <2>3, <2>4
  <2> QED
      BY <2>1, <2>5
<1>5. Len(sets) \in 0..Len(sets)
    BY <1>1
<1> HIDE DEF T
<1>6. Len(sets) \in T
    BY <1>1, <1>3, <1>4, <1>5, UpTo
<1> QED
    BY <1>2, <1>6 DEF T

\* Without the point which is counted and not written, they are Written.
LEMMA FlattenIs ==
    ASSUME NEW sets \in Buffers, sets # <<>>
    PROVE  FlattenSeq([s \in DOMAIN sets |-> [j \in DOMAIN sets[s] |-> <<s, j>>]])
             = Upto(sets)[Len(sets)]
<1> DEFINE rows == [s \in DOMAIN sets |-> [j \in DOMAIN sets[s] |-> <<s, j>>]]
           n == Len(sets)
           Flat(f) == f = [i \in 1..n |-> IF i = 1 THEN rows[i] ELSE f[i - 1] \o rows[i]]
           f0 == [i \in 1..n |-> Upto(sets)[i]]
           f == CHOOSE g : Flat(g)
           T == {k \in Nat : k > 0 => f[k] = Upto(sets)[k]}
<1>1. n \in Nat /\ n > 0 /\ DOMAIN sets = 1..n
    BY SetsAre, EmptySeq DEF Buffers
<1>2. \A k \in 1..n : rows[k] = Row(k, Len(sets[k]))
    BY <1>1, SetsAre DEF Row
<1>3. Len(rows) = n
  <2>1. \A k \in 1..n : rows[k] \in Seq(Points)
      BY <1>1, <1>2, RowOf
  <2>2. rows \in [1..n -> Seq(Points)]
      BY <1>1, <2>1
  <2>3. rows \in Seq(Seq(Points))
      BY <1>1, <2>2
  <2>4. DOMAIN rows = 1..n
      BY <1>1
  <2> HIDE DEF rows, n
  <2> QED
      BY <1>1, <2>3, <2>4, LenProperties
<1>4. FlattenSeq(rows) = f[n]
  <2> HIDE DEF rows
  <2> QED
      BY <1>1, <1>3 DEF FlattenSeq
<1> HIDE DEF rows
<1>5. ASSUME NEW i \in 1..n
      PROVE  Upto(sets)[i] = IF i = 1 THEN rows[i] ELSE Upto(sets)[i - 1] \o rows[i]
  <2>1. Upto(sets)[i] = Upto(sets)[i - 1] \o rows[i]
      BY <1>2, UptoStep
  <2>2. i = 1 => Upto(sets)[i - 1] = <<>>
    <3>1. i = 1 => i - 1 = 0
        OBVIOUS
    <3> QED
        BY <3>1, UptoStep
  <2>3. rows[i] \in Seq(Points)
      BY <1>1, <1>2, RowOf
  <2>4. <<>> \o rows[i] = rows[i]
      BY <2>3, ConcatEmptySeq
  <2> QED
      BY <2>1, <2>2, <2>4
<1>6. \E g : Flat(g)
  <2>1. ASSUME NEW i \in 1..n
        PROVE  f0[i] = IF i = 1 THEN rows[i] ELSE f0[i - 1] \o rows[i]
    <3>1. i # 1 => i - 1 \in 1..n
        BY <1>1
    <3> HIDE DEF n
    <3> QED
        BY <1>5, <3>1
  <2>2. Flat(f0)
      BY <2>1, Zenon
  <2> QED
      BY <2>2
<1>7. Flat(f)
    BY <1>6
<1> HIDE DEF f
<1>8. 0 \in T
    OBVIOUS
<1>9. ASSUME NEW k \in 0..(n - 1), k \in T
      PROVE  k + 1 \in T
  <2>1. k + 1 \in 1..n /\ (k + 1) - 1 = k /\ k + 1 \in Nat /\ (k + 1 # 1 => k > 0)
      BY <1>1
  <2>2. f[k + 1] = IF k + 1 = 1 THEN rows[k + 1] ELSE f[k] \o rows[k + 1]
      BY <1>7, <2>1
  <2>3. Upto(sets)[k + 1] = IF k + 1 = 1 THEN rows[k + 1] ELSE Upto(sets)[k] \o rows[k + 1]
      BY <1>5, <2>1
  <2>4. k + 1 # 1 => f[k] = Upto(sets)[k]
      BY <1>9, <2>1
  <2>5. f[k + 1] = Upto(sets)[k + 1]
      BY <2>2, <2>3, <2>4, Zenon
  <2> QED
      BY <2>1, <2>5
<1>10. n \in 0..n
    BY <1>1
<1> HIDE DEF T
<1>11. n \in T
    BY <1>1, <1>8, <1>9, <1>10, UpTo
<1>12. f[n] = Upto(sets)[n]
    BY <1>1, <1>11 DEF T
<1> QED
    BY <1>4, <1>12 DEF rows

\* A sequence is the beginning of another.
Begins(p, q) == Len(p) <= Len(q) /\ \A i \in 1..Len(p) : p[i] = q[i]

LEMMA BeginsCut ==
    ASSUME NEW S, NEW p \in Seq(S), NEW q \in Seq(S), Begins(p, q)
    PROVE  p = SubSeq(q, 1, Len(p))
<1>1. Len(p) \in Nat /\ Len(q) \in Nat /\ Len(p) <= Len(q)
    BY LenProperties DEF Begins
<1>2. \A i \in 1..Len(p) : q[i] \in S
    BY <1>1, ElementOfSeq
<1> DEFINE c == SubSeq(q, 1, Len(p))
<1>3. c \in Seq(S) /\ Len(c) = Len(p) /\ \A i \in 1..Len(p) : c[i] = q[i]
    BY <1>1, <1>2, SubSeqProperties
<1> HIDE DEF c
<1>4. p = c
    BY <1>1, <1>3, SeqEqual DEF Begins
<1> QED
    BY <1>4 DEF c

LEMMA ConcatBegins ==
    ASSUME NEW S, NEW p \in Seq(S), NEW q \in Seq(S)
    PROVE  Begins(p, p \o q)
<1>1. Len(p) \in Nat /\ Len(q) \in Nat
    BY LenProperties
<1> QED
    BY <1>1, ConcatProperties DEF Begins

LEMMA BeginsOn ==
    ASSUME NEW p, NEW q, NEW r, Len(p) \in Nat, Len(q) \in Nat, Len(r) \in Nat,
           Begins(p, q), Begins(q, r)
    PROVE  Begins(p, r)
<1>1. PICK l \in Nat, m \in Nat, n \in Nat : l = Len(p) /\ m = Len(q) /\ n = Len(r)
    OBVIOUS
<1>2. l <= m /\ m <= n
    BY <1>1 DEF Begins
<1>3. ASSUME NEW i \in 1..l
      PROVE  p[i] = r[i]
  <2>1. i \in 1..m
      BY <1>2
  <2>2. p[i] = q[i] /\ q[i] = r[i]
      BY <1>1, <2>1 DEF Begins
  <2> QED
      BY <2>2
<1>4. Len(p) <= Len(r)
    BY <1>1, <1>2
<1> QED
    BY <1>1, <1>3, <1>4 DEF Begins

LEMMA UptoBegins ==
    ASSUME NEW sets \in Buffers, NEW k \in 0..Len(sets)
    PROVE  Begins(Upto(sets)[k], Upto(sets)[Len(sets)])
<1> DEFINE n == Len(sets)
           T == {d \in Nat : d <= n - k => Begins(Upto(sets)[k], Upto(sets)[k + d])}
<1>1. n \in Nat /\ k \in Nat
    BY SetsAre
<1>2. 0 \in T
  <2>1. Len(Upto(sets)[k]) \in Nat /\ k + 0 = k
      BY <1>1, UptoType
  <2>2. Begins(Upto(sets)[k], Upto(sets)[k])
      BY <2>1 DEF Begins
  <2> QED
      BY <2>1, <2>2
<1>3. ASSUME NEW d \in 0..((n - k) - 1), d \in T
      PROVE  d + 1 \in T
  <2>1. /\ d \in Nat /\ d <= n - k /\ (k + (d + 1)) - 1 = k + d
        /\ k + (d + 1) \in 1..n /\ k + d \in 0..n /\ d + 1 \in Nat
      BY <1>1
  <2> DEFINE e == k + (d + 1)
  <2>2. Upto(sets)[e] = Upto(sets)[k + d] \o Row(e, Len(sets[e]))
      BY <2>1, UptoStep
  <2>3. Upto(sets)[k + d] \in Seq(Points)
      BY <2>1, UptoType
  <2>4. Row(e, Len(sets[e])) \in Seq(Points)
      BY <2>1, RowOf
  <2>5. Begins(Upto(sets)[k + d], Upto(sets)[e])
      BY <2>2, <2>3, <2>4, ConcatBegins
  <2>6. Begins(Upto(sets)[k], Upto(sets)[k + d])
      BY <1>3, <2>1
  <2>7. /\ Len(Upto(sets)[k]) \in Nat /\ Len(Upto(sets)[k + d]) \in Nat
        /\ Len(Upto(sets)[e]) \in Nat
      BY <2>1, UptoType
  <2> HIDE DEF e
  <2>8. Begins(Upto(sets)[k], Upto(sets)[e])
      BY <2>5, <2>6, <2>7, BeginsOn, Zenon
  <2> QED
      BY <2>1, <2>8 DEF e
<1>4. n - k \in Nat /\ n - k \in 0..(n - k) /\ k + (n - k) = n
    BY <1>1
<1> HIDE DEF T
<1>5. n - k \in T
    BY <1>2, <1>3, <1>4, UpTo
<1> QED
    BY <1>4, <1>5 DEF T

\* What is drawn set by set is a beginning of the points.
LEMMA PrefixBegins ==
    ASSUME NEW sets \in Buffers, NEW k \in Nat, k < Len(sets), NEW m \in Nat,
           m <= Len(sets[k + 1])
    PROVE  /\ Prefix(sets, k, m) \in Seq(Points)
           /\ Len(Prefix(sets, k, m)) = Len(Upto(sets)[k]) + m
           /\ Begins(Prefix(sets, k, m), Upto(sets)[Len(sets)])
<1> DEFINE u == Upto(sets)[k]
           v == Upto(sets)[k + 1]
           all == Upto(sets)[Len(sets)]
           l == Len(sets[k + 1])
<1>1. /\ Len(sets) \in Nat /\ k \in 0..Len(sets) /\ k + 1 \in 1..Len(sets) /\ (k + 1) - 1 = k
      /\ k + 1 \in 0..Len(sets) /\ k + 1 \in Nat
    BY SetsAre
<1>2. u \in Seq(Points) /\ v \in Seq(Points) /\ all \in Seq(Points)
  <2>1. Len(sets) \in 0..Len(sets)
      BY <1>1
  <2> QED
      BY <1>1, <2>1, UptoType
<1>3. l \in Nat
    BY <1>1, SetsAre
<1>4. v = u \o Row(k + 1, l)
    BY <1>1, UptoStep
<1>5. Begins(v, all)
    BY <1>1, UptoBegins
<1>6. /\ Row(k + 1, m) \in Seq(Points) /\ Len(Row(k + 1, m)) = m
      /\ Row(k + 1, l) \in Seq(Points) /\ Len(Row(k + 1, l)) = l
    BY <1>1, <1>3, RowType
<1>7. \A i \in 1..m : Row(k + 1, m)[i] = Row(k + 1, l)[i]
    BY <1>3 DEF Row
<1> HIDE DEF u, v, all, l
<1> DEFINE p == u \o Row(k + 1, m)
<1>8. Len(u) \in Nat /\ Len(v) \in Nat /\ Len(all) \in Nat
    BY <1>2, LenProperties
<1>9. /\ p \in Seq(Points) /\ Len(p) = Len(u) + m
      /\ \A i \in 1..(Len(u) + m) : p[i] = IF i <= Len(u) THEN u[i] ELSE Row(k + 1, m)[i - Len(u)]
  <2>1. p = u \o Row(k + 1, m)
      OBVIOUS
  <2> HIDE DEF p
  <2>2. u \in Seq(Points) /\ Row(k + 1, m) \in Seq(Points) /\ Len(Row(k + 1, m)) = m
      BY <1>2, <1>6
  <2>3. PICK r \in Seq(Points) : r = Row(k + 1, m)
      BY <2>2
  <2>4. p = u \o r /\ Len(r) = m
      BY <2>1, <2>2, <2>3
  <2>5. /\ p \in Seq(Points) /\ Len(p) = Len(u) + m
        /\ \A i \in 1..(Len(u) + m) : p[i] = IF i <= Len(u) THEN u[i] ELSE r[i - Len(u)]
      BY <2>2, <2>4, Joined
  <2> QED
      BY <2>3, <2>5
<1>10. /\ Len(v) = Len(u) + l
       /\ \A i \in 1..(Len(u) + l) : v[i] = IF i <= Len(u) THEN u[i] ELSE Row(k + 1, l)[i - Len(u)]
    BY <1>2, <1>4, <1>6, Joined
<1> HIDE DEF p
<1>11. m <= l
    BY DEF l
<1>12. ASSUME NEW i \in 1..(Len(u) + m)
       PROVE  p[i] = v[i]
  <2>1. i \in 1..(Len(u) + l)
      BY <1>3, <1>8, <1>11
  <2>2. ~(i <= Len(u)) => i - Len(u) \in 1..m
      BY <1>8
  <2> QED
      BY <1>7, <1>9, <1>10, <2>1, <2>2
<1>13. Begins(p, all)
    BY <1>3, <1>5, <1>8, <1>9, <1>10, <1>11, <1>12 DEF Begins
<1> QED
    BY <1>9, <1>13 DEF Prefix, p, u, all
-----------------------------------------------------------------------------
(* What the DAQ thread does to the points.                                 *)

All(sets) == Upto(sets)[Len(sets)]

LEMMA AllType ==
    ASSUME NEW sets \in Buffers
    PROVE  All(sets) \in Seq(Points) /\ Len(All(sets)) \in Nat /\ total_pts(sets) = Len(All(sets))
<1>1. Len(sets) \in 0..Len(sets)
    BY SetsAre
<1> QED
    BY <1>1, UptoType, TotalIs DEF All

\* The sets b come from the sets a while the buffer is kept: nothing is lost,
\* and only the last set of a may grow.
Grown(a, b) ==
    /\ a \in Buffers /\ b \in Buffers
    /\ Len(a) <= Len(b)
    /\ \A k \in 1..Len(a) : Len(a[k]) <= Len(b[k]) /\ (k < Len(a) => Len(a[k]) = Len(b[k]))

LEMMA GrownUpto ==
    ASSUME NEW a, NEW b, Grown(a, b), NEW k \in Nat, k < Len(a)
    PROVE  Upto(b)[k] = Upto(a)[k]
<1>1. Len(a) \in Nat /\ Len(b) \in Nat /\ a \in Buffers /\ b \in Buffers
    BY SetsAre DEF Grown
<1>2. k <= Len(a) /\ k <= Len(b) /\ \A i \in 1..k : Len(a[i]) = Len(b[i])
    BY <1>1 DEF Grown
<1>3. k \in 0..k
    OBVIOUS
<1> QED
    BY <1>1, <1>2, <1>3, UptoAgree

LEMMA BufferNotEmpty ==
    ASSUME NEW sets \in Buffers, sets # <<>>
    PROVE  /\ Len(sets) \in Nat /\ Len(sets) > 0 /\ Len(sets) \in DOMAIN sets
           /\ sets[Len(sets)] \in Seq(Places \cup {Nowhere}) /\ Len(sets[Len(sets)]) \in Nat
<1>1. Len(sets) \in Nat /\ Len(sets) > 0
    BY SetsAre, EmptySeq DEF Buffers
<1>2. Len(sets) \in 1..Len(sets)
    BY <1>1
<1> QED
    BY <1>1, <1>2, SetsAre

LEMMA LensGrow ==
    ASSUME NEW a \in Buffers, NEW b \in Buffers, NEW n \in Nat, Len(a) = n, Len(b) = n,
           \A k \in 1..n : Len(a[k]) <= Len(b[k]) /\ (k < n => Len(a[k]) = Len(b[k]))
    PROVE  Grown(a, b)
BY DEF Grown

\* One point more in the last set.
LEMMA LastGrows ==
    ASSUME NEW a \in Buffers, NEW b \in Buffers, NEW n \in Nat, n > 0, Len(a) = n, Len(b) = n,
           \A k \in 1..n : Len(b[k]) = IF k = n THEN Len(a[k]) + 1 ELSE Len(a[k])
    PROVE  /\ Grown(a, b)
           /\ Len(All(b)) = Len(All(a)) + 1
           /\ Front(All(b)) = All(a)
<1>1. /\ n \in 1..n /\ n \in 0..n /\ n - 1 \in Nat /\ n - 1 < n /\ (n - 1) + 1 = n
      /\ \A k \in 1..n : Len(a[k]) \in Nat
    BY SetsAre
<1>2. Grown(a, b)
  <2>1. ASSUME NEW k \in 1..n
        PROVE  Len(a[k]) <= Len(b[k]) /\ (k < n => Len(a[k]) = Len(b[k]))
      BY <1>1
  <2> QED
      BY <2>1, LensGrow
<1>3. Upto(b)[n - 1] = Upto(a)[n - 1]
    BY <1>1, <1>2, GrownUpto
<1>4. Prefix(b, n - 1, Len(a[n])) = All(a)
    BY <1>1, <1>3, UptoStep DEF Prefix, All
<1>5. Begins(All(a), All(b))
  <2>1. n - 1 < Len(b) /\ Len(a[n]) <= Len(b[(n - 1) + 1]) /\ Len(a[n]) \in Nat
      BY <1>1
  <2>2. Begins(Prefix(b, n - 1, Len(a[n])), Upto(b)[Len(b)])
      BY <1>1, <2>1, PrefixBegins
  <2> QED
      BY <1>4, <2>2 DEF All
<1>6. Len(All(b)) = Len(All(a)) + 1
  <2>1. Len(Upto(b)[n]) = Len(Upto(b)[n - 1]) + Len(b[n]) /\ Len(Upto(b)[n - 1]) \in Nat
      BY <1>1, UptoLen
  <2>2. Len(Upto(a)[n]) = Len(Upto(a)[n - 1]) + Len(a[n])
      BY <1>1, UptoLen
  <2>3. Len(Upto(b)[n - 1]) = Len(Upto(a)[n - 1]) /\ Len(b[n]) = Len(a[n]) + 1 /\ Len(a[n]) \in Nat
      BY <1>1, <1>3
  <2>4. Len(Upto(b)[n]) = Len(Upto(a)[n]) + 1
    <3>1. PICK p : p = Len(Upto(b)[n])
        OBVIOUS
    <3>2. PICK c : c = Len(Upto(b)[n - 1])
        OBVIOUS
    <3>3. PICK q : q = Len(Upto(a)[n])
        OBVIOUS
    <3>4. PICK e : e = Len(Upto(a)[n - 1])
        OBVIOUS
    <3>5. PICK d : d = Len(b[n])
        OBVIOUS
    <3>6. PICK l : l = Len(a[n])
        OBVIOUS
    <3>7. p = c + d /\ c \in Nat
        BY <2>1, <3>1, <3>2, <3>5, Zenon
    <3>8. q = e + l
        BY <2>2, <3>3, <3>4, <3>6, Zenon
    <3>9. c = e
        BY <2>3, <3>2, <3>4, Zenon
    <3>10. d = l + 1 /\ l \in Nat
        BY <2>3, <3>5, <3>6, Zenon
    <3>11. p = q + 1
        BY <3>7, <3>8, <3>9, <3>10
    <3> QED
        BY <3>11, <3>1, <3>3, Zenon
  <2> QED
      BY <2>4 DEF All
<1>7. Front(All(b)) = All(a)
  <2>1. /\ All(a) \in Seq(Points) /\ All(b) \in Seq(Points) /\ Len(All(a)) \in Nat
      BY AllType
  <2>2. Len(All(b)) - 1 = Len(All(a))
      BY <1>6, <2>1
  <2> QED
      BY <1>5, <2>1, <2>2, BeginsCut DEF Front
<1> QED
    BY <1>2, <1>6, <1>7

\* As many points in every set.
LEMMA NoneGrows ==
    ASSUME NEW a \in Buffers, NEW b \in Buffers, NEW n \in Nat, Len(a) = n, Len(b) = n,
           \A k \in 1..n : Len(b[k]) = Len(a[k])
    PROVE  Grown(a, b) /\ All(b) = All(a)
<1>1. n \in 0..n /\ n <= n /\ \A k \in 1..n : Len(a[k]) \in Nat
    BY SetsAre
<1>2. Grown(a, b)
  <2>1. ASSUME NEW k \in 1..n
        PROVE  Len(a[k]) <= Len(b[k]) /\ (k < n => Len(a[k]) = Len(b[k]))
      BY <1>1
  <2> QED
      BY <2>1, LensGrow
<1>3. \A k \in 0..n : Upto(a)[k] = Upto(b)[k]
  <2>1. \A k \in 1..n : Len(a[k]) = Len(b[k])
      OBVIOUS
  <2> QED
      BY <1>1, <2>1, UptoAgree
<1> QED
    BY <1>1, <1>2, <1>3 DEF All

\* The last set of a replaced by w.
LastIs(a, b, w) == b = [a EXCEPT ![Len(a)] = w]

LEMMA LastReplaced ==
    ASSUME NEW a \in Buffers, a # <<>>, NEW w \in Seq(Places \cup {Nowhere}),
           NEW b, LastIs(a, b, w)
    PROVE  /\ b \in Buffers /\ Len(b) = Len(a) /\ b # <<>>
           /\ \A k \in 1..Len(a) : b[k] = IF k = Len(a) THEN w ELSE a[k]
<1>1. Len(a) \in 1..Len(a) /\ Len(a) \in Nat /\ Len(a) > 0
    BY BufferNotEmpty
<1>2. PICK S : S = Seq(Places \cup {Nowhere})
    OBVIOUS
<1>3. a \in Seq(S) /\ w \in S
    BY <1>2 DEF Buffers
<1>4. /\ b \in Seq(S) /\ Len(b) = Len(a)
      /\ \A k \in 1..Len(a) : b[k] = IF k = Len(a) THEN w ELSE a[k]
    BY <1>1, <1>3, ExceptSeq DEF LastIs
<1>5. b # <<>>
    BY <1>1, <1>4, EmptySeq
<1> QED
    BY <1>2, <1>4, <1>5 DEF Buffers

\* Appending a point to the last set.
LEMMA AppendAll ==
    ASSUME NEW a \in Buffers, a # <<>>, NEW w \in Seq(Places \cup {Nowhere}),
           Len(w) = Len(a[Len(a)]) + 1, NEW b, LastIs(a, b, w)
    PROVE  /\ Grown(a, b) /\ b \in Buffers /\ b # <<>> /\ Len(b) = Len(a)
           /\ Len(b[Len(b)]) = Len(a[Len(a)]) + 1
           /\ Len(All(b)) = Len(All(a)) + 1
           /\ Front(All(b)) = All(a)
<1>1. Len(a) \in Nat /\ Len(a) > 0 /\ Len(a) \in 1..Len(a)
    BY BufferNotEmpty
<1>2. /\ b \in Buffers /\ Len(b) = Len(a) /\ b # <<>>
      /\ \A k \in 1..Len(a) : b[k] = IF k = Len(a) THEN w ELSE a[k]
    BY LastReplaced
<1>3. \A k \in 1..Len(a) : Len(b[k]) = IF k = Len(a) THEN Len(a[k]) + 1 ELSE Len(a[k])
  <2>1. ASSUME NEW k \in 1..Len(a), k = Len(a)
        PROVE  Len(b[k]) = Len(a[k]) + 1
      BY <1>2, <2>1, Zenon
  <2>2. ASSUME NEW k \in 1..Len(a), k # Len(a)
        PROVE  Len(b[k]) = Len(a[k])
      BY <1>2, <2>2, Zenon
  <2> QED
      BY <2>1, <2>2, Zenon
<1>4. Grown(a, b) /\ Len(All(b)) = Len(All(a)) + 1 /\ Front(All(b)) = All(a)
    BY <1>1, <1>2, <1>3, LastGrows, Zenon
<1>5. Len(b[Len(b)]) = Len(a[Len(a)]) + 1
    BY <1>1, <1>2, Zenon
<1> QED
    BY <1>2, <1>4, <1>5, Zenon

\* Writing a point of the last set.
LEMMA WriteAll ==
    ASSUME NEW a \in Buffers, a # <<>>, NEW w \in Seq(Places \cup {Nowhere}),
           NEW b, LastIs(a, b, w)
    PROVE  Len(w) = Len(a[Len(a)]) =>
             /\ Grown(a, b) /\ b \in Buffers /\ b # <<>> /\ Len(b) = Len(a)
             /\ All(b) = All(a)
<1>1. Len(a) \in Nat /\ Len(a) > 0 /\ Len(a) \in 1..Len(a)
    BY BufferNotEmpty
<1>2. /\ b \in Buffers /\ Len(b) = Len(a) /\ b # <<>>
      /\ \A k \in 1..Len(a) : b[k] = IF k = Len(a) THEN w ELSE a[k]
    BY LastReplaced
<1> HAVE Len(w) = Len(a[Len(a)])
<1>3. \A k \in 1..Len(a) : Len(b[k]) = Len(a[k])
    BY <1>2, Zenon
<1>4. Grown(a, b) /\ All(b) = All(a)
    BY <1>1, <1>2, <1>3, NoneGrows, Zenon
<1> QED
    BY <1>2, <1>4, Zenon

\* A new set.
LEMMA AddAll ==
    ASSUME NEW a \in Buffers, a # <<>>, NEW b, b = Append(a, <<>>)
    PROVE  /\ Grown(a, b) /\ b # <<>> /\ Len(b) = Len(a) + 1
           /\ \A k \in 1..Len(a) : b[k] = a[k]
           /\ b[Len(b)] = <<>>
           /\ All(b) = All(a)
<1> DEFINE n == Len(a)
<1>1. n \in Nat /\ n > 0 /\ n \in 0..n /\ n + 1 \in Nat /\ n + 1 \in 1..(n + 1) /\ (n + 1) - 1 = n
    BY BufferNotEmpty
<1>2. <<>> \in Seq(Places \cup {Nowhere}) /\ Len(<<>>) = 0
    OBVIOUS
<1>3. /\ b \in Buffers /\ Len(b) = n + 1 /\ b # <<>>
      /\ \A k \in 1..n : b[k] = a[k]
      /\ b[n + 1] = <<>>
    BY <1>2, AppendProperties DEF Buffers
<1>4. \A k \in 1..n : Len(a[k]) \in Nat
    BY SetsAre
<1>5. Grown(a, b)
    BY <1>1, <1>3, <1>4 DEF Grown
<1>55. n = Len(a) /\ a \in Buffers
    OBVIOUS
<1> HIDE DEF n
<1>6. Upto(b)[n] = Upto(a)[n]
  <2>1. n <= Len(a) /\ n <= Len(b) /\ \A k \in 1..n : Len(a[k]) = Len(b[k])
      BY <1>1, <1>3, <1>55
  <2> QED
      BY <1>1, <1>3, <1>55, <2>1, UptoAgree
<1>7. Upto(b)[n + 1] = Upto(b)[n] \o Row(n + 1, 0)
  <2>1. n + 1 \in 1..Len(b) /\ Len(b[n + 1]) = 0
      BY <1>1, <1>2, <1>3
  <2>2. Upto(b)[n + 1] = Upto(b)[(n + 1) - 1] \o Row(n + 1, Len(b[n + 1]))
      BY <1>3, <2>1, UptoStep
  <2> QED
      BY <1>1, <2>1, <2>2
<1>8. Upto(a)[n] \in Seq(Points)
    BY <1>1, <1>55, UptoType
<1>9. Upto(a)[n] \o Row(n + 1, 0) = Upto(a)[n]
    BY <1>1, <1>8, RowType, ConcatEmptySeq
<1>10. All(b) = All(a)
    BY <1>3, <1>6, <1>7, <1>9, <1>55 DEF All
<1> QED
    BY <1>3, <1>5, <1>10, <1>55

\* An empty buffer.
LEMMA EmptyAll ==
    /\ <<<<>>>> \in Buffers /\ <<<<>>>> # <<>> /\ Len(<<<<>>>>) = 1 /\ Len(<<<<>>>>[1]) = 0
    /\ All(<<<<>>>>) = <<>>
<1>1. <<>> \in Seq(Places \cup {Nowhere}) /\ Len(<<>>) = 0
    OBVIOUS
<1> DEFINE b == <<<<>>>>
<1>2. b \in Buffers /\ b # <<>> /\ Len(b) = 1 /\ b[1] = <<>>
    BY <1>1 DEF Buffers
<1> HIDE DEF b
<1>3. 1 \in 1..1 /\ 1 - 1 = 0 /\ 1 \in Nat
    OBVIOUS
<1>4. Upto(b)[1] = Upto(b)[0] \o Row(1, 0) /\ Upto(b)[0] = <<>>
    BY <1>1, <1>2, <1>3, UptoStep
<1>5. Row(1, 0) = <<>> /\ <<>> \in Seq(Points)
    BY RowType
<1>6. Upto(b)[1] = <<>>
    BY <1>4, <1>5, ConcatEmptySeq
<1> QED
    BY <1>1, <1>2, <1>6 DEF All, b

LEMMA NothingDrawn ==
    ASSUME NEW sets \in Buffers
    PROVE  Prefix(sets, 0, 0) = <<>> /\ Len(Upto(sets)[0]) = 0
<1>1. Row(1, 0) = <<>> /\ <<>> \in Seq(Points) /\ Len(<<>>) = 0 /\ 0 + 1 = 1
    BY RowType
<1>2. Upto(sets)[0] = <<>>
    BY UptoStep
<1> QED
    BY <1>1, <1>2, ConcatEmptySeq DEF Prefix
-----------------------------------------------------------------------------
(* The progress of the drawing.                                            *)

\* What the DAQ thread leaves: a point is counted before it is written, at
\* the end of the last set.
BufInv ==
    /\ svs \in Buffers /\ svs # <<>>
    /\ half \in BOOLEAN
    /\ half => Len(svs[Len(svs)]) > 0

\* The points whose values are written.
Count == Len(All(svs)) - (IF half THEN 1 ELSE 0)

\* The counters agree with each other and with the buffer; a tick never asks
\* for more points than are written, and goes to the next set only if there
\* is one; what is drawn is the beginning of the buffer.
ProgInv ==
    /\ active_set \in Nat /\ draw_set \in Nat /\ draw_total \in Nat
    /\ draw_request \in Nat /\ begin \in Nat
    /\ pc \in {"idle", "tick", "read"}
    /\ active_set < Len(svs)
    /\ draw_set <= Len(svs[active_set + 1])
    /\ draw_total = Len(Upto(svs)[active_set]) + draw_set
    /\ draw_total <= Count
    /\ pc # "idle" => plot_active
    /\ pc = "tick" => draw_request > 0 /\ draw_total + draw_request <= Count
    /\ pc = "read" =>
         /\ begin <= draw_set /\ draw_set - begin <= draw_request
         /\ draw_total + (draw_request - (draw_set - begin)) <= Count
         /\ draw_set - begin < draw_request =>
              active_set + 1 < Len(svs) /\ draw_set = Len(svs[active_set + 1])
    /\ dots = Prefix(svs, active_set, IF pc = "read" THEN begin ELSE draw_set)

\* The other variables.
FlagsInv ==
    /\ enabled \in BOOLEAN /\ x \in BOOLEAN /\ y \in BOOLEAN /\ torn \in BOOLEAN
    /\ shown \in Windows

\* While the picture is not stale.
DrawInv == BufInv /\ ProgInv /\ FlagsInv

\* Only the last set may be empty.
FilledInv == \A k \in 1..(Len(svs) - 1) : Len(svs[k]) > 0

\* Of a stale picture nothing is kept, and the counters need not fit the buffer.
PartInv ==
    /\ active_set \in Nat /\ draw_set \in Nat /\ draw_request \in Nat /\ begin \in Nat
    /\ draw_total \in Int
    /\ pc \in {"idle", "tick", "read", "lost"}
    /\ pc = "read" => draw_set - begin <= draw_request
    /\ stale \in BOOLEAN
    /\ stale => dots = <<>>

PlotInv ==
    /\ BufInv /\ FlagsInv /\ FilledInv /\ PartInv
    /\ ~stale => ProgInv

LEMMA CountIs ==
    ASSUME BufInv
    PROVE  /\ All(svs) \in Seq(Points) /\ Len(All(svs)) \in Nat /\ Count \in Int
           /\ total_pts(svs) = Len(All(svs)) /\ Count <= total_pts(svs)
           /\ ~half => Count = total_pts(svs)
           /\ Len(svs) \in Nat /\ Len(svs) > 0
<1>1. All(svs) \in Seq(Points) /\ Len(All(svs)) \in Nat /\ total_pts(svs) = Len(All(svs))
    BY AllType DEF BufInv
<1>2. Len(svs) \in Nat /\ Len(svs) > 0
    BY BufferNotEmpty DEF BufInv
<1>3. half \in BOOLEAN
    BY DEF BufInv
<1> QED
    BY <1>1, <1>2, <1>3 DEF Count

\* The point which is not written is counted: there is one.
LEMMA HalfCounted ==
    ASSUME NEW sets \in Buffers, sets # <<>>, Len(sets[Len(sets)]) > 0
    PROVE  Len(All(sets)) > 0
<1>1. Len(sets) \in 1..Len(sets)
    BY BufferNotEmpty
<1>2. /\ Len(Upto(sets)[Len(sets)]) = Len(Upto(sets)[Len(sets) - 1]) + Len(sets[Len(sets)])
      /\ Len(Upto(sets)[Len(sets) - 1]) \in Nat /\ Len(sets[Len(sets)]) \in Nat
    BY <1>1, UptoLen
<1>3. Len(Upto(sets)[Len(sets)]) > 0
  <2>1. PICK p, q, w : /\ p = Len(Upto(sets)[Len(sets)]) /\ w = Len(sets[Len(sets)])
                       /\ q = Len(Upto(sets)[Len(sets) - 1])
      OBVIOUS
  <2>2. p = q + w /\ q \in Nat /\ w \in Nat /\ w > 0
      BY <1>2, <2>1, Zenon
  <2>3. p > 0
      BY <2>2
  <2> QED
      BY <2>1, <2>3, Zenon
<1> QED
    BY <1>3 DEF All

LEMMA Least ==
    ASSUME NEW a \in Int, NEW b \in Int, NEW m, m = Min({a, b})
    PROVE  m \in {a, b} /\ m <= a /\ m <= b
<1>1. \E k \in {a, b} : \A i \in {a, b} : k <= i
    OBVIOUS
<1> QED
    BY <1>1 DEF Min

\* The progress is kept while the DAQ thread adds to the buffer.
LEMMA KeepsProgress ==
    ASSUME DrawInv, BufInv', Grown(svs, svs'), Count <= Count',
           UNCHANGED <<enabled, x>>, UNCHANGED prog, UNCHANGED gui, UNCHANGED dots
    PROVE  ProgInv'
<1>1. /\ Len(svs) \in Nat /\ Len(svs') \in Nat /\ Len(svs) <= Len(svs')
      /\ \A k \in 1..Len(svs) : /\ Len(svs[k]) <= Len(svs'[k])
                                /\ k < Len(svs) => Len(svs[k]) = Len(svs'[k])
      /\ \A k \in 1..Len(svs) : Len(svs[k]) \in Nat /\ Len(svs'[k]) \in Nat
  <2>1. svs \in Buffers /\ svs' \in Buffers
      BY DEF Grown
  <2>2. Len(svs) \in Nat /\ Len(svs') \in Nat /\ Len(svs) <= Len(svs')
      BY <2>1, SetsAre DEF Grown
  <2>3. \A k \in 1..Len(svs) : Len(svs[k]) \in Nat /\ Len(svs'[k]) \in Nat
      BY <2>1, <2>2, SetsAre
  <2> QED
      BY <2>2, <2>3 DEF Grown
<1>2. ProgInv /\ Count \in Int /\ Count' \in Int
  <2>1. Count \in Int
      BY CountIs DEF DrawInv
  <2>2. Count' \in Int
    <3>1. Len(All(svs')) \in Nat /\ half' \in BOOLEAN
        BY AllType DEF BufInv
    <3> QED
        BY <3>1 DEF Count
  <2> QED
      BY <2>1, <2>2 DEF DrawInv
<1>3. /\ active_set' = active_set /\ draw_set' = draw_set /\ draw_total' = draw_total
      /\ pc' = pc /\ draw_request' = draw_request /\ begin' = begin /\ dots' = dots
      /\ plot_active' = plot_active
    BY DEF prog, gui, plot_active
<1>4. active_set \in Nat /\ active_set < Len(svs) /\ active_set + 1 \in 1..Len(svs)
    BY <1>1, <1>2 DEF ProgInv
<1>5. Upto(svs')[active_set] = Upto(svs)[active_set]
    BY <1>4, GrownUpto
<1>6. dots' = Prefix(svs', active_set', IF pc' = "read" THEN begin' ELSE draw_set')
    BY <1>2, <1>3, <1>5 DEF ProgInv, Prefix
<1>7. /\ Len(svs[active_set + 1]) <= Len(svs'[active_set + 1])
      /\ active_set + 1 < Len(svs) => Len(svs[active_set + 1]) = Len(svs'[active_set + 1])
      /\ Len(svs[active_set + 1]) \in Nat /\ Len(svs'[active_set + 1]) \in Nat
    BY <1>1, <1>4
<1>8. /\ active_set' < Len(svs') /\ draw_set' <= Len(svs'[active_set' + 1])
      /\ draw_total' = Len(Upto(svs')[active_set']) + draw_set'
    BY <1>1, <1>2, <1>3, <1>5, <1>7 DEF ProgInv
<1>9. /\ draw_total' <= Count'
      /\ pc' = "tick" => draw_request' > 0 /\ draw_total' + draw_request' <= Count'
      /\ pc' = "read" =>
           /\ begin' <= draw_set' /\ draw_set' - begin' <= draw_request'
           /\ draw_total' + (draw_request' - (draw_set' - begin')) <= Count'
  <2>1. PICK c \in Int, d \in Int : c = Count /\ d = Count' /\ c <= d
      BY <1>2
  <2>2. /\ draw_total <= c
        /\ draw_set \in Nat /\ draw_total \in Nat /\ draw_request \in Nat /\ begin \in Nat
        /\ pc = "tick" => draw_request > 0 /\ draw_total + draw_request <= c
        /\ pc = "read" =>
             /\ begin <= draw_set /\ draw_set - begin <= draw_request
             /\ draw_total + (draw_request - (draw_set - begin)) <= c
      BY <1>2, <2>1 DEF ProgInv
  <2>3. /\ draw_total' <= d
        /\ pc' = "tick" => draw_request' > 0 /\ draw_total' + draw_request' <= d
        /\ pc' = "read" =>
             /\ begin' <= draw_set' /\ draw_set' - begin' <= draw_request'
             /\ draw_total' + (draw_request' - (draw_set' - begin')) <= d
      BY <1>3, <2>1, <2>2
  <2> QED
      BY <2>1, <2>3
<1>10. pc' = "read" /\ draw_set' - begin' < draw_request' =>
          active_set' + 1 < Len(svs') /\ draw_set' = Len(svs'[active_set' + 1])
    BY <1>1, <1>2, <1>3, <1>4, <1>7 DEF ProgInv
<1>11. /\ active_set' \in Nat /\ draw_set' \in Nat /\ draw_total' \in Nat
       /\ draw_request' \in Nat /\ begin' \in Nat /\ pc' \in {"idle", "tick", "read"}
       /\ pc' # "idle" => plot_active'
    BY <1>2, <1>3 DEF ProgInv
<1> QED
    BY <1>6, <1>8, <1>9, <1>10, <1>11 DEF ProgInv

\* A part of a set drawn, and the next set begun.
LEMMA PrefixMore ==
    ASSUME NEW sets \in Buffers, NEW k \in Nat, k < Len(sets), NEW m \in Nat, NEW d \in Nat
    PROVE  Prefix(sets, k, m) \o [j \in 1..d |-> <<k + 1, m + j>>] = Prefix(sets, k, m + d)
<1> DEFINE r == Row(k + 1, m)
           t == [j \in 1..d |-> <<k + 1, m + j>>]
           w == Row(k + 1, m + d)
           u == Upto(sets)[k]
<1>1. k + 1 \in Nat /\ m + d \in Nat /\ Len(sets) \in Nat /\ k \in 0..Len(sets)
    BY SetsAre
<1>2. /\ r \in Seq(Points) /\ Len(r) = m
      /\ w \in Seq(Points) /\ Len(w) = m + d
    BY <1>1, RowType
<1>3. t \in Seq(Points) /\ Len(t) = d
  <2>1. t \in [1..d -> Points]
      BY <1>1 DEF Points
  <2>2. t \in Seq(Points)
      BY <2>1
  <2>3. DOMAIN t = 1..d
      OBVIOUS
  <2> HIDE DEF t
  <2>4. Len(t) \in Nat /\ DOMAIN t = 1..Len(t)
      BY <2>2, LenProperties
  <2> QED
      BY <2>2, <2>3, <2>4
<1>4. u \in Seq(Points)
    BY <1>1, UptoType
<1>5. /\ \A i \in 1..m : r[i] = w[i]
      /\ \A j \in 1..d : t[j] = w[m + j]
    BY DEF Row
<1> HIDE DEF r, t, w, u
<1>6. r \o t = w
  <2>1. /\ r \o t \in Seq(Points) /\ Len(r \o t) = m + d
        /\ \A i \in 1..(m + d) : (r \o t)[i] = IF i <= m THEN r[i] ELSE t[i - m]
    <3>1. PICK p \in Seq(Points), q \in Seq(Points) : p = r /\ q = t
        BY <1>2, <1>3
    <3>2. Len(p) = m /\ Len(q) = d
        BY <1>2, <1>3, <3>1
    <3>3. /\ p \o q \in Seq(Points) /\ Len(p \o q) = Len(p) + d
          /\ \A i \in 1..(Len(p) + d) : (p \o q)[i] = IF i <= Len(p) THEN p[i] ELSE q[i - Len(p)]
        BY <3>2, ConcatProperties
    <3> QED
        BY <3>1, <3>2, <3>3, Zenon
  <2> DEFINE c == r \o t
  <2> HIDE DEF c
  <2>2. \A i \in 1..(m + d) : c[i] = IF i <= m THEN r[i] ELSE t[i - m]
      BY <2>1 DEF c
  <2>3. \A i \in 1..(m + d) : c[i] = w[i]
    <3>1. ASSUME NEW i \in 1..(m + d), i <= m
          PROVE  c[i] = w[i]
        BY <1>5, <2>2, <3>1
    <3>2. ASSUME NEW i \in 1..(m + d), ~(i <= m)
          PROVE  c[i] = w[i]
      <4>1. i - m \in 1..d /\ m + (i - m) = i
          BY <3>2
      <4>2. c[i] = t[i - m]
          BY <2>2, <3>2
      <4>3. t[i - m] = w[m + (i - m)]
          BY <1>5, <4>1
      <4> QED
          BY <4>1, <4>2, <4>3
    <3> QED
        BY <3>1, <3>2
  <2>4. c \in Seq(Points) /\ Len(c) = m + d
      BY <2>1 DEF c
  <2>5. c = w
      BY <1>2, <2>3, <2>4, SeqEqual
  <2> QED
      BY <2>5 DEF c
<1>7. (u \o r) \o t = u \o (r \o t)
  <2>1. PICK a \in Seq(Points), b \in Seq(Points), c \in Seq(Points) : a = u /\ b = r /\ c = t
      BY <1>2, <1>3, <1>4
  <2>2. (a \o b) \o c = a \o (b \o c)
      BY ConcatAssociative
  <2> QED
      BY <2>1, <2>2, Zenon
<1> QED
    BY <1>6, <1>7 DEF Prefix, r, t, w, u

LEMMA PrefixNext ==
    ASSUME NEW sets \in Buffers, NEW k \in Nat, k + 1 < Len(sets)
    PROVE  /\ Prefix(sets, k, Len(sets[k + 1])) = Prefix(sets, k + 1, 0)
           /\ Prefix(sets, k + 1, 0) = Upto(sets)[k + 1]
<1>1. k + 1 \in 1..Len(sets) /\ k + 1 \in 0..Len(sets) /\ (k + 1) - 1 = k /\ (k + 1) + 1 \in Nat
    BY SetsAre
<1>2. Upto(sets)[k + 1] = Upto(sets)[k] \o Row(k + 1, Len(sets[k + 1]))
    BY <1>1, UptoStep
<1>3. Upto(sets)[k + 1] \in Seq(Points)
    BY <1>1, UptoType
<1>4. Upto(sets)[k + 1] \o Row((k + 1) + 1, 0) = Upto(sets)[k + 1]
    BY <1>1, <1>3, RowType, ConcatEmptySeq
<1> QED
    BY <1>2, <1>4 DEF Prefix

\* The points whose values are written, of given sets.
LEMMA FrontIs ==
    ASSUME NEW a \in Seq(Points), NEW n \in Nat, Len(a) = n + 1
    PROVE  /\ Front(a) \in Seq(Points) /\ Len(Front(a)) = n
           /\ \A i \in 1..n : Front(a)[i] = a[i]
<1>1. \A i \in 1..n : a[i] \in Points
    BY ElementOfSeq
<1>2. Front(a) = SubSeq(a, 1, n)
    BY DEF Front
<1>3. /\ SubSeq(a, 1, n) \in Seq(Points)
      /\ Len(SubSeq(a, 1, n)) = n
      /\ \A i \in 1..n : SubSeq(a, 1, n)[i] = a[i]
    BY <1>1, SubSeqProperties
<1> QED
    BY <1>2, <1>3

LEMMA WrittenOf ==
    ASSUME NEW sets \in Buffers, sets # <<>>, NEW h \in BOOLEAN, h => Len(sets[Len(sets)]) > 0,
           NEW w, w = IF h THEN Front(All(sets)) ELSE All(sets)
    PROVE  /\ w \in Seq(Points) /\ Len(w) \in Nat
           /\ Len(w) = Len(All(sets)) - (IF h THEN 1 ELSE 0)
           /\ \A i \in 1..Len(w) : w[i] = All(sets)[i]
<1>1. All(sets) \in Seq(Points) /\ Len(All(sets)) \in Nat
    BY AllType
<1>2. CASE h
  <2>1. PICK n \in Nat : Len(All(sets)) = n + 1
    <3>1. Len(All(sets)) > 0
        BY <1>2, HalfCounted
    <3>2. Len(All(sets)) - 1 \in Nat /\ Len(All(sets)) = (Len(All(sets)) - 1) + 1
        BY <1>1, <3>1
    <3> QED
        BY <3>2
  <2>2. w = Front(All(sets))
      BY <1>2
  <2>3. w \in Seq(Points) /\ Len(w) = n /\ \A i \in 1..n : w[i] = All(sets)[i]
      BY <1>1, <2>1, <2>2, FrontIs
  <2>4. Len(w) = Len(All(sets)) - 1
      BY <1>1, <2>1, <2>3
  <2> QED
      BY <1>2, <2>3, <2>4
<1>3. CASE ~h
  <2>1. w = All(sets)
      BY <1>3
  <2>2. Len(w) = Len(All(sets)) - 0
      BY <1>1, <2>1
  <2> QED
      BY <1>1, <1>3, <2>1, <2>2
<1> QED
    BY <1>2, <1>3

LEMMA WrittenIs ==
    ASSUME BufInv
    PROVE  /\ Written = IF half THEN Front(All(svs)) ELSE All(svs)
           /\ Written \in Seq(Points) /\ Len(Written) = Count /\ Count \in Nat
           /\ \A i \in 1..Count : Written[i] = All(svs)[i]
<1>1. Written = IF half THEN Front(All(svs)) ELSE All(svs)
    BY FlattenIs, Zenon DEF Written, BufInv, All
<1>2. PICK w, sets, h : w = Written /\ sets = svs /\ h = half
    OBVIOUS
<1>3. w = IF h THEN Front(All(sets)) ELSE All(sets)
    BY <1>1, <1>2
<1>4. sets \in Buffers /\ sets # <<>> /\ h \in BOOLEAN /\ (h => Len(sets[Len(sets)]) > 0)
    BY <1>2 DEF BufInv
<1>5. /\ w \in Seq(Points) /\ Len(w) \in Nat
      /\ Len(w) = Len(All(sets)) - (IF h THEN 1 ELSE 0)
      /\ \A i \in 1..Len(w) : w[i] = All(sets)[i]
    BY <1>3, <1>4, WrittenOf
<1> QED
    BY <1>1, <1>2, <1>5 DEF Count

LEMMA WrittenNext ==
    ASSUME BufInv'
    PROVE  /\ Written' = IF half' THEN Front(All(svs')) ELSE All(svs')
           /\ Written' \in Seq(Points) /\ Len(Written') = Count'
<1>1. Written' = IF half' THEN Front(All(svs')) ELSE All(svs')
    BY FlattenIs, Zenon DEF Written, BufInv, All
<1>2. PICK w, sets, h : w = Written' /\ sets = svs' /\ h = half'
    OBVIOUS
<1>3. w = IF h THEN Front(All(sets)) ELSE All(sets)
    BY <1>1, <1>2
<1>4. sets \in Buffers /\ sets # <<>> /\ h \in BOOLEAN /\ (h => Len(sets[Len(sets)]) > 0)
    BY <1>2 DEF BufInv
<1>5. /\ w \in Seq(Points) /\ Len(w) \in Nat
      /\ Len(w) = Len(All(sets)) - (IF h THEN 1 ELSE 0)
    BY <1>3, <1>4, WrittenOf
<1> QED
    BY <1>1, <1>2, <1>5 DEF Count

LEMMA DrawnIs ==
    ASSUME DrawInv
    PROVE  /\ dots \in Seq(Points) /\ Len(dots) \in Nat
           /\ Len(dots) <= Count
           /\ Begins(dots, Written)
<1> DEFINE m == IF pc = "read" THEN begin ELSE draw_set
<1>1. svs \in Buffers /\ ProgInv /\ BufInv
    BY DEF DrawInv, BufInv
<1>2. /\ active_set \in Nat /\ active_set < Len(svs) /\ m \in Nat /\ m <= draw_set
      /\ draw_set \in Nat
  <2>1. /\ active_set \in Nat /\ active_set < Len(svs) /\ draw_set \in Nat /\ begin \in Nat
        /\ pc = "read" => begin <= draw_set
      BY <1>1 DEF ProgInv
  <2> QED
      BY <2>1
<1>3. m <= Len(svs[active_set + 1]) /\ dots = Prefix(svs, active_set, m)
  <2>1. Len(svs[active_set + 1]) \in Nat /\ draw_set <= Len(svs[active_set + 1])
    <3>1. active_set + 1 \in 1..Len(svs)
        BY <1>1, <1>2, SetsAre
    <3> QED
        BY <1>1, <3>1, SetsAre DEF ProgInv
  <2> QED
      BY <1>1, <1>2, <2>1 DEF ProgInv
<1> HIDE DEF m
<1>4. /\ dots \in Seq(Points) /\ Len(dots) = Len(Upto(svs)[active_set]) + m
      /\ Begins(dots, All(svs))
    BY <1>1, <1>2, <1>3, PrefixBegins DEF All
<1>5. Len(Upto(svs)[active_set]) \in Nat
  <2>1. active_set \in 0..Len(svs)
      BY <1>1, <1>2, SetsAre
  <2> QED
      BY <1>1, <2>1, UptoType
<1>6. Len(dots) \in Nat /\ Len(dots) <= draw_total /\ draw_total <= Count /\ Count \in Nat
      /\ draw_total \in Nat
  <2>1. draw_total = Len(Upto(svs)[active_set]) + draw_set /\ draw_total <= Count
      BY <1>1 DEF ProgInv
  <2>2. Count \in Nat
      BY <1>1, WrittenIs
  <2> QED
      BY <1>2, <1>4, <1>5, <2>1, <2>2
<1>7. Begins(dots, Written)
    BY <1>1, <1>4, <1>6, WrittenIs DEF Begins
<1> QED
    BY <1>4, <1>6, <1>7
-----------------------------------------------------------------------------
(* DrawInv is inductive.                                                    *)

LEMMA DrawInit == PlotInit => PlotInv
<1> SUFFICES ASSUME PlotInit PROVE PlotInv
    OBVIOUS
<1>1. BufInv
    BY EmptyAll DEF PlotInit, BufInv
<1>2. Len(svs) = 1 /\ Len(svs[1]) = 0 /\ All(svs) = <<>> /\ svs \in Buffers
    BY EmptyAll DEF PlotInit
<1>3. Count = 0
    BY <1>2 DEF PlotInit, Count
<1>4. Prefix(svs, 0, 0) = <<>> /\ Len(Upto(svs)[0]) = 0
    BY <1>2, NothingDrawn
<1>5. ProgInv
    BY <1>2, <1>3, <1>4 DEF PlotInit, ProgInv
<1>6. FlagsInv
    BY DEF PlotInit, FlagsInv
<1>7. FilledInv
    BY <1>2 DEF FilledInv
<1>8. PartInv
  <2>1. stale \in BOOLEAN /\ (stale => dots = <<>>)
      BY Zenon DEF PlotInit
  <2> QED
      BY <2>1 DEF PlotInit, PartInv
<1> QED
    BY <1>1, <1>5, <1>6, <1>7, <1>8 DEF PlotInv

\* A point counted: not yet a point of the picture's data.
LEMMA AppendStep ==
    ASSUME BufInv, FlagsInv, AppendValue
    PROVE  /\ BufInv' /\ FlagsInv' /\ Written' = Written /\ Grown(svs, svs')
           /\ Count <= Count' /\ Len(svs') = Len(svs)
<1>1. svs \in Buffers /\ svs # <<>> /\ BufInv /\ ~half
    BY DEF BufInv, AppendValue
<1>2. svs' = [svs EXCEPT ![Len(svs)] = Append(@, Nowhere)]
    BY DEF AppendValue
<1>3. /\ Grown(svs, svs') /\ svs' \in Buffers /\ svs' # <<>> /\ Len(svs') = Len(svs)
      /\ Len(svs'[Len(svs')]) = Len(svs[Len(svs)]) + 1
      /\ Len(All(svs')) = Len(All(svs)) + 1
      /\ Front(All(svs')) = All(svs)
  <2>1. PICK w : w = Append(svs[Len(svs)], Nowhere)
      OBVIOUS
  <2>2. PICK q \in Seq(Places \cup {Nowhere}) : q = svs[Len(svs)]
      BY <1>1, BufferNotEmpty
  <2>3. w \in Seq(Places \cup {Nowhere}) /\ Len(w) = Len(q) + 1
    <3>1. w = Append(q, Nowhere) /\ Nowhere \in Places \cup {Nowhere}
        BY <2>1, <2>2
    <3> QED
        BY <3>1, AppendProperties
  <2>4. LastIs(svs, svs', w)
      BY <1>2, <2>1 DEF LastIs
  <2>5. Len(w) = Len(svs[Len(svs)]) + 1
      BY <2>2, <2>3
  <2> QED
      BY <1>1, <2>3, <2>4, <2>5, AppendAll
<1>4. half' = TRUE
    BY DEF AppendValue
<1>5. BufInv'
  <2>1. Len(svs[Len(svs)]) \in Nat
      BY <1>1, BufferNotEmpty
  <2>2. Len(svs'[Len(svs')]) > 0
      BY <1>3, <2>1
  <2> QED
      BY <1>3, <1>4, <2>2 DEF BufInv
<1>6. Count' = Count
  <2>1. Len(All(svs)) \in Nat
      BY <1>1, CountIs
  <2> QED
      BY <1>1, <1>3, <1>4, <2>1 DEF Count
<1>7. Count <= Count'
    BY <1>1, <1>6, CountIs
<1>8. FlagsInv'
  <2>1. UNCHANGED axes
      BY DEF AppendValue
  <2>2. UNCHANGED <<enabled, x, y, shown>>
      BY <2>1 DEF axes
  <2>3. torn' \in BOOLEAN
    <3>1. PICK r : r = (/\ Reading /\ active_set + 1 = Len(svs) /\ Len(svs[Len(svs)]) % Chunk = 0)
        OBVIOUS
    <3>2. torn' = (torn \/ r)
        BY <3>1, Zenon DEF AppendValue
    <3> QED
        BY <3>2, Zenon DEF FlagsInv
  <2> QED
      BY <2>2, <2>3, Zenon DEF FlagsInv
<1>9. Written' = Written
  <2>1. Written = All(svs)
      BY <1>1, WrittenIs
  <2>2. Written' = Front(All(svs'))
      BY <1>4, <1>5, WrittenNext
  <2> QED
      BY <1>3, <2>1, <2>2
<1> QED
    BY <1>3, <1>5, <1>7, <1>8, <1>9

\* The point written.
LEMMA WriteStep ==
    ASSUME BufInv, FlagsInv, WriteValue
    PROVE  /\ BufInv' /\ FlagsInv' /\ Grown(svs, svs')
           /\ Count <= Count' /\ Len(svs') = Len(svs)
           /\ Len(Written') = Len(Written) + 1
           /\ SubSeq(Written', 1, Len(Written)) = Written
<1>1. svs \in Buffers /\ svs # <<>> /\ BufInv /\ half /\ Len(svs[Len(svs)]) > 0
    BY DEF BufInv, WriteValue
<1>2. PICK p \in Places : svs' = [svs EXCEPT ![Len(svs)] = [@ EXCEPT ![Len(@)] = p]]
    BY DEF WriteValue
<1>3. /\ Grown(svs, svs') /\ svs' \in Buffers /\ svs' # <<>> /\ Len(svs') = Len(svs)
      /\ All(svs') = All(svs)
  <2>1. PICK w : w = [svs[Len(svs)] EXCEPT ![Len(svs[Len(svs)])] = p]
      OBVIOUS
  <2>2. PICK q \in Seq(Places \cup {Nowhere}) : q = svs[Len(svs)]
      BY <1>1, BufferNotEmpty
  <2>3. w \in Seq(Places \cup {Nowhere}) /\ Len(w) = Len(q)
    <3>1. w = [q EXCEPT ![Len(q)] = p] /\ p \in Places \cup {Nowhere}
        BY <2>1, <2>2
    <3>2. Len(q) \in 1..Len(q)
        BY <1>1, <2>2, LenProperties
    <3> QED
        BY <3>1, <3>2, ExceptSeq
  <2>4. LastIs(svs, svs', w)
      BY <1>2, <2>1 DEF LastIs
  <2>5. Len(w) = Len(svs[Len(svs)])
      BY <2>2, <2>3
  <2> QED
      BY <1>1, <2>3, <2>4, <2>5, WriteAll
<1>4. half' = FALSE
    BY DEF WriteValue
<1>5. BufInv'
    BY <1>3, <1>4 DEF BufInv
<1>6. Count' = Count + 1 /\ Count \in Nat
  <2>1. Len(All(svs)) \in Nat
      BY <1>1, CountIs
  <2>2. Count \in Nat
      BY <1>1, WrittenIs
  <2> QED
      BY <1>1, <1>3, <1>4, <2>1, <2>2 DEF Count
<1>7. Count <= Count'
    BY <1>6
<1>8. FlagsInv'
  <2>1. UNCHANGED <<enabled, x, y, shown, torn>>
      BY DEF WriteValue, axes, ink
  <2> QED
      BY <2>1, Zenon DEF FlagsInv
<1>9. Written = Front(All(svs)) /\ Written' = All(svs) /\ Len(Written) = Count
      /\ Written \in Seq(Points) /\ All(svs) \in Seq(Points)
    BY <1>1, <1>3, <1>4, <1>5, WrittenIs, WrittenNext, CountIs
<1>10. Len(Written') = Count' /\ Len(All(svs)) = Count + 1
  <2>1. Len(Written') = Count'
      BY <1>5, WrittenNext
  <2>2. Len(All(svs)) \in Nat /\ Count = Len(All(svs)) - 1
      BY <1>1, CountIs DEF Count
  <2> QED
      BY <2>1, <2>2
<1>11. SubSeq(All(svs), 1, Count) = Written
  <2>1. Len(All(svs)) - 1 = Count
      BY <1>6, <1>10
  <2> QED
      BY <1>9, <2>1 DEF Front
<1> QED
    BY <1>3, <1>5, <1>6, <1>7, <1>8, <1>9, <1>10, <1>11

LEMMA AddSetStep ==
    ASSUME BufInv, FlagsInv, AddSet
    PROVE  /\ BufInv' /\ FlagsInv' /\ Written' = Written /\ Grown(svs, svs')
           /\ Count <= Count' /\ Len(svs') = Len(svs) + 1 /\ Len(svs[Len(svs)]) > 0
<1>1. svs \in Buffers /\ svs # <<>> /\ BufInv /\ ~half
    BY DEF BufInv, AddSet
<1>2. svs' = Append(svs, <<>>) /\ half' = half
    BY DEF AddSet
<1>3. /\ Grown(svs, svs') /\ svs' # <<>> /\ All(svs') = All(svs) /\ svs' \in Buffers
  <2>1. Grown(svs, svs') /\ svs' # <<>> /\ All(svs') = All(svs)
      BY <1>1, <1>2, AddAll, Zenon
  <2> QED
      BY <2>1 DEF Grown
<1>5. BufInv'
    BY <1>1, <1>2, <1>3, Zenon DEF BufInv
<1>6. Count' = Count /\ Count \in Int
    BY <1>1, <1>2, <1>3, CountIs DEF Count
<1>7. Count <= Count' /\ Len(svs') = Len(svs) + 1 /\ Len(svs[Len(svs)]) > 0
  <2>1. Len(svs') = Len(svs) + 1
    <3>1. svs \in Seq(Seq(Places \cup {Nowhere}))
        BY <1>1 DEF Buffers
    <3>2. <<>> \in Seq(Places \cup {Nowhere})
        OBVIOUS
    <3> QED
        BY <1>2, <3>1, <3>2, AppendProperties
  <2>2. svs[Len(svs)] # <<>> /\ svs[Len(svs)] \in Seq(Places \cup {Nowhere})
      BY <1>1, BufferNotEmpty DEF AddSet
  <2>3. Len(svs[Len(svs)]) > 0
      BY <2>2, EmptySeq, LenProperties
  <2> QED
      BY <1>6, <2>1, <2>3
<1>8. FlagsInv'
  <2>1. UNCHANGED <<enabled, x, y, shown>>
      BY DEF AddSet, axes
  <2>3. torn' \in BOOLEAN
    <3>1. PICK r : r = (Reading /\ Len(svs) % SetChunk = 0)
        OBVIOUS
    <3>2. torn' = (torn \/ r)
        BY <3>1, Zenon DEF AddSet
    <3> QED
        BY <3>2, Zenon DEF FlagsInv
  <2> QED
      BY <2>1, <2>3, Zenon DEF FlagsInv
<1>9. Written' = Written
  <2>1. Written' = IF half' THEN Front(All(svs')) ELSE All(svs')
      BY <1>5, WrittenNext
  <2>2. Written = IF half THEN Front(All(svs)) ELSE All(svs)
      BY <1>1, WrittenIs
  <2> QED
      BY <1>2, <1>3, <2>1, <2>2
<1> QED
    BY <1>3, <1>5, <1>7, <1>8, <1>9

LEMMA RequestStep ==
    ASSUME DrawInv, RequestDraw
    PROVE  DrawInv' /\ Written' = Written /\ dots' = dots /\ plot_active' = plot_active
<1>1. /\ svs' = svs /\ half' = half /\ dots' = dots /\ begin' = begin /\ torn' = torn
      /\ enabled' = enabled /\ x' = x /\ y' = y /\ shown' = shown
      /\ active_set' = active_set /\ draw_set' = draw_set /\ draw_total' = draw_total
      /\ pc = "idle" /\ pc' = "tick" /\ plot_active /\ ~half /\ draw_request' > 0
    BY DEF RequestDraw, buf, axes, prog, ink
<1>2. BufInv /\ ProgInv /\ FlagsInv /\ Count \in Int /\ Count = total_pts(svs)
    BY <1>1, CountIs DEF DrawInv
<1>3. BufInv' /\ FlagsInv' /\ Count' = Count /\ Written' = Written /\ plot_active' = plot_active
    BY <1>1, <1>2 DEF BufInv, FlagsInv, Count, Written, plot_active
<1>4. draw_request' \in Nat /\ draw_total + draw_request' <= Count
  <2>1. Slice \in Nat /\ draw_total \in Nat /\ Count - draw_total \in Int
      BY <1>2, PlotAssumption DEF ProgInv
  <2>2. draw_request' = Min({Count - draw_total, Slice})
      BY <1>2 DEF RequestDraw
  <2>3. draw_request' \in {Count - draw_total, Slice} /\ draw_request' <= Count - draw_total
    <3>1. PICK a \in Int, b \in Int, m \in {draw_request'} :
             a = Count - draw_total /\ b = Slice /\ m = draw_request'
        BY <2>1
    <3>2. m = Min({a, b})
        BY <2>2, <3>1
    <3>3. m \in {a, b} /\ m <= a /\ m <= b
        BY <3>2, Least
    <3> QED
        BY <3>1, <3>3
  <2> QED
      BY <1>1, <1>2, <2>1, <2>3
<1>5. ProgInv'
    BY <1>1, <1>2, <1>3, <1>4 DEF ProgInv
<1> QED
    BY <1>1, <1>3, <1>5 DEF DrawInv

\* The counters after a part of a set with l points is chosen: q were drawn
\* of it and u before it, t in all; r more are asked for, and c are written.
LEMMA PartChosen ==
    ASSUME NEW q \in Nat, NEW r \in Nat, NEW l \in Nat, NEW u \in Nat, NEW t, NEW c \in Int,
           NEW m, NEW n,
           m \in {q + r, l}, m <= q + r, m <= l, q <= l, t = u + q, t + r <= c, n = t + (m - q)
    PROVE  /\ m \in Nat /\ q <= m /\ m - q <= r
           /\ n \in Nat /\ n <= c /\ n = u + m /\ n + (r - (m - q)) <= c
           /\ m - q < r => m = l /\ n < c
<1>1. m \in Nat /\ q <= m
    OBVIOUS
<1>2. m - q \in Nat /\ m - q <= r
    BY <1>1
<1> QED
    BY <1>1, <1>2

LEMMA BeginStep ==
    ASSUME DrawInv, BeginSet
    PROVE  DrawInv' /\ Written' = Written /\ dots' = dots /\ plot_active' = plot_active
<1> DEFINE l == Len(svs[active_set + 1])
<1>1. /\ svs' = svs /\ half' = half /\ dots' = dots /\ torn' = torn
      /\ enabled' = enabled /\ x' = x /\ y' = y /\ shown' = shown
      /\ active_set' = active_set /\ draw_request' = draw_request
      /\ pc = "tick" /\ pc' = "read" /\ begin' = draw_set
      /\ draw_set' = Min({draw_set + draw_request, l})
      /\ draw_total' = draw_total + (draw_set' - draw_set)
    BY DEF BeginSet, buf, axes, ink
<1>2. BufInv /\ ProgInv /\ FlagsInv /\ Count \in Int /\ Count <= Len(All(svs)) /\ svs \in Buffers
      /\ Len(svs) \in Nat /\ Len(All(svs)) \in Nat
    BY CountIs DEF DrawInv, BufInv
<1>3. BufInv' /\ FlagsInv' /\ Count' = Count /\ Written' = Written /\ plot_active' = plot_active
    BY <1>1, <1>2 DEF BufInv, FlagsInv, Count, Written, plot_active
<1>4. /\ active_set \in Nat /\ draw_set \in Nat /\ draw_total \in Nat /\ draw_request \in Nat
      /\ active_set < Len(svs) /\ draw_set <= l
      /\ draw_total = Len(Upto(svs)[active_set]) + draw_set
      /\ draw_request > 0 /\ draw_total + draw_request <= Count /\ plot_active
      /\ dots = Prefix(svs, active_set, draw_set)
    BY <1>1, <1>2 DEF ProgInv
<1>5. active_set + 1 \in 1..Len(svs) /\ (active_set + 1) - 1 = active_set
    BY <1>2, <1>4
<1>6. l \in Nat /\ Len(Upto(svs)[active_set]) \in Nat
      /\ Len(Upto(svs)[active_set + 1]) = Len(Upto(svs)[active_set]) + l
    BY <1>2, <1>5, UptoLen
<1> HIDE DEF l
<1>7. /\ draw_set' \in {draw_set + draw_request, l}
      /\ draw_set' <= draw_set + draw_request /\ draw_set' <= l
  <2>1. PICK a \in Int, b \in Int, m \in {draw_set'} :
           a = draw_set + draw_request /\ b = l /\ m = draw_set'
      BY <1>4, <1>6
  <2>2. m = Min({a, b})
      BY <1>1, <2>1
  <2>3. m \in {a, b} /\ m <= a /\ m <= b
      BY <2>2, Least
  <2> QED
      BY <2>1, <2>3
<1>8. /\ draw_set' \in Nat /\ draw_set <= draw_set' /\ draw_set' - draw_set <= draw_request
      /\ draw_total' \in Nat /\ draw_total' <= Count
      /\ draw_total' = Len(Upto(svs)[active_set]) + draw_set'
      /\ draw_total' + (draw_request - (draw_set' - draw_set)) <= Count
      /\ draw_set' - draw_set < draw_request => draw_set' = l /\ draw_total' < Count
  <2>1. PICK q, r, u, t, c, m, n :
          /\ q = draw_set /\ r = draw_request /\ u = Len(Upto(svs)[active_set])
          /\ t = draw_total /\ c = Count /\ m = draw_set' /\ n = draw_total'
      OBVIOUS
  <2>6. q \in Nat /\ r \in Nat /\ u \in Nat /\ c \in Int
      BY <1>2, <1>4, <1>6, <2>1
  <2>2. n = t + (m - q)
      BY <1>1, <2>1
  <2>3. m \in {q + r, l} /\ m <= q + r /\ m <= l
      BY <1>7, <2>1
  <2>4. q <= l /\ t = u + q /\ t + r <= c
      BY <1>4, <2>1
  <2>5. /\ m \in Nat /\ q <= m /\ m - q <= r
        /\ n \in Nat /\ n <= c /\ n = u + m /\ n + (r - (m - q)) <= c
        /\ m - q < r => m = l /\ n < c
      BY <1>6, <2>2, <2>3, <2>4, <2>6, PartChosen
  <2> QED
      BY <2>1, <2>5
<1>9. ASSUME draw_set' - draw_set < draw_request
      PROVE  active_set + 1 < Len(svs) /\ draw_set' = l
  <2>1. draw_set' = l
      BY <1>8, <1>9
  <2>2. draw_total' < Count
      BY <1>8, <1>9
  <2>3. active_set + 1 # Len(svs)
    <3>1. SUFFICES ASSUME active_set + 1 = Len(svs) PROVE FALSE
        OBVIOUS
    <3>2. PICK p, q : p = Len(Upto(svs)[active_set]) /\ q = Len(All(svs))
        OBVIOUS
    <3>3. q = p + l
        BY <1>6, <3>1, <3>2 DEF All
    <3>4. draw_total' = p + l /\ Count <= q
        BY <1>2, <1>8, <2>1, <3>2
    <3> QED
        BY <1>2, <1>6, <1>8, <2>2, <3>2, <3>3, <3>4
  <2> QED
      BY <1>5, <2>1, <2>3
<1>10. ProgInv'
  <2>1. /\ active_set' \in Nat /\ draw_set' \in Nat /\ draw_total' \in Nat
        /\ draw_request' \in Nat /\ begin' \in Nat /\ pc' = "read" /\ plot_active'
        /\ active_set' < Len(svs') /\ draw_set' <= Len(svs'[active_set' + 1])
        /\ draw_total' = Len(Upto(svs')[active_set']) + draw_set'
        /\ draw_total' <= Count'
      BY <1>1, <1>3, <1>4, <1>7, <1>8 DEF l
  <2>2. /\ begin' <= draw_set' /\ draw_set' - begin' <= draw_request'
        /\ draw_total' + (draw_request' - (draw_set' - begin')) <= Count'
      BY <1>1, <1>3, <1>8
  <2>3. draw_set' - begin' < draw_request' =>
          active_set' + 1 < Len(svs') /\ draw_set' = Len(svs'[active_set' + 1])
      BY <1>1, <1>9 DEF l
  <2>4. dots' = Prefix(svs', active_set', begin')
      BY <1>1, <1>4
  <2> QED
      BY <2>1, <2>2, <2>3, <2>4 DEF ProgInv
<1> QED
    BY <1>1, <1>3, <1>10 DEF DrawInv

\* What a part of a set adds to the picture.
LEMMA DrawStep ==
    ASSUME DrawInv, DrawSet, ~stale
    PROVE  /\ DrawInv' /\ Written' = Written /\ plot_active /\ plot_active' = plot_active
           /\ dots' = Prefix(svs, active_set, draw_set)
           /\ \/ dots' = dots
              \/ \E n \in (Len(dots) + 1)..Len(Written) : dots' = SubSeq(Written, 1, n)
<1> DEFINE s == active_set + 1
           d == draw_set - begin
<1>1. /\ svs' = svs /\ half' = half /\ torn' = torn
      /\ enabled' = enabled /\ x' = x /\ y' = y /\ shown' = shown
      /\ draw_total' = draw_total /\ begin' = begin /\ pc = "read"
      /\ draw_request' = draw_request - d
    BY DEF DrawSet, buf, axes
<1>2. BufInv /\ ProgInv /\ FlagsInv /\ Count \in Int /\ svs \in Buffers /\ Len(svs) \in Nat
    BY CountIs DEF DrawInv, BufInv
<1>3. BufInv' /\ FlagsInv' /\ Count' = Count /\ Written' = Written /\ plot_active' = plot_active
    BY <1>1, <1>2 DEF BufInv, FlagsInv, Count, Written, plot_active
<1>4. /\ active_set \in Nat /\ draw_set \in Nat /\ draw_total \in Nat /\ draw_request \in Nat
      /\ begin \in Nat
      /\ active_set < Len(svs) /\ draw_set <= Len(svs[s])
      /\ draw_total = Len(Upto(svs)[active_set]) + draw_set
      /\ draw_total <= Count /\ plot_active
      /\ begin <= draw_set /\ d <= draw_request
      /\ draw_total + (draw_request - d) <= Count
      /\ d < draw_request => s < Len(svs) /\ draw_set = Len(svs[s])
      /\ dots = Prefix(svs, active_set, begin)
    BY <1>1, <1>2 DEF ProgInv
<1>5. d \in Nat /\ begin + d = draw_set /\ draw_request' \in Nat /\ Len(svs[s]) \in Nat
  <2>1. s \in 1..Len(svs)
      BY <1>2, <1>4
  <2>2. Len(svs[s]) \in Nat
      BY <1>2, <2>1, SetsAre
  <2>3. draw_set \in Nat /\ begin \in Nat /\ begin <= draw_set
        /\ draw_request \in Nat /\ d <= draw_request
      BY <1>4
  <2>4. d \in Nat /\ begin + d = draw_set
      BY <2>3
  <2> HIDE DEF d
  <2>5. draw_request' \in Nat
      BY <1>1, <2>3, <2>4
  <2> QED
      BY <2>2, <2>4, <2>5
<1>6. dots' = Prefix(svs, active_set, draw_set)
  <2>1. dots' = dots \o [k \in 1..d |-> <<s, begin + k>>]
      BY DEF DrawSet
  <2>2. Prefix(svs, active_set, begin) \o [k \in 1..d |-> <<s, begin + k>>]
          = Prefix(svs, active_set, begin + d)
    <3> HIDE DEF d
    <3>1. svs \in Buffers /\ active_set \in Nat /\ active_set < Len(svs)
          /\ begin \in Nat /\ d \in Nat
        BY <1>2, <1>4, <1>5
    <3> QED
        BY <3>1, PrefixMore, Zenon
  <2> QED
      BY <1>4, <1>5, <2>1, <2>2, Zenon
<1>7. ProgInv'
  <2> HIDE DEF d
  <2>1. CASE draw_request' > 0 /\ s < Len(svs)
    <3>1. pc' = "tick" /\ active_set' = s /\ draw_set' = 0
        BY <2>1 DEF DrawSet
    <3>2. d < draw_request /\ draw_set = Len(svs[s])
        BY <1>1, <1>4, <1>5, <2>1
    <3>3. dots' = Prefix(svs, s, 0)
        BY <1>2, <1>4, <1>6, <2>1, <3>2, PrefixNext
    <3>4. draw_total = Len(Upto(svs)[s])
      <4>1. s \in 1..Len(svs) /\ s - 1 = active_set
          BY <1>2, <1>4, <2>1
      <4>2. Len(Upto(svs)[s]) = Len(Upto(svs)[active_set]) + Len(svs[s])
          BY <1>2, <4>1, UptoLen
      <4> QED
          BY <1>4, <3>2, <4>2
    <3>5. Len(svs[s + 1]) \in Nat /\ s \in Nat
      <4>1. s + 1 \in 1..Len(svs) /\ s \in Nat
          BY <1>2, <1>4, <2>1
      <4> QED
          BY <1>2, <4>1, SetsAre
    <3>6. /\ active_set' \in Nat /\ draw_set' \in Nat /\ draw_total' \in Nat
          /\ draw_request' \in Nat /\ begin' \in Nat /\ pc' = "tick" /\ plot_active'
          /\ active_set' < Len(svs') /\ draw_set' <= Len(svs'[active_set' + 1])
        BY <1>1, <1>3, <1>4, <1>5, <2>1, <3>1, <3>5
    <3>7. draw_total' = Len(Upto(svs')[active_set']) + draw_set'
      <4>1. Len(Upto(svs)[s]) \in Nat
          BY <1>4, <3>4
      <4> QED
          BY <1>1, <3>1, <3>4, <4>1
    <3>8. draw_total' <= Count' /\ draw_request' > 0 /\ draw_total' + draw_request' <= Count'
        BY <1>1, <1>3, <1>4, <2>1
    <3>9. dots' = Prefix(svs', active_set', draw_set')
        BY <1>1, <3>1, <3>3
    <3> QED
        BY <3>6, <3>7, <3>8, <3>9 DEF ProgInv
  <2>2. CASE ~(draw_request' > 0 /\ s < Len(svs))
    <3>1. pc' = "idle" /\ active_set' = active_set /\ draw_set' = draw_set
        BY <2>2 DEF DrawSet
    <3>2. /\ active_set' \in Nat /\ draw_set' \in Nat /\ draw_total' \in Nat
          /\ draw_request' \in Nat /\ begin' \in Nat
          /\ active_set' < Len(svs') /\ draw_set' <= Len(svs'[active_set' + 1])
          /\ draw_total' = Len(Upto(svs')[active_set']) + draw_set'
          /\ draw_total' <= Count'
        BY <1>1, <1>3, <1>4, <1>5, <3>1
    <3>3. dots' = Prefix(svs', active_set', draw_set')
        BY <1>1, <1>6, <3>1
    <3> QED
        BY <3>1, <3>2, <3>3 DEF ProgInv
  <2> QED
      BY <2>1, <2>2
<1>8. DrawInv'
    BY <1>3, <1>7 DEF DrawInv
<1>9. \/ dots' = dots
      \/ \E n \in (Len(dots) + 1)..Len(Written) : dots' = SubSeq(Written, 1, n)
  <2>1. CASE d = 0
    <3>1. draw_set = begin
      <4>1. begin \in Nat
          BY <1>4
      <4> HIDE DEF d
      <4> QED
          BY <1>5, <2>1, <4>1
    <3> QED
        BY <1>4, <1>6, <3>1
  <2>2. CASE d # 0
    <3>1. /\ dots' \in Seq(Points) /\ Len(dots') = Len(Upto(svs)[active_set]) + draw_set
          /\ Begins(dots', All(svs))
        BY <1>2, <1>4, <1>6, PrefixBegins DEF All
    <3>2. begin <= Len(svs[s])
        BY <1>4, <1>5
    <3>3. Len(dots) = Len(Upto(svs)[active_set]) + begin
        BY <1>2, <1>4, <3>2, PrefixBegins
    <3>4. /\ Written \in Seq(Points) /\ Len(Written) = Count
          /\ \A i \in 1..Count : Written[i] = All(svs)[i]
        BY <1>2, WrittenIs
    <3>5. Len(dots') = draw_total /\ Len(dots') <= Count /\ Len(dots') \in Nat
        BY <1>4, <3>1
    <3>6. Begins(dots', Written)
        BY <1>2, <3>1, <3>4, <3>5 DEF Begins
    <3>7. dots' = SubSeq(Written, 1, Len(dots'))
        BY <3>1, <3>4, <3>6, BeginsCut
    <3>8. Len(Upto(svs)[active_set]) \in Nat
      <4>1. active_set \in 0..Len(svs)
          BY <1>2, <1>4
      <4> QED
          BY <1>2, <4>1, UptoType
    <3>9. Len(dots') \in (Len(dots) + 1)..Len(Written)
      <4>1. PICK u : u = Len(Upto(svs)[active_set])
          OBVIOUS
      <4>2. Len(dots') = u + draw_set /\ Len(dots) = u + begin /\ u \in Nat
          BY <3>1, <3>3, <3>8, <4>1
      <4>3. begin < draw_set
          BY <1>4, <1>5, <2>2
      <4> QED
          BY <1>2, <1>4, <3>4, <3>5, <4>2, <4>3
    <3> QED
        BY <3>7, <3>9
  <2> QED
      BY <2>1, <2>2
<1> QED
    BY <1>3, <1>4, <1>6, <1>8, <1>9

\* The picture is built again, over the same points or over none.
LEMMA BuildStep ==
    ASSUME BufInv, draw_request \in Nat, begin \in Nat, pc = "idle", plot_build, UNCHANGED gui, UNCHANGED half,
           \/ svs' = svs
           \/ svs' = <<<<>>>> /\ ~half,
           enabled' \in BOOLEAN, x' \in BOOLEAN, y' \in BOOLEAN, shown' \in Windows
    PROVE  /\ BufInv' /\ FlagsInv' /\ ProgInv' /\ PartInv' /\ dots' = <<>> /\ plot_active' \in BOOLEAN
           /\ svs' = svs => Written' = Written
           /\ svs' = <<<<>>>> => Written' = <<>>
<1>1. /\ active_set' = 0 /\ draw_set' = 0 /\ draw_total' = 0 /\ dots' = <<>> /\ torn' = FALSE
      /\ stale' = FALSE
      /\ pc' = "idle" /\ draw_request' = draw_request /\ begin' = begin /\ half' = half
    BY DEF plot_build, gui
<1>2. BufInv /\ half \in BOOLEAN
    BY DEF BufInv
<1>3. BufInv'
  <2>1. CASE svs' = svs
      BY <1>1, <1>2, <2>1 DEF BufInv
  <2>2. CASE svs' = <<<<>>>> /\ ~half
      BY <1>1, <1>2, <2>2, EmptyAll DEF BufInv
  <2> QED
      BY <2>1, <2>2
<1>4. svs' \in Buffers /\ svs' # <<>>
    BY <1>3 DEF BufInv
<1>5. Prefix(svs', 0, 0) = <<>> /\ Len(Upto(svs')[0]) = 0
    BY <1>4, NothingDrawn
<1>6. Len(svs') \in Nat /\ Len(svs') > 0 /\ Len(svs'[1]) \in Nat
  <2>1. Len(svs') \in Nat /\ Len(svs') > 0
      BY <1>4, BufferNotEmpty
  <2>2. 1 \in 1..Len(svs')
      BY <2>1
  <2> QED
      BY <1>4, <2>1, <2>2, SetsAre
<1>7. Written' = (IF half' THEN Front(All(svs')) ELSE All(svs')) /\ Len(Written') = Count'
      /\ Written' \in Seq(Points)
    BY <1>3, WrittenNext
<1>8. Count' \in Nat
    BY <1>7, LenProperties
<1>9. ProgInv'
    BY <1>1, <1>5, <1>6, <1>8 DEF ProgInv
<1>10. FlagsInv'
    BY <1>1 DEF FlagsInv
<1>11. plot_active' \in BOOLEAN
    BY DEF plot_active
<1>12. svs' = svs => Written' = Written
    BY <1>1 DEF Written
<1>13. svs' = <<<<>>>> => Written' = <<>>
  <2>1. CASE svs' = <<<<>>>> /\ ~half
      BY <1>1, <1>7, <2>1, EmptyAll
  <2>2. CASE svs' = <<<<>>>> /\ half
    <3>1. svs' = svs
        BY <2>2
    <3>2. Len(svs[Len(svs)]) = 0
        BY <2>2, <3>1, EmptyAll
    <3> QED
        BY <1>2, <2>2, <3>2 DEF BufInv
  <2> QED
      BY <1>2, <2>1, <2>2
<1>14. PartInv'
  <2>1. stale' \in BOOLEAN /\ (stale' => dots' = <<>>)
      BY <1>1, Zenon
  <2> QED
      BY <1>1, <2>1 DEF PartInv
<1> QED
    BY <1>1, <1>3, <1>9, <1>10, <1>11, <1>12, <1>13, <1>14
-----------------------------------------------------------------------------
(* Every step keeps PlotInv, and is a step of Picture or none.              *)

\* The DAQ thread's steps, of a stale picture or not.
LEMMA DaqSteps ==
    ASSUME BufInv, FlagsInv, FilledInv, Daq
    PROVE  /\ BufInv' /\ FlagsInv' /\ FilledInv'
           /\ Grown(svs, svs') /\ Count <= Count'
           /\ UNCHANGED <<enabled, x, prog, gui, dots, stale>>
           /\ \/ Written' = Written
              \/ Len(Written') = Len(Written) + 1 /\ SubSeq(Written', 1, Len(Written)) = Written
<1>1. /\ BufInv' /\ FlagsInv' /\ Grown(svs, svs') /\ Count <= Count'
      /\ \/ Written' = Written
         \/ Len(Written') = Len(Written) + 1 /\ SubSeq(Written', 1, Len(Written)) = Written
      /\ \/ Len(svs') = Len(svs)
         \/ Len(svs') = Len(svs) + 1 /\ Len(svs[Len(svs)]) > 0
  <2>1. CASE AppendValue
      BY <2>1, AppendStep
  <2>2. CASE WriteValue
      BY <2>2, WriteStep
  <2>3. CASE AddSet
      BY <2>3, AddSetStep
  <2> QED
      BY <2>1, <2>2, <2>3 DEF Daq
<1>2. UNCHANGED <<enabled, x, prog, gui, dots, stale>>
    BY DEF Daq, AppendValue, WriteValue, AddSet, axes, prog, ink, gui
<1>3. FilledInv'
  <2>1. SUFFICES ASSUME NEW k \in 1..(Len(svs') - 1) PROVE Len(svs'[k]) > 0
      BY DEF FilledInv
  <2>2. svs \in Buffers /\ svs' \in Buffers /\ Len(svs) \in Nat /\ Len(svs') \in Nat
      BY <1>1, SetsAre DEF Grown
  <2>3. k \in 1..Len(svs) /\ (k < Len(svs) \/ Len(svs[k]) > 0)
      BY <1>1, <2>1, <2>2
  <2>4. Len(svs[k]) > 0
      BY <2>2, <2>3 DEF FilledInv
  <2>5. Len(svs[k]) <= Len(svs'[k]) /\ Len(svs[k]) \in Nat /\ Len(svs'[k]) \in Nat
    <3>1. k \in 1..Len(svs')
        BY <2>1, <2>2
    <3> QED
        BY <1>1, <2>2, <2>3, <3>1, SetsAre DEF Grown
  <2> QED
      BY <2>4, <2>5
<1> QED
    BY <1>1, <1>2, <1>3

\* A session which begins over a picture that is kept changes nothing.
LEMMA EntersKept ==
    ASSUME Enter, dots' # <<>>
    PROVE  /\ UNCHANGED <<buf, axes, prog, gui>> /\ UNCHANGED <<svs, half, enabled, x, y, shown>>
           /\ dots' = dots /\ lines' = lines /\ torn' = torn /\ ~stale /\ ~stale'
           /\ stale' \in BOOLEAN
<1>1. PICK other \in BOOLEAN : NewSession(other)
    BY DEF Enter
<1>2. /\ ~stale' /\ dots' = dots /\ lines' = lines /\ torn' = torn /\ half' = half
      /\ enabled' = enabled /\ shown' = shown /\ UNCHANGED prog /\ UNCHANGED gui
    BY <1>1, Zenon DEF NewSession
<1>3. ~stale /\ ~other /\ svs' = svs
    BY <1>1, <1>2, Zenon DEF NewSession
<1>4. x' = x /\ y' = y
    BY <1>1, <1>3 DEF NewSession
<1>5. stale' \in BOOLEAN
    BY <1>1, Zenon DEF NewSession
<1> QED
    BY <1>2, <1>3, <1>4, <1>5 DEF buf, axes

\* A session which begins over no picture: nothing of the buffer was drawn.
LEMMA EntersEmpty ==
    ASSUME BufInv, FlagsInv, FilledInv, PartInv, ~stale => ProgInv, Enter, dots' = <<>>
    PROVE  /\ BufInv' /\ FlagsInv' /\ FilledInv' /\ PartInv' /\ (~stale' => ProgInv')
           /\ svs' = svs => Written' = Written
           /\ svs' # svs => Written' = <<>>
<1>1. PICK other \in BOOLEAN : NewSession(other)
    BY DEF Enter
<1>2. /\ pc = "idle" /\ pc' = "idle" /\ ~half /\ half' = half /\ enabled' = enabled
      /\ shown' = shown /\ torn' = torn /\ active_set' = active_set /\ draw_set' = draw_set
      /\ draw_total' = draw_total /\ draw_request' = draw_request /\ begin' = begin
      /\ svs' = svs \/ svs' = <<<<>>>>
      /\ x' \in BOOLEAN /\ y' \in BOOLEAN /\ stale' \in BOOLEAN
  <2>1. x' \in BOOLEAN /\ y' \in BOOLEAN
      BY <1>1 DEF NewSession, FlagsInv
  <2>2. stale' \in BOOLEAN
      BY <1>1, Zenon DEF NewSession, PartInv
  <2> QED
      BY <1>1, <2>1, <2>2 DEF NewSession, prog, gui
<1>3. BufInv'
  <2>1. CASE svs' = svs
      BY <1>2, <2>1 DEF BufInv
  <2>2. CASE svs' = <<<<>>>>
      BY <1>2, <2>2, EmptyAll DEF BufInv
  <2> QED
      BY <1>2, <2>1, <2>2
<1>4. FlagsInv'
    BY <1>2, Zenon DEF FlagsInv
<1>5. FilledInv'
  <2>1. CASE svs' = svs
      BY <2>1 DEF FilledInv
  <2>2. CASE svs' = <<<<>>>>
      BY <2>2, EmptyAll DEF FilledInv
  <2> QED
      BY <1>2, <2>1, <2>2
<1>6. PartInv'
    BY <1>2 DEF PartInv
<1>7. svs' = svs => Written' = Written
    BY <1>2 DEF Written
<1>8. svs' # svs => Written' = <<>>
  <2>1. SUFFICES ASSUME svs' = <<<<>>>> PROVE Written' = <<>>
      BY <1>2
  <2>2. Written' = All(svs')
      BY <1>2, <1>3, WrittenNext
  <2> QED
      BY <2>1, <2>2, EmptyAll
<1>9. ASSUME ~stale' PROVE ProgInv'
  <2>1. ~stale /\ ProgInv /\ dots = <<>>
      BY <1>1, <1>9, Zenon DEF NewSession
  <2>2. /\ svs \in Buffers /\ active_set \in Nat /\ draw_set \in Nat /\ active_set < Len(svs)
        /\ draw_set <= Len(svs[active_set + 1])
        /\ draw_total = Len(Upto(svs)[active_set]) + draw_set
        /\ <<>> = Prefix(svs, active_set, draw_set)
        /\ draw_request \in Nat /\ begin \in Nat
      BY <1>2, <2>1 DEF ProgInv, BufInv
  <2>3. Len(svs) \in Nat /\ active_set \in 0..Len(svs) /\ Len(Upto(svs)[active_set]) \in Nat
    <3>1. Len(svs) \in Nat /\ active_set \in 0..Len(svs)
        BY <2>2, SetsAre
    <3> QED
        BY <2>2, <3>1, UptoType
  <2>4. Len(Upto(svs)[active_set]) + draw_set = 0
    <3>1. Len(<<>>) = Len(Upto(svs)[active_set]) + draw_set
        BY <2>2, PrefixBegins
    <3> QED
        BY <3>1
  <2>5. draw_set = 0 /\ Len(Upto(svs)[active_set]) = 0 /\ draw_total = 0
      BY <2>2, <2>3, <2>4
  <2>6. active_set = 0
    <3>1. SUFFICES ASSUME active_set # 0 PROVE FALSE
        OBVIOUS
    <3>2. active_set \in 1..Len(svs) /\ active_set \in 1..(Len(svs) - 1)
        BY <2>2, <2>3, <3>1
    <3>3. /\ Len(Upto(svs)[active_set]) = Len(Upto(svs)[active_set - 1]) + Len(svs[active_set])
          /\ Len(Upto(svs)[active_set - 1]) \in Nat /\ Len(svs[active_set]) \in Nat
        BY <2>2, <3>2, UptoLen
    <3>4. Len(svs[active_set]) > 0
        BY <3>2 DEF FilledInv
    <3>5. PICK a, b : a = Len(Upto(svs)[active_set - 1]) /\ b = Len(svs[active_set])
        OBVIOUS
    <3>6. 0 = a + b /\ a \in Nat /\ b \in Nat /\ b > 0
        BY <2>5, <3>3, <3>4, <3>5
    <3> QED
        BY <3>6
  <2>7. svs' \in Buffers /\ svs' # <<>> /\ Len(svs') \in Nat /\ Len(svs') > 0 /\ Len(svs'[1]) \in Nat
    <3>1. svs' \in Buffers /\ svs' # <<>>
        BY <1>3 DEF BufInv
    <3>2. Len(svs') \in Nat /\ Len(svs') > 0
        BY <3>1, BufferNotEmpty
    <3>3. 1 \in 1..Len(svs')
        BY <3>2
    <3> QED
        BY <3>1, <3>2, <3>3, SetsAre
  <2>8. Prefix(svs', 0, 0) = <<>> /\ Len(Upto(svs')[0]) = 0
      BY <2>7, NothingDrawn
  <2>9. Count' \in Nat
    <3>1. Written' \in Seq(Points) /\ Len(Written') = Count'
        BY <1>3, WrittenNext
    <3> QED
        BY <3>1, LenProperties
  <2> QED
      BY <1>2, <2>2, <2>5, <2>6, <2>7, <2>8, <2>9 DEF ProgInv
<1> QED
    BY <1>3, <1>4, <1>5, <1>6, <1>7, <1>8, <1>9

\* The GUI thread's steps keep what is kept of a stale picture, too.
LEMMA GuiTypes ==
    ASSUME BufInv, FlagsInv, FilledInv, PartInv, Gui
    PROVE  /\ BufInv' /\ FlagsInv' /\ FilledInv' /\ PartInv'
           /\ Written' = Written /\ plot_active' = plot_active /\ stale' = stale
           /\ (DrawSet /\ ~stale) \/ dots' = dots
<1>1. /\ svs' = svs /\ half' = half /\ enabled' = enabled /\ x' = x /\ y' = y /\ shown' = shown
      /\ torn' = torn /\ stale' = stale
      /\ stale => dots' = dots
      /\ DrawSet \/ dots' = dots
    BY DEF Gui, RequestDraw, BeginSet, LoseSet, DrawSet, buf, axes, ink
<1>2. BufInv' /\ FlagsInv' /\ FilledInv' /\ Written' = Written /\ plot_active' = plot_active
    BY <1>1 DEF BufInv, FlagsInv, FilledInv, Written, plot_active
<1>3. svs \in Buffers /\ Len(svs) \in Nat
    BY SetsAre DEF BufInv
<1>4. stale' \in BOOLEAN /\ (stale' => dots' = <<>>)
    BY <1>1, Zenon DEF PartInv
<1>5. /\ active_set \in Nat /\ draw_set \in Nat /\ draw_request \in Nat /\ begin \in Nat
      /\ draw_total \in Int
      /\ pc = "read" => draw_set - begin <= draw_request
    BY DEF PartInv
<1>6. CASE RequestDraw
  <2>1. draw_request' \in Nat
    <3>1. total_pts(svs) \in Int /\ Slice \in Nat
        BY CountIs, PlotAssumption
    <3>2. PICK a \in Int, b \in Int, m \in {draw_request'} :
             a = total_pts(svs) - draw_total /\ b = Slice /\ m = draw_request'
        BY <1>5, <3>1
    <3>3. m = Min({a, b}) /\ m > 0
        BY <1>6, <3>2 DEF RequestDraw
    <3>4. m \in {a, b}
        BY <3>3, Least
    <3> QED
        BY <3>2, <3>3, <3>4
  <2>2. /\ active_set' = active_set /\ draw_set' = draw_set /\ draw_total' = draw_total
        /\ begin' = begin /\ pc' = "tick"
      BY <1>6 DEF RequestDraw, prog
  <2>3. PartInv'
      BY <1>4, <1>5, <2>1, <2>2 DEF PartInv
  <2> QED
      BY <1>1, <1>2, <2>3
<1>7. CASE BeginSet
  <2>1. Len(svs[active_set + 1]) \in Nat
    <3>1. active_set + 1 \in 1..Len(svs)
        BY <1>3, <1>5, <1>7 DEF BeginSet
    <3> QED
        BY <1>3, <3>1, SetsAre
  <2>2. draw_set' \in Nat /\ draw_set' <= draw_set + draw_request
    <3>1. PICK a \in Int, b \in Int, m \in {draw_set'} :
             a = draw_set + draw_request /\ b = Len(svs[active_set + 1]) /\ m = draw_set'
        BY <1>5, <2>1
    <3>2. m = Min({a, b})
        BY <1>7, <3>1 DEF BeginSet
    <3>3. m \in {a, b} /\ m <= a
        BY <3>2, Least
    <3> QED
        BY <1>5, <2>1, <3>1, <3>3
  <2>3. /\ active_set' = active_set /\ begin' = draw_set /\ draw_request' = draw_request
        /\ pc' = "read" /\ draw_total' = draw_total + (draw_set' - draw_set)
      BY <1>7 DEF BeginSet
  <2>4. draw_total' \in Int /\ draw_set' - begin' <= draw_request'
    <3>1. PICK a, b, c, d, e : /\ a = draw_set' /\ b = draw_set /\ c = draw_request
                               /\ d = draw_total /\ e = draw_total'
        OBVIOUS
    <3>2. a \in Nat /\ b \in Nat /\ c \in Nat /\ d \in Int /\ a <= b + c /\ e = d + (a - b)
        BY <1>5, <2>2, <2>3, <3>1
    <3>3. a - b <= c /\ e \in Int
        BY <3>2
    <3> QED
        BY <2>3, <3>1, <3>3
  <2>5. PartInv'
      BY <1>4, <1>5, <2>2, <2>3, <2>4 DEF PartInv
  <2> QED
      BY <1>1, <1>2, <2>5
<1>8. CASE LoseSet
  <2>1. /\ active_set' = active_set /\ draw_set' = draw_set /\ draw_total' = draw_total
        /\ begin' = begin /\ pc' = "lost" /\ draw_request' = draw_request
      BY <1>8 DEF LoseSet, prog
  <2>2. PartInv'
      BY <1>4, <1>5, <2>1 DEF PartInv
  <2> QED
      BY <1>1, <1>2, <2>2
<1>9. CASE DrawSet
  <2>1. /\ draw_total' = draw_total /\ begin' = begin
        /\ draw_request' = draw_request - (draw_set - begin) /\ pc = "read"
      BY <1>9 DEF DrawSet
  <2>2. \/ pc' = "tick" /\ active_set' = active_set + 1 /\ draw_set' = 0
        \/ pc' = "idle" /\ active_set' = active_set /\ draw_set' = draw_set
      BY <1>9 DEF DrawSet
  <2>3. draw_request' \in Nat
      BY <1>5, <2>1
  <2>4. PartInv'
      BY <1>4, <1>5, <2>1, <2>2, <2>3 DEF PartInv
  <2> QED
      BY <1>1, <1>2, <2>4, Zenon
<1> QED
    BY <1>6, <1>7, <1>8, <1>9 DEF Gui

\* Nothing but the lines changes.
LEMMA StutterDraws ==
    ASSUME PlotInv, UNCHANGED <<buf, axes, prog, gui>>, UNCHANGED <<svs, half, enabled, x, y, shown>>,
           dots' = dots, torn' = torn, stale' \in BOOLEAN, stale' <=> stale
    PROVE  PlotInv' /\ [P!Next]_(P!vars)
<1>1. /\ active_set' = active_set /\ draw_set' = draw_set /\ draw_total' = draw_total
      /\ pc' = pc /\ draw_request' = draw_request /\ begin' = begin
    BY DEF prog, gui
<1>2. /\ BufInv' /\ FlagsInv' /\ FilledInv' /\ Count' = Count /\ Written' = Written
      /\ plot_active' = plot_active
    BY DEF PlotInv, BufInv, FlagsInv, FilledInv, Count, Written, plot_active
<1>3. PartInv'
  <2>1. stale' => dots' = <<>>
      BY Zenon DEF PlotInv, PartInv
  <2> QED
      BY <1>1, <2>1 DEF PlotInv, PartInv
<1>4. ASSUME ~stale' PROVE ProgInv'
    BY <1>1, <1>2, <1>4 DEF PlotInv, ProgInv
<1> QED
    BY <1>2, <1>3, <1>4 DEF PlotInv, P!vars

LEMMA StepsDraw ==
    ASSUME PlotInv, [PlotNext]_plotVars
    PROVE  PlotInv' /\ [P!Next]_(P!vars)
<1>0. BufInv /\ FlagsInv /\ FilledInv /\ PartInv /\ (~stale => ProgInv)
    BY DEF PlotInv
<1>1. CASE Daq
  <2>1. /\ BufInv' /\ FlagsInv' /\ FilledInv' /\ Grown(svs, svs') /\ Count <= Count'
        /\ UNCHANGED <<enabled, x, prog, gui, dots, stale>>
        /\ \/ Written' = Written
           \/ Len(Written') = Len(Written) + 1 /\ SubSeq(Written', 1, Len(Written)) = Written
      BY <1>0, <1>1, DaqSteps
  <2>2. PartInv'
      BY <1>0, <2>1 DEF PartInv, prog, gui
  <2>3. ASSUME ~stale' PROVE ProgInv'
    <3>1. DrawInv
        BY <1>0, <2>1, <2>3 DEF DrawInv
    <3> QED
        BY <2>1, <3>1, KeepsProgress
  <2>4. dots' = dots /\ (plot_active /\ ~stale)' = (plot_active /\ ~stale)
      BY <2>1 DEF plot_active
  <2>5. [P!Next]_(P!vars)
    <3>1. CASE Written' = Written
        BY <2>4, <3>1 DEF P!vars
    <3>2. CASE Len(Written') = Len(Written) + 1 /\ SubSeq(Written', 1, Len(Written)) = Written
      <4>1. P!Append1
          BY <2>4, <3>2 DEF P!Append1
      <4> QED
          BY <4>1 DEF P!Next
    <3> QED
        BY <2>1, <3>1, <3>2
  <2> QED
      BY <2>1, <2>2, <2>3, <2>5 DEF PlotInv
<1>2. CASE Gui
  <2>1. /\ BufInv' /\ FlagsInv' /\ FilledInv' /\ PartInv'
        /\ Written' = Written /\ plot_active' = plot_active /\ stale' = stale
        /\ (DrawSet /\ ~stale) \/ dots' = dots
      BY <1>0, <1>2, GuiTypes
  <2>2. CASE stale
    <3>1. PlotInv'
        BY <2>1, <2>2 DEF PlotInv
    <3> QED
        BY <2>1, <2>2, <3>1 DEF P!vars
  <2>3. CASE ~stale
    <3>1. DrawInv
        BY <1>0, <2>3 DEF DrawInv
    <3>2. CASE RequestDraw
      <4>1. DrawInv' /\ dots' = dots
          BY <3>1, <3>2, RequestStep
      <4> QED
          BY <2>1, <4>1 DEF PlotInv, DrawInv, P!vars
    <3>3. CASE BeginSet
      <4>1. DrawInv' /\ dots' = dots
          BY <3>1, <3>3, BeginStep
      <4> QED
          BY <2>1, <4>1 DEF PlotInv, DrawInv, P!vars
    <3>4. CASE LoseSet
      <4>1. active_set \in Nat /\ active_set < Len(svs) /\ Len(svs) \in Nat
          BY <1>0, <2>3, SetsAre DEF ProgInv, BufInv
      <4> QED
          BY <3>4, <4>1 DEF LoseSet
    <3>5. CASE DrawSet
      <4>1. /\ DrawInv' /\ plot_active
            /\ \/ dots' = dots
               \/ \E n \in (Len(dots) + 1)..Len(Written) : dots' = SubSeq(Written, 1, n)
          BY <2>3, <3>1, <3>5, DrawStep
      <4>2. PlotInv'
          BY <2>1, <4>1 DEF PlotInv, DrawInv
      <4>3. CASE dots' = dots
          BY <2>1, <4>2, <4>3 DEF P!vars
      <4>4. CASE \E n \in (Len(dots) + 1)..Len(Written) : dots' = SubSeq(Written, 1, n)
        <5>1. P!Draw
            BY <2>1, <2>3, <4>1, <4>4 DEF P!Draw
        <5> QED
            BY <4>2, <5>1 DEF P!Next
      <4> QED
          BY <4>1, <4>3, <4>4
    <3> QED
        BY <1>2, <3>2, <3>3, <3>4, <3>5 DEF Gui
  <2> QED
      BY <2>2, <2>3
<1>3. CASE Change \/ ClearBuffer
  <2>1. /\ pc = "idle" /\ plot_build /\ UNCHANGED gui /\ UNCHANGED half
        /\ \/ Change /\ svs' = svs
           \/ ClearBuffer /\ svs' = <<<<>>>> /\ ~half
        /\ enabled' \in BOOLEAN /\ x' \in BOOLEAN /\ y' \in BOOLEAN /\ shown' \in Windows
    <3>1. CASE Change
        BY <3>1 DEF Change, buf
    <3>2. CASE ClearBuffer
        BY <1>0, <3>2 DEF ClearBuffer, FlagsInv
    <3> QED
        BY <1>3, <3>1, <3>2
  <2>2. draw_request \in Nat /\ begin \in Nat
      BY <1>0 DEF PartInv
  <2>3. /\ BufInv' /\ FlagsInv' /\ ProgInv' /\ PartInv' /\ dots' = <<>> /\ plot_active' \in BOOLEAN
        /\ svs' = svs => Written' = Written
        /\ svs' = <<<<>>>> => Written' = <<>>
      BY <1>0, <2>1, <2>2, BuildStep
  <2>4. FilledInv'
    <3>1. CASE svs' = svs
        BY <1>0, <3>1 DEF FilledInv
    <3>2. CASE svs' = <<<<>>>>
        BY <3>2, EmptyAll DEF FilledInv
    <3> QED
        BY <2>1, <3>1, <3>2
  <2>5. P!Redraw \/ P!Empty
    <3>1. (plot_active /\ ~stale)' \in BOOLEAN
        OBVIOUS
    <3> QED
        BY <2>1, <2>3, <3>1 DEF P!Redraw, P!Empty
  <2> QED
      BY <2>3, <2>4, <2>5 DEF PlotInv, P!Next
<1>4. CASE Enter
  <2>1. CASE dots' = <<>>
    <3>1. /\ BufInv' /\ FlagsInv' /\ FilledInv' /\ PartInv' /\ (~stale' => ProgInv')
          /\ svs' = svs => Written' = Written
          /\ svs' # svs => Written' = <<>>
        BY <1>0, <1>4, <2>1, EntersEmpty
    <3>2. (plot_active /\ ~stale)' \in BOOLEAN
        OBVIOUS
    <3>3. P!Redraw \/ P!Empty
        BY <2>1, <3>1, <3>2 DEF P!Redraw, P!Empty
    <3> QED
        BY <3>1, <3>3 DEF PlotInv, P!Next
  <2>2. CASE dots' # <<>>
    <3>1. /\ UNCHANGED <<buf, axes, prog, gui>> /\ UNCHANGED <<svs, half, enabled, x, y, shown>>
          /\ dots' = dots /\ torn' = torn /\ ~stale /\ ~stale' /\ stale' \in BOOLEAN
        BY <1>4, <2>2, EntersKept
    <3> QED
        BY <3>1, StutterDraws, Zenon
  <2> QED
      BY <2>1, <2>2
<1>5. CASE UNCHANGED plotVars
  <2>1. /\ UNCHANGED <<buf, axes, prog, gui>> /\ UNCHANGED <<svs, half, enabled, x, y, shown>>
        /\ dots' = dots /\ torn' = torn /\ stale' = stale
      BY <1>5 DEF plotVars, buf, axes, ink
  <2>2. stale' \in BOOLEAN
      BY <1>0, <2>1, Zenon DEF PartInv
  <2> QED
      BY <2>1, <2>2, StutterDraws
<1> QED
    BY <1>1, <1>2, <1>3, <1>4, <1>5 DEF PlotNext

\* The variables of the plot keep their types.
THEOREM PlotTypeCorrect == PlotSpec => []PlotTypeOK
<1>1. PlotInv => PlotTypeOK
  <2> SUFFICES ASSUME PlotInv PROVE PlotTypeOK
      OBVIOUS
  <2>1. svs # <<>> /\ \A s \in DOMAIN svs : svs[s] \in Seq(Places \cup {Nowhere})
      BY SetsAre DEF PlotInv, BufInv
  <2>2. {half, enabled, x, y, torn, stale} \subseteq BOOLEAN /\ shown \in Windows
      BY DEF PlotInv, BufInv, FlagsInv, PartInv
  <2>3. {active_set, draw_set, draw_request, begin} \subseteq Nat /\ draw_total \in Int
        /\ pc \in {"idle", "tick", "read", "lost"}
      BY DEF PlotInv, PartInv
  <2> QED
      BY <2>1, <2>2, <2>3 DEF PlotTypeOK
<1> QED
    BY <1>1, DrawInit, StepsDraw, PTL DEF PlotSpec

\* However the DAQ thread appends points and adds sets while a slice is being
\* drawn, and whenever the buffer is cleared, the counters which plot_tick and
\* plot_data keep from tick to tick (active_set, draw_set, draw_total) point into
\* the buffer: neither svs->data nor vs->data is indexed past its end.  The one
\* exception is named by the property: a session which begins with another buffer
\* than the one drawn, until the plot is built again.
THEOREM DrawsInside == PlotSpec => []ReadsInside
<1>1. PlotInv => ReadsInside
  <2> SUFFICES ASSUME PlotInv, ~stale
               PROVE  /\ pc # "lost" /\ active_set < Len(svs)
                      /\ draw_set <= Len(svs[active_set + 1]) /\ draw_total <= total_pts(svs)
      BY Zenon DEF ReadsInside
  <2>1. BufInv /\ ProgInv
      BY DEF PlotInv
  <2>2. Count \in Int /\ total_pts(svs) = Len(All(svs)) /\ Len(All(svs)) \in Nat
        /\ Count <= total_pts(svs)
      BY <2>1, CountIs
  <2>3. /\ active_set < Len(svs) /\ draw_set <= Len(svs[active_set + 1])
        /\ draw_total <= Count /\ draw_total \in Nat /\ pc # "lost"
      BY <2>1 DEF ProgInv
  <2> QED
      BY <2>2, <2>3
<1> QED
    BY <1>1, DrawInit, StepsDraw, PTL DEF PlotSpec

\* The plot implements Picture, but for its fairness: the picture is always
\* the beginning of the written points of the buffer, each drawn once and in
\* order, however it was cut into slices and sets; it grows by draws only
\* while the plot is on, and is begun again when the buffer is emptied.  A stale
\* picture counts as none.
THEOREM DrawsThePicture == PlotSpec => P!Init /\ [][P!Next]_(P!vars)
<1>1. PlotInit => P!Init
  <2> SUFFICES ASSUME PlotInit PROVE P!Init
      OBVIOUS
  <2>1. BufInv /\ half = FALSE
      BY DrawInit DEF PlotInv, PlotInit
  <2>2. All(svs) = <<>>
      BY EmptyAll DEF PlotInit
  <2>3. Written = <<>>
      BY <2>1, <2>2, WrittenIs
  <2>4. dots = <<>> /\ (plot_active /\ ~stale) \in BOOLEAN
      BY DEF PlotInit, plot_active
  <2> QED
      BY <2>3, <2>4 DEF P!Init
<1>2. PlotInv /\ [PlotNext]_plotVars => PlotInv' /\ [P!Next]_(P!vars)
    BY StepsDraw
<1> QED
    BY <1>1, <1>2, DrawInit, PTL DEF PlotSpec
-----------------------------------------------------------------------------
(* The pen along a part of one set.                                         *)

Pens == [at : Places \cup {Nowhere}, started : BOOLEAN, lines : SUBSET (Nat \X Places)]

Lifted == [at |-> Nowhere, started |-> FALSE, lines |-> {}]

\* One point in the loop of draw_axis_lines.
Moved(set, j, p) ==
    IF set[j] \notin shown THEN [p EXCEPT !.started = FALSE]
    ELSE IF set[j] = p.at THEN p
    ELSE [at |-> set[j], started |-> TRUE,
          lines |-> p.lines \cup (IF p.started THEN {<<j, p.at>>} ELSE {})]

Pens0(set, st, b, g) ==
    g = [j \in (st - 1)..b |-> IF j = st - 1 THEN Lifted ELSE Moved(set, j, g[j - 1])]

LEMMA PenStart ==
    ASSUME NEW a \in Nat, a >= 1
    PROVE  /\ Max({a - 1, 1}) = IF a > 1 THEN a - 1 ELSE 1
           /\ Max({a - 1, 1}) \in Nat /\ Max({a - 1, 1}) >= 1 /\ Max({a - 1, 1}) - 1 \in Nat
<1> DEFINE v == IF a > 1 THEN a - 1 ELSE 1
<1>1. v \in {a - 1, 1} /\ \A k \in {a - 1, 1} : k <= v
    OBVIOUS
<1>2. \A w \in {a - 1, 1} : (\A k \in {a - 1, 1} : k <= w) => w = v
    BY <1>1
<1> HIDE DEF v
<1>3. Max({a - 1, 1}) = v
    BY <1>1, <1>2 DEF Max
<1> QED
    BY <1>3 DEF v

LEMMA PensExist ==
    ASSUME NEW set, NEW st \in Nat, st >= 1, NEW b \in Nat, st - 1 <= b
    PROVE  \E g : Pens0(set, st, b, g)
<1> DEFINE T == {n \in Nat : \E g : Pens0(set, st, (st - 1) + n, g)}
<1>1. 0 \in T
  <2> DEFINE g == [j \in (st - 1)..((st - 1) + 0) |-> Lifted]
  <2>1. Pens0(set, st, (st - 1) + 0, g)
    <3>1. \A j \in (st - 1)..((st - 1) + 0) : j = st - 1
        OBVIOUS
    <3> QED
        BY <3>1, Zenon DEF Pens0
  <2> HIDE DEF g
  <2> QED
      BY <2>1
<1>2. ASSUME NEW n \in Nat, n \in T
      PROVE  n + 1 \in T
  <2> DEFINE c == (st - 1) + n
             d == (st - 1) + (n + 1)
  <2>1. PICK g : Pens0(set, st, c, g)
      BY <1>2
  <2>2. c \in Nat /\ d = c + 1 /\ st - 1 \in Nat /\ st - 1 <= c
      OBVIOUS
  <2> HIDE DEF c, d
  <2> DEFINE h == [j \in (st - 1)..d |-> IF j = d THEN Moved(set, j, g[c]) ELSE g[j]]
             v(j) == IF j = st - 1 THEN Lifted ELSE Moved(set, j, h[j - 1])
  <2>3. ASSUME NEW j \in (st - 1)..d
        PROVE  (IF j = d THEN Moved(set, j, g[c]) ELSE g[j]) = v(j)
    <3>1. CASE j = d
      <4>1. j - 1 = c /\ c \in (st - 1)..d /\ c # d /\ j # st - 1
          BY <2>2, <3>1
      <4>2. h[c] = g[c]
          BY <4>1, Zenon
      <4> HIDE DEF h
      <4> QED
          BY <3>1, <4>1, <4>2, Zenon
    <3>2. CASE j # d /\ j = st - 1
      <4>1. j \in (st - 1)..c
          BY <2>2, <3>2
      <4>2. g[j] = Lifted
          BY <2>1, <3>2, <4>1, Zenon DEF Pens0
      <4> HIDE DEF h
      <4> QED
          BY <3>2, <4>2, Zenon
    <3>3. CASE j # d /\ j # st - 1
      <4>1. j \in (st - 1)..c /\ j - 1 \in (st - 1)..d /\ j - 1 # d
          BY <2>2, <3>3
      <4>2. h[j - 1] = g[j - 1]
          BY <4>1, Zenon
      <4>3. g[j] = Moved(set, j, g[j - 1])
          BY <2>1, <3>3, <4>1, Zenon DEF Pens0
      <4> HIDE DEF h
      <4> QED
          BY <3>3, <4>2, <4>3, Zenon
    <3> QED
        BY <3>1, <3>2, <3>3, Zenon
  <2>4. h = [j \in (st - 1)..d |-> v(j)]
      BY <2>3, Zenon
  <2> HIDE DEF h
  <2>5. Pens0(set, st, d, h)
      BY <2>4, Zenon DEF Pens0
  <2> QED
      BY <2>5 DEF d
<1>3. PICK n \in Nat : n = b - (st - 1)
    OBVIOUS
<1>4. \A k \in 0..(n - 1) : k \in T => k + 1 \in T
    BY <1>2
<1> HIDE DEF T
<1>5. \A k \in 0..n : k \in T
    BY <1>1, <1>4, UpTo
<1>6. n \in T /\ (st - 1) + n = b
    BY <1>3, <1>5
<1> QED
    BY <1>6 DEF T

\* The point j is one to which the points of a set are to be joined.
Joint(set, j) == set[j - 1] \in shown /\ set[j] \in shown /\ set[j - 1] # set[j]

\* Up to point k of a set which is drawn from st: the place p was left and
\* not entered again, or was entered again where it was left.
Gone(set, st, k, p) ==
    \E h \in st..(k - 1) : set[h] = p /\ \A m \in (h + 1)..k : set[m] \notin shown
BackIn(window, set, st, k, p) ==
    \E i \in (st + 1)..k :
       /\ \A m \in i..k : set[m] \in window /\ set[m] = p
       /\ set[i - 1] \notin window
       /\ \E h \in st..(i - 2) : set[h] = p /\ \A m \in (h + 1)..(i - 1) : set[m] \notin window
Back(set, st, k, p) == BackIn(shown, set, st, k, p)

\* The pen after point k, and the lines it drew.
PenAt(set, st, k, p) ==
    /\ p.started => k >= st /\ set[k] \in shown /\ p.at = set[k]
    /\ p.at = Nowhere => \A i \in st..k : set[i] \notin shown
    /\ ~p.started /\ p.at # Nowhere => Gone(set, st, k, p.at) \/ Back(set, st, k, p.at)
PenDrew(set, st, k, p) ==
    /\ \A l \in p.lines : \E i \in (st + 1)..k : l = <<i, set[i - 1]>> /\ Joint(set, i)
    /\ \A i \in (st + 1)..k : Joint(set, i) =>
          <<i, set[i - 1]>> \in p.lines \/ Back(set, st, i - 1, set[i - 1])

LEMMA GoneOn ==
    ASSUME NEW set, NEW st \in Nat, NEW k \in Nat, NEW p, set[k + 1] \notin shown,
           Gone(set, st, k, p) \/ (k >= st /\ set[k] = p)
    PROVE  Gone(set, st, k + 1, p)
<1>1. CASE Gone(set, st, k, p)
  <2>1. PICK h \in st..(k - 1) : set[h] = p /\ \A m \in (h + 1)..k : set[m] \notin shown
      BY <1>1 DEF Gone
  <2>2. h \in st..((k + 1) - 1) /\ \A m \in (h + 1)..(k + 1) : (m \in (h + 1)..k \/ m = k + 1)
      OBVIOUS
  <2> QED
      BY <2>1, <2>2 DEF Gone
<1>2. CASE k >= st /\ set[k] = p
  <2>1. k \in st..((k + 1) - 1) /\ \A m \in (k + 1)..(k + 1) : m = k + 1
      BY <1>2
  <2> QED
      BY <1>2, <2>1 DEF Gone
<1> QED
    BY <1>1, <1>2

LEMMA BackIs ==
    ASSUME NEW set, NEW st \in Nat, NEW k \in Nat, NEW p, Back(set, st, k, p)
    PROVE  k >= st /\ set[k] = p /\ set[k] \in shown
<1>1. PICK i \in (st + 1)..k : \A m \in i..k : set[m] \in shown /\ set[m] = p
    BY DEF Back, BackIn
<1>2. k \in i..k
    OBVIOUS
<1> QED
    BY <1>1, <1>2

LEMMA BackOn ==
    ASSUME NEW set, NEW st \in Nat, NEW k \in Nat, NEW p, set[k + 1] \in shown, set[k + 1] = p,
           Gone(set, st, k, p) \/ Back(set, st, k, p)
    PROVE  Back(set, st, k + 1, p)
<1>1. CASE Gone(set, st, k, p)
  <2>1. PICK h \in st..(k - 1) : set[h] = p /\ \A m \in (h + 1)..k : set[m] \notin shown
      BY <1>1 DEF Gone
  <2>2. /\ k + 1 \in (st + 1)..(k + 1) /\ h \in st..((k + 1) - 2) /\ (k + 1) - 1 = k
        /\ \A m \in (k + 1)..(k + 1) : m = k + 1
        /\ k \in (h + 1)..k
      OBVIOUS
  <2> QED
      BY <2>1, <2>2 DEF Back, BackIn
<1>2. CASE Back(set, st, k, p)
  <2>1. PICK i \in (st + 1)..k :
           /\ \A m \in i..k : set[m] \in shown /\ set[m] = p
           /\ set[i - 1] \notin shown
           /\ \E h \in st..(i - 2) : set[h] = p /\ \A m \in (h + 1)..(i - 1) : set[m] \notin shown
      BY <1>2 DEF Back, BackIn
  <2>2. i \in (st + 1)..(k + 1) /\ \A m \in i..(k + 1) : (m \in i..k \/ m = k + 1)
      OBVIOUS
  <2>3. \A m \in i..(k + 1) : set[m] \in shown /\ set[m] = p
      BY <2>1, <2>2
  <2> QED
      BY <2>1, <2>2, <2>3 DEF Back, BackIn
<1> QED
    BY <1>1, <1>2

MovesTo(set, j, p, q) == q = Moved(set, j, p)

\* What the pen is after a point.
LEMMA MovedIs ==
    ASSUME NEW set, NEW j \in Nat, NEW p \in Pens, shown \subseteq Places, Nowhere \notin Places,
           NEW q, MovesTo(set, j, p, q), p.started => p.at # Nowhere
    PROVE  /\ q \in Pens
           /\ set[j] \notin shown => q.at = p.at /\ q.started = FALSE /\ q.lines = p.lines
           /\ set[j] \in shown /\ set[j] = p.at => q = p
           /\ set[j] \in shown /\ set[j] # p.at =>
                /\ q.at = set[j] /\ q.started = TRUE
                /\ p.started => q.lines = p.lines \cup {<<j, p.at>>}
                /\ ~p.started => q.lines = p.lines
<1>1. /\ p.at \in Places \cup {Nowhere} /\ p.started \in BOOLEAN
      /\ p.lines \in SUBSET (Nat \X Places)
      /\ p = [at |-> p.at, started |-> p.started, lines |-> p.lines]
    BY DEF Pens
<1>2. CASE set[j] \notin shown
  <2>1. q = [p EXCEPT !.started = FALSE]
      BY <1>2, Zenon DEF Moved, MovesTo
  <2>2. q.at = p.at /\ q.started = FALSE /\ q.lines = p.lines /\ q \in Pens
      BY <2>1 DEF Pens
  <2> QED
      BY <1>2, <2>2, Zenon
<1>3. CASE set[j] \in shown /\ set[j] = p.at
  <2>1. q = p
      BY <1>3, Zenon DEF Moved, MovesTo
  <2> QED
      BY <1>3, <2>1, Zenon
<1>4. CASE set[j] \in shown /\ set[j] # p.at
  <2>1. PICK w : w = p.lines \cup (IF p.started THEN {<<j, p.at>>} ELSE {})
      OBVIOUS
  <2>2. q = [at |-> set[j], started |-> TRUE, lines |-> w]
      BY <1>4, <2>1, Zenon DEF Moved, MovesTo
  <2>3. /\ p.started => w = p.lines \cup {<<j, p.at>>}
        /\ ~p.started => w = p.lines
    <3>1. CASE p.started
        BY <2>1, <3>1
    <3>2. CASE ~p.started
        BY <2>1, <3>2
    <3> QED
        BY <3>1, <3>2
  <2>4. w \in SUBSET (Nat \X Places)
    <3>1. p.started => p.at \in Places
        BY <1>1
    <3> QED
        BY <1>1, <2>3, <3>1
  <2>5. set[j] \in Places
      BY <1>4
  <2>6. q \in Pens
      BY <2>2, <2>4, <2>5 DEF Pens
  <2>7. q.at = set[j] /\ q.started = TRUE /\ q.lines = w
      BY <2>2
  <2> QED
      BY <1>4, <2>3, <2>6, <2>7, Zenon
<1> QED
    BY <1>2, <1>3, <1>4

LEMMA DrewOn ==
    ASSUME NEW set, NEW st \in Nat, NEW k \in Nat, NEW p, NEW q, PenDrew(set, st, k, p),
           \A l \in q.lines :
              l \in p.lines \/ (k >= st /\ l = <<k + 1, set[k]>> /\ Joint(set, k + 1)),
           \A l \in p.lines : l \in q.lines,
           k >= st /\ Joint(set, k + 1) =>
              <<k + 1, set[k]>> \in q.lines \/ Back(set, st, k, set[k])
    PROVE  PenDrew(set, st, k + 1, q)
<1>1. /\ \A l \in p.lines : \E i \in (st + 1)..k : l = <<i, set[i - 1]>> /\ Joint(set, i)
      /\ \A i \in (st + 1)..k : Joint(set, i) =>
            <<i, set[i - 1]>> \in p.lines \/ Back(set, st, i - 1, set[i - 1])
    BY Zenon DEF PenDrew
<1>2. ASSUME NEW l \in q.lines
      PROVE  \E i \in (st + 1)..(k + 1) : l = <<i, set[i - 1]>> /\ Joint(set, i)
  <2>1. CASE l \in p.lines
    <3>1. PICK i \in (st + 1)..k : l = <<i, set[i - 1]>> /\ Joint(set, i)
        BY <1>1, <2>1, Zenon
    <3>2. i \in (st + 1)..(k + 1)
        OBVIOUS
    <3> QED
        BY <3>1, <3>2, Zenon
  <2>2. CASE k >= st /\ l = <<k + 1, set[k]>> /\ Joint(set, k + 1)
    <3>1. k + 1 \in (st + 1)..(k + 1) /\ (k + 1) - 1 = k
        BY <2>2
    <3>2. l = <<k + 1, set[(k + 1) - 1]>> /\ Joint(set, k + 1)
        BY <2>2, <3>1
    <3> QED
        BY <3>1, <3>2, Zenon
  <2> QED
      BY <1>2, <2>1, <2>2, Zenon
<1>3. ASSUME NEW i \in (st + 1)..(k + 1), Joint(set, i)
      PROVE  <<i, set[i - 1]>> \in q.lines \/ Back(set, st, i - 1, set[i - 1])
  <2>1. CASE i = k + 1
    <3>1. i - 1 = k /\ k >= st
        BY <2>1
    <3> QED
        BY <1>3, <2>1, <3>1
  <2>2. CASE i # k + 1
    <3>1. i \in (st + 1)..k
        BY <2>2
    <3> QED
        BY <1>1, <1>3, <3>1, Zenon
  <2> QED
      BY <2>1, <2>2
<1> QED
    BY <1>2, <1>3, Zenon DEF PenDrew

LEMMA PenStep ==
    ASSUME NEW set, NEW st \in Nat, st >= 1, NEW k \in Nat, k + 1 >= st,
           shown \subseteq Places, Nowhere \notin Places,
           NEW p \in Pens, PenAt(set, st, k, p), PenDrew(set, st, k, p),
           NEW q, MovesTo(set, k + 1, p, q)
    PROVE  q \in Pens /\ PenAt(set, st, k + 1, q) /\ PenDrew(set, st, k + 1, q)
<1> DEFINE j == k + 1
<1>0. /\ p.started => k >= st /\ set[k] \in shown /\ p.at = set[k]
      /\ p.at = Nowhere => \A i \in st..k : set[i] \notin shown
      /\ ~p.started /\ p.at # Nowhere => Gone(set, st, k, p.at) \/ Back(set, st, k, p.at)
    BY Zenon DEF PenAt
<1>1. p.started => p.at # Nowhere
  <2>1. ASSUME p.started, p.at = Nowhere PROVE FALSE
    <3>1. Nowhere \in shown
        BY <1>0, <2>1, Zenon
    <3> QED
        BY <3>1
  <2> QED
      BY <2>1, Zenon
<1>2. /\ q \in Pens
      /\ set[j] \notin shown => q.at = p.at /\ q.started = FALSE /\ q.lines = p.lines
      /\ set[j] \in shown /\ set[j] = p.at => q = p
      /\ set[j] \in shown /\ set[j] # p.at =>
           /\ q.at = set[j] /\ q.started = TRUE
           /\ p.started => q.lines = p.lines \cup {<<j, p.at>>}
           /\ ~p.started => q.lines = p.lines
  <2>1. j \in Nat
      OBVIOUS
  <2> HIDE DEF j
  <2>2. MovesTo(set, j, p, q)
      BY DEF j
  <2> QED
      BY <1>1, <2>1, <2>2, MovedIs
<1>3. /\ j \in Nat /\ j >= st /\ j - 1 = k
      /\ \A i \in st..j : i \in st..k \/ i = j
      /\ \A i \in (st + 1)..j : i \in (st + 1)..k \/ (i = j /\ k >= st)
      /\ \A i \in (st + 1)..k : i \in (st + 1)..j
      /\ (k >= st => j \in (st + 1)..j /\ k \in st..k)
    OBVIOUS
\* What j adds if it is to be joined.
<1>4. ASSUME Joint(set, j), k >= st
      PROVE  \/ p.started /\ p.at = set[k] /\ set[j] # p.at
             \/ Back(set, st, k, set[k])
  <2>1. set[k] \in shown /\ set[j] \in shown /\ set[k] # set[j]
      BY <1>3, <1>4 DEF Joint
  <2>2. CASE p.started
      BY <1>0, <2>1, <2>2, Zenon
  <2>3. CASE ~p.started
    <3>1. p.at # Nowhere
        BY <1>0, <1>3, <1>4, <2>1
    <3>2. ~Gone(set, st, k, p.at)
      <4>1. SUFFICES ASSUME Gone(set, st, k, p.at) PROVE FALSE
          OBVIOUS
      <4>2. PICK h \in st..(k - 1) : \A m \in (h + 1)..k : set[m] \notin shown
          BY <4>1 DEF Gone
      <4>3. k \in (h + 1)..k
          OBVIOUS
      <4> QED
          BY <2>1, <4>2, <4>3
    <3>3. Back(set, st, k, p.at)
        BY <1>0, <2>3, <3>1, <3>2, Zenon
    <3>4. p.at = set[k]
        BY <3>3, BackIs
    <3> QED
        BY <3>3, <3>4
  <2> QED
      BY <2>2, <2>3, Zenon
<1>5. p.started => k >= st
    BY <1>0, Zenon
<1> HIDE DEF j
<1>6. CASE set[j] \notin shown
  <2>1. q.at = p.at /\ q.started = FALSE /\ q.lines = p.lines
      BY <1>2, <1>6, Zenon
  <2>2. q.at = Nowhere => \A i \in st..j : set[i] \notin shown
      BY <1>0, <1>3, <1>6, <2>1
  <2>3. ASSUME q.at # Nowhere
        PROVE  Gone(set, st, j, q.at) \/ Back(set, st, j, q.at)
    <3>1. Gone(set, st, k, p.at) \/ (k >= st /\ set[k] = p.at)
      <4>1. CASE p.started
          BY <1>0, <4>1, Zenon
      <4>2. CASE ~p.started
        <5>1. Back(set, st, k, p.at) => k >= st /\ set[k] = p.at
            BY BackIs
        <5> QED
            BY <1>0, <2>1, <2>3, <4>2, <5>1, Zenon
      <4> QED
          BY <4>1, <4>2, Zenon
    <3>2. Gone(set, st, k + 1, p.at)
        BY <1>6, <3>1, GoneOn DEF j
    <3> QED
        BY <2>1, <3>2 DEF j
  <2>4. PenAt(set, st, j, q)
      BY <2>1, <2>2, <2>3, Zenon DEF PenAt
  <2>5. PenDrew(set, st, j, q)
    <3>1. ~Joint(set, k + 1)
        BY <1>6 DEF Joint, j
    <3>2. PenDrew(set, st, k + 1, q)
        BY <2>1, <3>1, DrewOn, Zenon
    <3> QED
        BY <3>2 DEF j
  <2> QED
      BY <1>2, <2>4, <2>5 DEF j
<1>7. CASE set[j] \in shown /\ set[j] = p.at
  <2>1. q = p
      BY <1>2, <1>7, Zenon
  <2>2. p.at # Nowhere
      BY <1>7
  <2>3. ~p.started => Back(set, st, j, p.at)
    <3>1. ASSUME ~p.started PROVE Back(set, st, j, p.at)
      <4>1. Gone(set, st, k, p.at) \/ Back(set, st, k, p.at)
          BY <1>0, <2>2, <3>1, Zenon
      <4>2. Back(set, st, k + 1, p.at)
          BY <1>7, <4>1, BackOn DEF j
      <4> QED
          BY <4>2 DEF j
    <3> QED
        BY <3>1, Zenon
  <2>4. PenAt(set, st, j, q)
      BY <1>3, <1>7, <2>1, <2>2, <2>3, Zenon DEF PenAt
  <2>5. PenDrew(set, st, j, q)
    <3>1. ASSUME Joint(set, k + 1), k >= st PROVE Back(set, st, k, set[k])
        BY <1>4, <1>7, <3>1, Zenon DEF j
    <3>2. PenDrew(set, st, k + 1, q)
        BY <2>1, <3>1, DrewOn, Zenon
    <3> QED
        BY <3>2 DEF j
  <2> QED
      BY <1>2, <2>4, <2>5 DEF j
<1>8. CASE set[j] \in shown /\ set[j] # p.at
  <2>1. /\ q.at = set[j] /\ q.started = TRUE
        /\ p.started => q.lines = p.lines \cup {<<j, p.at>>}
        /\ ~p.started => q.lines = p.lines
      BY <1>2, <1>8, Zenon
  <2>2. q.at # Nowhere
      BY <1>8, <2>1
  <2>3. PenAt(set, st, j, q)
      BY <1>3, <1>8, <2>1, <2>2, Zenon DEF PenAt
  <2>4. PenDrew(set, st, j, q)
    <3>3. CASE p.started
      <4>1. /\ k >= st /\ set[k] \in shown /\ p.at = set[k] /\ q.lines = p.lines \cup {<<j, p.at>>}
            BY <1>0, <2>1, <3>3, Zenon
      <4>2. Joint(set, j)
          BY <1>3, <1>8, <4>1 DEF Joint
      <4>3. \A l \in q.lines : l \in p.lines \/ l = <<k + 1, set[k]>>
          BY <4>1 DEF j
      <4>4. <<k + 1, set[k]>> \in q.lines /\ \A l \in p.lines : l \in q.lines
          BY <4>1 DEF j
      <4>5. Joint(set, k + 1)
          BY <4>2 DEF j
      <4>6. PenDrew(set, st, k + 1, q)
          BY <4>1, <4>3, <4>4, <4>5, DrewOn, Zenon
      <4> QED
          BY <4>6 DEF j
    <3>4. CASE ~p.started
      <4>1. q.lines = p.lines
          BY <2>1, <3>4, Zenon
      <4>2. ASSUME Joint(set, k + 1), k >= st PROVE Back(set, st, k, set[k])
          BY <1>4, <3>4, <4>2, Zenon DEF j
      <4>3. PenDrew(set, st, k + 1, q)
          BY <4>1, <4>2, DrewOn, Zenon
      <4> QED
          BY <4>3 DEF j
    <3> QED
        BY <3>3, <3>4, Zenon
  <2> QED
      BY <1>2, <2>3, <2>4 DEF j
<1> QED
    BY <1>6, <1>7, <1>8, Zenon

\* The lines of a part a..b of a set: they join neighbours, and they join all
\* of them which are to be joined, but for those where the pen came back.
LEMMA PenIs ==
    ASSUME NEW set, NEW a \in Nat, a >= 1, NEW b \in Nat, a - 1 <= b,
           shown \subseteq Places, Nowhere \notin Places
    PROVE  /\ \A l \in Pen(set, a, b) :
                 \E i \in a..b : i > 1 /\ l = <<i, set[i - 1]>> /\ Joint(set, i)
           /\ \A i \in a..b : i > 1 /\ Joint(set, i) =>
                 <<i, set[i - 1]>> \in Pen(set, a, b) \/ Back(set, 1, i - 1, set[i - 1])
<1>1. PICK st \in Nat : st = Max({a - 1, 1})
    BY PenStart
<1>2. st >= 1 /\ st - 1 \in Nat /\ (a > 1 => st = a - 1) /\ (a = 1 => st = 1)
    BY <1>1, PenStart
<1>3. st - 1 <= b
    BY <1>2
<1> DEFINE g == CHOOSE f : Pens0(set, st, b, f)
<1>4. Pen(set, a, b) = g[b].lines
  <2>1. Pen(set, a, b) = (CHOOSE f : Pens0(set, Max({a - 1, 1}), b, f))[b].lines
      BY DEF Pen, Pens0, Moved, Lifted
  <2> QED
      BY <1>1, <2>1, Zenon
<1>5. Pens0(set, st, b, g)
    BY <1>2, <1>3, PensExist, Zenon
<1> HIDE DEF g
<1> DEFINE c(n) == (st - 1) + n
           T == {n \in Nat : c(n) <= b => /\ g[c(n)] \in Pens /\ PenAt(set, st, c(n), g[c(n)])
                                          /\ PenDrew(set, st, c(n), g[c(n)])}
<1>6. 0 \in T
  <2>1. PICK k \in Nat : k = st - 1
      BY <1>2
  <2>2. g[k] = Lifted
    <3>1. k \in (st - 1)..b
        BY <1>3, <2>1
    <3> QED
        BY <1>5, <2>1, <3>1, Zenon DEF Pens0
  <2>3. Lifted \in Pens /\ Lifted.at = Nowhere /\ Lifted.started = FALSE /\ Lifted.lines = {}
      BY DEF Lifted, Pens
  <2>4. (\A i \in st..k : FALSE) /\ (\A i \in (st + 1)..k : FALSE)
      BY <2>1
  <2>5. PenAt(set, st, k, Lifted)
      BY <2>3, <2>4, Zenon DEF PenAt
  <2>6. PenDrew(set, st, k, Lifted)
      BY <2>3, <2>4 DEF PenDrew
  <2>7. c(0) = k
      BY <1>2, <2>1
  <2> QED
      BY <2>2, <2>3, <2>5, <2>6, <2>7
<1>7. ASSUME NEW n \in Nat, n \in T
      PROVE  n + 1 \in T
  <2>1. PICK k \in Nat : k = c(n)
      BY <1>2
  <2>2. c(n + 1) = k + 1 /\ k + 1 >= st
      BY <1>2, <2>1
  <2>3. CASE k + 1 <= b
    <3>1. /\ g[k] \in Pens /\ PenAt(set, st, k, g[k]) /\ PenDrew(set, st, k, g[k])
        BY <1>7, <2>1, <2>3
    <3>2. k + 1 \in (st - 1)..b /\ k + 1 # st - 1 /\ (k + 1) - 1 = k
        BY <1>2, <2>2, <2>3
    <3>3. g[k + 1] = Moved(set, k + 1, g[(k + 1) - 1])
        BY <1>5, <3>2, Zenon DEF Pens0
    <3>4. g[k + 1] = Moved(set, k + 1, g[k])
        BY <3>2, <3>3, Zenon
    <3>5. g[k + 1] \in Pens /\ PenAt(set, st, k + 1, g[k + 1]) /\ PenDrew(set, st, k + 1, g[k + 1])
        BY <1>2, <2>2, <3>1, <3>4, PenStep, Zenon DEF MovesTo
    <3> QED
        BY <2>2, <3>5
  <2>4. CASE ~(k + 1 <= b)
      BY <2>2, <2>4
  <2> QED
      BY <2>3, <2>4
<1>8. PICK n \in Nat : n = b - (st - 1)
    BY <1>2, <1>3
<1>9. c(n) = b
    BY <1>2, <1>8
<1>10. \A k \in 0..(n - 1) : k \in T => k + 1 \in T
    BY <1>7
<1> HIDE DEF T
<1>11. n \in T
  <2>1. \A k \in 0..n : k \in T
      BY <1>6, <1>10, UpTo
  <2> QED
      BY <2>1
<1>12. PenDrew(set, st, b, g[b])
  <2>1. c(n) <= b => PenDrew(set, st, c(n), g[c(n)])
      BY <1>11 DEF T
  <2> HIDE DEF c
  <2> QED
      BY <1>9, <2>1
<1>13. \A i \in (st + 1)..b : i \in a..b /\ i > 1
    BY <1>2
<1>14. \A i \in a..b : i > 1 => i \in (st + 1)..b
    BY <1>2
<1>15. ASSUME NEW i \in Nat, NEW p, Back(set, st, i, p)
       PROVE  Back(set, 1, i, p)
  <2>1. PICK m \in (st + 1)..i :
           /\ \A k \in m..i : set[k] \in shown /\ set[k] = p
           /\ set[m - 1] \notin shown
           /\ \E h \in st..(m - 2) : set[h] = p /\ \A k \in (h + 1)..(m - 1) : set[k] \notin shown
      BY <1>15 DEF Back, BackIn
  <2>2. m \in (1 + 1)..i /\ \A h \in st..(m - 2) : h \in 1..(m - 2)
      BY <1>2
  <2> QED
      BY <2>1, <2>2, Zenon DEF Back, BackIn
<1>16. \A i \in a..b : i > 1 => i - 1 \in Nat
    OBVIOUS
<1>17. /\ \A l \in g[b].lines : \E i \in (st + 1)..b : l = <<i, set[i - 1]>> /\ Joint(set, i)
       /\ \A i \in (st + 1)..b : Joint(set, i) =>
             <<i, set[i - 1]>> \in g[b].lines \/ Back(set, st, i - 1, set[i - 1])
    BY <1>12, Zenon DEF PenDrew
<1>18. \A l \in Pen(set, a, b) :
          \E i \in a..b : i > 1 /\ l = <<i, set[i - 1]>> /\ Joint(set, i)
    BY <1>4, <1>13, <1>17, Zenon
<1>19. \A i \in a..b : i > 1 /\ Joint(set, i) =>
          <<i, set[i - 1]>> \in Pen(set, a, b) \/ Back(set, 1, i - 1, set[i - 1])
    BY <1>4, <1>14, <1>15, <1>16, <1>17, Zenon
<1> QED
    BY <1>18, <1>19, Zenon
-----------------------------------------------------------------------------
(* Which points are drawn.                                                  *)

RowSet(s, m) == {e \in Points : e[1] = s /\ e[2] \in 1..m}
SetsTo(sets, k) == {e \in Points : e[1] \in 1..k /\ e[2] \in 1..Len(sets[e[1]])}

LEMMA RowElems ==
    ASSUME NEW s \in Nat, NEW m \in Nat
    PROVE  Range(Row(s, m)) = RowSet(s, m)
<1>1. DOMAIN Row(s, m) = 1..m /\ \A j \in 1..m : Row(s, m)[j] = <<s, j>>
    BY DEF Row
<1>2. \A e \in Range(Row(s, m)) : e \in RowSet(s, m)
  <2>1. ASSUME NEW j \in 1..m
        PROVE  <<s, j>> \in RowSet(s, m)
      BY DEF RowSet, Points
  <2> QED
      BY <1>1, <2>1, Zenon DEF Range
<1>3. ASSUME NEW e \in RowSet(s, m)
      PROVE  e \in Range(Row(s, m))
  <2>1. e[1] = s /\ e[2] \in 1..m /\ e = <<e[1], e[2]>>
      BY DEF RowSet, Points
  <2>2. e = Row(s, m)[e[2]]
      BY <1>1, <2>1
  <2> QED
      BY <1>1, <2>1, <2>2 DEF Range
<1> QED
    BY <1>2, <1>3

LEMMA UptoElems ==
    ASSUME NEW sets \in Buffers
    PROVE  \A k \in 0..Len(sets) : Range(Upto(sets)[k]) = SetsTo(sets, k)
<1> DEFINE T == {k \in Nat : k <= Len(sets) => Range(Upto(sets)[k]) = SetsTo(sets, k)}
<1>1. Len(sets) \in Nat
    BY SetsAre
<1>2. 0 \in T
  <2>1. Upto(sets)[0] = <<>>
      BY UptoStep
  <2>2. DOMAIN <<>> = {}
      OBVIOUS
  <2>3. Range(<<>>) = {}
      BY <2>2, Zenon DEF Range
  <2>4. SetsTo(sets, 0) = {}
      BY DEF SetsTo
  <2> QED
      BY <2>1, <2>3, <2>4
<1>3. ASSUME NEW k \in Nat, k \in T
      PROVE  k + 1 \in T
  <2>1. SUFFICES ASSUME k + 1 <= Len(sets)
                 PROVE  Range(Upto(sets)[k + 1]) = SetsTo(sets, k + 1)
      OBVIOUS
  <2>2. k + 1 \in 1..Len(sets) /\ k \in 0..Len(sets) /\ (k + 1) - 1 = k /\ k + 1 \in Nat
      BY <1>1, <2>1
  <2>3. Upto(sets)[k + 1] = Upto(sets)[k] \o Row(k + 1, Len(sets[k + 1]))
      BY <2>2, UptoStep
  <2>4. Upto(sets)[k] \in Seq(Points) /\ Row(k + 1, Len(sets[k + 1])) \in Seq(Points)
        /\ Len(sets[k + 1]) \in Nat
      BY <2>2, UptoType, RowOf, SetsAre
  <2>5. Range(Upto(sets)[k + 1]) = Range(Upto(sets)[k]) \cup Range(Row(k + 1, Len(sets[k + 1])))
    <3>1. PICK p \in Seq(Points), q \in Seq(Points) :
             p = Upto(sets)[k] /\ q = Row(k + 1, Len(sets[k + 1]))
        BY <2>4
    <3>2. Range(p \o q) = Range(p) \cup Range(q)
        BY RangeConcatenation
    <3> QED
        BY <2>3, <3>1, <3>2
  <2>6. Range(Upto(sets)[k]) = SetsTo(sets, k)
      BY <1>3, <2>2
  <2>7. Range(Row(k + 1, Len(sets[k + 1]))) = RowSet(k + 1, Len(sets[k + 1]))
      BY <2>2, <2>4, RowElems
  <2>8. SetsTo(sets, k) \cup RowSet(k + 1, Len(sets[k + 1])) = SetsTo(sets, k + 1)
    <3>1. \A e \in Points : e[1] \in 1..(k + 1) <=> (e[1] \in 1..k \/ e[1] = k + 1)
        BY DEF Points
    <3> QED
        BY <3>1 DEF SetsTo, RowSet
  <2> QED
      BY <2>5, <2>6, <2>7, <2>8
<1>4. \A k \in 0..(Len(sets) - 1) : k \in T => k + 1 \in T
    BY <1>3
<1> HIDE DEF T
<1>5. \A k \in 0..Len(sets) : k \in T
    BY <1>1, <1>2, <1>4, UpTo
<1> QED
    BY <1>1, <1>5 DEF T

LEMMA PrefixElems ==
    ASSUME NEW sets \in Buffers, NEW k \in Nat, k < Len(sets), NEW m \in Nat
    PROVE  Range(Prefix(sets, k, m)) = SetsTo(sets, k) \cup RowSet(k + 1, m)
<1>1. k \in 0..Len(sets) /\ k + 1 \in Nat /\ Len(sets) \in Nat
    BY SetsAre
<1>2. Upto(sets)[k] \in Seq(Points) /\ Row(k + 1, m) \in Seq(Points)
    BY <1>1, UptoType, RowType
<1>3. Range(Prefix(sets, k, m)) = Range(Upto(sets)[k]) \cup Range(Row(k + 1, m))
  <2>1. PICK p \in Seq(Points), q \in Seq(Points) : p = Upto(sets)[k] /\ q = Row(k + 1, m)
      BY <1>2
  <2>2. Range(p \o q) = Range(p) \cup Range(q)
      BY RangeConcatenation
  <2> QED
      BY <2>1, <2>2 DEF Prefix
<1> QED
    BY <1>1, <1>3, UptoElems, RowElems

\* What is drawn is in the buffer and is written.
LEMMA DrawnWritten ==
    ASSUME DrawInv, NEW e \in Drawn
    PROVE  /\ e[1] \in 1..Len(svs) /\ e[2] \in 1..Len(svs[e[1]]) /\ e = <<e[1], e[2]>>
           /\ half /\ e[1] = Len(svs) => e[2] < Len(svs[Len(svs)])
<1> DEFINE m == IF pc = "read" THEN begin ELSE draw_set
<1>1. svs \in Buffers /\ ProgInv /\ BufInv /\ Len(svs) \in Nat
    BY SetsAre DEF DrawInv, BufInv
<1>2. /\ active_set \in Nat /\ active_set < Len(svs) /\ m \in Nat /\ m <= Len(svs[active_set + 1])
      /\ dots = Prefix(svs, active_set, m)
  <2>1. /\ active_set \in Nat /\ active_set < Len(svs) /\ draw_set \in Nat /\ begin \in Nat
        /\ pc = "read" => begin <= draw_set
        /\ draw_set <= Len(svs[active_set + 1])
        /\ dots = Prefix(svs, active_set, m)
      BY <1>1 DEF ProgInv
  <2>2. Len(svs[active_set + 1]) \in Nat
    <3>1. active_set + 1 \in 1..Len(svs)
        BY <1>1, <2>1
    <3> QED
        BY <1>1, <3>1, SetsAre
  <2> QED
      BY <2>1, <2>2
<1> HIDE DEF m
<1>3. Drawn = SetsTo(svs, active_set) \cup RowSet(active_set + 1, m)
  <2>1. Drawn = Range(dots)
      BY Zenon DEF Drawn, Range
  <2> QED
      BY <1>1, <1>2, <2>1, PrefixElems
<1>4. e \in Points /\ e = <<e[1], e[2]>> /\ e[1] \in Nat /\ e[2] \in Nat
    BY <1>3 DEF SetsTo, RowSet, Points
<1>5. \/ e[1] \in 1..active_set /\ e[2] \in 1..Len(svs[e[1]])
      \/ e[1] = active_set + 1 /\ e[2] \in 1..m
    BY <1>3 DEF SetsTo, RowSet
<1>6. e[1] \in 1..Len(svs) /\ e[2] \in 1..Len(svs[e[1]])
  <2>1. CASE e[1] \in 1..active_set /\ e[2] \in 1..Len(svs[e[1]])
      BY <1>1, <1>2, <2>1
  <2>2. CASE e[1] = active_set + 1 /\ e[2] \in 1..m
    <3>1. active_set + 1 \in 1..Len(svs)
        BY <1>1, <1>2
    <3>2. Len(svs[active_set + 1]) \in Nat
        BY <1>1, <3>1, SetsAre
    <3> QED
        BY <1>2, <2>2, <3>1, <3>2
  <2> QED
      BY <1>5, <2>1, <2>2
<1>7. ASSUME half, e[1] = Len(svs)
      PROVE  e[2] < Len(svs[Len(svs)])
  <2>1. active_set + 1 = Len(svs) /\ e[2] \in 1..m
      BY <1>1, <1>2, <1>5, <1>7
  <2>2. Len(svs) \in 1..Len(svs) /\ Len(svs) - 1 = active_set
      BY <1>1, <1>2, <2>1
  <2>3. PICK l \in Nat, u \in Nat, t \in {Len(All(svs))} :
           /\ l = Len(svs[Len(svs)]) /\ u = Len(Upto(svs)[active_set])
           /\ t = Len(All(svs)) /\ t = u + l
    <3>1. Len(All(svs)) = Len(Upto(svs)[Len(svs) - 1]) + Len(svs[Len(svs)])
          /\ Len(Upto(svs)[Len(svs) - 1]) \in Nat /\ Len(svs[Len(svs)]) \in Nat
        BY <1>1, <2>2, UptoLen DEF All
    <3>2. PICK l, u, t : l = Len(svs[Len(svs)]) /\ u = Len(Upto(svs)[active_set])
                         /\ t = Len(All(svs))
        OBVIOUS
    <3>3. l \in Nat /\ u \in Nat /\ t = u + l
        BY <2>2, <3>1, <3>2
    <3> QED
        BY <3>2, <3>3
  <2>4. Len(dots) = u + m
      BY <1>1, <1>2, <2>1, <2>3, PrefixBegins
  <2>5. Len(dots) <= t - 1
    <3>1. Len(dots) <= Count
        BY DrawnIs
    <3>2. Count = t - 1
        BY <1>7, <2>3 DEF Count
    <3> QED
        BY <3>1, <3>2
  <2>6. m < l
    <3>1. PICK z : z = Len(dots)
        OBVIOUS
    <3>2. z = u + m /\ z <= t - 1 /\ t = u + l /\ m \in Nat
        BY <1>2, <2>3, <2>4, <2>5, <3>1
    <3> QED
        BY <3>2
  <2> QED
      BY <1>2, <2>1, <2>3, <2>6
<1> QED
    BY <1>4, <1>6, <1>7
-----------------------------------------------------------------------------
(* The lines.                                                               *)

\* The line to the point e of the buffer.
LineTo(e) == <<e[1], e[2], svs[e[1]][e[2] - 1]>>

\* Every line joins two neighbours which are drawn and differ, and all of
\* those are joined but where the pen came back.
LineInv ==
    y /\ ~torn =>
       /\ \A l \in lines : \E e \in Drawn : e[2] > 1 /\ Joint(svs[e[1]], e[2]) /\ l = LineTo(e)
       /\ \A e \in Drawn : e[2] > 1 /\ Joint(svs[e[1]], e[2]) =>
             LineTo(e) \in lines \/ Back(svs[e[1]], 1, e[2] - 1, svs[e[1]][e[2] - 1])

LEMMA BackSame ==
    ASSUME NEW window, NEW a, NEW b, NEW k \in Nat, NEW p,
           \A i \in 1..k : a[i] = b[i],
           BackIn(window, a, 1, k, p)
    PROVE  BackIn(window, b, 1, k, p)
<1>1. PICK i \in 2..k :
         /\ \A m \in i..k : a[m] \in window /\ a[m] = p
         /\ a[i - 1] \notin window
         /\ \E h \in 1..(i - 2) : a[h] = p /\ \A m \in (h + 1)..(i - 1) : a[m] \notin window
    BY DEF BackIn
<1>2. PICK h \in 1..(i - 2) : a[h] = p /\ \A m \in (h + 1)..(i - 1) : a[m] \notin window
    BY <1>1
<1>3. \A m \in i..k : m \in 1..k
    OBVIOUS
<1>4. i - 1 \in 1..k /\ h \in 1..k /\ \A m \in (h + 1)..(i - 1) : m \in 1..k
    OBVIOUS
<1>5. \A m \in i..k : b[m] \in window /\ b[m] = p
    BY <1>1, <1>3
<1>6. b[i - 1] \notin window
    BY <1>1, <1>4
<1>7. b[h] = p /\ \A m \in (h + 1)..(i - 1) : b[m] \notin window
    BY <1>2, <1>4
<1> QED
    BY <1>5, <1>6, <1>7 DEF BackIn

\* The lines are kept while what is drawn keeps its places.
LEMMA KeepsLines ==
    ASSUME DrawInv, LineInv, shown' = shown, y' = y, lines' = lines, dots' = dots,
           ~torn' => ~torn,
           \A e \in Drawn : \A i \in 1..e[2] : svs[e[1]][i] = svs'[e[1]][i]
    PROVE  LineInv'
<1>1. SUFFICES ASSUME y', ~torn'
               PROVE  /\ \A l \in lines' : \E e \in Drawn' :
                            e[2] > 1 /\ Joint(svs[e[1]], e[2])' /\ l = LineTo(e)'
                      /\ \A e \in Drawn' : e[2] > 1 /\ Joint(svs[e[1]], e[2])' =>
                            LineTo(e)' \in lines'
                              \/ Back(svs[e[1]], 1, e[2] - 1, svs[e[1]][e[2] - 1])'
    BY Zenon DEF LineInv
<1>2. Drawn' = Drawn
    BY DEF Drawn
<1>3. /\ \A l \in lines : \E e \in Drawn : e[2] > 1 /\ Joint(svs[e[1]], e[2]) /\ l = LineTo(e)
      /\ \A e \in Drawn : e[2] > 1 /\ Joint(svs[e[1]], e[2]) =>
            LineTo(e) \in lines \/ Back(svs[e[1]], 1, e[2] - 1, svs[e[1]][e[2] - 1])
    BY <1>1, Zenon DEF LineInv
<1>4. ASSUME NEW e \in Drawn, e[2] > 1
      PROVE  /\ Joint(svs[e[1]], e[2])' <=> Joint(svs[e[1]], e[2])
             /\ LineTo(e)' = LineTo(e)
             /\ Back(svs[e[1]], 1, e[2] - 1, svs[e[1]][e[2] - 1])
                  => Back(svs[e[1]], 1, e[2] - 1, svs[e[1]][e[2] - 1])'
  <2>1. e[2] \in Nat /\ e[2] - 1 \in 1..e[2] /\ e[2] \in 1..e[2] /\ e[2] - 1 \in Nat
    <3>1. e[2] \in 1..Len(svs[e[1]])
        BY DrawnWritten
    <3> QED
        BY <1>4, <3>1
  <2>2. svs'[e[1]][e[2] - 1] = svs[e[1]][e[2] - 1] /\ svs'[e[1]][e[2]] = svs[e[1]][e[2]]
      BY <2>1
  <2>3. \A i \in 1..(e[2] - 1) : svs[e[1]][i] = svs'[e[1]][i]
      BY <2>1
  <2>4. PICK a, b, k, p : a = svs[e[1]] /\ b = svs'[e[1]] /\ k = e[2] - 1
                         /\ p = svs[e[1]][e[2] - 1]
      OBVIOUS
  <2>10. k \in Nat
      BY <2>1, <2>4
  <2>5. \A i \in 1..k : a[i] = b[i]
      BY <2>3, <2>4
  <2>6. BackIn(shown, a, 1, k, p) => BackIn(shown, b, 1, k, p)
      BY <2>5, <2>10, BackSame
  <2>7. Back(svs[e[1]], 1, e[2] - 1, svs[e[1]][e[2] - 1])
          => Back(svs[e[1]], 1, e[2] - 1, svs[e[1]][e[2] - 1])'
      BY <2>2, <2>4, <2>6 DEF Back
  <2>8. Joint(svs[e[1]], e[2])' <=> Joint(svs[e[1]], e[2])
      BY <2>2 DEF Joint
  <2>9. LineTo(e)' = LineTo(e)
      BY <2>2 DEF LineTo
  <2> QED
      BY <2>7, <2>8, <2>9
<1>5. \A l \in lines' : \E e \in Drawn' : e[2] > 1 /\ Joint(svs[e[1]], e[2])' /\ l = LineTo(e)'
  <2>1. ASSUME NEW l \in lines
        PROVE  \E e \in Drawn : e[2] > 1 /\ Joint(svs[e[1]], e[2])' /\ l = LineTo(e)'
    <3>1. PICK e \in Drawn : e[2] > 1 /\ Joint(svs[e[1]], e[2]) /\ l = LineTo(e)
        BY <1>3, Zenon
    <3>2. e[2] > 1 /\ Joint(svs[e[1]], e[2])' /\ l = LineTo(e)'
        BY <1>4, <3>1, Zenon
    <3> QED
        BY <3>2, Zenon
  <2> QED
      BY <1>2, <2>1, Zenon
<1>6. \A e \in Drawn' : e[2] > 1 /\ Joint(svs[e[1]], e[2])' =>
          LineTo(e)' \in lines' \/ Back(svs[e[1]], 1, e[2] - 1, svs[e[1]][e[2] - 1])'
  <2>1. ASSUME NEW e \in Drawn, e[2] > 1, Joint(svs[e[1]], e[2])'
        PROVE  LineTo(e)' \in lines \/ Back(svs[e[1]], 1, e[2] - 1, svs[e[1]][e[2] - 1])'
    <3>1. Joint(svs[e[1]], e[2])
        BY <1>4, <2>1, Zenon
    <3>2. LineTo(e) \in lines \/ Back(svs[e[1]], 1, e[2] - 1, svs[e[1]][e[2] - 1])
        BY <1>3, <2>1, <3>1, Zenon
    <3> QED
        BY <1>4, <2>1, <3>2, Zenon
  <2> QED
      BY <1>2, <2>1, Zenon
<1> QED
    BY <1>5, <1>6, Zenon

\* The DAQ thread changes nothing that is drawn.
LEMMA DaqKeepsLines ==
    ASSUME DrawInv, LineInv, Daq
    PROVE  LineInv'
<1>1. svs \in Buffers /\ svs # <<>> /\ Len(svs) \in 1..Len(svs) /\ Len(svs) \in Nat
    BY BufferNotEmpty DEF DrawInv, BufInv
<1>2. CASE AppendValue
  <2>1. PICK w : w = Append(svs[Len(svs)], Nowhere)
      OBVIOUS
  <2>2. svs' = [svs EXCEPT ![Len(svs)] = w]
      BY <1>2, <2>1 DEF AppendValue
  <2>3. PICK q \in Seq(Places \cup {Nowhere}) : q = svs[Len(svs)]
      BY <1>1, BufferNotEmpty
  <2>4. \A i \in 1..Len(q) : w[i] = q[i]
    <3>1. w = Append(q, Nowhere) /\ Nowhere \in Places \cup {Nowhere}
        BY <2>1, <2>3
    <3> QED
        BY <3>1, AppendProperties
  <2>5. DOMAIN svs = 1..Len(svs)
      BY <1>1, SetsAre
  <2>6. \A e \in Drawn : \A i \in 1..e[2] : svs[e[1]][i] = svs'[e[1]][i]
    <3>1. SUFFICES ASSUME NEW e \in Drawn, NEW i \in 1..e[2]
                   PROVE  svs[e[1]][i] = svs'[e[1]][i]
        BY Zenon
    <3>2. e[1] \in 1..Len(svs) /\ e[2] \in 1..Len(svs[e[1]])
        BY DrawnWritten
    <3>3. CASE e[1] # Len(svs)
      <4>1. svs'[e[1]] = svs[e[1]]
          BY <2>2, <2>5, <3>2, <3>3
      <4> QED
          BY <4>1
    <3>4. CASE e[1] = Len(svs)
      <4>1. svs'[e[1]] = w
          BY <2>2, <2>5, <3>2, <3>4
      <4>2. i \in 1..Len(q) /\ svs[e[1]] = q
        <5>1. svs[e[1]] = q /\ Len(q) \in Nat
            BY <2>3, <3>4, LenProperties
        <5> QED
            BY <3>2, <5>1
      <4> QED
          BY <2>4, <4>1, <4>2
    <3> QED
        BY <3>3, <3>4
  <2>7. /\ shown' = shown /\ y' = y /\ lines' = lines /\ dots' = dots
        /\ ~torn' => ~torn
      BY <1>2, Zenon DEF AppendValue, axes
  <2> QED
      BY <2>6, <2>7, KeepsLines, Zenon
<1>3. CASE WriteValue
  <2>1. PICK p \in Places : svs' = [svs EXCEPT ![Len(svs)] = [@ EXCEPT ![Len(@)] = p]]
      BY <1>3 DEF WriteValue
  <2>2. PICK q \in Seq(Places \cup {Nowhere}) : q = svs[Len(svs)]
      BY <1>1, BufferNotEmpty
  <2>3. PICK w : w = [q EXCEPT ![Len(q)] = p]
      OBVIOUS
  <2>4. svs' = [svs EXCEPT ![Len(svs)] = w]
      BY <2>1, <2>2, <2>3
  <2>5. DOMAIN svs = 1..Len(svs) /\ half
      BY <1>1, <1>3, SetsAre DEF WriteValue
  <2>6. \A e \in Drawn : \A i \in 1..e[2] : svs[e[1]][i] = svs'[e[1]][i]
    <3>1. SUFFICES ASSUME NEW e \in Drawn, NEW i \in 1..e[2]
                   PROVE  svs[e[1]][i] = svs'[e[1]][i]
        BY Zenon
    <3>2. e[1] \in 1..Len(svs) /\ e[2] \in 1..Len(svs[e[1]])
          /\ (e[1] = Len(svs) => e[2] < Len(svs[Len(svs)]))
        BY <2>5, DrawnWritten
    <3>3. CASE e[1] # Len(svs)
      <4>1. svs'[e[1]] = svs[e[1]]
          BY <2>4, <2>5, <3>2, <3>3
      <4> QED
          BY <4>1
    <3>4. CASE e[1] = Len(svs)
      <4>1. svs'[e[1]] = w
          BY <2>4, <2>5, <3>2, <3>4
      <4>2. i \in 1..Len(q) /\ svs[e[1]] = q /\ i # Len(q)
        <5>1. svs[e[1]] = q /\ Len(q) \in Nat
            BY <2>2, <3>4, LenProperties
        <5> QED
            BY <2>2, <3>2, <3>4, <5>1
      <4>3. w[i] = q[i]
        <5>1. i \in DOMAIN q
            BY <4>2, LenProperties
        <5> QED
            BY <2>3, <4>2, <5>1
      <4> QED
          BY <4>1, <4>2, <4>3
    <3> QED
        BY <3>3, <3>4
  <2>7. /\ shown' = shown /\ y' = y /\ lines' = lines /\ dots' = dots
        /\ ~torn' => ~torn
      BY <1>3, Zenon DEF WriteValue, axes, ink
  <2> QED
      BY <2>6, <2>7, KeepsLines, Zenon
<1>4. CASE AddSet
  <2>1. svs' = Append(svs, <<>>)
      BY <1>4 DEF AddSet
  <2>2. \A k \in 1..Len(svs) : svs'[k] = svs[k]
      BY <1>1, <2>1, AddAll, Zenon
  <2>3. \A e \in Drawn : \A i \in 1..e[2] : svs[e[1]][i] = svs'[e[1]][i]
    <3>1. SUFFICES ASSUME NEW e \in Drawn
                   PROVE  svs[e[1]] = svs'[e[1]]
        BY Zenon
    <3>2. e[1] \in 1..Len(svs)
        BY DrawnWritten
    <3> QED
        BY <2>2, <3>2
  <2>4. /\ shown' = shown /\ y' = y /\ lines' = lines /\ dots' = dots
        /\ ~torn' => ~torn
      BY <1>4, Zenon DEF AddSet, axes
  <2> QED
      BY <2>3, <2>4, KeepsLines, Zenon
<1> QED
    BY <1>2, <1>3, <1>4 DEF Daq
\* The lines of the part which plot_data draws.
LEMMA LinesDrawn ==
    ASSUME DrawInv, LineInv, DrawSet, ~stale
    PROVE  LineInv'
<1> DEFINE s == active_set + 1
           Part == {e \in Points : e[1] = s /\ e[2] \in (begin + 1)..draw_set}
<1>1. /\ svs' = svs /\ shown' = shown /\ y' = y /\ torn' = torn
      /\ lines' = IF ~y THEN lines
                  ELSE lines \cup {<<s, l[1], l[2]>> : l \in Pen(svs[s], begin + 1, draw_set)}
      /\ pc = "read"
    BY DEF DrawSet, buf, axes
<1>2. svs \in Buffers /\ Len(svs) \in Nat /\ ProgInv /\ shown \in Windows
    BY SetsAre DEF DrawInv, BufInv, FlagsInv
<1>3. /\ active_set \in Nat /\ draw_set \in Nat /\ begin \in Nat /\ begin <= draw_set
      /\ active_set < Len(svs) /\ s \in Nat
      /\ dots = Prefix(svs, active_set, begin)
    BY <1>1, <1>2 DEF ProgInv
<1>4. dots' = Prefix(svs, active_set, draw_set)
    BY DrawStep
<1>5. Drawn' = Drawn \cup Part
  <2>1. Drawn = Range(dots) /\ Drawn' = Range(dots')
      BY Zenon DEF Drawn, Range
  <2>2. Drawn = SetsTo(svs, active_set) \cup RowSet(s, begin)
      BY <1>2, <1>3, <2>1, PrefixElems
  <2>3. Drawn' = SetsTo(svs, active_set) \cup RowSet(s, draw_set)
      BY <1>2, <1>3, <1>4, <2>1, PrefixElems
  <2>4. RowSet(s, draw_set) = RowSet(s, begin) \cup Part
    <3>1. \A j \in Nat : j \in 1..draw_set <=> (j \in 1..begin \/ j \in (begin + 1)..draw_set)
        BY <1>3
    <3> QED
        BY <3>1 DEF RowSet, Points
  <2> QED
      BY <2>2, <2>3, <2>4
<1>6. SUFFICES ASSUME y, ~torn
               PROVE  /\ \A l \in lines' : \E e \in Drawn' :
                            e[2] > 1 /\ Joint(svs[e[1]], e[2]) /\ l = LineTo(e)
                      /\ \A e \in Drawn' : e[2] > 1 /\ Joint(svs[e[1]], e[2]) =>
                            LineTo(e) \in lines'
                              \/ Back(svs[e[1]], 1, e[2] - 1, svs[e[1]][e[2] - 1])
  <2>1. \A e : /\ Joint(svs[e[1]], e[2])' <=> Joint(svs[e[1]], e[2])
               /\ LineTo(e)' = LineTo(e)
               /\ Back(svs[e[1]], 1, e[2] - 1, svs[e[1]][e[2] - 1])'
                    <=> Back(svs[e[1]], 1, e[2] - 1, svs[e[1]][e[2] - 1])
      BY <1>1 DEF Joint, LineTo, Back
  <2> QED
      BY <1>1, <2>1, Zenon DEF LineInv
<1>7. /\ \A l \in lines : \E e \in Drawn : e[2] > 1 /\ Joint(svs[e[1]], e[2]) /\ l = LineTo(e)
      /\ \A e \in Drawn : e[2] > 1 /\ Joint(svs[e[1]], e[2]) =>
            LineTo(e) \in lines \/ Back(svs[e[1]], 1, e[2] - 1, svs[e[1]][e[2] - 1])
    BY <1>6, Zenon DEF LineInv
<1>8. PICK set, a, b : set = svs[s] /\ a = begin + 1 /\ b = draw_set
    OBVIOUS
<1>9. a \in Nat /\ a >= 1 /\ b \in Nat /\ a - 1 <= b
    BY <1>3, <1>8
<1>10. shown \subseteq Places /\ Nowhere \notin Places
    BY <1>2, PlotAssumption
<1>11. /\ \A l \in Pen(set, a, b) :
             \E i \in a..b : i > 1 /\ l = <<i, set[i - 1]>> /\ Joint(set, i)
       /\ \A i \in a..b : i > 1 /\ Joint(set, i) =>
             <<i, set[i - 1]>> \in Pen(set, a, b) \/ Back(set, 1, i - 1, set[i - 1])
    BY <1>9, <1>10, PenIs
<1>12. lines' = lines \cup {<<s, l[1], l[2]>> : l \in Pen(set, a, b)}
    BY <1>1, <1>6, <1>8
<1>13. \A i \in a..b : <<s, i>> \in Part
    BY <1>3, <1>8 DEF Points
<1>14. ASSUME NEW l \in lines'
       PROVE  \E e \in Drawn' : e[2] > 1 /\ Joint(svs[e[1]], e[2]) /\ l = LineTo(e)
  <2>1. CASE l \in lines
      BY <1>5, <1>7, <2>1, Zenon
  <2>2. CASE l \notin lines
    <3>1. PICK m \in Pen(set, a, b) : l = <<s, m[1], m[2]>>
        BY <1>12, <2>2
    <3>2. PICK i \in a..b : i > 1 /\ m = <<i, set[i - 1]>> /\ Joint(set, i)
        BY <1>11, Zenon
    <3>3. PICK e : e = <<s, i>>
        OBVIOUS
    <3>4. e \in Drawn'
        BY <1>5, <1>13, <3>3
    <3>5. e[1] = s /\ e[2] = i /\ l = <<s, i, set[i - 1]>>
        BY <3>1, <3>2, <3>3
    <3>6. e[2] > 1 /\ Joint(svs[e[1]], e[2]) /\ l = LineTo(e)
        BY <1>8, <3>2, <3>5 DEF LineTo
    <3> QED
        BY <3>4, <3>6
  <2> QED
      BY <2>1, <2>2
<1>15. ASSUME NEW e \in Drawn', e[2] > 1, Joint(svs[e[1]], e[2])
       PROVE  LineTo(e) \in lines' \/ Back(svs[e[1]], 1, e[2] - 1, svs[e[1]][e[2] - 1])
  <2>1. CASE e \in Drawn
      BY <1>7, <1>12, <1>15, <2>1, Zenon
  <2>2. CASE e \notin Drawn
    <3>1. e[1] = s /\ e[2] \in a..b
        BY <1>5, <1>8, <2>2
    <3>2. PICK i \in a..b : i = e[2]
        BY <3>1
    <3>3. i > 1 /\ Joint(set, i) /\ svs[e[1]] = set
        BY <1>8, <1>15, <3>1, <3>2
    <3>4. <<i, set[i - 1]>> \in Pen(set, a, b) \/ Back(set, 1, i - 1, set[i - 1])
        BY <1>11, <3>3
    <3>5. LineTo(e) = <<s, i, set[i - 1]>>
        BY <1>8, <3>1, <3>2 DEF LineTo
    <3>6. <<i, set[i - 1]>> \in Pen(set, a, b) => LineTo(e) \in lines'
      <4>1. ASSUME NEW m, m = <<i, set[i - 1]>>, m \in Pen(set, a, b)
            PROVE  LineTo(e) \in lines'
        <5>1. m[1] = i /\ m[2] = set[i - 1]
            BY <4>1
        <5>2. <<s, m[1], m[2]>> \in lines'
            BY <1>12, <4>1
        <5> QED
            BY <3>5, <5>1, <5>2
      <4> QED
          BY <4>1
    <3> QED
        BY <3>2, <3>3, <3>4, <3>6
  <2> QED
      BY <2>1, <2>2
<1> QED
    BY <1>14, <1>15

\* Nothing is said of the lines of a stale picture.
JoinInv == ~stale => LineInv

LEMMA StepsJoin ==
    ASSUME PlotInv, JoinInv, [PlotNext]_plotVars
    PROVE  JoinInv'
<1> SUFFICES ASSUME ~stale' PROVE LineInv'
    BY DEF JoinInv
<1>1. CASE Change \/ ClearBuffer
  <2>1. lines' = {} /\ dots' = <<>>
      BY <1>1 DEF Change, ClearBuffer, plot_build
  <2>2. Drawn' = {}
      BY <2>1 DEF Drawn
  <2> QED
      BY <2>1, <2>2 DEF LineInv
<1>2. CASE Enter /\ dots' = <<>>
  <2>1. lines' = {}
      BY <1>2 DEF Enter, NewSession
  <2>2. Drawn' = {}
      BY <1>2 DEF Drawn
  <2> QED
      BY <2>1, <2>2 DEF LineInv
<1>3. CASE Daq \/ Gui \/ UNCHANGED plotVars
  <2>1. stale' = stale
      BY <1>3 DEF Daq, AppendValue, WriteValue, AddSet, Gui, RequestDraw, BeginSet, LoseSet,
                  DrawSet, plotVars, ink
  <2>2. ~stale /\ DrawInv /\ LineInv
      BY <2>1 DEF PlotInv, DrawInv, JoinInv
  <2>3. CASE Daq
      BY <2>2, <2>3, DaqKeepsLines
  <2>4. CASE DrawSet
      BY <2>2, <2>4, LinesDrawn
  <2>5. CASE RequestDraw \/ BeginSet \/ LoseSet \/ UNCHANGED plotVars
    <3>1. /\ shown' = shown /\ y' = y /\ lines' = lines /\ dots' = dots /\ torn' = torn
          /\ svs' = svs
        BY <2>5 DEF RequestDraw, BeginSet, LoseSet, plotVars, buf, axes, ink
    <3> QED
        BY <2>2, <3>1, KeepsLines
  <2> QED
      BY <1>3, <2>3, <2>4, <2>5 DEF Gui
<1>4. CASE Enter /\ dots' # <<>>
  <2>1. /\ dots' = dots /\ lines' = lines /\ svs' = svs /\ shown' = shown /\ y' = y
        /\ torn' = torn /\ ~stale
      BY <1>4, EntersKept
  <2>2. DrawInv /\ LineInv
      BY <2>1 DEF PlotInv, DrawInv, JoinInv
  <2> QED
      BY <2>1, <2>2, KeepsLines
<1> QED
    BY <1>1, <1>2, <1>3, <1>4 DEF PlotNext

LEMMA JoinsAre ==
    ASSUME DrawInv, LineInv, ~stale
    PROVE  LinesJoined
<1>1. SUFFICES ASSUME y, ~torn
               PROVE  lines \subseteq Joins /\ \A l \in Joins \ lines : CameBack(l[1], l[2], l[3])
    BY Zenon DEF LinesJoined
<1>2. /\ \A l \in lines : \E e \in Drawn : e[2] > 1 /\ Joint(svs[e[1]], e[2]) /\ l = LineTo(e)
      /\ \A e \in Drawn : e[2] > 1 /\ Joint(svs[e[1]], e[2]) =>
            LineTo(e) \in lines \/ Back(svs[e[1]], 1, e[2] - 1, svs[e[1]][e[2] - 1])
    BY <1>1, Zenon DEF LineInv
<1> DEFINE Due == {e \in Drawn : /\ e[2] > 1
                                 /\ Inside(e[1], e[2] - 1) /\ Inside(e[1], e[2])
                                 /\ svs[e[1]][e[2] - 1] # svs[e[1]][e[2]]}
<1>3. ASSUME NEW e \in Drawn
      PROVE  /\ e[1] \in 1..Len(svs) /\ e[2] \in Nat
             /\ \A i \in 1..e[2] : i \in DOMAIN svs[e[1]]
  <2>1. e[1] \in 1..Len(svs) /\ e[2] \in 1..Len(svs[e[1]])
      BY DrawnWritten
  <2>2. svs \in Buffers
      BY DEF DrawInv, BufInv
  <2>3. PICK w : w = svs[e[1]]
      OBVIOUS
  <2>4. w \in Seq(Places \cup {Nowhere}) /\ Len(w) \in Nat /\ DOMAIN w = 1..Len(w)
    <3>1. w \in Seq(Places \cup {Nowhere})
        BY <2>1, <2>2, <2>3, ElementOfSeq DEF Buffers
    <3> QED
        BY <3>1, LenProperties
  <2> QED
      BY <2>1, <2>3, <2>4
<1>4. \A e \in Drawn : e \in Due <=> e[2] > 1 /\ Joint(svs[e[1]], e[2])
  <2>1. ASSUME NEW e \in Drawn, e[2] > 1
        PROVE  Inside(e[1], e[2] - 1) /\ Inside(e[1], e[2])
                 <=> svs[e[1]][e[2] - 1] \in shown /\ svs[e[1]][e[2]] \in shown
    <3>1. e[2] - 1 \in 1..e[2] /\ e[2] \in 1..e[2]
        BY <1>3, <2>1
    <3> QED
        BY <1>3, <3>1 DEF Inside
  <2> QED
      BY <2>1, Zenon DEF Joint
<1>5. Joins = {LineTo(e) : e \in Due}
    BY Zenon DEF Joins, LineTo
<1> HIDE DEF Due
<1>6. \A e \in Due : e \in Drawn
    BY Zenon DEF Due
<1>7. lines \subseteq Joins
  <2>1. ASSUME NEW l \in lines PROVE l \in Joins
    <3>1. PICK e \in Drawn : e[2] > 1 /\ Joint(svs[e[1]], e[2]) /\ l = LineTo(e)
        BY <1>2, Zenon
    <3> QED
        BY <1>4, <1>5, <3>1
  <2> QED
      BY <2>1
<1>8. ASSUME NEW l \in Joins, l \notin lines
      PROVE  CameBack(l[1], l[2], l[3])
  <2>1. PICK e \in Due : l = LineTo(e)
      BY <1>5
  <2>2. e \in Drawn /\ e[2] > 1 /\ Back(svs[e[1]], 1, e[2] - 1, svs[e[1]][e[2] - 1])
      BY <1>2, <1>4, <1>6, <1>8, <2>1, Zenon
  <2>3. PICK s, j, p : s = e[1] /\ j = e[2] /\ p = svs[e[1]][e[2] - 1]
      OBVIOUS
  <2>4. l[1] = s /\ l[2] = j /\ l[3] = p
      BY <2>1, <2>3 DEF LineTo
  <2>5. j \in Nat /\ j > 1 /\ \A i \in 1..j : i \in DOMAIN svs[s]
      BY <1>3, <2>2, <2>3
  <2>6. Back(svs[s], 1, j - 1, p)
      BY <2>2, <2>3
  <2>7. \A k \in 1..j : Inside(s, k) <=> svs[s][k] \in shown
      BY <2>5 DEF Inside
  <2>8. PICK i \in 2..(j - 1) :
           /\ \A m \in i..(j - 1) : svs[s][m] \in shown /\ svs[s][m] = p
           /\ svs[s][i - 1] \notin shown
           /\ \E h \in 1..(i - 2) :
                svs[s][h] = p /\ \A m \in (h + 1)..(i - 1) : svs[s][m] \notin shown
      BY <2>5, <2>6 DEF Back, BackIn
  <2>9. \A k \in i..(j - 1) : Inside(s, k) /\ svs[s][k] = p
    <3>1. \A k \in i..(j - 1) : k \in 1..j
        BY <2>5
    <3> QED
        BY <2>7, <2>8, <3>1
  <2>10. ~Inside(s, i - 1)
    <3>1. i - 1 \in 1..j
        BY <2>5
    <3> QED
        BY <2>7, <2>8, <3>1
  <2>11. PICK h \in 1..(i - 2) :
            svs[s][h] = p /\ \A m \in (h + 1)..(i - 1) : svs[s][m] \notin shown
      BY <2>8
  <2>12. \A k \in (h + 1)..(i - 1) : ~Inside(s, k)
    <3>1. \A k \in (h + 1)..(i - 1) : k \in 1..j
        BY <2>5
    <3> QED
        BY <2>7, <2>11, <3>1
  <2>13. CameBack(s, j, p)
      BY <2>9, <2>10, <2>11, <2>12 DEF CameBack
  <2> QED
      BY <2>4, <2>13
<1> QED
    BY <1>7, <1>8

\* However a set is cut into slices, and whatever the DAQ thread appends
\* between them, the lines are those of the set drawn at once: two neighbours
\* in different places inside the axes are joined, nothing else is, and the
\* only line which draw_axis_lines leaves out is that from a place where the
\* points left the axes and came back.
THEOREM LinesMeet == PlotSpec => []LinesJoined
<1>1. PlotInit => JoinInv
  <2>1. PlotInit => lines = {} /\ Drawn = {}
      BY DEF PlotInit, Drawn
  <2> QED
      BY <2>1 DEF LineInv, JoinInv
<1>2. PlotInv /\ JoinInv /\ [PlotNext]_plotVars => PlotInv' /\ JoinInv'
    BY StepsDraw, StepsJoin
<1>3. PlotInv /\ JoinInv => LinesJoined
  <2> SUFFICES ASSUME PlotInv, JoinInv PROVE LinesJoined
      OBVIOUS
  <2>1. CASE stale
      BY <2>1, Zenon DEF LinesJoined
  <2>2. CASE ~stale
    <3>1. DrawInv /\ LineInv
        BY <2>2 DEF PlotInv, DrawInv, JoinInv
    <3> QED
        BY <2>2, <3>1, JoinsAre
  <2> QED
      BY <2>1, <2>2
<1> QED
    BY <1>1, <1>2, <1>3, DrawInit, PTL DEF PlotSpec
=============================================================================
