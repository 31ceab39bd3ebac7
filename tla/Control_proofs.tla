--------------------------- MODULE Control_proofs ---------------------------
(* Proofs about the replies of the terminal server of Control, and about the *)
(* mutexes of all components in Locks.                                       *)
EXTENDS Control, Locks, SequenceTheorems, TLAPS

\* What accepting a connection yields.
LEMMA AcceptFacts ==
    ASSUME TypeOK, Accept
    PROVE  /\ argv = NoRequest
           /\ Head(backlog) \in 1 .. sent
           /\ Head(backlog) \in Requests
           /\ backlog' \in Seq(1 .. sent)
<1>1. backlog \in Seq(1 .. sent) /\ backlog # <<>> /\ backlog' = Tail(backlog)
    BY DEF TypeOK, Accept
<1>2. 1 .. sent \subseteq Requests
    BY ControlAssumption DEF TypeOK, Requests
<1>3. Head(backlog) \in 1 .. sent /\ Tail(backlog) \in Seq(1 .. sent)
    BY <1>1, HeadTailProperties
<1> QED
    BY <1>1, <1>2, <1>3 DEF Accept

\* A reply to the command in progress which fits it keeps the reply properties.
LEMMA ReplyFacts ==
    ASSUME TypeOK, Unsent, EveryReplyFits, NothingStray, argv # NoRequest,
           NEW kind \in Answers, Fits(kind, Current), Reply(kind), UNCHANGED <<sent, cmdOf>>
    PROVE  /\ answer' \in [Requests -> Answers] /\ argv' = NoRequest /\ stray' = stray
           /\ Unsent' /\ EveryReplyFits' /\ NothingStray'
<1>1. argv \in 1 .. sent /\ argv \in Requests /\ Current = cmdOf[argv]
    BY ControlAssumption DEF TypeOK, Requests, NoRequest, Current
<1>2. answer' = [answer EXCEPT ![argv] = kind] /\ stray' = stray /\ argv' = NoRequest
    BY DEF Reply
<1> QED
    BY <1>1, <1>2 DEF TypeOK, Unsent, EveryReplyFits, NothingStray, clientVars, Requests

\* The same of a command answered as soon as it is accepted.
LEMMA ReplyToAcceptedFacts ==
    ASSUME TypeOK, Unsent, EveryReplyFits, NothingStray, Accept,
           NEW kind \in Answers, Fits(kind, cmdOf[Head(backlog)]),
           ReplyToAccepted(kind), UNCHANGED <<sent, cmdOf>>
    PROVE  /\ answer' \in [Requests -> Answers] /\ argv' = NoRequest /\ stray' = stray
           /\ Unsent' /\ EveryReplyFits' /\ NothingStray'
<1>1. Head(backlog) \in 1 .. sent /\ Head(backlog) \in Requests /\ argv = NoRequest
    BY AcceptFacts
<1>2. answer' = [answer EXCEPT ![Head(backlog)] = kind] /\ stray' = stray /\ argv' = argv
    BY DEF ReplyToAccepted
<1> QED
    BY <1>1, <1>2 DEF TypeOK, Unsent, EveryReplyFits, NothingStray, clientVars, Requests
-----------------------------------------------------------------------------
LEMMA ReplyInit == Init => ReplyInv
<1> SUFFICES ASSUME Init PROVE ReplyInv
    OBVIOUS
<1>1. stray \in BOOLEAN /\ dirty \in BOOLEAN /\ catchSweep \in BOOLEAN /\ catchSignal \in BOOLEAN
      /\ stopping \in BOOLEAN /\ gpibMsg \in BOOLEAN /\ gpibRunning \in BOOLEAN
    BY Zenon DEF Init
<1>2. TypeOK
    BY <1>1, ControlAssumption
       DEF Init, TypeOK, Requests, NoRequest, AllCommands, Answers, GuiPc, DaqPc, GpibPc
<1> QED
    BY <1>2 DEF Init, ReplyInv, Unsent, ThreadsAt, Owned, GpibBusy, EveryReplyFits, Fits, NothingStray

\* The aborted commands are never forgotten.
LEMMA AbortedGrows ==
    ASSUME [Next]_vars
    PROVE  aborted \subseteq aborted'
BY DEF Next, vars, clientVars, ClientNext, MainLoop, GuiLoop, UserEvent, DaqLoop, DaqPoll, GpibLoop,
       ClientSend, ClientReceive, ClientKilled, MainExecute, MainDefer, MainIdle, MainTest,
       GuiNothing, GuiExecute, GuiDefer, GuiArgumentError, GuiNoCommand, GuiTest, GuiJoin,
       MainSetPage, MainCrash, GuiSetPage, GuiAbort, DaqInit, DaqTest, DaqNoPoll, DaqExecute,
       DaqForward, DaqTriggers, DaqScope, DaqSweeps, DaqLast, DaqExit, GpibTake, GpibQuery,
       GpibReply, GpibTest, ProcessOver

\* Until gpib_send_recv or catch_signal is aborted every step keeps the invariant.
LEMMA ReplyStep ==
    ASSUME ~LateAborted', ReplyInv, [Next]_vars
    PROVE  ReplyInv'
<1> USE ControlAssumption
    DEF ReplyInv, TypeOK, ThreadsAt, Owned, GpibBusy, Current, NoRequest,
        GuiPc, DaqPc, GpibPc, clientVars, serverVars, catchVars, pageVars, gpibVars
<1>1. CASE ClientSend
  <2>1. sent + 1 \in Requests /\ sent' = sent + 1 /\ argv # sent + 1
    BY <1>1 DEF ClientSend, Requests
  <2>2. PICK c \in Commands : cmdOf' = [cmdOf EXCEPT ![sent + 1] = c]
    BY <1>1 DEF ClientSend
  <2>3. backlog' \in Seq(1 .. sent')
    <3>1. backlog \in Seq(1 .. sent') /\ sent' \in 1 .. sent'
        BY <2>1 DEF Requests
    <3> QED
        BY <1>1, <2>1, <3>1, AppendProperties DEF ClientSend
  <2>4. TypeOK'
    BY <1>1, <2>1, <2>2, <2>3 DEF ClientSend, Requests
  <2>5. Unsent' /\ NothingStray'
    BY <1>1, <2>1 DEF ClientSend, Unsent, NothingStray, Requests
  <2>6. EveryReplyFits'
    <3>1. answer[sent + 1] = "none" /\ answer' = answer
        BY <1>1, <2>1 DEF ClientSend, Unsent, Requests
    <3> QED
        BY <2>1, <2>2, <3>1 DEF EveryReplyFits, Fits
  <2>7. Current' = Current
    BY <1>1, <2>1, <2>2 DEF ClientSend, Requests
  <2> QED
    BY <1>1, <2>4, <2>5, <2>6, <2>7 DEF ClientSend
<1>2. CASE ClientReceive
    BY <1>2 DEF ClientReceive, Unsent, EveryReplyFits, NothingStray
<1>3. CASE ClientKilled
    BY <1>3 DEF ClientKilled, Unsent, EveryReplyFits, NothingStray
<1>4. CASE MainExecute
  <2>1. PICK kind \in {"command_error", "gpib", "done"} :
            ReplyToAccepted(kind) /\ Fits(kind, cmdOf[Head(backlog)])
    BY <1>4 DEF MainExecute, Fits, Mask
  <2>2. /\ answer' \in [Requests -> Answers] /\ argv' = NoRequest /\ stray' = stray
        /\ Unsent' /\ EveryReplyFits' /\ NothingStray'
    BY <1>4, <2>1, ReplyToAcceptedFacts DEF MainExecute, Answers
  <2> QED
    BY <1>4, <2>2, AcceptFacts DEF MainExecute
<1>5. CASE MainDefer
    BY <1>5, AcceptFacts DEF MainDefer, Accept, Unsent, EveryReplyFits, NothingStray
<1>6. CASE MainIdle
    BY <1>6 DEF MainIdle, Unsent, EveryReplyFits, NothingStray
<1>7. CASE MainTest
    BY <1>7 DEF MainTest, Unsent, EveryReplyFits, NothingStray
<1>8. CASE GuiNothing
    BY <1>8 DEF GuiNothing, Unsent, EveryReplyFits, NothingStray
<1>9. CASE GuiExecute
  <2>1. PICK kind \in {"command_error", "done"} : Reply(kind) /\ Fits(kind, Current) /\ argv # NoRequest
    BY <1>9 DEF GuiExecute, Fits
  <2>2. /\ answer' \in [Requests -> Answers] /\ argv' = NoRequest /\ stray' = stray
        /\ Unsent' /\ EveryReplyFits' /\ NothingStray'
    BY <1>9, <2>1, ReplyFacts DEF GuiExecute, Answers
  <2>3. dirty' \in BOOLEAN
    BY <1>9, Zenon DEF GuiExecute
  <2>4. page' \in {"setup", "panel", "quit"} /\ stopping' \in BOOLEAN
    BY <1>9 DEF GuiExecute, ChangePage
  <2>5. ~GpibBusy /\ UNCHANGED <<catchVars, daqPc, gpibVars>> /\ dirty' = FALSE
    BY <1>9 DEF GuiExecute
  <2> QED
    BY <1>9, <2>2, <2>3, <2>4, <2>5 DEF GuiExecute, ChangePage
<1>10. CASE GuiDefer
  <2>1. dirty' \in BOOLEAN /\ catchSweep' \in BOOLEAN /\ catchSignal' \in BOOLEAN
        /\ gpibMsg' \in BOOLEAN
    BY <1>10, Zenon DEF GuiDefer
  <2>2. TypeOK' /\ Unsent' /\ EveryReplyFits' /\ NothingStray'
    BY <1>10, <2>1 DEF GuiDefer, Unsent, EveryReplyFits, NothingStray
  <2>3. ThreadsAt'
    BY <1>10 DEF GuiDefer
  <2>4. CASE Current = "catch_sweep"
    BY <1>10, <2>4, <2>2, <2>3 DEF GuiDefer
  <2>5. CASE Current = "catch_signal"
    BY <1>10, <2>5, <2>2, <2>3 DEF GuiDefer
  <2>6. CASE Current \in {"catch_scan_start", "catch_scan_finish"}
    BY <1>10, <2>6, <2>2, <2>3 DEF GuiDefer
  <2>7. CASE Current = "gpib_send_recv"
    BY <1>10, <2>7, <2>2, <2>3 DEF GuiDefer
  <2>8. Current \in {"catch_sweep", "catch_signal", "catch_scan_start", "catch_scan_finish",
                     "gpib_send_recv"}
    BY <1>10, Zenon DEF GuiDefer
  <2> QED
    BY <2>2, <2>3, <2>4, <2>5, <2>6, <2>7, <2>8
<1>11. CASE GuiArgumentError
  <2>1. PICK kind \in {"argument_error"} : Reply(kind) /\ Fits(kind, Current) /\ argv # NoRequest
    BY <1>11 DEF GuiArgumentError, Fits
  <2>2. /\ answer' \in [Requests -> Answers] /\ argv' = NoRequest /\ stray' = stray
        /\ Unsent' /\ EveryReplyFits' /\ NothingStray'
    BY <1>11, <2>1, ReplyFacts DEF GuiArgumentError, Answers
  <2>3. dirty' \in BOOLEAN
    BY <1>11, Zenon DEF GuiArgumentError
  <2> QED
    BY <1>11, <2>2, <2>3 DEF GuiArgumentError
<1>12. CASE GuiNoCommand
    BY <1>12 DEF GuiNoCommand, Unsent, EveryReplyFits, NothingStray
<1>13. CASE GuiTest
    BY <1>13 DEF GuiTest, Unsent, EveryReplyFits, NothingStray
<1>14. CASE GuiJoin
    BY <1>14 DEF GuiJoin, Unsent, EveryReplyFits, NothingStray
<1>15. CASE MainSetPage
    BY <1>15 DEF MainSetPage, Unsent, EveryReplyFits, NothingStray
<1>16. CASE MainCrash
    BY <1>16 DEF MainCrash, Unsent, EveryReplyFits, NothingStray
<1>17. CASE GuiSetPage
    BY <1>17 DEF GuiSetPage, Unsent, EveryReplyFits, NothingStray
<1>18. CASE DaqInit
    BY <1>18 DEF DaqInit, DaqGoto, Unsent, EveryReplyFits, NothingStray
<1>19. CASE DaqTest
    BY <1>19 DEF DaqTest, DaqGoto, Unsent, EveryReplyFits, NothingStray
<1>20. CASE DaqNoPoll
    BY <1>20 DEF DaqNoPoll, DaqGoto, Unsent, EveryReplyFits, NothingStray
<1>21. CASE DaqExecute
  <2>1. Accept /\ ReplyToAccepted("done") /\ Fits("done", cmdOf[Head(backlog)])
    BY <1>21 DEF DaqExecute, Fits, Mask
  <2>2. /\ answer' \in [Requests -> Answers] /\ argv' = NoRequest /\ stray' = stray
        /\ Unsent' /\ EveryReplyFits' /\ NothingStray'
    BY <1>21, <2>1, ReplyToAcceptedFacts DEF DaqExecute, Answers
  <2>3. dirty' \in BOOLEAN
    BY <1>21, Zenon DEF DaqExecute
  <2> QED
    BY <1>21, <2>1, <2>2, <2>3, AcceptFacts DEF DaqExecute, DaqGoto
<1>22. CASE DaqForward
    BY <1>22, AcceptFacts DEF DaqForward, Accept, DaqGoto, Unsent, EveryReplyFits,
       NothingStray
<1>23. CASE DaqTriggers
  <2>1. CASE UNCHANGED <<serverVars, catchSignal>>
    BY <1>23, <2>1 DEF DaqTriggers, DaqGoto, Unsent, EveryReplyFits, NothingStray
  <2>2. CASE ~ UNCHANGED <<serverVars, catchSignal>>
    <3>1. PICK kind \in {"signal"} : Reply(kind) /\ Fits(kind, Current) /\ argv # NoRequest
        BY <1>23, <2>2 DEF DaqTriggers, Fits
    <3>2. /\ answer' \in [Requests -> Answers] /\ argv' = NoRequest /\ stray' = stray
          /\ Unsent' /\ EveryReplyFits' /\ NothingStray'
        BY <1>23, <3>1, ReplyFacts DEF DaqTriggers, Answers
    <3>3. catchSignal' \in BOOLEAN
        BY <1>23, <2>2, Zenon DEF DaqTriggers, serverVars
    <3> QED
        BY <1>23, <2>2, <3>1, <3>2, <3>3 DEF DaqTriggers, DaqGoto
  <2> QED
    BY <2>1, <2>2
<1>24. CASE DaqScope
  <2>1. CASE UNCHANGED <<serverVars>>
    BY <1>24, <2>1 DEF DaqScope, DaqGoto, Unsent, EveryReplyFits, NothingStray
  <2>2. CASE ~ UNCHANGED <<serverVars>>
    <3>1. PICK kind \in {"catch_scan_start", "catch_scan_finish"} : Reply(kind) /\ Fits(kind, Current) /\ argv # NoRequest
        BY <1>24, <2>2 DEF DaqScope, ScanEvent, Fits
    <3>2. /\ answer' \in [Requests -> Answers] /\ argv' = NoRequest /\ stray' = stray
          /\ Unsent' /\ EveryReplyFits' /\ NothingStray'
        BY <1>24, <3>1, ReplyFacts DEF DaqScope, Answers
    <3> QED
        BY <1>24, <2>2, <3>1, <3>2 DEF DaqScope, DaqGoto, ScanEvent
  <2> QED
    BY <2>1, <2>2
<1>25. CASE DaqSweeps
  <2>1. CASE UNCHANGED <<serverVars, catchSweep>>
    BY <1>25, <2>1 DEF DaqSweeps, DaqGoto, Unsent, EveryReplyFits, NothingStray
  <2>2. CASE ~ UNCHANGED <<serverVars, catchSweep>>
    <3>1. PICK kind \in {"sweep"} : Reply(kind) /\ Fits(kind, Current) /\ argv # NoRequest
        BY <1>25, <2>2 DEF DaqSweeps, Fits
    <3>2. /\ answer' \in [Requests -> Answers] /\ argv' = NoRequest /\ stray' = stray
          /\ Unsent' /\ EveryReplyFits' /\ NothingStray'
        BY <1>25, <3>1, ReplyFacts DEF DaqSweeps, Answers
    <3>3. catchSweep' \in BOOLEAN
        BY <1>25, <2>2, Zenon DEF DaqSweeps, serverVars
    <3> QED
        BY <1>25, <2>2, <3>1, <3>2, <3>3 DEF DaqSweeps, DaqGoto
  <2> QED
    BY <2>1, <2>2
<1>26. CASE DaqLast
  <2>0. gpibRunning' \in BOOLEAN
    BY <1>26, Zenon DEF DaqLast
  <2>1. CASE UNCHANGED <<serverVars>>
    BY <1>26, <2>1, <2>0 DEF DaqLast, DaqGoto, Unsent, EveryReplyFits, NothingStray
  <2>2. CASE ~ UNCHANGED <<serverVars>>
    <3>1. PICK kind \in {"catch_scan_finish"} : Reply(kind) /\ Fits(kind, Current) /\ argv # NoRequest
        BY <1>26, <2>2 DEF DaqLast, ScanEvent, Fits
    <3>2. /\ answer' \in [Requests -> Answers] /\ argv' = NoRequest /\ stray' = stray
          /\ Unsent' /\ EveryReplyFits' /\ NothingStray'
        BY <1>26, <3>1, ReplyFacts DEF DaqLast, Answers
    <3> QED
        BY <1>26, <2>2, <3>1, <3>2, <2>0 DEF DaqLast, DaqGoto, ScanEvent
  <2> QED
    BY <2>1, <2>2
<1>27. CASE DaqExit
    BY <1>27 DEF DaqExit, DaqGoto, Unsent, EveryReplyFits, NothingStray
<1>28. CASE GpibTake
  <2>1. gpibMsg' \in BOOLEAN
    BY <1>28, Zenon DEF GpibTake
  <2> QED
    BY <1>28, <2>1 DEF GpibTake, Unsent, EveryReplyFits, NothingStray
<1>29. CASE GpibQuery
    BY <1>29 DEF GpibQuery, Unsent, EveryReplyFits, NothingStray
<1>30. CASE GpibReply
  <2>1. PICK kind \in {"gpib"} : Reply(kind) /\ Fits(kind, Current) /\ argv # NoRequest
    BY <1>30 DEF GpibReply, Fits
  <2>2. /\ answer' \in [Requests -> Answers] /\ argv' = NoRequest /\ stray' = stray
        /\ Unsent' /\ EveryReplyFits' /\ NothingStray'
    BY <1>30, <2>1, ReplyFacts DEF GpibReply, Answers
  <2> QED
    BY <1>30, <2>2 DEF GpibReply
<1>31. CASE GpibTest
    BY <1>31 DEF GpibTest, Unsent, EveryReplyFits, NothingStray
<1>32. CASE ProcessOver
    BY <1>32 DEF ProcessOver, vars, Unsent, EveryReplyFits, NothingStray
<1>33. CASE UNCHANGED vars
    BY <1>33 DEF vars, Unsent, EveryReplyFits, NothingStray
<1>34. CASE GuiAbort
  <2>1. PICK kind \in {"abort"} : Reply(kind) /\ Fits(kind, Current) /\ argv # NoRequest
    BY <1>34 DEF GuiAbort, Fits
  <2>2. /\ answer' \in [Requests -> Answers] /\ argv' = NoRequest /\ stray' = stray
        /\ Unsent' /\ EveryReplyFits' /\ NothingStray'
    BY <1>34, <2>1, ReplyFacts DEF GuiAbort, Answers
  <2>3. Current \in Commands /\ aborted' = aborted \cup {Current}
    BY <1>34, <2>1 DEF GuiAbort
  <2>4. Current \notin {"gpib_send_recv", "catch_signal"}
    BY <2>3 DEF LateAborted
  <2>5. catchSweep' \in BOOLEAN
    BY <1>34, Zenon DEF GuiAbort
  <2> QED
    BY <1>34, <2>2, <2>3, <2>4, <2>5 DEF GuiAbort
<1> QED
    BY <1>1, <1>2, <1>3, <1>4, <1>5, <1>6, <1>7, <1>8, <1>9, <1>10, <1>11, <1>12,
       <1>13, <1>14, <1>15, <1>16, <1>17, <1>18, <1>19, <1>20, <1>21, <1>22, <1>23,
       <1>24, <1>25, <1>26, <1>27, <1>28, <1>29, <1>30, <1>31, <1>32, <1>33, <1>34
       DEF Next, ClientNext, MainLoop, GuiLoop, UserEvent, DaqLoop, DaqPoll,
       GpibLoop

\* The invariant behind both theorems.
LEMMA ControlStep ==
    ASSUME ControlInv, [Next]_vars
    PROVE  ControlInv'
<1>1. CASE LateAborted
    BY <1>1, AbortedGrows DEF ControlInv, LateAborted
<1>2. CASE ~LateAborted
    BY <1>2, ReplyStep DEF ControlInv
<1> QED
    BY <1>1, <1>2

\* However many requests and terminals there are, whatever the order of the
\* threads and whichever other commands are aborted: each reply belongs to the
\* command it is sent to (server.c, run_gpib_thread, emit_signal_csf,
\* run_sweep_response), and none is sent when no command is in progress.
THEOREM RepliesFit == Spec => []RightReply
<1>1. ControlInv => RightReply
    BY DEF ControlInv, ReplyInv, RightReply
<1>2. Init => ControlInv
    BY ReplyInit DEF ControlInv
<1>3. ControlInv /\ [Next]_vars => ControlInv'
    BY ControlStep
<1> QED
    BY <1>1, <1>2, <1>3, PTL DEF Spec
-----------------------------------------------------------------------------
\* The scan commands sent are never forgotten.
LEMMA ScansRemembered ==
    ASSUME ReplyInv, [Next]_vars, NEW r \in 1 .. sent, cmdOf[r] \in ScanCommands
    PROVE  \E q \in 1 .. sent' : cmdOf'[q] \in ScanCommands
<1>1. sent \in Nat /\ r \in Requests /\ cmdOf \in [Requests -> AllCommands]
    BY ControlAssumption DEF ReplyInv, TypeOK, Requests
<1>2. CASE ClientSend
  <2>1. r \in 1 .. sent' /\ r # sent + 1
    BY <1>1, <1>2 DEF ClientSend
  <2>2. cmdOf'[r] = cmdOf[r]
    BY <1>1, <1>2, <2>1 DEF ClientSend
  <2> QED
    BY <2>1, <2>2
<1>3. CASE UNCHANGED <<sent, cmdOf>>
    BY <1>3
<1>4. ClientSend \/ UNCHANGED <<sent, cmdOf>>
    BY DEF Next, vars, clientVars, ClientNext, MainLoop, GuiLoop, UserEvent, DaqLoop, DaqPoll, GpibLoop,
       ClientReceive, ClientKilled, MainExecute, MainDefer, MainIdle, MainTest,
       GuiNothing, GuiExecute, GuiDefer, GuiArgumentError, GuiNoCommand, GuiTest, GuiJoin,
       MainSetPage, MainCrash, GuiSetPage, GuiAbort, DaqInit, DaqTest, DaqNoPoll, DaqExecute,
       DaqForward, DaqTriggers, DaqScope, DaqSweeps, DaqLast, DaqExit, GpibTake, GpibQuery,
       GpibReply, GpibTest, ProcessOver
<1> QED
    BY <1>2, <1>3, <1>4

\* As long as nothing is aborted and no client waits for a scan event, the GUI
\* thread finds the command which terminal_dirty announces.
LEMMA DirtyStep ==
    ASSUME aborted' = {}, aborted = {},
           \A r \in 1 .. sent : cmdOf[r] \notin ScanCommands,
           ReplyInv, dirty => argv # NoRequest, [Next]_vars
    PROVE  dirty' => argv' # NoRequest
<1>1. Current \notin {"catch_scan_start", "catch_scan_finish"}
    BY ControlAssumption DEF ReplyInv, TypeOK, Current, NoRequest, ScanCommands
<1>2. argv \in 0 .. sent /\ sent \in Nat
    BY ControlAssumption DEF ReplyInv, TypeOK
<1> USE <1>1, <1>2
    DEF ReplyInv, Owned, GpibBusy, Current, NoRequest,
        serverVars, catchVars, gpibVars
<1>3. CASE ClientSend
    BY <1>3 DEF ClientSend
<1>4. CASE ClientReceive
    BY <1>4 DEF ClientReceive
<1>5. CASE ClientKilled
    BY <1>5 DEF ClientKilled
<1>6. CASE MainExecute
    BY <1>6 DEF MainExecute, Accept, ReplyToAccepted
<1>7. CASE MainDefer
    BY <1>7, AcceptFacts DEF MainDefer, Accept
<1>8. CASE MainIdle
    BY <1>8 DEF MainIdle
<1>9. CASE MainTest
    BY <1>9 DEF MainTest
<1>10. CASE GuiNothing
    BY <1>10 DEF GuiNothing
<1>11. CASE GuiExecute
    BY <1>11 DEF GuiExecute, ChangePage, Reply
<1>12. CASE GuiDefer
    BY <1>12 DEF GuiDefer
<1>13. CASE GuiArgumentError
    BY <1>13 DEF GuiArgumentError, Reply
<1>14. CASE GuiNoCommand
    BY <1>14 DEF GuiNoCommand
<1>15. CASE GuiTest
    BY <1>15 DEF GuiTest
<1>16. CASE GuiJoin
    BY <1>16 DEF GuiJoin
<1>17. CASE MainSetPage
    BY <1>17 DEF MainSetPage
<1>18. CASE MainCrash
    BY <1>18 DEF MainCrash
<1>19. CASE GuiSetPage
    BY <1>19 DEF GuiSetPage
<1>20. CASE DaqInit
    BY <1>20 DEF DaqInit, DaqGoto
<1>21. CASE DaqTest
    BY <1>21 DEF DaqTest, DaqGoto
<1>22. CASE DaqNoPoll
    BY <1>22 DEF DaqNoPoll, DaqGoto
<1>23. CASE DaqExecute
    BY <1>23 DEF DaqExecute, DaqGoto, Accept, ReplyToAccepted
<1>24. CASE DaqForward
    BY <1>24, AcceptFacts DEF DaqForward, Accept, DaqGoto
<1>25. CASE DaqTriggers
    BY <1>25 DEF DaqTriggers, DaqGoto, Reply
<1>26. CASE DaqScope
    BY <1>26 DEF DaqScope, DaqGoto, Reply, ScanEvent
<1>27. CASE DaqSweeps
    BY <1>27 DEF DaqSweeps, DaqGoto, Reply
<1>28. CASE DaqLast
    BY <1>28 DEF DaqLast, DaqGoto, Reply, ScanEvent
<1>29. CASE DaqExit
    BY <1>29 DEF DaqExit, DaqGoto
<1>30. CASE GpibTake
    BY <1>30 DEF GpibTake
<1>31. CASE GpibQuery
    BY <1>31 DEF GpibQuery
<1>32. CASE GpibReply
    BY <1>32 DEF GpibReply, Reply
<1>33. CASE GpibTest
    BY <1>33 DEF GpibTest
<1>34. CASE ProcessOver
    BY <1>34 DEF ProcessOver, vars
<1>35. CASE UNCHANGED vars
    BY <1>35 DEF vars
<1>36. ~GuiAbort
    BY DEF GuiAbort
<1> QED
    BY <1>3, <1>4, <1>5, <1>6, <1>7, <1>8, <1>9, <1>10, <1>11, <1>12, <1>13, <1>14,
       <1>15, <1>16, <1>17, <1>18, <1>19, <1>20, <1>21, <1>22, <1>23, <1>24, <1>25,
       <1>26, <1>27, <1>28, <1>29, <1>30, <1>31, <1>32, <1>33, <1>34, <1>35, <1>36
       DEF Next, ClientNext, MainLoop, GuiLoop, UserEvent, DaqLoop, DaqPoll,
       GpibLoop

\* The same as a property of the specification: whatever takes the command away
\* before the GUI thread has executed it is an abort or a scan event.
THEOREM DirtySafe == Spec => []DirtyHasCommand
<1> DEFINE Inv == (aborted = {} => ReplyInv) /\ DirtyHasCommand
<1>1. Init => Inv
    BY ReplyInit DEF Init, DirtyHasCommand
<1>2. Inv /\ [Next]_vars => Inv'
  <2> SUFFICES ASSUME Inv, [Next]_vars, aborted' = {}
               PROVE  /\ ReplyInv'
                      /\ dirty' /\ argv' = NoRequest
                             => \E r \in 1 .. sent' : cmdOf'[r] \in ScanCommands
    BY DEF DirtyHasCommand
  <2>1. aborted = {} /\ ReplyInv
    BY AbortedGrows
  <2>2. ReplyInv'
    BY <2>1, ReplyStep DEF LateAborted
  <2>3. CASE \E r \in 1 .. sent : cmdOf[r] \in ScanCommands
    BY <2>1, <2>2, <2>3, ScansRemembered
  <2>4. CASE \A r \in 1 .. sent : cmdOf[r] \notin ScanCommands
    <3>1. dirty => argv # NoRequest
        BY <2>1, <2>4 DEF DirtyHasCommand
    <3> QED
        BY <2>1, <2>2, <2>4, <3>1, DirtyStep
  <2> QED
    BY <2>2, <2>3, <2>4
<1> QED
    BY <1>1, <1>2, PTL DEF Spec
-----------------------------------------------------------------------------
(* Locks: what is left of a path, and what a thread holds, as a set of      *)
(* places which legal steps do not leave.                                   *)

\* The steps of paths, and what a thread holds with what is left of its path.
Shared == {"runlevels", "sweep blocked", "dir", "limits", "scope blocked", "timescale", "points",
           "percent", "triggers", "slots", "message", "readings", "settings", "command", "pid",
           "board"}
Steps == [do : {"lock", "try", "unlock", "read", "write"}, what : Mutexes \cup Shared, skip : Nat]
Places == [held : SUBSET Mutexes, rest : Seq(Steps)]

After(H, s) ==
    CASE s.do \in {"lock", "try"} -> H \cup {s.what}
      [] s.do = "unlock" -> H \ {s.what}
      [] OTHER -> H

\* A set of places which thread t does not leave on a path n until it has come to the
\* end of the path, holding E: each step from each of them is legal.
Closed(t, n, E, Z) ==
    \A c \in Z :
       IF c.rest = <<>> THEN c.held = E
       ELSE /\ Legal(t, n, c.held, Head(c.rest))
            /\ [held |-> After(c.held, Head(c.rest)), rest |-> Tail(c.rest)] \in Z
            /\ Head(c.rest).do = "try" =>
                  /\ Head(c.rest).skip + 1 \in 1 .. Len(c.rest)
                  /\ [held |-> c.held,
                      rest |-> SubSeq(c.rest, Head(c.rest).skip + 2, Len(c.rest))] \in Z

\* The path s takes a thread from H held to E held.
Runs(t, n, H, s, E) ==
    \E Z \in SUBSET Places : Closed(t, n, E, Z) /\ [held |-> H, rest |-> s] \in Z

\* What is left of a path after a step runs, too.
LEMMA RunsOn ==
    ASSUME NEW t, NEW n, NEW H, NEW s, NEW E, Runs(t, n, H, s, E), s # <<>>
    PROVE  /\ Legal(t, n, H, Head(s))
           /\ Runs(t, n, After(H, Head(s)), Tail(s), E)
           /\ Head(s).do = "try" => Runs(t, n, H, SubSeq(s, Head(s).skip + 2, Len(s)), E)
<1>1. PICK Z \in SUBSET Places : Closed(t, n, E, Z) /\ [held |-> H, rest |-> s] \in Z
    BY DEF Runs
<1>2. /\ Legal(t, n, H, Head(s))
      /\ [held |-> After(H, Head(s)), rest |-> Tail(s)] \in Z
      /\ Head(s).do = "try" => [held |-> H, rest |-> SubSeq(s, Head(s).skip + 2, Len(s))] \in Z
    BY <1>1 DEF Closed
<1> QED
    BY <1>1, <1>2 DEF Runs

LEMMA RunsOut ==
    ASSUME NEW t, NEW n, NEW H, NEW E, Runs(t, n, H, <<>>, E)
    PROVE  H = E
BY DEF Runs, Closed

LEMMA RunsType ==
    ASSUME NEW t, NEW n, NEW H, NEW s, NEW E, Runs(t, n, H, s, E)
    PROVE  H \in SUBSET Mutexes /\ s \in Seq(Steps)
BY DEF Runs, Places

LEMMA RunsNothing ==
    ASSUME NEW t, NEW n, NEW H \in SUBSET Mutexes
    PROVE  Runs(t, n, H, <<>>, H)
<1> DEFINE Z == {[held |-> H, rest |-> <<>>]}
<1>1. Z \in SUBSET Places
    BY DEF Places
<1>2. Closed(t, n, H, Z)
    BY DEF Closed
<1> QED
    BY <1>1, <1>2 DEF Runs

\* One step, but for mt_mutex_trylock.
LEMMA RunsOne ==
    ASSUME NEW t, NEW n, NEW H \in SUBSET Mutexes, NEW s \in Steps,
           Legal(t, n, H, s), s.do # "try"
    PROVE  Runs(t, n, H, <<s>>, After(H, s))
<1> DEFINE Z == {[held |-> H, rest |-> <<s>>], [held |-> After(H, s), rest |-> <<>>]}
<1>1. After(H, s) \in SUBSET Mutexes
    BY DEF After, Legal
<1>2. Head(<<s>>) = s /\ Tail(<<s>>) = <<>> /\ <<s>> # <<>> /\ <<s>> \in Seq(Steps)
    OBVIOUS
<1>3. Z \in SUBSET Places
    BY <1>1, <1>2 DEF Places
<1>4. Closed(t, n, After(H, s), Z)
    BY <1>2 DEF Closed
<1> QED
    BY <1>3, <1>4 DEF Runs

\* The parts of a sequence which another is appended to.
LEMMA CatParts ==
    ASSUME NEW a \in Seq(Steps), NEW b \in Seq(Steps), a # <<>>
    PROVE  /\ a \o b \in Seq(Steps) /\ a \o b # <<>>
           /\ Head(a \o b) = Head(a) /\ Tail(a \o b) = Tail(a) \o b
           /\ Len(a \o b) = Len(a) + Len(b)
OBVIOUS

LEMMA CatRest ==
    ASSUME NEW a \in Seq(Steps), NEW b \in Seq(Steps), NEW k \in 1 .. Len(a)
    PROVE  SubSeq(a \o b, k + 1, Len(a \o b)) = SubSeq(a, k + 1, Len(a)) \o b
<1>1. Len(a) \in Nat /\ Len(b) \in Nat /\ Len(a \o b) = Len(a) + Len(b)
    OBVIOUS
<1> DEFINE r == SubSeq(a, k + 1, Len(a))
           w == SubSeq(a \o b, k + 1, Len(a \o b))
<1>2. r \in Seq(Steps) /\ Len(r) = Len(a) - k /\ \A i \in 1 .. (Len(a) - k) : r[i] = a[k + i]
    BY <1>1
<1>3. w \in Seq(Steps) /\ Len(w) = Len(a) + Len(b) - k
    BY <1>1
<1>4. \A i \in 1 .. (Len(a) + Len(b) - k) : w[i] = (a \o b)[k + i]
    BY <1>1
<1>5. r \o b \in Seq(Steps) /\ Len(r \o b) = Len(a) + Len(b) - k
    BY <1>1, <1>2
<1>6. ASSUME NEW i \in 1 .. (Len(a) + Len(b) - k)
      PROVE  w[i] = (r \o b)[i]
  <2>1. CASE i <= Len(a) - k
    BY <1>1, <1>2, <1>4, <2>1
  <2>2. CASE i > Len(a) - k
    BY <1>1, <1>2, <1>4, <2>2
  <2> QED
    BY <1>1, <2>1, <2>2
<1> HIDE DEF r, w
<1>7. w = r \o b
    BY <1>3, <1>5, <1>6, SeqEqual
<1> QED
    BY <1>7 DEF r, w

LEMMA CatNone ==
    ASSUME NEW b \in Seq(Steps)
    PROVE  <<>> \o b = b
OBVIOUS

\* One path after another.
LEMMA RunsCat ==
    ASSUME NEW t, NEW n, NEW H, NEW a, NEW E, NEW b, NEW F,
           Runs(t, n, H, a, E), Runs(t, n, E, b, F)
    PROVE  Runs(t, n, H, a \o b, F)
<1>1. PICK Y \in SUBSET Places : Closed(t, n, E, Y) /\ [held |-> H, rest |-> a] \in Y
    BY DEF Runs
<1>2. PICK X \in SUBSET Places : Closed(t, n, F, X) /\ [held |-> E, rest |-> b] \in X
    BY DEF Runs
<1> DEFINE With(c) == [held |-> c.held, rest |-> c.rest \o b]
           Z == {With(c) : c \in Y} \cup X
<1>3. b \in Seq(Steps)
    BY <1>2 DEF Places
<1>4. Z \in SUBSET Places
  <2> SUFFICES ASSUME NEW c \in Y PROVE With(c) \in Places
    BY <1>2
  <2>1. c.held \in SUBSET Mutexes /\ c.rest \in Seq(Steps)
    BY <1>1 DEF Places
  <2>2. c.rest \o b \in Seq(Steps)
    BY <1>3, <2>1
  <2> QED
    BY <2>1, <2>2 DEF Places
<1>5. ASSUME NEW c \in Y, c.rest = <<>> PROVE With(c) \in X
    BY <1>1, <1>2, <1>3, <1>5, CatNone DEF Closed
<1>6. ASSUME NEW c \in Y, c.rest # <<>>
      PROVE  LET d == With(c)
             IN  /\ d.rest # <<>>
                 /\ Legal(t, n, d.held, Head(d.rest))
                 /\ [held |-> After(d.held, Head(d.rest)), rest |-> Tail(d.rest)] \in Z
                 /\ Head(d.rest).do = "try" =>
                      /\ Head(d.rest).skip + 1 \in 1 .. Len(d.rest)
                      /\ [held |-> d.held,
                          rest |-> SubSeq(d.rest, Head(d.rest).skip + 2, Len(d.rest))] \in Z
  <2>1. c.rest \in Seq(Steps) /\ c.held \in SUBSET Mutexes
    BY <1>1 DEF Places
  <2>2. /\ c.rest \o b # <<>> /\ Head(c.rest \o b) = Head(c.rest)
        /\ Tail(c.rest \o b) = Tail(c.rest) \o b /\ Len(c.rest \o b) = Len(c.rest) + Len(b)
    BY <1>3, <1>6, <2>1, CatParts
  <2>3. Legal(t, n, c.held, Head(c.rest))
        /\ [held |-> After(c.held, Head(c.rest)), rest |-> Tail(c.rest)] \in Y
    BY <1>1, <1>6 DEF Closed
  <2>4. With([held |-> After(c.held, Head(c.rest)), rest |-> Tail(c.rest)]) \in Z
    BY <2>3
  <2>5. ASSUME Head(c.rest).do = "try"
        PROVE  /\ Head(c.rest).skip + 1 \in 1 .. Len(c.rest \o b)
               /\ [held |-> c.held,
                   rest |-> SubSeq(c.rest \o b, Head(c.rest).skip + 2, Len(c.rest \o b))] \in Z
    <3>1. /\ Head(c.rest).skip + 1 \in 1 .. Len(c.rest)
          /\ [held |-> c.held,
              rest |-> SubSeq(c.rest, Head(c.rest).skip + 2, Len(c.rest))] \in Y
      BY <1>1, <1>6, <2>5 DEF Closed
    <3>2. With([held |-> c.held,
                rest |-> SubSeq(c.rest, Head(c.rest).skip + 2, Len(c.rest))]) \in Z
      BY <3>1
    <3>3. Head(c.rest).skip \in Nat /\ Len(b) \in Nat /\ Len(c.rest) \in Nat
      <4>1. Head(c.rest) \in Steps
        BY <1>6, <2>1, HeadTailProperties
      <4> QED
        BY <1>3, <2>1, <4>1 DEF Steps
    <3>4. PICK k \in {Head(c.rest).skip + 1} : TRUE
      OBVIOUS
    <3>5. k \in 1 .. Len(c.rest) /\ k + 1 = Head(c.rest).skip + 2
      BY <3>1, <3>3, <3>4
    <3>6. SubSeq(c.rest \o b, k + 1, Len(c.rest \o b)) = SubSeq(c.rest, k + 1, Len(c.rest)) \o b
      BY <1>3, <2>1, <3>5, CatRest
    <3>7. SubSeq(c.rest \o b, Head(c.rest).skip + 2, Len(c.rest \o b))
          = SubSeq(c.rest, Head(c.rest).skip + 2, Len(c.rest)) \o b
      BY <3>5, <3>6
    <3>8. Head(c.rest).skip + 1 \in 1 .. Len(c.rest \o b)
      BY <2>2, <3>1, <3>3
    <3> QED
      BY <3>2, <3>7, <3>8
  <2> QED
    BY <2>2, <2>3, <2>4, <2>5
<1>7. Closed(t, n, F, Z)
  <2> SUFFICES ASSUME NEW d \in Z
               PROVE  IF d.rest = <<>> THEN d.held = F
                      ELSE /\ Legal(t, n, d.held, Head(d.rest))
                           /\ [held |-> After(d.held, Head(d.rest)), rest |-> Tail(d.rest)] \in Z
                           /\ Head(d.rest).do = "try" =>
                                /\ Head(d.rest).skip + 1 \in 1 .. Len(d.rest)
                                /\ [held |-> d.held,
                                    rest |-> SubSeq(d.rest, Head(d.rest).skip + 2, Len(d.rest))] \in Z
    BY DEF Closed
  <2>1. CASE d \in X
    BY <1>2, <2>1 DEF Closed
  <2>2. CASE \E c \in Y : d = With(c)
    <3>1. PICK c \in Y : d = With(c)
      BY <2>2
    <3>2. CASE c.rest = <<>>
      BY <1>2, <1>5, <3>1, <3>2 DEF Closed
    <3>3. CASE c.rest # <<>>
      BY <1>6, <3>1, <3>3
    <3> QED
      BY <3>2, <3>3
  <2> QED
    BY <2>1, <2>2
<1>8. [held |-> H, rest |-> a \o b] \in Z
  <2>1. With([held |-> H, rest |-> a]) \in Z
    BY <1>1
  <2> QED
    BY <2>1
<1> QED
    BY <1>4, <1>7, <1>8 DEF Runs
-----------------------------------------------------------------------------
(* Sets of paths which begin and end with H held.                           *)

Keep(t, n, H, A) == \A a \in A : Runs(t, n, H, a, H)

\* A thread which holds H may wait for m.
Free(t, n, H, m) == m \in Mutexes \ H /\ \A h \in H : MayWait(t, n, h, m)

LEMMA KeepNothing ==
    ASSUME NEW t, NEW n, NEW H \in SUBSET Mutexes
    PROVE  Keep(t, n, H, Nothing)
BY RunsNothing DEF Keep, Nothing

LEMMA KeepTouch ==
    ASSUME NEW t, NEW n, NEW H \in SUBSET Mutexes, NEW r \in Shared,
           MutexOf(r) \in H \/ Bare(t, n, r)
    PROVE  Keep(t, n, H, Reads(r)) /\ Keep(t, n, H, Writes(r))
<1> DEFINE R == Step("read", r)
           W == Step("write", r)
<1>1. R \in Steps /\ W \in Steps /\ R.do = "read" /\ W.do = "write" /\ R.what = r /\ W.what = r
    BY DEF Step, Steps
<1>2. Legal(t, n, H, R) /\ Legal(t, n, H, W) /\ After(H, R) = H /\ After(H, W) = H
    BY <1>1 DEF Legal, After
<1> HIDE DEF R, W
<1>3. Runs(t, n, H, <<R>>, H) /\ Runs(t, n, H, <<W>>, H)
  <2>1. Runs(t, n, H, <<R>>, After(H, R)) /\ Runs(t, n, H, <<W>>, After(H, W))
    BY <1>1, <1>2, RunsOne
  <2> QED
    BY <1>2, <2>1
<1> QED
    BY <1>3 DEF Keep, Reads, Writes, R, W

LEMMA KeepSeq2 ==
    ASSUME NEW t, NEW n, NEW H, NEW A, NEW B, Keep(t, n, H, A), Keep(t, n, H, B)
    PROVE  Keep(t, n, H, Seq2(A, B))
<1> SUFFICES ASSUME NEW p \in Seq2(A, B) PROVE Runs(t, n, H, p, H)
    BY DEF Keep
<1> PICK a \in A, b \in B : p = a \o b
    BY DEF Seq2
<1>1. Runs(t, n, H, a, H) /\ Runs(t, n, H, b, H)
    BY DEF Keep
<1> QED
    BY <1>1, RunsCat

LEMMA KeepSeq3 ==
    ASSUME NEW t, NEW n, NEW H, NEW A, NEW B, NEW C,
           Keep(t, n, H, A), Keep(t, n, H, B), Keep(t, n, H, C)
    PROVE  Keep(t, n, H, Seq3(A, B, C))
BY KeepSeq2 DEF Seq3

LEMMA KeepUnion ==
    ASSUME NEW t, NEW n, NEW H, NEW A, NEW B, Keep(t, n, H, A), Keep(t, n, H, B)
    PROVE  Keep(t, n, H, A \cup B)
BY DEF Keep

\* Mutexes taken and released.
LEMMA RunsLock ==
    ASSUME NEW t, NEW n, NEW H \in SUBSET Mutexes, NEW m, Free(t, n, H, m)
    PROVE  Runs(t, n, H, <<Lock(m)>>, H \cup {m})
<1> DEFINE L == Lock(m)
<1>1. L \in Steps /\ L.do = "lock" /\ L.what = m /\ m \in Mutexes \ H
    BY DEF Free, Lock, Step, Steps
<1>2. Legal(t, n, H, L) /\ After(H, L) = H \cup {m}
    BY <1>1 DEF Legal, After, Free
<1> HIDE DEF L
<1>3. Runs(t, n, H, <<L>>, After(H, L))
    BY <1>1, <1>2, RunsOne
<1> QED
    BY <1>2, <1>3 DEF L

LEMMA RunsUnlock ==
    ASSUME NEW t, NEW n, NEW H \in SUBSET Mutexes, NEW m \in H
    PROVE  Runs(t, n, H, <<Unlock(m)>>, H \ {m})
<1> DEFINE U == Unlock(m)
<1>1. U \in Steps /\ U.do = "unlock" /\ U.what = m
    BY DEF Unlock, Step, Steps
<1>2. Legal(t, n, H, U) /\ After(H, U) = H \ {m}
    BY <1>1 DEF Legal, After
<1> HIDE DEF U
<1>3. Runs(t, n, H, <<U>>, After(H, U))
    BY <1>1, <1>2, RunsOne
<1> QED
    BY <1>2, <1>3 DEF U

LEMMA KeepWithin ==
    ASSUME NEW t, NEW n, NEW H \in SUBSET Mutexes, NEW m, NEW A,
           Free(t, n, H, m), Keep(t, n, H \cup {m}, A)
    PROVE  Keep(t, n, H, Within(m, A))
<1>1. m \in Mutexes \ H /\ H \cup {m} \in SUBSET Mutexes /\ (H \cup {m}) \ {m} = H
    BY DEF Free
<1>2. Runs(t, n, H, <<Lock(m)>>, H \cup {m})
    BY RunsLock
<1>3. Runs(t, n, H \cup {m}, <<Unlock(m)>>, H)
  <2>1. Runs(t, n, H \cup {m}, <<Unlock(m)>>, (H \cup {m}) \ {m})
    BY <1>1, RunsUnlock
  <2> QED
    BY <1>1, <2>1
<1>4. ASSUME NEW a \in A
      PROVE  Runs(t, n, H, <<Lock(m)>> \o a \o <<Unlock(m)>>, H)
  <2>1. Runs(t, n, H \cup {m}, a, H \cup {m})
    BY DEF Keep
  <2>2. Runs(t, n, H, <<Lock(m)>> \o a, H \cup {m})
    BY <1>2, <2>1, RunsCat
  <2> QED
    BY <1>3, <2>2, RunsCat
<1> QED
    BY <1>4 DEF Keep, Within

\* mt_mutex_trylock: what it guards is skipped when the mutex is not free.
LEMMA RunsTry ==
    ASSUME NEW t, NEW n, NEW H \in SUBSET Mutexes, NEW m \in Mutexes \ H, NEW a \in Seq(Steps),
           Runs(t, n, H \cup {m}, a, H)
    PROVE  Runs(t, n, H, <<[do |-> "try", what |-> m, skip |-> Len(a)]>> \o a, H)
<1> DEFINE T == [do |-> "try", what |-> m, skip |-> Len(a)]
           b == <<T>> \o a
<1>1. Len(a) \in Nat /\ T \in Steps /\ T.do = "try" /\ T.what = m /\ T.skip = Len(a)
    BY DEF Steps
<1> HIDE DEF T
<1>2. /\ b \in Seq(Steps) /\ b # <<>> /\ Head(b) = T /\ Tail(b) = a /\ Len(b) = Len(a) + 1
    BY <1>1
<1>3. SubSeq(b, Len(a) + 2, Len(b)) = <<>>
    BY <1>1, <1>2, SubSeqEmpty
<1> HIDE DEF b
<1>4. PICK X \in SUBSET Places : Closed(t, n, H, X) /\ [held |-> H \cup {m}, rest |-> a] \in X
    BY DEF Runs
<1> DEFINE Z == {[held |-> H, rest |-> b], [held |-> H, rest |-> <<>>]} \cup X
<1>5. Z \in SUBSET Places
  <2>1. [held |-> H, rest |-> b] \in Places /\ [held |-> H, rest |-> <<>>] \in Places
    BY <1>2 DEF Places
  <2> QED
    BY <2>1
<1>6. Legal(t, n, H, T) /\ After(H, T) = H \cup {m}
    BY <1>1 DEF Legal, After
<1>7. Closed(t, n, H, Z)
  <2>1. \A c \in X : IF c.rest = <<>> THEN c.held = H
                     ELSE /\ Legal(t, n, c.held, Head(c.rest))
                          /\ [held |-> After(c.held, Head(c.rest)), rest |-> Tail(c.rest)] \in Z
                          /\ Head(c.rest).do = "try" =>
                               /\ Head(c.rest).skip + 1 \in 1 .. Len(c.rest)
                               /\ [held |-> c.held,
                                   rest |-> SubSeq(c.rest, Head(c.rest).skip + 2, Len(c.rest))] \in Z
    BY <1>4 DEF Closed
  <2>2. /\ Legal(t, n, H, Head(b))
        /\ [held |-> After(H, Head(b)), rest |-> Tail(b)] \in Z
        /\ Head(b).skip + 1 \in 1 .. Len(b)
        /\ [held |-> H, rest |-> SubSeq(b, Head(b).skip + 2, Len(b))] \in Z
    <3>1. Head(b).skip = Len(a) /\ Len(a) + 1 \in 1 .. Len(b)
      BY <1>1, <1>2
    <3>2. [held |-> H, rest |-> SubSeq(b, Head(b).skip + 2, Len(b))] \in Z
      BY <1>3, <3>1
    <3> QED
      BY <1>2, <1>4, <1>6, <3>1, <3>2
  <2>3. ASSUME NEW c \in Z
        PROVE  c \in X \/ (c.held = H /\ c.rest = b) \/ (c.held = H /\ c.rest = <<>>)
    OBVIOUS
  <2> HIDE DEF Z
  <2> QED
    BY <1>2, <2>1, <2>2, <2>3 DEF Closed
<1> QED
    BY <1>5, <1>7 DEF Runs, b, T

LEMMA KeepIfFree ==
    ASSUME NEW t, NEW n, NEW H \in SUBSET Mutexes, NEW m \in Mutexes \ H, NEW A,
           Keep(t, n, H \cup {m}, A)
    PROVE  Keep(t, n, H, IfFree(m, A))
<1>1. H \cup {m} \in SUBSET Mutexes /\ (H \cup {m}) \ {m} = H
    OBVIOUS
<1>2. Runs(t, n, H \cup {m}, <<Unlock(m)>>, H)
  <2>1. Runs(t, n, H \cup {m}, <<Unlock(m)>>, (H \cup {m}) \ {m})
    BY <1>1, RunsUnlock
  <2> QED
    BY <1>1, <2>1
<1>3. ASSUME NEW a \in A
      PROVE  Runs(t, n, H, <<[do |-> "try", what |-> m, skip |-> Len(a) + 1]>> \o a \o <<Unlock(m)>>, H)
  <2> DEFINE T == [do |-> "try", what |-> m, skip |-> Len(a) + 1]
             U == Unlock(m)
  <2>1. Runs(t, n, H \cup {m}, a, H \cup {m})
    BY DEF Keep
  <2>2. a \in Seq(Steps) /\ U \in Steps
    BY <2>1, RunsType DEF Unlock, Step, Steps
  <2>3. Len(a) \in Nat /\ T \in Steps
    BY <2>2 DEF Steps
  <2>4. Runs(t, n, H \cup {m}, a \o <<U>>, H)
    BY <1>2, <2>1, RunsCat
  <2> HIDE DEF U
  <2>5. a \o <<U>> \in Seq(Steps) /\ Len(a \o <<U>>) = Len(a) + 1
    BY <2>2
  <2>6. Runs(t, n, H, <<T>> \o (a \o <<U>>), H)
    BY <2>4, <2>5, RunsTry
  <2> HIDE DEF T
  <2>7. <<T>> \o (a \o <<U>>) = (<<T>> \o a) \o <<U>>
    BY <2>2, <2>3, ConcatAssociative
  <2> QED
    BY <2>6, <2>7 DEF U, T
<1> QED
    BY <1>3 DEF Keep, IfFree
-----------------------------------------------------------------------------
(* The paths of Locks keep the discipline.                                  *)

LEMMA Belongs ==
    /\ MutexOf("runlevels") = "rl" /\ MutexOf("sweep blocked") = "sweep" /\ MutexOf("dir") = "sweep"
    /\ MutexOf("limits") = "sweep" /\ MutexOf("scope blocked") = "scope"
    /\ MutexOf("timescale") = "scope" /\ MutexOf("points") = "buffer"
    /\ MutexOf("percent") = "buffer" /\ MutexOf("triggers") = "trigger"
    /\ MutexOf("slots") = "gpib" /\ MutexOf("message") = "gpib" /\ MutexOf("readings") = "data"
    /\ MutexOf("settings") = "logger" /\ MutexOf("command") = "ts"
BY DEF MutexOf

\* State which is touched within its mutex alone.
LEMMA KeepGuarded ==
    ASSUME NEW t, NEW n, NEW H \in SUBSET Mutexes, NEW r \in Shared, NEW m, m = MutexOf(r),
           Free(t, n, H, m)
    PROVE  Keep(t, n, H, Within(m, Reads(r))) /\ Keep(t, n, H, Within(m, Writes(r)))
<1>1. H \cup {m} \in SUBSET Mutexes /\ m \in H \cup {m}
    BY DEF Free
<1>2. Keep(t, n, H \cup {m}, Reads(r)) /\ Keep(t, n, H \cup {m}, Writes(r))
    BY <1>1, KeepTouch
<1> QED
    BY <1>2, KeepWithin

\* The functions which several threads call.
LEMMA KeepShared ==
    ASSUME NEW t, NEW n, NEW H \in SUBSET Mutexes,
           \A m \in {"rl", "sweep", "scope", "buffer"} : Free(t, n, H, m)
    PROVE  /\ Keep(t, n, H, set_runlevel) /\ Keep(t, n, H, get_runlevel)
           /\ Keep(t, n, H, set_scan_callback_mode) /\ Keep(t, n, H, stop_threads)
           /\ Keep(t, n, H, scan_csf) /\ Keep(t, n, H, buffer_csf)
           /\ Keep(t, n, H, sweep_direction_csf)
<1>1. Keep(t, n, H, set_runlevel) /\ Keep(t, n, H, get_runlevel)
    BY KeepGuarded, Belongs DEF Shared, set_runlevel, get_runlevel
<1>2. Keep(t, n, H, Within("sweep", Writes("sweep blocked")))
    BY KeepGuarded, Belongs DEF Shared
<1>3. Keep(t, n, H, Within("scope", Writes("scope blocked")))
    BY KeepGuarded, Belongs DEF Shared
<1>4. Keep(t, n, H, sweep_direction_csf)
    BY KeepGuarded, Belongs DEF Shared, sweep_direction_csf
<1>5. Keep(t, n, H, buffer_csf)
    BY KeepGuarded, Belongs DEF Shared, buffer_csf
<1>6. Keep(t, n, H, set_scan_callback_mode)
    BY <1>2, <1>3, KeepSeq2 DEF set_scan_callback_mode
<1>7. Keep(t, n, H, scan_csf)
    BY <1>1, <1>6, KeepSeq2 DEF scan_csf
<1>8. Keep(t, n, H, stop_threads)
    BY <1>1, <1>4, KeepSeq2 DEF stop_threads, sweep_direction_csf
<1> QED
    BY <1>1, <1>4, <1>5, <1>6, <1>7, <1>8

LEMMA KeepTrigger ==
    ASSUME NEW t, NEW n, NEW H \in SUBSET Mutexes, Free(t, n, H, "trigger")
    PROVE  /\ Keep(t, n, H, Within("trigger", Reads("triggers")))
           /\ Keep(t, n, H, trigger_csf) /\ Keep(t, n, H, trigger_expr_mcf)
<1>1. Keep(t, n, H, Within("trigger", Reads("triggers"))) /\ Keep(t, n, H, trigger_csf)
    BY KeepGuarded, Belongs DEF Shared, trigger_csf
<1>2. Keep(t, n, H, trigger_expr_mcf)
    BY <1>1, KeepSeq3 DEF trigger_expr_mcf, trigger_csf
<1> QED
    BY <1>1, <1>2

\* What the GUI thread may wait for with nothing held, or ts_mutex.
LEMMA GuiFree ==
    ASSUME NEW n
    PROVE  /\ \A m \in Mutexes : Free("gui", n, {}, m)
           /\ \A m \in Mutexes \ {"ts", "trigger"} : Free("gui", n, {"ts"}, m)
           /\ n \in TriggerLast => Free("gui", n, {"ts"}, "trigger")
<1>1. {"ts", "trigger"} \subseteq Mutexes /\ "ts" # "trigger"
    BY DEF Mutexes
<1>2. ASSUME NEW m \in Mutexes \ {"ts"}, m = "trigger" => n \in TriggerLast
      PROVE  MayWait("gui", n, "ts", m)
    BY <1>2 DEF MayWait
<1> QED
    BY <1>1, <1>2 DEF Free

\* What the callbacks of a panel and the commands of the terminal have in common.
LEMMA KeepCommands ==
    ASSUME NEW n, NEW H \in SUBSET Mutexes, \A m \in Mutexes \ {"ts", "trigger"} : Free("gui", n, H, m)
    PROVE  /\ Keep("gui", n, H, set_page) /\ Keep("gui", n, H, set_var)
           /\ Keep("gui", n, H, gpib_send_recv_csf) /\ Keep("gui", n, H, link_csf)
<1>1. \A m \in {"rl", "sweep", "scope", "buffer", "logger", "gpib"} : Free("gui", n, H, m)
    BY DEF Mutexes
<1>2. Keep("gui", n, H, set_page)
  <2>1. Keep("gui", n, H, stop_threads)
    BY <1>1, KeepShared
  <2>2. Keep("gui", n, H, Writes("pid"))
    BY KeepTouch DEF Shared, Bare
  <2> QED
    BY <2>1, <2>2, KeepSeq2 DEF set_page
<1>3. Keep("gui", n, H, set_var)
  <2>1. Keep("gui", n, H, set_sweep)
    BY <1>1, KeepGuarded, Belongs DEF Shared, set_sweep
  <2>2. Keep("gui", n, H, set_timescale)
    BY <1>1, KeepGuarded, Belongs DEF Shared, set_timescale
  <2>3. Keep("gui", n, H, set_logger)
    BY <1>1, KeepGuarded, Belongs DEF Shared, set_logger
  <2> QED
    BY <2>1, <2>2, <2>3, KeepUnion DEF set_var
<1>4. Keep("gui", n, H, gpib_send_recv_csf)
    BY <1>1, KeepGuarded, Belongs DEF Shared, gpib_send_recv_csf
<1>5. Keep("gui", n, H, link_csf)
    BY <1>1, KeepGuarded, Belongs DEF Shared, link_csf
<1> QED
    BY <1>2, <1>3, <1>4, <1>5

LEMMA KeepServe ==
    ASSUME NEW n, NEW B, Keep("gui", n, {"ts"}, B)
    PROVE  Keep("gui", n, {}, Serve(B))
<1>1. Free("gui", n, {}, "ts") /\ {"ts"} \in SUBSET Mutexes /\ {} \cup {"ts"} = {"ts"}
    BY GuiFree DEF Mutexes
<1>2. Keep("gui", n, {"ts"}, Writes("command"))
    BY <1>1, KeepTouch, Belongs DEF Shared
<1>3. Keep("gui", n, {} \cup {"ts"}, Seq2(Writes("command"), B))
    BY <1>1, <1>2, KeepSeq2
<1> QED
    BY <1>1, <1>3, KeepWithin DEF Serve

\* The points are also read after buffer.mutex was released.
LEMMA KeepClear ==
    ASSUME NEW n \in {"clear", "serve"}, NEW H \in SUBSET Mutexes,
           H = {} \/ H = {"ts"}
    PROVE  Keep("gui", n, H, clear_csf)
<1>1. /\ \A m \in {"rl", "sweep", "scope", "buffer", "confirming"} : Free("gui", n, H, m)
      /\ "buffer" \in Mutexes /\ "confirming" \in Mutexes /\ "ts" # "buffer" /\ "confirming" # "buffer"
    BY GuiFree DEF Mutexes
<1> DEFINE C == H \cup {"confirming"}
<1>2. C \in SUBSET Mutexes /\ Free("gui", n, C, "buffer")
  <2>1. MayWait("gui", n, "confirming", "buffer")
    BY DEF MayWait
  <2> QED
    BY <1>1, <2>1 DEF Free
<1>3. Keep("gui", n, C, Within("buffer", Reads("points")))
    BY <1>2, KeepGuarded, Belongs DEF Shared
<1>4. Keep("gui", n, H, Within("confirming", Within("buffer", Reads("points"))))
    BY <1>1, <1>3, KeepWithin
<1>5. Keep("gui", n, H, Within("confirming", Within("buffer", Reads("points"))) \cup Nothing)
    BY <1>4, KeepNothing, KeepUnion
<1>6. Keep("gui", n, H, Within("buffer", Seq2(Writes("points"), Writes("percent"))))
  <2> DEFINE D == H \cup {"buffer"}
  <2>1. D \in SUBSET Mutexes /\ "buffer" \in D
    BY <1>1
  <2>2. Keep("gui", n, D, Writes("points")) /\ Keep("gui", n, D, Writes("percent"))
    BY <2>1, KeepTouch, Belongs DEF Shared
  <2>3. Keep("gui", n, D, Seq2(Writes("points"), Writes("percent")))
    BY <2>2, KeepSeq2
  <2> QED
    BY <1>1, <2>3, KeepWithin
<1>7. Keep("gui", n, H, clear_buffer)
    BY <1>5, <1>6, KeepSeq2 DEF clear_buffer
<1>8. Keep("gui", n, H, Reads("points"))
    BY KeepTouch DEF Shared, Bare
<1>9. Keep("gui", n, H, set_runlevel)
    BY <1>1, KeepShared
<1>10. Keep("gui", n, H, Seq2(clear_buffer, Reads("points")))
    BY <1>7, <1>8, KeepSeq2
<1>11. Keep("gui", n, H, Seq2(set_runlevel, set_runlevel))
    BY <1>9, KeepSeq2
<1> QED
    BY <1>10, <1>11, KeepSeq2 DEF clear_csf

LEMMA RunsFour ==
    ASSUME NEW t, NEW n, NEW A, NEW B, NEW C, NEW D, NEW E,
           NEW a \in Steps, NEW b \in Steps, NEW c \in Steps, NEW d \in Steps,
           Runs(t, n, A, <<a>>, B), Runs(t, n, B, <<b>>, C), Runs(t, n, C, <<c>>, D), Runs(t, n, D, <<d>>, E)
    PROVE  Runs(t, n, A, <<a, b, c, d>>, E)
<1>1. Runs(t, n, A, <<a>> \o <<b>>, C)
    BY RunsCat
<1>2. Runs(t, n, A, (<<a>> \o <<b>>) \o <<c>>, D)
    BY <1>1, RunsCat
<1>3. Runs(t, n, A, ((<<a>> \o <<b>>) \o <<c>>) \o <<d>>, E)
    BY <1>2, RunsCat
<1>4. <<a>> \o <<b>> = <<a, b>>
  <2>1. \A i \in 1 .. 2 : (<<a>> \o <<b>>)[i] = <<a, b>>[i]
    OBVIOUS
  <2>2. <<a>> \o <<b>> \in Seq(Steps) /\ <<a, b>> \in Seq(Steps) /\ Len(<<a>> \o <<b>>) = 2 /\ Len(<<a, b>>) = 2
    OBVIOUS
  <2> QED
    BY <2>1, <2>2, SeqEqual
<1>5. <<a, b>> \o <<c>> = <<a, b, c>>
  <2>1. \A i \in 1 .. 3 : (<<a, b>> \o <<c>>)[i] = <<a, b, c>>[i]
    OBVIOUS
  <2>2. <<a, b>> \o <<c>> \in Seq(Steps) /\ <<a, b, c>> \in Seq(Steps) /\ Len(<<a, b>> \o <<c>>) = 3 /\ Len(<<a, b, c>>) = 3
    OBVIOUS
  <2> QED
    BY <2>1, <2>2, SeqEqual
<1>6. <<a, b, c>> \o <<d>> = <<a, b, c, d>>
  <2>1. \A i \in 1 .. 4 : (<<a, b, c>> \o <<d>>)[i] = <<a, b, c, d>>[i]
    OBVIOUS
  <2>2. <<a, b, c>> \o <<d>> \in Seq(Steps) /\ <<a, b, c, d>> \in Seq(Steps) /\ Len(<<a, b, c>> \o <<d>>) = 4 /\ Len(<<a, b, c, d>>) = 4
    OBVIOUS
  <2> QED
    BY <2>1, <2>2, SeqEqual
<1> QED
    BY <1>3, <1>4, <1>5, <1>6

\* The configuration is read while the four mutexes of panel_lock are held.
LEMMA KeepSave ==
    ASSUME NEW n \in TriggerLast, NEW H \in SUBSET Mutexes, H = {} \/ H = {"ts"}
    PROVE  Keep("gui", n, H, save_config)
<1> DEFINE H1 == H \cup {"logger"}
           H2 == H1 \cup {"scope"}
           H3 == H2 \cup {"sweep"}
           H4 == H3 \cup {"trigger"}
           G1 == H4 \ {"logger"}
           G2 == G1 \ {"scope"}
           G3 == G2 \ {"sweep"}
<1>1. /\ Free("gui", n, H, "logger") /\ Free("gui", n, H, "scope")
      /\ Free("gui", n, H, "sweep") /\ Free("gui", n, H, "trigger")
    BY GuiFree DEF Mutexes
<1>2. \A h \in {"logger", "scope", "sweep"}, m \in {"scope", "sweep", "trigger"} : MayWait("gui", n, h, m)
    BY DEF MayWait
<1>3. /\ "logger" \in Mutexes /\ "scope" \in Mutexes /\ "sweep" \in Mutexes /\ "trigger" \in Mutexes
      /\ "logger" \notin H /\ "scope" \notin H1 /\ "sweep" \notin H2 /\ "trigger" \notin H3
    BY DEF Mutexes
<1>4. H1 \in SUBSET Mutexes /\ Free("gui", n, H1, "scope")
    BY <1>1, <1>2, <1>3 DEF Free
<1>5. H2 \in SUBSET Mutexes /\ Free("gui", n, H2, "sweep")
    BY <1>1, <1>2, <1>3, <1>4 DEF Free
<1>6. H3 \in SUBSET Mutexes /\ Free("gui", n, H3, "trigger")
    BY <1>1, <1>2, <1>3, <1>5 DEF Free
<1>7. H4 \in SUBSET Mutexes
    BY <1>3, <1>6
<1>8. /\ H \in SUBSET Mutexes /\ G1 \in SUBSET Mutexes /\ G2 \in SUBSET Mutexes /\ G3 \in SUBSET Mutexes
      /\ "logger" \in H4 /\ "scope" \in G1 /\ "sweep" \in G2 /\ "trigger" \in G3
      /\ "trigger" \in H4
    BY <1>3, <1>7
<1>a. G3 \ {"trigger"} = H
  <2>1. ASSUME NEW m PROVE m \in G3 \ {"trigger"} <=> m \in H
    BY <1>3
  <2> HIDE DEF G3
  <2> QED
    BY <2>1
<1> HIDE DEF H1, H2, H3, H4, G1, G2, G3
<1>9. Runs("gui", n, H, <<Lock("logger"), Lock("scope"), Lock("sweep"), Lock("trigger")>>, H4)
  <2>1. Runs("gui", n, H, <<Lock("logger")>>, H1)
    BY <1>1, RunsLock DEF H1
  <2>2. Runs("gui", n, H1, <<Lock("scope")>>, H2)
    BY <1>4, RunsLock DEF H2
  <2>3. Runs("gui", n, H2, <<Lock("sweep")>>, H3)
    BY <1>5, RunsLock DEF H3
  <2>4. Runs("gui", n, H3, <<Lock("trigger")>>, H4)
    BY <1>6, RunsLock DEF H4
  <2>5. /\ Lock("logger") \in Steps /\ Lock("scope") \in Steps
        /\ Lock("sweep") \in Steps /\ Lock("trigger") \in Steps
    BY <1>3 DEF Lock, Step, Steps
  <2> QED
    BY <2>1, <2>2, <2>3, <2>4, <2>5, RunsFour
<1>10. Runs("gui", n, H4, <<Unlock("logger"), Unlock("scope"), Unlock("sweep"), Unlock("trigger")>>, H)
  <2>1. Runs("gui", n, H4, <<Unlock("logger")>>, G1)
    BY <1>7, <1>8, RunsUnlock DEF G1, G2, G3
  <2>2. Runs("gui", n, G1, <<Unlock("scope")>>, G2)
    BY <1>7, <1>8, RunsUnlock DEF G1, G2, G3
  <2>3. Runs("gui", n, G2, <<Unlock("sweep")>>, G3)
    BY <1>7, <1>8, RunsUnlock DEF G1, G2, G3
  <2>4. Runs("gui", n, G3, <<Unlock("trigger")>>, H)
    <3>1. Runs("gui", n, G3, <<Unlock("trigger")>>,
               (G3 \ {"trigger"}))
      BY <1>7, <1>8, RunsUnlock DEF G1, G2, G3
    <3> QED
      BY <1>a, <3>1
  <2>5. /\ Unlock("logger") \in Steps /\ Unlock("scope") \in Steps
        /\ Unlock("sweep") \in Steps /\ Unlock("trigger") \in Steps
    BY <1>3 DEF Unlock, Step, Steps
  <2> QED
    BY <2>1, <2>2, <2>3, <2>4, <2>5, RunsFour
<1>11. Keep("gui", n, H4, Reads("triggers"))
  <2>1. "trigger" \in H4
    BY <1>8
  <2> QED
    BY <1>7, <2>1, KeepTouch, Belongs DEF Shared
<1> SUFFICES ASSUME NEW p \in save_config PROVE Runs("gui", n, H, p, H)
    BY DEF Keep
<1> DEFINE L == <<Lock("logger"), Lock("scope"), Lock("sweep"), Lock("trigger")>>
           U == <<Unlock("logger"), Unlock("scope"), Unlock("sweep"), Unlock("trigger")>>
<1>12. PICK a \in Reads("triggers") : p = L \o a \o U
    BY DEF save_config
<1>13. Runs("gui", n, H4, a, H4)
    BY <1>11 DEF Keep
<1> HIDE DEF L, U
<1>14. Runs("gui", n, H, L, H4) /\ Runs("gui", n, H4, U, H)
    BY <1>9, <1>10 DEF L, U
<1>15. Runs("gui", n, H, L \o a, H4)
    BY <1>13, <1>14, RunsCat
<1> QED
    BY <1>12, <1>14, <1>15, RunsCat

\* Named paths: each begins and ends with nothing held.
Fine(t, P) == \A p \in P : Runs(t, p[1], {}, p[2], {})

LEMMA FineNamed ==
    ASSUME NEW t, NEW n, NEW A, Keep(t, n, {}, A)
    PROVE  Fine(t, {<<n, p>> : p \in A})
BY DEF Keep, Fine

LEMMA FineUnion ==
    ASSUME NEW t, NEW P, NEW Q, Fine(t, P), Fine(t, Q)
    PROVE  Fine(t, P \cup Q)
BY DEF Fine

LEMMA GuiFine == Fine("gui", GuiPaths)
<1>1. /\ \A m \in {"rl", "sweep", "scope", "buffer", "trigger", "data", "ts"} : \A n : Free("gui", n, {}, m)
      /\ {} \in SUBSET Mutexes /\ {"ts"} \in SUBSET Mutexes /\ "buffer" \in Mutexes
    BY GuiFree DEF Mutexes
<1>2. \A n : \A m \in {"rl", "sweep", "scope", "buffer"} : Free("gui", n, {"ts"}, m)
    BY GuiFree DEF Mutexes
<1>3. Keep("gui", "serve save_config", {}, Serve(save_config))
    BY <1>1, KeepSave, KeepServe DEF TriggerLast
<1>4. Keep("gui", "serve set_var", {}, Serve(trigger_expr_mcf))
  <2>1. Free("gui", "serve set_var", {"ts"}, "trigger")
    BY GuiFree DEF TriggerLast
  <2>2. Keep("gui", "serve set_var", {"ts"}, trigger_expr_mcf)
    BY <1>1, <2>1, KeepTrigger
  <2> QED
    BY <2>2, KeepServe
<1>5. Keep("gui", "serve", {}, Serve(clear_csf \cup buffer_csf \cup set_page \cup set_var
                                      \cup gpib_send_recv_csf \cup link_csf \cup Nothing))
  <2>1. Keep("gui", "serve", {"ts"}, clear_csf)
    BY <1>1, KeepClear
  <2>2. Keep("gui", "serve", {"ts"}, buffer_csf)
    BY <1>1, <1>2, KeepShared
  <2>3. /\ Keep("gui", "serve", {"ts"}, set_page) /\ Keep("gui", "serve", {"ts"}, set_var)
        /\ Keep("gui", "serve", {"ts"}, gpib_send_recv_csf) /\ Keep("gui", "serve", {"ts"}, link_csf)
    BY <1>1, GuiFree, KeepCommands
  <2>4. Keep("gui", "serve", {"ts"}, Nothing)
    BY <1>1, KeepNothing
  <2> QED
    BY <2>1, <2>2, <2>3, <2>4, KeepUnion, KeepServe
<1>6. Keep("gui", "save_config", {}, save_config)
    BY <1>1, KeepSave DEF TriggerLast
<1>7. Keep("gui", "clear", {}, clear_csf)
    BY <1>1, KeepClear
<1>8. Keep("gui", "callback", {}, callback)
  <2> DEFINE K(A) == Keep("gui", "callback", {}, A)
  <2>1. K(set_runlevel) /\ K(scan_csf) /\ K(sweep_direction_csf) /\ K(buffer_csf)
    BY <1>1, KeepShared
  <2>2. K(trigger_csf) /\ K(trigger_expr_mcf)
    BY <1>1, KeepTrigger
  <2>3. K(set_page) /\ K(set_var) /\ K(gpib_send_recv_csf)
    BY <1>1, GuiFree, KeepCommands
  <2>4. K(abort_control_cb)
    BY <1>1, KeepGuarded, Belongs DEF Shared, abort_control_cb
  <2> QED
    BY <2>1, <2>2, <2>3, <2>4, KeepUnion DEF callback
<1>9. Keep("gui", "updates", {}, updates)
  <2> DEFINE K(A) == Keep("gui", "updates", {}, A)
  <2>1. K(Within("trigger", Reads("triggers")))
    BY <1>1, KeepTrigger
  <2>2. K(Within("sweep", Reads("dir"))) /\ K(Within("sweep", Writes("dir")))
    BY <1>1, KeepGuarded, Belongs DEF Shared
  <2>3. K(get_runlevel)
    BY <1>1, KeepShared
  <2>4. K(Within("data", Reads("readings")))
    BY <1>1, KeepGuarded, Belongs DEF Shared
  <2>5. K(Within("buffer", Seq2(Reads("points"), Reads("percent"))))
    <3>1. /\ {} \cup {"buffer"} \in SUBSET Mutexes /\ "buffer" \in {} \cup {"buffer"}
          /\ Free("gui", "updates", {}, "buffer")
      BY <1>1
    <3>2. /\ Keep("gui", "updates", {} \cup {"buffer"}, Reads("points"))
          /\ Keep("gui", "updates", {} \cup {"buffer"}, Reads("percent"))
      BY <3>1, KeepTouch, Belongs DEF Shared
    <3>3. Keep("gui", "updates", {} \cup {"buffer"}, Seq2(Reads("points"), Reads("percent")))
      BY <3>2, KeepSeq2
    <3> QED
      BY <1>1, <3>1, <3>3, KeepWithin
  <2> QED
    BY <2>1, <2>2, <2>3, <2>4, <2>5, KeepUnion DEF updates
<1>10. Keep("gui", "draw", {}, draw)
  <2>1. Keep("gui", "draw", {}, Within("buffer", Reads("points")))
    BY <1>1, KeepGuarded, Belongs DEF Shared
  <2>2. Keep("gui", "draw", {}, Reads("points"))
    BY <1>1, KeepTouch DEF Shared, Bare
  <2> QED
    BY <2>1, <2>2, KeepSeq2 DEF draw
<1> QED
  <2>1. /\ Fine("gui", {<<"serve save_config", p>> : p \in Serve(save_config)})
        /\ Fine("gui", {<<"serve set_var", p>> : p \in Serve(trigger_expr_mcf)})
        /\ Fine("gui", {<<"serve", p>> : p \in Serve(clear_csf \cup buffer_csf \cup set_page \cup set_var
                                                       \cup gpib_send_recv_csf \cup link_csf \cup Nothing)})
    BY <1>3, <1>4, <1>5, FineNamed
  <2>2. /\ Fine("gui", {<<"save_config", p>> : p \in save_config})
        /\ Fine("gui", {<<"clear", p>> : p \in clear_csf})
        /\ Fine("gui", {<<"callback", p>> : p \in callback})
        /\ Fine("gui", {<<"updates", p>> : p \in updates})
        /\ Fine("gui", {<<"draw", p>> : p \in draw})
    BY <1>6, <1>7, <1>8, <1>9, <1>10, FineNamed
  <2> QED
    BY <2>1, <2>2, FineUnion DEF GuiPaths

\* The DAQ thread.  Within a poll it holds ts_mutex, within run_triggers trigger_mutex.
LEMMA DaqFree ==
    ASSUME NEW n
    PROVE  /\ \A m \in Mutexes : Free("daq", n, {}, m)
           /\ \A m \in Mutexes \ {"ts"} : Free("daq", n, {"ts"}, m)
           /\ n = "run_triggers" => \A m \in Mutexes \ {"trigger"} : Free("daq", n, {"trigger"}, m)
           /\ Free("daq", n, {"sweep"}, "gpib")
<1>1. "ts" \in Mutexes /\ "trigger" \in Mutexes /\ "gpib" \in Mutexes /\ "gpib" # "sweep"
    BY DEF Mutexes
<1>2. /\ \A m : MayWait("daq", n, "ts", m)
      /\ MayWait("daq", n, "sweep", "gpib")
      /\ n = "run_triggers" => \A m : MayWait("daq", n, "trigger", m)
    BY DEF MayWait
<1> QED
    BY <1>1, <1>2 DEF Free

\* What a channel's expression uses is bare, but for the one which run_acquisition reads.
LEMMA KeepRead ==
    ASSUME NEW n, NEW H \in SUBSET Mutexes,
           "gpib" \in H \/ n \in {"poll", "run_triggers", "scan"}
    PROVE  /\ Keep("daq", n, H, compute_function_read) /\ Keep("daq", n, H, trigger_parse)
           /\ Keep("daq", n, H, Writes("slots"))
<1>1. Keep("daq", n, H, Reads("slots")) /\ Keep("daq", n, H, Writes("slots")) /\ Keep("daq", n, H, Writes("board"))
    BY KeepTouch, Belongs DEF Shared, Bare
<1>2. Keep("daq", n, H, Nothing \cup Writes("board"))
    BY <1>1, KeepNothing, KeepUnion
<1> QED
    BY <1>1, <1>2, KeepSeq2 DEF compute_function_read, trigger_parse

\* set_dac_csf and a pulse use no mutex of their own.
LEMMA KeepDac ==
    ASSUME NEW n \in {"poll", "run_triggers"}, NEW H \in SUBSET Mutexes
    PROVE  Keep("daq", n, H, set_dac_csf) /\ Keep("daq", n, H, request_pulse_csf)
<1>1. Keep("daq", n, H, Writes("slots")) /\ Keep("daq", n, H, Writes("dir"))
    BY KeepTouch DEF Shared, Bare
<1>2. Keep("daq", n, H, request_pulse_csf)
    BY KeepRead DEF request_pulse_csf
<1> QED
    BY <1>1, <1>2, KeepSeq2 DEF set_dac_csf

LEMMA KeepPid ==
    ASSUME NEW t, NEW n, NEW H \in SUBSET Mutexes
    PROVE  Keep(t, n, H, Reads("pid"))
BY KeepTouch DEF Shared, Bare

LEMMA PollKeeps == Keep("daq", "poll", {}, poll)
<1> DEFINE H == {"ts"}
           K(A) == Keep("daq", "poll", H, A)
<1>1. /\ {} \in SUBSET Mutexes /\ "ts" \in Mutexes \ {} /\ H \in SUBSET Mutexes /\ {} \cup {"ts"} = H
      /\ \A m \in {"rl", "sweep", "scope", "buffer", "trigger"} : Free("daq", "poll", H, m)
    BY DaqFree DEF Mutexes
<1>2. K(Reads("pid"))
    BY <1>1, KeepPid
<1>3. K(Writes("command"))
    BY <1>1, KeepTouch, Belongs DEF Shared
<1>4. K(set_runlevel) /\ K(scan_csf) /\ K(buffer_csf) /\ K(sweep_direction_csf)
    BY <1>1, KeepShared
<1>5. K(trigger_csf)
    BY <1>1, KeepTrigger
<1>6. K(set_dac_csf) /\ K(request_pulse_csf)
    BY <1>1, KeepDac
<1>7. K(set_runlevel \cup scan_csf \cup buffer_csf \cup trigger_csf
          \cup sweep_direction_csf \cup set_dac_csf \cup request_pulse_csf)
    BY <1>4, <1>5, <1>6, KeepUnion
<1>8. Keep("daq", "poll", {} \cup {"ts"},
           Seq3(Reads("pid"), Writes("command"),
                set_runlevel \cup scan_csf \cup buffer_csf \cup trigger_csf
                  \cup sweep_direction_csf \cup set_dac_csf \cup request_pulse_csf))
    BY <1>1, <1>2, <1>3, <1>7, KeepSeq3
<1> QED
    BY <1>1, <1>8, KeepIfFree DEF poll

LEMMA AcquireKeeps == Keep("daq", "acquire", {}, acquire)
<1> DEFINE K(A) == Keep("daq", "acquire", {}, A)
<1>1. /\ {} \in SUBSET Mutexes
      /\ \A m \in {"rl", "sweep", "scope", "buffer", "gpib"} : Free("daq", "acquire", {}, m)
      /\ \A m \in {"data", "logger"} : m \in Mutexes \ {} /\ {} \cup {m} \in SUBSET Mutexes /\ m \in {} \cup {m}
    BY DaqFree DEF Mutexes
<1>2. K(Within("gpib", compute_function_read))
  <2>1. {} \cup {"gpib"} \in SUBSET Mutexes /\ "gpib" \in {} \cup {"gpib"}
    BY DEF Mutexes
  <2>2. Keep("daq", "acquire", {} \cup {"gpib"}, compute_function_read)
    BY <2>1, KeepRead
  <2> QED
    BY <1>1, <2>2, KeepWithin
<1>3. K(IfFree("data", Writes("readings")))
  <2>1. Keep("daq", "acquire", {} \cup {"data"}, Writes("readings"))
    BY <1>1, KeepTouch, Belongs DEF Shared
  <2> QED
    BY <1>1, <2>1, KeepIfFree
<1>4. K(IfFree("logger", Writes("settings")))
  <2>1. Keep("daq", "acquire", {} \cup {"logger"}, Writes("settings"))
    BY <1>1, KeepTouch, Belongs DEF Shared
  <2> QED
    BY <1>1, <2>1, KeepIfFree
<1>5. K(set_runlevel)
    BY <1>1, KeepShared
<1>6. K(Seq2(Within("gpib", compute_function_read), IfFree("data", Writes("readings"))))
    BY <1>2, <1>3, KeepSeq2
<1> QED
    BY <1>4, <1>5, <1>6, KeepUnion DEF acquire

LEMMA RecordingKeeps == Keep("daq", "run_recording", {}, run_recording)
<1>1. {} \in SUBSET Mutexes /\ \A m \in {"rl", "sweep", "scope", "buffer"} : Free("daq", "run_recording", {}, m)
    BY DaqFree DEF Mutexes
<1>2. Keep("daq", "run_recording", {}, get_runlevel)
    BY <1>1, KeepShared
<1>3. Keep("daq", "run_recording", {}, Within("buffer", Writes("points")))
    BY <1>1, KeepGuarded, Belongs DEF Shared
<1> QED
    BY <1>2, <1>3, KeepSeq2 DEF run_recording

LEMMA TriggersKeep == Keep("daq", "run_triggers", {}, run_triggers)
<1> DEFINE H == {"trigger"}
           K(A) == Keep("daq", "run_triggers", H, A)
<1>1. /\ {} \in SUBSET Mutexes /\ H \in SUBSET Mutexes /\ {} \cup {"trigger"} = H
      /\ Free("daq", "run_triggers", {}, "trigger")
      /\ \A m \in {"rl", "sweep", "scope", "buffer", "ts"} : Free("daq", "run_triggers", H, m)
    BY DaqFree DEF Mutexes
<1>2. K(Writes("triggers"))
    BY <1>1, KeepTouch, Belongs DEF Shared
<1>3. K(compute_function_read) /\ K(trigger_parse) /\ K(set_dac_csf) /\ K(request_pulse_csf)
    BY <1>1, KeepDac, KeepRead
<1>4. K(set_runlevel) /\ K(scan_csf) /\ K(buffer_csf) /\ K(sweep_direction_csf)
    BY <1>1, KeepShared
<1>5. K(emit_signal_csf)
    BY <1>1, KeepGuarded, Belongs DEF Shared, emit_signal_csf
<1>6. K(Nothing)
    BY <1>1, KeepNothing
<1>7. K(set_runlevel \cup scan_csf \cup emit_signal_csf \cup buffer_csf
          \cup sweep_direction_csf \cup set_dac_csf \cup request_pulse_csf \cup Nothing)
    BY <1>3, <1>4, <1>5, <1>6, KeepUnion
<1>8. K(Seq2(Writes("triggers"), trigger_parse))
    BY <1>2, <1>3, KeepSeq2
<1>9. Keep("daq", "run_triggers", {} \cup {"trigger"},
           Seq3(Seq2(Writes("triggers"), trigger_parse), compute_function_read,
                set_runlevel \cup scan_csf \cup emit_signal_csf \cup buffer_csf
                  \cup sweep_direction_csf \cup set_dac_csf \cup request_pulse_csf \cup Nothing))
    BY <1>1, <1>3, <1>7, <1>8, KeepSeq3
<1> QED
    BY <1>1, <1>9, KeepWithin DEF run_triggers

LEMMA ScanKeeps == Keep("daq", "scan", {}, run_scope_start \cup run_scope_continue)
<1> DEFINE K(A) == Keep("daq", "scan", {}, A)
           B == {"buffer"}
<1>1. /\ {} \in SUBSET Mutexes /\ B \in SUBSET Mutexes /\ {} \cup {"buffer"} = B
      /\ \A m \in {"rl", "sweep", "scope", "buffer", "ts"} : Free("daq", "scan", {}, m)
    BY DaqFree DEF Mutexes
<1>2. K(Within("sweep", Writes("dir"))) /\ K(set_scan_progress) /\ K(Within("ts", Writes("command")))
    BY <1>1, KeepGuarded, Belongs DEF Shared, set_scan_progress
<1>3. K(Writes("slots")) /\ K(compute_function_read) /\ Keep("daq", "scan", B, compute_function_read)
    BY <1>1, KeepRead
<1>4. K(Nothing)
    BY <1>1, KeepNothing
<1>5. K(Reads("pid"))
    BY <1>1, KeepPid
<1>6. K(set_scan_callback_mode) /\ K(get_runlevel)
    BY <1>1, KeepShared
<1>7. K(scan_array_process)
  <2>1. Keep("daq", "scan", B, Writes("points"))
    BY <1>1, KeepTouch, Belongs DEF Shared
  <2>2. Keep("daq", "scan", {} \cup {"buffer"}, Seq2(compute_function_read, Writes("points")))
    BY <1>1, <1>3, <2>1, KeepSeq2
  <2> QED
    BY <1>1, <2>2, KeepWithin DEF scan_array_process
<1>8. K(Writes("slots") \cup Nothing) /\ K(Seq2(Reads("pid"), set_scan_callback_mode))
    BY <1>3, <1>4, <1>5, <1>6, KeepUnion, KeepSeq2
<1>p. K(pulse)
  <2>1. K(Seq2(compute_function_read, Writes("slots")))
    BY <1>3, KeepSeq2
  <2> QED
    BY <1>4, <2>1, KeepUnion DEF pulse
<1>9. K(run_scope_start)
  <2>1. K(Within("ts", Writes("command")) \cup Seq2(Reads("pid"), set_scan_callback_mode))
    BY <1>2, <1>8, KeepUnion
  <2>2. K(Seq2(pulse, Within("ts", Writes("command")) \cup Seq2(Reads("pid"), set_scan_callback_mode)))
    BY <1>p, <2>1, KeepSeq2
  <2> QED
    BY <1>2, <2>2, KeepSeq3 DEF run_scope_start
<1>10. K(run_scope_continue)
  <2>1. K(Seq3(get_runlevel, Writes("slots") \cup Nothing, set_scan_progress))
    BY <1>2, <1>6, <1>8, KeepSeq3
  <2>2. K(Seq3(scan_array_process, Seq2(Reads("pid"), set_scan_callback_mode), Within("ts", Writes("command"))))
    BY <1>2, <1>7, <1>8, KeepSeq3
  <2> QED
    BY <2>1, <2>2, KeepSeq2 DEF run_scope_continue
<1> QED
    BY <1>9, <1>10, KeepUnion

\* But for a poll and a trigger pass, the DAQ thread takes one mutex within another only here:
\* gpib_mutex within sweep_mutex.
LEMMA SweepsKeep == Keep("daq", "run_sweeps", {}, run_sweeps)
<1> DEFINE S == {"sweep"}
           G == {"sweep", "gpib"}
<1>1. /\ {} \in SUBSET Mutexes /\ S \in SUBSET Mutexes /\ G \in SUBSET Mutexes
      /\ {} \cup {"sweep"} = S /\ S \cup {"gpib"} = G
      /\ \A m \in {"sweep", "ts"} : Free("daq", "run_sweeps", {}, m)
      /\ Free("daq", "run_sweeps", S, "gpib")
    BY DaqFree DEF Mutexes
<1>2. /\ Keep("daq", "run_sweeps", G, Reads("limits")) /\ Keep("daq", "run_sweeps", G, Writes("slots"))
      /\ Keep("daq", "run_sweeps", G, Writes("dir"))
    BY <1>1, KeepTouch, Belongs DEF Shared
<1>3. Keep("daq", "run_sweeps", S \cup {"gpib"}, Seq3(Reads("limits"), Writes("slots"), Writes("dir")))
    BY <1>1, <1>2, KeepSeq3
<1>4. Keep("daq", "run_sweeps", {} \cup {"sweep"},
           Within("gpib", Seq3(Reads("limits"), Writes("slots"), Writes("dir"))))
    BY <1>1, <1>3, KeepWithin
<1>5. Keep("daq", "run_sweeps", {},
           Within("sweep", Within("gpib", Seq3(Reads("limits"), Writes("slots"), Writes("dir")))))
    BY <1>1, <1>4, KeepWithin
<1>6. Keep("daq", "run_sweeps", {}, Within("ts", Writes("command")) \cup Nothing)
    BY <1>1, KeepGuarded, KeepNothing, KeepUnion, Belongs DEF Shared
<1> QED
    BY <1>5, <1>6, KeepSeq2 DEF run_sweeps

LEMMA StartKeeps == Keep("daq", "start", {}, start) /\ Keep("daq", "end", {}, end)
<1>1. {} \in SUBSET Mutexes /\ \A n : Free("daq", n, {}, "logger") /\ Free("daq", n, {}, "gpib")
    BY DaqFree DEF Mutexes
<1>2. Keep("daq", "start", {}, Within("logger", Writes("settings")))
    BY <1>1, KeepGuarded, Belongs DEF Shared
<1>3. Keep("daq", "start", {}, Writes("message"))
    BY <1>1, KeepTouch DEF Shared, Bare
<1>4. Keep("daq", "end", {}, end)
    BY <1>1, KeepGuarded, Belongs DEF Shared, end
<1> QED
    BY <1>2, <1>3, <1>4, KeepSeq3 DEF start

LEMMA DaqFine == Fine("daq", DaqPaths)
<1>0. Fine("daq", {<<"start", p>> : p \in start}) /\ Fine("daq", {<<"end", p>> : p \in end})
    BY StartKeeps, FineNamed
<1>1. /\ Fine("daq", {<<"poll", p>> : p \in poll}) /\ Fine("daq", {<<"acquire", p>> : p \in acquire})
      /\ Fine("daq", {<<"run_recording", p>> : p \in run_recording})
      /\ Fine("daq", {<<"run_triggers", p>> : p \in run_triggers})
      /\ Fine("daq", {<<"scan", p>> : p \in run_scope_start \cup run_scope_continue})
      /\ Fine("daq", {<<"run_sweeps", p>> : p \in run_sweeps})
    BY PollKeeps, AcquireKeeps, RecordingKeeps, TriggersKeep, ScanKeeps, SweepsKeep, FineNamed
<1> QED
    BY <1>0, <1>1, FineUnion DEF DaqPaths

\* The GPIB thread holds one mutex at a time and waits for none while it does.
LEMMA GpibFine == Fine("gpib", GpibPaths)
<1> DEFINE K(A) == Keep("gpib", "round", {}, A)
           B == {"gpib"}
<1>1. /\ {} \in SUBSET Mutexes /\ B \in SUBSET Mutexes /\ {} \cup {"gpib"} = B
      /\ \A m \in {"gpib", "ts"} : Free("gpib", "round", {}, m)
    BY DEF Free, Mutexes
<1>2. Keep("gpib", "round", B, Writes("message")) /\ Keep("gpib", "round", B, Writes("slots"))
    BY <1>1, KeepTouch, Belongs DEF Shared
<1>3. Keep("gpib", "round", {} \cup {"gpib"}, Seq2(Writes("message"), Writes("slots")))
    BY <1>1, <1>2, KeepSeq2
<1>4. K(Within("gpib", Seq2(Writes("message"), Writes("slots"))))
    BY <1>1, <1>3, KeepWithin
<1>5. K(Reads("command")) /\ K(Writes("board"))
    BY <1>1, KeepTouch DEF Shared, Bare
<1>6. K(Within("ts", Writes("command")))
    BY <1>1, KeepGuarded, Belongs DEF Shared
<1>7. K(Nothing \cup Writes("board"))
    BY <1>1, <1>5, KeepNothing, KeepUnion
<1>8. K(Nothing \cup Seq3(Writes("board"), Reads("command"), Within("ts", Writes("command"))))
    BY <1>1, <1>5, <1>6, KeepNothing, KeepSeq3, KeepUnion
<1>9. K(Seq3(Within("gpib", Seq2(Writes("message"), Writes("slots"))),
             Nothing \cup Writes("board"),
             Nothing \cup Seq3(Writes("board"), Reads("command"), Within("ts", Writes("command")))))
    BY <1>4, <1>7, <1>8, KeepSeq3
<1> QED
    BY <1>9, FineNamed DEF GpibPaths
-----------------------------------------------------------------------------
(* The threads on their paths.                                              *)

\* Each thread is on a path which is legal from what it holds, and ends with nothing held.
LocksInv ==
    /\ doing \in [Threads -> {"none"} \cup {p[1] : p \in GuiPaths \cup DaqPaths \cup GpibPaths}]
    /\ todo \in [Threads -> Seq(Steps)]
    /\ owner \in [Mutexes -> Threads \cup {"nobody"}]
    /\ \A t \in Threads : Runs(t, doing[t], Held(t), todo[t], {})

LEMMA LocksBegin == LocksInit => LocksInv
<1> SUFFICES ASSUME LocksInit PROVE LocksInv
    OBVIOUS
<1>1. \A t \in Threads : doing[t] = "none" /\ todo[t] = <<>> /\ Held(t) = {}
    BY DEF LocksInit, Held, Threads
<1>2. \A t \in Threads : Runs(t, doing[t], Held(t), todo[t], {})
    BY <1>1, RunsNothing
<1> QED
    BY <1>2 DEF LocksInit, LocksInv

LEMMA PathFacts ==
    ASSUME NEW t \in Threads, NEW p \in Paths[t]
    PROVE  /\ Runs(t, p[1], {}, p[2], {})
           /\ p \in GuiPaths \cup DaqPaths \cup GpibPaths
<1>1. CASE t = "gui"
    BY <1>1, GuiFine DEF Paths, Fine
<1>2. CASE t = "daq"
    BY <1>2, DaqFine DEF Paths, Fine
<1>3. CASE t = "gpib"
    BY <1>3, GpibFine DEF Paths, Fine
<1> QED
    BY <1>1, <1>2, <1>3 DEF Threads

LEMMA LocksStep == LocksInv /\ [LocksNext]_lockVars => LocksInv'
<1> SUFFICES ASSUME LocksInv, [LocksNext]_lockVars PROVE LocksInv'
    OBVIOUS
<1>u. CASE UNCHANGED lockVars
    BY <1>u DEF lockVars, LocksInv, Held
<1>n. ASSUME NEW t \in Threads, Begin(t) \/ Take(t) \/ Skip(t) \/ Release(t) \/ Touch(t)
      PROVE  LocksInv'
  <2> DEFINE s == todo[t]
             H == Held(t)
  <2>1. /\ s \in Seq(Steps) /\ Runs(t, doing[t], H, s, {})
        /\ todo \in [Threads -> Seq(Steps)] /\ owner \in [Mutexes -> Threads \cup {"nobody"}]
        /\ H \in SUBSET Mutexes /\ t # "nobody"
    BY DEF LocksInv, Held, Threads
  <2>2. ASSUME s # <<>>
        PROVE  /\ Legal(t, doing[t], H, Head(s)) /\ Head(s) \in Steps
               /\ Runs(t, doing[t], After(H, Head(s)), SubSeq(s, 2, Len(s)), {})
               /\ Head(s).do = "try" => Runs(t, doing[t], H, SubSeq(s, Head(s).skip + 2, Len(s)), {})
    <3>1. Tail(s) = SubSeq(s, 2, Len(s))
      BY <2>1, <2>2, TailIsSubSeq
    <3> QED
      BY <2>1, <2>2, <3>1, RunsOn, HeadTailProperties
  \* Nobody else is concerned.
  <2>3. ASSUME \A u \in Threads \ {t} : doing'[u] = doing[u] /\ todo'[u] = todo[u] /\ Held(u)' = Held(u),
               Runs(t, doing'[t], Held(t)', todo'[t], {}),
               doing' \in [Threads -> {"none"} \cup {p[1] : p \in GuiPaths \cup DaqPaths \cup GpibPaths}],
               owner' \in [Mutexes -> Threads \cup {"nobody"}],
               \E r : todo' = [todo EXCEPT ![t] = r]
        PROVE  LocksInv'
    <3>1. \A u \in Threads : Runs(u, doing'[u], Held(u)', todo'[u], {})
      BY <2>3 DEF LocksInv
    <3>2. todo'[t] \in Seq(Steps)
      BY <2>3, RunsType
    <3>3. todo' \in [Threads -> Seq(Steps)]
      BY <2>1, <2>3, <3>2
    <3> QED
      BY <2>3, <3>1, <3>3 DEF LocksInv
  <2>4. CASE Begin(t)
    <3>1. PICK p \in Paths[t] : /\ doing' = [doing EXCEPT ![t] = p[1]]
                                /\ todo' = [todo EXCEPT ![t] = p[2]]
      BY <2>4 DEF Begin
    <3>2. s = <<>> /\ owner' = owner
      BY <2>4 DEF Begin
    <3>3. H = {}
      BY <2>1, <3>2, RunsOut
    <3>4. \A u \in Threads : Held(u)' = Held(u)
      BY <3>2 DEF Held
    <3>5. Runs(t, p[1], {}, p[2], {}) /\ p \in GuiPaths \cup DaqPaths \cup GpibPaths
      BY PathFacts
    <3>6. Runs(t, doing'[t], Held(t)', todo'[t], {})
      BY <2>1, <3>1, <3>3, <3>4, <3>5 DEF LocksInv
    <3>7. doing' \in [Threads -> {"none"} \cup {q[1] : q \in GuiPaths \cup DaqPaths \cup GpibPaths}]
      BY <3>1, <3>5 DEF LocksInv
    <3> QED
      BY <2>1, <2>3, <3>1, <3>2, <3>4, <3>6, <3>7 DEF LocksInv
  <2>5. CASE Take(t)
    <3>1. /\ s # <<>> /\ Head(s).do \in {"lock", "try"} /\ owner[Head(s).what] = "nobody"
          /\ owner' = [owner EXCEPT ![Head(s).what] = t]
          /\ todo' = [todo EXCEPT ![t] = SubSeq(s, 2, Len(s))] /\ doing' = doing
      BY <2>5 DEF Take, At, What, Advance
    <3>2. Head(s).what \in Mutexes \ H
      BY <2>2, <3>1 DEF Legal
    <3>3. Held(t)' = H \cup {Head(s).what} /\ After(H, Head(s)) = H \cup {Head(s).what}
      BY <2>1, <3>1, <3>2 DEF Held, After
    <3>4. \A u \in Threads \ {t} : Held(u)' = Held(u)
      BY <2>1, <3>1, <3>2 DEF Held, Threads
    <3>5. Runs(t, doing'[t], Held(t)', todo'[t], {})
      BY <2>1, <2>2, <3>1, <3>3
    <3> QED
      BY <2>1, <2>3, <3>1, <3>2, <3>4, <3>5 DEF LocksInv
  <2>6. CASE Skip(t)
    <3>1. /\ s # <<>> /\ Head(s).do = "try" /\ owner' = owner /\ doing' = doing
          /\ todo' = [todo EXCEPT ![t] = SubSeq(s, Head(s).skip + 1 + 1, Len(s))]
      BY <2>6 DEF Skip, At, What, Advance
    <3>2. Head(s).skip + 1 + 1 = Head(s).skip + 2
      BY <2>2, <3>1 DEF Steps
    <3>3. \A u \in Threads : Held(u)' = Held(u)
      BY <3>1 DEF Held
    <3>4. Runs(t, doing'[t], Held(t)', todo'[t], {})
      BY <2>1, <2>2, <3>1, <3>2, <3>3
    <3> QED
      BY <2>1, <2>3, <3>1, <3>3, <3>4 DEF LocksInv
  <2>7. CASE Release(t)
    <3>1. /\ s # <<>> /\ Head(s).do = "unlock"
          /\ owner' = [owner EXCEPT ![Head(s).what] = "nobody"]
          /\ todo' = [todo EXCEPT ![t] = SubSeq(s, 2, Len(s))] /\ doing' = doing
      BY <2>7 DEF Release, At, What, Advance
    <3>2. Head(s).what \in H
      BY <2>2, <3>1 DEF Legal
    <3>3. Held(t)' = H \ {Head(s).what} /\ After(H, Head(s)) = H \ {Head(s).what}
      BY <2>1, <3>1, <3>2 DEF Held, After
    <3>4. \A u \in Threads \ {t} : Held(u)' = Held(u)
      BY <2>1, <3>1, <3>2 DEF Held, Threads
    <3>5. Runs(t, doing'[t], Held(t)', todo'[t], {})
      BY <2>1, <2>2, <3>1, <3>3
    <3> QED
      BY <2>1, <2>3, <3>1, <3>2, <3>4, <3>5 DEF LocksInv
  <2>8. CASE Touch(t)
    <3>1. /\ s # <<>> /\ Head(s).do \in {"read", "write"} /\ owner' = owner /\ doing' = doing
          /\ todo' = [todo EXCEPT ![t] = SubSeq(s, 2, Len(s))]
      BY <2>8 DEF Touch, At, What, Advance
    <3>2. After(H, Head(s)) = H /\ \A u \in Threads : Held(u)' = Held(u)
      BY <3>1 DEF Held, After
    <3>3. Runs(t, doing'[t], Held(t)', todo'[t], {})
      BY <2>1, <2>2, <3>1, <3>2
    <3> QED
      BY <2>1, <2>3, <3>1, <3>2, <3>3 DEF LocksInv
  <2> QED
    BY <1>n, <2>4, <2>5, <2>6, <2>7, <2>8
<1> QED
    BY <1>u, <1>n DEF LocksNext

LEMMA LocksInvHolds == LocksSpec => []LocksInv
BY LocksBegin, LocksStep, PTL DEF LocksSpec

LEMMA NextIsLegal ==
    ASSUME LocksInv, NEW t \in Threads, todo[t] # <<>>
    PROVE  Legal(t, doing[t], Held(t), Head(todo[t])) /\ Head(todo[t]) \in Steps
BY RunsOn, HeadTailProperties DEF LocksInv

\* A thread comes to each mutex without holding it, to state which others share with its
\* mutex, but for what Bare names, and to the end of its path with nothing held.
THEOREM LockOrder == LocksSpec => []Disciplined
<1>1. LocksInv => Disciplined
  <2> SUFFICES ASSUME LocksInv, NEW t \in Threads
               PROVE  IF todo[t] = <<>> THEN Held(t) = {}
                      ELSE Legal(t, doing[t], Held(t), Head(todo[t]))
    BY DEF Disciplined
  <2>1. CASE todo[t] = <<>>
    BY <2>1, RunsOut DEF LocksInv
  <2>2. CASE todo[t] # <<>>
    BY <2>2, NextIsLegal
  <2> QED
    BY <2>1, <2>2
<1> QED
    BY <1>1, LocksInvHolds, PTL

\* Threads wait for each other in a ring only when the GUI thread saves the configuration
\* or serves a trigger's line, and the DAQ thread is in a trigger pass.
THEOREM RingsAreKnown == LocksSpec => []DeadlocksAreKnown
<1>1. ASSUME LocksInv PROVE DeadlocksAreKnown
  <2>1. ASSUME NEW t \in Threads, NEW u \in Threads, Waits(t, u)
        PROVE  /\ What(t) \in Mutexes /\ What(t) \in Held(u) /\ t # u
               /\ \A h \in Held(t) : MayWait(t, doing[t], h, What(t))
    <3>1. todo[t] # <<>> /\ Head(todo[t]).do = "lock" /\ owner[What(t)] = u
      BY <2>1 DEF Waits, At
    <3>2. Legal(t, doing[t], Held(t), Head(todo[t]))
      BY <1>1, <3>1, NextIsLegal
    <3>3. What(t) \in Mutexes \ Held(t) /\ \A h \in Held(t) : MayWait(t, doing[t], h, What(t))
      BY <3>1, <3>2 DEF Legal, What
    <3> QED
      BY <3>1, <3>3 DEF Held
  \* The GPIB thread waits for a mutex only while it holds none.
  <2>2. ASSUME NEW t \in Threads, NEW u \in Threads, Waits(t, "gpib"), Waits("gpib", u)
        PROVE  FALSE
    <3>1. "gpib" \in Threads
      BY DEF Threads
    <3>2. What(t) \in Held("gpib") /\ \A h \in Held("gpib") : MayWait("gpib", doing["gpib"], h, What("gpib"))
      BY <2>1, <2>2, <3>1
    <3> QED
      BY <3>2 DEF MayWait
  <2>3. ASSUME Waits("gui", "daq"), Waits("daq", "gui")
        PROVE  /\ doing["gui"] \in {"save_config", "serve save_config", "serve set_var"}
               /\ doing["daq"] = "run_triggers"
    <3>1. "gui" \in Threads /\ "daq" \in Threads
      BY DEF Threads
    <3>2. /\ MayWait("gui", doing["gui"], What("daq"), What("gui"))
          /\ MayWait("daq", doing["daq"], What("gui"), What("daq"))
      BY <2>1, <2>3, <3>1
    <3> QED
      BY <3>2 DEF MayWait, TriggerLast
  <2> SUFFICES ASSUME NEW S \in Rings
               PROVE  /\ S = {"gui", "daq"}
                      /\ doing["gui"] \in {"save_config", "serve save_config", "serve set_var"}
                      /\ doing["daq"] = "run_triggers"
    BY DEF DeadlocksAreKnown
  <2>4. S \in SUBSET Threads /\ Stuck(S) /\ \A R \in SUBSET S : Stuck(R) => R = S
    BY DEF Rings
  <2>5. "gpib" \notin S
    <3> SUFFICES ASSUME "gpib" \in S PROVE FALSE
      OBVIOUS
    <3>1. PICK u \in S : Waits("gpib", u)
      BY <2>4 DEF Stuck
    <3>2. u # "gpib" /\ u \in Threads
      BY <2>1, <2>4, <3>1
    <3>3. ASSUME NEW t \in S \ {"gpib"} PROVE \E w \in S \ {"gpib"} : Waits(t, w)
      <4>1. PICK w \in S : Waits(t, w)
        BY <2>4 DEF Stuck
      <4>2. w # "gpib"
        BY <2>2, <2>4, <3>1, <3>2, <4>1
      <4> QED
        BY <4>1, <4>2
    <3>4. Stuck(S \ {"gpib"})
      BY <3>2, <3>3 DEF Stuck
    <3> QED
      BY <2>4, <3>4
  <2>6. \A t \in S : t \in {"gui", "daq"}
    BY <2>4, <2>5 DEF Threads
  <2>7. \A t \in S : \E u \in S : Waits(t, u) /\ u # t
    BY <2>1, <2>4 DEF Stuck
  <2>8. S = {"gui", "daq"} /\ Waits("gui", "daq") /\ Waits("daq", "gui")
    <3>1. PICK t \in S : TRUE
      BY <2>4 DEF Stuck
    <3>2. PICK u \in S : Waits(t, u) /\ u # t
      BY <2>7
    <3>3. PICK v \in S : Waits(u, v) /\ v # u
      BY <2>7
    <3>4. t \in {"gui", "daq"} /\ u \in {"gui", "daq"} /\ v \in {"gui", "daq"}
      BY <2>6
    <3>5. v = t /\ {t, u} = {"gui", "daq"}
      BY <3>2, <3>3, <3>4
    <3>6. S = {"gui", "daq"}
      BY <2>6, <3>5
    <3> QED
      BY <3>2, <3>3, <3>4, <3>5, <3>6
  <2> QED
    BY <2>3, <2>8
<1> QED
    BY <1>1, LocksInvHolds, PTL

\* Two threads are about to touch the same state, one of them to write it, in the known
\* cases only: elsewhere both would hold its mutex.
THEOREM SharedStateGuarded == LocksSpec => []RacesAreKnown
<1>1. ASSUME LocksInv PROVE RacesAreKnown
  <2> SUFFICES ASSUME NEW t \in Threads, NEW u \in Threads, Race(t, u)
               PROVE  \/ What(t) = "points" /\ doing["gui"] \in {"draw", "clear", "serve"}
                      \/ What(t) = "dir" /\ "daq" \in {t, u} /\ doing["daq"] \in {"poll", "run_triggers"}
                      \/ What(t) = "pid"
                      \/ What(t) = "command" /\ "gpib" \in {t, u}
                      \/ What(t) = "slots" /\ doing["daq"] \in {"poll", "run_triggers", "scan"}
                      \/ What(t) = "message" /\ doing["daq"] = "start"
                      \/ What(t) = "board" /\ {t, u} = {"daq", "gpib"}
    BY DEF RacesAreKnown
  <2>1. t # u /\ What(t) = What(u)
    BY DEF Race
  <2>2. ASSUME NEW v \in {t, u}
        PROVE  MutexOf(What(v)) \in Held(v) \/ Bare(v, doing[v], What(v))
    <3>1. v \in Threads /\ todo[v] # <<>> /\ Head(todo[v]).do \in {"read", "write"}
      BY DEF Race, At
    <3>2. Legal(v, doing[v], Held(v), Head(todo[v]))
      BY <1>1, <3>1, NextIsLegal
    <3> QED
      BY <3>1, <3>2 DEF Legal, What
  <2>3. ~(MutexOf(What(t)) \in Held(t) /\ MutexOf(What(t)) \in Held(u))
    BY <2>1 DEF Held
  <2>4. Bare(t, doing[t], What(t)) \/ Bare(u, doing[u], What(t))
    BY <2>1, <2>2, <2>3
  <2>5. CASE What(t) = "board"
    <3>1. MutexOf("board") \notin Mutexes
      BY DEF MutexOf, Mutexes
    <3>2. Bare(t, doing[t], "board") /\ Bare(u, doing[u], "board")
      BY <2>1, <2>2, <2>5, <3>1 DEF Held
    <3> QED
      BY <2>1, <2>5, <3>2 DEF Bare
  <2> QED
    BY <2>4, <2>5 DEF Bare
<1> QED
    BY <1>1, LocksInvHolds, PTL

-----------------------------------------------------------------------------
(* Control implements Replies.                                              *)

Down == {"crash", "ended"}

\* What a step does to the requests.
LEMMA StepKinds ==
    ASSUME [Next]_vars
    PROVE  \/ UNCHANGED <<sent, backlog, argv, answer>> /\ (guiPc \in Down => guiPc' \in Down)
           \/ ClientSend
           \/ /\ \E kind \in Answers \ {"none"} : Reply(kind)
              /\ UNCHANGED <<sent, backlog>> /\ (guiPc' \in Down <=> guiPc \in Down)
           \/ /\ Accept /\ \E kind \in Answers \ {"none"} : ReplyToAccepted(kind)
              /\ sent' = sent /\ (guiPc' \in Down <=> guiPc \in Down)
           \/ /\ Accept /\ argv' = Head(backlog)
              /\ UNCHANGED <<sent, answer>> /\ (guiPc' \in Down <=> guiPc \in Down)
<1> USE DEF Down, clientVars, serverVars, catchVars, pageVars, gpibVars
<1>1. CASE ClientSend
    BY <1>1
<1>2. CASE ClientReceive \/ ClientKilled \/ MainIdle \/ MainTest \/ GuiNothing \/ GuiDefer
           \/ GuiNoCommand \/ GuiTest \/ GuiJoin \/ MainSetPage \/ MainCrash \/ GuiSetPage
    BY <1>2 DEF ClientReceive, ClientKilled, MainIdle, MainTest, GuiNothing, GuiDefer,
       GuiNoCommand, GuiTest, GuiJoin, MainSetPage, MainCrash, GuiSetPage
<1>3. CASE MainExecute
  <2>1. \E kind \in {"command_error", "gpib", "done"} : ReplyToAccepted(kind)
    BY <1>3 DEF MainExecute
  <2> QED
    BY <1>3, <2>1 DEF MainExecute, Answers
<1>4. CASE MainDefer \/ DaqForward
    BY <1>4 DEF MainDefer, DaqForward
<1>5. CASE GuiExecute
  <2>1. \E kind \in {"command_error", "done"} : Reply(kind)
    BY <1>5 DEF GuiExecute
  <2> QED
    BY <1>5, <2>1 DEF GuiExecute, Answers
<1>6. CASE GuiArgumentError \/ GuiAbort \/ GpibReply
    BY <1>6 DEF GuiArgumentError, GuiAbort, GpibReply, Answers
<1>7. CASE DaqInit \/ DaqTest \/ DaqNoPoll \/ DaqExit \/ GpibTake \/ GpibQuery \/ GpibTest
    BY <1>7 DEF DaqInit, DaqTest, DaqNoPoll, DaqExit, GpibTake, GpibQuery, GpibTest
<1>8. CASE DaqExecute
    BY <1>8 DEF DaqExecute, Answers
<1>9. CASE DaqTriggers \/ DaqScope \/ DaqSweeps \/ DaqLast
    BY <1>9 DEF DaqTriggers, DaqScope, DaqSweeps, DaqLast, ScanEvent, Answers
<1>10. CASE ProcessOver \/ UNCHANGED vars
    BY <1>10 DEF ProcessOver, vars
<1> QED
    BY <1>1, <1>2, <1>3, <1>4, <1>5, <1>6, <1>7, <1>8, <1>9, <1>10
       DEF Next, ClientNext, MainLoop, GuiLoop, UserEvent, DaqLoop, DaqPoll, GpibLoop

LEMMA TurnBegins == Init => TurnInv /\ Promise!Init
<1> SUFFICES ASSUME Init PROVE TurnInv /\ Promise!Init
    OBVIOUS
<1>1. /\ sent = 0 /\ backlog = <<>> /\ argv = 0 /\ guiPc = "main"
      /\ answer \in [Requests -> Answers] /\ MaxRequests \in Nat
    BY ControlAssumption DEF Init, NoRequest, Answers
<1>2. Answered = 0
  <2>1. Len(backlog) = 0 /\ (IF argv = NoRequest THEN 0 ELSE 1) = 0 /\ sent = 0
    BY <1>1 DEF NoRequest
  <2>2. Answered = sent - Len(backlog) - (IF argv = NoRequest THEN 0 ELSE 1)
    BY DEF Answered
  <2>3. Answered = 0 - 0 - 0
    BY <2>1, <2>2, Zenon
  <2> QED
    BY <2>3
<1>3. Replied = <<>>
    BY <1>2 DEF Replied
<1> QED
    BY <1>1, <1>2, <1>3 DEF TurnInv, Promise!Init, NoRequest

\* The request which gets the next reply.
LEMMA NextReply ==
    ASSUME TurnInv, NEW r \in Requests, r = Answered + 1, NEW kind \in Answers \ {"none"},
           answer' = [answer EXCEPT ![r] = kind], Answered' = Answered + 1, Answered < sent,
           sent' = sent, guiPc' \in Down <=> guiPc \in Down
    PROVE  Promise!Answer
<1>1. Answered \in Nat /\ answer \in [Requests -> Answers] /\ Requests = 1 .. MaxRequests /\ MaxRequests \in Nat
    BY ControlAssumption DEF TurnInv, Requests
<1>2. /\ Replied = [i \in 1 .. Answered |-> answer[i]]
      /\ Replied' = [i \in 1 .. (Answered + 1) |-> answer'[i]]
    BY DEF Replied
<1>3. \A i \in 1 .. Answered : i \in Requests /\ i # r
    BY <1>1
<1>4. Replied \in Seq(Answers) /\ Len(Replied) = Answered
    BY <1>1, <1>2, <1>3
<1>5. /\ Append(Replied, kind) \in Seq(Answers) /\ Len(Append(Replied, kind)) = Answered + 1
      /\ \A i \in 1 .. Answered : Append(Replied, kind)[i] = Replied[i]
      /\ Append(Replied, kind)[Answered + 1] = kind
    BY <1>4, AppendProperties
<1>6. \A i \in 1 .. (Answered + 1) : Replied'[i] = Append(Replied, kind)[i]
    BY <1>1, <1>2, <1>3, <1>5
<1>7. Replied' \in Seq(Answers) /\ Len(Replied') = Answered + 1
    BY <1>1, <1>2, <1>3
<1>8. Replied' = Append(Replied, kind)
    BY <1>5, <1>6, <1>7, SeqEqual
<1>9. (guiPc' \notin {"crash", "ended"}) = (guiPc \notin {"crash", "ended"})
    BY DEF Down
<1> QED
    BY <1>4, <1>8, <1>9 DEF Promise!Answer

\* A connection is accepted: the oldest request not answered comes first.
LEMMA AcceptTurn ==
    ASSUME TurnInv, Accept
    PROVE  /\ argv = NoRequest /\ sent \in Nat /\ Len(backlog) \in Nat \ {0}
           /\ Answered = sent - Len(backlog) /\ Head(backlog) = Answered + 1
           /\ Head(backlog) \in 1 .. sent /\ Head(backlog) \in Requests
           /\ backlog' \in Seq(Nat) /\ Len(backlog') = Len(backlog) - 1
           /\ \A i \in 1 .. Len(backlog') : backlog'[i] = sent - Len(backlog') + i
<1>1. /\ argv = NoRequest /\ backlog \in Seq(Nat) /\ backlog # <<>> /\ backlog' = Tail(backlog)
      /\ sent \in 0 .. MaxRequests /\ MaxRequests \in Nat /\ Answered \in Nat
    BY ControlAssumption DEF TurnInv, Accept
<1>2. Len(backlog) \in Nat \ {0} /\ Head(backlog) = backlog[1]
    BY <1>1
<1>3. Answered = sent - Len(backlog)
    BY <1>1, <1>2 DEF Answered
<1>4. \A i \in 1 .. Len(backlog) : backlog[i] = sent - Len(backlog) + i
    BY DEF TurnInv
<1>5. backlog[1] = Answered + 1
    BY <1>1, <1>2, <1>3, <1>4
<1>6. /\ backlog' \in Seq(Nat) /\ Len(backlog') = Len(backlog) - 1
      /\ \A i \in 1 .. Len(backlog') : backlog'[i] = backlog[i + 1]
    BY <1>1, HeadTailProperties
<1>7. \A i \in 1 .. Len(backlog') : backlog'[i] = sent - Len(backlog') + i
    BY <1>1, <1>2, <1>4, <1>6
<1> QED
    BY <1>1, <1>2, <1>3, <1>5, <1>6, <1>7 DEF Requests

LEMMA TurnStep ==
    ASSUME TurnInv, [Next]_vars
    PROVE  TurnInv' /\ [Promise!Next]_(Promise!vars)
<1>1. /\ sent \in 0 .. MaxRequests /\ sent \in Nat /\ MaxRequests \in Nat /\ backlog \in Seq(Nat) /\ argv \in Nat
      /\ answer \in [Requests -> Answers] /\ Answered \in Nat
      /\ argv # NoRequest => argv = Answered + 1
      /\ \A i \in 1 .. Len(backlog) : backlog[i] = sent - Len(backlog) + i
      /\ Len(backlog) \in Nat
    BY ControlAssumption DEF TurnInv
<1>2. CASE UNCHANGED <<sent, backlog, argv, answer>> /\ (guiPc \in Down => guiPc' \in Down)
  <2>1. Answered' = Answered /\ Replied' = Replied
    BY <1>2 DEF Answered, Replied
  <2>2. TurnInv'
    BY <1>1, <1>2, <2>1 DEF TurnInv
  <2>3. CASE guiPc' \in Down <=> guiPc \in Down
    <3>1. (guiPc' \notin {"crash", "ended"}) = (guiPc \notin {"crash", "ended"})
      BY <2>3 DEF Down
    <3> QED
      BY <1>2, <2>1, <2>2, <3>1 DEF Promise!vars
  <2>4. CASE guiPc \notin Down /\ guiPc' \in Down
    <3>1. (guiPc' \notin {"crash", "ended"}) = FALSE /\ guiPc \notin {"crash", "ended"}
      BY <2>4 DEF Down
    <3>2. Promise!Stop
      BY <1>2, <2>1, <3>1 DEF Promise!Stop
    <3> QED
      BY <2>2, <3>2 DEF Promise!Next
  <2> QED
    BY <1>2, <2>3, <2>4
<1>3. CASE ClientSend
  <2>1. /\ sent' = sent + 1 /\ sent < MaxRequests /\ backlog' = Append(backlog, sent + 1)
        /\ UNCHANGED <<argv, answer, guiPc>>
    BY <1>3 DEF ClientSend, serverVars
  <2>2. /\ backlog' \in Seq(Nat) /\ Len(backlog') = Len(backlog) + 1
        /\ \A i \in 1 .. Len(backlog) : backlog'[i] = backlog[i]
        /\ backlog'[Len(backlog) + 1] = sent + 1
    <3>1. sent + 1 \in Nat
      BY <1>1
    <3> QED
      BY <1>1, <2>1, <3>1, AppendProperties
  <2>3. Answered' = Answered
    BY <1>1, <2>1, <2>2 DEF Answered
  <2>4. Replied' = Replied
    BY <2>1, <2>3 DEF Replied
  <2>5. \A i \in 1 .. Len(backlog') : backlog'[i] = sent' - Len(backlog') + i
    <3>1. PICK k \in Nat : k = Len(backlog)
      BY <1>1
    <3>2. Len(backlog') = k + 1
      BY <2>2, <3>1
    <3>3. \A i \in 1 .. k : backlog'[i] = sent - k + i
      BY <1>1, <2>2, <3>1
    <3>4. backlog'[k + 1] = sent + 1
      BY <2>2, <3>1
    <3>5. ASSUME NEW i \in 1 .. (k + 1)
          PROVE  backlog'[i] = (sent + 1) - (k + 1) + i
      <4>1. CASE i = k + 1
        BY <1>1, <3>4, <4>1
      <4>2. CASE i \in 1 .. k
        <5>1. backlog'[i] = sent - k + i
          BY <3>3, <4>2
        <5> QED
          BY <1>1, <4>2, <5>1
      <4> QED
        BY <4>1, <4>2
    <3> QED
      BY <2>1, <3>2, <3>5
  <2>6. TurnInv'
    BY <1>1, <2>1, <2>2, <2>3, <2>5 DEF TurnInv
  <2>7. Promise!Ask
    BY <2>1, <2>4 DEF Promise!Ask
  <2> QED
    BY <2>6, <2>7 DEF Promise!Next
<1>4. ASSUME NEW kind \in Answers \ {"none"}, Reply(kind),
             UNCHANGED <<sent, backlog>>, guiPc' \in Down <=> guiPc \in Down
      PROVE  TurnInv' /\ [Promise!Next]_(Promise!vars)
  <2>1. CASE argv = NoRequest
    <3>1. argv' = argv /\ answer' = answer
      BY <1>4, <2>1 DEF Reply
    <3> QED
      BY <1>2, <1>4, <3>1
  <2>2. CASE argv # NoRequest
    <3>1. argv' = NoRequest /\ answer' = [answer EXCEPT ![argv] = kind] /\ argv = Answered + 1
      BY <1>1, <1>4, <2>2 DEF Reply
    <3>2. Answered = sent - Len(backlog) - 1 /\ Answered' = sent - Len(backlog)
      <4>1. /\ Answered = sent - Len(backlog) - 1
            /\ Answered' = sent - Len(backlog) - 0
        BY <1>4, <2>2, <3>1 DEF Answered, NoRequest
      <4> QED
        BY <1>1, <4>1
    <3>3. Answered' = Answered + 1 /\ Answered < sent /\ argv \in Requests
      BY <1>1, <3>1, <3>2 DEF Requests
    <3>4. Promise!Answer
      BY <1>4, <3>1, <3>3, NextReply
    <3>5. answer' \in [Requests -> Answers]
      BY <1>1, <3>1
    <3>6. TurnInv'
      BY <1>1, <1>4, <3>1, <3>3, <3>5 DEF TurnInv, NoRequest
    <3> QED
      BY <3>4, <3>6 DEF Promise!Next
  <2> QED
    BY <2>1, <2>2
<1>5. ASSUME Accept, NEW kind \in Answers \ {"none"}, ReplyToAccepted(kind),
             sent' = sent, guiPc' \in Down <=> guiPc \in Down
      PROVE  TurnInv' /\ [Promise!Next]_(Promise!vars)
  <2>1. answer' = [answer EXCEPT ![Head(backlog)] = kind] /\ argv' = argv
    BY <1>5 DEF ReplyToAccepted
  <2>2. /\ argv = NoRequest /\ Answered = sent - Len(backlog) /\ Head(backlog) = Answered + 1
        /\ Head(backlog) \in 1 .. sent /\ Head(backlog) \in Requests /\ Len(backlog) \in Nat \ {0}
        /\ backlog' \in Seq(Nat) /\ Len(backlog') = Len(backlog) - 1
        /\ \A i \in 1 .. Len(backlog') : backlog'[i] = sent - Len(backlog') + i
    BY <1>5, AcceptTurn
  <2>3. Answered' = sent - (Len(backlog) - 1)
    BY <1>1, <1>5, <2>1, <2>2 DEF Answered
  <2>4. Answered' = Answered + 1 /\ Answered < sent
    BY <1>1, <2>2, <2>3
  <2>5. Promise!Answer
    BY <1>5, <2>1, <2>2, <2>4, NextReply
  <2>6. answer' \in [Requests -> Answers]
    BY <1>1, <2>1
  <2>7. TurnInv'
    BY <1>1, <1>5, <2>1, <2>2, <2>4, <2>6 DEF TurnInv
  <2> QED
    BY <2>5, <2>7 DEF Promise!Next
<1>6. CASE Accept /\ argv' = Head(backlog) /\ UNCHANGED <<sent, answer>> /\ (guiPc' \in Down <=> guiPc \in Down)
  <2>1. /\ argv = NoRequest /\ Answered = sent - Len(backlog) /\ Head(backlog) = Answered + 1
        /\ Head(backlog) \in 1 .. sent /\ Len(backlog) \in Nat \ {0}
        /\ backlog' \in Seq(Nat) /\ Len(backlog') = Len(backlog) - 1
        /\ \A i \in 1 .. Len(backlog') : backlog'[i] = sent - Len(backlog') + i
    BY <1>6, AcceptTurn
  <2>2. argv' # NoRequest
    BY <1>1, <1>6, <2>1 DEF NoRequest
  <2>3. Answered' = sent - (Len(backlog) - 1) - 1
    BY <1>6, <2>1, <2>2 DEF Answered
  <2>4. Answered' = Answered
    BY <1>1, <2>1, <2>3
  <2>5. Replied' = Replied
    BY <1>6, <2>4 DEF Replied
  <2>6. TurnInv'
    BY <1>1, <1>6, <2>1, <2>4 DEF TurnInv
  <2>7. (guiPc' \notin {"crash", "ended"}) = (guiPc \notin {"crash", "ended"})
    BY <1>6 DEF Down
  <2> QED
    BY <1>6, <2>5, <2>6, <2>7 DEF Promise!vars
<1> QED
    BY <1>2, <1>3, <1>4, <1>5, <1>6, StepKinds

\* Control implements Replies, but for its fairness: whichever thread answers, and
\* whatever is aborted, killed or left behind, the requests get their replies in the order
\* in which they were sent, each one reply, which nothing changes afterwards.
THEOREM RepliesInOrder == Spec => Promise!Init /\ [][Promise!Next]_(Promise!vars)
<1>1. TurnInv /\ [Next]_vars => TurnInv' /\ [Promise!Next]_(Promise!vars)
    BY TurnStep
<1> QED
    BY <1>1, TurnBegins, PTL DEF Spec
=============================================================================
