---------------------------- MODULE Sweep_proofs ----------------------------
(* Proofs about the sweeps of Sweep, for any number of sweeps and any links. *)
EXTENDS Sweep, FiniteSetTheorems, TLAPS

\* What a request is made of.
LEMMA RequestFacts ==
    /\ 0 \in Dirs /\ 1 \in Dirs /\ -1 \in Dirs
    /\ \A d \in Dirs : Req(d, FALSE) \in Requests /\ Req(d, TRUE) \in Requests /\ -d \in Dirs
    /\ Stop \in Requests
    /\ NoRequest \notin Requests
    /\ \A r \in Requests : r[1] \in Dirs /\ r[2] \in BOOLEAN
<1>1. 0 \in Dirs /\ 1 \in Dirs /\ -1 \in Dirs
    BY DEF Dirs
<1>7. ASSUME NEW d \in Dirs
      PROVE  -d \in Dirs
  <2>1. d = -1 \/ d = 0 \/ d = 1
      BY DEF Dirs
  <2>2. d \in Int /\ -d = 0 - d /\ -1 = 0 - 1
      BY <2>1
  <2>3. -d = 1 \/ -d = 0 \/ -d = -1
      BY <2>1, <2>2
  <2> QED
      BY <1>1, <2>3
<1>2. \A d \in Dirs, h \in BOOLEAN : Req(d, h) \in Requests
    BY DEF Requests
<1>3. ASSUME NEW d \in Dirs
      PROVE  Req(d, FALSE) \in Requests /\ Req(d, TRUE) \in Requests
    BY <1>2, FALSE \in BOOLEAN, TRUE \in BOOLEAN
<1>4. Stop \in Requests
    BY <1>1, <1>3 DEF Stop
<1>5. NoRequest \notin Requests
    BY DEF Requests, Req, NoRequest
<1>6. \A r \in Requests : r[1] \in Dirs /\ r[2] \in BOOLEAN
    BY DEF Requests, Req
<1> QED
    BY <1>1, <1>3, <1>4, <1>5, <1>6, <1>7

\* The assumption about N, as the proofs use it.
LEMMA SweepFacts ==
    N \in Nat /\ 1 \in Sweeps /\ N \in Sweeps /\ \A s \in Sweeps : s \in Nat /\ s \in 0 .. N
BY SweepAssumption DEF Sweeps

\* Where the two threads are.
ThreadsOK ==
    /\ mutex \in Threads \cup {"none"}
    /\ phase \in [Threads -> Phases]
    /\ head \in [Threads -> Sweeps]
    /\ last \in [Threads -> Sweeps]
    /\ cur \in [Threads -> 0 .. N]
    /\ arg \in [Threads -> Requests]

LEMMA BeginType ==
    ASSUME ThreadsOK, NEW t \in Threads, NEW ph \in Phases, NEW from \in Sweeps, NEW to \in Sweeps,
           NEW r \in Requests, Begin(t, ph, from, to, r), mutex' \in Threads \cup {"none"}
    PROVE  ThreadsOK'
BY SweepFacts DEF ThreadsOK, Begin

LEMMA TypeInit == Init => TypeOK
<1> SUFFICES ASSUME Init PROVE TypeOK
    OBVIOUS
<1> USE DEF Init
<1>1. /\ inv \in Sweeps /\ holding \subseteq Sweeps /\ dirDirty \subseteq Sweeps
      /\ jumpDirty \subseteq Sweeps /\ scanning \in BOOLEAN /\ guiFlush \in BOOLEAN
      /\ mutex \in Threads \cup {"none"} /\ commanded \subseteq Sweeps /\ raced \in BOOLEAN
      /\ late \subseteq Sweeps
    BY SweepAssumption
<1>6. ops \in 0 .. MaxOps
    BY SweepAssumption
<1>2. dir \in [Sweeps -> Dirs] /\ shown \in [Sweeps -> Dirs \cup {Mixed}]
    BY RequestFacts
<1>3. request \in [Sweeps -> Requests \cup {NoRequest}] /\ arg \in [Threads -> Requests]
    BY RequestFacts
<1>4. follower \in [Sweeps -> 0 .. N]
    BY SweepAssumption DEF Sweeps
<1>5. /\ phase \in [Threads -> Phases] /\ head \in [Threads -> Sweeps]
      /\ last \in [Threads -> Sweeps] /\ cur \in [Threads -> 0 .. N]
    BY SweepFacts DEF Phases
<1> QED
    BY <1>1, <1>2, <1>3, <1>4, <1>5, <1>6 DEF TypeOK

LEMMA TypeStep == TypeOK /\ [Next]_vars => TypeOK'
<1> SUFFICES ASSUME TypeOK, [Next]_vars
             PROVE  TypeOK'
    OBVIOUS
<1>1. ThreadsOK
    BY DEF TypeOK, ThreadsOK
<1>2. /\ "gui" \in Threads /\ "daq" \in Threads
      /\ {"idle", "decide", "request", "exec", "pass_request", "pass_exec"} = Phases
      /\ \A t \in Threads : head[t] \in Sweeps
      /\ \A t \in Threads : head[t] < last[t] => head[t] + 1 \in Sweeps
    BY SweepAssumption DEF Threads, Phases, TypeOK, Sweeps
<1>3. ASSUME NEW t \in Threads, Request(t)
      PROVE  TypeOK'
  <2>1. cur[t] \in Sweeps
      BY <1>3, SweepAssumption DEF Request, Takes, TypeOK, Sweeps
  <2>2. arg[t] \in Requests /\ arg[t][1] \in Dirs
      BY RequestFacts DEF TypeOK
  <2>3. request' \in [Sweeps -> Requests \cup {NoRequest}]
      BY <1>3, <2>1, <2>2 DEF Request, TypeOK
  <2>4. cur' \in [Threads -> 0 .. N]
      BY <1>3, <2>1 DEF Request, TypeOK
  <2>5. arg' \in [Threads -> Requests]
      BY <1>3, <2>2, RequestFacts DEF Request, TypeOK
  <2> QED
      BY <1>3, <2>3, <2>4, <2>5 DEF Request, TypeOK, screen, history
<1>4. ASSUME NEW t \in Threads, RequestDone(t)
      PROVE  TypeOK'
  <2>1. arg' \in [Threads -> Requests]
      BY <1>4, RequestFacts DEF RequestDone, TypeOK
  <2>2. phase' \in [Threads -> Phases]
      BY <1>4, <1>2 DEF RequestDone, TypeOK
  <2>3. ASSUME phase[t] = "pass_request", head[t] < last[t],
               head' = [head EXCEPT ![t] = head[t] + 1], cur' = [cur EXCEPT ![t] = head[t] + 1]
        PROVE  head' \in [Threads -> Sweeps] /\ cur' \in [Threads -> 0 .. N]
    <3>1. head[t] + 1 \in Sweeps /\ head[t] + 1 \in 0 .. N
        BY <1>2, <2>3, SweepFacts
    <3> QED
        BY <2>3, <3>1 DEF TypeOK
  <2>4. head' \in [Threads -> Sweeps] /\ cur' \in [Threads -> 0 .. N]
    <3>1. head[t] \in Sweeps /\ head[t] \in 0 .. N /\ 1 \in Sweeps /\ 1 \in 0 .. N
        BY <1>2, SweepFacts
    <3> QED
        BY <1>4, <2>3, <3>1 DEF RequestDone, TypeOK
  <2> QED
      BY <1>4, <2>1, <2>2, <2>4 DEF RequestDone, TypeOK, state, screen, history
<1>5. ASSUME NEW t \in Threads, Exec(t)
      PROVE  TypeOK'
  <2>1. cur[t] \in Sweeps
      BY <1>5, SweepAssumption DEF Exec, Executes, TypeOK, Sweeps
  <2>2. request[cur[t]] \in Requests
      BY <1>5, <2>1 DEF Exec, Executes, Pending, TypeOK
  <2>3. dir' \in [Sweeps -> Dirs]
      BY <1>5, <2>1, <2>2, RequestFacts DEF Exec, TypeOK
  <2>4. request' \in [Sweeps -> Requests \cup {NoRequest}]
      BY <1>5, <2>1 DEF Exec, TypeOK
  <2>5. cur' \in [Threads -> 0 .. N]
      BY <1>5, <2>1 DEF Exec, TypeOK
  <2>6. holding' \subseteq Sweeps /\ dirDirty' \subseteq Sweeps /\ commanded' \subseteq Sweeps
        /\ late' \subseteq Sweeps
      BY <1>5, <2>1 DEF Exec, TypeOK
  <2> QED
      BY <1>5, <2>3, <2>4, <2>5, <2>6 DEF Exec, TypeOK, screen
<1>6. ASSUME NEW t \in Threads, ExecDone(t)
      PROVE  TypeOK'
  <2>1. ThreadsOK'
    <3>1. CASE head[t] < last[t]
        BY <1>6, <3>1, <1>1, <1>2, SweepFacts DEF ExecDone, ThreadsOK
    <3>2. CASE ~(head[t] < last[t])
        BY <1>6, <3>2, <1>1, <1>2, SweepFacts, RequestFacts DEF ExecDone, Finish, ThreadsOK
    <3> QED
        BY <3>1, <3>2
  <2> QED
      BY <1>6, <2>1 DEF ExecDone, TypeOK, ThreadsOK, state, screen, history
<1>7. ASSUME NEW s \in Sweeps, NEW d \in Dirs, GuiDirection(s, d)
      PROVE  TypeOK'
  <2>1. ThreadsOK'
      BY <1>7, <1>1, <1>2, BeginType, RequestFacts DEF GuiDirection, Lock
  <2> QED
      BY <1>7, <2>1, SweepAssumption DEF GuiDirection, Operation, TypeOK, ThreadsOK, state
<1>8. ASSUME NEW s \in Sweeps, GuiJump(s)
      PROVE  TypeOK'
  <2>1. ThreadsOK'
      BY <1>8, <1>1, <1>2, BeginType, RequestFacts DEF GuiJump, Lock
  <2> QED
      BY <1>8, <2>1, SweepAssumption DEF GuiJump, Operation, TypeOK, ThreadsOK, state, screen
<1>9. CASE GuiStopAll
  <2>1. ThreadsOK'
      BY <1>9, <1>1, <1>2, BeginType, RequestFacts, SweepFacts DEF GuiStopAll, Lock
  <2> QED
      BY <1>9, <2>1, SweepAssumption DEF GuiStopAll, Operation, TypeOK, ThreadsOK, state, screen
<1>10. CASE GuiShow
    BY <1>10 DEF GuiShow, TypeOK, state, threads
<1>11. CASE GuiClearDirty
    BY <1>11 DEF GuiClearDirty, TypeOK, threads, history
<1>12. CASE SetScanning
    BY <1>12, SweepAssumption DEF SetScanning, Operation, TypeOK, state, screen, threads, history
<1>13. CASE NewSession
    BY <1>13, SweepAssumption DEF NewSession, Operation, TypeOK, state, screen, threads
<1>14. ASSUME NEW s \in Sweeps, NEW d \in Dirs, DaqDirection(s, d)
      PROVE  TypeOK'
  <2>1. ThreadsOK'
      BY <1>14, <1>1, <1>2, BeginType, RequestFacts DEF DaqDirection, Lock
  <2> QED
      BY <1>14, <2>1, SweepAssumption DEF DaqDirection, Operation, TypeOK, ThreadsOK, state, screen, history
<1>15. ASSUME NEW s \in Sweeps, DaqSetDac(s)
      PROVE  TypeOK'
  <2>1. ThreadsOK'
      BY <1>15, <1>1, <1>2, BeginType, RequestFacts DEF DaqSetDac, ThreadsOK
  <2> QED
      BY <1>15, <2>1, SweepAssumption DEF DaqSetDac, Operation, TypeOK, ThreadsOK, state, screen
<1>16. CASE DaqStopAll
  <2>1. ThreadsOK'
      BY <1>16, <1>1, <1>2, BeginType, RequestFacts, SweepFacts DEF DaqStopAll, Lock, TypeOK
  <2> QED
      BY <1>16, <2>1, SweepAssumption DEF DaqStopAll, Operation, TypeOK, ThreadsOK, state, screen, history
<1>17. CASE GuiLinkClear
    BY <1>17, SweepAssumption, SweepFacts DEF GuiLinkClear, Operation, TypeOK, state, screen, threads
<1>18. CASE GuiLinkSetup
  <2>1. follower' \in [Sweeps -> 0 .. N]
    <3>0. PICK k \in 2 .. inv : \E chain \in [1 .. k -> 1 .. inv] :
              follower' = [s \in Sweeps |->
                             IF \E i \in 1 .. k : chain[i] = s
                             THEN chain[((CHOOSE i \in 1 .. k : chain[i] = s) % k) + 1]
                             ELSE follower[s]]
        BY <1>18 DEF GuiLinkSetup
    <3>1. PICK chain \in [1 .. k -> 1 .. inv] :
              follower' = [s \in Sweeps |->
                             IF \E i \in 1 .. k : chain[i] = s
                             THEN chain[((CHOOSE i \in 1 .. k : chain[i] = s) % k) + 1]
                             ELSE follower[s]]
        BY <3>0
    <3>2. inv \in Nat /\ inv <= N /\ k \in Nat /\ k > 0
        BY SweepAssumption DEF TypeOK, Sweeps
    <3>3. ASSUME NEW s \in Sweeps, NEW i \in 1 .. k, chain[i] = s
          PROVE  chain[((CHOOSE j \in 1 .. k : chain[j] = s) % k) + 1] \in 0 .. N
      <4>1. PICK j : j = CHOOSE x \in 1 .. k : chain[x] = s
          OBVIOUS
      <4>2. j \in 1 .. k
          BY <3>3, <4>1
      <4>3. (j % k) + 1 \in 1 .. k
          BY <3>2, <4>2
      <4>4. chain[(j % k) + 1] \in 1 .. inv
          BY <3>1, <4>3
      <4>5. \A c \in 1 .. inv : c \in 0 .. N
          BY <3>2, SweepAssumption
      <4> QED
          BY <4>1, <4>4, <4>5
    <3> QED
        BY <3>1, <3>3 DEF TypeOK
  <2> QED
      BY <1>18, <2>1, SweepAssumption DEF GuiLinkSetup, Operation, TypeOK, state, screen, threads
<1>19. CASE DaqPass
  <2>1. ThreadsOK'
      BY <1>19, <1>1, <1>2, BeginType, RequestFacts, SweepFacts DEF DaqPass, Lock, TypeOK
  <2> QED
      BY <1>19, <2>1 DEF DaqPass, TypeOK, ThreadsOK, state, screen, history
<1>20. CASE DaqDecide
  <2>1. head["daq"] \in Sweeps /\ dir[head["daq"]] \in Dirs
      BY <1>2 DEF TypeOK
  <2>2. Decisions(head["daq"]) \subseteq Requests
      BY <2>1, RequestFacts DEF Decisions
  <2>3. arg' \in [Threads -> Requests]
      BY <1>20, <2>2 DEF DaqDecide, TypeOK
  <2>4. phase' \in [Threads -> Phases]
      BY <1>20, <1>2 DEF DaqDecide, TypeOK
  <2>5. head' \in [Threads -> Sweeps] /\ cur' \in [Threads -> 0 .. N]
      BY <1>20, <1>2, SweepFacts DEF DaqDecide, TypeOK
  <2>6. jumpDirty' \subseteq Sweeps
      BY <1>20 DEF DaqDecide, TypeOK
  <2> QED
      BY <1>20, <2>3, <2>4, <2>5, <2>6 DEF DaqDecide, TypeOK, state, screen, history
<1>21. CASE UNCHANGED vars
    BY <1>21 DEF vars, TypeOK, state, screen, threads, history
<1> QED
    BY <1>3, <1>4, <1>5, <1>6, <1>7, <1>8, <1>9, <1>10, <1>11, <1>12, <1>13, <1>14, <1>15,
       <1>16, <1>17, <1>18, <1>19, <1>20, <1>21 DEF Next, Call

\* Every variable keeps its type (the directions, the requests and the positions of
\* the two threads in their loops over the sweeps).
THEOREM TypeInvariant == Spec => []TypeOK
BY TypeInit, TypeStep, PTL DEF Spec
-----------------------------------------------------------------------------
\* What one action does to the positions of the two threads.
LEMMA BeginFacts ==
    ASSUME TypeOK, NEW t \in Threads, NEW ph, NEW from, NEW to, NEW r, Begin(t, ph, from, to, r)
    PROVE  /\ Idle(t)
           /\ phase'[t] = ph /\ head'[t] = from /\ last'[t] = to /\ cur'[t] = from /\ arg'[t] = r
           /\ \A u \in Threads \ {t} : /\ phase'[u] = phase[u] /\ head'[u] = head[u]
                                       /\ last'[u] = last[u] /\ cur'[u] = cur[u]
                                       /\ arg'[u] = arg[u]
BY DEF Begin, TypeOK

LEMMA FinishFacts ==
    ASSUME TypeOK, NEW t \in Threads, Finish(t)
    PROVE  /\ phase'[t] = "idle" /\ cur'[t] = 1
           /\ \A u \in Threads \ {t} : /\ phase'[u] = phase[u] /\ head'[u] = head[u]
                                       /\ last'[u] = last[u] /\ cur'[u] = cur[u]
                                       /\ arg'[u] = arg[u]
           /\ mutex' = IF mutex = t THEN "none" ELSE mutex
BY DEF Finish, TypeOK

LEMMA TwoThreads ==
    /\ "gui" \in Threads /\ "daq" \in Threads
    /\ \A t \in Threads : t = "gui" \/ t = "daq"
    /\ "none" \notin Threads
BY DEF Threads

\* A thread that works in a critical section holds the mutex, and but for
\* set_dac_csf, which raced says has overlapped one, only one thread works.
Alone ==
    /\ ~Idle("gui") <=> mutex = "gui"
    /\ mutex = "daq" => ~Idle("daq")
    /\ ~raced => Idle("gui") \/ Idle("daq")

LEMMA AloneInit == Init => Alone
BY TwoThreads DEF Init, Alone, Idle

\* The calls of a thread leave it in its critical section until Finish.
LEMMA CallAlone ==
    ASSUME TypeOK, Alone, NEW t \in Threads, Call(t)
    PROVE  /\ Alone'
           /\ raced' = raced
           /\ ~Idle(t)
           /\ \A u \in Threads \ {t} : /\ phase'[u] = phase[u] /\ head'[u] = head[u]
                                       /\ last'[u] = last[u] /\ cur'[u] = cur[u]
                                       /\ arg'[u] = arg[u]
<1>1. ~Idle(t) /\ raced' = raced
    BY DEF Call, Request, RequestDone, Exec, ExecDone, Idle, history
<1>2. CASE Request(t) \/ Exec(t)
  <2>1. phase' = phase /\ mutex' = mutex /\ raced' = raced
      BY <1>2 DEF Request, Exec, history
  <2>2. Alone'
      BY <2>1 DEF Alone, Idle
  <2> QED
      BY <1>1, <1>2, <2>2 DEF Request, Exec, TypeOK
<1>3. CASE RequestDone(t)
  <2>1. phase'[t] # "idle" /\ mutex' = mutex
      BY <1>3 DEF RequestDone, TypeOK
  <2>2. \A u \in Threads \ {t} : /\ phase'[u] = phase[u] /\ head'[u] = head[u]
                                   /\ last'[u] = last[u] /\ cur'[u] = cur[u]
                                   /\ arg'[u] = arg[u]
      BY <1>3 DEF RequestDone, TypeOK
  <2>3. \A u \in Threads : Idle(u)' <=> Idle(u)
      BY <1>1, <2>1, <2>2 DEF Idle
  <2> QED
      BY <1>1, <2>1, <2>2, <2>3, TwoThreads DEF Alone
<1>4. CASE ExecDone(t)
  <2>1. CASE head[t] < last[t]
    <3>1. phase'[t] # "idle" /\ mutex' = mutex
        BY <1>4, <2>1 DEF ExecDone, TypeOK
    <3>2. \A u \in Threads \ {t} : /\ phase'[u] = phase[u] /\ head'[u] = head[u]
                                     /\ last'[u] = last[u] /\ cur'[u] = cur[u]
                                     /\ arg'[u] = arg[u]
        BY <1>4, <2>1 DEF ExecDone, TypeOK
    <3>3. \A u \in Threads : Idle(u)' <=> Idle(u)
        BY <1>1, <3>1, <3>2 DEF Idle
    <3> QED
        BY <1>1, <3>1, <3>2, <3>3, TwoThreads DEF Alone
  <2>2. CASE ~(head[t] < last[t])
    <3>1. Finish(t)
        BY <1>4, <2>2 DEF ExecDone
    <3>2. /\ phase'[t] = "idle"
          /\ \A u \in Threads \ {t} : phase'[u] = phase[u]
          /\ mutex' = IF mutex = t THEN "none" ELSE mutex
        BY <3>1, FinishFacts
    <3>3. CASE t = "gui"
      <4>1. Idle("gui")' /\ (Idle("daq")' <=> Idle("daq"))
          BY <3>2, <3>3, TwoThreads DEF Idle
      <4>2. mutex = "gui" /\ mutex' = "none"
          BY <1>1, <3>2, <3>3 DEF Alone
      <4> QED
          BY <1>1, <3>1, <4>1, <4>2, FinishFacts, TwoThreads DEF Alone
    <3>4. CASE t = "daq"
      <4>1. Idle("daq")' /\ (Idle("gui")' <=> Idle("gui"))
          BY <3>2, <3>4, TwoThreads DEF Idle
      <4>2. mutex' # "daq" /\ (mutex' = "gui" <=> mutex = "gui")
          BY <3>2, <3>4
      <4> QED
          BY <1>1, <3>1, <4>1, <4>2, FinishFacts, TwoThreads DEF Alone
    <3> QED
        BY <3>3, <3>4, TwoThreads
  <2> QED
      BY <2>1, <2>2
<1> QED
    BY <1>2, <1>3, <1>4 DEF Call

\* A critical section, or a set_dac_csf, that the GUI or the DAQ thread begins.
GuiBegins(from, to, r) ==
    /\ Lock("gui") /\ Begin("gui", "request", from, to, r)
    /\ raced' = (raced \/ DacUnderWay)

DaqBegins(ph, from, to, r) ==
    /\ Begin("daq", ph, from, to, r)
    /\ \/ Lock("daq") /\ raced' = raced
       \/ mutex' = mutex /\ raced' = (raced \/ mutex # "none")

LEMMA GuiAlone ==
    ASSUME TypeOK, Alone, NEW from, NEW to, NEW r, GuiBegins(from, to, r)
    PROVE  Alone' /\ (~raced' => ~raced /\ Quiet)
<1>1. mutex = "none" /\ mutex' = "gui" /\ Idle("gui") /\ phase'["gui"] = "request"
      /\ phase'["daq"] = phase["daq"]
    BY BeginFacts, TwoThreads DEF GuiBegins, Lock
<1>2. ~raced' => ~raced /\ Idle("daq")
    BY <1>1 DEF GuiBegins, DacUnderWay
<1>3. Alone'
    BY <1>1, <1>2 DEF Alone, Idle
<1> QED
    BY <1>1, <1>2, <1>3, TwoThreads DEF Quiet

LEMMA DaqAlone ==
    ASSUME TypeOK, Alone, NEW ph \in {"request", "decide"}, NEW from, NEW to, NEW r,
           DaqBegins(ph, from, to, r)
    PROVE  Alone' /\ (~raced' => ~raced /\ Quiet)
<1>1. Idle("daq") /\ phase'["daq"] # "idle" /\ phase'["gui"] = phase["gui"]
    BY BeginFacts, TwoThreads DEF DaqBegins
<1>2. ~raced' => ~raced /\ Idle("gui")
    BY DEF DaqBegins, Lock, Alone
<1>3. /\ mutex' = "gui" <=> mutex = "gui"
      /\ ~raced' => Idle("gui")
    BY <1>2, TwoThreads DEF DaqBegins, Lock
<1>4. Alone'
    BY <1>1, <1>3 DEF Alone, Idle
<1> QED
    BY <1>1, <1>2, <1>4, TwoThreads DEF Quiet
LEMMA AloneStep ==
    TypeOK /\ Alone /\ [Next]_vars => Alone' /\ (raced => raced')
<1> SUFFICES ASSUME TypeOK, Alone, [Next]_vars
             PROVE  Alone' /\ (raced => raced')
    OBVIOUS
<1>1. ASSUME NEW t \in Threads, Call(t)
      PROVE  Alone' /\ raced' = raced
    BY <1>1, CallAlone
<1>2. ASSUME NEW from, NEW to, NEW r, GuiBegins(from, to, r)
      PROVE  Alone' /\ (raced => raced')
    BY <1>2, GuiAlone DEF GuiBegins
<1>3. ASSUME NEW ph \in {"request", "decide"}, NEW from, NEW to, NEW r, DaqBegins(ph, from, to, r)
      PROVE  Alone' /\ (raced => raced')
    BY <1>3, DaqAlone DEF DaqBegins
<1>4. ASSUME UNCHANGED <<mutex, phase, raced>>
      PROVE  Alone' /\ (raced => raced')
    BY <1>4 DEF Alone, Idle
<1>5. ASSUME NEW s \in Sweeps, GuiJump(s) \/ DaqSetDac(s)
      PROVE  Alone' /\ (raced => raced')
    BY <1>2, <1>3, <1>5 DEF GuiJump, GuiBegins, DaqSetDac, DaqBegins
<1>6. ASSUME NEW s \in Sweeps, NEW d \in Dirs, GuiDirection(s, d) \/ DaqDirection(s, d)
      PROVE  Alone' /\ (raced => raced')
    BY <1>2, <1>3, <1>6 DEF GuiDirection, GuiBegins, DaqDirection, DaqBegins, history
<1>7. CASE GuiStopAll \/ DaqStopAll \/ DaqPass
    BY <1>2, <1>3, <1>7 DEF GuiStopAll, GuiBegins, DaqStopAll, DaqPass, DaqBegins, history
<1>8. CASE GuiShow \/ GuiClearDirty \/ SetScanning \/ NewSession
    BY <1>4, <1>8 DEF GuiShow, GuiClearDirty, SetScanning, NewSession, threads, history
<1>11. CASE GuiLinkClear \/ GuiLinkSetup
    BY <1>11 DEF GuiLinkClear, GuiLinkSetup, threads, Alone, Idle
<1>9. CASE DaqDecide
  <2>1. ~Idle("daq") /\ ~Idle("daq")' /\ (Idle("gui")' <=> Idle("gui")) /\ UNCHANGED <<mutex, raced>>
      BY <1>9, TwoThreads DEF DaqDecide, Idle, TypeOK, history
  <2> QED
      BY <2>1 DEF Alone
<1>10. CASE UNCHANGED vars
    BY <1>4, <1>10 DEF vars, threads, history
<1> QED
    BY <1>1, <1>5, <1>6, <1>7, <1>8, <1>9, <1>10, <1>11 DEF Next
-----------------------------------------------------------------------------
(* Nothing is left pending.                                                *)

\* p leads from a sweep along n - 1 followers, through no sweep twice.
Path(n, p) ==
    /\ p \in [1 .. n -> Sweeps]
    /\ \A i, j \in 1 .. n : p[i] = p[j] => i = j
    /\ \A i \in 1 .. n : i < n => p[i + 1] = follower[p[i]]

\* request_sweep_dir on its way: the pending sweeps are those it has passed, in the
\* order in which it met them, and the call treats the follower of the last.
RequestedAlong(t, n, p) ==
    /\ Path(n, p)
    /\ \A s \in Sweeps : Pending(s) <=> \E i \in 1 .. n : p[i] = s
    /\ n = 0 => cur[t] = head[t]
    /\ n > 0 => p[1] = head[t] /\ cur[t] = follower[p[n]]

Requested(t) == \E n \in Nat : \E p \in [1 .. n -> Sweeps] : RequestedAlong(t, n, p)

\* exec_sweep_dir on its way along the same sweeps: those from the m-th on are still
\* pending, and the m-th is next.
ToExecAlong(t, n, m, p) ==
    /\ Path(n, p)
    /\ \A s \in Sweeps : Pending(s) <=> \E i \in m .. n : p[i] = s
    /\ m <= n => cur[t] = p[m]

ToExec(t) ==
    \E n \in Nat, m \in Nat \ {0} : \E p \in [1 .. n -> Sweeps] : ToExecAlong(t, n, m, p)

InPass(t) == phase[t] \in {"decide", "pass_request", "pass_exec"}

\* In the second loop of a pass the sweeps before head are done, and head as well
\* once the call has gone on to its followers.
PassDone(t) ==
    /\ \A s \in Sweeps : Pending(s) => s >= head[t]
    /\ Pending(head[t]) => cur[t] = head[t]

PendingOf(t) ==
    /\ phase[t] = "request" => Requested(t)
    /\ phase[t] = "exec" => ToExec(t)
    /\ InPass(t) => head[t] <= last[t] /\ last[t] = inv
    /\ phase[t] = "pass_exec" => PassDone(t)

PendingInv ==
    ~raced => /\ \A s \in Sweeps : Pending(s) => s <= inv
              /\ Quiet => \A s \in Sweeps : ~Pending(s)
              /\ \A t \in Threads : PendingOf(t)

LEMMA CallPending ==
    ASSUME TypeOK, TypeOK', Alone, PendingInv, ~raced, NEW t \in Threads, Call(t)
    PROVE  PendingInv'
<1> USE DEF PendingInv
<1>1. /\ ~Idle(t)
      /\ \A u \in Threads \ {t} : phase[u] = "idle" /\ phase'[u] = "idle"
    BY CallAlone, TwoThreads DEF Alone, Idle
<1>2. \A u \in Threads \ {t} : PendingOf(u)'
    BY <1>1 DEF PendingOf, InPass
<1>3. /\ PendingOf(t)
      /\ \A s \in Sweeps : Pending(s) => s <= inv
      /\ inv' = inv /\ follower' = follower /\ last'[t] \in Sweeps
      /\ inv \in Nat /\ N \in Nat /\ \A s \in Sweeps : s \in 1 .. N
      /\ head[t] \in Sweeps /\ last[t] \in Sweeps /\ cur[t] \in 0 .. N
  <2>1. inv' = inv /\ follower' = follower
      BY DEF Call, Request, RequestDone, Exec, ExecDone
  <2> QED
      BY <2>1, SweepAssumption DEF TypeOK, Sweeps
<1> SUFFICES /\ \A s \in Sweeps : Pending(s)' => s <= inv
             /\ Idle(t)' => \A s \in Sweeps : ~Pending(s)'
             /\ PendingOf(t)'
    BY <1>2, <1>3 DEF Quiet
<1>4. CASE Request(t)
  <2>1. /\ cur[t] \in Sweeps /\ cur[t] <= inv /\ ~Pending(cur[t])
        /\ request' = [request EXCEPT ![cur[t]] = arg[t]]
        /\ cur'[t] = follower[cur[t]]
        /\ phase' = phase /\ head' = head /\ last' = last
        /\ phase[t] \in {"request", "pass_request"}
      BY <1>3, <1>4 DEF Request, Takes, TypeOK, Sweeps
  <2>2. \A s \in Sweeps : Pending(s)' <=> Pending(s) \/ s = cur[t]
      BY <2>1, RequestFacts DEF Pending, TypeOK
  <2>3. CASE phase[t] = "request"
    <3>1. PICK n \in Nat : \E p \in [1 .. n -> Sweeps] : RequestedAlong(t, n, p)
        BY <1>3, <2>3 DEF PendingOf, Requested
    <3>2. PICK p \in [1 .. n -> Sweeps] : RequestedAlong(t, n, p)
        BY <3>1
    <3>0. PICK q : q = [i \in 1 .. n + 1 |-> IF i = n + 1 THEN cur[t] ELSE p[i]]
        OBVIOUS
    <3>3. q \in [1 .. n + 1 -> Sweeps] /\ q[n + 1] = cur[t] /\ \A i \in 1 .. n : q[i] = p[i]
        BY <2>1, <3>0, <3>2 DEF RequestedAlong, ToExecAlong
    <3>4. \A i, j \in 1 .. n + 1 : q[i] = q[j] => i = j
        BY <2>1, <3>2, <3>3 DEF Path, RequestedAlong, ToExecAlong
    <3>5. \A i \in 1 .. n + 1 : i < n + 1 => q[i + 1] = follower[q[i]]
      <4>1. ASSUME NEW i \in 1 .. n + 1, i < n
            PROVE  q[i + 1] = follower[q[i]]
          BY <3>2, <3>3, <4>1 DEF Path, RequestedAlong, ToExecAlong
      <4>2. ASSUME n > 0
            PROVE  q[n + 1] = follower[q[n]]
          BY <3>2, <3>3, <4>2 DEF RequestedAlong
      <4> QED
          BY <4>1, <4>2
    <3>6. Path(n + 1, q)'
        BY <1>3, <3>3, <3>4, <3>5 DEF Path, RequestedAlong, ToExecAlong
    <3>7. \A s \in Sweeps : Pending(s)' <=> \E i \in 1 .. n + 1 : q[i] = s
        BY <2>2, <3>2, <3>3 DEF RequestedAlong, ToExecAlong
    <3>8. q[1] = head[t] /\ cur'[t] = follower[q[n + 1]]
        BY <2>1, <3>2, <3>3 DEF RequestedAlong, ToExecAlong
    <3>9. Requested(t)'
      <4>1. n + 1 \in Nat /\ n + 1 # 0 /\ head'[t] = head[t]
          BY <2>1
      <4>2. RequestedAlong(t, n + 1, q)'
          BY <1>3, <3>6, <3>7, <3>8, <4>1 DEF RequestedAlong
      <4> QED
          BY <3>3, <4>1, <4>2 DEF Requested
    <3> QED
        BY <1>3, <2>1, <2>2, <2>3, <3>9 DEF PendingOf, InPass, Idle
  <2>4. CASE phase[t] = "pass_request"
      BY <1>3, <2>1, <2>2, <2>4 DEF PendingOf, InPass, Idle
  <2> QED
      BY <2>1, <2>3, <2>4
<1>5. CASE RequestDone(t)
  <2>1. /\ ~Takes(cur[t])
        /\ phase[t] \in {"request", "pass_request"}
        /\ \A s \in Sweeps : Pending(s)' <=> Pending(s)
        /\ last' = last
      BY <1>5 DEF RequestDone, Pending, state
  <2>2. CASE phase[t] = "request"
    <3>1. phase'[t] = "exec" /\ cur'[t] = head[t]
        BY <1>5, <2>2 DEF RequestDone, TypeOK
    <3>2. PICK n \in Nat : \E p \in [1 .. n -> Sweeps] : RequestedAlong(t, n, p)
        BY <1>3, <2>2 DEF PendingOf, Requested
    <3>3. PICK p \in [1 .. n -> Sweeps] : RequestedAlong(t, n, p)
        BY <3>2
    <3>4. Path(n, p)'
        BY <1>3, <3>3 DEF Path, RequestedAlong, ToExecAlong
    <3>5. ToExec(t)'
      <4>1. 1 <= n => cur'[t] = p[1]
          BY <3>1, <3>3 DEF RequestedAlong, ToExecAlong
      <4>2. \A s \in Sweeps : Pending(s)' <=> \E i \in 1 .. n : p[i] = s
          BY <2>1, <3>3 DEF RequestedAlong, ToExecAlong
      <4>3. ToExecAlong(t, n, 1, p)'
          BY <3>4, <4>1, <4>2 DEF ToExecAlong
      <4> QED
          BY <4>3, 1 \in Nat \ {0} DEF ToExec
    <3> QED
        BY <1>3, <2>1, <3>1, <3>5 DEF PendingOf, InPass, Idle
  <2>3. CASE phase[t] = "pass_request" /\ head[t] < last[t]
    <3>1. phase'[t] = "decide" /\ head'[t] = head[t] + 1
      <4>1. /\ phase' = [phase EXCEPT ![t] = "decide"]
            /\ head' = [head EXCEPT ![t] = head[t] + 1]
        <5>1. head[t] # last[t]
            BY <1>3, <2>3 DEF Sweeps
        <5> QED
            BY <1>5, <2>3, <5>1 DEF RequestDone
      <4> QED
          BY <4>1 DEF TypeOK
    <3> QED
        BY <1>3, <2>1, <2>3, <3>1 DEF PendingOf, InPass, Idle, Sweeps
  <2>4. CASE phase[t] = "pass_request" /\ head[t] = last[t]
    <3>1. phase'[t] = "pass_exec" /\ head'[t] = 1 /\ cur'[t] = 1
      <4>1. /\ phase' = [phase EXCEPT ![t] = "pass_exec"]
            /\ head' = [head EXCEPT ![t] = 1]
            /\ cur' = [cur EXCEPT ![t] = 1]
        <5>1. ~(head[t] < last[t])
            BY <1>3, <2>4 DEF Sweeps
        <5> QED
            BY <1>5, <2>4, <5>1, Zenon DEF RequestDone
      <4> QED
          BY <4>1 DEF TypeOK
    <3>2. PassDone(t)'
        BY <1>3, <3>1, SweepFacts DEF PassDone
    <3> QED
        BY <1>3, <2>1, <2>4, <3>1, <3>2 DEF PendingOf, InPass, Idle, Sweeps
  <2> QED
      BY <1>3, <1>5, <2>1, <2>2, <2>3, <2>4 DEF RequestDone
<1>6. CASE Exec(t)
  <2>1. /\ cur[t] \in Sweeps /\ cur[t] <= inv /\ Pending(cur[t])
        /\ request' = [request EXCEPT ![cur[t]] = NoRequest]
        /\ cur'[t] = follower[cur[t]]
        /\ phase' = phase /\ head' = head /\ last' = last
        /\ phase[t] \in {"exec", "pass_exec"}
      BY <1>3, <1>6 DEF Exec, Executes, TypeOK, Sweeps
  <2>2. \A s \in Sweeps : Pending(s)' <=> Pending(s) /\ s # cur[t]
      BY <2>1 DEF Pending, TypeOK
  <2>3. CASE phase[t] = "exec"
    <3>1. PICK n \in Nat, m \in Nat \ {0} : \E p \in [1 .. n -> Sweeps] :
              ToExecAlong(t, n, m, p)
        BY <1>3, <2>3 DEF PendingOf, ToExec
    <3>2. PICK p \in [1 .. n -> Sweeps] : ToExecAlong(t, n, m, p)
        BY <3>1
    <3>3. m <= n /\ cur[t] = p[m]
        BY <2>1, <3>2 DEF RequestedAlong, ToExecAlong
    <3>4. m + 1 <= n => cur'[t] = p[m + 1]
        BY <2>1, <3>2, <3>3 DEF Path, RequestedAlong, ToExecAlong
    <3>5. \A s \in Sweeps : Pending(s)' <=> \E i \in m + 1 .. n : p[i] = s
      <4>1. \A i \in m + 1 .. n : i \in m .. n /\ i # m /\ i \in 1 .. n /\ m \in 1 .. n
          BY <3>3
      <4>2. \A i \in m .. n : i # m => i \in m + 1 .. n
          OBVIOUS
      <4> QED
          BY <2>2, <3>2, <3>3, <4>1, <4>2 DEF Path, RequestedAlong, ToExecAlong
    <3>6. Path(n, p)'
        BY <1>3, <3>2 DEF Path, RequestedAlong, ToExecAlong
    <3>7. ToExec(t)'
      <4>1. m + 1 \in Nat \ {0}
          OBVIOUS
      <4>2. ToExecAlong(t, n, m + 1, p)'
          BY <3>4, <3>5, <3>6, <4>1 DEF ToExecAlong
      <4> QED
          BY <3>2, <4>1, <4>2 DEF ToExec
    <3> QED
        BY <1>3, <2>1, <2>2, <2>3, <3>7 DEF PendingOf, InPass, Idle
  <2>4. CASE phase[t] = "pass_exec"
    <3>1. PassDone(t)'
        BY <1>3, <2>1, <2>2, <2>4 DEF PendingOf, PassDone
    <3> QED
        BY <1>3, <2>1, <2>2, <2>4, <3>1 DEF PendingOf, InPass, Idle
  <2> QED
      BY <2>1, <2>3, <2>4
<1>7. CASE ExecDone(t)
  <2>1. /\ ~Executes(cur[t])
        /\ phase[t] \in {"exec", "pass_exec"}
        /\ \A s \in Sweeps : Pending(s)' <=> Pending(s)
      BY <1>7 DEF ExecDone, Pending, state
  <2>2. ASSUME NEW s \in Sweeps, Pending(s)
        PROVE  s # cur[t]
      BY <1>3, <2>1, <2>2 DEF Executes, Sweeps
  <2>3. phase[t] = "exec" => \A s \in Sweeps : ~Pending(s)
    <3>1. SUFFICES ASSUME phase[t] = "exec", NEW s \in Sweeps, Pending(s)
                   PROVE  FALSE
        OBVIOUS
    <3>2. PICK n \in Nat, m \in Nat \ {0} : \E p \in [1 .. n -> Sweeps] :
              ToExecAlong(t, n, m, p)
        BY <1>3, <3>1 DEF PendingOf, ToExec
    <3>3. PICK p \in [1 .. n -> Sweeps] : ToExecAlong(t, n, m, p)
        BY <3>2
    <3>4. m <= n /\ m \in m .. n /\ m \in 1 .. n
        BY <3>1, <3>3 DEF RequestedAlong, ToExecAlong
    <3>5. p[m] \in Sweeps /\ Pending(p[m])
        BY <3>3, <3>4 DEF RequestedAlong, ToExecAlong
    <3> QED
        BY <2>2, <3>3, <3>4, <3>5 DEF ToExecAlong
  <2>4. phase[t] = "pass_exec" => /\ \A s \in Sweeps : Pending(s) => s >= head[t]
                                  /\ ~Pending(head[t])
      BY <1>3, <2>2 DEF PendingOf, PassDone
  <2>5. CASE head[t] < last[t]
    <3>1. /\ phase'[t] = IF phase[t] = "exec" THEN "request" ELSE phase[t]
          /\ head'[t] = head[t] + 1 /\ cur'[t] = head[t] + 1 /\ last'[t] = last[t]
        BY <1>7, <2>5 DEF ExecDone, TypeOK
    <3>2. phase[t] = "exec" => Requested(t)'
      <4>1. SUFFICES ASSUME phase[t] = "exec"
                     PROVE  Requested(t)'
          OBVIOUS
      <4>2. PICK p : p = [i \in 1 .. 0 |-> 1]
          OBVIOUS
      <4>3. p \in [1 .. 0 -> Sweeps] /\ Path(0, p)'
          BY <4>2 DEF Path, RequestedAlong, ToExecAlong
      <4>4. \A s \in Sweeps : Pending(s)' <=> \E i \in 1 .. 0 : p[i] = s
          BY <2>1, <2>3, <4>1
      <4>5. RequestedAlong(t, 0, p)'
          BY <3>1, <4>1, <4>3, <4>4 DEF RequestedAlong
      <4> QED
          BY <4>3, <4>5, 0 \in Nat DEF Requested
    <3>3. phase[t] = "pass_exec" => PassDone(t)'
        BY <1>3, <2>1, <2>4, <3>1 DEF PassDone, Sweeps
    <3> QED
        BY <1>3, <2>1, <2>5, <3>1, <3>2, <3>3 DEF PendingOf, InPass, Idle, Sweeps
  <2>6. CASE ~(head[t] < last[t])
    <3>1. phase'[t] = "idle"
        BY <1>7, <2>6, FinishFacts DEF ExecDone
    <3>2. \A s \in Sweeps : ~Pending(s)
      <4>1. CASE phase[t] = "exec"
          BY <2>3, <4>1
      <4>2. CASE phase[t] = "pass_exec"
        <5>1. head[t] = inv
            BY <1>3, <2>6, <4>2 DEF PendingOf, InPass, Sweeps
        <5> QED
            BY <1>3, <2>4, <4>2, <5>1 DEF Sweeps
      <4> QED
          BY <2>1, <4>1, <4>2
    <3> QED
        BY <2>1, <3>1, <3>2 DEF PendingOf, InPass
  <2> QED
      BY <2>5, <2>6
<1> QED
    BY <1>4, <1>5, <1>6, <1>7 DEF Call
LEMMA BeginPending ==
    ASSUME TypeOK, PendingInv, Quiet, ~raced, NEW t \in Threads, NEW ph \in {"request", "decide"},
           NEW from \in Sweeps, NEW to \in Sweeps, NEW r, Begin(t, ph, from, to, r),
           ph = "decide" => from <= to /\ to = inv, UNCHANGED <<request, inv>>
    PROVE  PendingInv'
<1>1. \A s \in Sweeps : ~Pending(s) /\ ~Pending(s)'
    BY DEF PendingInv, Pending
<1>2. /\ phase'[t] = ph /\ head'[t] = from /\ last'[t] = to /\ cur'[t] = from
      /\ \A u \in Threads \ {t} : phase'[u] = "idle"
    BY BeginFacts DEF Quiet, Idle
<1>3. Requested(t)'
  <2>1. PICK p : p = [i \in 1 .. 0 |-> 1]
      OBVIOUS
  <2>2. p \in [1 .. 0 -> Sweeps] /\ Path(0, p)'
      BY <2>1 DEF Path
  <2>3. RequestedAlong(t, 0, p)'
      BY <1>1, <1>2, <2>2 DEF RequestedAlong
  <2> QED
      BY <2>2, <2>3, 0 \in Nat DEF Requested
<1>4. \A u \in Threads : PendingOf(u)'
    BY <1>2, <1>3 DEF PendingOf, InPass
<1> QED
    BY <1>1, <1>4 DEF PendingInv

LEMMA StillPending ==
    ASSUME PendingInv, ~raced, UNCHANGED <<inv, request, follower, phase, head, last, cur>>
    PROVE  PendingInv'
<1>1. \A s \in Sweeps : Pending(s)' <=> Pending(s)
    BY DEF Pending
<1>2. Quiet' <=> Quiet
    BY DEF Quiet, Idle
<1>3. ASSUME NEW t \in Threads
      PROVE  PendingOf(t)'
  <2>1. PendingOf(t)
      BY DEF PendingInv
  <2>2. \A n \in Nat : \A p \in [1 .. n -> Sweeps] : Path(n, p)' <=> Path(n, p)
      BY DEF Path
  <2>3. \A n \in Nat : \A p \in [1 .. n -> Sweeps] :
           RequestedAlong(t, n, p) => RequestedAlong(t, n, p)'
      BY <1>1, <2>2 DEF RequestedAlong
  <2>4. \A n \in Nat, m \in Nat \ {0} : \A p \in [1 .. n -> Sweeps] :
           ToExecAlong(t, n, m, p) => ToExecAlong(t, n, m, p)'
      BY <1>1, <2>2 DEF ToExecAlong
  <2>5. (Requested(t) => Requested(t)') /\ (ToExec(t) => ToExec(t)')
      BY <2>3, <2>4 DEF Requested, ToExec
  <2>6. PassDone(t) => PassDone(t)'
      BY DEF PassDone, Pending
  <2>7. InPass(t)' <=> InPass(t)
      BY DEF InPass
  <2> QED
      BY <2>1, <2>5, <2>6, <2>7 DEF PendingOf
<1> QED
    BY <1>1, <1>2, <1>3 DEF PendingInv

\* A new session, and a link change which does not race, find both threads idle.
LEMMA BetweenCalls ==
    ASSUME ~raced', NewSession \/ GuiLinkClear \/ GuiLinkSetup
    PROVE  Quiet
<1>1. Idle("gui") /\ Idle("daq")
    BY DEF NewSession, GuiLinkClear, GuiLinkSetup, DacUnderWay
<1> QED
    BY <1>1, TwoThreads DEF Quiet

\* Nothing changes the links or the channels while a thread works, if none has raced.
LEMMA StillQuiet ==
    ASSUME PendingInv, ~raced, Quiet, UNCHANGED <<request, phase>>
    PROVE  PendingInv'
<1>1. \A s \in Sweeps : ~Pending(s)'
    BY DEF PendingInv, Pending
<1>2. \A t \in Threads : phase'[t] = "idle"
    BY DEF Quiet, Idle
<1> QED
    BY <1>1, <1>2 DEF PendingInv, PendingOf, InPass

LEMMA PendingStep ==
    TypeOK /\ TypeOK' /\ Alone /\ PendingInv /\ [Next]_vars => PendingInv'
<1> SUFFICES ASSUME TypeOK, TypeOK', Alone, PendingInv, [Next]_vars, ~raced'
             PROVE  PendingInv'
    BY DEF PendingInv
<1>0. ~raced
    BY AloneStep
<1>1. ASSUME NEW t \in Threads, Call(t)
      PROVE  PendingInv'
    BY <1>0, <1>1, CallPending
<1>2. ASSUME NEW from \in Sweeps, NEW to \in Sweeps, NEW r, GuiBegins(from, to, r),
             UNCHANGED <<request, inv>>
      PROVE  PendingInv'
    BY <1>0, <1>2, GuiAlone, BeginPending, TwoThreads DEF GuiBegins
<1>3. ASSUME NEW ph \in {"request", "decide"}, NEW from \in Sweeps, NEW to \in Sweeps, NEW r,
             DaqBegins(ph, from, to, r), ph = "decide" => from <= to /\ to = inv,
             UNCHANGED <<request, inv>>
      PROVE  PendingInv'
  <2>1. Quiet
      BY <1>3, DaqAlone
  <2> QED
      BY <1>0, <1>3, <2>1, BeginPending, TwoThreads DEF DaqBegins
<1>4. inv \in Sweeps /\ 1 <= inv
    BY SweepAssumption DEF TypeOK, Sweeps
<1>5. ASSUME NEW s \in Sweeps, GuiJump(s) \/ DaqSetDac(s)
      PROVE  PendingInv'
    BY <1>2, <1>3, <1>5 DEF GuiJump, GuiBegins, DaqSetDac, DaqBegins, state
<1>6. ASSUME NEW s \in Sweeps, NEW d \in Dirs, GuiDirection(s, d) \/ DaqDirection(s, d)
      PROVE  PendingInv'
    BY <1>2, <1>3, <1>6 DEF GuiDirection, GuiBegins, DaqDirection, DaqBegins, history, state
<1>7. CASE GuiStopAll
    BY <1>2, <1>7, SweepFacts DEF GuiStopAll, GuiBegins, state
<1>8. CASE DaqStopAll
    BY <1>3, <1>4, <1>8, SweepFacts DEF DaqStopAll, DaqBegins, history, state
<1>9. CASE DaqPass
    BY <1>3, <1>4, <1>9, SweepFacts DEF DaqPass, DaqBegins, history, state
<1>10. CASE GuiShow \/ GuiClearDirty \/ SetScanning
    BY <1>0, <1>10, StillPending DEF GuiShow, GuiClearDirty, SetScanning, state, threads
<1>11. CASE NewSession \/ GuiLinkClear \/ GuiLinkSetup
  <2>1. Quiet
      BY <1>11, BetweenCalls
  <2> QED
      BY <1>0, <1>11, <2>1, StillQuiet
         DEF NewSession, GuiLinkClear, GuiLinkSetup, state, threads
<1>12. CASE DaqDecide
  <2>1. /\ phase["daq"] = "decide" /\ phase'["daq"] \in {"decide", "pass_request", "pass_exec"}
        /\ UNCHANGED <<inv, request, last>>
        /\ head'["daq"] = head["daq"] \/ (head'["daq"] = head["daq"] + 1 /\ head["daq"] < last["daq"])
              \/ head'["daq"] = 1
        /\ phase'["daq"] = "pass_exec" => head'["daq"] = 1 /\ cur'["daq"] = 1
      BY <1>12, TwoThreads DEF DaqDecide, TypeOK, state
  <2>2. phase["gui"] = "idle" /\ phase'["gui"] = "idle"
      BY <1>0, <1>12, <2>1, TwoThreads DEF DaqDecide, Alone, Idle, TypeOK
  <2>3. \A s \in Sweeps : (Pending(s)' <=> Pending(s)) /\ s >= 1
      BY <2>1, SweepAssumption DEF Pending, Sweeps
  <2>4. PendingOf("daq") /\ InPass("daq") /\ head["daq"] \in Sweeps /\ last["daq"] \in Sweeps
      BY <1>0, <2>1, TwoThreads DEF PendingInv, InPass, TypeOK
  <2>5. head'["daq"] <= last'["daq"] /\ last'["daq"] = inv'
      BY <1>4, <2>1, <2>4 DEF PendingOf, Sweeps
  <2>6. phase'["daq"] = "pass_exec" => PassDone("daq")'
      BY <2>1, <2>3 DEF PassDone
  <2>7. PendingOf("daq")'
      BY <2>1, <2>5, <2>6 DEF PendingOf
  <2>8. PendingOf("gui")'
      BY <2>2 DEF PendingOf, InPass
  <2>9. ~Quiet'
      BY <2>1, TwoThreads DEF Quiet, Idle
  <2> QED
      BY <1>0, <2>1, <2>3, <2>7, <2>8, <2>9, TwoThreads DEF PendingInv
<1>13. CASE UNCHANGED vars
    BY <1>0, <1>13, StillPending DEF vars, state, threads
<1> QED
    BY <1>1, <1>5, <1>6, <1>7, <1>8, <1>9, <1>10, <1>11, <1>12, <1>13 DEF Next

LEMMA PendingInit == Init => PendingInv
BY TwoThreads DEF Init, PendingInv, PendingOf, Pending, InPass, Sweeps, Threads

\* Whatever the links, the sweeps in use and the order in which clicks, commands and
\* the sweeps' own ends come, a critical section of request_sweep_dir and exec_sweep_dir
\* leaves no request behind.  The calls that execute follow the very sweeps that the
\* calls that request went through, in their order (Requested, ToExec); in a pass the
\* second loop reaches every sweep (PassDone).
THEOREM NothingLeft == Spec => []NothingLeftPending
<1>1. Init => TypeOK /\ Alone /\ PendingInv
    BY TypeInit, AloneInit, PendingInit
<1>2. TypeOK /\ Alone /\ PendingInv /\ [Next]_vars => (TypeOK /\ Alone /\ PendingInv)'
    BY TypeStep, AloneStep, PendingStep
<1>3. PendingInv => NothingLeftPending
    BY DEF PendingInv, NothingLeftPending
<1> QED
    BY <1>1, <1>2, <1>3, PTL DEF Spec
-----------------------------------------------------------------------------
(* Leader and follower stay in step.                                       *)

\* What request_sweep_dir hands on with a request.
Passed(r)      == IF r[2] THEN Stop ELSE Req(r[1], FALSE)
Matching(r, q) == q = Passed(r) \/ r = Passed(q)

Settled(a, b) ==
    a \in commanded \/ b \in commanded => a \in commanded /\ b \in commanded /\ Agree(a, b)

Waiting(a, b) ==
    \/ Pending(a) /\ Pending(b) /\ Matching(request[a], request[b])
    \/ ~Pending(a) /\ ~Pending(b)

\* Thread t has requested a and is about to request b.
HalfRequested(t, a, b) ==
    /\ phase[t] \in {"request", "pass_request"}
    /\ Pending(a) /\ ~Pending(b)
    /\ cur[t] = b /\ arg[t] = Passed(request[a])

\* What is requested of b suits what a has done.
Suits(a, r) ==
    \/ a \notin holding /\ r = Req(dir[a], FALSE)
    \/ a \in holding /\ r = Stop
    \/ a \notin holding /\ dir[a] = 0 /\ r[2]

\* Thread t has executed a's request and is about to execute b's.
HalfExecuted(t, a, b) ==
    /\ phase[t] \in {"exec", "pass_exec"}
    /\ ~Pending(a) /\ Pending(b)
    /\ cur[t] = b /\ a \in commanded /\ Suits(a, request[b])

\* Two linked sweeps agree, or a thread is between one and the other.
Together(a, b) ==
    \/ Settled(a, b) /\ Waiting(a, b)
    \/ Settled(a, b) /\ \E t \in Threads : HalfRequested(t, a, b) \/ HalfRequested(t, b, a)
    \/ \E t \in Threads : HalfExecuted(t, a, b) \/ HalfExecuted(t, b, a)

LinkInv == ~raced => \A a, b \in Sweeps : Linked(a, b) => Together(a, b)

LEMMA Symmetric ==
    ASSUME NEW a, NEW b
    PROVE  (Together(a, b) <=> Together(b, a)) /\ (Linked(a, b) <=> Linked(b, a))
<1>1. Settled(a, b) <=> Settled(b, a)
    BY DEF Settled, Agree
<1>2. Waiting(a, b) <=> Waiting(b, a)
    BY DEF Waiting, Matching
<1> QED
    BY <1>1, <1>2 DEF Together, Linked

LEMMA SymmetricNext ==
    ASSUME NEW a, NEW b
    PROVE  Together(a, b)' <=> Together(b, a)'
<1>1. Settled(a, b)' <=> Settled(b, a)'
    BY DEF Settled, Agree
<1>2. Waiting(a, b)' <=> Waiting(b, a)'
    BY DEF Waiting, Matching
<1> QED
    BY <1>1, <1>2 DEF Together

\* request_sweep_dir takes a, of the linked a and b.
LEMMA RequestOne ==
    ASSUME TypeOK, NEW t \in Threads, \A u \in Threads \ {t} : phase[u] = "idle", Request(t),
           NEW a \in Sweeps, NEW b \in Sweeps, Linked(a, b), Together(a, b), cur[t] = a
    PROVE  Together(a, b)'
<1>1. /\ a <= inv /\ ~Pending(a) /\ a # b /\ follower[a] = b
      /\ request' = [request EXCEPT ![a] = arg[t]]
      /\ cur'[t] = b /\ phase' = phase
      /\ arg'[t] = Passed(arg[t])
      /\ phase[t] \in {"request", "pass_request"}
      /\ UNCHANGED <<dir, holding, commanded>>
    BY DEF Request, Takes, Linked, TypeOK, Passed, history
<1>2. /\ request'[a] = arg[t] /\ request'[b] = request[b]
      /\ Pending(a)' /\ (Pending(b)' <=> Pending(b))
    BY <1>1, RequestFacts DEF Pending, TypeOK
<1>3. Settled(a, b) => Settled(a, b)'
    BY <1>1 DEF Settled, Agree
<1>4. CASE Settled(a, b) /\ ~Pending(b)
  <2>1. HalfRequested(t, a, b)'
      BY <1>1, <1>2, <1>4 DEF HalfRequested
  <2> QED
      BY <1>3, <1>4, <2>1 DEF Together
<1>5. CASE Settled(a, b) /\ HalfRequested(t, b, a)
  <2>1. Waiting(a, b)'
      BY <1>2, <1>5 DEF HalfRequested, Waiting, Matching
  <2> QED
      BY <1>3, <1>5, <2>1 DEF Together
<1> QED
    BY <1>1, <1>4, <1>5 DEF Together, Waiting, HalfRequested, HalfExecuted

\* exec_sweep_dir executes the request of a, of the linked a and b.
LEMMA ExecOne ==
    ASSUME TypeOK, NEW t \in Threads, \A u \in Threads \ {t} : phase[u] = "idle", Exec(t),
           NEW a \in Sweeps, NEW b \in Sweeps, Linked(a, b), Together(a, b), cur[t] = a
    PROVE  Together(a, b)'
<1>1. /\ a <= inv /\ Pending(a) /\ a # b /\ follower[a] = b
      /\ request' = [request EXCEPT ![a] = NoRequest]
      /\ dir' = [dir EXCEPT ![a] = request[a][1]]
      /\ holding' = IF request[a][2] THEN holding \cup {a} ELSE holding \ {a}
      /\ commanded' = commanded \cup {a}
      /\ cur'[t] = b /\ phase' = phase
      /\ phase[t] \in {"exec", "pass_exec"}
    BY DEF Exec, Executes, Linked, TypeOK
<1>2. /\ request'[b] = request[b] /\ ~Pending(a)' /\ (Pending(b)' <=> Pending(b))
      /\ dir'[a] = request[a][1] /\ dir'[b] = dir[b]
      /\ a \in holding' <=> request[a][2]
      /\ b \in holding' <=> b \in holding
      /\ a \in commanded' /\ (b \in commanded' <=> b \in commanded)
    BY <1>1 DEF Pending, TypeOK
<1>3. /\ request[a] \in Requests /\ (Pending(b) => request[b] \in Requests)
      /\ Stop[1] = 0 /\ ~Stop[2] /\ \A d \in Dirs : Req(d, FALSE)[1] = d /\ ~Req(d, FALSE)[2]
    BY <1>1 DEF Pending, TypeOK, Stop, Req
<1>4. CASE Pending(b) /\ Matching(request[a], request[b])
  <2>1. Suits(a, request[b])'
    <3>1. CASE request[b] = Passed(request[a])
        BY <1>1, <1>2, <1>3, <3>1 DEF Suits, Passed
    <3>2. CASE request[a] = Passed(request[b]) /\ request[b][2]
        BY <1>1, <1>2, <1>3, <3>2 DEF Suits, Passed
    <3>3. CASE request[a] = Passed(request[b]) /\ ~request[b][2]
      <4>1. request[b] = Req(request[b][1], FALSE)
        <5>1. PICK d \in Dirs, h \in BOOLEAN : request[b] = Req(d, h)
            BY <1>3, <1>4 DEF Requests
        <5>2. request[b][1] = d /\ request[b][2] = h
            BY <5>1 DEF Req
        <5>3. h = FALSE
            BY <3>3, <5>2, Zenon
        <5> QED
            BY <5>1, <5>2, <5>3
      <4>2. request[b][1] \in Dirs
          BY <1>3, <1>4, RequestFacts
      <4> QED
          BY <1>1, <1>2, <1>3, <3>3, <4>1, <4>2 DEF Suits, Passed
    <3> QED
        BY <1>4, <3>1, <3>2, <3>3 DEF Matching
  <2>2. HalfExecuted(t, a, b)'
      BY <1>1, <1>2, <1>4, <2>1 DEF HalfExecuted
  <2> QED
      BY <2>2 DEF Together
<1>5. CASE HalfExecuted(t, b, a)
  <2>1. ~Pending(b) /\ b \in commanded /\ Suits(b, request[a])
      BY <1>5 DEF HalfExecuted
  <2>2. dir[b] \in Dirs
      BY DEF TypeOK
  <2>3. Agree(a, b)'
      BY <1>2, <1>3, <2>1, <2>2 DEF Suits, Agree
  <2>4. Settled(a, b)' /\ Waiting(a, b)'
      BY <1>2, <2>1, <2>3 DEF Settled, Waiting
  <2> QED
      BY <2>4 DEF Together
<1> QED
    BY <1>1, <1>4, <1>5 DEF Together, Waiting, HalfRequested, HalfExecuted
\* A call that treats neither of the two, or finds nothing to do, leaves them as they are.
LEMMA CallPasses ==
    ASSUME TypeOK, NEW t \in Threads, \A u \in Threads \ {t} : phase[u] = "idle", Call(t),
           NEW a \in Sweeps, NEW b \in Sweeps, Linked(a, b), Together(a, b),
           Request(t) \/ Exec(t) => cur[t] # a /\ cur[t] # b
    PROVE  Together(a, b)'
<1>1. Settled(a, b) /\ Waiting(a, b)
  <2>1. SUFFICES ASSUME NEW x \in Sweeps, NEW y \in Sweeps, {x, y} = {a, b},
                        HalfRequested(t, x, y) \/ HalfExecuted(t, x, y)
                 PROVE  FALSE
      BY DEF Together, HalfRequested, HalfExecuted
  <2>2. y \in 1 .. inv /\ cur[t] = y /\ y \in {a, b}
    <3>1. (y = a \/ y = b) /\ cur[t] = y
        BY <2>1, Zenon DEF HalfRequested, HalfExecuted
    <3>2. a \in 1 .. inv /\ b \in 1 .. inv
        BY SweepAssumption DEF Linked, Sweeps, TypeOK
    <3> QED
        BY <3>1, <3>2
  <2>3. RequestDone(t) \/ ExecDone(t)
      BY <2>2 DEF Call
  <2> QED
      BY <2>1, <2>2, <2>3 DEF RequestDone, ExecDone, Takes, Executes, HalfRequested, HalfExecuted
<1>2. /\ request'[a] = request[a] /\ request'[b] = request[b]
      /\ dir'[a] = dir[a] /\ dir'[b] = dir[b]
      /\ a \in holding' <=> a \in holding
      /\ b \in holding' <=> b \in holding
      /\ a \in commanded' <=> a \in commanded
      /\ b \in commanded' <=> b \in commanded
  <2>1. CASE Request(t)
    <3>1. cur[t] # a /\ cur[t] # b /\ request' = [request EXCEPT ![cur[t]] = arg[t]]
          /\ UNCHANGED <<dir, holding, commanded>>
        BY <2>1 DEF Request, history
    <3> QED
        BY <3>1 DEF TypeOK
  <2>2. CASE Exec(t)
    <3>1. PICK c : c = cur[t]
        OBVIOUS
    <3>2. /\ c # a /\ c # b
          /\ request' = [request EXCEPT ![c] = NoRequest]
          /\ dir' = [dir EXCEPT ![c] = request[c][1]]
          /\ holding' = IF request[c][2] THEN holding \cup {c} ELSE holding \ {c}
          /\ commanded' = commanded \cup {c}
        BY <2>2, <3>1 DEF Exec
    <3> QED
        BY <3>2 DEF TypeOK
  <2>3. CASE RequestDone(t) \/ ExecDone(t)
      BY <2>3 DEF RequestDone, ExecDone, state, history
  <2> QED
      BY <2>1, <2>2, <2>3 DEF Call
<1>3. Settled(a, b)' /\ Waiting(a, b)'
    BY <1>1, <1>2 DEF Settled, Agree, Waiting, Pending
<1> QED
    BY <1>3 DEF Together

LEMMA CallLink ==
    ASSUME TypeOK, Alone, LinkInv, ~raced, NEW t \in Threads, Call(t)
    PROVE  LinkInv'
<1>1. \A u \in Threads \ {t} : phase[u] = "idle"
    BY CallAlone, TwoThreads DEF Alone, Idle
<1>2. inv' = inv /\ follower' = follower
    BY DEF Call, Request, RequestDone, Exec, ExecDone
<1>3. SUFFICES ASSUME NEW a \in Sweeps, NEW b \in Sweeps, Linked(a, b)
               PROVE  Together(a, b)'
    BY <1>2 DEF LinkInv, Linked
<1>4. Together(a, b) /\ Together(b, a) /\ Linked(b, a)
    BY <1>3, Symmetric DEF LinkInv
<1>5. CASE (Request(t) \/ Exec(t)) /\ cur[t] = a
    BY <1>1, <1>3, <1>4, <1>5, RequestOne, ExecOne
<1>6. CASE (Request(t) \/ Exec(t)) /\ cur[t] = b
  <2>1. Together(b, a)'
      BY <1>1, <1>4, <1>6, RequestOne, ExecOne
  <2>2. Together(a, b)' <=> Together(b, a)'
      BY SymmetricNext
  <2> QED
      BY <2>1, <2>2
<1>7. CASE Request(t) \/ Exec(t) => cur[t] # a /\ cur[t] # b
    BY <1>1, <1>3, <1>4, <1>7, CallPasses
<1> QED
    BY <1>5, <1>6, <1>7

\* Steps that change neither directions, requests nor links, with nobody half way.
LEMMA StillTogether ==
    ASSUME LinkInv, ~raced, UNCHANGED <<inv, follower, dir, holding, request, commanded>>,
           \A t \in Threads : phase[t] \in {"idle", "decide"} \/ UNCHANGED <<phase, cur, arg>>
    PROVE  LinkInv'
<1>1. SUFFICES ASSUME NEW a \in Sweeps, NEW b \in Sweeps, Linked(a, b)
               PROVE  Together(a, b)'
    BY DEF LinkInv, Linked
<1>2. Together(a, b)
    BY <1>1 DEF LinkInv
<1>3. (Settled(a, b) => Settled(a, b)') /\ (Waiting(a, b) => Waiting(a, b)')
    BY DEF Settled, Agree, Waiting, Pending
<1>4. ASSUME NEW t \in Threads, NEW x, NEW y
      PROVE  /\ HalfRequested(t, x, y) => HalfRequested(t, x, y)'
             /\ HalfExecuted(t, x, y) => HalfExecuted(t, x, y)'
    BY <1>4 DEF HalfRequested, HalfExecuted, Pending, Suits
<1> QED
    BY <1>2, <1>3, <1>4 DEF Together

LEMMA LinkStep ==
    TypeOK /\ Alone /\ PendingInv /\ LinkInv /\ [Next]_vars => LinkInv'
<1> SUFFICES ASSUME TypeOK, Alone, PendingInv, LinkInv, [Next]_vars, ~raced'
             PROVE  LinkInv'
    BY DEF LinkInv
<1>0. ~raced
    BY AloneStep
<1>1. ASSUME NEW t \in Threads, Call(t)
      PROVE  LinkInv'
    BY <1>0, <1>1, CallLink
<1>2. ASSUME Quiet, UNCHANGED <<inv, follower, dir, holding, request, commanded>>
      PROVE  LinkInv'
    BY <1>0, <1>2, StillTogether DEF Quiet, Idle
<1>3. ASSUME NEW from, NEW to, NEW r, GuiBegins(from, to, r)
      PROVE  Quiet
    BY <1>3, GuiAlone
<1>4. ASSUME NEW ph \in {"request", "decide"}, NEW from, NEW to, NEW r, DaqBegins(ph, from, to, r)
      PROVE  Quiet
    BY <1>4, DaqAlone
<1>5. ASSUME NEW s \in Sweeps, GuiJump(s) \/ DaqSetDac(s)
      PROVE  LinkInv'
    BY <1>2, <1>3, <1>4, <1>5 DEF GuiJump, GuiBegins, DaqSetDac, DaqBegins, state
<1>6. ASSUME NEW s \in Sweeps, NEW d \in Dirs, GuiDirection(s, d) \/ DaqDirection(s, d)
      PROVE  LinkInv'
    BY <1>2, <1>3, <1>4, <1>6 DEF GuiDirection, GuiBegins, DaqDirection, DaqBegins, history, state
<1>7. CASE GuiStopAll \/ DaqStopAll \/ DaqPass
    BY <1>2, <1>3, <1>4, <1>7
       DEF GuiStopAll, GuiBegins, DaqStopAll, DaqPass, DaqBegins, history, state
<1>8. CASE GuiShow \/ SetScanning
    BY <1>0, <1>8, StillTogether DEF GuiShow, SetScanning, state, threads, history
<1>9. CASE GuiClearDirty
    BY <1>0, <1>9, StillTogether DEF GuiClearDirty, threads, history
<1>10. CASE NewSession \/ GuiLinkClear \/ GuiLinkSetup
  <2>1. Quiet
      BY <1>10, BetweenCalls
  <2>2. commanded' = {} /\ request' = request
      BY <1>10 DEF NewSession, GuiLinkClear, GuiLinkSetup, state
  <2>3. \A s \in Sweeps : ~Pending(s)'
      BY <1>0, <2>1, <2>2 DEF PendingInv, Pending
  <2> QED
      BY <2>2, <2>3 DEF LinkInv, Together, Settled, Waiting
<1>11. CASE DaqDecide
  <2>1. phase["daq"] = "decide" /\ UNCHANGED <<inv, follower, dir, holding, request, commanded>>
      BY <1>11 DEF DaqDecide, state, history
  <2>2. phase["gui"] = "idle"
      BY <1>0, <2>1 DEF Alone, Idle
  <2> QED
      BY <1>0, <2>1, <2>2, StillTogether, TwoThreads
<1>12. CASE UNCHANGED vars
    BY <1>0, <1>12, StillTogether DEF vars, state, threads, history
<1> QED
    BY <1>1, <1>5, <1>6, <1>7, <1>8, <1>9, <1>10, <1>11, <1>12 DEF Next

LEMMA LinkInit == Init => LinkInv
BY DEF Init, LinkInv, Together, Settled, Waiting, Pending

\* Two sweeps linked to each other stay in step, whoever commands them and wherever in a
\* longer ring they are: the request that one takes and the one its call hands to the
\* other match, and once both are executed the sweeps go the same way, or one holds at
\* its end and the other has stopped.
THEOREM LeadersInStep == Spec => []LinkedInStep
<1>1. Init => TypeOK /\ Alone /\ PendingInv /\ LinkInv
    BY TypeInit, AloneInit, PendingInit, LinkInit
<1>2. TypeOK /\ Alone /\ PendingInv /\ LinkInv /\ [Next]_vars
         => (TypeOK /\ Alone /\ PendingInv /\ LinkInv)'
    BY TypeStep, AloneStep, PendingStep, LinkStep
<1>3. LinkInv => LinkedInStep
  <2> SUFFICES ASSUME LinkInv, Quiet, ~raced, NEW a \in Sweeps, NEW b \in Sweeps, Linked(a, b)
               PROVE  a \in commanded => b \in commanded /\ Agree(a, b)
      BY DEF LinkedInStep
  <2> QED
      BY DEF LinkInv, Together, HalfRequested, HalfExecuted, Settled, Quiet, Idle
<1> QED
    BY <1>1, <1>2, <1>3, PTL DEF Spec
-----------------------------------------------------------------------------
(* The buttons show the directions.                                        *)

\* Sweep s is about to turn: its request is pending, or a click's call treats it.
Turning(s) ==
    \/ Pending(s) /\ request[s][1] # dir[s]
    \/ /\ phase["gui"] = "request" /\ cur["gui"] = s
       /\ s <= inv /\ ~Pending(s) /\ arg["gui"][1] # dir[s]

Shows(s) == shown[s] = dir[s] \/ s \in late \/ Turning(s)

\* While the GUI thread flushes, it has set every button in use already: it may
\* forget what is dirty.
ShowInv ==
    ~raced => \A s \in Sweeps : /\ s \in dirDirty \/ Shows(s)
                                /\ guiFlush /\ s <= inv => Shows(s)

LEMMA CallShows ==
    ASSUME TypeOK, Alone, ShowInv, ~raced, NEW t \in Threads, Call(t)
    PROVE  ShowInv'
<1>1. /\ ~Idle(t)
      /\ \A u \in Threads \ {t} : phase[u] = "idle" /\ phase'[u] = "idle"
    BY CallAlone, TwoThreads DEF Alone, Idle
<1>2. UNCHANGED <<inv, shown, guiFlush>>
    BY DEF Call, Request, RequestDone, Exec, ExecDone, screen
<1>3. SUFFICES ASSUME NEW s \in Sweeps
               PROVE  /\ s \in dirDirty' \/ Shows(s)'
                      /\ guiFlush /\ s <= inv => Shows(s)'
    BY <1>2 DEF ShowInv
<1>4. /\ s \in dirDirty \/ Shows(s)
      /\ guiFlush /\ s <= inv => Shows(s)
    BY DEF ShowInv
<1>5. CASE Request(t)
  <2>1. /\ cur[t] \in Sweeps /\ ~Pending(cur[t])
        /\ request' = [request EXCEPT ![cur[t]] = arg[t]]
        /\ UNCHANGED <<dir, dirDirty, late>>
        /\ arg[t] \in Requests
      BY <1>5, SweepAssumption DEF Request, Takes, TypeOK, Sweeps, history
  <2>2. Pending(s) => Pending(s)' /\ request'[s] = request[s]
      BY <2>1 DEF Pending, TypeOK
  <2>3. s = cur[t] => Pending(s)' /\ request'[s] = arg[t]
      BY <2>1, RequestFacts DEF Pending, TypeOK
  <2>4. phase["gui"] = "request" => t = "gui"
      BY <1>1, TwoThreads
  <2>5. Turning(s) => Turning(s)'
      BY <2>1, <2>2, <2>3, <2>4 DEF Turning
  <2> QED
      BY <1>2, <1>4, <2>1, <2>5 DEF Shows
<1>6. CASE RequestDone(t) \/ ExecDone(t)
  <2>1. UNCHANGED <<dir, request, dirDirty, late>>
      BY <1>6 DEF RequestDone, ExecDone, state, history
  <2>2. ~(phase["gui"] = "request" /\ cur["gui"] = s /\ s <= inv /\ ~Pending(s))
    <3>1. SUFFICES ASSUME phase["gui"] = "request", cur["gui"] = s, s <= inv, ~Pending(s)
                   PROVE  FALSE
        OBVIOUS
    <3>2. t = "gui"
        BY <1>1, <3>1, TwoThreads
    <3>3. s \in 1 .. inv
        BY <3>1, SweepAssumption DEF Sweeps, TypeOK
    <3> QED
        BY <1>6, <3>1, <3>2, <3>3 DEF RequestDone, ExecDone, Takes
  <2>3. Turning(s) => Turning(s)'
      BY <2>1, <2>2 DEF Turning, Pending
  <2> QED
      BY <1>2, <1>4, <2>1, <2>3 DEF Shows
<1>7. CASE Exec(t)
  <2>1. PICK c : c = cur[t]
      OBVIOUS
  <2>2. PICK r : r = request[c]
      OBVIOUS
  <2>3. /\ c \in Sweeps /\ Pending(c)
        /\ request' = [request EXCEPT ![c] = NoRequest]
        /\ dir' = [dir EXCEPT ![c] = r[1]]
        /\ dirDirty' = IF dir[c] # r[1] THEN dirDirty \cup {c} ELSE dirDirty
        /\ late' = IF guiFlush /\ dir[c] # r[1] THEN late \cup {c} ELSE late
        /\ phase[t] \in {"exec", "pass_exec"}
      BY <1>7, <2>1, <2>2, SweepAssumption DEF Exec, Executes, TypeOK, Sweeps
  <2>4. phase["gui"] # "request"
      BY <1>1, <2>3, TwoThreads
  <2>5. CASE s # c
    <3>1. dir'[s] = dir[s] /\ request'[s] = request[s] /\ (Pending(s)' <=> Pending(s))
        BY <2>3, <2>5 DEF TypeOK, Pending
    <3>2. Turning(s) => Turning(s)'
        BY <2>4, <3>1 DEF Turning
    <3> QED
        BY <1>2, <1>4, <2>3, <3>1, <3>2 DEF Shows
  <2>6. CASE s = c /\ dir[c] # r[1]
    <3>1. s \in dirDirty' /\ (guiFlush => s \in late')
        BY <2>3, <2>6
    <3> QED
        BY <3>1 DEF Shows
  <2>7. CASE s = c /\ dir[c] = r[1]
    <3>1. dir'[s] = dir[s] /\ ~Turning(s)
        BY <2>2, <2>3, <2>4, <2>7 DEF TypeOK, Turning
    <3> QED
        BY <1>2, <1>4, <2>3, <2>7, <3>1 DEF Shows
  <2> QED
      BY <2>5, <2>6, <2>7
<1> QED
    BY <1>5, <1>6, <1>7 DEF Call

\* Steps which leave the screen and the directions alone, nothing being requested.
LEMMA StillShows ==
    ASSUME ShowInv, ~raced, \A s \in Sweeps : ~Turning(s), UNCHANGED <<dir, dirDirty, late>>,
           guiFlush' => guiFlush /\ inv' = inv,
           \A s \in Sweeps : shown'[s] = shown[s] \/ Turning(s)'
    PROVE  ShowInv'
BY DEF ShowInv, Shows

LEMMA ShowStep ==
    TypeOK /\ Alone /\ PendingInv /\ ShowInv /\ [Next]_vars => ShowInv'
<1> SUFFICES ASSUME TypeOK, Alone, PendingInv, ShowInv, [Next]_vars, ~raced'
             PROVE  ShowInv'
    BY DEF ShowInv
<1>0. ~raced
    BY AloneStep
<1>1. ASSUME NEW t \in Threads, Call(t)
      PROVE  ShowInv'
    BY <1>0, <1>1, CallShows
<1>2. ASSUME Quiet
      PROVE  \A s \in Sweeps : ~Turning(s) /\ ~Pending(s)
    BY <1>0, <1>2, TwoThreads DEF PendingInv, Turning, Quiet, Idle
<1>3. ASSUME NEW from, NEW to, NEW r, GuiBegins(from, to, r)
      PROVE  Quiet /\ phase'["gui"] = "request" /\ cur'["gui"] = from /\ arg'["gui"] = r
    BY <1>3, GuiAlone, BeginFacts, TwoThreads DEF GuiBegins
<1>4. ASSUME NEW ph \in {"request", "decide"}, NEW from, NEW to, NEW r, DaqBegins(ph, from, to, r)
      PROVE  Quiet
    BY <1>4, DaqAlone
<1>5. ASSUME Quiet, UNCHANGED <<dir, dirDirty, late, shown>>, guiFlush' => guiFlush /\ inv' = inv
      PROVE  ShowInv'
    BY <1>0, <1>2, <1>5, StillShows
<1>6. ASSUME NEW s \in Sweeps, GuiJump(s) \/ DaqSetDac(s)
      PROVE  ShowInv'
    BY <1>3, <1>4, <1>5, <1>6 DEF GuiJump, GuiBegins, DaqSetDac, DaqBegins, state, screen
<1>7. ASSUME NEW s \in Sweeps, NEW d \in Dirs, DaqDirection(s, d)
      PROVE  ShowInv'
    BY <1>4, <1>5, <1>7 DEF DaqDirection, DaqBegins, history, state, screen
<1>8. CASE GuiStopAll \/ DaqStopAll \/ DaqPass
    BY <1>3, <1>4, <1>5, <1>8
       DEF GuiStopAll, GuiBegins, DaqStopAll, DaqPass, DaqBegins, history, state, screen
<1>9. ASSUME NEW s \in Sweeps, NEW d \in Dirs, GuiDirection(s, d)
      PROVE  ShowInv'
  <2>1. Quiet /\ phase'["gui"] = "request" /\ cur'["gui"] = s /\ arg'["gui"] = Req(d, FALSE)
      BY <1>3, <1>9 DEF GuiDirection, GuiBegins
  <2>2. /\ s <= inv' /\ dir'[s] # d
        /\ \A x \in Sweeps : x # s => shown'[x] = shown[x]
        /\ UNCHANGED <<dir, request, dirDirty, late, guiFlush, inv>>
      BY <1>9 DEF GuiDirection, state, TypeOK
  <2>3. ~Pending(s)' /\ Req(d, FALSE)[1] = d
      BY <1>2, <2>1, <2>2 DEF Pending, Req
  <2>4. Turning(s)'
      BY <2>1, <2>2, <2>3 DEF Turning
  <2> QED
      BY <1>0, <1>2, <2>1, <2>2, <2>4, StillShows
<1>10. CASE GuiShow
  <2>1. /\ shown' = [s \in Sweeps |-> IF s \in dirDirty /\ s <= inv THEN dir[s] ELSE shown[s]]
        /\ late' = late \ (dirDirty \cap 1 .. inv)
        /\ UNCHANGED <<inv, dir, request, dirDirty, phase, cur, arg, raced>>
      BY <1>10 DEF GuiShow, state, threads
  <2>2. ASSUME NEW s \in Sweeps
        PROVE  /\ s \in dirDirty \/ Shows(s)'
               /\ s <= inv => Shows(s)'
    <3>1. s \in dirDirty \/ Shows(s)
        BY <1>0 DEF ShowInv
    <3>2. Turning(s)' <=> Turning(s)
        BY <2>1 DEF Turning, Pending
    <3>3. CASE s \in dirDirty /\ s <= inv
        BY <2>1, <3>3 DEF Shows
    <3>4. CASE ~(s \in dirDirty /\ s <= inv)
      <4>1. shown'[s] = shown[s] /\ (s \in late => s \in late')
          BY <2>1, <3>4, SweepAssumption DEF Sweeps, TypeOK
      <4> QED
          BY <2>1, <3>1, <3>2, <3>4, <4>1 DEF Shows
    <3> QED
        BY <3>3, <3>4
  <2> QED
      BY <2>1, <2>2 DEF ShowInv
<1>11. CASE GuiClearDirty
  <2>1. /\ guiFlush /\ ~guiFlush' /\ dirDirty' = dirDirty \ 1 .. inv
        /\ UNCHANGED <<inv, dir, request, shown, phase, cur, arg, raced, late>>
      BY <1>11 DEF GuiClearDirty, threads, history, TypeOK
  <2>2. \A s \in Sweeps : Shows(s)' <=> Shows(s)
      BY <2>1 DEF Shows, Turning, Pending
  <2>3. \A s \in Sweeps : s \in dirDirty /\ ~(s <= inv) => s \in dirDirty'
      BY <2>1, SweepAssumption DEF Sweeps, TypeOK
  <2> QED
      BY <1>0, <2>1, <2>2, <2>3 DEF ShowInv
<1>12. CASE NewSession \/ GuiLinkClear \/ GuiLinkSetup
  <2>1. Quiet
      BY <1>12, BetweenCalls
  <2> QED
      BY <1>5, <1>12, <2>1 DEF NewSession, GuiLinkClear, GuiLinkSetup, state, screen
<1>13. CASE SetScanning \/ DaqDecide \/ UNCHANGED vars
  <2>1. UNCHANGED <<inv, dir, request, dirDirty, shown, guiFlush, late, raced>>
      BY <1>13 DEF SetScanning, DaqDecide, vars, state, screen, history
  <2>2. phase'["gui"] = phase["gui"] /\ cur'["gui"] = cur["gui"] /\ arg'["gui"] = arg["gui"]
      BY <1>13, TwoThreads DEF SetScanning, DaqDecide, vars, threads, TypeOK
  <2>3. \A s \in Sweeps : Shows(s)' <=> Shows(s)
      BY <2>1, <2>2 DEF Shows, Turning, Pending
  <2> QED
      BY <2>1, <2>3 DEF ShowInv
<1> QED
    BY <1>1, <1>6, <1>7, <1>8, <1>9, <1>10, <1>11, <1>12, <1>13 DEF Next

LEMMA ShowInit == Init => ShowInv
BY DEF Init, ShowInv, Shows

\* Whatever the sweeps in use and the order of clicks and of the DAQ thread's steps, a
\* sweep whose button is wrong is dirty, and will be shown, unless it turned between the
\* two halves of the GUI thread's update (late).
THEOREM ButtonsInStep == Spec => []ButtonsShowDir
<1>1. Init => TypeOK /\ Alone /\ PendingInv /\ ShowInv
    BY TypeInit, AloneInit, PendingInit, ShowInit
<1>2. TypeOK /\ Alone /\ PendingInv /\ ShowInv /\ [Next]_vars
         => (TypeOK /\ Alone /\ PendingInv /\ ShowInv)'
    BY TypeStep, AloneStep, PendingStep, ShowStep
<1>3. TypeOK /\ PendingInv /\ ShowInv => ButtonsShowDir
  <2> SUFFICES ASSUME TypeOK, PendingInv, ShowInv, Quiet, ~raced, NEW s \in 1 .. inv
               PROVE  s \in dirDirty \/ shown[s] = dir[s] \/ s \in late
      BY DEF ButtonsShowDir
  <2>1. s \in Sweeps
      BY SweepAssumption DEF TypeOK, Sweeps
  <2>2. ~Turning(s)
      BY <2>1, TwoThreads DEF PendingInv, Turning, Quiet, Idle
  <2> QED
      BY <2>1, <2>2 DEF ShowInv, Shows
<1> QED
    BY <1>1, <1>2, <1>3, PTL DEF Spec
-----------------------------------------------------------------------------
(* The calls come to an end.                                               *)

LEMMA PendingNumber ==
    ASSUME TypeOK
    PROVE  /\ IsFiniteSet({s \in Sweeps : Pending(s)})
           /\ NumPending \in Nat /\ NumPending <= N
<1>1. IsFiniteSet(Sweeps) /\ Cardinality(Sweeps) = N
    BY FS_Interval, SweepAssumption DEF Sweeps
<1>2. {s \in Sweeps : Pending(s)} \in SUBSET Sweeps
    OBVIOUS
<1> QED
    BY <1>1, <1>2, FS_Subset, FS_CardinalityType DEF NumPending

\* A call which requests adds a pending sweep, one which executes removes it.
LEMMA OneMore ==
    ASSUME TypeOK, NEW s \in Sweeps, ~Pending(s), NEW r \in Requests, request' = [request EXCEPT ![s] = r]
    PROVE  NumPending' = NumPending + 1
<1>1. {z \in Sweeps : Pending(z)}' = {z \in Sweeps : Pending(z)} \cup {s}
    BY RequestFacts DEF Pending, TypeOK
<1> QED
    BY <1>1, PendingNumber, FS_AddElement DEF NumPending

LEMMA OneLess ==
    ASSUME TypeOK, NEW s \in Sweeps, Pending(s), request' = [request EXCEPT ![s] = NoRequest]
    PROVE  NumPending' = NumPending - 1
<1>1. {z \in Sweeps : Pending(z)}' = {z \in Sweeps : Pending(z)} \ {s}
    BY DEF Pending, TypeOK
<1> QED
    BY <1>1, PendingNumber, FS_RemoveElement DEF NumPending

\* A thread's loop has not passed its last sweep.
InLoop == \A t \in Threads : head[t] <= last[t]

LEMMA BeginInLoop ==
    ASSUME TypeOK, InLoop, NEW t \in Threads, NEW ph, NEW from \in Sweeps, NEW to \in Sweeps, from <= to,
           NEW r, Begin(t, ph, from, to, r)
    PROVE  InLoop'
BY BeginFacts DEF InLoop

LEMMA InLoopInit == Init => InLoop
BY DEF Init, InLoop

LEMMA InLoopStep ==
    ASSUME TypeOK, InLoop, [Next]_vars
    PROVE  InLoop'
<1>1. /\ \A s \in Sweeps : s \in Nat /\ 1 <= s /\ s <= N
      /\ inv \in Sweeps /\ 1 \in Sweeps /\ N \in Sweeps
      /\ "gui" \in Threads /\ "daq" \in Threads
      /\ \A t \in Threads : head[t] \in Sweeps /\ last[t] \in Sweeps
  <2>1. \A s \in Sweeps : s \in Nat /\ 1 <= s /\ s <= N
    BY SweepAssumption DEF Sweeps
  <2> QED
    BY <2>1, SweepFacts, TwoThreads DEF TypeOK
<1>2. ASSUME NEW t \in Threads, Call(t) PROVE InLoop'
  <2>1. CASE Request(t) \/ Exec(t)
    BY <2>1 DEF Request, Exec, InLoop
  <2>2. CASE RequestDone(t)
    <3>1. \/ head' = head /\ last' = last
          \/ head[t] < last[t] /\ head' = [head EXCEPT ![t] = head[t] + 1] /\ last' = last
          \/ head' = [head EXCEPT ![t] = 1] /\ last' = last
      BY <2>2 DEF RequestDone
    <3> QED
      BY <1>1, <3>1 DEF InLoop, TypeOK
  <2>3. CASE ExecDone(t)
    <3>1. CASE head[t] < last[t]
      <4>1. head' = [head EXCEPT ![t] = head[t] + 1] /\ last' = last
        BY <2>3, <3>1 DEF ExecDone
      <4> QED
        BY <1>1, <3>1, <4>1 DEF InLoop, TypeOK
    <3>2. CASE ~(head[t] < last[t])
      <4>1. head' = [head EXCEPT ![t] = 1] /\ last' = [last EXCEPT ![t] = 1]
        BY <2>3, <3>2 DEF ExecDone, Finish
      <4> QED
        BY <1>1, <4>1 DEF InLoop, TypeOK
    <3> QED
      BY <3>1, <3>2
  <2> QED
    BY <1>2, <2>1, <2>2, <2>3 DEF Call
<1>3. ASSUME NEW s \in Sweeps, GuiJump(s) \/ DaqSetDac(s) PROVE InLoop'
    BY <1>1, <1>3, BeginInLoop DEF GuiJump, DaqSetDac
<1>4. ASSUME NEW s \in Sweeps, NEW d \in Dirs, GuiDirection(s, d) \/ DaqDirection(s, d) PROVE InLoop'
  <2>1. PICK r : \E t \in Threads : Begin(t, "request", s, s, r)
    BY <1>1, <1>4 DEF GuiDirection, DaqDirection
  <2>2. s <= s
    BY <1>1
  <2> QED
    BY <2>1, <2>2, BeginInLoop
<1>5. CASE GuiStopAll \/ DaqStopAll \/ DaqPass
    BY <1>1, <1>5, BeginInLoop DEF GuiStopAll, DaqStopAll, DaqPass
<1>6. CASE DaqDecide
  <2>1. \/ head' = head /\ last' = last
        \/ head["daq"] < last["daq"] /\ head' = [head EXCEPT !["daq"] = head["daq"] + 1] /\ last' = last
        \/ head' = [head EXCEPT !["daq"] = 1] /\ last' = last
    BY <1>6 DEF DaqDecide
  <2>2. head \in [Threads -> Sweeps] /\ last \in [Threads -> Sweeps]
    BY DEF TypeOK
  <2>3. CASE head' = head /\ last' = last
    BY <2>3 DEF InLoop
  <2>4. CASE head["daq"] < last["daq"] /\ head' = [head EXCEPT !["daq"] = head["daq"] + 1] /\ last' = last
    BY <1>1, <2>2, <2>4 DEF InLoop
  <2>5. CASE head' = [head EXCEPT !["daq"] = 1] /\ last' = last
    BY <1>1, <2>2, <2>5 DEF InLoop
  <2> QED
    BY <2>1, <2>3, <2>4, <2>5
<1>7. CASE \/ GuiShow \/ GuiClearDirty \/ SetScanning \/ NewSession \/ GuiLinkClear \/ GuiLinkSetup
           \/ UNCHANGED vars
  <2>1. UNCHANGED <<head, last>>
    BY <1>7 DEF GuiShow, GuiClearDirty, SetScanning, NewSession, GuiLinkClear, GuiLinkSetup, vars, threads
  <2> QED
    BY <2>1 DEF InLoop
<1> QED
    BY <1>2, <1>3, <1>4, <1>5, <1>6, <1>7 DEF Next

\* The work left, with the size of a round and the number of pending sweeps as numbers.
Work(t, i, n, p, w) ==
    /\ i = ToCome(t) /\ i <= n - 1
    /\ n = N /\ n > 0
    /\ p = NumPending /\ p <= n
    /\ w = i * (2 * n + 2) /\ w >= i
    /\ i > 0 => (i - 1) * (2 * n + 2) = w - (2 * n + 2)
    /\ CallsLeft(t) = CASE phase[t] = "idle"         -> 0
                        [] phase[t] = "request"      -> w + 2 * n + 2 - p
                        [] phase[t] = "exec"         -> w + p + 1
                        [] phase[t] = "decide"       -> w + 3 * n + 3
                        [] phase[t] = "pass_request" -> w + 3 * n + 2 - p
                        [] phase[t] = "pass_exec"    -> i + p + 1

Works == \A t \in Threads : \E i, n, p, w \in Nat : Work(t, i, n, p, w)

LEMMA WorkLeft == TypeOK /\ InLoop => Works
<1> SUFFICES ASSUME TypeOK, InLoop, NEW t \in Threads
             PROVE  \E i, n, p, w \in Nat : Work(t, i, n, p, w)
    BY DEF Works
<1>1. PICK i \in Nat : i = ToCome(t) /\ i <= N - 1
    BY SweepFacts DEF InLoop, TypeOK, ToCome, Sweeps
<1>2. PICK n \in Nat : n = N /\ n > 0
    BY SweepAssumption
<1>3. PICK p \in Nat : p = NumPending /\ p <= n
    BY <1>2, PendingNumber
<1>4. PICK w \in Nat : w = i * (2 * n + 2)
    OBVIOUS
<1>5. w >= i /\ (i > 0 => (i - 1) * (2 * n + 2) = w - (2 * n + 2))
  <2>1. \A a, b \in Nat : (a + 1) * b = a * b + b /\ a * b \in Nat
    OBVIOUS
  <2>2. CASE i = 0
    BY <1>4, <2>2
  <2>3. CASE i > 0
    <3>1. PICK a \in Nat : i = a + 1
      BY <2>3
    <3>2. w = a * (2 * n + 2) + 2 * n + 2 /\ a * (2 * n + 2) \in Nat
      BY <1>4, <2>1, <3>1
    <3>3. a * (2 * n + 2) >= a
      BY <1>2
    <3> QED
      BY <2>3, <3>1, <3>2, <3>3
  <2> QED
    BY <2>2, <2>3
<1>6. CallsLeft(t) = CASE phase[t] = "idle"         -> 0
                       [] phase[t] = "request"      -> w + 2 * n + 2 - p
                       [] phase[t] = "exec"         -> w + p + 1
                       [] phase[t] = "decide"       -> w + 3 * n + 3
                       [] phase[t] = "pass_request" -> w + 3 * n + 2 - p
                       [] phase[t] = "pass_exec"    -> i + p + 1
    BY <1>1, <1>2, <1>3, <1>4 DEF CallsLeft
<1> QED
    BY <1>1, <1>2, <1>3, <1>4, <1>5, <1>6 DEF Work

LEMMA WorkLeftNext == TypeOK' /\ InLoop' => Works'
BY WorkLeft, PTL

\* The phase and the sweep after a call.
LEMMA CallTurns ==
    ASSUME TypeOK, NEW t \in Threads, Call(t)
    PROVE  \/ /\ phase[t] \in {"request", "pass_request"} /\ phase'[t] = phase[t]
              /\ ToCome(t)' = ToCome(t) /\ NumPending' = NumPending + 1
           \/ /\ phase[t] \in {"exec", "pass_exec"} /\ phase'[t] = phase[t]
              /\ ToCome(t)' = ToCome(t) /\ NumPending' = NumPending - 1
           \/ /\ NumPending' = NumPending
              /\ \/ phase[t] = "request" /\ phase'[t] = "exec" /\ ToCome(t)' = ToCome(t)
                 \/ /\ phase[t] = "pass_request" /\ phase'[t] = "decide"
                    /\ ToCome(t) > 0 /\ ToCome(t)' = ToCome(t) - 1
                 \/ phase[t] = "pass_request" /\ phase'[t] = "pass_exec"
                 \/ /\ phase[t] = "exec" /\ phase'[t] = "request"
                    /\ ToCome(t) > 0 /\ ToCome(t)' = ToCome(t) - 1
                 \/ /\ phase[t] = "pass_exec" /\ phase'[t] = "pass_exec"
                    /\ ToCome(t) > 0 /\ ToCome(t)' = ToCome(t) - 1
                 \/ phase[t] \in {"exec", "pass_exec"} /\ phase'[t] = "idle"
<1>1. /\ head \in [Threads -> Sweeps] /\ last \in [Threads -> Sweeps]
      /\ phase \in [Threads -> Phases] /\ head[t] \in Nat /\ last[t] \in Nat
      /\ request \in [Sweeps -> Requests \cup {NoRequest}] /\ inv \in Nat /\ inv <= N
    BY SweepFacts DEF TypeOK, Sweeps
<1>2. CASE Request(t)
  <2>1. cur[t] \in Sweeps /\ ~Pending(cur[t]) /\ arg[t] \in Requests
    BY <1>1, <1>2, SweepAssumption DEF Request, Takes, Sweeps, TypeOK
  <2>2. NumPending' = NumPending + 1
    BY <1>2, <2>1, OneMore DEF Request
  <2> QED
    BY <1>2, <2>2 DEF Request, ToCome
<1>3. CASE Exec(t)
  <2>1. cur[t] \in Sweeps /\ Pending(cur[t])
    BY <1>1, <1>3, SweepAssumption DEF Exec, Executes, Sweeps
  <2>2. NumPending' = NumPending - 1
    BY <1>3, <2>1, OneLess DEF Exec
  <2> QED
    BY <1>3, <2>2 DEF Exec, ToCome
<1>4. CASE RequestDone(t)
  <2>1. NumPending' = NumPending /\ last' = last
    BY <1>4 DEF RequestDone, state, NumPending, Pending
  <2> QED
    BY <1>1, <1>4, <2>1 DEF RequestDone, ToCome
<1>5. CASE ExecDone(t)
  <2>1. NumPending' = NumPending
    BY <1>5 DEF ExecDone, state, NumPending, Pending
  <2>2. CASE head[t] < last[t]
    BY <1>1, <1>5, <2>1, <2>2 DEF ExecDone, ToCome
  <2>3. CASE ~(head[t] < last[t])
    BY <1>1, <1>5, <2>1, <2>3 DEF ExecDone, Finish
  <2> QED
    BY <2>2, <2>3
<1> QED
    BY <1>2, <1>3, <1>4, <1>5 DEF Call

\* One call leaves its thread less to do.
LEMMA CallLeavesLess ==
    ASSUME TypeOK, TypeOK', InLoop, InLoop', NEW t \in Threads, Call(t)
    PROVE  CallsLeft(t)' < CallsLeft(t)
<1>1. PICK i, n, p, w \in Nat : Work(t, i, n, p, w)
    BY WorkLeft DEF Works
<1>2. PICK j, m, q, v \in Nat : Work(t, j, m, q, v)'
    BY WorkLeftNext DEF Works
<1>3. m = n
    BY <1>1, <1>2 DEF Work
<1> QED
    BY <1>1, <1>2, <1>3, CallTurns DEF Work

\* So does a decision of the DAQ thread.
LEMMA DecisionLeavesLess ==
    ASSUME TypeOK, TypeOK', InLoop, InLoop', DaqDecide
    PROVE  CallsLeft("daq")' < CallsLeft("daq")
<1>1. PICK i, n, p, w \in Nat : Work("daq", i, n, p, w)
    BY WorkLeft, TwoThreads DEF Works
<1>2. PICK j, m, q, v \in Nat : Work("daq", j, m, q, v)'
    BY WorkLeftNext, TwoThreads DEF Works
<1>3. m = n /\ q = p
    BY <1>1, <1>2 DEF Work, DaqDecide, state, NumPending, Pending
<1>4. /\ phase["daq"] = "decide"
      /\ \/ phase'["daq"] = "pass_request" /\ j = i
         \/ phase'["daq"] = "decide" /\ i > 0 /\ j = i - 1
         \/ phase'["daq"] = "pass_exec"
  <2>1. /\ head \in [Threads -> Sweeps] /\ last \in [Threads -> Sweeps]
        /\ phase \in [Threads -> Phases] /\ head["daq"] \in Nat /\ last["daq"] \in Nat
    BY SweepFacts, TwoThreads DEF TypeOK, Sweeps
  <2>2. /\ phase["daq"] = "decide" /\ last' = last
        /\ \/ phase' = [phase EXCEPT !["daq"] = "pass_request"] /\ head' = head
           \/ /\ head["daq"] < last["daq"] /\ head' = [head EXCEPT !["daq"] = head["daq"] + 1]
              /\ phase' = phase
           \/ phase' = [phase EXCEPT !["daq"] = "pass_exec"]
    BY DEF DaqDecide
  <2>3. i = last["daq"] - head["daq"] /\ j = last'["daq"] - head'["daq"]
    BY <1>1, <1>2 DEF Work, ToCome
  <2>4. CASE phase' = [phase EXCEPT !["daq"] = "pass_request"] /\ head' = head
    BY <2>1, <2>2, <2>3, <2>4, TwoThreads
  <2>5. CASE /\ head["daq"] < last["daq"] /\ head' = [head EXCEPT !["daq"] = head["daq"] + 1]
             /\ phase' = phase
    BY <2>1, <2>2, <2>3, <2>5, TwoThreads
  <2>6. CASE phase' = [phase EXCEPT !["daq"] = "pass_exec"]
    BY <2>1, <2>2, <2>6, TwoThreads
  <2> QED
    BY <2>2, <2>4, <2>5, <2>6
<1> QED
    BY <1>1, <1>2, <1>3, <1>4 DEF Work

\* What leaves the requests and the place of a thread alone leaves it as much to do.
LEMMA SameLeft ==
    ASSUME NEW t \in Threads, request' = request, phase'[t] = phase[t], head'[t] = head[t],
           last'[t] = last[t]
    PROVE  CallsLeft(t)' = CallsLeft(t)
BY DEF CallsLeft, ToCome, NumPending, Pending

\* A thread which begins its work leaves that of the other alone.
LEMMA OtherBegins ==
    ASSUME TypeOK, NEW t \in Threads, ~Idle(t), request' = request, NEW u \in Threads, NEW ph, NEW from,
           NEW to, NEW r, Begin(u, ph, from, to, r)
    PROVE  CallsLeft(t)' = CallsLeft(t)
<1>1. u # t
    BY BeginFacts
<1>2. phase'[t] = phase[t] /\ head'[t] = head[t] /\ last'[t] = last[t]
    BY <1>1, BeginFacts
<1> QED
    BY <1>2, SameLeft

LeftIsNatural == \A t \in Threads : CallsLeft(t) \in Nat

LEMMA LeftNatural == TypeOK /\ InLoop => LeftIsNatural
<1> SUFFICES ASSUME TypeOK, InLoop, NEW t \in Threads PROVE CallsLeft(t) \in Nat
    BY DEF LeftIsNatural
<1>1. PICK i, n, p, w \in Nat : Work(t, i, n, p, w)
    BY WorkLeft DEF Works
<1>2. phase[t] \in Phases
    BY DEF TypeOK
<1>3. CASE phase[t] \in {"idle", "exec", "decide", "pass_exec"}
    BY <1>1, <1>3 DEF Work
<1>4. CASE phase[t] \in {"request", "pass_request"}
  <2>1. \/ CallsLeft(t) = w + 2 * n + 2 - p
        \/ CallsLeft(t) = w + 3 * n + 2 - p
    BY <1>1, <1>4 DEF Work
  <2>2. p <= n
    BY <1>1 DEF Work
  <2> QED
    BY <2>1, <2>2
<1> QED
    BY <1>2, <1>3, <1>4 DEF Phases

LEMMA LeftNaturalNext == TypeOK' /\ InLoop' => LeftIsNatural'
BY LeftNatural, PTL

\* What CallsShrink says of one thread and one step.
Less(t) ==
    ~Idle(t) /\ ~raced' =>
        /\ CallsLeft(t)' <= CallsLeft(t)
        /\ Call(t) \/ (t = "daq" /\ DaqDecide) => CallsLeft(t)' < CallsLeft(t)

LEMMA ShrinkStep ==
    ASSUME TypeOK, TypeOK', Alone, InLoop, InLoop', Next
    PROVE  \A t \in Threads : Less(t)
<1> SUFFICES ASSUME NEW t \in Threads, ~Idle(t), ~raced'
             PROVE  /\ CallsLeft(t)' <= CallsLeft(t)
                    /\ Call(t) \/ (t = "daq" /\ DaqDecide) => CallsLeft(t)' < CallsLeft(t)
    BY DEF Less
<1>1. CallsLeft(t) \in Nat
    BY LeftNatural DEF LeftIsNatural
<1>2. CallsLeft(t)' \in Nat
    BY LeftNaturalNext DEF LeftIsNatural
<1>3. CASE Call(t)
  <2>1. CallsLeft(t)' < CallsLeft(t)
    BY <1>3, CallLeavesLess
  <2> QED
    BY <1>1, <1>2, <2>1
<1>4. CASE t = "daq" /\ DaqDecide
  <2>1. CallsLeft(t)' < CallsLeft(t)
    BY <1>4, DecisionLeavesLess
  <2> QED
    BY <1>1, <1>2, <2>1
<1>5. ASSUME ~Call(t), ~(t = "daq" /\ DaqDecide)
      PROVE  CallsLeft(t)' = CallsLeft(t)
  <2>1. ASSUME NEW u \in Threads, Call(u) PROVE FALSE
    <3>1. u # t /\ ~Idle(u) /\ raced' = raced
      BY <1>5, <2>1, CallAlone
    <3> QED
      BY <3>1, TwoThreads DEF Alone
  <2>2. ASSUME NEW s \in Sweeps, GuiJump(s) \/ DaqSetDac(s) PROVE CallsLeft(t)' = CallsLeft(t)
    BY <2>2, OtherBegins, TwoThreads DEF GuiJump, DaqSetDac, state
  <2>3. ASSUME NEW s \in Sweeps, NEW d \in Dirs, GuiDirection(s, d) \/ DaqDirection(s, d)
        PROVE  CallsLeft(t)' = CallsLeft(t)
    BY <2>3, OtherBegins, TwoThreads DEF GuiDirection, DaqDirection, state
  <2>4. CASE GuiStopAll \/ DaqStopAll \/ DaqPass
    BY <2>4, OtherBegins, TwoThreads DEF GuiStopAll, DaqStopAll, DaqPass, state
  <2>5. CASE GuiShow \/ GuiClearDirty \/ SetScanning \/ NewSession \/ GuiLinkClear \/ GuiLinkSetup
    <3>1. UNCHANGED <<request, phase, head, last>>
      BY <2>5 DEF GuiShow, GuiClearDirty, SetScanning, NewSession, GuiLinkClear, GuiLinkSetup, state, threads
    <3> QED
      BY <3>1, SameLeft
  <2>6. CASE DaqDecide
    <3>1. t = "gui" /\ raced' = raced /\ phase["daq"] = "decide"
      BY <1>5, <2>6, TwoThreads DEF DaqDecide, history
    <3> QED
      BY <3>1 DEF Alone, Idle
  <2> QED
    BY <2>1, <2>2, <2>3, <2>4, <2>5, <2>6 DEF Next
<1> QED
    BY <1>1, <1>3, <1>4, <1>5

\* For any number of sweeps and any links, rings and chains of others which run into a
\* ring included: request_sweep_dir and exec_sweep_dir come to an end along the
\* followers, and so does each loop over the sweeps which calls them, while no other
\* thread adds to their work.
THEOREM CallsLeaveLess == Spec => []LeftIsNatural /\ CallsShrink
<1>1. Init => TypeOK /\ Alone /\ InLoop
    BY TypeInit, AloneInit, InLoopInit
<1>2. TypeOK /\ Alone /\ InLoop /\ [Next]_vars => TypeOK' /\ Alone' /\ InLoop'
    BY TypeStep, AloneStep, InLoopStep
<1>3. /\ TypeOK /\ TypeOK' /\ Alone /\ InLoop /\ InLoop' /\ [Next]_vars
      => [\A t \in Threads : ~Idle(t) /\ ~raced' =>
            /\ CallsLeft(t)' <= CallsLeft(t)
            /\ Call(t) \/ (t = "daq" /\ DaqDecide) => CallsLeft(t)' < CallsLeft(t)]_vars
    BY ShrinkStep DEF Less
<1> QED
    BY <1>1, <1>2, <1>3, LeftNatural, PTL DEF Spec, CallsShrink
=============================================================================
