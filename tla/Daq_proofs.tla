----------------------------- MODULE Daq_proofs -----------------------------
(***************************************************************************)
(* Proofs about the boards, for any number of them, any channels, voltages *)
(* and scans, whatever the devices refuse and however a scan ends: the     *)
(* pulse is undone, a reading is of its cycle, the samples of a scan are   *)
(* in their places and in the rows of the panel, and the reads keep pace   *)
(* with the devices.                                                       *)
(***************************************************************************)
EXTENDS Daq, FiniteSetTheorems, TLAPS

OutTypes ==
    /\ kind = [b \in Boards |-> kind[b]]
    /\ pulse \in Outputs \cup {-1}
    /\ ao = [b \in Outputs |-> ao[b]]
    /\ \A b \in Outputs : ao[b] = [known |-> ao[b].known, v |-> ao[b].v]
    /\ level = [b \in Outputs |-> level[b]]

\* What a board calls known is on its output; request_pulse and
\* run_scope_start rely on it.
RecordIsTrue == \A b \in Outputs : ao[b].known => ao[b].v = level[b]

\* During a scan an output which is not written as itself or as a follower, and is
\* not the pulsed one, is what it was, and what the pulsed one was has been kept.
PulseKept ==
    pc = "scan" /\ ~excused =>
        \A b \in Outputs : IF b = pulse /\ Connected(b)
                           THEN original = before[b] ELSE level[b] = before[b] \/ b \in touched

PulseInv == OutTypes /\ RecordIsTrue /\ PulseKept /\ PulseUndone

LEMMA NoOutput == -1 \notin Outputs
BY DaqAssumption DEF Boards

LEMMA PulseInit == Init => PulseInv
<1> SUFFICES ASSUME Init PROVE PulseInv
    OBVIOUS
<1>1. OutTypes
    BY DEF Init, OutTypes, Unknown
<1>2. RecordIsTrue
    BY DEF Init, RecordIsTrue, Unknown
<1> QED
    BY <1>1, <1>2 DEF Init, PulseInv, PulseKept, PulseUndone

\* compute_function_write changes the records together with the outputs, of this
\* board and of its followers only.
LEMMA WriteFacts ==
    ASSUME OutTypes, RecordIsTrue, NEW b \in Outputs, NEW v, NEW taken, Write(b, v, taken)
    PROVE  /\ ao' = [o \in Outputs |-> ao'[o]]
           /\ \A o \in Outputs : ao'[o] = [known |-> ao'[o].known, v |-> ao'[o].v]
           /\ level' = [o \in Outputs |-> level'[o]]
           /\ RecordIsTrue'
           /\ \A o \in Outputs : o = b \/ o \in Trail(b) \/ level'[o] = level[o]
           /\ taken /\ b \notin Trail(b) => level'[b] = v
<1>1. CASE taken
  <2>1. PICK S \in SUBSET Trail(b) : \E w \in [S -> Volts] :
            /\ level' = [x \in Outputs |-> IF x \in S THEN w[x] ELSE IF x = b THEN v ELSE level[x]]
            /\ ao' = [x \in Outputs |-> IF x \in S \union {b} THEN [known |-> TRUE, v |-> level'[x]]
                                        ELSE ao[x]]
      BY <1>1 DEF Write
  <2>2. PICK w \in [S -> Volts] :
            /\ level' = [x \in Outputs |-> IF x \in S THEN w[x] ELSE IF x = b THEN v ELSE level[x]]
            /\ ao' = [x \in Outputs |-> IF x \in S \union {b} THEN [known |-> TRUE, v |-> level'[x]]
                                        ELSE ao[x]]
      BY <2>1
  <2>3. \A o \in Outputs :
           /\ ao'[o] = IF o \in S \union {b} THEN [known |-> TRUE, v |-> level'[o]] ELSE ao[o]
           /\ o \in S \/ level'[o] = IF o = b THEN v ELSE level[o]
      BY <2>2
  <2>4. ao' = [o \in Outputs |-> ao'[o]] /\ level' = [o \in Outputs |-> level'[o]]
      BY <2>2
  <2>5. ASSUME NEW o \in Outputs
        PROVE  /\ ao'[o] = [known |-> ao'[o].known, v |-> ao'[o].v]
               /\ ao'[o].known => ao'[o].v = level'[o]
    <3>1. CASE o \in S \union {b}
      <4>1. ao'[o] = [known |-> TRUE, v |-> level'[o]]
          BY <2>3, <3>1
      <4> QED
          BY <4>1
    <3>2. CASE o \notin S \union {b}
      <4>1. ao'[o] = ao[o] /\ level'[o] = level[o]
          BY <2>3, <3>2
      <4>2. /\ ao[o] = [known |-> ao[o].known, v |-> ao[o].v]
            /\ ao[o].known => ao[o].v = level[o]
          BY DEF OutTypes, RecordIsTrue
      <4> QED
          BY <4>1, <4>2
    <3> QED
        BY <3>1, <3>2
  <2>6. RecordIsTrue'
      BY <2>5 DEF RecordIsTrue
  <2> QED
      BY <2>1, <2>3, <2>4, <2>5, <2>6
<1>2. CASE ~taken
    BY <1>2 DEF Write, OutTypes, RecordIsTrue, levelVars
<1> QED
    BY <1>1, <1>2

\* run_scope_start's pulse: nothing changes without one.
LEMMA PulseFacts ==
    ASSUME OutTypes, RecordIsTrue, NEW taken, Pulse(taken)
    PROVE  /\ ao' = [o \in Outputs |-> ao'[o]]
           /\ \A o \in Outputs : ao'[o] = [known |-> ao'[o].known, v |-> ao'[o].v]
           /\ level' = [o \in Outputs |-> level'[o]]
           /\ RecordIsTrue'
           /\ \A o \in Outputs : \/ level'[o] = level[o]
                                 \/ pulse \in Outputs /\ Connected(pulse) /\ (o = pulse \/ o \in Trail(pulse))
           /\ pulse \in Outputs /\ Connected(pulse) => original' = ao[pulse].v
<1>1. CASE pulse = -1 \/ ~Connected(pulse)
    BY <1>1, NoOutput DEF Pulse, OutTypes, RecordIsTrue, levelVars
<1>2. CASE ~(pulse = -1 \/ ~Connected(pulse))
  <2>1. /\ pulse \in Outputs /\ Connected(pulse)
        /\ original' = ao[pulse].v /\ Write(pulse, target, taken)
      BY <1>2 DEF Pulse, OutTypes
  <2>2. \A o \in Outputs : o = pulse \/ o \in Trail(pulse) \/ level'[o] = level[o]
      BY <2>1, WriteFacts
  <2> QED
      BY <2>1, <2>2, WriteFacts
<1> QED
    BY <1>1, <1>2
-----------------------------------------------------------------------------
LEMMA PulseStep == PulseInv /\ [Next]_vars => PulseInv'
<1> SUFFICES ASSUME PulseInv, [Next]_vars PROVE PulseInv'
    OBVIOUS
<1>0. OutTypes /\ RecordIsTrue /\ PulseKept /\ PulseUndone
    BY DEF PulseInv
<1>1. CASE Connecting
  <2>0. PICK b \in Boards : \E k \in Hardware[b] : Connect(b, k)
      BY <1>1 DEF Connecting
  <2>1. PICK k \in Hardware[b] : Connect(b, k)
      BY <2>0
  <2>2. OutTypes'
      BY <1>0, <2>1 DEF Connect, OutTypes, pulseVars, Unknown
  <2>3. RecordIsTrue'
      BY <1>0, <2>1 DEF Connect, RecordIsTrue, Unknown
  <2>4. pc' = "setup"
      BY <2>1 DEF Connect
  <2> QED
      BY <2>2, <2>3, <2>4 DEF PulseInv, PulseKept, PulseUndone
<1>2. CASE Entering \/ ChangeTimescale \/ LeavePanel \/ Cycling \/ Reading \/ EndOfRead
  <2>1. /\ UNCHANGED <<kind, levelVars, pulse>>
        /\ pc' \notin {"scan", "process"}
      BY <1>2 DEF Entering, EnterPanel, ChangeTimescale, LeavePanel, Cycling, Cycle, Reading, Read,
                  EndOfRead, pointVars, outVars, pulseVars
  <2> QED
      BY <1>0, <2>1 DEF OutTypes, RecordIsTrue, PulseInv, PulseKept, PulseUndone, levelVars
<1>3. CASE Writing
  <2>1. PICK b \in Outputs, v \in Volts, taken \in BOOLEAN : WriteOutput(b, v, taken)
      BY <1>3 DEF Writing
  <2>2. /\ pc' = pc /\ pc \in {"react", "scan"} /\ Write(b, v, taken)
        /\ UNCHANGED <<kind, pulse, original, before, excused>>
        /\ pc = "scan" => touched' = touched \union {b} \union Trail(b)
      BY <2>1 DEF WriteOutput, pointVars
  <2>3. /\ OutTypes' /\ RecordIsTrue'
        /\ \A o \in Outputs : o = b \/ o \in Trail(b) \/ level'[o] = level[o]
      BY <1>0, <2>2, WriteFacts DEF OutTypes
  <2>4. PulseKept'
      BY <1>0, <2>2, <2>3 DEF PulseKept, Connected
  <2> QED
      BY <2>2, <2>3, <2>4 DEF PulseInv, PulseUndone
<1>11. CASE Following
  <2>1. /\ UNCHANGED <<pc, kind, levelVars, pulseVars>>
        /\ pc \in {"setup", "react", "scan"}
      BY <1>11 DEF Following, SetFollower, pointVars
  <2> QED
      BY <1>0, <2>1 DEF OutTypes, RecordIsTrue, PulseInv, PulseKept, PulseUndone, Connected,
                        levelVars, pulseVars
<1>4. CASE Requesting
  <2>1. PICK b \in Outputs \union {-1}, v \in Volts : RequestPulse(b, v)
      BY <1>4 DEF Requesting
  <2>2. /\ pc' = pc /\ pc \in {"react", "scan"} /\ pulse' \in Outputs \cup {-1}
        /\ pc = "scan" => excused'
        /\ UNCHANGED <<kind, ao, level, before>>
      BY <2>1 DEF RequestPulse, pointVars, outVars, levelVars
  <2> QED
      BY <1>0, <2>2 DEF OutTypes, RecordIsTrue, PulseInv, PulseKept, PulseUndone
<1>5. CASE Starting
  <2>1. PICK taken \in BOOLEAN : StartScan(taken)
      BY <1>5 DEF Starting
  <2>2. /\ Pulse(taken) /\ pc' = "scan" /\ kind' = kind /\ pulse' = pulse /\ before' = level
        /\ ~excused' => pulse = -1 \/ ao[pulse].known
        /\ touched' = IF pulse = -1 THEN {} ELSE Trail(pulse)
      BY <2>1 DEF StartScan, pointVars
  <2>3. /\ OutTypes' /\ RecordIsTrue'
        /\ \A o \in Outputs : \/ level'[o] = level[o]
                              \/ pulse \in Outputs /\ Connected(pulse) /\ (o = pulse \/ o \in Trail(pulse))
        /\ pulse \in Outputs /\ Connected(pulse) => original' = ao[pulse].v
      BY <1>0, <2>2, PulseFacts DEF OutTypes
  <2>4. PulseKept'
    <3> SUFFICES ASSUME ~excused', NEW b \in Outputs
               PROVE  IF b = pulse /\ Connected(b) THEN original' = level[b]
                      ELSE level'[b] = level[b] \/ b \in touched'
      BY <2>2 DEF PulseKept, Connected
    <3>1. CASE b = pulse /\ Connected(b)
        BY <1>0, <2>2, <2>3, <3>1, NoOutput DEF RecordIsTrue
    <3>2. CASE ~(b = pulse /\ Connected(b))
        BY <2>2, <2>3, <3>2, NoOutput
    <3> QED
        BY <3>1, <3>2
  <2> QED
      BY <2>2, <2>3, <2>4 DEF PulseInv, PulseUndone
<1>6. CASE Failing
  <2>1. PICK f \in Boards, taken, half \in BOOLEAN : StartFails(f, taken, half)
      BY <1>6 DEF Failing
  <2>2. /\ Pulse(taken) /\ pc' \in {"react", "fault"}
        /\ kind' = kind /\ pulse' = pulse /\ before' = before
      BY <2>1 DEF StartFails, pointVars
  <2>3. OutTypes' /\ RecordIsTrue'
      BY <1>0, <2>2, PulseFacts DEF OutTypes
  <2> QED
      BY <2>2, <2>3 DEF PulseInv, PulseKept, PulseUndone
<1>7. CASE Scanning
  <2>1. /\ UNCHANGED <<kind, levelVars, pulseVars>>
        /\ pc = "scan" /\ pc' \in {"scan", "fault"}
      BY <1>7 DEF Scanning, ScanCycle, pointVars, outVars
  <2> QED
      BY <1>0, <2>1 DEF OutTypes, RecordIsTrue, PulseInv, PulseKept, PulseUndone, Connected,
                        levelVars, pulseVars
<1>8. CASE Stopping
  <2>1. PICK late \in [Boards -> {"none", "most", "all"}], taken \in BOOLEAN : StopScan(late, taken)
      BY <1>8 DEF Stopping
  <2>2. /\ pc = "scan" /\ UNCHANGED <<kind, follow, pulse, before>>
        /\ \/ pc' = "fault" /\ UNCHANGED levelVars
           \/ /\ pc' = "process" /\ (excused' <=> excused \/ ~taken)
              /\ \/ (pulse = -1 \/ ~Connected(pulse)) /\ UNCHANGED <<levelVars, touched>>
                 \/ /\ ~(pulse = -1 \/ ~Connected(pulse))
                    /\ Write(pulse, original, taken) /\ touched' = touched \union Trail(pulse)
      BY <2>1 DEF StopScan, pointVars
  <2>3. CASE UNCHANGED levelVars /\ pc' = "fault"
      BY <1>0, <2>2, <2>3 DEF OutTypes, RecordIsTrue, levelVars, PulseInv, PulseKept, PulseUndone
  <2>4. CASE UNCHANGED <<levelVars, touched>> /\ pc' = "process" /\ (pulse = -1 \/ ~Connected(pulse))
             /\ (excused' <=> excused \/ ~taken)
    <3>1. OutTypes' /\ RecordIsTrue'
        BY <1>0, <2>2, <2>4 DEF OutTypes, RecordIsTrue, levelVars
    <3>2. ~excused => \A b \in Outputs : level[b] = before[b] \/ b \in touched
        BY <1>0, <2>2, <2>4, NoOutput DEF PulseKept
    <3>3. PulseUndone'
        BY <2>2, <2>4, <3>2, NoOutput DEF PulseUndone, Connected, levelVars
    <3> QED
        BY <2>4, <3>1, <3>3 DEF PulseInv, PulseKept
  <2>5. CASE /\ pc' = "process" /\ ~(pulse = -1 \/ ~Connected(pulse))
             /\ Write(pulse, original, taken) /\ touched' = touched \union Trail(pulse)
             /\ (excused' <=> excused \/ ~taken)
    <3>1. pulse \in Outputs
        BY <1>0, <2>5 DEF OutTypes
    <3>2. /\ OutTypes' /\ RecordIsTrue'
          /\ \A o \in Outputs : o = pulse \/ o \in Trail(pulse) \/ level'[o] = level[o]
          /\ taken /\ pulse \notin Trail(pulse) => level'[pulse] = original
        BY <1>0, <2>2, <2>5, <3>1, WriteFacts DEF OutTypes
    <3>3. Trail(pulse)' = Trail(pulse') /\ pulse' = pulse /\ Trail(pulse)' = Trail(pulse)
        BY <2>2 DEF Trail, Reach
    <3>4. PulseUndone'
      <4> SUFFICES ASSUME ~excused', NEW o \in Outputs
                   PROVE  \/ level'[o] = before'[o]
                          \/ IF o = pulse' /\ Connected(o)' THEN o \in Trail(o)' ELSE o \in touched'
          BY DEF PulseUndone
      <4>1. CASE o = pulse
          BY <1>0, <2>2, <2>5, <3>1, <3>2, <3>3, <4>1 DEF PulseKept, Connected
      <4>2. CASE o # pulse
          BY <1>0, <2>2, <2>5, <3>2, <4>2 DEF PulseKept
      <4> QED
          BY <4>1, <4>2
    <3> QED
        BY <2>5, <3>2, <3>4 DEF PulseInv, PulseKept
  <2> QED
      BY <2>2, <2>3, <2>4, <2>5
<1>9. CASE Processing
  <2>1. /\ UNCHANGED <<kind, levelVars, pulse>> /\ pc' = "react"
      BY <1>9 DEF Processing, Process, pointVars, outVars
  <2> QED
      BY <1>0, <2>1 DEF OutTypes, RecordIsTrue, PulseInv, PulseKept, PulseUndone, levelVars
<1>10. CASE UNCHANGED vars
  <2>1. UNCHANGED <<pc, kind, levelVars, follow, pulseVars>>
      BY <1>10 DEF vars, pointVars, outVars
  <2>2. \A o \in Outputs : Trail(o)' = Trail(o)
      BY <2>1 DEF Trail, Reach
  <2> QED
      BY <1>0, <2>1, <2>2 DEF OutTypes, RecordIsTrue, PulseInv, PulseKept, PulseUndone, Connected,
                       levelVars, pulseVars
<1> QED
    BY <1>1, <1>2, <1>3, <1>4, <1>5, <1>6, <1>7, <1>8, <1>9, <1>10, <1>11 DEF Next

\* For any number of boards, with or without a device, any followers, any failures of
\* their writes and any way a scan starts, goes on and ends: when it is over, an output
\* is what it was before it, unless it was written meanwhile as itself or as a follower,
\* a write failed, the value was not known, or the pulse was changed (request_pulse,
\* compute_function_write, run_scope_start, run_scope_continue).
THEOREM PulseIsUndone == Spec => []PulseUndone
<1>1. PulseInv => PulseUndone
    BY DEF PulseInv
<1> QED
    BY <1>1, PulseInit, PulseStep, PTL DEF Spec

-----------------------------------------------------------------------------
(* The lists of channels.                                                  *)

\* A list of different channels.
IsList(s) == s \in Seq(Nat) /\ \A j, k \in DOMAIN s : s[j] = s[k] => j = k

\* daq_AI_read lists the requested channels, each once.  The list exists: the channels
\* sorted by how many of them are no greater.
LEMMA RegenerateFacts ==
    ASSUME NEW r \in SUBSET Nat, IsFiniteSet(r)
    PROVE  /\ IsList(Regenerate(r)) /\ Len(Regenerate(r)) = Cardinality(r)
           /\ Range(Regenerate(r)) = r
<1> DEFINE upTo(c) == {d \in r : d <= c}
           n == Cardinality(r)
<1>1. n \in Nat /\ IsFiniteSet(1 .. n) /\ Cardinality(1 .. n) = n
    BY FS_CardinalityType, FS_Interval
<1>2. ASSUME NEW c \in r
      PROVE  /\ IsFiniteSet(upTo(c)) /\ Cardinality(upTo(c)) \in 1 .. n
  <2>1. IsFiniteSet(upTo(c)) /\ Cardinality(upTo(c)) <= n /\ Cardinality(upTo(c)) \in Nat
    <3>1. upTo(c) \in SUBSET r
        OBVIOUS
    <3> HIDE DEF upTo
    <3> QED
        BY <3>1, FS_Subset, FS_CardinalityType
  <2>2. upTo(c) # {}
      OBVIOUS
  <2>3. Cardinality(upTo(c)) # 0
    <3> HIDE DEF upTo
    <3> QED
        BY <2>1, <2>2, FS_EmptySet
  <2> QED
      BY <1>1, <2>1, <2>3
<1>3. ASSUME NEW c \in r, NEW e \in r, c < e
      PROVE  Cardinality(upTo(c)) < Cardinality(upTo(e))
  <2>1. upTo(c) \in SUBSET upTo(e) /\ upTo(c) # upTo(e)
    <3>1. e \in upTo(e) /\ e \notin upTo(c)
        BY <1>3
    <3>2. \A d \in r : d <= c => d <= e
        BY <1>3
    <3> QED
        BY <3>1, <3>2
  <2>2. /\ IsFiniteSet(upTo(e)) /\ Cardinality(upTo(e)) \in Nat /\ Cardinality(upTo(c)) \in Nat
      BY <1>1, <1>2
  <2> HIDE DEF upTo
  <2>3. Cardinality(upTo(c)) <= Cardinality(upTo(e)) /\ Cardinality(upTo(e)) # Cardinality(upTo(c))
      BY <2>1, <2>2, FS_Subset
  <2> QED
      BY <2>2, <2>3
<1> DEFINE rank == [c \in r |-> Cardinality(upTo(c))]
<1>4. rank \in Surjection(r, 1 .. n)
  <2>1. rank \in [r -> 1 .. n]
      BY <1>2
  <2>2. ASSUME NEW c \in r, NEW e \in r, rank[c] = rank[e]
        PROVE  c = e
    <3>1. Cardinality(upTo(c)) = Cardinality(upTo(e)) /\ Cardinality(upTo(c)) \in Nat
        BY <1>1, <1>2, <2>2
    <3>2. ~(c < e) /\ ~(e < c)
        BY <1>3, <3>1
    <3> QED
        BY <3>2
  <2> HIDE DEF rank
  <2>3. rank \in Injection(r, 1 .. n)
      BY <2>1, <2>2 DEF Injection, IsInjective
  <2> QED
      BY <1>1, <2>3, FS_Injection
<1> DEFINE Sorted(s) == \A j, k \in DOMAIN s : j < k => s[j] < s[k]
<1>5. \E s \in [1 .. n -> r] : Sorted(s)
  <2>1. \A k \in 1 .. n : \E c \in r : rank[c] = k
    <3> HIDE DEF rank
    <3> QED
        BY <1>4 DEF Surjection
  <2> DEFINE s == [k \in 1 .. n |-> CHOOSE c \in r : rank[c] = k]
  <2>2. \A k \in 1 .. n : s[k] \in r /\ rank[s[k]] = k
    <3> HIDE DEF rank
    <3> QED
        BY <2>1
  <2>3. ASSUME NEW j \in 1 .. n, NEW k \in 1 .. n, j < k
        PROVE  s[j] < s[k]
    <3> HIDE DEF s
    <3>1. PICK c \in r, e \in r : c = s[j] /\ e = s[k]
        BY <2>2
    <3>2. Cardinality(upTo(c)) = j /\ Cardinality(upTo(e)) = k
        BY <2>2, <3>1
    <3> HIDE DEF upTo
    <3>3. ~(e < c) /\ e # c
        BY <1>3, <2>3, <3>2
    <3> QED
        BY <3>1, <3>3
  <2> QED
      BY <2>2, <2>3
<1>6. PICK s : s = Regenerate(r)
    OBVIOUS
<1>7. s \in [1 .. n -> r] /\ Sorted(s)
    BY <1>5, <1>6 DEF Regenerate
<1>8. s \in Seq(Nat) /\ Len(s) = n /\ DOMAIN s = 1 .. n
  <2> HIDE DEF n, Sorted
  <2>1. s \in [1 .. n -> Nat]
      BY <1>7
  <2> QED
      BY <1>1, <2>1
<1>9. \A j, k \in 1 .. n : s[j] = s[k] => j = k
  <2> SUFFICES ASSUME NEW j \in 1 .. n, NEW k \in 1 .. n, s[j] = s[k], j # k
               PROVE  FALSE
      OBVIOUS
  <2>0. j \in Nat /\ k \in Nat /\ j # k
      BY <1>1
  <2>1. s[j] \in Nat /\ s[k] \in Nat
      BY <1>7
  <2>2. j < k \/ k < j
      BY <2>0
  <2> QED
      BY <1>7, <2>1, <2>2
<1>10. s \in Surjection(1 .. n, r)
  <2>1. s \in Injection(1 .. n, r)
      BY <1>7, <1>9 DEF Injection, IsInjective
  <2> QED
      BY <1>1, <2>1, FS_Injection
<1>11. Range(s) = r
    BY <1>7, <1>10 DEF Surjection, Range
<1> QED
    BY <1>6, <1>8, <1>9, <1>11 DEF IsList

-----------------------------------------------------------------------------
(* A reading is of the cycle that uses it.                                 *)

\* The device list is the set of requested channels.
ListsFollow ==
    \A b \in Boards : req[b] \subseteq AiChan[b] /\ Range(multi[b]) = req[b]

\* While the channels are computed, what is requested has been read in this cycle,
\* but for a board whose device failed as a channel was added.
ReadInTime ==
    pc = "read" => \A i \in Inputs :
        Connected(i[1]) /\ i[2] \in req[i[1]] => reading[i] = "fresh" \/ i[1] \in missed

ReadInv ==
    /\ got = [i \in Inputs |-> got[i]] /\ reading = [i \in Inputs |-> reading[i]]
    /\ req = [b \in Boards |-> req[b]] /\ multi = [b \in Boards |-> multi[b]]
    /\ pc # "read" => \A i \in Inputs : got[i] = "none"
    /\ ListsFollow /\ ReadInTime /\ NoStaleReading

LEMMA InputFacts ==
    ASSUME NEW i \in Inputs
    PROVE  i[1] \in Boards /\ i[2] \in AiChan[i[1]]
BY DEF Inputs

LEMMA EmptyRange == Range(<<>>) = {}
BY DEF Range

LEMMA ReadInit == Init => ReadInv
<1> SUFFICES ASSUME Init PROVE ReadInv
    OBVIOUS
<1>1. ListsFollow
    BY EmptyRange DEF Init, ListsFollow
<1> QED
    BY <1>1 DEF Init, ReadInv, ReadInTime, NoStaleReading

\* daq_AI_read: a channel asked for the first time joins the list, and the board is read.
LEMMA ReadStep ==
    ASSUME ReadInv, NEW i \in Inputs, NEW answers \in BOOLEAN, Read(i, answers)
    PROVE  ReadInv'
<1>1. PICK b \in Boards : b = i[1] /\ i[2] \in AiChan[b]
    BY InputFacts
<1>2. PICK added \in BOOLEAN : added <=> Connected(b) /\ i[2] \notin req[b]
    <2>1. (Connected(b) /\ i[2] \notin req[b]) \in BOOLEAN
        OBVIOUS
    <2> QED
        BY <2>1, Zenon
<1>3. /\ pc = "read" /\ pc' = "read" /\ kind' = kind
      /\ got' = [got EXCEPT ![i] =
                    IF ~Connected(b) \/ reading'[i] = "none" THEN "unknown" ELSE reading'[i]]
    BY <1>1 DEF Read
<1>4. \A x \in Inputs : got'[x] = "old" => x[1] \in missed \/ (x = i /\ Connected(b) /\ reading'[i] = "old")
    BY <1>3 DEF ReadInv, NoStaleReading
<1>5. CASE ~added
  <2>1. UNCHANGED <<req, multi, reading, missed>>
      BY <1>1, <1>2, <1>5 DEF Read
  <2>2. Connected(b) => reading[i] = "fresh" \/ b \in missed
      BY <1>1, <1>2, <1>3, <1>5 DEF ReadInv, ReadInTime
  <2>3. NoStaleReading'
      BY <1>1, <1>4, <2>1, <2>2 DEF NoStaleReading
  <2>4. ReadInTime' /\ ListsFollow'
      BY <1>3, <2>1 DEF ReadInv, ReadInTime, ListsFollow, Connected
  <2> QED
      BY <1>3, <2>1, <2>3, <2>4 DEF ReadInv
<1>6. CASE added
  <2> DEFINE r == req[b] \union {i[2]}
  <2>1. /\ req' = [req EXCEPT ![b] = r] /\ multi' = [multi EXCEPT ![b] = Regenerate(r)]
        /\ reading' = IF answers THEN Ticked(b, multi'[b]) ELSE reading
        /\ missed' = IF answers THEN missed ELSE missed \union {b}
      BY <1>1, <1>2, <1>6 DEF Read
  <2>2. r \in SUBSET AiChan[b] /\ r \in SUBSET Nat /\ IsFiniteSet(r)
    <3>1. r \in SUBSET AiChan[b]
        BY <1>1 DEF ReadInv, ListsFollow
    <3> HIDE DEF r
    <3> QED
        BY <3>1, DaqAssumption, FS_Subset
  <2>3. Range(Regenerate(r)) = r
    <3> HIDE DEF r
    <3> QED
        BY <2>2, RegenerateFacts
  <2>4. ListsFollow'
    <3> HIDE DEF r
    <3> QED
        BY <2>1, <2>2, <2>3 DEF ReadInv, ListsFollow
  <2>5. multi'[b] = Regenerate(r) /\ req'[b] = r /\ \A c \in Boards : c # b => req'[c] = req[c]
    <3> HIDE DEF r
    <3> QED
        BY <2>1 DEF ReadInv
  <2>6. CASE answers
    <3>1. reading' = [x \in Inputs |-> IF x[1] = b /\ x[2] \in r THEN "fresh" ELSE reading[x]]
        BY <2>1, <2>3, <2>5, <2>6 DEF Ticked
    <3>2. \A x \in Inputs : /\ x[1] = b /\ x[2] \in r => reading'[x] = "fresh"
                            /\ x[1] # b => reading'[x] = reading[x]
        BY <3>1
    <3>3. reading'[i] = "fresh" /\ missed' = missed
        BY <1>1, <2>1, <2>6, <3>2
    <3>4. NoStaleReading'
        BY <1>4, <3>3 DEF NoStaleReading
    <3>5. ReadInTime'
      <4> HIDE DEF r
      <4> SUFFICES ASSUME NEW x \in Inputs, Connected(x[1]), x[2] \in req'[x[1]]
                 PROVE  reading'[x] = "fresh" \/ x[1] \in missed
        BY <1>3, <3>3 DEF ReadInTime, Connected
      <4>1. CASE x[1] = b
          BY <2>5, <3>2, <4>1
      <4>2. CASE x[1] # b
          BY <1>3, <2>5, <3>2, <4>2, InputFacts DEF ReadInv, ReadInTime
      <4> QED
          BY <4>1, <4>2
    <3> QED
        BY <1>3, <2>1, <2>4, <3>1, <3>4, <3>5 DEF ReadInv
  <2>7. CASE ~answers
    <3>1. reading' = reading /\ missed' = missed \union {b}
        BY <2>1, <2>7
    <3>2. NoStaleReading'
        BY <1>1, <1>4, <3>1 DEF NoStaleReading
    <3>3. ReadInTime'
      <4> HIDE DEF r
      <4> SUFFICES ASSUME NEW x \in Inputs, Connected(x[1]), x[2] \in req'[x[1]], x[1] # b
                 PROVE  reading[x] = "fresh" \/ x[1] \in missed
        BY <1>3, <3>1 DEF ReadInTime, Connected
      <4> QED
          BY <1>3, <2>5, InputFacts DEF ReadInv, ReadInTime
    <3> QED
        BY <1>3, <2>1, <2>4, <3>1, <3>2, <3>3 DEF ReadInv
  <2> QED
      BY <2>6, <2>7
<1> QED
    BY <1>5, <1>6

\* What touches neither the lists nor the computation of the channels.
LEMMA StillRead ==
    ASSUME ReadInv, UNCHANGED <<req, multi, got>>, pc # "read", pc' # "read",
           reading' = [i \in Inputs |-> reading'[i]]
    PROVE  ReadInv'
BY DEF ReadInv, ListsFollow, ReadInTime, NoStaleReading

LEMMA ReadingStep == ReadInv /\ [Next]_vars => ReadInv'
<1> SUFFICES ASSUME ReadInv, [Next]_vars PROVE ReadInv'
    OBVIOUS
<1>0. ListsFollow /\ reading = [i \in Inputs |-> reading[i]]
    BY DEF ReadInv
<1>1. CASE Connecting
  <2>0. PICK b \in Boards : \E k \in Hardware[b] : Connect(b, k)
      BY <1>1 DEF Connecting
  <2>1. PICK k \in Hardware[b] : Connect(b, k)
      BY <2>0
  <2>2. ListsFollow'
      BY <1>0, <2>1, EmptyRange DEF Connect, ListsFollow, ReadInv
  <2> QED
      BY <2>1, <2>2 DEF Connect, ReadInv, ReadInTime, NoStaleReading
<1>2. CASE Cycling
  <2>1. PICK refusing \in SUBSET Boards : Cycle(refusing)
      BY <1>2 DEF Cycling
  <2> DEFINE fails == {b \in refusing : kind[b] = "real" /\ multi[b] # <<>>}
             ticked == {b \in Boards : \A f \in fails : b < f}
  <2>2. /\ pc = "react" /\ UNCHANGED <<kind, req, multi, got, missed>>
        /\ fails = {} => /\ pc' = "read"
                         /\ reading' = [i \in Inputs |-> IF i[1] \in ticked /\ i[2] \in Range(multi[i[1]])
                                                         THEN "fresh" ELSE reading[i]]
        /\ fails # {} => pc' = "react" /\ reading' = [i \in Inputs |-> reading'[i]]
      BY <2>1 DEF Cycle, Aged
  <2>3. CASE fails = {}
    <3>1. \A i \in Inputs : i[2] \in req[i[1]] => reading'[i] = "fresh"
        BY <1>0, <2>2, <2>3, InputFacts DEF ListsFollow
    <3> HIDE DEF fails, ticked
    <3>2. \A i \in Inputs : got'[i] = "none"
        BY <2>2 DEF ReadInv
    <3> QED
        BY <2>2, <2>3, <3>1, <3>2 DEF ReadInv, ListsFollow, ReadInTime, NoStaleReading
  <2>4. CASE fails # {}
    <3> HIDE DEF fails, ticked
    <3> QED
        BY <2>2, <2>4, StillRead
  <2> QED
      BY <2>3, <2>4
<1>3. CASE Reading
    BY <1>3, ReadStep DEF Reading
<1>4. CASE EndOfRead
    BY <1>4 DEF EndOfRead, ReadInv, ListsFollow, ReadInTime, NoStaleReading, Aged
<1>5. CASE LeavePanel
  <2>1. ListsFollow'
    <3>1. ASSUME NEW b \in Boards
          PROVE  \/ req'[b] = {} /\ multi'[b] = <<>>
                 \/ req'[b] = req[b] /\ multi'[b] = multi[b]
        BY <1>5 DEF LeavePanel
    <3> QED
        BY <1>0, <3>1, EmptyRange DEF ListsFollow
  <2> QED
      BY <1>5, <2>1 DEF LeavePanel, ReadInv, ReadInTime, NoStaleReading, Aged
<1>6. CASE Entering \/ ChangeTimescale \/ Writing \/ Following \/ Requesting
    BY <1>0, <1>6, StillRead DEF Entering, EnterPanel, ChangeTimescale, Writing, WriteOutput,
                           Following, SetFollower, Requesting, RequestPulse, pointVars
<1>7. CASE Starting \/ Failing
    BY <1>0, <1>7, StillRead DEF Starting, StartScan, Failing, StartFails, pointVars
<1>8. CASE Scanning \/ Stopping \/ Processing
    BY <1>0, <1>8, StillRead DEF Scanning, ScanCycle, Stopping, StopScan, Processing, Process,
                           pointVars
<1>9. CASE UNCHANGED vars
    BY <1>9 DEF ReadInv, ListsFollow, ReadInTime, NoStaleReading, Connected, vars, pointVars
<1> QED
    BY <1>1, <1>2, <1>3, <1>4, <1>5, <1>6, <1>7, <1>8, <1>9 DEF Next

\* For any boards and channels, and any devices that refuse: what the channels are
\* computed from was read in the same cycle, except on a board whose device failed just
\* when a channel was added, whose result daq_AI_read drops.
THEOREM ReadingsAreFresh == Spec => []NoStaleReading
<1>1. ReadInv => NoStaleReading
    BY DEF ReadInv
<1> QED
    BY <1>1, ReadInit, ReadingStep, PTL DEF Spec

-----------------------------------------------------------------------------
(* The samples of a scan are in their places.                              *)

\* The records of a board and of a scan have their fields.
IsBoard(rec) == DOMAIN rec = {"prepared", "alloc", "buf", "chans", "npt", "offset"}

IsScan(s) ==
    /\ DOMAIN s = {"status", "npt", "chans"}
    /\ s.npt \in Nat /\ IsList(s.chans)

Shapes ==
    /\ pc \in {"setup", "react", "read", "scan", "process", "fault"}
    /\ board = [b \in Boards |-> board[b]] /\ \A b \in Boards : IsBoard(board[b])
    /\ scan = [b \in Boards |-> scan[b]] /\ \A b \in Boards : IsScan(scan[b])
    /\ dev = [b \in Boards |-> dev[b]] /\ kind = [b \in Boards |-> kind[b]] /\ loop \in Loops

\* In a panel, a board with a scan is connected and prepared for it, and what it records
\* is wanted; no other board has a buffer.
Agreed(b) ==
    /\ Connected(b) /\ board[b].chans = scan[b].chans /\ board[b].npt = scan[b].npt
    /\ \A k \in DOMAIN scan[b].chans : <<b, scan[b].chans[k]>> \in want

Prepares ==
    /\ \A b \in Boards : ~Connected(b) => ~board[b].alloc
    /\ pc # "setup" => \A b \in Boards : IF b \in Scanned THEN Agreed(b) ELSE ~board[b].alloc

\* Between scans there is no buffer, and every prepared scan begins at its first place.
AtRest ==
    ~startFailed /\ pc \in {"setup", "react", "read"} =>
        \A b \in Boards : ~board[b].alloc /\ (pc # "setup" /\ b \in Scanned => board[b].offset = 0)

\* The place in the buffer counts the samples fetched, and they are before it in order.
Held(b) ==
    /\ board[b].alloc /\ DOMAIN board[b].buf = 0 .. (Total(b) - 1)
    /\ dev[b].made \in Nat /\ dev[b].fetched \in Nat
    /\ dev[b].fetched <= dev[b].made /\ dev[b].made <= Total(b)
    /\ board[b].offset = dev[b].fetched
    /\ \A j \in 0 .. (board[b].offset - 1) : board[b].buf[j] = j

Underway == ~startFailed /\ pc \in {"scan", "process", "fault"} => \A b \in Scanned : Held(b)

ScanInv == Shapes /\ Prepares /\ AtRest /\ Underway

LEMMA FreedFacts ==
    ASSUME NEW rec, IsBoard(rec)
    PROVE  /\ IsBoard(Freed(rec)) /\ ~Freed(rec).alloc
           /\ Freed(rec).chans = rec.chans /\ Freed(rec).npt = rec.npt
BY DEF IsBoard, Freed

LEMMA PreparedFacts ==
    ASSUME NEW cs, NEW n
    PROVE  /\ IsBoard(Prepared(cs, n)) /\ ~Prepared(cs, n).alloc
           /\ Prepared(cs, n).chans = cs /\ Prepared(cs, n).npt = n /\ Prepared(cs, n).offset = 0
BY DEF IsBoard, Prepared, NoScan

LEMMA StartedFacts ==
    ASSUME NEW b, IsBoard(board[b])
    PROVE  /\ IsBoard(Started(b)) /\ Started(b).alloc
           /\ Started(b).buf = [j \in 0 .. (Total(b) - 1) |-> Junk]
           /\ Started(b).chans = board[b].chans /\ Started(b).npt = board[b].npt
           /\ Started(b).offset = board[b].offset
BY DEF IsBoard, Started

LEMMA PlaceFacts ==
    ASSUME NEW rec, NEW at, NEW first, NEW n, IsBoard(rec)
    PROVE  /\ IsBoard(Place(rec, at, first, n))
           /\ Place(rec, at, first, n).alloc = rec.alloc
           /\ Place(rec, at, first, n).chans = rec.chans /\ Place(rec, at, first, n).npt = rec.npt
           /\ Place(rec, at, first, n).offset = rec.offset
BY DEF IsBoard, Place

LEMMA PlaceBuf ==
    ASSUME NEW rec, NEW at \in Int, NEW first \in Int, NEW n \in Int, IsBoard(rec)
    PROVE  Place(rec, at, first, n).buf = [j \in DOMAIN rec.buf |->
              IF j \in at .. (at + n - 1) THEN first + j - at ELSE rec.buf[j]]
BY DEF IsBoard, Place

LEMMA StoredShape ==
    ASSUME NEW rec, NEW first, NEW n1, NEW n, IsBoard(rec)
    PROVE  /\ IsBoard(Stored(rec, first, n1, n))
           /\ Stored(rec, first, n1, n).alloc = rec.alloc
           /\ Stored(rec, first, n1, n).chans = rec.chans /\ Stored(rec, first, n1, n).npt = rec.npt
           /\ Stored(rec, first, n1, n).offset = rec.offset + n
           /\ Stored(rec, first, n1, n).buf =
                 Place(Place(rec, rec.offset, first, n1), rec.offset + n1, first + n1, n - n1).buf
<1>0. PICK i : i = Place(rec, rec.offset, first, n1)
    OBVIOUS
<1>1. PICK p : p = Place(i, rec.offset + n1, first + n1, n - n1)
    OBVIOUS
<1>2. /\ IsBoard(p) /\ p.alloc = rec.alloc /\ p.chans = rec.chans /\ p.npt = rec.npt
      /\ p.offset = rec.offset
  <2>1. /\ IsBoard(i) /\ i.alloc = rec.alloc /\ i.chans = rec.chans /\ i.npt = rec.npt
        /\ i.offset = rec.offset
      BY <1>0, PlaceFacts
  <2> QED
      BY <1>1, <2>1, PlaceFacts
<1>3. Stored(rec, first, n1, n) = [p EXCEPT !.offset = @ + n]
    BY <1>0, <1>1 DEF Stored
<1> QED
    BY <1>0, <1>1, <1>2, <1>3 DEF IsBoard

\* However many samples each of the two reads brings, n samples in order go to the n
\* places after those that hold the first ones.
LEMMA StoredInPlace ==
    ASSUME NEW rec, NEW t \in Nat, NEW n \in Nat, NEW n1 \in 0 .. n, IsBoard(rec),
           DOMAIN rec.buf = 0 .. (t - 1), rec.offset \in Nat, rec.offset + n <= t,
           \A j \in 0 .. (rec.offset - 1) : rec.buf[j] = j
    PROVE  /\ DOMAIN Stored(rec, rec.offset, n1, n).buf = 0 .. (t - 1)
           /\ \A j \in 0 .. (rec.offset + n - 1) : Stored(rec, rec.offset, n1, n).buf[j] = j
<1>1. PICK o \in Nat : o = rec.offset
    OBVIOUS
<1>2. PICK p : p = Place(rec, o, o, n1)
    OBVIOUS
<1>3. PICK q : q = Place(p, o + n1, o + n1, n - n1)
    OBVIOUS
<1>4. /\ IsBoard(p)
      /\ p.buf = [j \in 0 .. (t - 1) |-> IF j \in o .. (o + n1 - 1) THEN o + j - o ELSE rec.buf[j]]
    BY <1>2, PlaceFacts, PlaceBuf
<1>5. q.buf = [j \in 0 .. (t - 1) |-> IF j \in (o + n1) .. (o + n1 + (n - n1) - 1)
                                      THEN o + n1 + j - (o + n1) ELSE p.buf[j]]
  <2>1. DOMAIN p.buf = 0 .. (t - 1)
      BY <1>4
  <2>2. q.buf = [j \in DOMAIN p.buf |-> IF j \in (o + n1) .. (o + n1 + (n - n1) - 1)
                                        THEN o + n1 + j - (o + n1) ELSE p.buf[j]]
      BY <1>3, <1>4, PlaceBuf
  <2> QED
      BY <2>1, <2>2
<1>6. Stored(rec, rec.offset, n1, n).buf = q.buf
    BY <1>1, <1>2, <1>3, StoredShape
<1>7. ASSUME NEW j \in 0 .. (o + n - 1)
      PROVE  q.buf[j] = j
  <2>1. j \in 0 .. (t - 1) /\ j \in Nat
      BY <1>1, <1>7
  <2>2. CASE j \in 0 .. (o - 1)
    <3>1. p.buf[j] = rec.buf[j] /\ rec.buf[j] = j
        BY <1>1, <1>4, <2>1, <2>2
    <3> QED
        BY <1>5, <2>1, <2>2, <3>1
  <2>3. CASE j \in o .. (o + n1 - 1)
      BY <1>4, <1>5, <2>1, <2>3
  <2>4. CASE j \in (o + n1) .. (o + n - 1)
      BY <1>5, <2>1, <2>4
  <2> QED
      BY <2>1, <2>2, <2>3, <2>4
<1> QED
    BY <1>1, <1>5, <1>6, <1>7

LEMMA TotalType ==
    ASSUME NEW b \in Boards, IsScan(scan[b]), Agreed(b)
    PROVE  Total(b) \in Nat
BY DEF IsScan, Agreed, Total, IsList

LEMMA ScanInit == Init => ScanInv
<1> SUFFICES ASSUME Init PROVE ScanInv
    OBVIOUS
<1>1. IsList(<<>>)
    BY DEF IsList
<1>2. Shapes
    BY <1>1 DEF Init, Shapes, IsBoard, IsScan, NoScan
<1>3. \A b \in Boards : ~board[b].alloc
    BY DEF Init, NoScan
<1> QED
    BY <1>2, <1>3 DEF Init, ScanInv, Prepares, AtRest, Underway

\* The inputs of a board that a scan records.
LEMMA ScanChansFacts ==
    ASSUME NEW b \in Boards, NEW w
    PROVE  /\ IsList(ScanChans(b, w))
           /\ \A k \in DOMAIN ScanChans(b, w) : <<b, ScanChans(b, w)[k]>> \in w
<1>1. PICK r : r = {c \in AiChan[b] : Connected(b) /\ <<b, c>> \in w}
    OBVIOUS
<1>2. r \in SUBSET AiChan[b] /\ r \in SUBSET Nat /\ IsFiniteSet(r)
  <2>1. r \in SUBSET AiChan[b]
      BY <1>1
  <2> QED
      BY <2>1, DaqAssumption, FS_Subset
<1>3. ScanChans(b, w) = Regenerate(r)
    BY <1>1 DEF ScanChans
<1>4. IsList(Regenerate(r)) /\ Range(Regenerate(r)) = r
    BY <1>2, RegenerateFacts
<1>5. \A k \in DOMAIN Regenerate(r) : Regenerate(r)[k] \in r
    BY <1>4 DEF Range
<1> QED
    BY <1>1, <1>3, <1>4, <1>5

\* daq_SCAN_prepare of a board, whatever it answers.
LEMMA PrepareFacts ==
    ASSUME NEW b \in Boards, NEW s, IsBoard(board[b]), ~Connected(b) => ~board[b].alloc,
           s.status \in Statuses(b, s.chans)
    PROVE  /\ IsBoard(BoardAfterPrepare(b, s)) /\ ~BoardAfterPrepare(b, s).alloc
           /\ s.status = 1 => /\ Connected(b)
                              /\ BoardAfterPrepare(b, s).chans = s.chans
                              /\ BoardAfterPrepare(b, s).npt = s.npt
                              /\ BoardAfterPrepare(b, s).offset = 0
<1>1. CASE ~Connected(b)
    BY <1>1 DEF BoardAfterPrepare, Statuses
<1>2. CASE Connected(b) /\ s.status = 1
    BY <1>2, PreparedFacts DEF BoardAfterPrepare
<1>3. CASE Connected(b) /\ s.status # 1
    BY <1>3, PreparedFacts, FreedFacts DEF BoardAfterPrepare, Refused
<1> QED
    BY <1>1, <1>2, <1>3

LEMMA TimescaleStep ==
    ASSUME Shapes, Prepares, NEW w, VerifyTimescale(w), want' = w, pc' = "react",
           loop' \in Loops, UNCHANGED <<kind, dev>>
    PROVE  ScanInv'
<1>1. PICK status \in [Boards -> {0, 1, 4}], n \in PointCounts :
        /\ \A b \in Boards : status[b] \in Statuses(b, ScanChans(b, w))
        /\ scan' = [b \in Boards |-> [status |-> status[b], npt |-> n, chans |-> ScanChans(b, w)]]
        /\ board' = [b \in Boards |-> BoardAfterPrepare(b, scan'[b])]
  <2> HIDE DEF Statuses, ScanChans
  <2> QED
      BY DEF VerifyTimescale
<1>2. n \in Nat
    BY DaqAssumption
<1>3. ASSUME NEW b \in Boards
      PROVE  /\ scan'[b] = [status |-> status[b], npt |-> n, chans |-> ScanChans(b, w)]
             /\ board'[b] = BoardAfterPrepare(b, scan'[b])
    BY <1>1
<1>4. ASSUME NEW b \in Boards
      PROVE  /\ IsScan(scan'[b]) /\ IsBoard(board'[b]) /\ ~board'[b].alloc
             /\ scan'[b].status = 1 =>
                   /\ Connected(b)' /\ board'[b].chans = scan'[b].chans
                   /\ board'[b].npt = scan'[b].npt /\ board'[b].offset = 0
                   /\ \A k \in DOMAIN scan'[b].chans : <<b, scan'[b].chans[k]>> \in want'
  <2>1. PICK s : s = scan'[b]
      OBVIOUS
  <2>2. /\ s.status = status[b] /\ s.npt = n /\ s.chans = ScanChans(b, w)
        /\ DOMAIN s = {"status", "npt", "chans"}
    <3>1. PICK c : c = ScanChans(b, w)
        OBVIOUS
    <3>2. s = [status |-> status[b], npt |-> n, chans |-> c]
        BY <1>3, <2>1, <3>1
    <3> QED
        BY <3>1, <3>2
  <2>3. s.status \in Statuses(b, s.chans)
      BY <1>1, <2>2
  <2>4. IsBoard(board[b]) /\ (~Connected(b) => ~board[b].alloc)
      BY DEF Shapes, Prepares
  <2>5. /\ IsBoard(BoardAfterPrepare(b, s)) /\ ~BoardAfterPrepare(b, s).alloc
        /\ s.status = 1 => /\ Connected(b)
                           /\ BoardAfterPrepare(b, s).chans = s.chans
                           /\ BoardAfterPrepare(b, s).npt = s.npt
                           /\ BoardAfterPrepare(b, s).offset = 0
      BY <2>3, <2>4, PrepareFacts
  <2>6. board'[b] = BoardAfterPrepare(b, s)
      BY <1>3, <2>1
  <2>7. Connected(b)' <=> Connected(b)
      BY DEF Connected
  <2>8. IsScan(s)
      BY <1>2, <2>2, ScanChansFacts DEF IsScan
  <2>9. \A k \in DOMAIN s.chans : <<b, s.chans[k]>> \in w
      BY <2>2, ScanChansFacts
  <2> QED
      BY <2>1, <2>5, <2>6, <2>7, <2>8, <2>9
<1>5. /\ board' = [b \in Boards |-> board'[b]] /\ scan' = [b \in Boards |-> scan'[b]]
      /\ dev' = [b \in Boards |-> dev'[b]]
  <2>1. board' = [b \in Boards |-> board'[b]]
      BY <1>1
  <2>2. scan' = [b \in Boards |-> scan'[b]]
      BY <1>1
  <2> QED
      BY <2>1, <2>2 DEF Shapes
<1>6. Shapes'
    BY <1>4, <1>5 DEF Shapes
<1>7. Prepares' /\ AtRest' /\ Underway'
    BY <1>4 DEF Prepares, AtRest, Underway, Scanned, Agreed
<1> QED
    BY <1>6, <1>7 DEF ScanInv

-----------------------------------------------------------------------------
\* Outside a scan, and when a trigger changes the pulse during one, the boards and their
\* scans stay as they are.
LEMMA StillScan ==
    ASSUME ScanInv, UNCHANGED <<kind, want, board, scan, dev, loop, startFailed>>,
           \/ pc \in {"react", "read"} /\ pc' \in {"react", "read"}
           \/ pc' = pc
    PROVE  ScanInv'
<1>1. Shapes'
    BY DEF ScanInv, Shapes
<1>2. Prepares' /\ AtRest'
    BY DEF ScanInv, Prepares, AtRest, Scanned, Connected, Agreed
<1>3. Underway'
    BY DEF ScanInv, Underway, Scanned, Held, Total
<1> QED
    BY <1>1, <1>2, <1>3 DEF ScanInv

LEMMA ConnectStep ==
    ASSUME ScanInv, NEW b \in Boards, NEW k, Connect(b, k)
    PROVE  ScanInv'
<1>1. /\ pc = "setup" /\ pc' = "setup" /\ kind' = [kind EXCEPT ![b] = k]
      /\ board' = [board EXCEPT ![b] = Freed(board[b])]
      /\ UNCHANGED <<scan, dev, loop, startFailed>>
    BY DEF Connect, loopVars
<1>2. /\ \A o \in Boards : o # b => board'[o] = board[o] /\ kind'[o] = kind[o]
      /\ board'[b] = Freed(board[b])
    BY <1>1 DEF ScanInv, Shapes
<1>3. IsBoard(board'[b]) /\ ~board'[b].alloc
    BY <1>2, FreedFacts DEF ScanInv, Shapes
<1>4. board' = [o \in Boards |-> board'[o]] /\ kind' = [o \in Boards |-> kind'[o]]
    BY <1>1 DEF ScanInv, Shapes
<1>5. Shapes'
    BY <1>1, <1>2, <1>3, <1>4 DEF ScanInv, Shapes
<1> QED
    BY <1>1, <1>2, <1>3, <1>5 DEF ScanInv, Prepares, AtRest, Underway, Connected

\* scan_array_start: every prepared board gets a buffer and starts at its first place.
LEMMA StartStep ==
    ASSUME ScanInv, NEW taken, StartScan(taken)
    PROVE  ScanInv'
<1>1. /\ pc = "react" /\ pc' = "scan"
      /\ board' = [b \in Boards |-> IF b \in Scanned THEN Started(b) ELSE board[b]]
      /\ dev' = [b \in Boards |-> Idle]
      /\ UNCHANGED <<kind, want, scan, loop, startFailed>>
    BY DEF StartScan, pointVars
<1>2. Scanned' = Scanned
    BY <1>1 DEF Scanned
<1>3. ASSUME NEW b \in Boards
      PROVE  /\ b \in Scanned => /\ IsBoard(board'[b]) /\ board'[b].alloc
                                 /\ board'[b].buf = [j \in 0 .. (Total(b) - 1) |-> Junk]
                                 /\ board'[b].chans = board[b].chans /\ board'[b].npt = board[b].npt
                                 /\ board'[b].offset = board[b].offset
             /\ b \notin Scanned => board'[b] = board[b]
    BY <1>1, StartedFacts DEF ScanInv, Shapes
<1>4. Shapes'
  <2>1. board' = [b \in Boards |-> board'[b]] /\ dev' = [b \in Boards |-> dev'[b]]
      BY <1>1
  <2> QED
      BY <1>1, <1>3, <2>1 DEF ScanInv, Shapes
<1>5. Prepares'
  <2>1. ASSUME NEW b \in Boards
        PROVE  /\ Connected(b)' <=> Connected(b)
               /\ b \in Scanned => Agreed(b)' /\ Connected(b)
               /\ b \notin Scanned => ~board'[b].alloc
    <3>1. Connected(b)' <=> Connected(b)
        BY <1>1 DEF Connected
    <3>2. ASSUME b \in Scanned
          PROVE  Agreed(b)' /\ Connected(b)
      <4>1. Agreed(b)
          BY <1>1, <3>2 DEF ScanInv, Prepares
      <4> QED
          BY <1>1, <1>3, <3>1, <3>2, <4>1 DEF Agreed
    <3>3. b \notin Scanned => ~board'[b].alloc
        BY <1>1, <1>3 DEF ScanInv, Prepares
    <3> QED
        BY <3>1, <3>2, <3>3
  <2> QED
      BY <1>2, <2>1 DEF Prepares
<1>6. Underway'
  <2> SUFFICES ASSUME ~startFailed, NEW b \in Scanned
               PROVE  Held(b)'
      BY <1>1, <1>2 DEF Underway
  <2>1. b \in Boards
      BY DEF Scanned
  <2>2. board[b].offset = 0
      BY <1>1, <2>1 DEF ScanInv, AtRest
  <2>3. Total(b) \in Nat
      BY <1>1, <2>1, TotalType DEF ScanInv, Prepares, Shapes
  <2>4. Total(b)' = Total(b)
      BY <1>3, <2>1 DEF Total
  <2>5. dev'[b].made = 0 /\ dev'[b].fetched = 0
      BY <1>1, <2>1 DEF Idle
  <2>6. DOMAIN board'[b].buf = 0 .. (Total(b) - 1) /\ board'[b].alloc /\ board'[b].offset = 0
      BY <1>3, <2>1, <2>2
  <2> QED
      BY <2>3, <2>4, <2>5, <2>6 DEF Held
<1> QED
    BY <1>1, <1>4, <1>5, <1>6 DEF ScanInv, AtRest

\* run_scope_start's failure leaves boards half stopped, but the scans prepared.
LEMMA FailStep ==
    ASSUME ScanInv, NEW f \in Boards, NEW taken, NEW half, StartFails(f, taken, half)
    PROVE  ScanInv'
<1> DEFINE started == {b \in Scanned : b < f}
           after(b) == IF b \in started \/ b = f THEN Started(b) ELSE board[b]
           upTo(b) == IF half THEN Total(b) \div 2 ELSE Total(b)
           more(b) == IF kind[b] = "real" THEN (IF b \in started THEN upTo(b) ELSE 0)
                      ELSE IF upTo(b) > board[b].offset THEN upTo(b) - board[b].offset ELSE 0
           lost == {b \in Scanned : Overflows(b, after(b), more(b))}
           first(b) == IF kind[b] = "dummy" THEN board[b].offset ELSE 0
<1>1. /\ pc = "react" /\ pc' \in {"react", "fault"} /\ f \in Scanned /\ startFailed' = TRUE
      /\ board' = [b \in Boards |-> IF b \in Scanned /\ lost = {}
                                    THEN Stored(after(b), first(b), more(b), more(b)) ELSE after(b)]
      /\ UNCHANGED <<kind, want, scan, dev, loop>>
    BY DEF StartFails, pointVars, loopVars
<1>2. Scanned' = Scanned
    BY <1>1 DEF Scanned
<1>3. ASSUME NEW b \in Boards
      PROVE  /\ IsBoard(after(b)) /\ (b \notin Scanned => after(b) = board[b])
             /\ after(b).chans = board[b].chans /\ after(b).npt = board[b].npt
  <2>1. CASE b \in started \/ b = f
      BY <1>1, <2>1, StartedFacts DEF ScanInv, Shapes
  <2>2. CASE ~(b \in started \/ b = f)
      BY <2>2 DEF ScanInv, Shapes
  <2> QED
      BY <2>1, <2>2
<1>4. ASSUME NEW b \in Boards
      PROVE  /\ IsBoard(board'[b]) /\ (b \notin Scanned => board'[b] = board[b])
             /\ board'[b].chans = board[b].chans /\ board'[b].npt = board[b].npt
  <2> HIDE DEF after, more, first, lost
  <2>1. CASE b \in Scanned /\ lost = {}
    <3>1. board'[b] = Stored(after(b), first(b), more(b), more(b))
        BY <1>1, <2>1
    <3> QED
        BY <1>3, <2>1, <3>1, StoredShape
  <2>2. CASE ~(b \in Scanned /\ lost = {})
    <3>1. board'[b] = after(b)
        BY <1>1, <2>2
    <3> QED
        BY <1>3, <3>1
  <2> QED
      BY <2>1, <2>2
<1>5. Shapes'
  <2>1. board' = [b \in Boards |-> board'[b]]
    <3> HIDE DEF after, more, first, lost
    <3> QED
        BY <1>1
  <2> QED
      BY <1>1, <1>4, <2>1 DEF ScanInv, Shapes
<1>6. Prepares'
    BY <1>1, <1>2, <1>4 DEF ScanInv, Prepares, Agreed, Connected, Scanned
<1> QED
    BY <1>1, <1>5, <1>6 DEF ScanInv, AtRest, Underway

-----------------------------------------------------------------------------
\* What a board has ready is stored after what it gave before.
LEMMA FetchFacts ==
    ASSUME Shapes, NEW b \in Boards, Held(b), Total(b) \in Nat, NEW n \in Nat, NEW n1 \in 0 .. n,
           dev[b].fetched + n <= Total(b)
    PROVE  LET rec == Stored(board[b], FirstSample(b, dev[b]), n1, n)
           IN  /\ IsBoard(rec) /\ rec.alloc = board[b].alloc
               /\ rec.chans = board[b].chans /\ rec.npt = board[b].npt
               /\ rec.offset = dev[b].fetched + n
               /\ DOMAIN rec.buf = 0 .. (Total(b) - 1)
               /\ \A j \in 0 .. (rec.offset - 1) : rec.buf[j] = j
<1>1. FirstSample(b, dev[b]) = board[b].offset
    BY DEF FirstSample, Held
<1>2. IsBoard(board[b])
    BY DEF Shapes
<1>3. PICK rec : rec = Stored(board[b], board[b].offset, n1, n)
    OBVIOUS
<1>4. /\ IsBoard(rec) /\ rec.alloc = board[b].alloc
      /\ rec.chans = board[b].chans /\ rec.npt = board[b].npt
      /\ rec.offset = board[b].offset + n
    BY <1>2, <1>3, StoredShape
<1>5. board[b].offset = dev[b].fetched /\ board[b].offset \in Nat
    BY DEF Held
<1>6. /\ DOMAIN rec.buf = 0 .. (Total(b) - 1)
      /\ \A j \in 0 .. (board[b].offset + n - 1) : rec.buf[j] = j
  <2>1. PICK r : r = board[b]
      OBVIOUS
  <2>2. PICK t \in Nat : t = Total(b)
      OBVIOUS
  <2>3. /\ IsBoard(r) /\ DOMAIN r.buf = 0 .. (t - 1) /\ r.offset \in Nat /\ r.offset + n <= t
        /\ \A j \in 0 .. (r.offset - 1) : r.buf[j] = j
      BY <1>2, <1>5, <2>1, <2>2 DEF Held
  <2>4. rec = Stored(r, r.offset, n1, n)
      BY <1>3, <2>1
  <2>5. /\ DOMAIN Stored(r, r.offset, n1, n).buf = 0 .. (t - 1)
        /\ \A j \in 0 .. (r.offset + n - 1) : Stored(r, r.offset, n1, n).buf[j] = j
      BY <2>3, StoredInPlace
  <2> QED
      BY <2>1, <2>2, <2>4, <2>5
<1> QED
    BY <1>1, <1>3, <1>4, <1>5, <1>6

LEMMA ProductIsNat ==
    ASSUME NEW a \in Nat, NEW b \in Nat
    PROVE  a * b \in Nat
OBVIOUS

\* A device makes samples, as many as the scan has places for.
LEMMA MadeFacts ==
    ASSUME Shapes, Prepares, pc # "setup", NEW b \in Scanned, NEW m \in 1 .. Jitter, Held(b)
    PROVE  /\ Total(b) \in Nat /\ Made(b, m) \in Nat
           /\ dev[b].made <= Made(b, m) /\ Made(b, m) <= Total(b)
<1>1. b \in Boards /\ Agreed(b)
    BY DEF Scanned, Prepares
<1>2. Total(b) \in Nat /\ Len(board[b].chans) \in Nat
  <2>1. IsScan(scan[b]) /\ board[b].chans = scan[b].chans
      BY <1>1 DEF Shapes, Agreed
  <2>2. scan[b].chans \in Seq(Nat)
      BY <2>1 DEF IsScan, IsList
  <2> QED
      BY <1>1, <2>1, <2>2, TotalType
<1>3. m \in Nat /\ loop \in Nat
    BY DaqAssumption DEF Jitter, Shapes
<1>4. m * Len(board[b].chans) * loop \in Nat
    BY <1>2, <1>3, ProductIsNat
<1>5. PICK p \in Nat : p = m * Len(board[b].chans) * loop
    BY <1>4
<1>6. Made(b, m) = IF dev[b].made + p > Total(b) THEN Total(b) ELSE dev[b].made + p
    BY <1>5 DEF Made
<1> QED
    BY <1>2, <1>5, <1>6 DEF Held

\* run_scope_continue: whichever boards are due, and however each read is divided.
LEMMA CycleStep ==
    ASSUME ScanInv, NEW m \in 1 .. Jitter, NEW half \in BOOLEAN, ScanCycle(m, half)
    PROVE  ScanInv'
<1> DEFINE due == {b \in Scanned : counter # 0 /\ counter % ReadMult(b) = 0}
           fresh(b) == Made(b, m) - dev[b].fetched
           first(b) == IF half THEN fresh(b) \div 2 ELSE fresh(b)
<1>1. /\ pc = "scan" /\ pc' \in {"scan", "fault"}
      /\ UNCHANGED <<kind, want, scan, loop, startFailed>>
      /\ \/ UNCHANGED <<board, dev>>
         \/ /\ dev' = [b \in Boards |->
                  [made    |-> IF b \in Scanned THEN Made(b, m) ELSE 0,
                   fetched |-> IF b \in due THEN Made(b, m) ELSE dev[b].fetched]]
            /\ board' = [b \in Boards |->
                  IF b \in due
                  THEN Stored(board[b], FirstSample(b, dev[b]), first(b), fresh(b))
                  ELSE board[b]]
    BY DEF ScanCycle, pointVars
<1>2. Scanned' = Scanned
    BY <1>1 DEF Scanned
<1>3. CASE UNCHANGED <<board, dev>>
  <2>1. Shapes' /\ Prepares'
      BY <1>1, <1>2, <1>3 DEF ScanInv, Shapes, Prepares, Agreed, Connected, Scanned
  <2>2. Underway'
      BY <1>1, <1>2, <1>3 DEF ScanInv, Underway, Held, Total
  <2> QED
      BY <1>1, <2>1, <2>2 DEF ScanInv, AtRest
<1>4. CASE ~UNCHANGED <<board, dev>>
  <2>1. ASSUME NEW b \in Boards
        PROVE  /\ dev'[b].made = IF b \in Scanned THEN Made(b, m) ELSE 0
               /\ dev'[b].fetched = IF b \in due THEN Made(b, m) ELSE dev[b].fetched
               /\ board'[b] = IF b \in due
                              THEN Stored(board[b], FirstSample(b, dev[b]), first(b), fresh(b))
                              ELSE board[b]
    <3> HIDE DEF due, fresh, first
    <3> QED
        BY <1>1, <1>4
  <2>2. ASSUME NEW b \in Boards
        PROVE  /\ IsBoard(board'[b]) /\ (b \notin Scanned => board'[b] = board[b])
               /\ board'[b].chans = board[b].chans /\ board'[b].npt = board[b].npt
    <3>0. b \in due => b \in Scanned
        OBVIOUS
    <3> HIDE DEF due, fresh, first
    <3> QED
        BY <2>1, <3>0, StoredShape DEF ScanInv, Shapes
  <2>3. board' = [b \in Boards |-> board'[b]] /\ dev' = [b \in Boards |-> dev'[b]]
    <3> HIDE DEF due, fresh, first
    <3> QED
        BY <1>1, <1>4
  <2>4. Shapes'
      BY <1>1, <2>2, <2>3 DEF ScanInv, Shapes
  <2>5. Prepares'
      BY <1>1, <1>2, <2>2 DEF ScanInv, Prepares, Agreed, Connected, Scanned
  <2>6. Underway'
    <3> SUFFICES ASSUME ~startFailed, NEW b \in Scanned
                 PROVE  Held(b)'
        BY <1>1, <1>2 DEF Underway
    <3>1. b \in Boards /\ Held(b)
        BY <1>1 DEF Scanned, ScanInv, Underway
    <3>2. /\ Total(b) \in Nat /\ Made(b, m) \in Nat
          /\ dev[b].made <= Made(b, m) /\ Made(b, m) <= Total(b)
        BY <1>1, <3>1, MadeFacts DEF ScanInv
    <3>3. Total(b)' = Total(b)
        BY <2>2, <3>1 DEF Total
    <3>4. CASE b \in due
      <4>1. /\ fresh(b) \in Nat /\ first(b) \in 0 .. fresh(b)
            /\ dev[b].fetched + fresh(b) = Made(b, m)
        <5>1. PICK y \in Nat, z \in Nat : y = dev[b].fetched /\ z = Made(b, m) /\ y <= z
          <6>1. /\ dev[b].fetched \in Nat /\ dev[b].made \in Nat
                /\ dev[b].fetched <= dev[b].made
              BY <3>1 DEF Held
          <6> QED
              BY <3>2, <6>1
        <5>2. PICK x \in Nat : x = z - y /\ x = fresh(b) /\ y + x = z
          <6>1. fresh(b) = z - y
              BY <5>1
          <6>2. z - y \in Nat /\ y + (z - y) = z
              BY <5>1
          <6> QED
              BY <6>1, <6>2
        <5>3. x \div 2 \in 0 .. x
            OBVIOUS
        <5> QED
            BY <5>1, <5>2, <5>3
      <4>2. board'[b] = Stored(board[b], FirstSample(b, dev[b]), first(b), fresh(b))
          BY <2>1, <3>1, <3>4
      <4>3. dev'[b].made = Made(b, m) /\ dev'[b].fetched = Made(b, m)
          BY <2>1, <3>1, <3>4
      <4> HIDE DEF due, fresh, first
      <4>4. /\ board'[b].alloc = board[b].alloc /\ board'[b].offset = Made(b, m)
            /\ DOMAIN board'[b].buf = 0 .. (Total(b) - 1)
            /\ \A j \in 0 .. (board'[b].offset - 1) : board'[b].buf[j] = j
        <5>1. dev[b].fetched + fresh(b) <= Total(b)
            BY <3>2, <4>1
        <5> QED
            BY <3>1, <3>2, <4>1, <4>2, <5>1, FetchFacts DEF ScanInv
      <4> QED
          BY <3>1, <3>2, <3>3, <4>3, <4>4 DEF Held
    <3>5. CASE b \notin due
      <4>1. /\ board'[b] = board[b] /\ dev'[b].made = Made(b, m)
            /\ dev'[b].fetched = dev[b].fetched
        <5> HIDE DEF due, fresh, first
        <5> QED
            BY <2>1, <3>1, <3>5
      <4> QED
          BY <3>1, <3>2, <3>3, <4>1 DEF Held
    <3> QED
        BY <3>4, <3>5
  <2> QED
      BY <1>1, <2>4, <2>5, <2>6 DEF ScanInv, AtRest
<1> QED
    BY <1>3, <1>4

-----------------------------------------------------------------------------
\* scan_array_stop: what was made and not yet fetched, or is made during the retries.
LEMMA StopStep ==
    ASSUME ScanInv, NEW late \in [Boards -> {"none", "most", "all"}], NEW taken,
           StopScan(late, taken)
    PROVE  ScanInv'
<1> DEFINE n == [b \in Boards |-> Given(b, late[b])]
           more(b) == n[b] - dev[b].fetched
<1>1. /\ pc = "scan" /\ pc' \in {"process", "fault"}
      /\ UNCHANGED <<kind, want, scan, loop, startFailed>>
      /\ \/ UNCHANGED <<board, dev>>
         \/ /\ dev' = [b \in Boards |-> [made |-> n[b], fetched |-> n[b]]]
            /\ board' = [b \in Boards |->
                  IF b \in Scanned
                  THEN Stored(board[b], FirstSample(b, dev[b]), more(b), more(b))
                  ELSE board[b]]
    BY DEF StopScan, pointVars, loopVars
<1>2. Scanned' = Scanned
    BY <1>1 DEF Scanned
<1>3. CASE UNCHANGED <<board, dev>>
  <2>1. Shapes' /\ Prepares'
      BY <1>1, <1>2, <1>3 DEF ScanInv, Shapes, Prepares, Agreed, Connected, Scanned
  <2>2. Underway'
      BY <1>1, <1>2, <1>3 DEF ScanInv, Underway, Held, Total
  <2> QED
      BY <1>1, <2>1, <2>2 DEF ScanInv, AtRest
<1>4. CASE ~UNCHANGED <<board, dev>>
  <2>1. ASSUME NEW b \in Boards
        PROVE  /\ dev'[b].made = Given(b, late[b]) /\ dev'[b].fetched = Given(b, late[b])
               /\ board'[b] = IF b \in Scanned
                              THEN Stored(board[b], FirstSample(b, dev[b]), more(b), more(b))
                              ELSE board[b]
    <3>1. n[b] = Given(b, late[b])
        OBVIOUS
    <3> HIDE DEF n, more
    <3> QED
        BY <1>1, <1>4, <3>1
  <2>2. ASSUME NEW b \in Boards
        PROVE  /\ IsBoard(board'[b]) /\ (b \notin Scanned => board'[b] = board[b])
               /\ board'[b].chans = board[b].chans /\ board'[b].npt = board[b].npt
    <3> HIDE DEF more
    <3> QED
        BY <2>1, StoredShape DEF ScanInv, Shapes
  <2>3. board' = [b \in Boards |-> board'[b]] /\ dev' = [b \in Boards |-> dev'[b]]
    <3> HIDE DEF n, more
    <3> QED
        BY <1>1, <1>4
  <2>4. Shapes'
      BY <1>1, <2>2, <2>3 DEF ScanInv, Shapes
  <2>5. Prepares'
      BY <1>1, <1>2, <2>2 DEF ScanInv, Prepares, Agreed, Connected, Scanned
  <2>6. Underway'
    <3> SUFFICES ASSUME ~startFailed, NEW b \in Scanned
                 PROVE  Held(b)'
        BY <1>1, <1>2 DEF Underway
    <3>1. b \in Boards /\ Held(b) /\ Agreed(b)
        BY <1>1 DEF Scanned, ScanInv, Underway, Prepares
    <3>2. Total(b) \in Nat
        BY <3>1, TotalType DEF ScanInv, Shapes
    <3>3. Total(b)' = Total(b)
        BY <2>2, <3>1 DEF Total
    <3>4. PICK g : g = Given(b, late[b])
        OBVIOUS
    <3>5. PICK d \in Nat : d = dev[b].fetched
        BY <3>1 DEF Held
    <3>6. g \in Nat /\ d <= g /\ g <= Total(b)
      <4>1. /\ dev[b].made \in Nat /\ d <= dev[b].made /\ dev[b].made <= Total(b)
          BY <3>1, <3>5 DEF Held
      <4>2. \/ g = Total(b) \/ g = dev[b].made \/ (dev[b].made < Total(b) /\ g = Total(b) - 1)
          BY <3>4 DEF Given
      <4> QED
          BY <3>2, <4>1, <4>2
    <3>7. board'[b] = Stored(board[b], FirstSample(b, dev[b]), g - d, g - d)
        BY <2>1, <3>1, <3>4, <3>5
    <3>8. g - d \in Nat /\ g - d \in 0 .. (g - d) /\ d + (g - d) = g
        BY <3>6
    <3> HIDE DEF n, more
    <3>9. /\ board'[b].alloc = board[b].alloc /\ board'[b].offset = g
          /\ DOMAIN board'[b].buf = 0 .. (Total(b) - 1)
          /\ \A j \in 0 .. (board'[b].offset - 1) : board'[b].buf[j] = j
      <4>1. PICK x \in Nat : x = g - d /\ x \in 0 .. x /\ d + x = g
          BY <3>8
      <4>2. dev[b].fetched + x <= Total(b)
          BY <3>5, <3>6, <4>1
      <4>3. board'[b] = Stored(board[b], FirstSample(b, dev[b]), x, x)
          BY <3>7, <4>1
      <4>4. Shapes
          BY DEF ScanInv
      <4>5. /\ board'[b].alloc = board[b].alloc /\ board'[b].offset = dev[b].fetched + x
            /\ DOMAIN board'[b].buf = 0 .. (Total(b) - 1)
            /\ \A j \in 0 .. (board'[b].offset - 1) : board'[b].buf[j] = j
        <5>1. x \in Nat /\ x \in 0 .. x
            BY <4>1
        <5> QED
            BY <3>1, <3>2, <4>2, <4>3, <4>4, <5>1, FetchFacts
      <4> QED
          BY <3>5, <4>1, <4>5
    <3>10. dev'[b].made = g /\ dev'[b].fetched = g
        BY <2>1, <3>1, <3>4
    <3> QED
        BY <3>1, <3>3, <3>6, <3>9, <3>10 DEF Held
  <2> QED
      BY <1>1, <2>4, <2>5, <2>6 DEF ScanInv, AtRest
<1> QED
    BY <1>3, <1>4

\* scan_array_process prepares every scan again, whatever the devices answer.
LEMMA ProcessStep ==
    ASSUME ScanInv, NEW status, NEW rounded, Process(status, rounded)
    PROVE  ScanInv'
<1>1. /\ pc = "process" /\ pc' = "react" /\ UNCHANGED <<kind, want, loop>>
      /\ board' = [b \in Boards |-> IF b \in Scanned THEN BoardAfterPrepare(b, scan'[b]) ELSE board[b]]
      /\ scan' = [b \in Boards |->
                IF b \in Scanned
                THEN [scan[b] EXCEPT !.status = status[b],
                                     !.npt = IF rounded /\ scan[b].npt - 1 \in PointCounts
                                             THEN scan[b].npt - 1 ELSE scan[b].npt]
                ELSE scan[b]]
      /\ dev' = [b \in Boards |-> Idle]
      /\ \A b \in Scanned : status[b] \in Statuses(b, scan[b].chans)
  <2> HIDE DEF Statuses, BoardAfterPrepare, Scanned
  <2>1. \A b \in Scanned : b \in Boards
      BY DEF Scanned
  <2> QED
      BY <2>1, Zenon DEF Process, pointVars
<1>2. ASSUME NEW b \in Boards
      PROVE  /\ b \in Scanned => board'[b] = BoardAfterPrepare(b, scan'[b])
             /\ b \notin Scanned => board'[b] = board[b] /\ scan'[b] = scan[b]
             /\ IsScan(scan'[b])
             /\ b \in Scanned => scan'[b].status = status[b] /\ scan'[b].chans = scan[b].chans
  <2>1. IsScan(scan[b])
      BY DEF ScanInv, Shapes
  <2>2. CASE b \in Scanned
    <3>1. PICK n : n = IF rounded /\ scan[b].npt - 1 \in PointCounts
                       THEN scan[b].npt - 1 ELSE scan[b].npt
        OBVIOUS
    <3>2. n \in Nat
        BY <2>1, <3>1, DaqAssumption DEF IsScan
    <3>3. scan'[b] = [scan[b] EXCEPT !.status = status[b], !.npt = n]
        BY <1>1, <2>2, <3>1
    <3>4. /\ scan'[b].status = status[b] /\ scan'[b].npt = n /\ scan'[b].chans = scan[b].chans
          /\ DOMAIN scan'[b] = {"status", "npt", "chans"}
        BY <2>1, <3>3 DEF IsScan
    <3>5. board'[b] = BoardAfterPrepare(b, scan'[b])
        BY <1>1, <2>2
    <3> QED
        BY <2>1, <2>2, <3>2, <3>4, <3>5 DEF IsScan
  <2>3. CASE b \notin Scanned
      BY <1>1, <2>1, <2>3
  <2> QED
      BY <2>2, <2>3
<1>3. ASSUME NEW b \in Boards
      PROVE  /\ IsBoard(board'[b]) /\ ~board'[b].alloc
             /\ scan'[b].status = 1 =>
                   /\ Connected(b)' /\ board'[b].chans = scan'[b].chans
                   /\ board'[b].npt = scan'[b].npt /\ board'[b].offset = 0
                   /\ \A k \in DOMAIN scan'[b].chans : <<b, scan'[b].chans[k]>> \in want'
  <2>0. /\ IsBoard(board[b]) /\ (~Connected(b) => ~board[b].alloc)
        /\ b \notin Scanned => ~board[b].alloc /\ scan[b].status # 1
        /\ b \in Scanned => Agreed(b)
        /\ (Connected(b)' <=> Connected(b))
      BY <1>1 DEF ScanInv, Shapes, Prepares, Scanned, Connected
  <2>1. CASE b \in Scanned
    <3>1. PICK s : s = scan'[b]
        OBVIOUS
    <3>2. s.status \in Statuses(b, s.chans) /\ s.chans = scan[b].chans
        BY <1>1, <1>2, <2>1, <3>1
    <3>3. /\ IsBoard(BoardAfterPrepare(b, s)) /\ ~BoardAfterPrepare(b, s).alloc
          /\ s.status = 1 => /\ Connected(b)
                             /\ BoardAfterPrepare(b, s).chans = s.chans
                             /\ BoardAfterPrepare(b, s).npt = s.npt
                             /\ BoardAfterPrepare(b, s).offset = 0
        BY <2>0, <3>2, PrepareFacts
    <3>4. board'[b] = BoardAfterPrepare(b, s)
        BY <1>2, <2>1, <3>1
    <3>5. \A k \in DOMAIN s.chans : <<b, s.chans[k]>> \in want'
        BY <1>1, <2>0, <2>1, <3>2 DEF Agreed
    <3> QED
        BY <2>0, <3>1, <3>3, <3>4, <3>5
  <2>2. CASE b \notin Scanned
      BY <1>2, <2>0, <2>2
  <2> QED
      BY <2>1, <2>2
<1>4. /\ board' = [b \in Boards |-> board'[b]] /\ scan' = [b \in Boards |-> scan'[b]]
      /\ dev' = [b \in Boards |-> dev'[b]]
  <2>1. board' = [b \in Boards |-> board'[b]]
      BY <1>1
  <2>2. scan' = [b \in Boards |-> scan'[b]]
      BY <1>1
  <2>3. dev' = [b \in Boards |-> dev'[b]]
      BY <1>1
  <2> QED
      BY <2>1, <2>2, <2>3
<1>5. Shapes'
    BY <1>1, <1>2, <1>3, <1>4 DEF ScanInv, Shapes
<1>6. Prepares' /\ AtRest' /\ Underway'
    BY <1>1, <1>3 DEF Prepares, AtRest, Underway, Scanned, Agreed
<1> QED
    BY <1>5, <1>6 DEF ScanInv

LEMMA ScanStep == ScanInv /\ [Next]_vars => ScanInv'
<1> SUFFICES ASSUME ScanInv, [Next]_vars PROVE ScanInv'
    OBVIOUS
<1>1. CASE Connecting
    BY <1>1, ConnectStep DEF Connecting
<1>2. CASE Entering
  <2>1. PICK w \in Uses[outs], l \in Loops : EnterPanel(w, l)
      BY <1>2 DEF Entering
  <2>2. /\ VerifyTimescale(w) /\ want' = w /\ pc' = "react" /\ loop' \in Loops
        /\ UNCHANGED <<kind, dev>>
      BY <2>1 DEF EnterPanel
  <2> QED
      BY <2>2, TimescaleStep DEF ScanInv
<1>3. CASE ChangeTimescale
  <2>1. /\ VerifyTimescale(want) /\ want' = want /\ pc' = "react" /\ loop' \in Loops
        /\ UNCHANGED <<kind, dev>>
      BY <1>3 DEF ChangeTimescale, pointVars, loopVars, ScanInv, Shapes
  <2> QED
      BY <2>1, TimescaleStep DEF ScanInv
<1>4. CASE LeavePanel
  <2>1. /\ pc \in {"react"} /\ pc' = "setup"
        /\ UNCHANGED <<kind, board, scan, dev, loop, startFailed>>
      BY <1>4 DEF LeavePanel, scanVars, loopVars
  <2> QED
      BY <2>1 DEF ScanInv, Shapes, Prepares, AtRest, Underway, Connected
<1>5. CASE Cycling \/ Reading \/ EndOfRead \/ Writing \/ Following \/ Requesting
  <2>1. /\ UNCHANGED <<kind, want, board, scan, dev, loop, startFailed>>
        /\ \/ pc \in {"react", "read"} /\ pc' \in {"react", "read"}
           \/ pc' = pc
      BY <1>5 DEF Cycling, Cycle, Reading, Read, EndOfRead, Writing, WriteOutput, Following,
                  SetFollower, Requesting, RequestPulse, pointVars, scanVars, loopVars
  <2> QED
      BY <2>1, StillScan
<1>6. CASE Starting
    BY <1>6, StartStep DEF Starting
<1>7. CASE Failing
    BY <1>7, FailStep DEF Failing
<1>8. CASE Scanning
    BY <1>8, CycleStep DEF Scanning
<1>9. CASE Stopping
    BY <1>9, StopStep DEF Stopping
<1>10. CASE Processing
    BY <1>10, ProcessStep DEF Processing
<1>11. CASE UNCHANGED vars
    BY <1>11, StillScan DEF vars, pointVars, scanVars, loopVars
<1> QED
    BY <1>1, <1>2, <1>3, <1>4, <1>5, <1>6, <1>7, <1>8, <1>9, <1>10, <1>11 DEF Next

\* For any boards and channels, any interleaving of reads, any of their lengths and any end
\* of the scan: the samples of every board stand in scan_buffer at their places in order,
\* and the buffer has room for them (daq_SCAN_read, daq_SCAN_stop).
THEOREM SamplesAreInPlace == Spec => []SamplesInPlace
<1>1. ScanInv => SamplesInPlace
  <2> SUFFICES ASSUME ScanInv, ~startFailed, NEW b \in Boards, board[b].alloc
               PROVE  /\ board[b].offset <= Total(b)
                      /\ \A j \in 0 .. (board[b].offset - 1) : board[b].buf[j] = j
      BY DEF SamplesInPlace
  <2>1. pc \in {"scan", "process", "fault"} /\ b \in Scanned
      BY DEF ScanInv, Shapes, AtRest, Prepares
  <2>2. Held(b) /\ Agreed(b)
      BY <2>1 DEF ScanInv, Underway, Prepares
  <2>3. Total(b) \in Nat
      BY <2>2, TotalType DEF ScanInv, Shapes
  <2> QED
      BY <2>2, <2>3 DEF Held
<1> QED
    BY <1>1, ScanInit, ScanStep, PTL DEF Spec

-----------------------------------------------------------------------------
(* The rows are the samples.                                               *)

\* The sample of channel k of point pt stands among those of its own point.
LEMMA PlaceOfSample ==
    ASSUME NEW n \in Nat \ {0}, NEW k \in 1 .. n, NEW pt \in Nat, NEW o \in Nat, pt < o \div n
    PROVE  k - 1 + n * pt \in 0 .. (o - 1)
<1>1. PICK q \in Nat : q = o \div n /\ n * q <= o
    OBVIOUS
<1>2. pt + 1 <= q
    BY <1>1
<1>3. n * (pt + 1) <= n * q
    BY <1>1, <1>2
<1>4. PICK x \in Nat : x = n * pt /\ n * (pt + 1) = x + n
    OBVIOUS
<1> QED
    BY <1>1, <1>3, <1>4

\* For any boards and channels and any end of the scan: scan_array_process finds, for every
\* board, the samples of its own inputs in order for all the points that were complete
\* when it stopped, and 0 after them (AI_convert, scan_saved).
THEOREM RowsHoldSamples == Spec => []RowsAreSamples
<1>1. ScanInv => RowsAreSamples
  <2> SUFFICES ASSUME ScanInv, pc = "process", ~startFailed, NEW b \in Scanned,
                      NEW pt \in DOMAIN Rows[b], NEW k \in DOMAIN scan[b].chans
               PROVE  LET n == Len(scan[b].chans)
                      IN  Rows[b][pt][<<b, scan[b].chans[k]>>] =
                            IF pt < dev[b].fetched \div n THEN pt * n + k - 1 ELSE Zero
      BY DEF RowsAreSamples
  <2>1. b \in Boards /\ Held(b) /\ Agreed(b) /\ IsScan(scan[b]) /\ Total(b) \in Nat
    <3>1. b \in Boards /\ Held(b) /\ Agreed(b) /\ IsScan(scan[b])
        BY DEF Scanned, ScanInv, Shapes, Prepares, Underway
    <3> QED
        BY <3>1, TotalType
  <2>2. PICK cs : cs = scan[b].chans /\ cs = board[b].chans /\ cs \in Seq(Nat)
      BY <2>1 DEF Agreed, IsScan, IsList
  <2>3. PICK n \in Nat : n = Len(cs) /\ DOMAIN cs = 1 .. n
      BY <2>2
  <2>4. k \in 1 .. n /\ n \in Nat \ {0}
      BY <2>2, <2>3
  <2>5. <<b, cs[k]>> \in want /\ Connected(b) /\ cs[k] \in Range(cs)
      BY <2>1, <2>2 DEF Agreed, Range
  <2>6. pt \in 0 .. (scan[b].npt - 1)
    <3>1. Rows[b] = [x \in 0 .. (scan[b].npt - 1) |->
                        [i \in want |-> IF i[1] \in Scanned /\ i[1] < b THEN Zero
                                        ELSE Convert(i[1], i[2], x)]]
        BY DEF Rows
    <3> QED
        BY <3>1
  <2>7. Rows[b][pt][<<b, cs[k]>>] = Convert(b, cs[k], pt)
    <3>1. Rows[b][pt] = [i \in want |-> IF i[1] \in Scanned /\ i[1] < b THEN Zero
                                        ELSE Convert(i[1], i[2], pt)]
        BY <2>6 DEF Rows
    <3>2. ~(b < b)
        BY <2>1, DaqAssumption DEF Boards
    <3> QED
        BY <2>5, <3>1, <3>2
  <2>8. (CHOOSE q \in DOMAIN cs : cs[q] = cs[k]) = k
      BY <2>1, <2>2 DEF IsScan, IsList
  <2>9. PICK o \in Nat : o = dev[b].fetched /\ o = board[b].offset
      BY <2>1 DEF Held
  <2>10. Saved(board[b]) = o \div n
    <3>1. cs # <<>>
        BY <2>2, <2>3, <2>4
    <3> QED
        BY <2>2, <2>3, <2>9, <3>1 DEF Saved
  <2>11. Convert(b, cs[k], pt) = IF pt >= o \div n THEN Zero ELSE board[b].buf[k - 1 + n * pt]
    <3>1. PICK p : p = CHOOSE q \in DOMAIN board[b].chans : board[b].chans[q] = cs[k]
        OBVIOUS
    <3>2. Convert(b, cs[k], pt) =
            IF ~Connected(b) \/ cs[k] \notin Range(board[b].chans) \/ pt >= Saved(board[b]) THEN Zero
            ELSE board[b].buf[p - 1 + Len(board[b].chans) * pt]
        BY <3>1 DEF Convert
    <3>3. p = k
        BY <2>2, <2>8, <3>1
    <3> QED
        BY <2>2, <2>3, <2>5, <2>10, <3>2, <3>3
  <2>12. pt \in Nat /\ o \div n \in Int
      BY <2>1, <2>4, <2>6 DEF IsScan
  <2>13. ASSUME pt < o \div n
         PROVE  board[b].buf[k - 1 + n * pt] = pt * n + k - 1
    <3>1. k - 1 + n * pt \in 0 .. (board[b].offset - 1)
        BY <2>4, <2>9, <2>12, <2>13, PlaceOfSample
    <3>2. board[b].buf[k - 1 + n * pt] = k - 1 + n * pt
        BY <2>1, <3>1 DEF Held
    <3>3. k - 1 + n * pt = pt * n + k - 1
        BY <2>4, <2>12
    <3> QED
        BY <3>2, <3>3
  <2> QED
      BY <2>2, <2>3, <2>7, <2>9, <2>11, <2>12, <2>13
<1> QED
    BY <1>1, ScanInit, ScanStep, PTL DEF Spec

-----------------------------------------------------------------------------
(* Room for every sample.                                                  *)

\* A read during a scan stays in the buffer, whatever the device has made.
LEMMA RoomInCycle ==
    ASSUME ScanInv, pc = "scan", ~startFailed, NEW b \in Scanned, NEW m \in 1 .. Jitter
    PROVE  /\ ~Overflows(b, board[b], Made(b, m) - dev[b].fetched)
           /\ Made(b, m) \in Nat /\ dev[b].made <= Made(b, m)
<1>1. Held(b)
    BY DEF ScanInv, Underway
<1>2. /\ Total(b) \in Nat /\ Made(b, m) \in Nat
      /\ dev[b].made <= Made(b, m) /\ Made(b, m) <= Total(b)
    BY <1>1, MadeFacts DEF ScanInv
<1>3. PICK f \in Nat, d \in Nat : f = dev[b].fetched /\ d = Made(b, m) /\ board[b].offset = f
    BY <1>1, <1>2 DEF Held
<1>4. f + (d - f) = d /\ d <= Total(b) /\ board[b].alloc
    BY <1>1, <1>2, <1>3 DEF Held
<1>5. ~(board[b].offset + (d - f) > Total(b))
    BY <1>2, <1>3, <1>4
<1> QED
    BY <1>2, <1>3, <1>4, <1>5 DEF Overflows

\* So does the read that ends it.
LEMMA RoomAtStop ==
    ASSUME ScanInv, pc = "scan", ~startFailed, NEW b \in Scanned, NEW late
    PROVE  ~Overflows(b, board[b], Given(b, late) - dev[b].fetched)
<1>1. Held(b) /\ b \in Boards /\ Agreed(b)
    BY DEF ScanInv, Underway, Prepares, Scanned
<1>2. Total(b) \in Nat
    BY <1>1, TotalType DEF ScanInv, Shapes
<1>3. PICK g : g = Given(b, late)
    OBVIOUS
<1>4. g \in Nat /\ g <= Total(b)
  <2>1. dev[b].made \in Nat /\ dev[b].made <= Total(b)
      BY <1>1 DEF Held
  <2>2. \/ g = Total(b) \/ g = dev[b].made \/ (dev[b].made < Total(b) /\ g = Total(b) - 1)
      BY <1>3 DEF Given
  <2> QED
      BY <1>2, <2>1, <2>2
<1>5. PICK f \in Nat : f = dev[b].fetched /\ board[b].offset = f /\ board[b].alloc
    BY <1>1 DEF Held
<1>6. f + (g - f) = g
    BY <1>4, <1>5
<1>7. ~(board[b].offset + (g - f) > Total(b))
    BY <1>2, <1>4, <1>5, <1>6
<1> QED
    BY <1>3, <1>5, <1>7 DEF Overflows

\* No sample is stored outside scan_buffer unless a scan failed to start, and only a
\* fault ends the DAQ thread.
InTheBuffer == fault = "no_place" => startFailed
FaultEnds   == pc # "fault" => fault = "none"

LEMMA FaultStep == ScanInv /\ InTheBuffer /\ FaultEnds /\ [Next]_vars => InTheBuffer' /\ FaultEnds'
<1> SUFFICES ASSUME ScanInv, InTheBuffer, FaultEnds, [Next]_vars
             PROVE  InTheBuffer' /\ FaultEnds'
    OBVIOUS
<1>1. CASE Connecting \/ Entering \/ ChangeTimescale \/ LeavePanel \/ Cycling \/ Reading \/ EndOfRead
    BY <1>1 DEF Connecting, Connect, Entering, EnterPanel, ChangeTimescale, LeavePanel, Cycling, Cycle,
                Reading, Read, EndOfRead, InTheBuffer, FaultEnds
<1>2. CASE Writing \/ Following \/ Requesting \/ Starting \/ Processing
    BY <1>2 DEF Writing, WriteOutput, Following, SetFollower, Requesting, RequestPulse, Starting,
                  StartScan, Processing, Process,
                InTheBuffer, FaultEnds
<1>3. CASE Failing
  <2>1. startFailed' = TRUE /\ (pc' # "fault" => fault' = "none")
      BY <1>3 DEF Failing, StartFails
  <2> QED
      BY <2>1 DEF InTheBuffer, FaultEnds
<1>4. CASE Scanning
  <2>1. PICK m \in 1 .. Jitter, half \in BOOLEAN : ScanCycle(m, half)
      BY <1>4 DEF Scanning
  <2> DEFINE due == {b \in Scanned : counter # 0 /\ counter % ReadMult(b) = 0}
             lost == {b \in Scanned : Overflows(b, board[b], Made(b, m) - dev[b].fetched)}
  <2>2. /\ pc = "scan" /\ startFailed' = startFailed
        /\ fault' \in {"none", "zero_interval", "overrun", "no_place"}
        /\ fault' = "no_place" => due \intersect lost # {}
        /\ pc' = IF fault' = "none" THEN "scan" ELSE "fault"
      BY <2>1 DEF ScanCycle
  <2>3. ~startFailed => lost = {}
      BY <2>2, RoomInCycle
  <2> QED
      BY <2>2, <2>3 DEF InTheBuffer, FaultEnds
<1>5. CASE Stopping
  <2>1. PICK late \in [Boards -> {"none", "most", "all"}], taken \in BOOLEAN : StopScan(late, taken)
      BY <1>5 DEF Stopping
  <2> DEFINE n == [b \in Boards |-> Given(b, late[b])]
             lost == {b \in Scanned : Overflows(b, board[b], n[b] - dev[b].fetched)}
  <2>2. /\ pc = "scan" /\ startFailed' = startFailed
        /\ \/ lost # {} /\ fault' = "no_place" /\ pc' = "fault"
           \/ fault' = "none" /\ pc' = "process"
      BY <2>1 DEF StopScan
  <2>3. ~startFailed => lost = {}
    <3>1. \A b \in Scanned : n[b] = Given(b, late[b])
        BY DEF Scanned
    <3> HIDE DEF n
    <3> QED
        BY <2>2, <3>1, RoomAtStop
  <2> QED
      BY <2>2, <2>3 DEF InTheBuffer, FaultEnds
<1>6. CASE UNCHANGED vars
    BY <1>6 DEF InTheBuffer, FaultEnds, vars
<1> QED
    BY <1>1, <1>2, <1>3, <1>4, <1>5, <1>6 DEF Next

\* For any boards, channels, intervals and rates: daq_SCAN_read and daq_SCAN_stop never
\* store a sample outside scan_buffer, except after run_scope_start left boards half
\* stopped.
THEOREM SamplesStayInside == Spec => []InTheBuffer
<1> DEFINE I == ScanInv /\ InTheBuffer /\ FaultEnds
<1>1. Init => I
    BY ScanInit DEF Init, InTheBuffer, FaultEnds
<1>2. I /\ [Next]_vars => I'
    BY ScanStep, FaultStep
<1> QED
    BY <1>1, <1>2, PTL DEF Spec

-----------------------------------------------------------------------------
(* The reads keep pace with the devices.                                   *)

Found == \A b \in Boards : Connected(b) => kind[b] \in Hardware[b] /\ kind[b] \in {"dummy", "real"}

\* A scan records some of the channels of its board.
Sized ==
    pc # "setup" => \A b \in Scanned : /\ Connected(b)
                                       /\ Len(scan[b].chans) \in 1 .. Cardinality(AiChan[b])

\* What a board makes in a cycle, at most.
PerCycle(b) == Jitter * Len(board[b].chans) * loop

\* u cycles have passed since the board was last read, q reads before that.
Passed(b, q, u) ==
    /\ counter = q * ReadMult(b) + u
    /\ dev[b].made - dev[b].fetched <= u * PerCycle(b)

Pace ==
    pc = "scan" /\ ~startFailed => \A b \in Scanned :
        \E q \in Nat, u \in 0 .. ReadMult(b) : Passed(b, q, u)

PaceInv == Found /\ Sized /\ Pace /\ counter \in Nat

LEMMA ScanChansSize ==
    ASSUME NEW b \in Boards, NEW w, ScanChans(b, w) # <<>>
    PROVE  Len(ScanChans(b, w)) \in 1 .. Cardinality(AiChan[b])
<1>1. PICK r : r = {c \in AiChan[b] : Connected(b) /\ <<b, c>> \in w}
    OBVIOUS
<1>2. r \in SUBSET AiChan[b] /\ r \in SUBSET Nat /\ IsFiniteSet(r) /\ IsFiniteSet(AiChan[b])
  <2>1. r \in SUBSET AiChan[b]
      BY <1>1
  <2> QED
      BY <2>1, DaqAssumption, FS_Subset
<1>3. ScanChans(b, w) = Regenerate(r)
    BY <1>1 DEF ScanChans
<1>4. /\ IsList(Regenerate(r)) /\ Len(Regenerate(r)) = Cardinality(r)
      /\ Cardinality(r) <= Cardinality(AiChan[b])
      /\ Cardinality(r) \in Nat /\ Cardinality(AiChan[b]) \in Nat
    BY <1>2, RegenerateFacts, FS_Subset, FS_CardinalityType
<1>5. PICK s \in Seq(Nat) : s = Regenerate(r)
    BY <1>4 DEF IsList
<1>6. Len(s) # 0
    BY <1>3, <1>5
<1> QED
    BY <1>3, <1>4, <1>5, <1>6

\* A board is read at least once in R cycles, and its ring has room for what it makes in
\* R + 1, if R is not 0.
LEMMA RingArithmetic ==
    ASSUME NEW n \in Nat \ {0}, NEW l \in Nat \ {0}, NEW ring \in Nat,
           (ring \div (4 * n)) \div l # 0
    PROVE  \A u \in 0 .. (ring \div (4 * n)) \div l : (u + 1) * (2 * n * l) <= ring
<1>1. PICK p \in Nat \ {0} : p = 4 * n
    OBVIOUS
<1>2. PICK i \in Nat : i = ring \div p /\ p * i <= ring /\ ring < p * i + p
    BY <1>1
<1>4. PICK R \in Nat : R = i \div l /\ l * R <= i /\ i < l * R + l
    BY <1>2
<1>5. R # 0
    BY <1>1, <1>2, <1>4
<1>6. PICK s \in Nat : s = 2 * n * l /\ p * l = 2 * s
    BY <1>1
<1>7. ASSUME NEW u \in 0 .. R
      PROVE  (u + 1) * s <= ring
  <2>1. u + 1 <= 2 * R
      BY <1>4, <1>5
  <2>2. (u + 1) * s <= (2 * R) * s
      BY <1>4, <1>6, <2>1
  <2>3. (2 * R) * s = p * (l * R)
      BY <1>1, <1>4, <1>6
  <2>4. p * (l * R) <= p * i
      BY <1>1, <1>2, <1>4
  <2> QED
      BY <1>1, <1>2, <1>4, <1>6, <2>2, <2>3, <2>4
<1> QED
    BY <1>1, <1>2, <1>4, <1>5, <1>6, <1>7

-----------------------------------------------------------------------------
LEMMA MultFacts ==
    ASSUME Shapes, Found, Sized, pc # "setup", NEW b \in Scanned
    PROVE  /\ b \in Boards /\ loop \in Nat \ {0} /\ ReadMult(b) \in Nat
           /\ Len(scan[b].chans) \in Nat \ {0}
           /\ ReadMult(b) # 0 /\ kind[b] = "real" =>
                 \A u \in 0 .. ReadMult(b) : (u + 1) * (2 * Len(scan[b].chans) * loop) <= Ring
<1>1. b \in Boards /\ Connected(b) /\ kind[b] \in Hardware[b] /\ kind[b] \in {"dummy", "real"}
    BY DEF Scanned, Found, Sized
<1>2. PICK l \in Nat \ {0} : l = loop /\ l \in Loops
    BY DaqAssumption DEF Shapes
<1>3. PICK n \in Nat \ {0} : n = Len(scan[b].chans) /\ n <= Cardinality(AiChan[b])
  <2>1. Cardinality(AiChan[b]) \in Nat
      BY <1>1, DaqAssumption, FS_CardinalityType
  <2> QED
      BY <2>1 DEF Sized
<1>4. CASE kind[b] = "dummy"
  <2>1. ReadMult(b) = DummyInterval \div l /\ DummyInterval \in Nat
      BY <1>2, <1>4, DaqAssumption DEF ReadMult, ReadInterval
  <2>2. DummyInterval \div l \in Nat
      BY <1>2, <2>1
  <2> QED
      BY <1>1, <1>2, <1>3, <1>4, <2>1, <2>2
<1>5. CASE kind[b] = "real"
  <2>1. ReadMult(b) = (Ring \div (4 * n)) \div l /\ Ring \in Nat
      BY <1>2, <1>3, <1>5, DaqAssumption DEF ReadMult, ReadInterval
  <2>2. (Ring \div (4 * n)) \div l \in Nat
    <3>1. PICK p \in Nat \ {0} : p = 4 * n
        BY <1>3
    <3>2. Ring \div p \in Nat
        BY <2>1, <3>1
    <3> QED
        BY <1>2, <3>1, <3>2
  <2>3. ASSUME ReadMult(b) # 0
        PROVE  \A u \in 0 .. ReadMult(b) : (u + 1) * (2 * n * l) <= Ring
      BY <1>2, <1>3, <2>1, <2>3, RingArithmetic
  <2> QED
      BY <1>1, <1>2, <1>3, <2>1, <2>2, <2>3
<1> QED
    BY <1>1, <1>4, <1>5

LEMMA FoundStep == ScanInv /\ Found /\ [Next]_vars => Found'
<1> SUFFICES ASSUME ScanInv, Found, [Next]_vars PROVE Found'
    OBVIOUS
<1>1. CASE Connecting
  <2>0. PICK b \in Boards : \E k \in Hardware[b] : Connect(b, k)
      BY <1>1 DEF Connecting
  <2>1. PICK k \in Hardware[b] : Connect(b, k)
      BY <2>0
  <2>2. kind' = [kind EXCEPT ![b] = k] /\ k \in {"absent", "dummy", "real"}
      BY <2>1, DaqAssumption DEF Connect
  <2> QED
      BY <2>2 DEF ScanInv, Shapes, Found, Connected
<1>2. CASE ~Connecting
  <2>1. kind' = kind
      BY <1>2 DEF Next, Entering, EnterPanel, ChangeTimescale, LeavePanel, Cycling, Cycle,
                  Reading, Read,
                  EndOfRead, Writing, WriteOutput, Following, SetFollower, Requesting, RequestPulse,
                  Starting, StartScan, Failing, StartFails, Scanning, ScanCycle, Stopping,
                  StopScan, Processing, Process,
                  vars, pointVars
  <2> QED
      BY <2>1 DEF Found, Connected
<1> QED
    BY <1>1, <1>2

LEMMA SizedVerified ==
    ASSUME NEW w, VerifyTimescale(w), kind' = kind
    PROVE  Sized'
<1>1. PICK status \in [Boards -> {0, 1, 4}], n \in PointCounts :
        /\ \A b \in Boards : status[b] \in Statuses(b, ScanChans(b, w))
        /\ scan' = [b \in Boards |-> [status |-> status[b], npt |-> n, chans |-> ScanChans(b, w)]]
  <2> HIDE DEF Statuses, ScanChans
  <2> QED
      BY DEF VerifyTimescale
<1>2. ASSUME NEW b \in Boards, scan'[b].status = 1
      PROVE  Connected(b)' /\ Len(scan'[b].chans) \in 1 .. Cardinality(AiChan[b])
  <2>1. PICK c : c = ScanChans(b, w)
      OBVIOUS
  <2>2. scan'[b] = [status |-> status[b], npt |-> n, chans |-> c]
      BY <1>1, <2>1
  <2>3. 1 \in Statuses(b, c) /\ scan'[b].chans = c
      BY <1>1, <1>2, <2>1, <2>2
  <2>4. Connected(b) /\ c # <<>>
      BY <2>3 DEF Statuses
  <2> QED
      BY <2>1, <2>3, <2>4, ScanChansSize DEF Connected
<1> QED
    BY <1>2 DEF Sized, Scanned

LEMMA SizedStep == ScanInv /\ Sized /\ [Next]_vars => Sized'
<1> SUFFICES ASSUME ScanInv, Sized, [Next]_vars PROVE Sized'
    OBVIOUS
<1>1. CASE Connecting \/ LeavePanel
    BY <1>1 DEF Connecting, Connect, LeavePanel, Sized
<1>2. CASE Entering \/ ChangeTimescale
    BY <1>2, SizedVerified DEF Entering, EnterPanel, ChangeTimescale, pointVars
<1>3. CASE Processing
  <2>1. PICK status \in [Boards -> {0, 1, 4}], rounded \in BOOLEAN : Process(status, rounded)
      BY <1>3 DEF Processing
  <2>2. /\ pc = "process" /\ kind' = kind
        /\ scan' = [b \in Boards |->
              IF b \in Scanned
              THEN [scan[b] EXCEPT !.status = status[b],
                                   !.npt = IF rounded /\ scan[b].npt - 1 \in PointCounts
                                           THEN scan[b].npt - 1 ELSE scan[b].npt]
              ELSE scan[b]]
      BY <2>1, Zenon DEF Process, pointVars
  <2>3. ASSUME NEW b \in Boards
        PROVE  /\ scan'[b].chans = scan[b].chans
               /\ b \notin Scanned => scan'[b] = scan[b]
    <3>1. DOMAIN scan[b] = {"status", "npt", "chans"}
        BY DEF ScanInv, Shapes, IsScan
    <3>2. PICK n : n = IF rounded /\ scan[b].npt - 1 \in PointCounts
                       THEN scan[b].npt - 1 ELSE scan[b].npt
        OBVIOUS
    <3>3. \/ scan'[b] = [scan[b] EXCEPT !.status = status[b], !.npt = n]
          \/ scan'[b] = scan[b]
        BY <2>2, <3>2
    <3>4. scan'[b].chans = scan[b].chans
        BY <3>1, <3>3
    <3>5. b \notin Scanned => scan'[b] = scan[b]
        BY <2>2
    <3> QED
        BY <3>4, <3>5
  <2>4. \A b \in Boards : b \in Scanned' => b \in Scanned
      BY <2>3 DEF Scanned
  <2> QED
      BY <2>2, <2>3, <2>4 DEF Sized, Connected, Scanned
<1>4. CASE Cycling \/ Reading \/ EndOfRead \/ Writing \/ Following \/ Requesting \/ Starting \/ Failing
           \/ Scanning \/ Stopping \/ UNCHANGED vars
  <2>1. UNCHANGED <<kind, scan>> /\ (pc' # "setup" => pc # "setup")
      BY <1>4 DEF Cycling, Cycle, Reading, Read, EndOfRead, Writing, WriteOutput, Following,
                  SetFollower, Requesting, RequestPulse, Starting, StartScan, Failing, StartFails,
                  Scanning, ScanCycle, Stopping, StopScan, vars, pointVars, scanVars
  <2> QED
      BY <2>1 DEF Sized, Scanned, Connected
<1> QED
    BY <1>1, <1>2, <1>3, <1>4 DEF Next

-----------------------------------------------------------------------------
LEMMA ProductGrows ==
    ASSUME NEW x \in Nat, NEW y \in Nat, NEW l \in Nat, x <= y
    PROVE  x * l <= y * l /\ x * l \in Nat
OBVIOUS

\* What a board has ready in a cycle, u cycles after it was read.
LEMMA FreshBound ==
    ASSUME ScanInv, Found, Sized, pc = "scan", ~startFailed, NEW b \in Scanned,
           NEW m \in 1 .. Jitter, NEW u \in 0 .. ReadMult(b),
           dev[b].made - dev[b].fetched <= u * PerCycle(b)
    PROVE  /\ PerCycle(b) = 2 * Len(scan[b].chans) * loop /\ PerCycle(b) \in Nat
           /\ Made(b, m) - dev[b].fetched <= (u + 1) * PerCycle(b)
<1>1. PICK R \in Nat, l \in Nat, n \in Nat :
         R = ReadMult(b) /\ l = loop /\ n = Len(scan[b].chans)
    BY MultFacts DEF ScanInv
<1>2. /\ board[b].chans = scan[b].chans /\ Held(b) /\ Total(b) \in Nat
      /\ Made(b, m) \in Nat /\ dev[b].made <= Made(b, m)
  <2>1. Agreed(b) /\ Held(b)
      BY MultFacts DEF ScanInv, Prepares, Underway
  <2> QED
      BY <2>1, MadeFacts DEF ScanInv, Agreed
<1>3. PICK s \in Nat : s = PerCycle(b) /\ s = 2 * n * l
  <2>1. PerCycle(b) = 2 * n * l
      BY <1>1, <1>2 DEF PerCycle, Jitter
  <2>2. 2 * n * l \in Nat
      BY <1>1
  <2> QED
      BY <2>1, <2>2
<1>4. PICK p \in Nat : p = m * n * l /\ p <= s
  <2>1. m * n <= 2 * n /\ m * n \in Nat /\ 2 * n \in Nat
      BY <1>1 DEF Jitter
  <2>2. PICK x \in Nat, y \in Nat : x = m * n /\ y = 2 * n /\ x <= y
      BY <2>1
  <2>3. x * l <= y * l /\ x * l \in Nat
      BY <2>2, ProductGrows
  <2> QED
      BY <1>3, <2>2, <2>3
<1>5. PICK d \in Nat, f \in Nat, e \in Nat :
         d = dev[b].made /\ f = dev[b].fetched /\ e = Made(b, m) /\ f <= d /\ d <= e
    BY <1>2 DEF Held
<1>6. e <= d + p
  <2>1. e = IF d + p > Total(b) THEN Total(b) ELSE d + p
      BY <1>1, <1>2, <1>4, <1>5 DEF Made
  <2> QED
      BY <1>2, <2>1
<1>7. u \in Nat /\ d - f <= u * s
    BY <1>1, <1>3, <1>5
<1>8. PICK v \in Nat : v = u * s /\ (u + 1) * s = v + s
    BY <1>3, <1>7
<1>9. e - f <= v + s
  <2>1. p <= s /\ d - f <= v
      BY <1>4, <1>7, <1>8
  <2> QED
      BY <1>6, <2>1
<1>10. e - f <= (u + 1) * s
    BY <1>8, <1>9
<1> QED
    BY <1>1, <1>3, <1>5, <1>10

\* The counter after a read, and after a cycle without one.
LEMMA ReadAgain ==
    ASSUME NEW c \in Nat, NEW R \in Nat \ {0}, c % R = 0
    PROVE  c + 1 = (c \div R) * R + 1 /\ c \div R \in Nat
<1>1. PICK q \in Nat : q = c \div R /\ c = R * q + (c % R)
    OBVIOUS
<1> QED
    BY <1>1

LEMMA NotYet ==
    ASSUME NEW q \in Nat, NEW R \in Nat \ {0}, NEW u \in 0 .. R,
           ~(q * R + u # 0 /\ (q * R + u) % R = 0)
    PROVE  u + 1 \in 0 .. R
<1> SUFFICES ASSUME u = R PROVE FALSE
    OBVIOUS
<1>1. q * R + R = (q + 1) * R /\ (q + 1) * R # 0
    OBVIOUS
<1>2. PICK p \in Nat : p = q + 1
    OBVIOUS
<1>3. (p * R) % R = 0
    OBVIOUS
<1> QED
    BY <1>1, <1>2, <1>3

LEMMA CyclePace ==
    ASSUME ScanInv, PaceInv, NEW m \in 1 .. Jitter, NEW half \in BOOLEAN, ScanCycle(m, half)
    PROVE  /\ Pace' /\ counter' \in Nat
           /\ ~startFailed => fault' \in {"none", "zero_interval"}
<1> DEFINE due == {b \in Scanned : counter # 0 /\ counter % ReadMult(b) = 0}
           fresh(b) == Made(b, m) - dev[b].fetched
           first(b) == IF half THEN fresh(b) \div 2 ELSE fresh(b)
           overrun == {b \in Scanned : kind[b] = "real" /\ fresh(b) > Ring}
           lost == {b \in Scanned : Overflows(b, board[b], fresh(b))}
<1>1. /\ pc = "scan" /\ pc' = IF fault' = "none" THEN "scan" ELSE "fault"
      /\ UNCHANGED <<kind, want, scan, loop, startFailed>>
      /\ IF ProgMult = 0 \/ \E b \in Scanned : ReadMult(b) = 0
         THEN fault' = "zero_interval" /\ counter' = counter
         ELSE IF overrun # {} THEN fault' = "overrun" /\ counter' = counter
         ELSE IF due \intersect lost # {} THEN fault' = "no_place" /\ counter' = counter
         ELSE /\ fault' = "none" /\ counter' = counter + 1
              /\ dev' = [b \in Boards |->
                   [made    |-> IF b \in Scanned THEN Made(b, m) ELSE 0,
                    fetched |-> IF b \in due THEN Made(b, m) ELSE dev[b].fetched]]
              /\ board' = [b \in Boards |->
                   IF b \in due
                   THEN Stored(board[b], FirstSample(b, dev[b]), first(b), fresh(b))
                   ELSE board[b]]
    BY DEF ScanCycle, pointVars
<1>2. Scanned' = Scanned
    BY <1>1 DEF Scanned
<1>3. counter' \in Nat
  <2> HIDE DEF due, overrun, lost, first, fresh
  <2>1. counter' = counter \/ counter' = counter + 1
      BY <1>1
  <2> QED
      BY <2>1 DEF PaceInv
<1>4. ASSUME ~startFailed, NEW b \in Scanned
      PROVE  \E q \in Nat, u \in 0 .. ReadMult(b) : /\ Passed(b, q, u)
                                                    /\ fresh(b) <= (u + 1) * PerCycle(b)
  <2>1. PICK q \in Nat, u \in Nat : u \in 0 .. ReadMult(b) /\ Passed(b, q, u)
    <3>1. ReadMult(b) \in Nat
        BY <1>1, <1>4, MultFacts DEF ScanInv, PaceInv
    <3>2. \E q \in Nat, u \in 0 .. ReadMult(b) : Passed(b, q, u)
        BY <1>1, <1>4 DEF PaceInv, Pace
    <3> QED
        BY <3>1, <3>2
  <2>2. fresh(b) <= (u + 1) * PerCycle(b)
      BY <1>1, <1>4, <2>1, FreshBound DEF PaceInv, Passed
  <2> HIDE DEF fresh
  <2> QED
      BY <2>1, <2>2
<1>5. ASSUME ~startFailed, \A b \in Scanned : ReadMult(b) # 0
      PROVE  overrun = {} /\ lost = {}
  <2>3. overrun = {}
    <3> SUFFICES ASSUME NEW b \in Scanned, kind[b] = "real", fresh(b) > Ring
                 PROVE  FALSE
        OBVIOUS
    <3>1. PICK q \in Nat, u \in 0 .. ReadMult(b) : /\ Passed(b, q, u)
                                                   /\ fresh(b) <= (u + 1) * PerCycle(b)
        BY <1>4, <1>5
    <3>2. PerCycle(b) = 2 * Len(scan[b].chans) * loop
        BY <1>1, <1>5, <3>1, FreshBound DEF PaceInv, Passed
    <3>3. (u + 1) * PerCycle(b) <= Ring
        BY <1>1, <1>5, <3>2, MultFacts DEF ScanInv, PaceInv
    <3>4. fresh(b) \in Int /\ Ring \in Nat /\ (u + 1) * PerCycle(b) \in Int
      <4>1. Made(b, m) \in Nat
          BY <1>1, <1>5, RoomInCycle
      <4>2. dev[b].fetched \in Nat
          BY <1>1, <1>5 DEF ScanInv, Underway, Held
      <4>3. PerCycle(b) \in Nat /\ u \in Nat
        <5>1. ReadMult(b) \in Nat
            BY <1>1, <1>5, MultFacts DEF ScanInv, PaceInv
        <5> QED
            BY <1>1, <1>5, <3>1, <5>1, FreshBound DEF PaceInv, Passed
      <4> QED
          BY <4>1, <4>2, <4>3, DaqAssumption
    <3> HIDE DEF fresh
    <3> QED
        BY <3>1, <3>3, <3>4
  <2>4. lost = {}
      BY <1>1, <1>5, RoomInCycle
  <2> QED
      BY <2>3, <2>4
<1>7. ~startFailed => fault' \in {"none", "zero_interval"}
  <2> HIDE DEF due, overrun, lost, first, fresh
  <2> QED
      BY <1>1, <1>5
<1>6. Pace'
  <2> SUFFICES ASSUME pc' = "scan", ~startFailed, NEW b \in Scanned
               PROVE  \E q \in Nat, u \in 0 .. ReadMult(b)' : Passed(b, q, u)'
      BY <1>1, <1>2 DEF Pace
  <2>1. /\ counter' = counter + 1 /\ ReadMult(b) # 0 /\ b \in Boards
        /\ dev'[b].made = Made(b, m)
        /\ dev'[b].fetched = IF b \in due THEN Made(b, m) ELSE dev[b].fetched
        /\ board'[b] = IF b \in due
                       THEN Stored(board[b], FirstSample(b, dev[b]), first(b), fresh(b))
                       ELSE board[b]
    <3>0. b \in Boards
        BY DEF Scanned
    <3>1. fault' = "none"
        BY <1>1
    <3> HIDE DEF due, overrun, lost, first, fresh
    <3> QED
        BY <1>1, <3>0, <3>1
  <2>2. ReadMult(b)' = ReadMult(b)
      BY <1>1 DEF ReadMult, ReadInterval
  <2>3. PerCycle(b)' = PerCycle(b)
    <3>1. board'[b].chans = board[b].chans
      <4> HIDE DEF due, first, fresh
      <4> QED
          BY <2>1, StoredShape DEF ScanInv, Shapes
    <3> QED
        BY <1>1, <3>1 DEF PerCycle
  <2>4. PICK q \in Nat, u \in 0 .. ReadMult(b) : /\ Passed(b, q, u)
                                                 /\ fresh(b) <= (u + 1) * PerCycle(b)
      BY <1>4
  <2>5. PICK R \in Nat \ {0}, c \in Nat : R = ReadMult(b) /\ c = counter /\ u \in 0 .. R
      BY <1>1, <2>1, <2>4, MultFacts DEF ScanInv, PaceInv
  <2>6. PICK s \in Nat : s = PerCycle(b)
      BY <1>1, <2>4, FreshBound DEF PaceInv, Passed
  <2>7. CASE b \in due
    <3>1. c % R = 0
        BY <2>5, <2>7
    <3>2. PICK p \in Nat : c + 1 = p * R + 1
        BY <2>5, <3>1, ReadAgain
    <3>3. dev'[b].made - dev'[b].fetched = 0
      <4>1. Made(b, m) \in Nat
          BY <1>1, RoomInCycle
      <4> HIDE DEF due
      <4> QED
          BY <2>1, <2>7, <4>1
    <3>4. 1 \in 0 .. R /\ 0 <= 1 * s
        BY <2>5, <2>6
    <3>5. Passed(b, p, 1)'
        BY <2>1, <2>2, <2>3, <2>5, <2>6, <3>2, <3>3, <3>4 DEF Passed
    <3> QED
        BY <2>2, <2>5, <3>4, <3>5
  <2>8. CASE b \notin due
    <3>1. c = q * R + u
        BY <2>4, <2>5 DEF Passed
    <3>2. u + 1 \in 0 .. R
      <4>1. ~(q * R + u # 0 /\ (q * R + u) % R = 0)
          BY <2>5, <2>8, <3>1
      <4> QED
          BY <2>5, <4>1, NotYet
    <3>3. c + 1 = q * R + (u + 1)
        BY <2>5, <3>1
    <3>4. dev'[b].made - dev'[b].fetched <= (u + 1) * PerCycle(b)
      <4>1. dev'[b].made - dev'[b].fetched = fresh(b)
          BY <2>1, <2>8
      <4> HIDE DEF fresh
      <4> QED
          BY <2>4, <4>1
    <3>5. Passed(b, q, u + 1)'
        BY <2>1, <2>2, <2>3, <2>5, <3>3, <3>4 DEF Passed
    <3> QED
        BY <2>2, <2>5, <3>2, <3>5
  <2> QED
      BY <2>7, <2>8
<1> QED
    BY <1>3, <1>6, <1>7

-----------------------------------------------------------------------------
LEMMA PaceInit == Init => PaceInv
BY DEF Init, PaceInv, Found, Sized, Pace, Connected

LEMMA PaceStep == ScanInv /\ PaceInv /\ [Next]_vars => PaceInv'
<1> SUFFICES ASSUME ScanInv, PaceInv, [Next]_vars PROVE PaceInv'
    OBVIOUS
<1>0. Found' /\ Sized'
    BY FoundStep, SizedStep DEF PaceInv
<1>1. CASE Connecting \/ Entering \/ ChangeTimescale \/ LeavePanel \/ Cycling \/ Reading \/ EndOfRead
  <2>1. pc' # "scan" /\ counter' = counter
      BY <1>1 DEF Connecting, Connect, Entering, EnterPanel, ChangeTimescale, LeavePanel, Cycling,
                  Cycle,
                  Reading, Read, EndOfRead, loopVars
  <2> QED
      BY <1>0, <2>1 DEF PaceInv, Pace
<1>2. CASE Writing \/ Following \/ Requesting \/ UNCHANGED vars
  <2>1. UNCHANGED <<pc, kind, board, scan, dev, counter, loop, startFailed>>
      BY <1>2 DEF Writing, WriteOutput, Following, SetFollower, Requesting, RequestPulse, vars,
                  pointVars, scanVars, loopVars
  <2>2. Pace'
      BY <2>1 DEF PaceInv, Pace, Passed, PerCycle, ReadMult, ReadInterval, Scanned
  <2> QED
      BY <1>0, <2>1, <2>2 DEF PaceInv
<1>3. CASE Starting
  <2>1. /\ pc = "react" /\ counter' = 0 /\ UNCHANGED <<kind, scan, loop>>
        /\ dev' = [b \in Boards |-> Idle]
        /\ board' = [b \in Boards |-> IF b \in Scanned THEN Started(b) ELSE board[b]]
      BY <1>3 DEF Starting, StartScan, pointVars
  <2>2. ASSUME NEW b \in Scanned
        PROVE  /\ 0 \in 0 .. ReadMult(b)' /\ Passed(b, 0, 0)'
    <3>1. /\ b \in Boards /\ ReadMult(b) \in Nat /\ Len(scan[b].chans) \in Nat /\ loop \in Nat
          /\ IsBoard(board[b]) /\ board[b].chans = scan[b].chans
        BY <2>1, MultFacts DEF ScanInv, PaceInv, Shapes, Prepares, Agreed
    <3>2. ReadMult(b)' = ReadMult(b)
        BY <2>1 DEF ReadMult, ReadInterval
    <3>3. PerCycle(b)' \in Nat
      <4>1. board'[b].chans = scan[b].chans
          BY <2>1, <3>1, StartedFacts
      <4>2. PICK n \in Nat, l \in Nat : n = Len(scan[b].chans) /\ l = loop
          BY <3>1
      <4>3. PerCycle(b)' = 2 * n * l
          BY <2>1, <4>1, <4>2 DEF PerCycle, Jitter
      <4> QED
          BY <4>2, <4>3
    <3>4. dev'[b].made - dev'[b].fetched = 0
        BY <2>1, <3>1 DEF Idle
    <3> HIDE DEF Pace
    <3>5. PICK R \in Nat, s \in Nat : R = ReadMult(b)' /\ s = PerCycle(b)'
        BY <3>1, <3>2, <3>3
    <3>6. 0 = 0 * R + 0 /\ 0 <= 0 * s
        OBVIOUS
    <3> QED
        BY <2>1, <3>4, <3>5, <3>6 DEF Passed
  <2>3. Scanned' = Scanned
      BY <2>1 DEF Scanned
  <2>4. Pace'
      BY <2>2, <2>3 DEF Pace
  <2> QED
      BY <1>0, <2>1, <2>4 DEF PaceInv
<1>4. CASE Failing \/ Stopping
  <2>1. pc' # "scan" /\ counter' = counter
      BY <1>4 DEF Failing, StartFails, Stopping, StopScan, loopVars
  <2> QED
      BY <1>0, <2>1 DEF PaceInv, Pace
<1>5. CASE Scanning
    BY <1>0, <1>5, CyclePace DEF Scanning, PaceInv
<1>6. CASE Processing
  <2>1. pc' = "react" /\ counter' = 0
      BY <1>6 DEF Processing, Process
  <2> QED
      BY <1>0, <2>1 DEF PaceInv, Pace
<1> QED
    BY <1>1, <1>2, <1>3, <1>4, <1>5, <1>6 DEF Next

LEMMA FitStep ==
    ASSUME ScanInv, PaceInv, InTheBuffer, FaultEnds, NoOverrun, [Next]_vars
    PROVE  NoOverrun'
<1>1. CASE Scanning
  <2>1. PICK m \in 1 .. Jitter, half \in BOOLEAN : ScanCycle(m, half)
      BY <1>1 DEF Scanning
  <2>2. startFailed' = startFailed
      BY <2>1 DEF ScanCycle
  <2>3. startFailed \/ fault' \in {"none", "zero_interval"}
      BY <2>1, CyclePace
  <2> QED
      BY <2>2, <2>3 DEF NoOverrun
<1>2. CASE Stopping \/ Failing
  <2>1. fault' \in {"none", "no_place"}
      BY <1>2 DEF Stopping, StopScan, Failing, StartFails
  <2>2. InTheBuffer'
      BY FaultStep
  <2> QED
      BY <2>1, <2>2 DEF InTheBuffer, NoOverrun
<1>3. CASE Connecting \/ Entering \/ ChangeTimescale \/ LeavePanel \/ Cycling \/ Reading \/ EndOfRead
    BY <1>3 DEF Connecting, Connect, Entering, EnterPanel, ChangeTimescale, LeavePanel, Cycling, Cycle,
                Reading, Read, EndOfRead, NoOverrun, FaultEnds
<1>4. CASE Writing \/ Following \/ Requesting \/ Starting \/ Processing
    BY <1>4 DEF Writing, WriteOutput, Following, SetFollower, Requesting, RequestPulse, Starting,
                  StartScan, Processing, Process,
                NoOverrun, FaultEnds
<1>5. CASE UNCHANGED vars
    BY <1>5 DEF NoOverrun, vars
<1> QED
    BY <1>1, <1>2, <1>3, <1>4, <1>5 DEF Next

\* For any boards, channels, rates, rings and loop intervals: however the cycles jitter
\* within twice the interval, no ring of a device runs over between two reads and no sample
\* is stored outside scan_buffer, unless a scan failed to start.  Where an interval is 0 the
\* scan does not get that far (compute_intervals and its factor of 4, scan_array_read).
THEOREM ReadsKeepPace == Spec => []NoOverrun
<1> DEFINE I == ScanInv /\ PaceInv /\ InTheBuffer /\ FaultEnds /\ NoOverrun
<1>1. Init => I
    BY ScanInit, PaceInit DEF Init, InTheBuffer, FaultEnds, NoOverrun
<1>2. I /\ [Next]_vars => I'
    BY ScanStep, PaceStep, FaultStep, FitStep
<1> QED
    BY <1>1, <1>2, PTL DEF Spec
=============================================================================
