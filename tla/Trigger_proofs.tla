---------------------------- MODULE Trigger_proofs ----------------------------
(* Proofs about the triggers of Trigger, for any number of triggers and lines. *)
EXTENDS Trigger, SequenceTheorems, TLAPS

LEMMA StateType ==
    ASSUME NEW a \in BOOLEAN, NEW b \in BOOLEAN, NEW r \in BOOLEAN, NEW ad \in BOOLEAN,
           NEW bd \in BOOLEAN, NEW c \in 1 .. NLine + 1, NEW w \in BOOLEAN, NEW s \in Seq(1 .. NLine)
    PROVE  [armed |-> a, busy |-> b, ready |-> r, armDirty |-> ad, busyDirty |-> bd, cur |-> c,
            waiting |-> w, ran |-> s] \in TriggerState
BY DEF TriggerState

LEMMA Fields ==
    ASSUME NEW t \in TriggerState
    PROVE  /\ t.armed \in BOOLEAN /\ t.busy \in BOOLEAN /\ t.ready \in BOOLEAN
           /\ t.armDirty \in BOOLEAN /\ t.busyDirty \in BOOLEAN /\ t.cur \in 1 .. NLine + 1
           /\ t.waiting \in BOOLEAN /\ t.ran \in Seq(1 .. NLine)
           /\ t = [armed |-> t.armed, busy |-> t.busy, ready |-> t.ready, armDirty |-> t.armDirty,
                   busyDirty |-> t.busyDirty, cur |-> t.cur, waiting |-> t.waiting, ran |-> t.ran]
<1>1. t.armed \in BOOLEAN /\ t.busy \in BOOLEAN /\ t.ready \in BOOLEAN
      /\ t.armDirty \in BOOLEAN /\ t.busyDirty \in BOOLEAN /\ t.waiting \in BOOLEAN
    BY Zenon DEF TriggerState
<1>2. t.cur \in 1 .. NLine + 1 /\ t.ran \in Seq(1 .. NLine)
    BY DEF TriggerState
<1>3. t = [armed |-> t.armed, busy |-> t.busy, ready |-> t.ready, armDirty |-> t.armDirty,
           busyDirty |-> t.busyDirty, cur |-> t.cur, waiting |-> t.waiting, ran |-> t.ran]
    BY DEF TriggerState
<1> QED
    BY <1>1, <1>2, <1>3

LEMMA AtFirst ==
    ASSUME NEW t, t.cur = 1, t.ran = <<>>
    PROVE  InOrder(t)
BY DEF InOrder

\* start_trigger.
LEMMA StartedFacts ==
    ASSUME NEW t \in TriggerState
    PROVE  /\ Started(t) \in TriggerState
           /\ Started(t) = t \/ (Started(t).cur = 1 /\ Started(t).ran = <<>> /\ Started(t).busy)
<1>1. PICK q : q = Started(t)
    OBVIOUS
<1>2. CASE t.ready
  <2>1. PICK d \in BOOLEAN : d = (t.armDirty \/ t.armed)
      OBVIOUS
  <2>2. q = [armed |-> FALSE, busy |-> TRUE, ready |-> t.ready, armDirty |-> d, busyDirty |-> TRUE,
             cur |-> 1, waiting |-> FALSE, ran |-> <<>>]
      BY <1>1, <1>2, <2>1 DEF Started, TriggerState
  <2>3. t.ready \in BOOLEAN /\ 1 \in 1 .. NLine + 1 /\ <<>> \in Seq(1 .. NLine)
      BY Fields, TriggerAssumption
  <2>4. q \in TriggerState
      BY <2>2, <2>3, StateType
  <2>5. q.cur = 1 /\ q.ran = <<>>
      BY <2>2
  <2>6. q.busy
      BY <2>2, Zenon
  <2> QED
      BY <1>1, <2>4, <2>5, <2>6
<1>3. CASE ~t.ready
    BY <1>3 DEF Started
<1> QED
    BY <1>2, <1>3

\* trigger_csf: a command leaves the trigger in order, and a busy one where it is.
LEMMA CommandedFacts ==
    ASSUME NEW t \in TriggerState, NEW verb
    PROVE  /\ Commanded(t, verb) \in TriggerState
           /\ \/ Commanded(t, verb).cur = t.cur /\ Commanded(t, verb).ran = t.ran
              \/ ~t.busy /\ Commanded(t, verb).cur = 1 /\ Commanded(t, verb).ran = <<>>
           /\ t.busy /\ verb # "cancel" => Commanded(t, verb).busy
<1>1. PICK q : q = Commanded(t, verb)
    OBVIOUS
<1> SUFFICES /\ q \in TriggerState
             /\ \/ q.cur = t.cur /\ q.ran = t.ran
                \/ ~t.busy /\ q.cur = 1 /\ q.ran = <<>>
             /\ t.busy /\ verb # "cancel" => q.busy
    BY <1>1
<1>2. CASE verb = "arm" /\ ~t.armed
  <2>1. q = [armed |-> TRUE, busy |-> t.busy, ready |-> t.ready, armDirty |-> TRUE,
             busyDirty |-> t.busyDirty, cur |-> t.cur, waiting |-> t.waiting, ran |-> t.ran]
      BY <1>1, <1>2 DEF Commanded, TriggerState
  <2> QED
      BY <2>1, Fields, StateType
<1>3. CASE verb = "disarm" /\ t.armed
  <2>1. q = [armed |-> FALSE, busy |-> t.busy, ready |-> t.ready, armDirty |-> TRUE,
             busyDirty |-> t.busyDirty, cur |-> t.cur, waiting |-> t.waiting, ran |-> t.ran]
      BY <1>1, <1>3 DEF Commanded, TriggerState
  <2> QED
      BY <2>1, Fields, StateType
<1>4. CASE verb = "force" /\ ~t.busy
    BY <1>1, <1>4, StartedFacts DEF Commanded
<1>5. CASE verb = "cancel" /\ t.busy
  <2>1. q = [armed |-> t.armed, busy |-> FALSE, ready |-> t.ready, armDirty |-> t.armDirty,
             busyDirty |-> TRUE, cur |-> t.cur, waiting |-> t.waiting, ran |-> t.ran]
      BY <1>1, <1>5 DEF Commanded, TriggerState
  <2> QED
      BY <1>5, <2>1, Fields, StateType
<1>6. CASE ~((verb = "arm" /\ ~t.armed) \/ (verb = "disarm" /\ t.armed) \/ (verb = "force" /\ ~t.busy)
             \/ (verb = "cancel" /\ t.busy))
    BY <1>1, <1>6 DEF Commanded
<1> QED
    BY <1>2, <1>3, <1>4, <1>5, <1>6

\* The instruction of a line or of an IF.
LEMMA AppliedFacts ==
    ASSUME trig \in [Trigs -> TriggerState], NEW e
    PROVE  /\ Applied(e) \in [Trigs -> TriggerState]
           /\ \A n \in Trigs : InOrder(trig[n]) => InOrder(Applied(e)[n])
           /\ \A n \in Trigs : Applied(e)[n].cur = trig[n].cur \/ Applied(e)[n].cur = 1
           /\ \A n \in Trigs : trig[n].busy /\ ~(e.verb = "cancel" /\ e.id = n /\ ~stuck)
                 => /\ Applied(e)[n].busy /\ Applied(e)[n].cur = trig[n].cur
                    /\ Applied(e)[n].ran = trig[n].ran
<1>1. CASE ~(e.verb \in Commands /\ ~stuck)
    BY <1>1, Zenon DEF Applied
<1>2. CASE e.verb \in Commands /\ ~stuck
  <2>1. Applied(e) = [trig EXCEPT ![e.id] = Commanded(trig[e.id], e.verb)]
      BY <1>2 DEF Applied
  <2>2. PICK a : a = Applied(e)
      OBVIOUS
  <2>3. ASSUME NEW n \in Trigs
        PROVE  /\ a[n] \in TriggerState
               /\ InOrder(trig[n]) => InOrder(a[n])
               /\ a[n].cur = trig[n].cur \/ a[n].cur = 1
               /\ trig[n].busy /\ ~(e.verb = "cancel" /\ e.id = n)
                    => a[n].busy /\ a[n].cur = trig[n].cur /\ a[n].ran = trig[n].ran
    <3>1. trig[n] \in TriggerState
        OBVIOUS
    <3>2. CASE e.id = n
      <4>1. a[n] = Commanded(trig[n], e.verb)
          BY <2>1, <2>2, <3>2
      <4>2. /\ a[n] \in TriggerState
            /\ \/ a[n].cur = trig[n].cur /\ a[n].ran = trig[n].ran
               \/ ~trig[n].busy /\ a[n].cur = 1 /\ a[n].ran = <<>>
            /\ trig[n].busy /\ e.verb # "cancel" => a[n].busy
          BY <3>1, <4>1, CommandedFacts
      <4>3. InOrder(trig[n]) => InOrder(a[n])
        <5>1. CASE a[n].cur = trig[n].cur /\ a[n].ran = trig[n].ran
            BY <5>1 DEF InOrder
        <5>2. CASE a[n].cur = 1 /\ a[n].ran = <<>>
            BY <5>2, AtFirst
        <5> QED
            BY <4>2, <5>1, <5>2
      <4> QED
          BY <3>2, <4>2, <4>3, Zenon
    <3>3. CASE e.id # n
      <4>1. a[n] = trig[n]
          BY <2>1, <2>2, <3>3
      <4> QED
          BY <3>1, <4>1
    <3> QED
        BY <3>2, <3>3
  <2>4. a \in [Trigs -> TriggerState]
    <3>1. DOMAIN a = Trigs /\ a = [n \in Trigs |-> a[n]]
        BY <2>1, <2>2
    <3> QED
        BY <2>3, <3>1
  <2>5. /\ \A n \in Trigs : InOrder(trig[n]) => InOrder(a[n])
        /\ \A n \in Trigs : a[n].cur = trig[n].cur \/ a[n].cur = 1
      BY <2>3, Zenon
  <2>6. \A n \in Trigs : trig[n].busy /\ ~(e.verb = "cancel" /\ e.id = n /\ ~stuck)
            => a[n].busy /\ a[n].cur = trig[n].cur /\ a[n].ran = trig[n].ran
      BY <1>2, <2>3, Zenon
  <2> QED
      BY <2>2, <2>4, <2>5, <2>6
<1> QED
    BY <1>1, <1>2

LEMMA EndRunFacts ==
    ASSUME NEW t \in TriggerState
    PROVE  EndRun(t) \in TriggerState /\ EndRun(t).cur = t.cur /\ EndRun(t).ran = t.ran
<1>1. PICK q : q = EndRun(t)
    OBVIOUS
<1>2. q = [armed |-> t.armed, busy |-> FALSE, ready |-> t.ready, armDirty |-> t.armDirty,
           busyDirty |-> TRUE, cur |-> t.cur, waiting |-> FALSE, ran |-> t.ran]
    BY <1>1 DEF EndRun, TriggerState
<1>3. q \in TriggerState
    BY <1>2, Fields, StateType
<1>4. q.cur = t.cur /\ q.ran = t.ran
    BY <1>2
<1> QED
    BY <1>1, <1>3, <1>4

\* GoOn leaves the lines of a trigger.
LEMMA GoOnFacts ==
    ASSUME at \in Trigs, GoOn
    PROVE  at' \in Trigs /\ pass' \in Passes /\ pass' # "lines"
BY TriggerAssumption DEF GoOn, Trigs, Passes

\* A step outside the lines, whose triggers are in order if they were.
LEMMA OutsideLines ==
    ASSUME trig' \in [Trigs -> TriggerState], at' \in Trigs, pass' \in Passes, pass' # "lines",
           selfCancel' = selfCancel,
           \A n \in Trigs \ selfCancel : InOrder(trig[n]) => InOrder(trig'[n]),
           RunInOrder
    PROVE  OrderInv'
<1>1. \A n \in Trigs \ selfCancel : InOrder(trig'[n])
    BY DEF RunInOrder, InOrder
<1> QED
    BY <1>1 DEF OrderInv, RunInOrder, InOrder, NoLineAfterCancel

\* A change of one trigger which leaves its lines alone.
LEMMA OneTrigger ==
    ASSUME OrderInv, NEW n \in Trigs, NEW q \in TriggerState, InOrder(trig[n]) => InOrder(q),
           trig' = [trig EXCEPT ![n] = q], at' \in Trigs, pass' \in Passes, pass' # "lines",
           selfCancel' = selfCancel
    PROVE  OrderInv'
<1>1. trig' \in [Trigs -> TriggerState]
    BY DEF OrderInv
<1>2. \A m \in Trigs : InOrder(trig[m]) => InOrder(trig'[m])
  <2>1. ASSUME NEW m \in Trigs PROVE InOrder(trig[m]) => InOrder(trig'[m])
    <3>1. trig'[m] = IF m = n THEN q ELSE trig[m]
        BY DEF OrderInv
    <3> QED
        BY <3>1
  <2> QED
      BY <2>1
<1> QED
    BY <1>1, <1>2, OutsideLines DEF OrderInv

LEMMA AppendLine ==
    ASSUME NEW l \in Nat \ {0}, NEW s, s = [i \in 1 .. l - 1 |-> i]
    PROVE  Append(s, l) = [i \in 1 .. l |-> i]
<1>1. s \in Seq(Nat) /\ Len(s) = l - 1
    BY Z3
<1> QED
    BY <1>1, AppendProperties

\* A line which was true.
Passed(r, b, l) == [r EXCEPT !.cur = @ + 1, !.waiting = b, !.ran = Append(@, l)]

LEMMA PassedFacts ==
    ASSUME NEW r \in TriggerState, r.cur <= NLine, NEW b \in BOOLEAN, NEW l \in 1 .. NLine,
           NEW x, x = Passed(r, b, l)
    PROVE  x \in TriggerState /\ x.cur = r.cur + 1 /\ x.ran = Append(r.ran, l) /\ x.busy = r.busy
<1>1. x = [armed |-> r.armed, busy |-> r.busy, ready |-> r.ready, armDirty |-> r.armDirty,
           busyDirty |-> r.busyDirty, cur |-> r.cur + 1, waiting |-> b, ran |-> Append(r.ran, l)]
    BY DEF Passed, TriggerState
<1>2. r.cur + 1 \in 1 .. NLine + 1
    BY Fields, TriggerAssumption
<1>3. Append(r.ran, l) \in Seq(1 .. NLine)
    BY Fields, AppendProperties
<1>4. x \in TriggerState
  <2>2. PICK c \in 1 .. NLine + 1 : c = r.cur + 1
      BY <1>2
  <2>3. PICK s \in Seq(1 .. NLine) : s = Append(r.ran, l)
      BY <1>3
  <2>4. x = [armed |-> r.armed, busy |-> r.busy, ready |-> r.ready, armDirty |-> r.armDirty,
             busyDirty |-> r.busyDirty, cur |-> c, waiting |-> b, ran |-> s]
      BY <1>1, <2>2, <2>3
  <2>5. PICK ra \in BOOLEAN, rb \in BOOLEAN, rr \in BOOLEAN, rad \in BOOLEAN, rbd \in BOOLEAN :
            ra = r.armed /\ rb = r.busy /\ rr = r.ready /\ rad = r.armDirty /\ rbd = r.busyDirty
      BY Fields, Zenon
  <2>6. x = [armed |-> ra, busy |-> rb, ready |-> rr, armDirty |-> rad, busyDirty |-> rbd,
             cur |-> c, waiting |-> b, ran |-> s]
      BY <2>4, <2>5, Zenon
  <2> QED
      BY <2>6 DEF TriggerState
<1>5. x.busy = r.busy
    BY Zenon DEF Passed, TriggerState
<1> QED
    BY <1>1, <1>4, <1>5

\* One turn of the loop of trigger_exec whose line was true.
LEMMA LineStep ==
    ASSUME OrderInv, pass = "lines", trig[at].cur <= NLine,
           NEW e, NEW b \in BOOLEAN,
           trig' = [Applied(e) EXCEPT ![at].cur = @ + 1, ![at].waiting = b,
                                      ![at].ran = Append(@, trig[at].cur)],
           selfCancel' = IF e.verb = "cancel" /\ e.id = at /\ ~stuck
                         THEN selfCancel \cup {at} ELSE selfCancel,
           at' \in Trigs, pass' \in Passes, pass' = "lines" => at' = at
    PROVE  OrderInv'
<1> DEFINE l == trig[at].cur
<1>1. trig \in [Trigs -> TriggerState] /\ at \in Trigs
    BY DEF OrderInv
<1>2. PICK a : a = Applied(e)
    OBVIOUS
<1>3. /\ a \in [Trigs -> TriggerState]
      /\ \A n \in Trigs : InOrder(trig[n]) => InOrder(a[n])
      /\ \A n \in Trigs : a[n].cur = trig[n].cur \/ a[n].cur = 1
      /\ trig[at].busy /\ ~(e.verb = "cancel" /\ e.id = at /\ ~stuck)
           => a[at].busy /\ a[at].cur = l /\ a[at].ran = trig[at].ran
    BY <1>1, <1>2, AppliedFacts
<1>4. l \in 1 .. NLine
    BY <1>1, Fields, TriggerAssumption
<1>5. a[at] \in TriggerState /\ a[at].cur <= NLine
    BY <1>1, <1>3, <1>4, TriggerAssumption
<1>6. PICK x : x = Passed(a[at], b, l)
    OBVIOUS
<1>7. x \in TriggerState /\ x.cur = a[at].cur + 1 /\ x.ran = Append(a[at].ran, l) /\ x.busy = a[at].busy
    BY <1>4, <1>5, <1>6, PassedFacts
<1>8. trig' = [a EXCEPT ![at] = x]
    BY <1>1, <1>2, <1>3, <1>6 DEF Passed
<1>9. trig' \in [Trigs -> TriggerState] /\ trig'[at] = x /\ \A n \in Trigs : n # at => trig'[n] = a[n]
  <2>1. a \in [Trigs -> TriggerState] /\ x \in TriggerState
      BY <1>3, <1>7
  <2> QED
      BY <1>1, <1>8, <2>1
<1>10. ASSUME at \notin selfCancel' PROVE InOrder(x) /\ x.busy
  <2>1. at \notin selfCancel /\ ~(e.verb = "cancel" /\ e.id = at /\ ~stuck)
      BY <1>10
  <2>2. trig[at].busy /\ InOrder(trig[at])
      BY <1>1, <2>1 DEF OrderInv, NoLineAfterCancel, RunInOrder, InOrder
  <2>3. a[at].busy /\ a[at].cur = l /\ a[at].ran = trig[at].ran
      BY <1>3, <2>1, <2>2
  <2>4. x.cur = l + 1 /\ x.ran = Append(trig[at].ran, l)
      BY <1>7, <2>3
  <2>5. Append(trig[at].ran, l) = [i \in 1 .. l |-> i]
      BY <1>4, <2>2, AppendLine, TriggerAssumption DEF InOrder
  <2>6. InOrder(x)
      BY <1>4, <2>4, <2>5, TriggerAssumption DEF InOrder
  <2>7. x.busy
      BY <1>7, <2>3, Zenon
  <2> QED
      BY <2>6, <2>7
<1>11. \A n \in Trigs \ selfCancel' : InOrder(trig'[n])
  <2>1. ASSUME NEW n \in Trigs, n \notin selfCancel' PROVE InOrder(trig'[n])
    <3>1. CASE n = at
        BY <1>9, <1>10, <2>1, <3>1
    <3>2. CASE n # at
      <4>1. n \notin selfCancel
          BY <2>1
      <4>2. InOrder(trig[n])
          BY <4>1, <2>1 DEF OrderInv, RunInOrder, InOrder
      <4> QED
          BY <1>3, <1>9, <2>1, <3>2, <4>2
    <3> QED
        BY <3>1, <3>2
  <2> QED
      BY <2>1
<1>12. NoLineAfterCancel'
    BY <1>9, <1>10 DEF NoLineAfterCancel
<1> QED
    BY <1>9, <1>11, <1>12 DEF OrderInv, RunInOrder, InOrder
-----------------------------------------------------------------------------
LEMMA OrderInit == Init => OrderInv
<1> SUFFICES ASSUME Init PROVE OrderInv
    OBVIOUS
<1> DEFINE t == [armed |-> FALSE, busy |-> FALSE, ready |-> FALSE, armDirty |-> FALSE,
                 busyDirty |-> FALSE, cur |-> 1, waiting |-> FALSE, ran |-> <<>>]
<1>1. trig = [n \in Trigs |-> t] /\ pass = "idle" /\ at = 1
    BY DEF Init
<1>2. t \in TriggerState
    BY TriggerAssumption DEF TriggerState
<1>3. InOrder(t)
    BY AtFirst
<1> HIDE DEF t
<1>4. trig \in [Trigs -> TriggerState] /\ \A n \in Trigs : trig[n] = t
    BY <1>1, <1>2
<1>5. RunInOrder
    BY <1>3, <1>4 DEF RunInOrder, InOrder
<1> QED
    BY <1>1, <1>4, <1>5, TriggerAssumption DEF OrderInv, Trigs, Passes, NoLineAfterCancel

\* A change of all triggers which leaves their lines alone, outside trigger_exec.
LEMMA AllTriggers ==
    ASSUME OrderInv, NEW F, F = [n \in Trigs |-> F[n]], trig' = F,
           \A n \in Trigs : F[n] \in TriggerState /\ (InOrder(trig[n]) => InOrder(F[n])),
           at' \in Trigs, pass' \in Passes, pass' # "lines", selfCancel' = selfCancel
    PROVE  OrderInv'
<1>1. trig' \in [Trigs -> TriggerState]
    OBVIOUS
<1> QED
    BY <1>1, OutsideLines DEF OrderInv

LEMMA OrderStep == OrderInv /\ [Next]_vars => OrderInv'
<1> SUFFICES ASSUME OrderInv, [Next]_vars PROVE OrderInv'
    OBVIOUS
<1>0. /\ trig \in [Trigs -> TriggerState] /\ at \in Trigs /\ pass \in Passes
      /\ trig[at] \in TriggerState
      /\ \A n \in Trigs \ selfCancel : InOrder(trig[n])
    BY DEF OrderInv, RunInOrder, InOrder
<1>1. CASE DaqParse
  <2> DEFINE refuse(n) == IF_Line \in lineDirty[n] /\ Instructs(expr[n][IF_Line])
             F == [n \in Trigs |->
                     [trig[n] EXCEPT !.ready = IF lineDirty[n] = {} THEN @
                                               ELSE ~refuse(n) \/ lineDirty[n] # {IF_Line},
                                     !.armed = @ /\ ~refuse(n),
                                     !.armDirty = @ \/ (trig[n].armed /\ refuse(n))]]
  <2>1. ASSUME NEW n \in Trigs
        PROVE  F[n] \in TriggerState /\ F[n].cur = trig[n].cur /\ F[n].ran = trig[n].ran
    <3>1. trig[n] \in TriggerState
        BY <1>0
    <3>2. PICK r \in BOOLEAN :
              r = IF lineDirty[n] = {} THEN trig[n].ready ELSE ~refuse(n) \/ lineDirty[n] # {IF_Line}
        BY <3>1, Fields, Zenon
    <3>3. PICK a \in BOOLEAN : a = (trig[n].armed /\ ~refuse(n))
        OBVIOUS
    <3>4. PICK d \in BOOLEAN : d = (trig[n].armDirty \/ (trig[n].armed /\ refuse(n)))
        OBVIOUS
    <3>5. F[n] = [trig[n] EXCEPT !.ready = r, !.armed = a, !.armDirty = d]
        BY <3>2, <3>3, <3>4, Zenon
    <3> HIDE DEF F
    <3>6. F[n] = [armed |-> a, busy |-> trig[n].busy, ready |-> r, armDirty |-> d,
                  busyDirty |-> trig[n].busyDirty, cur |-> trig[n].cur,
                  waiting |-> trig[n].waiting, ran |-> trig[n].ran]
        BY <3>1, <3>5 DEF TriggerState
    <3>7. F[n] \in TriggerState
        BY <3>1, <3>6, Fields DEF TriggerState
    <3> QED
        BY <3>6, <3>7
  <2>2. trig' = F /\ at' = at /\ pass' = "check" /\ selfCancel' = selfCancel
      BY <1>1, Zenon DEF DaqParse
  <2>3. F = [n \in Trigs |-> F[n]]
      OBVIOUS
  <2> HIDE DEF F
  <2>4. \A n \in Trigs : F[n] \in TriggerState /\ (InOrder(trig[n]) => InOrder(F[n]))
      BY <2>1 DEF InOrder
  <2> QED
      BY <1>0, <2>2, <2>3, <2>4, AllTriggers DEF Passes
<1>2. CASE DaqCheck
  <2>1. at' \in Trigs /\ pass' \in Passes /\ pass' # "lines" /\ selfCancel' = selfCancel
      BY <1>0, <1>2, GoOnFacts DEF DaqCheck
  <2>2. PICK e : \/ trig' = [Applied(e) EXCEPT ![at] = Started(Applied(e)[at])]
                 \/ trig' = trig
      BY <1>2 DEF DaqCheck
  <2>3. CASE trig' = [Applied(e) EXCEPT ![at] = Started(Applied(e)[at])]
    <3>1. PICK a : a = Applied(e)
        OBVIOUS
    <3>2. /\ a \in [Trigs -> TriggerState]
          /\ \A n \in Trigs : InOrder(trig[n]) => InOrder(a[n])
        BY <1>0, <3>1, AppliedFacts
    <3>3. PICK q : q = Started(a[at])
        OBVIOUS
    <3>4. q \in TriggerState /\ (InOrder(a[at]) => InOrder(q))
      <4>1. a[at] \in TriggerState
          BY <1>0, <3>2
      <4> QED
          BY <3>3, <4>1, StartedFacts, AtFirst
    <3>5. trig' = [a EXCEPT ![at] = q]
        BY <2>3, <3>1, <3>3
    <3>6. trig' \in [Trigs -> TriggerState]
        BY <3>2, <3>4, <3>5
    <3>7. \A n \in Trigs : InOrder(trig[n]) => InOrder(trig'[n])
      <4>1. ASSUME NEW n \in Trigs PROVE InOrder(trig[n]) => InOrder(trig'[n])
        <5>1. trig'[n] = IF n = at THEN q ELSE a[n]
            BY <3>2, <3>5
        <5> QED
            BY <3>2, <3>4, <5>1
      <4> QED
          BY <4>1
    <3> QED
        BY <2>1, <3>6, <3>7, OutsideLines DEF OrderInv
  <2>4. CASE trig' = trig
      BY <1>0, <2>1, <2>4, OutsideLines DEF OrderInv
  <2> QED
      BY <2>2, <2>3, <2>4
<1>3. CASE DaqSkip
  <2>1. at' \in Trigs /\ pass' \in Passes /\ pass' # "lines"
      BY <1>0, <1>3, GoOnFacts DEF DaqSkip
  <2> QED
      BY <1>0, <1>3, <2>1, OutsideLines DEF DaqSkip, OrderInv
<1>4. CASE DaqEnter
  <2>1. PICK q : q = [trig[at] EXCEPT !.waiting = FALSE]
      OBVIOUS
  <2>2. q = [armed |-> trig[at].armed, busy |-> trig[at].busy, ready |-> trig[at].ready,
             armDirty |-> trig[at].armDirty, busyDirty |-> trig[at].busyDirty,
             cur |-> trig[at].cur, waiting |-> FALSE, ran |-> trig[at].ran]
      BY <1>0, <2>1 DEF TriggerState
  <2>3. q \in TriggerState
      BY <1>0, <2>2, Fields DEF TriggerState
  <2>4. q.cur = trig[at].cur /\ q.ran = trig[at].ran
      BY <2>2
  <2>5. q.busy
      BY <1>4, <2>2, Zenon DEF DaqEnter
  <2>6. trig' = [trig EXCEPT ![at] = q] /\ at' = at /\ pass' = "lines" /\ selfCancel' = selfCancel
      BY <1>0, <1>4, <2>1 DEF DaqEnter
  <2>7. trig' \in [Trigs -> TriggerState] /\ trig'[at] = q /\ \A n \in Trigs : n # at => trig'[n] = trig[n]
      BY <1>0, <2>3, <2>6
  <2>8. \A n \in Trigs \ selfCancel : InOrder(trig'[n])
      BY <1>0, <2>4, <2>7 DEF InOrder
  <2>9. trig'[at'].busy
      BY <2>5, <2>6, <2>7
  <2> QED
      BY <1>0, <2>6, <2>7, <2>8, <2>9 DEF OrderInv, RunInOrder, InOrder, NoLineAfterCancel, Passes
<1>5. CASE DaqFinish
  <2>1. PICK q : q = EndRun(trig[at])
      OBVIOUS
  <2>2. q \in TriggerState /\ (InOrder(trig[at]) => InOrder(q))
      BY <1>0, <2>1, EndRunFacts DEF InOrder
  <2>3. trig' = [trig EXCEPT ![at] = q] /\ selfCancel' = selfCancel
      BY <1>5, <2>1 DEF DaqFinish
  <2>4. at' \in Trigs /\ pass' \in Passes /\ pass' # "lines"
      BY <1>0, <1>5, GoOnFacts DEF DaqFinish
  <2> QED
      BY <1>0, <2>2, <2>3, <2>4, OneTrigger
<1>6. CASE DaqLine
  <2> DEFINE l == trig[at].cur
             e == cf[at][l]
  <2>1. /\ pass = "lines" /\ trig[at].cur <= NLine
        /\ selfCancel' = IF e.verb = "cancel" /\ e.id = at /\ ~stuck
                         THEN selfCancel \cup {at} ELSE selfCancel
      BY <1>6 DEF DaqLine
  <2>2. CASE /\ trig' = [Applied(e) EXCEPT ![at].cur = @ + 1, ![at].waiting = (e.verb = "wait"),
                                           ![at].ran = Append(@, l)]
             /\ IF e.verb = "wait" THEN GoOn ELSE UNCHANGED <<pass, at>>
    <3>1. at' \in Trigs /\ pass' \in Passes /\ (pass' = "lines" => at' = at)
      <4>1. CASE GoOn
          BY <1>0, <4>1, GoOnFacts
      <4>2. CASE UNCHANGED <<pass, at>>
          BY <1>0, <4>2
      <4> QED
          BY <2>2, <4>1, <4>2
    <3>2. PICK b \in BOOLEAN : b = (e.verb = "wait")
        OBVIOUS
    <3>3. PICK ee : ee = e
        OBVIOUS
    <3>4. trig' = [Applied(ee) EXCEPT ![at].cur = @ + 1, ![at].waiting = b,
                                      ![at].ran = Append(@, trig[at].cur)]
        BY <2>2, <3>2, <3>3
    <3>5. selfCancel' = IF ee.verb = "cancel" /\ ee.id = at /\ ~stuck
                        THEN selfCancel \cup {at} ELSE selfCancel
        BY <2>1, <3>3
    <3> HIDE DEF e, l
    <3> QED
        BY <2>1, <3>1, <3>4, <3>5, LineStep
  <2>3. CASE trig' = [trig EXCEPT ![at] = EndRun(trig[at])] /\ GoOn
    <3>1. PICK q : q = EndRun(trig[at])
        OBVIOUS
    <3>2. q \in TriggerState /\ (InOrder(trig[at]) => InOrder(q))
        BY <1>0, <3>1, EndRunFacts DEF InOrder
    <3>3. trig' = [trig EXCEPT ![at] = q]
        BY <2>3, <3>1
    <3>4. at' \in Trigs /\ pass' \in Passes /\ pass' # "lines"
        BY <1>0, <2>3, GoOnFacts
    <3>5. trig' \in [Trigs -> TriggerState] /\ trig'[at] = q /\ \A n \in Trigs : n # at => trig'[n] = trig[n]
        BY <1>0, <3>2, <3>3
    <3>6. \A n \in Trigs \ selfCancel' : InOrder(trig'[n])
      <4>1. ASSUME NEW n \in Trigs, n \notin selfCancel' PROVE InOrder(trig'[n])
        <5>1. n \notin selfCancel /\ InOrder(trig[n])
            BY <1>0, <2>1, <4>1
        <5> QED
            BY <3>2, <3>5, <4>1, <5>1
      <4> QED
          BY <4>1
    <3> QED
        BY <3>4, <3>5, <3>6 DEF OrderInv, RunInOrder, InOrder, NoLineAfterCancel
  <2> QED
      BY <1>6, <2>2, <2>3 DEF DaqLine
<1>7. ASSUME NEW n \in Trigs, NEW verb \in Commands, DaqCommand(n, verb) PROVE OrderInv'
  <2>1. PICK q : q = Commanded(trig[n], verb)
      OBVIOUS
  <2>2. trig[n] \in TriggerState
      BY <1>0
  <2>3. q \in TriggerState /\ ((q.cur = trig[n].cur /\ q.ran = trig[n].ran) \/ (q.cur = 1 /\ q.ran = <<>>))
      BY <2>1, <2>2, CommandedFacts
  <2>4. InOrder(trig[n]) => InOrder(q)
    <3>1. CASE q.cur = trig[n].cur /\ q.ran = trig[n].ran
        BY <3>1 DEF InOrder
    <3>2. CASE q.cur = 1 /\ q.ran = <<>>
        BY <3>2, AtFirst
    <3> QED
        BY <2>3, <3>1, <3>2
  <2>5. trig' = [trig EXCEPT ![n] = q] /\ at' = at /\ pass' = pass /\ pass = "idle" /\ selfCancel' = selfCancel
      BY <1>7, <2>1 DEF DaqCommand, MutexFree
  <2>6. at' \in Trigs /\ pass' \in Passes /\ pass' # "lines"
      BY <1>0, <2>5
  <2> QED
      BY <2>3, <2>4, <2>5, <2>6, OneTrigger
<1>8. ASSUME NEW n \in Trigs, NEW l \in Lines, NEW e \in Edits, GuiEdit(n, l, e) PROVE OrderInv'
    BY <1>0, <1>8, OutsideLines DEF GuiEdit, MutexFree, OrderInv
<1>9. ASSUME NEW n \in Trigs, GuiArm(n) PROVE OrderInv'
  <2>b. PICK b \in BOOLEAN : b = ~shown[n].arm
      OBVIOUS
  <2>1. PICK q : q = [trig[n] EXCEPT !.armed = b, !.armDirty = TRUE]
      OBVIOUS
  <2>2. trig[n] \in TriggerState
      BY <1>0
  <2>3. q = [armed |-> b, busy |-> trig[n].busy, ready |-> trig[n].ready, armDirty |-> TRUE,
             busyDirty |-> trig[n].busyDirty, cur |-> trig[n].cur, waiting |-> trig[n].waiting,
             ran |-> trig[n].ran]
      BY <2>1, <2>2 DEF TriggerState
  <2>4. q \in TriggerState
      BY <2>2, <2>3, Fields DEF TriggerState
  <2>5. InOrder(trig[n]) => InOrder(q)
      BY <2>3 DEF InOrder
  <2>6. trig' = [trig EXCEPT ![n] = q] /\ at' = at /\ pass' = pass /\ pass = "idle" /\ selfCancel' = selfCancel
      BY <1>9, <2>b, <2>1 DEF GuiArm, MutexFree
  <2>7. at' \in Trigs /\ pass' \in Passes /\ pass' # "lines"
      BY <1>0, <2>6
  <2> QED
      BY <2>4, <2>5, <2>6, <2>7, OneTrigger
<1>10. ASSUME NEW n \in Trigs, GuiForce(n) PROVE OrderInv'
  <2>1. PICK q : q = IF shown[n].force THEN [trig[n] EXCEPT !.busy = FALSE, !.busyDirty = TRUE]
                     ELSE Started(trig[n])
      OBVIOUS
  <2>2. trig[n] \in TriggerState
      BY <1>0
  <2>3. q \in TriggerState /\ (InOrder(trig[n]) => InOrder(q))
    <3>1. CASE shown[n].force
      <4>1. q = [armed |-> trig[n].armed, busy |-> FALSE, ready |-> trig[n].ready,
                 armDirty |-> trig[n].armDirty, busyDirty |-> TRUE, cur |-> trig[n].cur,
                 waiting |-> trig[n].waiting, ran |-> trig[n].ran]
          BY <2>1, <2>2, <3>1 DEF TriggerState
      <4>2. q \in TriggerState
          BY <2>2, <4>1, Fields, StateType
      <4> QED
          BY <4>1, <4>2 DEF InOrder
    <3>2. CASE ~shown[n].force
        BY <2>1, <2>2, <3>2, StartedFacts, AtFirst
    <3> QED
        BY <3>1, <3>2
  <2>4. trig' = [trig EXCEPT ![n] = q] /\ at' = at /\ pass' = pass /\ pass = "idle" /\ selfCancel' = selfCancel
      BY <1>10, <2>1 DEF GuiForce, MutexFree
  <2>5. at' \in Trigs /\ pass' \in Passes /\ pass' # "lines"
      BY <1>0, <2>4
  <2> QED
      BY <2>3, <2>4, <2>5, OneTrigger
<1>11. CASE GuiShow
    BY <1>0, <1>11, OutsideLines DEF GuiShow, MutexFree, OrderInv
<1>12. CASE NewSession
  <2> DEFINE F == [n \in Trigs |-> [trig[n] EXCEPT !.cur = 1, !.waiting = FALSE, !.ran = <<>>]]
  <2>1. ASSUME NEW n \in Trigs PROVE F[n] \in TriggerState /\ InOrder(F[n])
    <3>1. trig[n] \in TriggerState
        BY <1>0
    <3>2. F[n] = [trig[n] EXCEPT !.cur = 1, !.waiting = FALSE, !.ran = <<>>]
        OBVIOUS
    <3> HIDE DEF F
    <3>3. F[n] = [armed |-> trig[n].armed, busy |-> trig[n].busy, ready |-> trig[n].ready,
                  armDirty |-> trig[n].armDirty, busyDirty |-> trig[n].busyDirty, cur |-> 1,
                  waiting |-> FALSE, ran |-> <<>>]
        BY <3>1, <3>2 DEF TriggerState
    <3>4. 1 \in 1 .. NLine + 1 /\ <<>> \in Seq(1 .. NLine)
        BY TriggerAssumption
    <3>5. F[n] \in TriggerState
        BY <3>1, <3>3, <3>4, Fields DEF TriggerState
    <3> QED
        BY <3>3, <3>5, AtFirst
  <2>2. trig' = F /\ at' = at /\ pass' = pass /\ pass = "idle" /\ selfCancel' = selfCancel
      BY <1>12, Zenon DEF NewSession, MutexFree
  <2>3. F = [n \in Trigs |-> F[n]]
      OBVIOUS
  <2> HIDE DEF F
  <2>4. at' \in Trigs /\ pass' \in Passes /\ pass' # "lines"
      BY <1>0, <2>2
  <2> QED
      BY <2>1, <2>2, <2>3, <2>4, AllTriggers
<1>13. CASE UNCHANGED vars
    BY <1>13 DEF vars, OrderInv, RunInOrder, NoLineAfterCancel
<1> QED
    BY <1>1, <1>2, <1>3, <1>4, <1>5, <1>6, <1>7, <1>8, <1>9, <1>10, <1>11, <1>12, <1>13 DEF Next, DaqStep

\* For any number of triggers and lines, any expressions and any clicks, commands and
\* edits: the lines a trigger has passed since its start are its first ones in order,
\* and a line is executed only while the trigger is busy, unless the trigger has
\* cancelled itself.
THEOREM LinesInOrder == Spec => []PassInOrder
<1>1. OrderInv => PassInOrder
    BY DEF OrderInv, PassInOrder
<1> QED
    BY <1>1, OrderInit, OrderStep, PTL DEF Spec
-----------------------------------------------------------------------------
(* The buttons follow.                                                     *)

\* A step of a trigger which marks what it changes for set_trigger_buttons_all.
Marked(t, q) ==
    /\ q.armed = t.armed \/ q.armDirty
    /\ t.armDirty => q.armDirty
    /\ q.busy = t.busy \/ q.busyDirty
    /\ t.busyDirty => q.busyDirty

LEMMA SameMarked == ASSUME NEW t PROVE Marked(t, t)
BY DEF Marked

LEMMA MarkedTwice ==
    ASSUME NEW t, NEW q, NEW r, Marked(t, q), Marked(q, r)
    PROVE  Marked(t, r)
BY Zenon DEF Marked

\* What leaves the lines of a record alone but for cur, waiting and ran.
LEMMA KeptMarked ==
    ASSUME NEW t, NEW q, q.armed = t.armed, q.armDirty = t.armDirty, q.busy = t.busy,
           q.busyDirty = t.busyDirty
    PROVE  Marked(t, q)
BY Zenon DEF Marked

LEMMA StartedMarked ==
    ASSUME NEW t \in TriggerState
    PROVE  Marked(t, Started(t)) /\ (t.ready => Started(t).busyDirty)
<1>1. PICK q : q = Started(t)
    OBVIOUS
<1>2. CASE t.ready
  <2>1. PICK d : d = (t.armDirty \/ t.armed)
      OBVIOUS
  <2>2. q = [t EXCEPT !.armed = FALSE, !.armDirty = d, !.cur = 1, !.waiting = FALSE,
                      !.busy = TRUE, !.busyDirty = TRUE, !.ran = <<>>]
      BY <1>1, <1>2, <2>1, Zenon DEF Started
  <2>3. q = [armed |-> FALSE, busy |-> TRUE, ready |-> t.ready, armDirty |-> d, busyDirty |-> TRUE,
             cur |-> 1, waiting |-> FALSE, ran |-> <<>>]
      BY <2>2 DEF TriggerState
  <2>4. q.armed = FALSE /\ q.armDirty = d /\ q.busyDirty = TRUE
      BY <2>3
  <2>5. t.armed \in BOOLEAN
      BY Fields
  <2>6. t.armed = FALSE \/ t.armed = TRUE
      BY <2>5, Zenon
  <2>7. q.armed = t.armed \/ q.armDirty
      BY <2>1, <2>4, <2>6, Zenon
  <2>8. t.armDirty => q.armDirty
      BY <2>1, <2>4, Zenon
  <2>9. q.busyDirty
      BY <2>4, Zenon
  <2> QED
      BY <1>1, <2>7, <2>8, <2>9, Zenon DEF Marked
<1>3. CASE ~t.ready
    BY <1>1, <1>3, SameMarked, Zenon DEF Started
<1> QED
    BY <1>2, <1>3

LEMMA CommandedMarked ==
    ASSUME NEW t \in TriggerState, NEW verb
    PROVE  Marked(t, Commanded(t, verb))
<1>1. PICK q : q = Commanded(t, verb)
    OBVIOUS
<1>2. CASE verb = "arm" /\ ~t.armed
  <2>1. q = [armed |-> TRUE, busy |-> t.busy, ready |-> t.ready, armDirty |-> TRUE,
             busyDirty |-> t.busyDirty, cur |-> t.cur, waiting |-> t.waiting, ran |-> t.ran]
      BY <1>1, <1>2 DEF Commanded, TriggerState
  <2>2. q.armDirty = TRUE /\ q.busy = t.busy /\ q.busyDirty = t.busyDirty
      BY <2>1
  <2> QED
      BY <1>1, <2>2, Zenon DEF Marked
<1>3. CASE verb = "disarm" /\ t.armed
  <2>1. q = [armed |-> FALSE, busy |-> t.busy, ready |-> t.ready, armDirty |-> TRUE,
             busyDirty |-> t.busyDirty, cur |-> t.cur, waiting |-> t.waiting, ran |-> t.ran]
      BY <1>1, <1>3 DEF Commanded, TriggerState
  <2>2. q.armDirty = TRUE /\ q.busy = t.busy /\ q.busyDirty = t.busyDirty
      BY <2>1
  <2> QED
      BY <1>1, <2>2, Zenon DEF Marked
<1>4. CASE verb = "force" /\ ~t.busy
    BY <1>4, StartedMarked DEF Commanded
<1>5. CASE verb = "cancel" /\ t.busy
  <2>1. q = [armed |-> t.armed, busy |-> FALSE, ready |-> t.ready, armDirty |-> t.armDirty,
             busyDirty |-> TRUE, cur |-> t.cur, waiting |-> t.waiting, ran |-> t.ran]
      BY <1>1, <1>5 DEF Commanded, TriggerState
  <2>2. q.busyDirty = TRUE /\ q.armed = t.armed /\ q.armDirty = t.armDirty
      BY <2>1
  <2> QED
      BY <1>1, <2>2, Zenon DEF Marked
<1>6. CASE ~((verb = "arm" /\ ~t.armed) \/ (verb = "disarm" /\ t.armed) \/ (verb = "force" /\ ~t.busy)
             \/ (verb = "cancel" /\ t.busy))
  <2>1. q = t
      BY <1>1, <1>6 DEF Commanded
  <2> QED
      BY <1>1, <2>1, SameMarked
<1> QED
    BY <1>2, <1>3, <1>4, <1>5, <1>6

LEMMA AppliedMarked ==
    ASSUME trig \in [Trigs -> TriggerState], NEW e, NEW n \in Trigs
    PROVE  Marked(trig[n], Applied(e)[n])
<1>1. CASE ~(e.verb \in Commands /\ ~stuck)
    BY <1>1, SameMarked, Zenon DEF Applied
<1>2. CASE e.verb \in Commands /\ ~stuck
  <2>1. Applied(e) = [trig EXCEPT ![e.id] = Commanded(trig[e.id], e.verb)]
      BY <1>2 DEF Applied
  <2>2. CASE e.id = n
    <3>1. Applied(e)[n] = Commanded(trig[n], e.verb) /\ trig[n] \in TriggerState
        BY <2>1, <2>2
    <3> QED
        BY <3>1, CommandedMarked
  <2>3. CASE e.id # n
    <3>1. Applied(e)[n] = trig[n]
        BY <2>1, <2>3
    <3> QED
        BY <3>1, SameMarked
  <2> QED
      BY <2>2, <2>3
<1> QED
    BY <1>1, <1>2

LEMMA EndRunMarked ==
    ASSUME NEW t \in TriggerState
    PROVE  Marked(t, EndRun(t))
<1>1. PICK q : q = EndRun(t)
    OBVIOUS
<1>2. q = [armed |-> t.armed, busy |-> FALSE, ready |-> t.ready, armDirty |-> t.armDirty,
           busyDirty |-> TRUE, cur |-> t.cur, waiting |-> FALSE, ran |-> t.ran]
    BY <1>1 DEF EndRun, TriggerState
<1>3. q.busyDirty = TRUE /\ q.armed = t.armed /\ q.armDirty = t.armDirty
    BY <1>2
<1> QED
    BY <1>1, <1>3, Zenon DEF Marked
-----------------------------------------------------------------------------
ShowInv == shown \in [Trigs -> [arm : BOOLEAN, force : BOOLEAN]] /\ ButtonsFollow

LEMMA MarkedStep ==
    ASSUME ShowInv, shown' = shown, deadClick' = deadClick,
           \A n \in Trigs : Marked(trig[n], trig'[n])
    PROVE  ShowInv'
<1>1. ASSUME NEW n \in Trigs
      PROVE  /\ shown'[n].arm # trig'[n].armed => trig'[n].armDirty
             /\ shown'[n].force # trig'[n].busy => trig'[n].busyDirty \/ n \in deadClick'
  <2>1. Marked(trig[n], trig'[n])
      OBVIOUS
  <2>2. /\ shown[n].arm # trig[n].armed => trig[n].armDirty
        /\ shown[n].force # trig[n].busy => trig[n].busyDirty \/ n \in deadClick
      BY DEF ShowInv, ButtonsFollow
  <2> QED
      BY <2>1, <2>2, Zenon DEF Marked
<1> QED
    BY <1>1 DEF ShowInv, ButtonsFollow

\* A change of one trigger.
LEMMA OneMarked ==
    ASSUME ShowInv, shown' = shown, deadClick' = deadClick, trig \in [Trigs -> TriggerState],
           NEW n \in Trigs, NEW q, Marked(trig[n], q), trig' = [trig EXCEPT ![n] = q]
    PROVE  ShowInv'
<1>1. ASSUME NEW m \in Trigs
      PROVE  Marked(trig[m], trig'[m])
  <2>1. trig'[m] = IF m = n THEN q ELSE trig[m]
      OBVIOUS
  <2> QED
      BY <2>1, SameMarked
<1> QED
    BY <1>1, MarkedStep

LEMMA ShowInit == Init => ShowInv
<1> SUFFICES ASSUME Init PROVE ShowInv
    OBVIOUS
<1>1. ASSUME NEW n \in Trigs
      PROVE  shown[n] = [arm |-> FALSE, force |-> FALSE] /\ trig[n].armed = FALSE /\ trig[n].busy = FALSE
    BY DEF Init
<1>2. shown \in [Trigs -> [arm : BOOLEAN, force : BOOLEAN]]
    BY DEF Init
<1>3. ASSUME NEW n \in Trigs
      PROVE  /\ shown[n].arm = FALSE /\ shown[n].force = FALSE
             /\ trig[n].armed = FALSE /\ trig[n].busy = FALSE
  <2>1. [arm |-> FALSE, force |-> FALSE].arm = FALSE /\ [arm |-> FALSE, force |-> FALSE].force = FALSE
      OBVIOUS
  <2>2. shown[n].arm = [arm |-> FALSE, force |-> FALSE].arm
      BY <1>1, Zenon
  <2>3. shown[n].force = [arm |-> FALSE, force |-> FALSE].force
      BY <1>1, Zenon
  <2> QED
      BY <1>1, <2>1, <2>2, <2>3, Zenon
<1>4. ButtonsFollow
    BY <1>3, Zenon DEF ButtonsFollow
<1> QED
    BY <1>2, <1>4 DEF ShowInv

LEMMA ShowStep == OrderInv /\ ShowInv /\ [Next]_vars => ShowInv'
<1> SUFFICES ASSUME OrderInv, ShowInv, [Next]_vars PROVE ShowInv'
    OBVIOUS
<1>0. /\ trig \in [Trigs -> TriggerState] /\ at \in Trigs /\ trig[at] \in TriggerState
      /\ shown \in [Trigs -> [arm : BOOLEAN, force : BOOLEAN]]
    BY DEF OrderInv, ShowInv
<1>1. CASE DaqParse
  <2> DEFINE refuse(n) == IF_Line \in lineDirty[n] /\ Instructs(expr[n][IF_Line])
             F == [n \in Trigs |->
                     [trig[n] EXCEPT !.ready = IF lineDirty[n] = {} THEN @
                                               ELSE ~refuse(n) \/ lineDirty[n] # {IF_Line},
                                     !.armed = @ /\ ~refuse(n),
                                     !.armDirty = @ \/ (trig[n].armed /\ refuse(n))]]
  <2>1. trig' = F /\ shown' = shown /\ deadClick' = deadClick
      BY <1>1, Zenon DEF DaqParse
  <2>2. ASSUME NEW n \in Trigs
        PROVE  Marked(trig[n], F[n])
    <3>1. trig[n] \in TriggerState
        BY <1>0
    <3>2. PICK f \in BOOLEAN : f = refuse(n)
        OBVIOUS
    <3>3. PICK r : r = IF lineDirty[n] = {} THEN trig[n].ready ELSE ~f \/ lineDirty[n] # {IF_Line}
        OBVIOUS
    <3>4. PICK a : a = (trig[n].armed /\ ~f)
        OBVIOUS
    <3>5. PICK d : d = (trig[n].armDirty \/ (trig[n].armed /\ f))
        OBVIOUS
    <3>6. F[n] = [trig[n] EXCEPT !.ready = r, !.armed = a, !.armDirty = d]
        BY <3>2, <3>3, <3>4, <3>5, Zenon
    <3> HIDE DEF F, refuse
    <3>7. /\ F[n].armed = a /\ F[n].armDirty = d
          /\ F[n].busy = trig[n].busy /\ F[n].busyDirty = trig[n].busyDirty
        BY <3>1, <3>6 DEF TriggerState
    <3>8. trig[n].armed = TRUE \/ trig[n].armed = FALSE
      <4>1. trig[n].armed \in BOOLEAN
          BY <3>1, Fields
      <4> QED
          BY <4>1, Zenon
    <3>9. f = TRUE \/ f = FALSE
        BY Zenon
    <3>10. F[n].armed = trig[n].armed \/ F[n].armDirty
      <4>1. CASE f = FALSE
        <5>1. a = trig[n].armed
          <6>1. CASE trig[n].armed = TRUE
            <7>1. a = TRUE
                BY <3>4, <4>1, <6>1, Zenon
            <7> QED
                BY <6>1, <7>1, Zenon
          <6>2. CASE trig[n].armed = FALSE
            <7>1. a = FALSE
                BY <3>4, <6>2, Zenon
            <7> QED
                BY <6>2, <7>1, Zenon
          <6> QED
              BY <3>8, <6>1, <6>2, Zenon
        <5> QED
            BY <3>7, <5>1, Zenon
      <4>2. CASE f = TRUE
        <5>1. CASE trig[n].armed = TRUE
          <6>1. d
              BY <3>5, <4>2, <5>1, Zenon
          <6> QED
              BY <3>7, <6>1, Zenon
        <5>2. CASE trig[n].armed = FALSE
          <6>1. a = FALSE
              BY <3>4, <5>2, Zenon
          <6> QED
              BY <3>7, <5>2, <6>1, Zenon
        <5> QED
            BY <3>8, <5>1, <5>2, Zenon
      <4> QED
          BY <3>9, <4>1, <4>2, Zenon
    <3>11. trig[n].armDirty => F[n].armDirty
        BY <3>5, <3>7, Zenon
    <3> QED
        BY <3>7, <3>10, <3>11, Zenon DEF Marked
  <2> HIDE DEF F
  <2>3. \A n \in Trigs : Marked(trig[n], trig'[n])
      BY <2>1, <2>2
  <2> QED
      BY <2>1, <2>3, MarkedStep
<1>2. CASE DaqCheck
  <2>1. shown' = shown /\ deadClick' = deadClick
      BY <1>2 DEF DaqCheck
  <2>2. PICK e : \/ trig' = [Applied(e) EXCEPT ![at] = Started(Applied(e)[at])]
                 \/ trig' = trig
      BY <1>2 DEF DaqCheck
  <2>3. PICK a : a = Applied(e)
      OBVIOUS
  <2>4. a \in [Trigs -> TriggerState] /\ \A n \in Trigs : Marked(trig[n], a[n])
      BY <1>0, <2>3, AppliedFacts, AppliedMarked
  <2>5. ASSUME NEW n \in Trigs
        PROVE  Marked(trig[n], trig'[n])
    <3>1. CASE trig' = [Applied(e) EXCEPT ![at] = Started(Applied(e)[at])] /\ n = at
      <4>1. trig'[at] = Started(a[at]) /\ a[at] \in TriggerState
          BY <1>0, <2>3, <2>4, <3>1
      <4>2. Marked(a[at], trig'[at])
          BY <4>1, StartedMarked
      <4> QED
          BY <2>4, <3>1, <4>2, MarkedTwice
    <3>2. CASE trig' = [Applied(e) EXCEPT ![at] = Started(Applied(e)[at])] /\ n # at
      <4>1. trig'[n] = a[n]
          BY <2>3, <2>4, <3>2
      <4> QED
          BY <2>4, <4>1
    <3>3. CASE trig' = trig
        BY <3>3, SameMarked
    <3> QED
        BY <2>2, <3>1, <3>2, <3>3
  <2> QED
      BY <2>1, <2>5, MarkedStep
<1>3. CASE DaqSkip
    BY <1>3, MarkedStep, SameMarked DEF DaqSkip
<1>4. CASE DaqEnter
  <2>1. PICK q : q = [trig[at] EXCEPT !.waiting = FALSE]
      OBVIOUS
  <2>2. /\ q.armed = trig[at].armed /\ q.armDirty = trig[at].armDirty
        /\ q.busy = trig[at].busy /\ q.busyDirty = trig[at].busyDirty
      BY <1>0, <2>1 DEF TriggerState
  <2>3. trig' = [trig EXCEPT ![at] = q] /\ shown' = shown /\ deadClick' = deadClick
      BY <1>0, <1>4, <2>1 DEF DaqEnter
  <2> QED
      BY <1>0, <2>2, <2>3, KeptMarked, OneMarked
<1>5. CASE DaqFinish
    BY <1>0, <1>5, EndRunMarked, OneMarked DEF DaqFinish
<1>6. CASE DaqLine
  <2>1. shown' = shown /\ deadClick' = deadClick
      BY <1>6 DEF DaqLine
  <2>2. PICK e : \/ trig' = [Applied(e) EXCEPT ![at].cur = @ + 1,
                                               ![at].waiting = (e.verb = "wait"),
                                               ![at].ran = Append(@, trig[at].cur)]
                 \/ trig' = [trig EXCEPT ![at] = EndRun(trig[at])]
      BY <1>6 DEF DaqLine
  <2>3. CASE trig' = [Applied(e) EXCEPT ![at].cur = @ + 1, ![at].waiting = (e.verb = "wait"),
                                        ![at].ran = Append(@, trig[at].cur)]
    <3>1. PICK a : a = Applied(e)
        OBVIOUS
    <3>2. a \in [Trigs -> TriggerState] /\ \A n \in Trigs : Marked(trig[n], a[n])
        BY <1>0, <3>1, AppliedFacts, AppliedMarked
    <3>3. PICK b : b = (e.verb = "wait")
        OBVIOUS
    <3>4. PICK x : x = [a[at] EXCEPT !.cur = @ + 1, !.waiting = b, !.ran = Append(@, trig[at].cur)]
        OBVIOUS
    <3>5. trig' = [a EXCEPT ![at] = x]
        BY <1>0, <2>3, <3>1, <3>2, <3>3, <3>4
    <3>6. a[at] \in TriggerState
        BY <1>0, <3>2
    <3>7. /\ x.armed = a[at].armed /\ x.armDirty = a[at].armDirty
          /\ x.busy = a[at].busy /\ x.busyDirty = a[at].busyDirty
        BY <3>4, <3>6 DEF TriggerState
    <3>8. Marked(trig[at], x)
        BY <1>0, <3>2, <3>7, KeptMarked, MarkedTwice
    <3>9. ASSUME NEW n \in Trigs
          PROVE  Marked(trig[n], trig'[n])
      <4>1. trig'[n] = IF n = at THEN x ELSE a[n]
          BY <3>2, <3>5
      <4> QED
          BY <3>2, <3>8, <4>1
    <3> QED
        BY <2>1, <3>9, MarkedStep
  <2>4. CASE trig' = [trig EXCEPT ![at] = EndRun(trig[at])]
      BY <1>0, <2>1, <2>4, EndRunMarked, OneMarked
  <2> QED
      BY <2>2, <2>3, <2>4
<1>7. ASSUME NEW n \in Trigs, NEW verb \in Commands, DaqCommand(n, verb) PROVE ShowInv'
    BY <1>0, <1>7, CommandedMarked, OneMarked DEF DaqCommand
<1>8. ASSUME NEW n \in Trigs, NEW l \in Lines, NEW e \in Edits, GuiEdit(n, l, e) PROVE ShowInv'
    BY <1>8, MarkedStep, SameMarked DEF GuiEdit
<1>9. ASSUME NEW n \in Trigs, GuiArm(n) PROVE ShowInv'
  <2>1. PICK b \in BOOLEAN : b = ~shown[n].arm
      OBVIOUS
  <2>2. PICK q : q = [trig[n] EXCEPT !.armed = b, !.armDirty = TRUE]
      OBVIOUS
  <2>3. q.armDirty = TRUE /\ q.busy = trig[n].busy /\ q.busyDirty = trig[n].busyDirty
    <3>1. trig[n] \in TriggerState
        BY <1>0
    <3> QED
        BY <2>2, <3>1 DEF TriggerState
  <2>4. PICK z : z = [shown[n] EXCEPT !.arm = b]
      OBVIOUS
  <2>5. z \in [arm : BOOLEAN, force : BOOLEAN] /\ z.force = shown[n].force
    <3>1. shown[n] \in [arm : BOOLEAN, force : BOOLEAN]
        BY <1>0
    <3> QED
        BY <2>4, <3>1
  <2>6. /\ trig' = [trig EXCEPT ![n] = q] /\ shown' = [shown EXCEPT ![n] = z]
        /\ deadClick' = deadClick
      BY <1>0, <1>9, <2>1, <2>2, <2>4 DEF GuiArm
  <2>7. shown' \in [Trigs -> [arm : BOOLEAN, force : BOOLEAN]]
      BY <1>0, <2>5, <2>6
  <2>8. ASSUME NEW m \in Trigs
        PROVE  /\ shown'[m].arm # trig'[m].armed => trig'[m].armDirty
               /\ shown'[m].force # trig'[m].busy => trig'[m].busyDirty \/ m \in deadClick
    <3>1. /\ trig'[m] = IF m = n THEN q ELSE trig[m]
          /\ shown'[m] = IF m = n THEN z ELSE shown[m]
        BY <1>0, <2>6
    <3>2. /\ shown[m].arm # trig[m].armed => trig[m].armDirty
          /\ shown[m].force # trig[m].busy => trig[m].busyDirty \/ m \in deadClick
        BY DEF ShowInv, ButtonsFollow
    <3>3. CASE m = n
      <4>1. trig'[m] = q /\ shown'[m] = z
          BY <3>1, <3>3
      <4> QED
          BY <2>3, <2>5, <3>2, <3>3, <4>1, Zenon
    <3>4. CASE m # n
      <4>1. trig'[m] = trig[m] /\ shown'[m] = shown[m]
          BY <3>1, <3>4
      <4> QED
          BY <3>2, <4>1, Zenon
    <3> QED
        BY <3>3, <3>4
  <2> QED
      BY <2>6, <2>7, <2>8 DEF ShowInv, ButtonsFollow
<1>10. ASSUME NEW n \in Trigs, GuiForce(n) PROVE ShowInv'
  <2>0. trig[n] \in TriggerState /\ shown[n] \in [arm : BOOLEAN, force : BOOLEAN]
      BY <1>0
  <2>1. PICK q : q = IF shown[n].force THEN [trig[n] EXCEPT !.busy = FALSE, !.busyDirty = TRUE]
                     ELSE Started(trig[n])
      OBVIOUS
  <2>2. PICK b \in BOOLEAN : b = ~shown[n].force
      OBVIOUS
  <2>3. PICK z : z = [shown[n] EXCEPT !.force = b]
      OBVIOUS
  <2>4. z \in [arm : BOOLEAN, force : BOOLEAN] /\ z.arm = shown[n].arm
      BY <2>0, <2>3
  <2>5. /\ trig' = [trig EXCEPT ![n] = q] /\ shown' = [shown EXCEPT ![n] = z]
        /\ deadClick' = IF shown[n].force THEN deadClick \ {n}
                        ELSE IF trig[n].ready THEN deadClick ELSE deadClick \cup {n}
      BY <1>0, <1>10, <2>1, <2>2, <2>3 DEF GuiForce
  <2>6. /\ q.armed = trig[n].armed \/ q.armDirty
        /\ trig[n].armDirty => q.armDirty
        /\ q.busyDirty \/ n \in deadClick'
    <3>1. CASE shown[n].force
      <4>1. q = [trig[n] EXCEPT !.busy = FALSE, !.busyDirty = TRUE]
          BY <2>1, <3>1
      <4>2. q.busyDirty = TRUE /\ q.armed = trig[n].armed /\ q.armDirty = trig[n].armDirty
          BY <2>0, <4>1 DEF TriggerState
      <4> QED
          BY <4>2, Zenon
    <3>2. CASE ~shown[n].force
      <4>1. q = Started(trig[n])
          BY <2>1, <3>2
      <4>2. Marked(trig[n], q) /\ (trig[n].ready => q.busyDirty)
          BY <2>0, <4>1, StartedMarked
      <4>3. ~trig[n].ready => n \in deadClick'
          BY <2>5, <3>2
      <4> QED
          BY <4>2, <4>3, Zenon DEF Marked
    <3> QED
        BY <3>1, <3>2
  <2>7. shown' \in [Trigs -> [arm : BOOLEAN, force : BOOLEAN]]
      BY <1>0, <2>4, <2>5
  <2>8. ASSUME NEW m \in Trigs
        PROVE  /\ shown'[m].arm # trig'[m].armed => trig'[m].armDirty
               /\ shown'[m].force # trig'[m].busy => trig'[m].busyDirty \/ m \in deadClick'
    <3>1. /\ trig'[m] = IF m = n THEN q ELSE trig[m]
          /\ shown'[m] = IF m = n THEN z ELSE shown[m]
        BY <1>0, <2>5
    <3>2. /\ shown[m].arm # trig[m].armed => trig[m].armDirty
          /\ shown[m].force # trig[m].busy => trig[m].busyDirty \/ m \in deadClick
        BY DEF ShowInv, ButtonsFollow
    <3>3. CASE m = n
      <4>1. trig'[m] = q /\ shown'[m] = z
          BY <3>1, <3>3
      <4> QED
          BY <2>4, <2>6, <3>2, <3>3, <4>1, Zenon
    <3>4. CASE m # n
      <4>1. trig'[m] = trig[m] /\ shown'[m] = shown[m] /\ (m \in deadClick => m \in deadClick')
          BY <2>5, <3>1, <3>4
      <4> QED
          BY <3>2, <4>1, Zenon
    <3> QED
        BY <3>3, <3>4
  <2> QED
      BY <2>7, <2>8 DEF ShowInv, ButtonsFollow
<1>11. CASE GuiShow
  <2>1. ASSUME NEW n \in Trigs
        PROVE  /\ shown'[n].arm = IF trig[n].armDirty THEN trig[n].armed ELSE shown[n].arm
               /\ shown'[n].force = IF trig[n].busyDirty THEN trig[n].busy ELSE shown[n].force
    <3>1. shown'[n] = [arm   |-> IF trig[n].armDirty THEN trig[n].armed ELSE shown[n].arm,
                       force |-> IF trig[n].busyDirty THEN trig[n].busy ELSE shown[n].force]
        BY <1>11 DEF GuiShow
    <3>2. PICK a, f : /\ a = IF trig[n].armDirty THEN trig[n].armed ELSE shown[n].arm
                      /\ f = IF trig[n].busyDirty THEN trig[n].busy ELSE shown[n].force
        OBVIOUS
    <3>3. shown'[n] = [arm |-> a, force |-> f]
        BY <3>1, <3>2
    <3>4. shown'[n].arm = a /\ shown'[n].force = f
        BY <3>3
    <3> QED
        BY <3>2, <3>4
  <2>2. trig' = trig /\ deadClick' = deadClick
      BY <1>11 DEF GuiShow
  <2>3. ASSUME NEW n \in Trigs
        PROVE  shown'[n].arm \in BOOLEAN /\ shown'[n].force \in BOOLEAN
    <3>1. /\ trig[n].armed \in BOOLEAN /\ trig[n].busy \in BOOLEAN
      <4>1. trig[n] \in TriggerState
          BY <1>0
      <4> QED
          BY <4>1, Fields
    <3>2. shown[n].arm \in BOOLEAN /\ shown[n].force \in BOOLEAN
        BY <1>0
    <3> QED
        BY <2>1, <3>1, <3>2, Zenon
  <2>4. shown' \in [Trigs -> [arm : BOOLEAN, force : BOOLEAN]]
    <3>1. ASSUME NEW n \in Trigs
          PROVE  shown'[n] \in [arm : BOOLEAN, force : BOOLEAN]
      <4>1. PICK a, f : shown'[n] = [arm |-> a, force |-> f]
          BY <1>11 DEF GuiShow
      <4>2. a = shown'[n].arm /\ f = shown'[n].force
          BY <4>1
      <4>3. a \in BOOLEAN /\ f \in BOOLEAN
          BY <2>3, <4>2, Zenon
      <4> QED
          BY <4>1, <4>3
    <3>2. shown' = [n \in Trigs |-> shown'[n]]
        BY <1>11 DEF GuiShow
    <3> QED
        BY <3>1, <3>2
  <2>5. ASSUME NEW n \in Trigs
        PROVE  /\ shown'[n].arm # trig[n].armed => trig[n].armDirty
               /\ shown'[n].force # trig[n].busy => trig[n].busyDirty \/ n \in deadClick
    <3>1. /\ shown[n].arm # trig[n].armed => trig[n].armDirty
          /\ shown[n].force # trig[n].busy => trig[n].busyDirty \/ n \in deadClick
        BY DEF ShowInv, ButtonsFollow
    <3> QED
        BY <2>1, <3>1, Zenon
  <2> QED
      BY <2>2, <2>4, <2>5 DEF ShowInv, ButtonsFollow
<1>12. CASE NewSession
  <2>1. ASSUME NEW n \in Trigs
        PROVE  Marked(trig[n], trig'[n])
    <3>1. trig[n] \in TriggerState
        BY <1>0
    <3>2. trig'[n] = [trig[n] EXCEPT !.cur = 1, !.waiting = FALSE, !.ran = <<>>]
        BY <1>12 DEF NewSession
    <3>3. /\ trig'[n].armed = trig[n].armed /\ trig'[n].armDirty = trig[n].armDirty
          /\ trig'[n].busy = trig[n].busy /\ trig'[n].busyDirty = trig[n].busyDirty
        BY <3>1, <3>2 DEF TriggerState
    <3> QED
        BY <3>3, KeptMarked
  <2> QED
      BY <1>12, <2>1, MarkedStep DEF NewSession
<1>13. CASE UNCHANGED vars
    BY <1>13, MarkedStep, SameMarked DEF vars
<1> QED
    BY <1>1, <1>2, <1>3, <1>4, <1>5, <1>6, <1>7, <1>8, <1>9, <1>10, <1>11, <1>12, <1>13 DEF Next, DaqStep

\* For any number of triggers and lines, any expressions, clicks, commands and edits: a
\* button which differs from its trigger will be set, because every path that arms,
\* disarms, starts or ends a trigger marks it (Marked), except for a THEN button pressed
\* when the trigger could not start.
THEOREM ButtonsWillFollow == Spec => []ButtonsFollow
<1> DEFINE I == OrderInv /\ ShowInv
<1>1. Init => I
    BY OrderInit, ShowInit
<1>2. I /\ [Next]_vars => I'
    BY OrderStep, ShowStep
<1>3. I => ButtonsFollow
    BY DEF ShowInv
<1> QED
    BY <1>1, <1>2, <1>3, PTL DEF Spec
-----------------------------------------------------------------------------
(* A pass ends.                                                            *)

\* What the next trigger has left to do.
LEMMA GoOnShrinks ==
    ASSUME at \in Trigs, GoOn, trig' \in [Trigs -> TriggerState], pass \in {"check", "exec", "lines"},
           pass = "lines" => trig[at].cur \in 1 .. NLine + 1
    PROVE  PassLeft' \in Nat /\ PassLeft' < PassLeft
<1>1. PICK k \in Nat \ {0} : k = NLine + 2
    BY TriggerAssumption
<1>2. NTrig \in Nat \ {0} /\ at \in 1 .. NTrig
    BY TriggerAssumption DEF Trigs
<1>3. NTrig * k \in Nat /\ (NTrig - at) * k \in Nat /\ (NTrig + 1 - at) * k = (NTrig - at) * k + k
    BY <1>1, <1>2
<1>4. CASE pass = "check"
  <2>1. PassLeft = NTrig + 1 - at + NTrig * k
    BY <1>1, <1>4 DEF PassLeft
  <2>2. CASE at < NTrig
    <3>1. PassLeft' = NTrig + 1 - (at + 1) + NTrig * k
      BY <1>1, <1>4, <2>2 DEF PassLeft, GoOn
    <3> QED
      BY <1>2, <1>3, <2>1, <2>2, <3>1
  <2>3. CASE ~(at < NTrig)
    <3>1. PassLeft' = (NTrig + 1 - 1) * k
      BY <1>1, <1>4, <2>3 DEF PassLeft, GoOn
    <3>2. NTrig + 1 - 1 = NTrig
      BY <1>2
    <3> QED
      BY <1>2, <1>3, <2>1, <2>3, <3>1, <3>2
  <2> QED
    BY <2>2, <2>3
<1>5. CASE pass \in {"exec", "lines"}
  <2>1. PassLeft \in Nat /\ PassLeft > (NTrig - at) * k
    <3>1. CASE pass = "exec"
      BY <1>1, <1>3, <3>1 DEF PassLeft
    <3>2. CASE pass = "lines"
      <4>1. PassLeft = (NTrig - at) * k + NLine + 2 - trig[at].cur
        BY <1>1, <3>2 DEF PassLeft
      <4> QED
        BY <1>3, <3>2, <4>1, TriggerAssumption
    <3> QED
      BY <1>5, <3>1, <3>2
  <2>2. CASE at < NTrig
    <3>1. PassLeft' = (NTrig + 1 - (at + 1)) * k
      BY <1>1, <1>5, <2>2 DEF PassLeft, GoOn
    <3>2. NTrig + 1 - (at + 1) = NTrig - at
      BY <1>2
    <3> QED
      BY <1>3, <2>1, <3>1, <3>2
  <2>3. CASE ~(at < NTrig)
    <3>1. PassLeft' = 0
      BY <1>5, <2>3 DEF PassLeft, GoOn
    <3> QED
      BY <1>3, <2>1, <3>1
  <2> QED
    BY <2>2, <2>3
<1> QED
    BY <1>4, <1>5

LEMMA ShrinkStep ==
    ASSUME OrderInv, [Next]_vars
    PROVE  [pass # "idle" /\ selfCancel' = {} => PassLeft' < PassLeft]_vars
<1> SUFFICES ASSUME Next, pass # "idle", selfCancel' = {} PROVE PassLeft' < PassLeft
    OBVIOUS
<1>1. /\ trig \in [Trigs -> TriggerState] /\ at \in Trigs /\ pass \in Passes
      /\ trig[at] \in TriggerState /\ trig[at].cur \in 1 .. NLine + 1
    BY Fields DEF OrderInv
<1>2. trig' \in [Trigs -> TriggerState]
    BY OrderStep DEF OrderInv
<1>3. CASE DaqCheck \/ DaqSkip \/ DaqFinish
    BY <1>1, <1>2, <1>3, GoOnShrinks DEF DaqCheck, DaqSkip, DaqFinish
<1>4. CASE DaqEnter
  <2>1. pass = "exec" /\ pass' = "lines" /\ at' = at /\ trig'[at].cur \in 1 .. NLine + 1
    BY <1>1, <1>2, <1>4, Fields DEF DaqEnter
  <2>2. PICK k \in Nat \ {0} : k = NLine + 2
    BY TriggerAssumption
  <2>3. PassLeft = (NTrig + 1 - at) * k /\ PassLeft' = (NTrig - at) * k + k - trig'[at].cur
    <3>1. /\ PassLeft = (NTrig + 1 - at) * (NLine + 2)
          /\ PassLeft' = (NTrig - at) * (NLine + 2) + NLine + 2 - trig'[at].cur
      BY <2>1 DEF PassLeft
    <3>2. (NTrig - at) * (NLine + 2) \in Int
      BY <1>1, TriggerAssumption DEF Trigs
    <3> QED
      BY <2>1, <2>2, <3>1, <3>2, TriggerAssumption
  <2>4. (NTrig - at) * k \in Nat /\ (NTrig + 1 - at) * k = (NTrig - at) * k + k
    BY <1>1, <2>2, TriggerAssumption DEF Trigs
  <2> QED
    BY <2>1, <2>2, <2>3, <2>4, TriggerAssumption
<1>5. CASE DaqLine
  <2> DEFINE l == trig[at].cur
             e == cf[at][l]
  <2>1. /\ pass = "lines" /\ l <= NLine
        /\ selfCancel' = IF e.verb = "cancel" /\ e.id = at /\ ~stuck
                         THEN selfCancel \cup {at} ELSE selfCancel
    BY <1>5 DEF DaqLine
  <2>2. CASE GoOn
    BY <1>1, <1>2, <2>1, <2>2, GoOnShrinks
  <2>3. CASE /\ trig' = [Applied(e) EXCEPT ![at].cur = @ + 1, ![at].waiting = (e.verb = "wait"),
                                           ![at].ran = Append(@, l)]
             /\ UNCHANGED <<pass, at>>
    <3>1. PICK ee : ee = e
      OBVIOUS
    <3> HIDE DEF e
    <3>2. at \notin selfCancel /\ ~(ee.verb = "cancel" /\ ee.id = at /\ ~stuck)
      BY <2>1, <3>1
    <3>3. trig[at].busy
      BY <2>1, <3>2 DEF OrderInv, NoLineAfterCancel
    <3>4. PICK a : a = Applied(ee)
      OBVIOUS
    <3>5. a \in [Trigs -> TriggerState] /\ a[at].cur = l
      BY <1>1, <3>2, <3>3, <3>4, AppliedFacts
    <3>6. trig'[at].cur = l + 1
      <4>1. trig' = [a EXCEPT ![at].cur = @ + 1, ![at].waiting = (e.verb = "wait"),
                              ![at].ran = Append(@, l)]
        BY <2>3, <3>1, <3>4
      <4> QED
        BY <1>1, <3>5, <4>1 DEF TriggerState
    <3>7. PICK w \in Int : w = (NTrig - at) * (NLine + 2)
      BY <1>1, TriggerAssumption DEF Trigs
    <3>8. PassLeft = w + NLine + 2 - l /\ PassLeft' = w + NLine + 2 - (l + 1)
      BY <2>1, <2>3, <3>6, <3>7 DEF PassLeft
    <3> QED
      BY <1>1, <3>7, <3>8, TriggerAssumption
  <2> QED
    BY <1>5, <2>2, <2>3 DEF DaqLine
<1>6. CASE DaqParse \/ GuiShow \/ NewSession
    BY <1>6 DEF DaqParse, GuiShow, NewSession, MutexFree
<1>7. ASSUME NEW n \in Trigs, NEW verb \in Commands, DaqCommand(n, verb) PROVE FALSE
    BY <1>7 DEF DaqCommand, MutexFree
<1>8. ASSUME NEW n \in Trigs, NEW l \in Lines, NEW e \in Edits, GuiEdit(n, l, e) PROVE FALSE
    BY <1>8 DEF GuiEdit, MutexFree
<1>9. ASSUME NEW n \in Trigs, GuiArm(n) \/ GuiForce(n) PROVE FALSE
    BY <1>9 DEF GuiArm, GuiForce, MutexFree
<1> QED
    BY <1>3, <1>4, <1>5, <1>6, <1>7, <1>8, <1>9 DEF Next, DaqStep

LEMMA PassLeftNatural == OrderInv => PassLeft \in Nat
<1> SUFFICES ASSUME OrderInv PROVE PassLeft \in Nat
    OBVIOUS
<1>1. /\ at \in 1 .. NTrig /\ trig[at].cur \in 1 .. NLine + 1 /\ NTrig \in Nat /\ NLine \in Nat
      /\ pass \in {"idle", "check", "exec", "lines"}
    BY Fields, TriggerAssumption DEF OrderInv, Trigs, Passes
<1>2. /\ NTrig * (NLine + 2) \in Nat /\ (NTrig - at) * (NLine + 2) \in Nat
      /\ (NTrig + 1 - at) * (NLine + 2) \in Nat
  <2>1. NLine + 2 \in Nat /\ NTrig - at \in Nat /\ NTrig + 1 - at \in Nat
    BY <1>1
  <2>2. \A i, j \in Nat : i * j \in Nat
    OBVIOUS
  <2> QED
    BY <1>1, <2>1, <2>2
<1>3. PICK v \in Nat, w \in Nat :
          v = NTrig * (NLine + 2) /\ w = (NTrig - at) * (NLine + 2)
    BY <1>2
<1>4. CASE pass = "check"
    BY <1>1, <1>3, <1>4 DEF PassLeft
<1>5. CASE pass = "lines"
    BY <1>1, <1>3, <1>5 DEF PassLeft
<1>6. CASE pass \in {"idle", "exec"}
    BY <1>2, <1>6 DEF PassLeft
<1> QED
    BY <1>1, <1>4, <1>5, <1>6

\* For any number of triggers and lines and any expressions: no other thread gets into a
\* pass of run_triggers, and each of its own steps leaves less to do, so that it ends
\* however the lines start, disarm and cancel other triggers.
THEOREM PassesShrink == Spec => [](PassLeft \in Nat) /\ PassShrinks
<1>1. Init => OrderInv
    BY OrderInit
<1>2. OrderInv /\ [Next]_vars => OrderInv'
    BY OrderStep
<1>3. OrderInv /\ [Next]_vars => [pass # "idle" /\ selfCancel' = {} => PassLeft' < PassLeft]_vars
    BY ShrinkStep
<1> QED
    BY <1>1, <1>2, <1>3, PassLeftNatural, PTL DEF Spec, PassShrinks
=============================================================================
