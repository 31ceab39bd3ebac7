--------------------------- MODULE Config_proofs ---------------------------
(***************************************************************************)
(* Proofs about the configuration: when a board follows its settings, when *)
(* it is connected anew, what a saved file is loaded as, and what the      *)
(* limits of an axis and their history keep, for any files, settings and   *)
(* numbers.                                                                *)
(*                                                                         *)
(* The lines of a file are applied by a fold.  What a fold does for every  *)
(* file is proved by induction on the number of lines, from the least      *)
(* element of a set of numbers (UpTo): the induction theorems of the       *)
(* library are about operators, which cannot be instantiated here.         *)
(***************************************************************************)
EXTENDS Config, SequenceTheorems, WellFoundedInduction, TLAPS

\* The board while the program runs: what it was connected to is out of date
\* only while dirty says so, and dirty only while the board is blocked.
BoardInv ==
    page # "off" => /\ dirty => blocked
                    /\ ~dirty => wired = Target(node, dummy)

LEMMA BoardInit == Init => BoardInv
BY DEF Init, BoardInv

\* A file without lines for the board leaves the board's settings alone.
LEMMA UntouchedBoard ==
    ASSUME NEW s, NEW lines, ~Touches(lines)
    PROVE  /\ mcf_read_file(s, lines).node = s.node
           /\ mcf_read_file(s, lines).dummy = s.dummy
<1>1. CASE lines = Missing
    BY <1>1 DEF mcf_read_file
<1>2. CASE lines # Missing
  <2>1. ~Mentions(lines, {"node"}) /\ ~Mentions(lines, {"dummy"})
      BY <1>2 DEF Touches, Mentions
  <2> QED
      BY <1>2, <2>1 DEF mcf_read_file, Given
<1> QED
    BY <1>1, <1>2

LEMMA BoardStep == BoardInv /\ [Next]_vars => BoardInv'
<1> SUFFICES ASSUME BoardInv, [Next]_vars PROVE BoardInv'
    OBVIOUS
<1>1. CASE Start
    BY <1>1 DEF Start, hardware_array_unblock, BoardInv
<1>2. CASE Exit \/ Kill
    BY <1>2 DEF Exit, Kill, BoardInv
<1>3. CASE EnterPanel \/ Allocate \/ LeavePanel \/ SetLimit \/ EditAxis
    BY <1>3 DEF EnterPanel, Allocate, LeavePanel, SetLimit, EditAxis, Op, hardware, BoardInv, Target
<1>4. CASE MenuLoad \/ ClientLoad
  <2>1. PICK lines : /\ page = "setup" /\ page' = page
                     /\ Assign(mcf_read_file(Settings, lines))
                     /\ \/ hardware_array_unblock(Touches(lines))
                        \/ StaysBlocked(Touches(lines))
      BY <1>4 DEF MenuLoad, ClientLoad
  <2>2. ~Touches(lines) => node' = node /\ dummy' = dummy
      BY <2>1, UntouchedBoard DEF Assign, Settings
  <2>3. CASE hardware_array_unblock(Touches(lines))
      BY <2>1, <2>2, <2>3, Zenon DEF hardware_array_unblock, BoardInv
  <2>4. CASE StaysBlocked(Touches(lines))
      BY <2>1, <2>2, <2>4, Zenon DEF StaysBlocked, BoardInv
  <2> QED
      BY <2>1, <2>3, <2>4
<1>5. CASE MenuSave \/ ClientBadMode
  <2>1. page # "off" /\ hardware_array_unblock(FALSE) /\ node' = node /\ dummy' = dummy
      BY <1>5 DEF MenuSave, ClientBadMode, Op
  <2> QED
      BY <2>1, Zenon DEF hardware_array_unblock, BoardInv
<1>6. CASE ClientSave
    BY <1>6 DEF ClientSave, Op, StaysBlocked, BoardInv, Target
<1>7. CASE SetHardware \/ EditHardware
    BY <1>7 DEF SetHardware, EditHardware, Op, hardware_update, BoardInv, Target
<1>8. CASE UNCHANGED vars
    BY <1>8 DEF vars, hardware, BoardInv, Target
<1> QED
    BY <1>1, <1>2, <1>3, <1>4, <1>5, <1>6, <1>7, <1>8 DEF Next

\* For any device files, any contents of the configuration files and any order
\* of loads, saves, edits, commands, kills and restarts: a board which no
\* command of a client left blocked is the one which the settings name
\* (hardware_update, hardware_array_unblock, config_cb, config_csf).
THEOREM BoardIsSet == Spec => []BoardsFollow
<1>1. BoardInv => BoardsFollow
    BY DEF BoardInv, BoardsFollow
<1> QED
    BY <1>1, BoardInit, BoardStep, PTL DEF Spec

\* Under the same conditions, no callback or command connects a board while a
\* panel is showing, unless a client's command left the board blocked with a
\* change of the setup page waiting.
THEOREM ConnectedOnSetup == Spec => ConnectsInSetup
<1>1. BoardInv /\ [Next]_vars => [page = "panel" /\ wired' # wired => blocked /\ dirty]_vars
  <2> SUFFICES ASSUME BoardInv, Next, page = "panel", wired' # wired
               PROVE  blocked /\ dirty
      OBVIOUS
  <2>1. CASE MenuSave \/ ClientBadMode
      BY <2>1 DEF MenuSave, ClientBadMode, hardware_array_unblock, BoardInv
  <2>2. CASE ClientSave
      BY <2>2 DEF ClientSave, StaysBlocked
  <2>3. CASE Exit \/ Kill \/ EnterPanel \/ Allocate \/ LeavePanel \/ SetLimit \/ EditAxis
      BY <2>3 DEF Exit, Kill, EnterPanel, Allocate, LeavePanel, SetLimit, EditAxis, hardware
  <2>4. CASE Start \/ MenuLoad \/ ClientLoad \/ SetHardware \/ EditHardware
      BY <2>4 DEF Start, MenuLoad, ClientLoad, SetHardware, EditHardware
  <2> QED
      BY <2>1, <2>2, <2>3, <2>4 DEF Next
<1> QED
    BY <1>1, BoardInit, BoardStep, PTL DEF Spec, ConnectsInSetup
-----------------------------------------------------------------------------
(* The history of an axis. *)

\* The entries are pairs, no more than the history can hold, and the current
\* one is among them or there is none.
HistoryOK(a) ==
    /\ a = [value |-> a.value, bound |-> a.bound, history |-> a.history, current |-> a.current]
    /\ a.history \in Seq(Int \X Int)
    /\ Len(a.history) <= MaxHistory
    /\ a.current \in 0..Len(a.history)

\* Cutting a sequence to at most MaxHistory - 1 elements by its oldest one
\* leaves the last element where it was.
LEMMA CutKeepsLast ==
    ASSUME NEW S, NEW past \in Seq(S), Len(past) <= MaxHistory,
           NEW kept, kept = IF Len(past) = MaxHistory THEN Tail(past) ELSE past
    PROVE  /\ kept \in Seq(S)
           /\ Len(kept) < MaxHistory
           /\ Len(past) > 0 => Len(kept) > 0 /\ kept[Len(kept)] = past[Len(past)]
<1>1. MaxHistory \in Nat /\ MaxHistory >= 2 /\ Len(past) \in Nat
    BY AxisAssumption, LenProperties
<1>2. CASE Len(past) = MaxHistory
  <2>1. past # <<>>
      BY <1>1, <1>2, EmptySeq
  <2>2. /\ Tail(past) \in Seq(S)
        /\ Len(Tail(past)) = Len(past) - 1
        /\ \A i \in 1..Len(Tail(past)) : Tail(past)[i] = past[i + 1]
      BY <2>1, HeadTailProperties
  <2>3. Len(past) - 1 \in 1..Len(Tail(past))
      BY <1>1, <1>2, <2>2
  <2>4. Tail(past)[Len(past) - 1] = past[(Len(past) - 1) + 1]
      BY <2>2, <2>3, Zenon
  <2>5. (Len(past) - 1) + 1 = Len(past)
      BY <1>1
  <2> QED
      BY <1>1, <1>2, <2>2, <2>4, <2>5
<1>3. CASE Len(past) # MaxHistory
    BY <1>1, <1>3
<1> QED
    BY <1>2, <1>3

\* For every MaxHistory and wherever the current entry is: after
\* history_range_append the limits are the last entry, the history is no
\* longer than it may be, and what was current is one step back, even when
\* the oldest entry had to go.
THEOREM AppendKeepsPrevious ==
    ASSUME NEW a, HistoryOK(a), Value(a) \in Int \X Int
    PROVE  LET b == history_range_append(a)
           IN  /\ HistoryOK(b)
               /\ b.current = Len(b.history)
               /\ b.history[b.current] = Value(a)
               /\ a.current > 0 => /\ b.current > 1
                                   /\ b.history[b.current - 1] = a.history[a.current]
<1> DEFINE past == SubSeq(a.history, 1, a.current)
           kept == IF Len(past) = MaxHistory THEN Tail(past) ELSE past
           all  == Append(kept, Value(a))
           b == history_range_append(a)
<1>1. MaxHistory \in Nat /\ MaxHistory >= 2
    BY AxisAssumption
<1>2. /\ a.history \in Seq(Int \X Int) /\ Len(a.history) \in Nat
      /\ Len(a.history) <= MaxHistory /\ a.current \in 0..Len(a.history)
    BY LenProperties DEF HistoryOK
<1>3. /\ past \in Seq(Int \X Int) /\ Len(past) = a.current
      /\ \A i \in 1..a.current : past[i] = a.history[i]
  <2>1. \A i \in 1..a.current : a.history[i] \in Int \X Int
      BY <1>2, ElementOfSeq
  <2> QED
      BY <1>2, <2>1, SubSeqProperties
<1> HIDE DEF past
<1>4. /\ kept \in Seq(Int \X Int) /\ Len(kept) < MaxHistory
      /\ Len(past) > 0 => Len(kept) > 0 /\ kept[Len(kept)] = past[Len(past)]
  <2>1. past \in Seq(Int \X Int) /\ Len(past) <= MaxHistory
      BY <1>1, <1>2, <1>3
  <2> QED
      BY <2>1, CutKeepsLast
<1>5. /\ b = [value |-> b.value, bound |-> b.bound, history |-> b.history, current |-> b.current]
      /\ b.history = all /\ b.current = Len(kept) + 1
  <2> DEFINE h == Append(kept, Value(a))
             c == Len(kept) + 1
  <2>1. b = [a EXCEPT !.history = h, !.current = c]
      BY DEF history_range_append, past
  <2> HIDE DEF h, c, b
  <2>2. /\ b = [value |-> b.value, bound |-> b.bound, history |-> b.history, current |-> b.current]
        /\ b.history = h /\ b.current = c
      BY <2>1 DEF HistoryOK
  <2> QED
      BY <2>2 DEF h, c
<1> HIDE DEF kept, b
<1>6. /\ all \in Seq(Int \X Int) /\ Len(all) = Len(kept) + 1
      /\ \A i \in 1..Len(kept) : all[i] = kept[i]
      /\ all[Len(kept) + 1] = Value(a)
    BY <1>4, AppendProperties
<1> HIDE DEF all
<1>7. Len(kept) \in Nat
    BY <1>4, LenProperties
<1>8. HistoryOK(b) /\ b.current = Len(b.history) /\ b.history[b.current] = Value(a)
    BY <1>1, <1>4, <1>5, <1>6, <1>7 DEF HistoryOK
<1>9. ASSUME a.current > 0
      PROVE  b.current > 1 /\ b.history[b.current - 1] = a.history[a.current]
  <2>0. a.current \in Nat /\ a.current > 0 /\ Len(past) > 0
      BY <1>2, <1>3, <1>9
  <2>1. Len(kept) \in 1..Len(kept) /\ a.current \in 1..a.current /\ Len(past) > 0
      BY <1>4, <1>7, <2>0
  <2>2. all[Len(kept)] = a.history[a.current]
      BY <1>3, <1>4, <1>6, <2>1
  <2> QED
      BY <1>5, <1>7, <2>1, <2>2
<1> QED
    BY <1>8, <1>9 DEF b
-----------------------------------------------------------------------------
(* Induction, and the fold which applies the lines of a file.              *)

LEMMA LeastNumber ==
    ASSUME NEW T, T \subseteq Nat, T # {}
    PROVE  \E m \in T : \A k \in T : m <= k
<1>1. PICK m \in T : \A k \in T : ~(<<k, m>> \in OpToRel(<, Nat))
    BY NatLessThanWellFounded, WFMin, Zenon
<1>2. ASSUME NEW k \in T
      PROVE  m <= k
  <2>1. ~(<<k, m>> \in OpToRel(<, Nat))
      BY <1>1
  <2>2. <<k, m>> \in Nat \X Nat /\ <<k, m>>[1] = k /\ <<k, m>>[2] = m
      OBVIOUS
  <2>3. ~(k < m)
      BY <2>1, <2>2 DEF OpToRel
  <2> QED
      BY <2>3
<1> QED
    BY <1>2

\* Induction up to a number, of membership in a set.
LEMMA UpTo ==
    ASSUME NEW n \in Nat, NEW T, 0 \in T, \A k \in 0..(n - 1) : k \in T => k + 1 \in T
    PROVE  \A k \in 0..n : k \in T
<1> SUFFICES ASSUME NEW i \in 0..n, i \notin T PROVE FALSE
    OBVIOUS
<1> DEFINE Out == {k \in 0..n : k \notin T}
<1>1. PICK k \in Out : \A j \in Out : k <= j
  <2>1. Out \subseteq Nat /\ Out # {}
      OBVIOUS
  <2> HIDE DEF Out
  <2> QED
      BY <2>1, LeastNumber
<1>2. k # 0 /\ k - 1 \in 0..(n - 1) /\ (k - 1) + 1 = k
    OBVIOUS
<1>3. k - 1 \in T
    BY <1>1, <1>2
<1> QED
    BY <1>2, <1>3

\* The function by which FoldLeft is defined, over the first n lines.
Folds(n, base, lines, g) ==
    g = [s \in SUBSET (1..n) |->
           IF s = {} THEN base ELSE ApplyLimit(g[s \ {Max(s)}], lines[Max(s)])]

LEMMA MaxIs ==
    ASSUME NEW m \in Nat, NEW s, s \subseteq 1..m, m \in s
    PROVE  Max(s) = m
<1>1. \A x \in s : m >= x
    OBVIOUS
<1>2. \A x \in s : (\A y \in s : x >= y) => x = m
    OBVIOUS
<1> QED
    BY <1>1, <1>2 DEF Max

LEMMA FoldsNext ==
    ASSUME NEW base, NEW lines, NEW m \in Nat, NEW g, Folds(m, base, lines, g)
    PROVE  \E h : Folds(m + 1, base, lines, h)
<1> DEFINE h == [s \in SUBSET (1..(m + 1)) |->
                   IF m + 1 \in s THEN ApplyLimit(g[s \ {m + 1}], lines[m + 1]) ELSE g[s]]
           v(s) == IF s = {} THEN base ELSE ApplyLimit(h[s \ {Max(s)}], lines[Max(s)])
<1>1. ASSUME NEW s \in SUBSET (1..m)
      PROVE  h[s] = g[s] /\ g[s] = IF s = {} THEN base ELSE ApplyLimit(g[s \ {Max(s)}], lines[Max(s)])
  <2>1. s \in SUBSET (1..(m + 1)) /\ m + 1 \notin s
      OBVIOUS
  <2> QED
      BY <2>1 DEF Folds
<1>2. ASSUME NEW s \in SUBSET (1..(m + 1))
      PROVE  h[s] = v(s)
  <2>1. CASE m + 1 \in s
    <3>1. Max(s) = m + 1
      <4>1. m + 1 \in Nat /\ s \subseteq 1..(m + 1)
          OBVIOUS
      <4> QED
          BY <2>1, <4>1, MaxIs
    <3>2. s \ {m + 1} \in SUBSET (1..m)
        OBVIOUS
    <3>3. h[s \ {m + 1}] = g[s \ {m + 1}]
        BY <1>1, <3>2
    <3>4. h[s] = ApplyLimit(g[s \ {m + 1}], lines[m + 1])
        BY <2>1
    <3> HIDE DEF h
    <3> QED
        BY <2>1, <3>1, <3>3, <3>4
  <2>2. CASE m + 1 \notin s
    <3>1. s \in SUBSET (1..m)
        BY <2>2
    <3>2. s # {} => s \ {Max(s)} \in SUBSET (1..m)
        BY <3>1
    <3>3. s # {} => h[s \ {Max(s)}] = g[s \ {Max(s)}]
        BY <1>1, <3>2
    <3> HIDE DEF h
    <3> QED
        BY <1>1, <3>1, <3>3
  <2> QED
      BY <2>1, <2>2
<1>3. h = [s \in SUBSET (1..(m + 1)) |-> v(s)]
    BY <1>2, Zenon
<1> QED
    BY <1>3, Zenon DEF Folds

LEMMA FoldsExists ==
    ASSUME NEW base, NEW lines, NEW n \in Nat
    PROVE  \E g : Folds(n, base, lines, g)
<1> DEFINE T == {k \in Nat : \E g : Folds(k, base, lines, g)}
<1>1. 0 \in T
  <2> DEFINE g == [s \in SUBSET (1..0) |-> base]
  <2>1. \A s \in SUBSET (1..0) : s = {}
      OBVIOUS
  <2>2. Folds(0, base, lines, g)
      BY <2>1 DEF Folds
  <2> QED
      BY <2>2
<1>2. \A k \in 0..(n - 1) : k \in T => k + 1 \in T
    BY FoldsNext
<1>3. n \in 0..n
    OBVIOUS
<1> HIDE DEF T
<1>4. n \in T
    BY <1>1, <1>2, <1>3, UpTo
<1> QED
    BY <1>4 DEF T

\* FoldLeft, step by step.
LEMMA FoldSteps ==
    ASSUME NEW base, NEW n \in Nat, NEW lines, DOMAIN lines = 1..n
    PROVE  \E r : /\ r[0] = base
                  /\ \A k \in 1..n : r[k] = ApplyLimit(r[k - 1], lines[k])
                  /\ r[n] = FoldLeft(ApplyLimit, base, lines)
<1> DEFINE g == CHOOSE f : Folds(n, base, lines, f)
           r == [k \in 0..n |-> g[1..k]]
<1>1. Folds(n, base, lines, g)
    BY FoldsExists
<1>2. FoldLeft(ApplyLimit, base, lines) = g[1..n]
    BY DEF FoldLeft, MapThenFoldSet, Folds
<1> HIDE DEF g
<1>3. r[n] = FoldLeft(ApplyLimit, base, lines)
    BY <1>2
<1>4. r[0] = base
  <2>1. 1..0 = {} /\ {} \in SUBSET (1..n) /\ 0 \in 0..n
      OBVIOUS
  <2> QED
      BY <1>1, <2>1 DEF Folds
<1>5. ASSUME NEW k \in 1..n
      PROVE  r[k] = ApplyLimit(r[k - 1], lines[k])
  <2>0. (1..k) \ {k} = 1..(k - 1)
      OBVIOUS
  <2>1. /\ 1..k \in SUBSET (1..n) /\ 1..k # {} /\ k \in 1..k /\ k \in Nat
        /\ k \in 0..n /\ k - 1 \in 0..n
      OBVIOUS
  <2>2. Max(1..k) = k
      BY <2>1, MaxIs
  <2>3. g[1..k] = ApplyLimit(g[1..(k - 1)], lines[k])
      BY <1>1, <2>0, <2>1, <2>2 DEF Folds
  <2> QED
      BY <2>1, <2>3
<1> HIDE DEF r
<1> QED
    BY <1>3, <1>4, <1>5

\* What every line keeps, the lines of a file keep.
LEMMA FoldKeeps ==
    ASSUME NEW S, NEW base \in S, NEW n \in Nat, NEW lines, DOMAIN lines = 1..n,
           \A k \in 1..n : \A a \in S : ApplyLimit(a, lines[k]) \in S
    PROVE  FoldLeft(ApplyLimit, base, lines) \in S
<1>1. PICK r : /\ r[0] = base
               /\ \A k \in 1..n : r[k] = ApplyLimit(r[k - 1], lines[k])
               /\ r[n] = FoldLeft(ApplyLimit, base, lines)
    BY FoldSteps
<1> DEFINE T == {k \in Nat : r[k] \in S}
<1>2. 0 \in T
    BY <1>1
<1>3. ASSUME NEW k \in 0..(n - 1), k \in T
      PROVE  k + 1 \in T
  <2>1. k + 1 \in 1..n /\ (k + 1) - 1 = k /\ k + 1 \in Nat
      OBVIOUS
  <2>2. r[k] \in S
      BY <1>3
  <2>3. r[k + 1] = ApplyLimit(r[k], lines[k + 1])
      BY <1>1, <2>1
  <2>4. r[k + 1] \in S
      BY <2>1, <2>2, <2>3
  <2> QED
      BY <2>1, <2>4
<1>4. n \in 0..n
    OBVIOUS
<1> HIDE DEF T
<1>5. n \in T
    BY <1>2, <1>3, <1>4, UpTo
<1> QED
    BY <1>1, <1>5 DEF T
-----------------------------------------------------------------------------
(* The limits.                                                             *)

Axes == {a \in [value : [Sides -> Int], bound : [Sides -> Int],
                history : Seq(Int \X Int), current : Nat] :
           Len(a.history) <= MaxHistory /\ a.current <= Len(a.history)}

\* The limits are the current entry of the history.
AtCurrent(a) == a.current > 0 /\ a.history[a.current] = Value(a)

LEMMA AxisFields ==
    ASSUME NEW a \in Axes
    PROVE  /\ a.value["lower"] \in Int /\ a.value["upper"] \in Int
           /\ a.bound["lower"] \in Int /\ a.bound["upper"] \in Int
           /\ a.history \in Seq(Int \X Int) /\ Len(a.history) \in Nat /\ a.current \in Nat
           /\ Len(a.history) <= MaxHistory /\ a.current <= Len(a.history)
           /\ DOMAIN a.history = 1..Len(a.history)
           /\ HistoryOK(a) /\ Value(a) \in Int \X Int
<1>1. /\ a.value \in [Sides -> Int] /\ a.bound \in [Sides -> Int]
      /\ a.history \in Seq(Int \X Int) /\ a.current \in Nat
      /\ Len(a.history) <= MaxHistory /\ a.current <= Len(a.history)
      /\ a = [value |-> a.value, bound |-> a.bound, history |-> a.history, current |-> a.current]
    BY DEF Axes
<1>2. Len(a.history) \in Nat /\ DOMAIN a.history = 1..Len(a.history)
    BY <1>1, LenProperties
<1>3. /\ a.value["lower"] \in Int /\ a.value["upper"] \in Int
      /\ a.bound["lower"] \in Int /\ a.bound["upper"] \in Int
    BY <1>1 DEF Sides
<1>4. HistoryOK(a)
    BY <1>1, <1>2 DEF HistoryOK
<1> QED
    BY <1>1, <1>2, <1>3, <1>4 DEF Value

\* Only the limits and the bounds change.
OnlyLimits(a, b) == b.history = a.history /\ b.current = a.current

LEMMA SetRange ==
    ASSUME NEW a \in Axes, NEW side \in Sides, NEW v \in Int
    PROVE  LET b == set_range(a, side, v)
           IN  /\ b \in Axes /\ OnlyLimits(a, b)
               /\ b.value[side] = v /\ b.value[Other(side)] = a.value[Other(side)]
<1> DEFINE val == [a.value EXCEPT ![side] = v]
           bnd == [a.bound EXCEPT ![Other(side)] = v]
<1>1. /\ a.value \in [Sides -> Int] /\ a.bound \in [Sides -> Int]
      /\ a.history \in Seq(Int \X Int) /\ a.current \in Nat
      /\ a = [value |-> a.value, bound |-> a.bound, history |-> a.history, current |-> a.current]
    BY DEF Axes
<1>2. Other(side) \in Sides /\ Other(side) # side
    BY DEF Other, Sides
<1>3. val \in [Sides -> Int] /\ bnd \in [Sides -> Int]
      /\ val[side] = v /\ val[Other(side)] = a.value[Other(side)]
    BY <1>1, <1>2
<1> HIDE DEF val, bnd
<1>4. set_range(a, side, v) = [a EXCEPT !.value = val, !.bound = bnd]
    BY DEF set_range, val, bnd
<1>5. set_range(a, side, v) = [value |-> val, bound |-> bnd, history |-> a.history, current |-> a.current]
    BY <1>1, <1>4
<1>6. Len(a.history) <= MaxHistory /\ a.current <= Len(a.history)
    BY DEF Axes
<1> QED
    BY <1>1, <1>3, <1>5, <1>6 DEF Axes, OnlyLimits

LEMMA SetBoth ==
    ASSUME NEW a \in Axes, NEW l \in Int, NEW u \in Int
    PROVE  LET b == set_both(a, l, u)
           IN  b \in Axes /\ OnlyLimits(a, b) /\ Value(b) = <<l, u>>
<1> DEFINE c == set_range(a, "lower", l)
           b == set_range(c, "upper", u)
<1>1. "lower" \in Sides /\ "upper" \in Sides /\ Other("lower") = "upper" /\ Other("upper") = "lower"
    BY DEF Sides, Other
<1>2. c \in Axes /\ OnlyLimits(a, c) /\ c.value["lower"] = l
    BY <1>1, SetRange
<1> HIDE DEF c
<1>3. b \in Axes /\ OnlyLimits(c, b) /\ b.value["upper"] = u /\ b.value["lower"] = c.value["lower"]
    BY <1>1, <1>2, SetRange
<1>4. set_both(a, l, u) = b
    BY DEF set_both, c
<1> HIDE DEF b
<1> QED
    BY <1>2, <1>3, <1>4 DEF OnlyLimits, Value

\* A configuration variable leaves the limits in order, whatever they were.
LEMMA Minmax ==
    ASSUME NEW a \in Axes, NEW side \in Sides, NEW v \in Int
    PROVE  LET b == plot_minmax_mcf(a, side, v)
           IN  /\ b \in Axes /\ OnlyLimits(a, b) /\ Ordered(Value(b))
               /\ side = "lower" /\ v <= a.value["upper"] => Value(b) = <<v, a.value["upper"]>>
               /\ side = "upper" /\ a.value["lower"] <= v => Value(b) = <<a.value["lower"], v>>
<1> DEFINE val == [a.value EXCEPT ![side] = v]
           c == [a EXCEPT !.value = val]
<1>1. /\ a.value \in [Sides -> Int] /\ a.bound \in [Sides -> Int]
      /\ a.history \in Seq(Int \X Int) /\ a.current \in Nat
      /\ Len(a.history) <= MaxHistory /\ a.current <= Len(a.history)
      /\ a = [value |-> a.value, bound |-> a.bound, history |-> a.history, current |-> a.current]
    BY DEF Axes
<1>2. /\ val \in [Sides -> Int]
      /\ side = "lower" => val["lower"] = v /\ val["upper"] = a.value["upper"]
      /\ side = "upper" => val["upper"] = v /\ val["lower"] = a.value["lower"]
    BY <1>1 DEF Sides
<1>3. plot_minmax_mcf(a, side, v) = rectify_range(c)
    BY DEF plot_minmax_mcf
<1> HIDE DEF val
<1>4. c = [value |-> val, bound |-> a.bound, history |-> a.history, current |-> a.current]
  <2>1. PICK r : r = c
      OBVIOUS
  <2>2. r = [a EXCEPT !.value = val]
      BY <2>1
  <2> HIDE DEF c
  <2>3. a = [value |-> a.value, bound |-> a.bound, history |-> a.history, current |-> a.current]
      BY <1>1
  <2>4. r = [value |-> val, bound |-> a.bound, history |-> a.history, current |-> a.current]
      BY <2>2, <2>3
  <2> QED
      BY <2>1, <2>4
<1> HIDE DEF c
<1>5. c \in Axes /\ OnlyLimits(a, c) /\ c.value = val
    BY <1>1, <1>2, <1>4 DEF Axes, OnlyLimits
<1>6. val["lower"] \in Int /\ val["upper"] \in Int
    BY <1>2 DEF Sides
<1>7. CASE val["lower"] > val["upper"]
  <2> DEFINE b == set_both(c, val["upper"], val["lower"])
  <2>1. b \in Axes /\ OnlyLimits(c, b) /\ Value(b) = <<val["upper"], val["lower"]>>
      BY <1>5, <1>6, SetBoth
  <2>2. plot_minmax_mcf(a, side, v) = b
      BY <1>3, <1>5, <1>7 DEF rectify_range
  <2> HIDE DEF b
  <2> QED
      BY <1>2, <1>5, <1>6, <1>7, <2>1, <2>2 DEF OnlyLimits, Ordered
<1>8. CASE ~(val["lower"] > val["upper"])
  <2>1. plot_minmax_mcf(a, side, v) = c
      BY <1>3, <1>5, <1>8 DEF rectify_range
  <2> QED
      BY <1>2, <1>5, <1>6, <1>8, <2>1 DEF Ordered, Value
<1> QED
    BY <1>7, <1>8

LEMMA AppendAxis ==
    ASSUME NEW a \in Axes
    PROVE  LET b == history_range_append(a)
           IN  /\ b \in Axes /\ Value(b) = Value(a) /\ AtCurrent(b)
               /\ a.current > 0 =>
                    b.current - 1 \in DOMAIN b.history /\ b.history[b.current - 1] = a.history[a.current]
<1> DEFINE b == history_range_append(a)
           past == SubSeq(a.history, 1, a.current)
           kept == IF Len(past) = MaxHistory THEN Tail(past) ELSE past
           h == Append(kept, Value(a))
           c == Len(kept) + 1
<1>1. /\ HistoryOK(b) /\ b.current = Len(b.history) /\ b.history[b.current] = Value(a)
      /\ a.current > 0 => b.current > 1 /\ b.history[b.current - 1] = a.history[a.current]
    BY AxisFields, AppendKeepsPrevious
<1>2. b = [a EXCEPT !.history = h, !.current = c]
    BY DEF history_range_append
<1> HIDE DEF b, h, c
<1>3. a = [value |-> a.value, bound |-> a.bound, history |-> a.history, current |-> a.current]
    BY DEF Axes
<1>4. b.value = a.value /\ b.bound = a.bound
    BY <1>2, <1>3
<1>5. a.value \in [Sides -> Int] /\ a.bound \in [Sides -> Int]
    BY DEF Axes
<1>6. /\ b.history \in Seq(Int \X Int) /\ Len(b.history) <= MaxHistory
      /\ b = [value |-> b.value, bound |-> b.bound, history |-> b.history, current |-> b.current]
    BY <1>1 DEF HistoryOK
<1>7. Len(b.history) \in Nat /\ DOMAIN b.history = 1..Len(b.history)
    BY <1>6, LenProperties
<1>8. b \in Axes
    BY <1>1, <1>4, <1>5, <1>6, <1>7 DEF Axes
<1>9. Value(b) = Value(a)
    BY <1>4 DEF Value
<1>10. b.current > 0
  <2>1. past \in Seq(Int \X Int) /\ Len(past) = a.current
    <3>1. \A i \in 1..a.current : a.history[i] \in Int \X Int
        BY AxisFields, ElementOfSeq
    <3> QED
        BY <3>1, AxisFields, SubSeqProperties
  <2>2. Len(past) <= MaxHistory
      BY <2>1, AxisFields, AxisAssumption
  <2> HIDE DEF past
  <2>3. kept \in Seq(Int \X Int)
      BY <2>1, <2>2, CutKeepsLast
  <2>4. Len(kept) \in Nat
      BY <2>3, LenProperties
  <2>5. b.current = c
      BY <1>2, <1>3
  <2> HIDE DEF kept
  <2> QED
      BY <2>4, <2>5 DEF c
<1> QED
    BY <1>1, <1>7, <1>8, <1>9, <1>10 DEF AtCurrent, b
-----------------------------------------------------------------------------
(* What a file makes of the limits.                                        *)

\* The lines of a file, of which the limits are numbers.
Readable(lines) ==
    \/ lines = Missing
    \/ \E n \in Nat : /\ DOMAIN lines = 1..n
                      /\ \A k \in 1..n : lines[k][1] \in {"min", "max"} => lines[k][2] \in Int

OrderedAxes == {a \in Axes : Ordered(Value(a))}

LEMMA ApplyKeeps ==
    ASSUME NEW a \in Axes, NEW line, line[1] \in {"min", "max"} => line[2] \in Int
    PROVE  /\ ApplyLimit(a, line) \in Axes
           /\ a \in OrderedAxes => ApplyLimit(a, line) \in OrderedAxes
           /\ line[1] \notin {"min", "max"} => ApplyLimit(a, line) = a
<1>1. CASE line[1] = "min"
  <2>1. line[2] \in Int /\ "lower" \in Sides
      BY <1>1 DEF Sides
  <2>2. ApplyLimit(a, line) = plot_minmax_mcf(a, "lower", line[2])
      BY <1>1 DEF ApplyLimit
  <2> QED
      BY <1>1, <2>1, <2>2, Minmax DEF OrderedAxes
<1>2. CASE line[1] = "max"
  <2>1. line[2] \in Int /\ "upper" \in Sides
      BY <1>2 DEF Sides
  <2>2. ApplyLimit(a, line) = plot_minmax_mcf(a, "upper", line[2])
      BY <1>2 DEF ApplyLimit
  <2> QED
      BY <1>2, <2>1, <2>2, Minmax DEF OrderedAxes
<1>3. CASE line[1] \notin {"min", "max"}
    BY <1>3 DEF ApplyLimit
<1> QED
    BY <1>1, <1>2, <1>3

\* For every file: the limits stay numbers, and limits in order stay so.
LEMMA ReadKeeps ==
    ASSUME NEW s, s.axis \in Axes, NEW lines, Readable(lines)
    PROVE  LET t == mcf_read_file(s, lines)
           IN  /\ t.axis \in Axes
               /\ s.axis \in OrderedAxes => t.axis \in OrderedAxes
<1>1. CASE lines = Missing
    BY <1>1 DEF mcf_read_file
<1>2. CASE lines # Missing
  <2> DEFINE ax == FoldLeft(ApplyLimit, s.axis, lines)
  <2>1. PICK n \in Nat : /\ DOMAIN lines = 1..n
                         /\ \A k \in 1..n : lines[k][1] \in {"min", "max"} => lines[k][2] \in Int
      BY <1>2 DEF Readable
  <2>2. mcf_read_file(s, lines).axis = ax
      BY <1>2 DEF mcf_read_file
  <2>3. ax \in Axes
    <3>1. \A k \in 1..n : \A a \in Axes : ApplyLimit(a, lines[k]) \in Axes
        BY <2>1, ApplyKeeps
    <3> QED
        BY <2>1, <3>1, FoldKeeps
  <2>4. ASSUME s.axis \in OrderedAxes
        PROVE  ax \in OrderedAxes
    <3>1. \A k \in 1..n : \A a \in OrderedAxes : ApplyLimit(a, lines[k]) \in OrderedAxes
        BY <2>1, ApplyKeeps DEF OrderedAxes
    <3> QED
        BY <2>1, <2>4, <3>1, FoldKeeps
  <2> HIDE DEF ax
  <2> QED
      BY <2>2, <2>3, <2>4
<1> QED
    BY <1>1, <1>2

\* A file which does not mention the limits leaves the axis alone.
LEMMA ReadUntouched ==
    ASSUME NEW s, s.axis \in Axes, NEW lines, Readable(lines), ~mcf_read_file(s, lines).activity
    PROVE  mcf_read_file(s, lines).axis = s.axis
<1>1. CASE lines = Missing
    BY <1>1 DEF mcf_read_file
<1>2. CASE lines # Missing
  <2> DEFINE ax == FoldLeft(ApplyLimit, s.axis, lines)
  <2>1. PICK n \in Nat : /\ DOMAIN lines = 1..n
                         /\ \A k \in 1..n : lines[k][1] \in {"min", "max"} => lines[k][2] \in Int
      BY <1>2 DEF Readable
  <2>2. mcf_read_file(s, lines).axis = ax /\ ~Mentions(lines, {"min", "max"})
      BY <1>2 DEF mcf_read_file
  <2>3. \A k \in 1..n : \A a \in {s.axis} : ApplyLimit(a, lines[k]) \in {s.axis}
      BY <2>1, <2>2, ApplyKeeps DEF Mentions
  <2>4. ax \in {s.axis}
      BY <2>1, <2>3, FoldKeeps
  <2> HIDE DEF ax
  <2> QED
      BY <2>2, <2>4
<1> QED
    BY <1>1, <1>2

\* The first k of the four lines which a save writes.
Lines(v, k) ==
    /\ DOMAIN v = 1..k
    /\ k > 0 => v[1][1] = "dummy"
    /\ k > 1 => v[2][1] = "node"
    /\ k > 2 => v[3][1] = "min" /\ v[3][2] \in Int
    /\ k > 3 => v[4][1] = "max" /\ v[4][2] \in Int

\* The lines w of a file begin with the lines v, to six decimals.
Agree(w, v) ==
    \E m \in 0..4, k \in 0..4 :
       /\ k <= m /\ Lines(w, m) /\ Lines(v, k)
       /\ k > 0 => w[1][2] = v[1][2]
       /\ k > 1 => w[2][2] = v[2][2]
       /\ k > 2 => w[3][2] = Printed(v[3][2])
       /\ k > 3 => w[4][2] = Printed(v[4][2])

LEMMA PrintedOrder ==
    ASSUME NEW l \in Int, NEW u \in Int
    PROVE  Printed(l) \in Int /\ (l <= u => Printed(l) <= Printed(u))
BY DEF Printed

\* The lines of the settings, as they are and as they are printed.
LEMMA FourLines ==
    ASSUME NEW s, s.axis \in Axes, NEW k \in 0..4
    PROVE  LET w == SubSeq(mcf_write_file(s), 1, k)
               v == SubSeq(Exact(s), 1, k)
           IN  /\ Lines(w, k) /\ Lines(v, k)
               /\ \A i \in 1..k : w[i] = mcf_write_file(s)[i] /\ v[i] = Exact(s)[i]
               /\ w \in Seq({mcf_write_file(s)[i] : i \in 1..4})
<1> DEFINE a == mcf_write_file(s)
           e == Exact(s)
           S == {a[i] : i \in 1..4}
           T == {e[i] : i \in 1..4}
           w == SubSeq(a, 1, k)
           v == SubSeq(e, 1, k)
<1>1. /\ a[1][1] = "dummy" /\ a[2][1] = "node" /\ a[3][1] = "min" /\ a[4][1] = "max"
      /\ e[1][1] = "dummy" /\ e[2][1] = "node" /\ e[3][1] = "min" /\ e[4][1] = "max"
    BY DEF mcf_write_file, Exact
<1>2. a[3][2] \in Int /\ a[4][2] \in Int /\ e[3][2] \in Int /\ e[4][2] \in Int
  <2>1. s.axis.value["lower"] \in Int /\ s.axis.value["upper"] \in Int
      BY AxisFields
  <2>2. Printed(s.axis.value["lower"]) \in Int /\ Printed(s.axis.value["upper"]) \in Int
      BY <2>1, PrintedOrder
  <2> QED
      BY <2>1, <2>2 DEF mcf_write_file, Exact
<1> HIDE DEF a, e
<1>3. w \in Seq(S) /\ Len(w) = k /\ \A i \in 1..k : w[i] = a[i]
  <2>1. \A i \in 1..k : a[i] \in S
      OBVIOUS
  <2>2. 1 \in Int /\ k \in Int
      OBVIOUS
  <2> HIDE DEF S
  <2> QED
      BY <2>1, <2>2, SubSeqProperties
<1>4. v \in Seq(T) /\ Len(v) = k /\ \A i \in 1..k : v[i] = e[i]
  <2>1. \A i \in 1..k : e[i] \in T
      OBVIOUS
  <2>2. 1 \in Int /\ k \in Int
      OBVIOUS
  <2> HIDE DEF T
  <2> QED
      BY <2>1, <2>2, SubSeqProperties
<1> HIDE DEF w, v
<1>5. DOMAIN w = 1..k /\ DOMAIN v = 1..k
  <2> HIDE DEF S, T
  <2> QED
      BY <1>3, <1>4, LenProperties
<1>6. Lines(w, k) /\ Lines(v, k)
    BY <1>1, <1>2, <1>3, <1>4, <1>5 DEF Lines
<1> QED
    BY <1>3, <1>4, <1>6 DEF w, v, a, e

\* Line by line, what is printed is what is saved.
LEMMA PrintedLines ==
    ASSUME NEW s
    PROVE  LET w == mcf_write_file(s)
               v == Exact(s)
           IN  /\ w[1][2] = v[1][2] /\ w[2][2] = v[2][2]
               /\ w[3][2] = Printed(v[3][2]) /\ w[4][2] = Printed(v[4][2])
BY DEF mcf_write_file, Exact

LEMMA WholeAgrees ==
    ASSUME NEW s, s.axis \in Axes
    PROVE  Agree(mcf_write_file(s), Exact(s))
<1> DEFINE w == mcf_write_file(s)
           v == Exact(s)
<1>1. s.axis.value["lower"] \in Int /\ s.axis.value["upper"] \in Int
    BY AxisFields
<1>2. Printed(s.axis.value["lower"]) \in Int /\ Printed(s.axis.value["upper"]) \in Int
    BY <1>1, PrintedOrder
<1>3. Lines(w, 4) /\ Lines(v, 4)
    BY <1>1, <1>2 DEF mcf_write_file, Exact, Lines
<1> HIDE DEF w, v
<1>4. /\ w[1][2] = v[1][2] /\ w[2][2] = v[2][2]
      /\ w[3][2] = Printed(v[3][2]) /\ w[4][2] = Printed(v[4][2])
    BY PrintedLines DEF w, v
<1>5. 4 \in 0..4 /\ 4 <= 4
    OBVIOUS
<1>6. Agree(w, v)
    BY <1>3, <1>4, <1>5, Zenon DEF Agree
<1> QED
    BY <1>6 DEF w, v

\* However much of a file was written, also a part of a line: what was
\* written whole is there.
LEMMA PartAgrees ==
    ASSUME NEW s, s.axis \in Axes, NEW k \in 0..4, NEW rest \in Rest(mcf_write_file(s), k)
    PROVE  Agree(SubSeq(mcf_write_file(s), 1, k) \o rest, SubSeq(Exact(s), 1, k))
<1> DEFINE a == mcf_write_file(s)
           p == SubSeq(a, 1, k)
           v == SubSeq(Exact(s), 1, k)
           w == p \o rest
<1>1. /\ Lines(p, k) /\ Lines(v, k)
      /\ k > 0 => p[1][2] = v[1][2]
      /\ k > 1 => p[2][2] = v[2][2]
      /\ k > 2 => p[3][2] = Printed(v[3][2])
      /\ k > 3 => p[4][2] = Printed(v[4][2])
  <2>1. /\ Lines(p, k) /\ Lines(v, k)
        /\ \A i \in 1..k : p[i] = a[i] /\ v[i] = Exact(s)[i]
      BY FourLines
  <2> DEFINE e == Exact(s)
  <2>2. /\ a[1][2] = e[1][2] /\ a[2][2] = e[2][2]
        /\ a[3][2] = Printed(e[3][2]) /\ a[4][2] = Printed(e[4][2])
      BY PrintedLines
  <2> HIDE DEF a, p, v, e
  <2>3. \A i \in 1..k : p[i] = a[i] /\ v[i] = e[i]
      BY <2>1 DEF e
  <2> QED
      BY <2>1, <2>2, <2>3
<1>2. p \in Seq({a[i] : i \in 1..4})
    BY FourLines
<1> DEFINE S == {a[i] : i \in 1..4}
<1> HIDE DEF p, v
<1>3. CASE rest = <<>>
  <2> HIDE DEF S
  <2>1. p \in Seq(S)
      BY <1>2 DEF S
  <2>2. w = p
      BY <1>3, <2>1, ConcatEmptySeq
  <2> HIDE DEF w
  <2>3. k \in 0..4 /\ k <= k
      OBVIOUS
  <2>4. Agree(w, v)
      BY <1>1, <2>2, <2>3 DEF Agree
  <2> QED
      BY <2>4 DEF w, v, p
<1>4. CASE rest # <<>>
  <2>1. /\ Len(a) = 4 /\ a[1][1] = "dummy" /\ a[2][1] = "node" /\ a[3][1] = "min" /\ a[4][1] = "max"
      BY DEF mcf_write_file
  <2> HIDE DEF a
  <2>2. k < 4 /\ \E y \in Shorter(a[k + 1]) : rest = <<<<a[k + 1][1], y>>>>
      BY <1>4, <2>1 DEF Rest, a
  <2>3. PICK y \in Shorter(a[k + 1]) : rest = <<<<a[k + 1][1], y>>>>
      BY <2>2
  <2>4. a[k + 1][1] \in {"min", "max"} => y \in Int
      BY <2>3, ConfigAssumption DEF Shorter
  <2>5. PICK x : x = <<a[k + 1][1], y>>
      OBVIOUS
  <2>6. x[1] = a[k + 1][1] /\ x[2] = y /\ rest = <<x>>
      BY <2>3, <2>5
  <2> DEFINE U == S \cup {x}
  <2>7. p \in Seq(U) /\ rest \in Seq(U) /\ Len(rest) = 1 /\ rest[1] = x
    <3>1. p \in Seq(S)
        BY <1>2 DEF S
    <3> HIDE DEF S
    <3> QED
        BY <2>6, <3>1
  <2> HIDE DEF U, S
  <2>8. /\ Len(p) = k /\ k \in Nat
        /\ w \in Seq(U) /\ Len(w) = Len(p) + 1
        /\ \A i \in 1..(Len(p) + 1) : w[i] = IF i <= Len(p) THEN p[i] ELSE rest[i - Len(p)]
    <3>1. Len(p) = k
      <4>1. DOMAIN p = 1..k /\ DOMAIN p = 1..Len(p) /\ Len(p) \in Nat
          BY <1>1, <2>7, LenProperties DEF Lines
      <4>2. PICK n : n = Len(p)
          OBVIOUS
      <4>3. n \in Nat /\ 1..n = 1..k
          BY <4>1, <4>2
      <4>4. n = k
        <5>1. n \in 1..n \/ n = 0
            BY <4>3
        <5>2. k \in 1..k \/ k = 0
            OBVIOUS
        <5> QED
            BY <4>3, <5>1, <5>2
      <4> QED
          BY <4>2, <4>4
    <3> QED
        BY <2>7, <3>1, ConcatProperties
  <2> HIDE DEF w
  <2>9. /\ DOMAIN w = 1..(k + 1) /\ \A i \in 1..k : w[i] = p[i]
        /\ w[k + 1] = x
    <3>1. DOMAIN w = 1..(k + 1)
        BY <2>8, LenProperties
    <3>2. \A i \in 1..k : w[i] = p[i]
        BY <2>8
    <3>3. w[k + 1] = rest[(k + 1) - k] /\ (k + 1) - k = 1
        BY <2>8
    <3> QED
        BY <2>7, <3>1, <3>2, <3>3
  <2>10. Lines(w, k + 1)
    <3>1. CASE k = 0
        BY <1>1, <2>1, <2>2, <2>4, <2>6, <2>9, <3>1 DEF Lines
    <3>2. CASE k = 1
        BY <1>1, <2>1, <2>2, <2>4, <2>6, <2>9, <3>2 DEF Lines
    <3>3. CASE k = 2
        BY <1>1, <2>1, <2>2, <2>4, <2>6, <2>9, <3>3 DEF Lines
    <3>4. CASE k = 3
        BY <1>1, <2>1, <2>2, <2>4, <2>6, <2>9, <3>4 DEF Lines
    <3> QED
        BY <2>2, <3>1, <3>2, <3>3, <3>4
  <2>11. /\ k > 0 => w[1][2] = v[1][2]
         /\ k > 1 => w[2][2] = v[2][2]
         /\ k > 2 => w[3][2] = Printed(v[3][2])
         /\ k > 3 => w[4][2] = Printed(v[4][2])
      BY <1>1, <2>9
  <2>12. k + 1 \in 0..4 /\ k <= k + 1
      BY <2>2
  <2>13. Agree(w, v)
      BY <1>1, <2>10, <2>11, <2>12 DEF Agree
  <2> QED
      BY <2>13 DEF w, v, p, a
<1> QED
    BY <1>3, <1>4

LEMMA SavedReadable ==
    ASSUME NEW w, NEW v, Agree(w, v)
    PROVE  Readable(w)
<1>1. PICK m \in 0..4 : Lines(w, m)
    BY DEF Agree
<1>2. m \in Nat /\ \A i \in 1..m : w[i][1] \in {"min", "max"} => w[i][2] \in Int
    BY <1>1 DEF Lines
<1> QED
    BY <1>1, <1>2 DEF Readable, Lines

LEMMA OthersReadable == Readable(SysDefault) /\ Readable(Defaults) /\ Defaults # Missing
<1>1. Readable(SysDefault)
  <2> DEFINE L == ({"dummy"} \X BOOLEAN) \cup ({"node"} \X Nodes) \cup ({"min", "max"} \X Int)
  <2>1. SysDefault \in Seq(L)
      BY ConfigAssumption
  <2>2. \A x \in L : x[1] \in {"min", "max"} => x[2] \in Int
      OBVIOUS
  <2> HIDE DEF L
  <2>3. Len(SysDefault) \in Nat /\ DOMAIN SysDefault = 1..Len(SysDefault)
      BY <2>1, LenProperties
  <2>4. \A k \in 1..Len(SysDefault) : SysDefault[k] \in L
      BY <2>1, ElementOfSeq
  <2> QED
      BY <2>2, <2>3, <2>4 DEF Readable
<1>2. Readable(Defaults)
  <2>1. /\ DOMAIN Defaults = 1..4
        /\ \A k \in 1..4 : Defaults[k][1] \in {"min", "max"} => Defaults[k][2] \in Int
      BY DEF Defaults, Unit
  <2> QED
      BY <2>1 DEF Readable
<1>3. Defaults # Missing
  <2> DEFINE L == ({"dummy"} \X BOOLEAN) \cup ({"node"} \X Nodes) \cup ({"min", "max"} \X Int)
  <2>1. Missing \notin Seq(L)
      BY ConfigAssumption
  <2>2. (CHOOSE n \in Nodes : TRUE) \in Nodes
      BY ConfigAssumption
  <2> DEFINE first == CHOOSE n \in Nodes : TRUE
  <2> HIDE DEF first
  <2>3. <<"dummy", FALSE>> \in L /\ <<"node", first>> \in L
    <3>1. first \in Nodes
        BY <2>2 DEF first
    <3>2. <<"dummy", FALSE>> \in {"dummy"} \X BOOLEAN
        OBVIOUS
    <3>3. <<"node", first>> \in {"node"} \X Nodes
        BY <3>1
    <3> QED
        BY <3>2, <3>3, Zenon
  <2>4. <<"min", -Unit>> \in L /\ <<"max", Unit>> \in L
    <3>1. <<"min", -Unit>> \in {"min", "max"} \X Int
        BY DEF Unit
    <3>2. <<"max", Unit>> \in {"min", "max"} \X Int
        BY DEF Unit
    <3> QED
        BY <3>1, <3>2, Zenon
  <2> HIDE DEF L
  <2>5. Defaults \in Seq(L)
      BY <2>3, <2>4 DEF Defaults, first
  <2> QED
      BY <2>1, <2>5
<1> QED
    BY <1>1, <1>2, <1>3

\* A saved file is read back: every variable it has, the limits if the lower
\* one fits under the upper one of before.
LEMMA SavedIsRead ==
    ASSUME NEW s, s.axis \in Axes, NEW w, w # Missing, NEW m \in 0..4, Lines(w, m)
    PROVE  LET t == mcf_read_file(s, w)
           IN  /\ m > 0 => t.dummy = w[1][2]
               /\ m > 1 => t.node = w[2][2]
               /\ m > 3 /\ w[3][2] <= s.axis.value["upper"] /\ w[3][2] <= w[4][2]
                    => Value(t.axis) = <<w[3][2], w[4][2]>>
<1> DEFINE t == mcf_read_file(s, w)
<1>0. /\ t.dummy = Given(w, "dummy", s.dummy) /\ t.node = Given(w, "node", s.node)
      /\ t.axis = FoldLeft(ApplyLimit, s.axis, w)
    BY DEF mcf_read_file
<1>1. Max({1}) = 1 /\ Max({2}) = 2
    BY DEF Max
<1> HIDE DEF t
<1>2. m > 0 => t.dummy = w[1][2]
  <2> SUFFICES ASSUME m > 0 PROVE t.dummy = w[1][2]
      OBVIOUS
  <2>1. {i \in DOMAIN w : w[i][1] = "dummy"} = {1}
      BY DEF Lines
  <2>2. Mentions(w, {"dummy"})
      BY DEF Mentions, Lines
  <2> QED
      BY <1>0, <1>1, <2>1, <2>2 DEF Given
<1>3. m > 1 => t.node = w[2][2]
  <2> SUFFICES ASSUME m > 1 PROVE t.node = w[2][2]
      OBVIOUS
  <2>1. {i \in DOMAIN w : w[i][1] = "node"} = {2}
      BY DEF Lines
  <2>2. Mentions(w, {"node"})
      BY DEF Mentions, Lines
  <2> QED
      BY <1>0, <1>1, <2>1, <2>2 DEF Given
<1>4. ASSUME m > 3, w[3][2] <= s.axis.value["upper"], w[3][2] <= w[4][2]
      PROVE  Value(t.axis) = <<w[3][2], w[4][2]>>
  <2> DEFINE l == w[3][2]
             u == w[4][2]
  <2>1. /\ DOMAIN w = 1..4 /\ w[1][1] = "dummy" /\ w[2][1] = "node" /\ w[3][1] = "min"
        /\ w[4][1] = "max" /\ l \in Int /\ u \in Int
      BY <1>4 DEF Lines
  <2>2. PICK r : /\ r[0] = s.axis
                 /\ \A k \in 1..4 : r[k] = ApplyLimit(r[k - 1], w[k])
                 /\ r[4] = FoldLeft(ApplyLimit, s.axis, w)
    <3>1. 4 \in Nat /\ DOMAIN w = 1..4
        BY <2>1
    <3>2. PICK base : base = s.axis
        OBVIOUS
    <3>3. \E r : /\ r[0] = base
                 /\ \A k \in 1..4 : r[k] = ApplyLimit(r[k - 1], w[k])
                 /\ r[4] = FoldLeft(ApplyLimit, base, w)
        BY <3>1, FoldSteps, Zenon
    <3> QED
        BY <3>2, <3>3, Zenon
  <2>3. /\ r[1] = ApplyLimit(r[0], w[1]) /\ r[2] = ApplyLimit(r[1], w[2])
        /\ r[3] = ApplyLimit(r[2], w[3]) /\ r[4] = ApplyLimit(r[3], w[4])
    <3>1. /\ 1 \in 1..4 /\ 2 \in 1..4 /\ 3 \in 1..4 /\ 4 \in 1..4
          /\ 1 - 1 = 0 /\ 2 - 1 = 1 /\ 3 - 1 = 2 /\ 4 - 1 = 3
        OBVIOUS
    <3> QED
        BY <2>2, <3>1
  <2>4. r[1] = s.axis /\ r[2] = s.axis
    <3>1. r[1] = s.axis
        BY <2>1, <2>2, <2>3, ApplyKeeps
    <3> QED
        BY <2>1, <2>3, <3>1, ApplyKeeps
  <2>5. r[3] = plot_minmax_mcf(s.axis, "lower", l) /\ r[4] = plot_minmax_mcf(r[3], "upper", u)
      BY <2>1, <2>3, <2>4 DEF ApplyLimit
  <2>6. "lower" \in Sides /\ "upper" \in Sides
      BY DEF Sides
  <2>7. r[3] \in Axes /\ Value(r[3]) = <<l, s.axis.value["upper"]>>
      BY <1>4, <2>1, <2>5, <2>6, Minmax
  <2>8. r[3].value["lower"] = l
      BY <2>7 DEF Value
  <2>9. Value(r[4]) = <<l, u>>
      BY <1>4, <2>1, <2>5, <2>6, <2>7, <2>8, Minmax
  <2> QED
      BY <1>0, <2>2, <2>9
<1> QED
    BY <1>2, <1>3, <1>4 DEF t
-----------------------------------------------------------------------------
(* The program.                                                            *)

\* The files are what the program writes.
DiskInv ==
    /\ files = [f \in Files |-> files[f]]
    /\ saved = [f \in Files |-> saved[f]]
    /\ \A f \in Files : files[f] = Missing \/ Agree(files[f], saved[f])

\* The limits are numbers; unless limits have been loaded or set on the setup
\* page, the limits are the current entry of the history.
LimitsInv ==
    /\ axis \in Axes
    /\ DiskInv
    /\ page # "off" /\ ~activity => AtCurrent(axis)

LEMMA AxisInit == axis_init \in Axes /\ axis_init \in OrderedAxes
<1>1. <<>> \in Seq(Int \X Int) /\ Len(<<>>) = 0
    OBVIOUS
<1>2. [s \in Sides |-> -Unit] \in [Sides -> Int] /\ -Unit <= -Unit
    BY DEF Unit
<1>3. axis_init \in Axes
    BY <1>1, <1>2, AxisAssumption DEF Axes, axis_init
<1>4. Value(axis_init) = <<-Unit, -Unit>>
    BY DEF Value, axis_init, Sides
<1> QED
    BY <1>2, <1>3, <1>4 DEF OrderedAxes, Ordered

LEMMA LimitsInit == Init => LimitsInv
BY AxisInit DEF Init, LimitsInv, DiskInv

\* Every file which can be read is made of lines.
LEMMA FilesReadable ==
    ASSUME LimitsInv, NEW lines \in {files[f] : f \in Files} \cup {SysDefault, Defaults}
    PROVE  Readable(lines)
<1>1. Readable(Missing)
    BY DEF Readable
<1> QED
    BY <1>1, SavedReadable, OthersReadable DEF LimitsInv, DiskInv

\* The program comes up with limits in order, which the session has to enter
\* in the history.
LEMMA Starts ==
    ASSUME LimitsInv, Start
    PROVE  axis' \in OrderedAxes /\ activity'
<1> DEFINE new == [node |-> node, dummy |-> TRUE, axis |-> axis_init, activity |-> FALSE]
           def == mcf_read_file(new, Defaults)
           lines == IF files["default"] = Missing THEN SysDefault ELSE files["default"]
           s == mcf_read_file(def, lines)
<1>1. axis' = s.axis /\ activity' = s.activity
    BY DEF Start, Assign
<1>2. new.axis \in OrderedAxes
    BY AxisInit
<1>3. Readable(Defaults) /\ Readable(lines)
    BY FilesReadable, OthersReadable DEF Files
<1>4. def.axis \in OrderedAxes /\ def.activity
  <2>1. Defaults[3][1] = "min" /\ 3 \in DOMAIN Defaults
      BY DEF Defaults
  <2>2. Mentions(Defaults, {"min", "max"})
      BY <2>1 DEF Mentions
  <2>3. def.activity
      BY <2>2, OthersReadable DEF mcf_read_file
  <2> HIDE DEF new, def
  <2> QED
      BY <1>2, <1>3, <2>3, ReadKeeps DEF OrderedAxes, def
<1>5. s.axis \in OrderedAxes
  <2> HIDE DEF def, lines
  <2> QED
      BY <1>3, <1>4, ReadKeeps DEF OrderedAxes
<1>6. s.activity
  <2> HIDE DEF def
  <2> QED
      BY <1>4 DEF mcf_read_file
<1> QED
    BY <1>1, <1>5, <1>6

\* A load leaves the limits in order if they were; what it changes, the
\* session has to enter in the history.
LEMMA Loads ==
    ASSUME LimitsInv, MenuLoad \/ ClientLoad
    PROVE  /\ axis' \in Axes /\ page = "setup" /\ page' = page /\ disk' = disk
           /\ axis \in OrderedAxes => axis' \in OrderedAxes
           /\ ~activity' => ~activity /\ axis' = axis
<1>1. PICK lines \in {files[f] : f \in Files} \cup {SysDefault, Defaults} :
          Assign(mcf_read_file(Settings, lines))
    BY DEF MenuLoad, ClientLoad
<1>2. Readable(lines)
    BY FilesReadable
<1>3. Settings.axis = axis /\ Settings.activity = activity /\ axis \in Axes
    BY DEF Settings, LimitsInv
<1> DEFINE t == mcf_read_file(Settings, lines)
<1>4. axis' = t.axis /\ activity' = t.activity
    BY <1>1 DEF Assign
<1>5. activity => t.activity
    BY <1>3 DEF mcf_read_file
<1>6. page = "setup" /\ page' = page /\ disk' = disk
    BY DEF MenuLoad, ClientLoad
<1>7. ~t.activity => t.axis = axis
    BY <1>2, <1>3, ReadUntouched
<1>8. t.axis \in Axes /\ (axis \in OrderedAxes => t.axis \in OrderedAxes)
    BY <1>2, <1>3, ReadKeeps
<1> HIDE DEF t
<1> QED
    BY <1>4, <1>5, <1>6, <1>7, <1>8

\* A save, whole or broken off.
LEMMA Saves ==
    ASSUME LimitsInv, NEW f \in Files, NEW n \in 0..4, Write(f, n)
    PROVE  DiskInv'
<1>1. PICK rest \in Rest(mcf_write_file(Settings), n) :
          files' = [files EXCEPT ![f] = SubSeq(mcf_write_file(Settings), 1, n) \o rest]
    BY DEF Write
<1>2. saved' = [saved EXCEPT ![f] = SubSeq(Exact(Settings), 1, n)]
    BY DEF Write
<1>3. Settings.axis \in Axes
    BY DEF Settings, LimitsInv
<1> DEFINE w == SubSeq(mcf_write_file(Settings), 1, n) \o rest
           v == SubSeq(Exact(Settings), 1, n)
<1>4. Agree(w, v)
    BY <1>3, PartAgrees
<1>5. files' = [files EXCEPT ![f] = w] /\ saved' = [saved EXCEPT ![f] = v]
    BY <1>1, <1>2
<1> HIDE DEF w, v
<1> QED
    BY <1>4, <1>5 DEF LimitsInv, DiskInv

\* The limits b come from limits a in a panel: the ones from before are one
\* step away.
Returns(a, b) ==
    Value(b) # Value(a) =>
       \E i \in {b.current - 1, b.current + 1} \cap DOMAIN b.history : b.history[i] = Value(a)

LEMMA AppendReturns ==
    ASSUME NEW a \in Axes, AtCurrent(a), NEW c \in Axes, OnlyLimits(a, c)
    PROVE  LET b == history_range_append(c)
           IN  b \in Axes /\ AtCurrent(b) /\ Value(b) = Value(c) /\ Returns(a, b)
<1> DEFINE b == history_range_append(c)
<1>1. c.current > 0 /\ c.history[c.current] = Value(a)
    BY DEF AtCurrent, OnlyLimits
<1>2. /\ b \in Axes /\ AtCurrent(b) /\ Value(b) = Value(c)
      /\ b.current - 1 \in DOMAIN b.history /\ b.history[b.current - 1] = Value(a)
    BY <1>1, AppendAxis
<1> HIDE DEF b
<1> QED
    BY <1>2 DEF Returns, b

\* An entry takes no number past the other limit, as long as it knows it.
LEMMA Typed ==
    ASSUME NEW a \in Axes, NEW side \in Sides, NEW v \in Int
    PROVE  LET c == set_range(a, side, check_entry(a, side, v))
           IN  /\ c \in Axes /\ OnlyLimits(a, c)
               /\ InStep(a) /\ Ordered(Value(a)) => Ordered(Value(c))
<1> DEFINE t == check_entry(a, side, v)
           c == set_range(a, side, t)
<1>1. t \in Int
    BY AxisFields DEF check_entry, Sides
<1>2. /\ InStep(a) /\ side = "lower" => t <= a.value["upper"]
      /\ InStep(a) /\ side = "upper" => a.value["lower"] <= t
  <2>1. ASSUME InStep(a)
        PROVE  a.bound["lower"] = a.value["upper"] /\ a.bound["upper"] = a.value["lower"]
      BY <2>1 DEF InStep, Sides, Other
  <2>2. /\ side = "lower" => t <= a.bound["lower"]
        /\ side = "upper" => a.bound["upper"] <= t
      BY AxisFields DEF check_entry
  <2> HIDE DEF t
  <2> QED
      BY <2>1, <2>2
<1> HIDE DEF t
<1>3. c \in Axes /\ OnlyLimits(a, c) /\ c.value[side] = t /\ c.value[Other(side)] = a.value[Other(side)]
    BY <1>1, SetRange
<1> QED
    BY <1>2, <1>3, AxisFields DEF Ordered, Value, Sides, Other, t

LEMMA Increment ==
    ASSUME NEW a \in Axes, NEW delta \in {-1, 1}, a.current + delta \in DOMAIN a.history
    PROVE  LET b == history_range_increment(a, delta)
               c == a.current + delta
           IN  b \in Axes /\ b.history = a.history /\ b.current = c /\ Value(b) = a.history[c]
<1> DEFINE c == a.current + delta
           l == a.history[c][1]
           u == a.history[c][2]
           d == set_both(a, l, u)
           b == history_range_increment(a, delta)
<1>1. a.history[c] \in Int \X Int
    BY AxisFields, ElementOfSeq
<1>2. a.history[c] = <<l, u>> /\ l \in Int /\ u \in Int
    BY <1>1
<1>3. c \in Nat /\ c <= Len(a.history)
  <2>1. DOMAIN a.history = 1..Len(a.history) /\ Len(a.history) \in Nat
      BY AxisFields
  <2>2. c \in 1..Len(a.history)
      BY <2>1, Zenon
  <2> HIDE DEF c
  <2> QED
      BY <2>1, <2>2
<1>4. b = [d EXCEPT !.current = c]
    BY DEF history_range_increment
<1> HIDE DEF l, u, c
<1>5. d \in Axes /\ OnlyLimits(a, d) /\ Value(d) = <<l, u>>
    BY <1>2, SetBoth
<1> HIDE DEF d, b
<1>6. /\ d.value \in [Sides -> Int] /\ d.bound \in [Sides -> Int]
      /\ d.history \in Seq(Int \X Int) /\ Len(d.history) <= MaxHistory
      /\ d = [value |-> d.value, bound |-> d.bound, history |-> d.history, current |-> d.current]
    BY <1>5 DEF Axes
<1>7. b = [value |-> d.value, bound |-> d.bound, history |-> d.history, current |-> c]
    BY <1>4, <1>6
<1>8. d.history = a.history
    BY <1>5 DEF OnlyLimits
<1>9. b \in Axes /\ b.history = a.history /\ b.current = c /\ b.value = d.value
    BY <1>3, <1>6, <1>7, <1>8 DEF Axes
<1>10. Value(b) = a.history[c]
    BY <1>2, <1>5, <1>9 DEF Value
<1> QED
    BY <1>9, <1>10 DEF b, c

LEMMA IncrementReturns ==
    ASSUME NEW a \in Axes, AtCurrent(a), NEW delta \in {-1, 1}
    PROVE  LET b == history_range_increment(a, delta)
           IN  b \in Axes /\ AtCurrent(b) /\ Returns(a, b)
<1> DEFINE b == history_range_increment(a, delta)
<1>1. CASE a.current + delta \in DOMAIN a.history
  <2>1. /\ b \in Axes /\ b.history = a.history /\ b.current = a.current + delta
        /\ Value(b) = a.history[b.current]
      BY <1>1, Increment
  <2> HIDE DEF b
  <2>2. /\ a.current \in 1..Len(a.history) /\ a.history[a.current] = Value(a)
        /\ DOMAIN a.history = 1..Len(a.history)
      BY AxisFields DEF AtCurrent
  <2>3. a.current \in {b.current - 1, b.current + 1} /\ b.current > 0
      BY <1>1, <2>1, <2>2
  <2> QED
      BY <2>1, <2>2, <2>3 DEF AtCurrent, Returns, b
<1>2. CASE a.current + delta \notin DOMAIN a.history
  <2>1. b = a
      BY <1>2 DEF history_range_increment
  <2> QED
      BY <2>1 DEF Returns
<1> QED
    BY <1>1, <1>2

LEMMA IncrementOrdered ==
    ASSUME NEW a \in Axes, NEW delta \in {-1, 1}, Ordered(Value(a)),
           \A i \in DOMAIN a.history : Ordered(a.history[i])
    PROVE  Ordered(Value(history_range_increment(a, delta)))
<1>1. CASE a.current + delta \in DOMAIN a.history
    BY <1>1, Increment
<1>2. CASE a.current + delta \notin DOMAIN a.history
    BY <1>2 DEF history_range_increment
<1> QED
    BY <1>1, <1>2

\* The limits b which a change in a panel arrives at, before the plot is built: one
\* step from those before, and in order under the condition of LimitsOrdered.
Change(b) ==
    /\ b \in Axes
    /\ AtCurrent(axis) => AtCurrent(b) /\ Returns(axis, b)
    /\ InStep(axis) /\ Ordered(Value(axis)) /\ (\A i \in DOMAIN axis.history : Ordered(axis.history[i]))
         => Ordered(Value(b))

LEMMA AppendChange ==
    ASSUME axis \in Axes, NEW c \in Axes, OnlyLimits(axis, c),
           InStep(axis) /\ Ordered(Value(axis)) => Ordered(Value(c))
    PROVE  Change(history_range_append(c))
<1> DEFINE b == history_range_append(c)
<1>1. b \in Axes /\ Value(b) = Value(c)
    BY AppendAxis
<1>2. AtCurrent(axis) => AtCurrent(b) /\ Returns(axis, b)
    BY AppendReturns
<1> HIDE DEF b
<1>3. Change(b)
    BY <1>1, <1>2 DEF Change
<1> QED
    BY <1>3 DEF b

\* In a panel the limits change with an entry of the history, or by moving
\* along it.
LEMMA Changes ==
    ASSUME LimitsInv, (SetLimit /\ page # "setup") \/ EditAxis \/ Allocate
    PROVE  UNCHANGED plot \/ \E b : Change(b) /\ plot_build(b)
<1>1. axis \in Axes
    BY DEF LimitsInv
<1>2. CASE SetLimit /\ page # "setup"
  <2>1. PICK side \in Sides, v \in Limits :
          plot_build(history_range_append(plot_minmax_mcf(axis, side, v)))
      BY <1>2 DEF SetLimit
  <2>2. v \in Int
      BY ConfigAssumption
  <2> DEFINE c == plot_minmax_mcf(axis, side, v)
  <2>3. c \in Axes /\ OnlyLimits(axis, c) /\ Ordered(Value(c))
      BY <1>1, <2>2, Minmax
  <2>4. plot_build(history_range_append(c))
      BY <2>1
  <2> HIDE DEF c
  <2>5. Change(history_range_append(c))
      BY <1>1, <2>3, AppendChange
  <2> QED
      BY <2>4, <2>5
<1>3. CASE Allocate
  <2>1. Change(axis)
      BY <1>1 DEF Change, Returns
  <2> QED
      BY <1>3, <2>1 DEF Allocate
<1>4. ASSUME NEW side \in Sides, NEW v \in Limits, plot_build(plot_minmax_cb(axis, side, v))
      PROVE  \E b : Change(b) /\ plot_build(b)
  <2> DEFINE c == set_range(axis, side, check_entry(axis, side, v))
  <2>1. v \in Int
      BY ConfigAssumption
  <2>2. c \in Axes /\ OnlyLimits(axis, c) /\ (InStep(axis) /\ Ordered(Value(axis)) => Ordered(Value(c)))
      BY <1>1, <2>1, Typed
  <2>3. plot_build(history_range_append(c))
      BY <1>4 DEF plot_minmax_cb
  <2> HIDE DEF c
  <2>4. Change(history_range_append(c))
      BY <1>1, <2>2, AppendChange
  <2> QED
      BY <2>3, <2>4
<1>5. ASSUME NEW a \in Zoomed(axis)
      PROVE  a = axis \/ Change(a)
  <2>1. ASSUME NEW delta \in {-1, 1}, a = history_range_increment(axis, delta)
        PROVE  a = axis \/ Change(a)
    <3>1. CASE a # axis
      <4>1. axis.current + delta \in DOMAIN axis.history
          BY <2>1, <3>1 DEF history_range_increment
      <4>2. a \in Axes
          BY <1>1, <2>1, <4>1, Increment
      <4>3. AtCurrent(axis) => AtCurrent(a) /\ Returns(axis, a)
          BY <1>1, <2>1, IncrementReturns
      <4>4. Ordered(Value(axis)) /\ (\A i \in DOMAIN axis.history : Ordered(axis.history[i]))
              => Ordered(Value(a))
          BY <1>1, <2>1, IncrementOrdered
      <4> QED
          BY <4>2, <4>3, <4>4 DEF Change
    <3> QED
        BY <3>1
  <2>2. ASSUME NEW lower \in Limits, NEW upper \in Limits, lower < upper,
               a = zoom_auto(axis, lower, upper)
        PROVE  a = axis \/ Change(a)
    <3>1. lower \in Int /\ upper \in Int
        BY ConfigAssumption
    <3> DEFINE c == set_both(axis, lower, upper)
    <3>2. c \in Axes /\ OnlyLimits(axis, c) /\ Value(c) = <<lower, upper>>
        BY <1>1, <3>1, SetBoth
    <3>3. a = axis \/ a = history_range_append(c)
        BY <2>2 DEF zoom_auto
    <3> HIDE DEF c
    <3>4. Ordered(<<lower, upper>>)
        BY <2>2, <3>1 DEF Ordered
    <3>5. Change(history_range_append(c))
        BY <1>1, <3>2, <3>4, AppendChange
    <3> QED
        BY <3>3, <3>5
  <2>3. \/ \E delta \in {-1, 1} : a = history_range_increment(axis, delta)
        \/ \E lower \in Limits, upper \in Limits : lower < upper /\ a = zoom_auto(axis, lower, upper)
      BY DEF Zoomed
  <2> QED
      BY <2>1, <2>2, <2>3
<1>6. CASE EditAxis
  <2>1. \/ \E side \in Sides, v \in Limits : plot_build(plot_minmax_cb(axis, side, v))
        \/ \E a \in Zoomed(axis) : IF a = axis THEN UNCHANGED plot ELSE plot_build(a)
      BY <1>6 DEF EditAxis
  <2> QED
      BY <1>4, <1>5, <2>1
<1> QED
    BY <1>2, <1>3, <1>6

\* When the plot has been built, the limits are the current entry.
LEMMA Builds ==
    ASSUME LimitsInv, page # "off", NEW b, Change(b), plot_build(b)
    PROVE  /\ axis' \in Axes /\ AtCurrent(axis') /\ Value(axis') = Value(b)
           /\ ~activity => axis' = b
<1>1. b \in Axes
    BY DEF Change
<1>2. CASE activity
    BY <1>1, <1>2, AppendAxis DEF plot_build
<1>3. CASE ~activity
    BY <1>1, <1>3 DEF plot_build, Change, LimitsInv
<1> QED
    BY <1>2, <1>3

LEMMA LimitsStep == LimitsInv /\ [Next]_vars => LimitsInv'
<1> SUFFICES ASSUME LimitsInv, [Next]_vars PROVE LimitsInv'
    OBVIOUS
<1>0. disk' = disk => DiskInv'
    BY DEF disk, LimitsInv, DiskInv
<1>1. CASE Start
  <2>1. axis' \in Axes /\ activity' /\ page' = "setup"
      BY <1>1, Starts DEF OrderedAxes, Start
  <2>2. DiskInv'
    <3>1. PICK s : /\ Assign(s)
                   /\ IF files["default"] = Missing
                      THEN /\ files' = [files EXCEPT !["default"] = mcf_write_file(s)]
                           /\ saved' = [saved EXCEPT !["default"] = Exact(s)]
                      ELSE UNCHANGED disk
        BY <1>1 DEF Start
    <3>2. s.axis \in Axes
        BY <2>1, <3>1 DEF Assign
    <3>3. Agree(mcf_write_file(s), Exact(s))
        BY <3>2, WholeAgrees
    <3> DEFINE w == mcf_write_file(s)
               v == Exact(s)
    <3>4. disk' = disk \/ (/\ files' = [files EXCEPT !["default"] = w]
                           /\ saved' = [saved EXCEPT !["default"] = v])
        BY <3>1
    <3> HIDE DEF w, v
    <3>5. Agree(w, v)
        BY <3>3 DEF w, v
    <3> QED
        BY <1>0, <3>4, <3>5 DEF LimitsInv, DiskInv, Files
  <2> QED
      BY <2>1, <2>2 DEF LimitsInv
<1>2. CASE Exit \/ Kill
  <2>1. page' = "off" /\ axis' = axis
      BY <1>2 DEF Exit, Kill, plot
  <2>2. disk' = disk \/ \E f \in Files, n \in 0..4 : Write(f, n)
    <3>1. CASE Exit
        BY <3>1, Zenon DEF Exit, Files
    <3>2. CASE Kill
      <4>1. disk' = disk \/ \E f \in {"default", "named"}, n \in 0..3 : Write(f, n)
          BY <3>2 DEF Kill
      <4>2. \A n \in 0..3 : n \in 0..4
          OBVIOUS
      <4> QED
          BY <4>1, <4>2, Zenon DEF Files
    <3> QED
        BY <1>2, <3>1, <3>2
  <2>3. DiskInv'
      BY <1>0, <2>2, Saves
  <2> QED
      BY <2>1, <2>3 DEF LimitsInv
<1>3. CASE EnterPanel
    BY <1>0, <1>3 DEF EnterPanel, plot, LimitsInv
<1>4. CASE LeavePanel
    BY <1>0, <1>4 DEF LeavePanel, plot, LimitsInv
<1>5. CASE MenuLoad \/ ClientLoad
    BY <1>0, <1>5, Loads DEF LimitsInv
<1>6. CASE MenuSave \/ ClientSave
  <2>1. page' = page /\ axis' = axis /\ activity' = activity
      BY <1>6 DEF MenuSave, ClientSave, plot
  <2>2. \E f \in Files, n \in 0..4 : Write(f, n)
      BY <1>6, Zenon DEF MenuSave, ClientSave, Files
  <2>3. DiskInv'
      BY <2>2, Saves
  <2> QED
      BY <2>1, <2>3 DEF LimitsInv
<1>7. CASE ClientBadMode
    BY <1>0, <1>7 DEF ClientBadMode, plot, LimitsInv
<1>8. CASE SetHardware \/ EditHardware
    BY <1>0, <1>8 DEF SetHardware, EditHardware, plot, LimitsInv
<1>9. CASE (SetLimit /\ page # "setup") \/ EditAxis \/ Allocate
  <2>1. page' = page /\ disk' = disk /\ page # "off"
      BY <1>9 DEF SetLimit, EditAxis, Allocate, Op
  <2>2. UNCHANGED plot \/ \E b : Change(b) /\ plot_build(b)
      BY <1>9, Changes
  <2>3. CASE UNCHANGED plot
      BY <1>0, <2>1, <2>3 DEF plot, LimitsInv
  <2>4. CASE \E b : Change(b) /\ plot_build(b)
      BY <1>0, <2>1, <2>4, Builds DEF LimitsInv
  <2> QED
      BY <2>2, <2>3, <2>4
<1>10. CASE SetLimit /\ page = "setup"
  <2>1. /\ page' = page /\ disk' = disk
        /\ activity' /\ \E side \in Sides, v \in Limits : axis' = plot_minmax_mcf(axis, side, v)
      BY <1>10 DEF SetLimit
  <2>2. axis' \in Axes
      BY <2>1, Minmax, ConfigAssumption DEF LimitsInv
  <2> QED
      BY <1>0, <2>1, <2>2 DEF LimitsInv
<1>11. CASE UNCHANGED vars
    BY <1>0, <1>11 DEF vars, plot, disk, LimitsInv
<1> QED
    BY <1>1, <1>2, <1>3, <1>4, <1>5, <1>6, <1>7, <1>8, <1>9, <1>10, <1>11 DEF Next

\* What a name has in the first lines of a save.
LEMMA LineOf ==
    ASSUME NEW v, NEW k \in 0..4, Lines(v, k)
    PROVE  /\ \A x \in Line(v, "dummy") : k > 0 /\ x = v[1][2]
           /\ \A x \in Line(v, "node") : k > 1 /\ x = v[2][2]
           /\ \A x \in Line(v, "min") : k > 2 /\ x = v[3][2]
           /\ \A x \in Line(v, "max") : k > 3 /\ x = v[4][2]
<1>1. \A i \in DOMAIN v : /\ i \in 1..k
                          /\ v[i][1] = "dummy" => i = 1
                          /\ v[i][1] = "node" => i = 2
                          /\ v[i][1] = "min" => i = 3
                          /\ v[i][1] = "max" => i = 4
    BY DEF Lines
<1> QED
    BY <1>1 DEF Line

\* For any device files, limits and files of the system, any order of loads,
\* saves which are whole or break off anywhere, edits, kills and restarts, and
\* whatever the settings are when a saved file is loaded: what was written of it
\* in whole lines is what the settings become, the limits to six decimals and
\* under the condition that plot_minmax_mcf does not exchange the first of them
\* (mcf_write_file, mcf_read_file, mcf_process_string).
THEOREM SavesAreLoaded == Spec => []SavedIsLoaded
<1>1. LimitsInv => SavedIsLoaded
  <2> SUFFICES ASSUME LimitsInv, NEW f \in Files, page # "off", files[f] # Missing
               PROVE  LET s == mcf_read_file(Settings, files[f])
                      IN  /\ Line(saved[f], "dummy") \subseteq {s.dummy}
                          /\ Line(saved[f], "node") \subseteq {s.node}
                          /\ \A l \in Line(saved[f], "min"), u \in Line(saved[f], "max") :
                               Printed(l) <= axis.value["upper"] /\ l <= u
                                 => Value(s.axis) = <<Printed(l), Printed(u)>>
      BY DEF SavedIsLoaded
  <2> DEFINE w == files[f]
             v == saved[f]
             t == mcf_read_file(Settings, w)
  <2>0. Agree(w, v) /\ w # Missing
      BY DEF LimitsInv, DiskInv
  <2> HIDE DEF w, v
  <2>1. PICK m \in 0..4, k \in 0..4 :
          /\ k <= m /\ Lines(w, m) /\ Lines(v, k)
          /\ k > 0 => w[1][2] = v[1][2]
          /\ k > 1 => w[2][2] = v[2][2]
          /\ k > 2 => w[3][2] = Printed(v[3][2])
          /\ k > 3 => w[4][2] = Printed(v[4][2])
      BY <2>0 DEF Agree
  <2>2. Settings.axis = axis /\ axis \in Axes
      BY DEF Settings, LimitsInv
  <2>3. /\ m > 0 => t.dummy = w[1][2]
        /\ m > 1 => t.node = w[2][2]
        /\ m > 3 /\ w[3][2] <= axis.value["upper"] /\ w[3][2] <= w[4][2]
             => Value(t.axis) = <<w[3][2], w[4][2]>>
      BY <2>0, <2>1, <2>2, SavedIsRead
  <2> HIDE DEF t
  <2>4. /\ \A x \in Line(v, "dummy") : k > 0 /\ x = v[1][2]
        /\ \A x \in Line(v, "node") : k > 1 /\ x = v[2][2]
        /\ \A x \in Line(v, "min") : k > 2 /\ x = v[3][2]
        /\ \A x \in Line(v, "max") : k > 3 /\ x = v[4][2]
      BY <2>1, LineOf
  <2>5. Line(v, "dummy") \subseteq {t.dummy} /\ Line(v, "node") \subseteq {t.node}
      BY <2>1, <2>3, <2>4
  <2>6. ASSUME NEW l \in Line(v, "min"), NEW u \in Line(v, "max"),
               Printed(l) <= axis.value["upper"], l <= u
        PROVE  Value(t.axis) = <<Printed(l), Printed(u)>>
    <3>1. k > 3 /\ k > 2 /\ m > 3 /\ l = v[3][2] /\ u = v[4][2]
        BY <2>1, <2>4
    <3>2. l \in Int /\ u \in Int
        BY <2>1, <3>1 DEF Lines
    <3>3. w[3][2] = Printed(l) /\ w[4][2] = Printed(u)
        BY <2>1, <3>1
    <3>4. Printed(l) <= Printed(u)
        BY <2>6, <3>2, PrintedOrder
    <3> QED
        BY <2>3, <2>6, <3>1, <3>3, <3>4
  <2> QED
      BY <2>5, <2>6 DEF t, w, v
<1> QED
    BY <1>1, LimitsInit, LimitsStep, PTL DEF Spec

\* Under the same conditions, whatever changes the limits in a panel, typing,
\* zooming, the arrows of the history or a client: the ones from before are
\* one step away, unless they were set on the setup page and the plot has not
\* been built since (history_range_append, history_range_increment).
THEOREM NothingZoomedAway == Spec => ZoomsReturn
<1>1. LimitsInv /\ [Next]_vars =>
        [page = "panel" /\ ~activity /\ Value(axis') # Value(axis)
           => \E i \in {axis'.current - 1, axis'.current + 1} \cap DOMAIN axis'.history :
                axis'.history[i] = Value(axis)]_vars
  <2> SUFFICES ASSUME LimitsInv, Next, page = "panel", ~activity, Value(axis') # Value(axis)
               PROVE  \E i \in {axis'.current - 1, axis'.current + 1} \cap DOMAIN axis'.history :
                        axis'.history[i] = Value(axis)
      OBVIOUS
  <2>1. axis' # axis /\ page # "off" /\ AtCurrent(axis)
      BY DEF LimitsInv
  <2>2. (SetLimit /\ page # "setup") \/ EditAxis \/ Allocate
      BY <2>1 DEF Next, Start, Exit, Kill, EnterPanel, LeavePanel, MenuLoad, ClientLoad, MenuSave,
                  ClientSave, ClientBadMode, SetHardware, EditHardware, plot
  <2>3. PICK b : Change(b) /\ plot_build(b)
      BY <2>1, <2>2, Changes DEF plot
  <2>4. axis' = b
      BY <2>1, <2>3, Builds
  <2>5. Returns(axis, axis')
      BY <2>1, <2>3, <2>4 DEF Change
  <2> QED
      BY <2>5 DEF Returns
<1> QED
    BY <1>1, LimitsInit, LimitsStep, PTL DEF Spec, ZoomsReturn

\* Under the same conditions, limits which are in order stay in order,
\* whatever is loaded, set, typed or zoomed, unless an entry does not know
\* the other limit or the history holds limits in the wrong order
\* (check_entry, rectify_range, plot_minmax_mcf).
THEOREM LimitsStayOrdered == Spec => LimitsOrdered
<1>1. LimitsInv /\ [Next]_vars =>
        [InStep(axis) /\ Ordered(Value(axis)) /\ (\A i \in DOMAIN axis.history : Ordered(axis.history[i]))
           => Ordered(Value(axis'))]_vars
  <2> SUFFICES ASSUME LimitsInv, Next, InStep(axis), Ordered(Value(axis)),
                      \A i \in DOMAIN axis.history : Ordered(axis.history[i])
               PROVE  Ordered(Value(axis'))
      OBVIOUS
  <2>1. axis \in OrderedAxes
      BY DEF LimitsInv, OrderedAxes
  <2>2. CASE Start
      BY <2>2, Starts DEF OrderedAxes
  <2>3. CASE MenuLoad \/ ClientLoad
      BY <2>1, <2>3, Loads DEF OrderedAxes
  <2>4. CASE (SetLimit /\ page # "setup") \/ EditAxis \/ Allocate
    <3>1. page # "off"
        BY <2>4 DEF SetLimit, EditAxis, Allocate, Op
    <3>2. CASE UNCHANGED plot
        BY <3>2 DEF plot
    <3>3. CASE \E b : Change(b) /\ plot_build(b)
      <4>1. PICK b : Change(b) /\ plot_build(b)
          BY <3>3
      <4>2. Value(axis') = Value(b)
          BY <3>1, <4>1, Builds
      <4> QED
          BY <4>1, <4>2 DEF Change
    <3> QED
        BY <2>4, <3>2, <3>3, Changes
  <2>5. CASE SetLimit /\ page = "setup"
    <3>1. PICK side \in Sides, v \in Limits : axis' = plot_minmax_mcf(axis, side, v)
        BY <2>5 DEF SetLimit
    <3>2. v \in Int
        BY ConfigAssumption
    <3> QED
        BY <3>1, <3>2, Minmax DEF LimitsInv
  <2>6. CASE \/ Exit \/ Kill \/ EnterPanel \/ LeavePanel \/ MenuSave \/ ClientSave \/ ClientBadMode
             \/ SetHardware \/ EditHardware
    <3>1. axis' = axis
        BY <2>6 DEF Exit, Kill, EnterPanel, LeavePanel, MenuSave, ClientSave, ClientBadMode,
                    SetHardware, EditHardware, plot
    <3> QED
        BY <3>1
  <2> QED
      BY <2>2, <2>3, <2>4, <2>5, <2>6 DEF Next
<1> QED
    BY <1>1, LimitsInit, LimitsStep, PTL DEF Spec, LimitsOrdered
=============================================================================
