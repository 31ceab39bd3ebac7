---------------------------- MODULE Buffer_proofs ----------------------------
(* Proofs about the data buffer of Buffer, for any number of points and sets. *)
EXTENDS Buffer, SequenceTheorems, TLAPS

LEMMA PointSetType ==
    ASSUME NEW c \in Layouts, NEW n \in Nat, NEW a \in BOOLEAN, NEW w \in Nat, NEW d \in BOOLEAN
    PROVE  [cols |-> c, n |-> n, saved |-> a, written |-> w, doubt |-> d] \in PointSet
BY DEF PointSet

LEMMA NewSetType ==
    ASSUME NEW c \in Layouts
    PROVE  /\ NewSet(c) \in PointSet
           /\ NewSet(c).cols = c /\ NewSet(c).n = 0 /\ NewSet(c).written = 0
           /\ ~NewSet(c).saved /\ ~NewSet(c).doubt
BY DEF NewSet, PointSet

LEMMA OneSet ==
    ASSUME NEW c \in Layouts
    PROVE  /\ Sound(<<NewSet(c)>>)
           /\ InFile(<<NewSet(c)>>)
           /\ \A i \in 1 .. Len(<<NewSet(c)>>) : <<NewSet(c)>>[i].cols = c
<1>1. <<NewSet(c)>> \in Seq(PointSet) /\ Len(<<NewSet(c)>>) = 1 /\ <<NewSet(c)>>[1] = NewSet(c)
    BY NewSetType
<1> QED
    BY <1>1, NewSetType DEF Sound, InFile

\* add_set keeps the sets sound.
LEMMA WithNewSetFacts ==
    ASSUME NEW s, Sound(s), Columns(s), layout \in Layouts, locked \in BOOLEAN
    PROVE  /\ Sound(WithNewSet(s)) /\ Columns(WithNewSet(s))
           /\ InFile(s) => InFile(WithNewSet(s))
<1>1. CASE ~(~locked /\ Last(s).n > 0)
    BY <1>1 DEF WithNewSet
<1>2. CASE ~locked /\ Last(s).n > 0
  <2> DEFINE w == Append(s, NewSet(layout))
  <2>1. WithNewSet(s) = w
      BY <1>2 DEF WithNewSet
  <2>2. s \in Seq(PointSet) /\ NewSet(layout) \in PointSet /\ Len(s) \in Nat \ {0}
      BY NewSetType DEF Sound
  <2>3. /\ w \in Seq(PointSet) /\ Len(w) = Len(s) + 1 /\ w # <<>>
        /\ \A i \in 1 .. Len(s) : w[i] = s[i]
        /\ w[Len(s) + 1] = NewSet(layout)
      BY <2>2, AppendProperties
  <2>4. s[Len(s)].n > 0
      BY <1>2 DEF Last
  <2> HIDE DEF w
  <2>5. \A i \in 1 .. Len(w) : i \in 1 .. Len(s) \/ i = Len(s) + 1
      BY <2>2, <2>3
  <2>6. \A i \in 1 .. Len(w) - 1 : w[i].n > 0
      BY <2>2, <2>3, <2>4 DEF Sound
  <2>7. Sound(w)
      BY <2>3, <2>5, <2>6, NewSetType DEF Sound
  <2>8. Columns(w)
      BY <1>2, <2>2, <2>3, <2>5, NewSetType DEF Columns
  <2>9. InFile(s) => InFile(w)
      BY <2>3, <2>5, NewSetType DEF InFile
  <2> QED
      BY <2>1, <2>7, <2>8, <2>9
<1> QED
    BY <1>1, <1>2

\* So does a change of the last set which keeps its columns.
LEMMA LastSetFacts ==
    ASSUME NEW s, Sound(s), Columns(s), NEW v \in PointSet, v.cols = s[Len(s)].cols,
           v.written <= v.n, v.saved /\ ~v.doubt => v.written = v.n,
           NEW w, w = [s EXCEPT ![Len(s)] = v]
    PROVE  Sound(w) /\ Columns(w)
<1>1. s \in Seq(PointSet) /\ Len(s) \in Nat \ {0}
    BY DEF Sound
<1>2. /\ w \in Seq(PointSet) /\ Len(w) = Len(s) /\ w # <<>>
      /\ w[Len(s)] = v
      /\ \A i \in 1 .. Len(s) : i # Len(s) => w[i] = s[i]
    BY <1>1, ExceptSeq
<1>3. Sound(w)
  <2>1. \A i \in 1 .. Len(w) - 1 : w[i].n > 0
    <3>1. ASSUME NEW i \in 1 .. Len(w) - 1 PROVE w[i].n > 0
      <4>1. i \in 1 .. Len(s) /\ i # Len(s) /\ i \in 1 .. Len(s) - 1
          BY <1>1, <1>2
      <4> QED
          BY <1>2, <4>1 DEF Sound
    <3> QED
        BY <3>1
  <2>2. \A i \in 1 .. Len(w) : w[i].written <= w[i].n
      BY <1>1, <1>2 DEF Sound
  <2>3. \A i \in 1 .. Len(w) : w[i].saved /\ ~w[i].doubt => w[i].written = w[i].n
    <3>1. ASSUME NEW i \in 1 .. Len(w) PROVE w[i].saved /\ ~w[i].doubt => w[i].written = w[i].n
        BY <1>2, Zenon DEF Sound
    <3> QED
        BY <3>1
  <2> QED
      BY <1>2, <2>1, <2>2, <2>3 DEF Sound
<1>4. Columns(w)
    BY <1>1, <1>2 DEF Columns
<1> QED
    BY <1>3, <1>4

\* run_recording.
LEMMA RecordedFacts ==
    ASSUME NEW s, Sound(s), Columns(s)
    PROVE  Sound(Recorded(s)) /\ Columns(Recorded(s))
<1> DEFINE l == Len(s)
           v == [s[l] EXCEPT !.n = @ + 1, !.saved = FALSE]
<1>1. s \in Seq(PointSet) /\ l \in 1 .. Len(s) /\ s[l] \in PointSet
    BY DEF Sound
<1>2. ASSUME NEW r \in PointSet, NEW q, q = [r EXCEPT !.n = @ + 1, !.saved = FALSE]
      PROVE  /\ q \in PointSet /\ q.cols = r.cols /\ q.n = r.n + 1 /\ q.written = r.written
             /\ ~q.saved
  <2>1. q.cols = r.cols /\ q.n = r.n + 1 /\ q.written = r.written /\ q.doubt = r.doubt
      BY <1>2 DEF PointSet
  <2>2. q.saved = FALSE
      BY <1>2, Zenon DEF PointSet
  <2>3. q \in PointSet
    <3>1. q = [cols |-> r.cols, n |-> r.n + 1, saved |-> FALSE, written |-> r.written, doubt |-> r.doubt]
        BY <1>2 DEF PointSet
    <3>2. r.cols \in Layouts /\ r.n + 1 \in Nat /\ r.written \in Nat
        BY <1>2 DEF PointSet
    <3>3. r.doubt \in BOOLEAN
        BY Zenon DEF PointSet
    <3> QED
        BY <3>1, <3>2, <3>3, Zenon DEF PointSet
  <2> QED
      BY <2>1, <2>2, <2>3
<1>3. /\ v \in PointSet /\ v.cols = s[l].cols /\ v.n = s[l].n + 1 /\ v.written = s[l].written
      /\ ~v.saved
    BY <1>1, <1>2
<1>4. v.written <= v.n
    BY <1>1, <1>3 DEF Sound, PointSet
<1>5. Recorded(s) = [s EXCEPT ![l] = v]
    BY <1>1 DEF Recorded, PointSet
<1> QED
    BY <1>3, <1>4, <1>5, LastSetFacts

\* A set to which k points were appended, in doubt if b.
Grown(r, k, b) == [r EXCEPT !.n = @ + k, !.doubt = @ \/ b]

LEMMA GrownFacts ==
    ASSUME NEW r \in PointSet, NEW k \in Nat, NEW b \in BOOLEAN
    PROVE  /\ Grown(r, k, b) \in PointSet /\ Grown(r, k, b).cols = r.cols
           /\ Grown(r, k, b).n = r.n + k /\ Grown(r, k, b).written = r.written
           /\ Grown(r, k, b).saved = r.saved /\ (Grown(r, k, b).doubt <=> r.doubt \/ b)
<1>1. PICK q : q = Grown(r, k, b)
    OBVIOUS
<1>2. q.cols = r.cols /\ q.n = r.n + k /\ q.written = r.written
    BY <1>1 DEF Grown, PointSet
<1>3. q.saved = r.saved /\ q.doubt = (r.doubt \/ b)
    BY <1>1, Zenon DEF Grown, PointSet
<1>4. q \in PointSet
  <2>1. PICK x \in BOOLEAN : x = (r.doubt \/ b)
      OBVIOUS
  <2>2. q = [cols |-> r.cols, n |-> r.n + k, saved |-> r.saved, written |-> r.written, doubt |-> x]
      BY <1>1, <2>1 DEF Grown, PointSet
  <2>3. r.cols \in Layouts /\ r.n + k \in Nat /\ r.written \in Nat
      BY DEF PointSet
  <2>4. r.saved \in BOOLEAN
      BY Zenon DEF PointSet
  <2> QED
      BY <2>2, <2>3, <2>4, PointSetType
<1> QED
    BY <1>1, <1>2, <1>3, <1>4

\* scan_array_process.
LEMMA ScannedFacts ==
    ASSUME NEW s, Sound(s), Columns(s), layout \in Layouts, locked \in BOOLEAN, NEW k \in Nat
    PROVE  /\ Sound(Scanned(s, k)) /\ Columns(Scanned(s, k))
           /\ k = 0 /\ InFile(s) => InFile(Scanned(s, k))
<1> DEFINE p == WithNewSet(s)
           l == Len(p)
           d == p[l].saved /\ k > 0
           v == [p[l] EXCEPT !.n = @ + k, !.doubt = @ \/ d]
           w == [p EXCEPT ![l] = v]
<1>1. Sound(p) /\ Columns(p) /\ (InFile(s) => InFile(p))
    BY WithNewSetFacts
<1>2. p \in Seq(PointSet) /\ l \in 1 .. Len(p) /\ p[l] \in PointSet
  <2> HIDE DEF p
  <2> QED
      BY <1>1 DEF Sound
<1>3. /\ Grown(p[l], k, d) \in PointSet /\ Grown(p[l], k, d).cols = p[l].cols
      /\ Grown(p[l], k, d).n = p[l].n + k /\ Grown(p[l], k, d).written = p[l].written
      /\ Grown(p[l], k, d).saved = p[l].saved /\ (Grown(p[l], k, d).doubt <=> p[l].doubt \/ d)
  <2>1. d \in BOOLEAN
      OBVIOUS
  <2>2. p[l] \in PointSet
      BY <1>2
  <2> HIDE DEF p, d
  <2> QED
      BY <2>1, <2>2, GrownFacts
<1>4. /\ v \in PointSet /\ v.cols = p[l].cols /\ v.n = p[l].n + k /\ v.written = p[l].written
      /\ v.saved = p[l].saved /\ (v.doubt <=> p[l].doubt \/ d)
    BY <1>3 DEF Grown
<1>5. Scanned(s, k) = WithNewSet(w)
  <2>1. [p EXCEPT ![Len(p)].n = @ + k, ![Len(p)].doubt = @ \/ (Last(p).saved /\ k > 0)] = w
    <3> HIDE DEF p
    <3> QED
        BY <1>2 DEF Last, PointSet
  <2> QED
      BY <2>1 DEF Scanned
<1> HIDE DEF p, v
<1>6. v.written <= v.n /\ (v.saved /\ ~v.doubt => v.written = v.n)
  <2>1. p[l].n \in Nat /\ p[l].written \in Nat /\ p[l].written <= p[l].n
      BY <1>1, <1>2 DEF Sound, PointSet
  <2>2. p[l].saved /\ ~p[l].doubt => p[l].written = p[l].n
      BY <1>1, <1>2, Zenon DEF Sound
  <2> QED
      BY <1>4, <2>1, <2>2
<1>7. Sound(w) /\ Columns(w)
    BY <1>1, <1>4, <1>6, LastSetFacts
<1>8. k = 0 /\ InFile(s) => InFile(w)
  <2> SUFFICES ASSUME k = 0, InFile(p) PROVE InFile(w)
      BY <1>1
  <2>1. Len(w) = Len(p) /\ \A i \in 1 .. Len(p) : w[i] = IF i = l THEN v ELSE p[i]
      BY <1>2, <1>4, ExceptSeq
  <2>2. p[l].n \in Nat /\ v.n = p[l].n
      BY <1>2, <1>4 DEF PointSet
  <2>3. ASSUME NEW i \in 1 .. Len(p) PROVE w[i].doubt \/ w[i].written = w[i].n
    <3>1. CASE i = l
      <4>1. w[i] = v
          BY <2>1, <3>1
      <4>2. p[l].doubt \/ p[l].written = p[l].n
          BY <1>2, Zenon DEF InFile
      <4> QED
          BY <1>4, <2>2, <4>1, <4>2
    <3>2. CASE i # l
        BY <2>1, <3>2, Zenon DEF InFile
    <3> QED
        BY <3>1, <3>2
  <2> QED
      BY <2>1, <2>3 DEF InFile
<1>9. Sound(WithNewSet(w)) /\ Columns(WithNewSet(w)) /\ (InFile(w) => InFile(WithNewSet(w)))
    BY <1>7, WithNewSetFacts
<1> QED
    BY <1>5, <1>8, <1>9

\* A set after a save: of its points, w are in the file; it is called saved if a, in
\* doubt if d.
AfterSave(r, a, w, d) == [r EXCEPT !.saved = a, !.written = w, !.doubt = d]

SaveKeeps(r, w, x) ==
    /\ x \in PointSet /\ x.cols = r.cols /\ x.n = r.n /\ x.written = w /\ x.written <= x.n
    /\ x.saved /\ ~x.doubt => x.written = x.n

LEMMA SaveFacts ==
    ASSUME NEW r \in PointSet, NEW w \in Nat, w <= r.n, NEW a \in BOOLEAN, NEW d \in BOOLEAN,
           a /\ ~d => w = r.n
    PROVE  SaveKeeps(r, w, AfterSave(r, a, w, d)) /\ AfterSave(r, a, w, d).doubt = d
<1>0. PICK x : x = AfterSave(r, a, w, d)
    OBVIOUS
<1>1. r.cols \in Layouts /\ r.n \in Nat
    BY DEF PointSet
<1>2. x = [cols |-> r.cols, n |-> r.n, saved |-> a, written |-> w, doubt |-> d]
    BY <1>0 DEF PointSet, AfterSave
<1>3. x \in PointSet
    BY <1>1, <1>2, Zenon DEF PointSet
<1>4. x.cols = r.cols /\ x.n = r.n /\ x.written = w
    BY <1>2
<1>5. x.saved = a /\ x.doubt = d
    BY <1>2, Zenon
<1>6. x.saved /\ ~x.doubt => x.written = x.n
    BY <1>4, <1>5, Zenon
<1> QED
    BY <1>0, <1>3, <1>4, <1>5, <1>6 DEF SaveKeeps

\* write_svset_custom, whatever the sets which do not find the file open and those of
\* which points do not get into it.
LEMMA WrittenFacts ==
    ASSUME NEW s, Sound(s), Columns(s), NEW truncate \in BOOLEAN, NEW opened, NEW short
    PROVE  /\ Sound(Written(s, truncate, opened, short)) /\ Columns(Written(s, truncate, opened, short))
           /\ ~truncate /\ InFile(s) => InFile(Written(s, truncate, opened, short))
<1> DEFINE w == Written(s, truncate, opened, short)
           kept(i) == IF truncate /\ 1 \in opened THEN 0 ELSE s[i].written
<1>1. s \in Seq(PointSet) /\ Len(s) \in Nat \ {0} /\ DOMAIN s = 1 .. Len(s)
    BY DEF Sound
<1>2. ASSUME NEW i \in 1 .. Len(s)
      PROVE  /\ w[i] \in PointSet
             /\ w[i].cols = s[i].cols /\ w[i].n = s[i].n /\ w[i].written <= w[i].n
             /\ w[i].saved /\ ~w[i].doubt => w[i].written = w[i].n
             /\ ~truncate /\ (s[i].doubt \/ s[i].written = s[i].n) =>
                    w[i].doubt \/ w[i].written = w[i].n
  <2>1. s[i] \in PointSet
      BY <1>1
  <2>2. /\ s[i].written <= s[i].n
        /\ s[i].saved /\ ~s[i].doubt => s[i].written = s[i].n
      BY Zenon DEF Sound
  <2>3. s[i].n \in Nat /\ s[i].written \in Nat
      BY <2>1 DEF PointSet
  <2>4. s[i].saved \in BOOLEAN /\ s[i].doubt \in BOOLEAN
      BY <2>1, Zenon DEF PointSet
  <2>5. /\ kept(i) \in Nat /\ kept(i) <= s[i].n
        /\ ~truncate => kept(i) = s[i].written
      BY <2>2, <2>3
  <2>6. PICK e \in BOOLEAN : e = (kept(i) # s[i].written)
      OBVIOUS
  <2>7. PICK d \in BOOLEAN : d = (s[i].doubt \/ (s[i].saved /\ e))
      OBVIOUS
  <2>8. PICK f \in BOOLEAN : f = (kept(i) # s[i].n)
      OBVIOUS
  <2>9. CASE i \notin opened
    <3>1. w[i] = [s[i] EXCEPT !.written = kept(i), !.doubt = @ \/ (s[i].saved /\ kept(i) # s[i].written)]
        BY <1>1, <2>9 DEF Written
    <3> HIDE DEF w, kept
    <3>2. w[i] = AfterSave(s[i], s[i].saved, kept(i), d)
      <4>1. [s[i] EXCEPT !.written = kept(i), !.doubt = @ \/ (s[i].saved /\ kept(i) # s[i].written)]
            = [s[i] EXCEPT !.written = kept(i), !.doubt = d]
          BY <2>1, <2>6, <2>7 DEF PointSet
      <4> QED
          BY <2>1, <3>1, <4>1 DEF PointSet, AfterSave
    <3>3. s[i].saved /\ ~d => kept(i) = s[i].n
      <4>1. s[i].saved /\ ~d => ~s[i].doubt /\ ~e
          BY <2>7, Zenon
      <4>2. ~e => kept(i) = s[i].written
          BY <2>6, Zenon
      <4> QED
          BY <2>2, <4>1, <4>2, Zenon
    <3>4. SaveKeeps(s[i], kept(i), w[i]) /\ w[i].doubt = d
      <4>1. PICK k \in Nat : k = kept(i) /\ k <= s[i].n /\ (s[i].saved /\ ~d => k = s[i].n)
          BY <2>5, <3>3, Zenon
      <4>2. SaveKeeps(s[i], k, AfterSave(s[i], s[i].saved, k, d)) /\ AfterSave(s[i], s[i].saved, k, d).doubt = d
          BY <2>1, <2>4, <2>7, <4>1, SaveFacts, Zenon
      <4> QED
          BY <3>2, <4>1, <4>2, Zenon
    <3>5. s[i].doubt => w[i].doubt
        BY <2>7, <3>4, Zenon
    <3> QED
        BY <2>5, <3>4, <3>5 DEF SaveKeeps
  <2>10. CASE i \in opened /\ i \in short
    <3>1. w[i] = [s[i] EXCEPT !.saved = TRUE, !.written = kept(i), !.doubt = (kept(i) # s[i].n)]
        BY <1>1, <2>10 DEF Written
    <3> HIDE DEF w, kept
    <3>2. w[i] = AfterSave(s[i], TRUE, kept(i), f)
        BY <2>8, <3>1 DEF AfterSave
    <3>3. ~f => kept(i) = s[i].n
        BY <2>8, Zenon
    <3>4. SaveKeeps(s[i], kept(i), w[i]) /\ w[i].doubt = f
      <4>1. PICK k \in Nat : k = kept(i) /\ k <= s[i].n /\ (TRUE /\ ~f => k = s[i].n)
          BY <2>5, <3>3, Zenon
      <4>2. SaveKeeps(s[i], k, AfterSave(s[i], TRUE, k, f)) /\ AfterSave(s[i], TRUE, k, f).doubt = f
          BY <2>1, <2>4, <2>8, <4>1, SaveFacts, Zenon
      <4> QED
          BY <3>2, <4>1, <4>2, Zenon
    <3> QED
        BY <3>3, <3>4 DEF SaveKeeps
  <2>11. CASE i \in opened /\ i \notin short
    <3>1. w[i] = [s[i] EXCEPT !.saved = TRUE, !.written = s[i].n, !.doubt = FALSE]
        BY <1>1, <2>11 DEF Written
    <3> HIDE DEF w, kept
    <3>2. w[i] = AfterSave(s[i], TRUE, s[i].n, FALSE)
        BY <3>1 DEF AfterSave
    <3>3. SaveKeeps(s[i], s[i].n, w[i])
      <4>1. s[i].n <= s[i].n
          BY <2>3
      <4> QED
          BY <2>1, <2>3, <3>2, <4>1, SaveFacts, Zenon
    <3> QED
        BY <3>3 DEF SaveKeeps
  <2> QED
      BY <2>9, <2>10, <2>11
<1>3. w = [i \in 1 .. Len(s) |-> w[i]] /\ Len(w) = Len(s)
    BY <1>1 DEF Written
<1> HIDE DEF w
<1>4. ~truncate /\ InFile(s) => InFile(w)
    BY <1>2, <1>3 DEF InFile
<1>5. w \in Seq(PointSet) /\ w # <<>>
    BY <1>1, <1>2, <1>3
<1>6. Sound(w)
  <2>1. \A i \in 1 .. Len(w) - 1 : w[i].n > 0
      BY <1>1, <1>2, <1>3 DEF Sound
  <2> QED
      BY <1>2, <1>3, <1>5, <2>1 DEF Sound
<1>7. Columns(w)
    BY <1>1, <1>2, <1>3 DEF Columns
<1> QED
    BY <1>4, <1>6, <1>7 DEF w
-----------------------------------------------------------------------------
LEMMA BufferInit == Init => BufferInv
<1> SUFFICES ASSUME Init PROVE BufferInv
    OBVIOUS
<1>1. layout \in Layouts /\ sets = <<NewSet(layout)>> /\ cbuf = <<>> /\ gui = "idle" /\ pc = "acquire"
    BY DEF Init
<1>2. ~locked /\ ~held /\ ~recording /\ doReset /\ ~arrived
    BY Zenon DEF Init
<1>3. /\ locked \in BOOLEAN /\ recording \in BOOLEAN /\ doReset \in BOOLEAN /\ arrived \in BOOLEAN
      /\ daqFailed \in BOOLEAN
    BY Zenon DEF Init
<1>4. Sound(sets) /\ Columns(sets)
    BY <1>1, <1>2, OneSet DEF Columns
<1> QED
    BY <1>1, <1>2, <1>3, <1>4 DEF BufferInv, Types, LockedOnHold, FreshOrReset, NoOldTimes

LEMMA BufferStep == BufferInv /\ [Next]_vars => BufferInv'
<1> SUFFICES ASSUME BufferInv, [Next]_vars PROVE BufferInv'
    OBVIOUS
<1> USE DEF BufferInv
<1>1. CASE DaqAcquire
  <2>1. TimeBase \in {"fresh", "old"} /\ (~doReset => TimeBase = "fresh")
      BY DEF TimeBase
  <2> DEFINE kept == IF Len(cbuf) < CbufLen THEN cbuf ELSE Tail(cbuf)
  <2>2. /\ kept \in Seq({"fresh", "old"})
        /\ ~doReset => \A i \in 1 .. Len(kept) : kept[i] = "fresh"
    <3>1. CASE Len(cbuf) < CbufLen
        BY <3>1 DEF Types, FreshOrReset
    <3>2. CASE ~(Len(cbuf) < CbufLen)
      <4>1. cbuf \in Seq({"fresh", "old"}) /\ cbuf # <<>>
          BY <3>2, BufferAssumption DEF Types
      <4>2. /\ Tail(cbuf) \in Seq({"fresh", "old"}) /\ Len(Tail(cbuf)) = Len(cbuf) - 1
            /\ \A i \in 1 .. Len(Tail(cbuf)) : Tail(cbuf)[i] = cbuf[i + 1]
          BY <4>1, HeadTailProperties
      <4> QED
          BY <3>2, <4>1, <4>2 DEF FreshOrReset
    <3> QED
        BY <3>1, <3>2
  <2>3. cbuf' = Append(kept, TimeBase)
      BY <1>1 DEF DaqAcquire
  <2> HIDE DEF kept
  <2>4. /\ cbuf' \in Seq({"fresh", "old"}) /\ Len(cbuf') = Len(kept) + 1
        /\ \A i \in 1 .. Len(kept) : cbuf'[i] = kept[i]
        /\ cbuf'[Len(kept) + 1] = TimeBase
      BY <2>1, <2>2, <2>3, AppendProperties
  <2>5. FreshOrReset'
    <3> SUFFICES ASSUME ~doReset, NEW i \in 1 .. Len(kept) + 1 PROVE cbuf'[i] = "fresh"
        BY <1>1, <2>4 DEF FreshOrReset, DaqAcquire
    <3> QED
        BY <2>1, <2>2, <2>4
  <2>6. NoOldTimes'
    <3>1. sample' = IF \E i \in DOMAIN cbuf' : cbuf'[i] = "old" THEN "old" ELSE "fresh"
        BY <1>1 DEF DaqAcquire
    <3>2. DOMAIN cbuf' = 1 .. Len(cbuf')
        BY <2>4
    <3>3. ~doReset' => \A i \in DOMAIN cbuf' : cbuf'[i] = "fresh"
        BY <2>5, <3>2, Zenon DEF FreshOrReset
    <3> QED
        BY <3>1, <3>3 DEF NoOldTimes
  <2> QED
      BY <1>1, <2>4, <2>5, <2>6 DEF DaqAcquire, Types, Columns, LockedOnHold
<1>2. CASE DaqReset
  <2>1. doReset' \in BOOLEAN
      BY <1>2, Zenon DEF DaqReset
  <2>2. cbuf' = <<>> /\ cbuf' \in Seq({"fresh", "old"})
      BY <1>2 DEF DaqReset
  <2> QED
      BY <1>2, <2>1, <2>2 DEF DaqReset, Types, Columns, LockedOnHold, FreshOrReset, InFile, NoOldTimes
<1>3. CASE DaqRecord
  <2>1. CASE recording /\ sets' = Recorded(sets) /\ arrived' = (arrived \/ gui = "clearing")
    <3>1. Sound(sets') /\ Columns(sets)' /\ arrived' \in BOOLEAN
        BY <1>3, <2>1, RecordedFacts DEF DaqRecord, Columns
    <3> QED
        BY <1>3, <2>1, <3>1 DEF DaqRecord, Types, LockedOnHold, FreshOrReset, NoOldTimes
  <2>2. CASE UNCHANGED <<sets, arrived>>
      BY <1>3, <2>2 DEF DaqRecord, Types, Columns, LockedOnHold, FreshOrReset, NoOldTimes
  <2> QED
      BY <1>3, <2>1, <2>2 DEF DaqRecord
<1>4. ASSUME NEW k \in 0 .. 1, DaqScan(k) PROVE BufferInv'
  <2>1. k \in Nat /\ sets' = Scanned(sets, k) /\ arrived' = (arrived \/ (gui = "clearing" /\ k > 0))
      BY <1>4 DEF DaqScan
  <2>2. Sound(sets') /\ Columns(sets)' /\ (k = 0 /\ InFile(sets) => InFile(sets)')
      BY <1>4, <2>1, ScannedFacts DEF DaqScan, Columns, Types, InFile
  <2>3. (gui = "clearing" /\ ~arrived => InFile(sets))'
    <3> SUFFICES ASSUME gui' = "clearing", ~arrived' PROVE InFile(sets)'
        OBVIOUS
    <3>1. gui = "clearing"
        BY <1>4 DEF DaqScan
    <3>2. ~arrived /\ ~(k > 0)
        BY <2>1, <3>1, Zenon
    <3> QED
        BY <2>1, <2>2, <3>1, <3>2
  <2>4. arrived' \in BOOLEAN
      BY <2>1, Zenon
  <2> QED
      BY <1>4, <2>2, <2>3, <2>4 DEF DaqScan, Types, LockedOnHold, FreshOrReset, NoOldTimes
<1>5. CASE NewSetCommand
  <2>1. Sound(sets') /\ Columns(sets)' /\ (InFile(sets) => InFile(sets)')
      BY <1>5, WithNewSetFacts DEF NewSetCommand, Columns, Types, InFile
  <2> QED
      BY <1>5, <2>1 DEF NewSetCommand, Types, LockedOnHold, FreshOrReset, NoOldTimes
<1>6. CASE TimeZero
  <2>1. doReset' = TRUE /\ doReset' \in BOOLEAN
      BY <1>6, Zenon DEF TimeZero
  <2>2. Outdated \in Seq({"fresh", "old"})
      BY DEF Outdated, Types
  <2> QED
      BY <1>6, <2>1, <2>2 DEF TimeZero, Types, Columns, LockedOnHold, FreshOrReset, InFile, NoOldTimes
<1>7. ASSUME NEW truncate \in BOOLEAN, Save(truncate) PROVE BufferInv'
  <2>1. PICK opened, short : sets' = Written(sets, truncate, opened, short)
      BY <1>7 DEF Save
  <2>2. /\ Sound(sets') /\ Columns(sets)'
        /\ ~truncate /\ InFile(sets) => InFile(sets)'
      BY <1>7, <2>1, WrittenFacts DEF Save, Columns, InFile
  <2>3. (gui = "clearing" /\ ~arrived => InFile(sets))'
      BY <1>7, <2>2 DEF Save
  <2> QED
      BY <1>7, <2>2, <2>3 DEF Save, Types, LockedOnHold, FreshOrReset, NoOldTimes
<1>8. CASE ToggleRecording
  <2>1. recording' \in BOOLEAN
      BY <1>8, Zenon DEF ToggleRecording
  <2> QED
      BY <1>8, <2>1 DEF ToggleRecording, Types, Columns, LockedOnHold, FreshOrReset, InFile, NoOldTimes
<1>9. ASSUME NEW confirm \in BOOLEAN, NEW tz \in BOOLEAN, GuiClear(confirm, tz) PROVE BufferInv'
  <2>1. gui' = "clearing" => ~Unsaved(sets)
      BY <1>9 DEF GuiClear
  <2>2. ~Unsaved(sets) => InFile(sets)
    <3> SUFFICES ASSUME ~Unsaved(sets), NEW i \in 1 .. Len(sets)
                 PROVE  sets[i].doubt \/ sets[i].written = sets[i].n
        BY DEF InFile
    <3>0. sets[i] \in PointSet
        BY DEF Sound
    <3>1. sets[i].n \in Nat /\ sets[i].written \in Nat /\ sets[i].written <= sets[i].n
        BY <3>0 DEF Sound, PointSet
    <3>2. ~(sets[i].n > 0) \/ sets[i].saved
        BY DEF Unsaved, Sound
    <3>3. sets[i].saved /\ ~sets[i].doubt => sets[i].written = sets[i].n
        BY Zenon DEF Sound
    <3> QED
        BY <3>1, <3>2, <3>3
  <2> QED
      BY <1>9, <2>1, <2>2 DEF GuiClear, Types, Columns, LockedOnHold, FreshOrReset, InFile, NoOldTimes
<1>10. ASSUME NEW yes \in BOOLEAN, GuiAnswer(yes) PROVE BufferInv'
    BY <1>10 DEF GuiAnswer, Types, Columns, LockedOnHold, FreshOrReset, InFile, NoOldTimes
<1>11. CASE GuiExchange
  <2>1. /\ sets' = <<NewSet(layout)>> /\ layout' = layout /\ gui' = "idle" /\ recording' = recording
        /\ pc' = pc /\ daqFailed' = daqFailed /\ doReset' = (doReset \/ tzero)
        /\ sample' = IF tzero THEN "old" ELSE sample
      BY <1>11 DEF GuiExchange
  <2>2. ~locked' /\ ~held' /\ locked' \in BOOLEAN /\ arrived' \in BOOLEAN /\ doReset' \in BOOLEAN
      BY <1>11, Zenon DEF GuiExchange, Types
  <2>3. cbuf' \in Seq({"fresh", "old"})
      BY <1>11 DEF GuiExchange, Outdated, Types
  <2>4. FreshOrReset'
    <3>1. CASE tzero
        BY <1>11, <3>1, Zenon DEF GuiExchange, FreshOrReset
    <3>2. CASE ~tzero
        BY <1>11, <3>2 DEF GuiExchange, FreshOrReset
    <3> QED
        BY <3>1, <3>2
  <2>5. Sound(sets') /\ Columns(sets)'
      BY <2>1, OneSet DEF Columns, Types
  <2> QED
      BY <2>1, <2>2, <2>3, <2>4, <2>5 DEF Types, LockedOnHold, NoOldTimes
<1>12. CASE NewSession
  <2>1. /\ layout' \in Layouts /\ held' = locked' /\ cbuf' = <<>> /\ gui' = "idle"
        /\ doReset' = doReset /\ arrived' = arrived /\ pc' = "acquire"
      BY <1>12 DEF NewSession
  <2>2. ~recording' /\ recording' \in BOOLEAN /\ daqFailed' \in BOOLEAN
      BY <1>12, Zenon DEF NewSession
  <2>3. \/ sets' = <<NewSet(layout')>> /\ locked' = FALSE
        \/ sets' = sets /\ sets[1].cols = layout' /\ locked' = FALSE
        \/ sets' = sets /\ locked' = TRUE
      BY <1>12, Zenon DEF NewSession
  <2>4. locked' \in BOOLEAN
      BY <2>3, Zenon
  <2>5. Sound(sets') /\ Columns(sets)'
    <3>1. CASE sets' = <<NewSet(layout')>>
        BY <2>1, <3>1, OneSet DEF Columns
    <3>2. CASE sets' = sets /\ sets[1].cols = layout'
        BY <3>2 DEF Columns
    <3>3. CASE sets' = sets /\ locked' = TRUE
        BY <3>3 DEF Columns
    <3> QED
        BY <2>3, <3>1, <3>2, <3>3
  <2> QED
      BY <2>1, <2>2, <2>4, <2>5 DEF Types, LockedOnHold, FreshOrReset, NoOldTimes
<1>13. CASE DaqFail
  <2>1. /\ pc' = "record" /\ UNCHANGED <<layout, sets, locked, doReset, cbuf, gui, arrived>>
      BY <1>13 DEF DaqFail
  <2>2. daqFailed' /\ held' /\ ~recording' /\ recording' \in BOOLEAN /\ daqFailed' \in BOOLEAN
      BY <1>13, Zenon DEF DaqFail
  <2> QED
      BY <2>1, <2>2 DEF Types, Columns, LockedOnHold, FreshOrReset, InFile, NoOldTimes
<1>14. CASE DaqAcquireNothing
    BY <1>14 DEF DaqAcquireNothing, Types, Columns, LockedOnHold, FreshOrReset, InFile, NoOldTimes
<1>15. CASE UNCHANGED vars
    BY <1>15 DEF vars, Types, Columns, LockedOnHold, FreshOrReset, InFile, NoOldTimes
<1> QED
    BY <1>1, <1>2, <1>3, <1>4, <1>5, <1>6, <1>7, <1>8, <1>9, <1>10, <1>11, <1>12, <1>13,
       <1>14, <1>15 DEF Next

LEMMA BufferInvHolds == Spec => []BufferInv
BY BufferInit, BufferStep, PTL DEF Spec

\* For any number of points, sets and layouts, and whatever the threads and the user
\* do, points are recorded only in sets with their columns, and only the last set may
\* be empty (add_set, append_point, scan_array_process).
THEOREM BufferInOrder == Spec => []SetsInOrder
<1>1. BufferInv => SetsInOrder
    BY DEF BufferInv, Types, Sound, Columns, LockedOnHold, FreshOrReset, OnlyLastEmpty, PointsFit,
           SetsInOrder
<1> QED
    BY <1>1, BufferInvHolds, PTL

\* Under the same conditions no recorded point has, averaged or not, a time from before
\* the last T=0 (run_recording skips one pass and empties the circular buffer), unless
\* acquisition has failed in this session.
THEOREM TimesAreNew == Spec => []NoOldTimes
<1>1. BufferInv => NoOldTimes
    BY DEF BufferInv, Types, Sound, Columns, LockedOnHold, FreshOrReset, OnlyLastEmpty, PointsFit,
           NoOldTimes
<1> QED
    BY <1>1, BufferInvHolds, PTL

\* Under the same conditions what is called saved is in the file, whatever sets a save
\* could not open the file for (write_svset_custom), unless one of the causes of doubt
\* left data_saved set.
THEOREM SavedKept == Spec => []SavedIsWritten
<1>1. BufferInv => SavedIsWritten
    BY DEF BufferInv, Sound, InFile, SavedIsWritten
<1> QED
    BY <1>1, BufferInvHolds, PTL

\* Under the same conditions clear_buffer discards no unsaved point without asking,
\* apart from the causes the property names.
THEOREM NothingLost == Spec => []NothingLostUnasked
<1>1. BufferInv => NothingLostUnasked
    BY DEF BufferInv, Sound, InFile, NothingLostUnasked
<1> QED
    BY <1>1, BufferInvHolds, PTL
=============================================================================
