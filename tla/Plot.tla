-------------------------------- MODULE Plot --------------------------------
(***************************************************************************)
(* The plot of a panel: src/main/plot/plot.c, plot_draw.c and              *)
(* plot_callback.c, driven by run_gui_thread (src/main/thread/gui.c), over *)
(* the variable sets of the panel's buffer (src/lib/varset), to which the  *)
(* DAQ thread appends points meanwhile.                                    *)
(*                                                                         *)
(* A point is the place of the plane where it falls: points of one place   *)
(* are closer than M2_PLOT_LINE_MIN_DISPLACEMENT.  One y axis is modelled, *)
(* with lines and points on.  What the limits of the axes are is in Axis:  *)
(* here they choose the places which fall inside the axes.                 *)
(***************************************************************************)
EXTENDS Integers, Sequences, FiniteSets, SequencesExt

CONSTANTS
    Places,     \* where points fall
    Windows,    \* the sets of places which the limits of the axes may show
    Slice,      \* M2_MAX_GRADUAL_PTS
    Chunk,      \* SPEEDYPROC_VARSET_CHUNK_SIZE, in points
    SetChunk,   \* SPEEDYPROC_SETVARSET_CHUNK_SIZE, in sets
    Nowhere,    \* the value of a point which is counted and not yet written
    MaxPts,     \* bound: points in the buffer
    MaxSets     \* bound: sets in the buffer

ASSUME PlotAssumption ==
    /\ Windows \subseteq SUBSET Places
    /\ Slice \in Nat \ {0} /\ Chunk \in Nat \ {0} /\ SetChunk \in Nat \ {0}
    /\ MaxPts \in Nat /\ MaxSets \in Nat \ {0}
    /\ Nowhere \notin Places

VARIABLES
    svs,          \* buffer->svs: a sequence of sets of points
    half,         \* the DAQ thread holds buffer->mutex inside append_point
    enabled,      \* plot->enabled
    x, y,         \* the x and the y axis have a channel (vci # -1)
    shown,        \* the places inside the limits of the axes
    active_set,   \* plot->active_set
    draw_set,     \* plot->draw_set
    draw_total,   \* plot->draw_total
    pc,           \* the GUI thread: "idle", "tick" (plot_tick), "read" (plot_data), "lost"
    draw_request, \* plot_tick's draw_request
    begin,        \* plot_data's begin
    dots,         \* the points drawn since plot_build, <<set, index>>
    lines,        \* the lines: <<set, index of the point they end at, where from>>
    torn,         \* data was reallocated under the reader since plot_build
    stale         \* history: a session began with other data than drawn since plot_build

buf  == <<svs, half>>
axes == <<enabled, x, y, shown>>
prog == <<active_set, draw_set, draw_total>>
ink  == <<dots, lines, torn, stale>>
gui  == <<pc, draw_request, begin>>
plotVars == <<buf, axes, prog, ink, gui>>

total_pts(sets) == FoldLeft(LAMBDA n, s : n + Len(s), 0, sets)

\* The points of the buffer whose values are written.
Written ==
    LET all == FlattenSeq([s \in DOMAIN svs |-> [j \in DOMAIN svs[s] |-> <<s, j>>]])
    IN  IF half THEN Front(all) ELSE all

plot_active == enabled /\ x

PlotInit ==
    /\ svs = <<<<>>>> /\ half = FALSE
    /\ enabled \in BOOLEAN /\ x \in BOOLEAN /\ y \in BOOLEAN
    /\ shown \in Windows
    /\ active_set = 0 /\ draw_set = 0 /\ draw_total = 0
    /\ pc = "idle" /\ draw_request = 0 /\ begin = 0
    /\ dots = <<>> /\ lines = {} /\ torn = FALSE /\ stale = FALSE

-----------------------------------------------------------------------------
(* The DAQ thread, holding buffer->mutex. *)

Reading == pc = "read" /\ begin < draw_set

\* append_value: the point is counted, in a new chunk if the last is full ...
AppendValue ==
    /\ ~half
    /\ total_pts(svs) < MaxPts
    /\ half' = TRUE
    /\ svs' = [svs EXCEPT ![Len(svs)] = Append(@, Nowhere)]
    /\ torn' = (torn \/ /\ Reading
                        /\ active_set + 1 = Len(svs)
                        /\ Len(svs[Len(svs)]) % Chunk = 0)
    /\ UNCHANGED <<axes, prog, dots, lines, stale, gui>>

\* ... and then written.
WriteValue ==
    /\ half
    /\ half' = FALSE
    /\ \E p \in Places :
         svs' = [svs EXCEPT ![Len(svs)] = [@ EXCEPT ![Len(@)] = p]]
    /\ UNCHANGED <<axes, prog, ink, gui>>

\* add_set: from a trigger or at a scan's end, and, with the GUI thread idle,
\* from the Add button or a client's new_set.
AddSet ==
    /\ ~half
    /\ svs[Len(svs)] # <<>>
    /\ Len(svs) < MaxSets
    /\ svs' = Append(svs, <<>>)
    /\ torn' = (torn \/ (Reading /\ Len(svs) % SetChunk = 0))
    /\ UNCHANGED <<half, axes, prog, dots, lines, stale, gui>>

-----------------------------------------------------------------------------
(* The GUI thread. *)

\* The points are counted without the mutex.
BugRequestDraw ==
    /\ pc = "idle"
    /\ plot_active
    /\ draw_request' = Min({total_pts(svs) - draw_total, Slice})
    /\ draw_request' > 0
    /\ pc' = "tick"
    /\ UNCHANGED <<buf, axes, prog, ink, begin>>

\* run_gui_thread asks for the points which are in the buffer and not drawn.
RequestDraw ==
    /\ pc = "idle"
    /\ plot_active
    /\ ~half
    /\ draw_request' = Min({total_pts(svs) - draw_total, Slice})
    /\ draw_request' > 0
    /\ pc' = "tick"
    /\ UNCHANGED <<buf, axes, prog, ink, begin>>

\* plot_data fixes the part of the set it will draw ...
BeginSet ==
    /\ pc = "tick"
    /\ active_set < Len(svs)
    /\ begin' = draw_set
    /\ draw_set' = Min({draw_set + draw_request, Len(svs[active_set + 1])})
    /\ draw_total' = draw_total + (draw_set' - draw_set)
    /\ pc' = "read"
    /\ UNCHANGED <<buf, axes, active_set, draw_request, ink>>

\* ... of a set which may not be there: what svs->data holds past its last set is
\* used as a set.
LoseSet ==
    /\ pc = "tick"
    /\ active_set >= Len(svs)
    /\ pc' = "lost"
    /\ UNCHANGED <<buf, axes, prog, ink, draw_request, begin>>

\* The pen starts at the first point of the part.
BugPen(set, a, b) ==
    LET pen[j \in (a - 1)..b] ==
          IF j = a - 1 THEN [at |-> Nowhere, started |-> FALSE, lines |-> {}]
          ELSE LET p == pen[j - 1] IN
               IF set[j] \notin shown THEN [p EXCEPT !.started = FALSE]
               ELSE IF set[j] = p.at THEN p
               ELSE [at |-> set[j], started |-> TRUE,
                     lines |-> p.lines \cup (IF p.started THEN {<<j, p.at>>} ELSE {})]
    IN  pen[b].lines

\* draw_axis_lines: the pen along the points from index a to index b of a
\* set.  It starts one point before the part, and a point where the pen
\* already is does not move it.
Pen(set, a, b) ==
    LET start == Max({a - 1, 1})
        pen[j \in (start - 1)..b] ==
          IF j = start - 1 THEN [at |-> Nowhere, started |-> FALSE, lines |-> {}]
          ELSE LET p == pen[j - 1] IN
               IF set[j] \notin shown THEN [p EXCEPT !.started = FALSE]
               ELSE IF set[j] = p.at THEN p
               ELSE [at |-> set[j], started |-> TRUE,
                     lines |-> p.lines \cup (IF p.started THEN {<<j, p.at>>} ELSE {})]
    IN  pen[b].lines

\* ... draws it, and plot_tick moves to the next set while points are due.  What is
\* in a stale picture is left out.
DrawSet ==
    LET s == active_set + 1
    IN  /\ pc = "read"
        /\ dots' = IF stale THEN dots
                   ELSE dots \o [k \in 1..(draw_set - begin) |-> <<s, begin + k>>]
        /\ lines' = IF ~y \/ stale THEN lines
                    ELSE lines \cup {<<s, l[1], l[2]>> : l \in Pen(svs[s], begin + 1, draw_set)}
        /\ draw_request' = draw_request - (draw_set - begin)
        /\ IF draw_request' > 0 /\ s < Len(svs)
           THEN pc' = "tick" /\ active_set' = s /\ draw_set' = 0
           ELSE pc' = "idle" /\ UNCHANGED <<active_set, draw_set>>
        /\ UNCHANGED <<buf, axes, draw_total, begin, torn, stale>>

\* plot_build_noqueue: the background again, and drawing starts over.
plot_build ==
    /\ active_set' = 0 /\ draw_set' = 0 /\ draw_total' = 0
    /\ dots' = <<>> /\ lines' = {} /\ torn' = FALSE /\ stale' = FALSE

\* A limit, a zoom, the Enable item, a channel of an axis, a new size: each
\* callback ends in plot_build.
Change ==
    /\ pc = "idle"
    /\ enabled' \in BOOLEAN /\ x' \in BOOLEAN /\ y' \in BOOLEAN
    /\ shown' \in Windows
    /\ plot_build
    /\ UNCHANGED <<buf, gui>>

\* The buffer is replaced, and drawing does not start over.
BugClearWithoutBuild ==
    /\ pc = "idle"
    /\ ~half
    /\ svs' = <<<<>>>>
    /\ x' \in {FALSE, x} /\ y' \in {FALSE, y}
    /\ UNCHANGED <<half, enabled, shown, prog, ink, gui>>

\* clear_cb and clear_csf: a new set of sets, the axes' channels by the names
\* of its columns, and a new picture.
ClearBuffer ==
    /\ pc = "idle"
    /\ ~half
    /\ svs' = <<<<>>>>
    /\ x' \in {FALSE, x} /\ y' \in {FALSE, y}
    /\ plot_build
    /\ UNCHANGED <<half, enabled, shown, gui>>

\* A new session, after the setup page and with the DAQ thread joined: the buffer is
\* kept or cleared (buffer_update), and the axes find their channels in its columns
\* (other: not the ones before).  There is no plot_build in this: it only comes, as a
\* Change, if the toolkit allocates the panel a size.  Until then the picture is stale,
\* and what is in it does not matter.
NewSession(other) ==
    /\ pc = "idle"
    /\ ~half
    /\ svs' \in {svs, <<<<>>>>}
    /\ x' \in (IF other THEN BOOLEAN ELSE {x})
    /\ y' \in (IF other THEN BOOLEAN ELSE {y})
    /\ stale' = (stale \/ (dots # <<>> /\ (other \/ svs' # svs)))
    /\ dots' = IF stale' THEN <<>> ELSE dots
    /\ lines' = IF dots' = <<>> THEN {} ELSE lines
    /\ UNCHANGED <<half, enabled, shown, prog, torn, gui>>

Daq == AppendValue \/ WriteValue \/ AddSet
Gui == RequestDraw \/ BeginSet \/ LoseSet \/ DrawSet
Enter == \E other \in BOOLEAN : NewSession(other)
PlotNext == Daq \/ Gui \/ Change \/ ClearBuffer \/ Enter

PlotSpec == PlotInit /\ [][PlotNext]_plotVars

\* The DAQ thread leaves append_point.  The GUI thread draws whenever its
\* loop comes around; the mutex is free between two points, and a thread
\* which waits for it is served in the end.
PlotFairSpec ==
    /\ PlotSpec
    /\ WF_plotVars(WriteValue)
    /\ SF_plotVars(RequestDraw)
    /\ WF_plotVars(BeginSet \/ DrawSet)

-----------------------------------------------------------------------------
(* Properties. *)

\* The variables keep their types.
PlotTypeOK ==
    /\ svs # <<>> /\ \A s \in DOMAIN svs : svs[s] \in Seq(Places \cup {Nowhere})
    /\ {half, enabled, x, y, torn, stale} \subseteq BOOLEAN
    /\ shown \in Windows
    /\ {active_set, draw_set, draw_request, begin} \subseteq Nat /\ draw_total \in Int
    /\ pc \in {"idle", "tick", "read", "lost"}

\* The drawing never looks for a set or for points which the buffer does not
\* have (plot_data indexes svs->data and vs->data with counters it kept from
\* the last tick, and a clear replaces both).  Only a session which begins with another
\* buffer than the one drawn leaves them stale, until the next plot_build.
ReadsInside ==
    ~stale =>
       /\ pc # "lost"
       /\ active_set < Len(svs)
       /\ draw_set <= Len(svs[active_set + 1])
       /\ draw_total <= total_pts(svs)

\* Where slices meet the lines are joined as if the set had been drawn at
\* once: two neighbours of one set in different places inside the axes are
\* joined, and nothing else is.  Not so, in this code, when the points left
\* the axes and came back at the place where they left: draw_axis_lines then
\* takes the pen to be there and starts only at the next place.  Nothing is
\* said of data which was reallocated while it was read, or of a stale picture.
Drawn == {dots[k] : k \in DOMAIN dots}
Inside(s, j) == j \in DOMAIN svs[s] /\ svs[s][j] \in shown
Joins == {<<d[1], d[2], svs[d[1]][d[2] - 1]>> :
            d \in {e \in Drawn : /\ e[2] > 1
                                 /\ Inside(e[1], e[2] - 1) /\ Inside(e[1], e[2])
                                 /\ svs[e[1]][e[2] - 1] # svs[e[1]][e[2]]}}
CameBack(s, j, p) ==
    \E i \in 2..(j - 1) :
       /\ \A k \in i..(j - 1) : Inside(s, k) /\ svs[s][k] = p
       /\ ~Inside(s, i - 1)
       /\ \E h \in 1..(i - 2) :
            /\ svs[s][h] = p
            /\ \A k \in (h + 1)..(i - 1) : ~Inside(s, k)
LinesJoined ==
    y /\ ~torn /\ ~stale =>
       /\ lines \subseteq Joins
       /\ \A l \in Joins \ lines : CameBack(l[1], l[2], l[3])

\* The picture is a prefix of the buffer's points, drawn once each and in
\* order, never a point whose value is not written yet or which was cleared;
\* while the plot is on it comes to show every point (run_gui_thread counts
\* the points under the mutex and plot_data reads them without it).  A stale picture
\* counts as none, and the plot as off until it is built again.
P == INSTANCE Picture WITH data <- Written,
                           picture <- dots,
                           on <- plot_active /\ ~stale
ShowsTheBuffer == P!Spec
=============================================================================
