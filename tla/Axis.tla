-------------------------------- MODULE Axis --------------------------------
(***************************************************************************)
(* The limits of an axis and their history: NumericRange and HistoryRange  *)
(* of src/lib/entry.c with the two entries which show the limits, and what *)
(* src/main/plot/axis.c and plot_callback.c do with them.  An axis is a    *)
(* record, an operation a function of it.                                  *)
(***************************************************************************)
EXTENDS Integers, Sequences, SequencesExt

CONSTANT MaxHistory     \* M2_MAX_HISTORY

ASSUME AxisAssumption == MaxHistory \in Nat /\ MaxHistory >= 2

\* 1.0, in units of the seventh decimal.
Unit == 10000000

Sides == {"lower", "upper"}
Other(side) == IF side = "lower" THEN "upper" ELSE "lower"

\* value and bound are the limits, and the other limit as the entry of this
\* one was last offered it; current counts from 1, 0 is the code's -1.
Value(a) == <<a.value["lower"], a.value["upper"]>>

\* set_range offers the value to the entry of the other limit as its bound.
set_range(a, side, v) == [a EXCEPT !.value[side] = v, !.bound[Other(side)] = v]
set_both(a, lower, upper) == set_range(set_range(a, "lower", lower), "upper", upper)

\* rectify_range exchanges limits which are in the wrong order.
rectify_range(a) ==
    IF a.value["lower"] > a.value["upper"]
    THEN set_both(a, a.value["upper"], a.value["lower"]) ELSE a

\* Numbers are taken as they are typed.
BugCheckEntry(a, side, v) == v

\* check_entry: what a typed number becomes.
check_entry(a, side, v) ==
    IF (side = "lower" /\ v > a.bound["lower"]) \/ (side = "upper" /\ v < a.bound["upper"])
    THEN a.bound[side] ELSE v

\* The future is kept.
BugAppend(a) ==
    LET kept == IF Len(a.history) = MaxHistory THEN Tail(a.history) ELSE a.history
    IN  [a EXCEPT !.history = Append(kept, Value(a)), !.current = Len(kept) + 1]

\* The future is cut off, and the oldest goes if the history is full.
history_range_append(a) ==
    LET past == SubSeq(a.history, 1, a.current)
        kept == IF Len(past) = MaxHistory THEN Tail(past) ELSE past
    IN  [a EXCEPT !.history = Append(kept, Value(a)), !.current = Len(kept) + 1]

history_range_increment(a, delta) ==
    LET c == a.current + delta
        b == set_both(a, a.history[c][1], a.history[c][2])
    IN  IF c \in DOMAIN a.history THEN [b EXCEPT !.current = c] ELSE a

\* axis_init.
axis_init ==
    [value |-> [s \in Sides |-> -Unit], bound |-> [s \in Sides |-> -Unit],
     history |-> <<>>, current |-> 0]

\* plot_minmax_cb: a number typed into an entry.
plot_minmax_cb(a, side, v) ==
    history_range_append(set_range(a, side, check_entry(a, side, v)))

\* zoom_axis, automatically: the limits which fit the data.
zoom_auto(a, lower, upper) ==
    IF Value(a) = <<lower, upper>> THEN a
    ELSE history_range_append(set_both(a, lower, upper))

\* The value is checked like a typed one.
BugMinmaxMcf(a, side, v) == rectify_range([a EXCEPT !.value[side] = check_entry(a, side, v)])

\* plot_minmax_mcf: the value of a configuration variable goes past set_range,
\* unless it comes to be in the wrong order.
plot_minmax_mcf(a, side, v) == rectify_range([a EXCEPT !.value[side] = v])
=============================================================================
