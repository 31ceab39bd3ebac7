------------------------------- MODULE Config -------------------------------
(***************************************************************************)
(* The configuration: the registered variables of src/lib/mcf2.c, the      *)
(* files they are saved in and loaded from, the Config menu and the        *)
(* commands load_config, save_config and set_var of the terminal           *)
(* (src/main/menu/config_callback.c), and what the variables control: a    *)
(* board of the setup page (src/main/setup/hardware.c) and the limits of   *)
(* an axis of a panel's plot.  The program is started, ends or is killed,  *)
(* and a save may fail half-way.                                           *)
(*                                                                         *)
(* A file is its sequence of lines, a line a variable and its value.       *)
(* Numbers are in units of the seventh decimal, the last one which an      *)
(* entry takes.  A panel means the panel of the plot.  The named file of   *)
(* the file dialogs is one more file; the example files are like the       *)
(* system's defaults.                                                      *)
(***************************************************************************)
EXTENDS Axis

CONSTANTS
    Nodes,      \* the device files of the board
    Limits,     \* the numbers which are typed, loaded or computed as limits
    SysDefault, \* share/default.mcf
    Missing,    \* what is in a file which does not exist
    NoBoard,    \* no board has been connected yet
    MaxOps      \* bound: operations

ASSUME ConfigAssumption ==
    /\ Limits \subseteq Int
    /\ Nodes # {}
    /\ LET Entries == ({"dummy"} \X BOOLEAN) \cup ({"node"} \X Nodes) \cup ({"min", "max"} \X Int)
       IN  SysDefault \in Seq(Entries) /\ Missing \notin Seq(Entries)
    /\ MaxOps \in Nat

VARIABLES
    page,     \* "off", "setup" or "panel"
    node,     \* hw->node[] of the build's driver
    dummy,    \* hw->dummy
    blocked,  \* hw->block_update
    dirty,    \* hw->dirty
    wired,    \* what daq_board_connect was called with last
    axis,     \* axis->limit and axis->limit_history
    activity, \* plot->mcf_activity
    files,    \* file -> its lines
    saved,    \* history: file -> the lines which were written whole, not rounded
    ops       \* the operations so far

hardware == <<node, dummy, blocked, dirty, wired>>
plot == <<axis, activity>>
disk == <<files, saved>>
vars == <<page, hardware, plot, disk, ops>>

Files == {"default", "last", "named"}

-----------------------------------------------------------------------------
(* The settings as a record, and what the lines of a file make of it.       *)

Settings == [node |-> node, dummy |-> dummy, axis |-> axis, activity |-> activity]

Mentions(lines, names) == \E i \in DOMAIN lines : lines[i][1] \in names

\* hardware_node_mcf, hardware_dummy_mcf: the last line of a variable wins.
Given(lines, name, old) ==
    IF Mentions(lines, {name})
    THEN lines[Max({i \in DOMAIN lines : lines[i][1] = name})][2] ELSE old

\* plot_minmax_mcf for "setup": every line is applied in its turn.
ApplyLimit(a, line) ==
    CASE line[1] = "min" -> plot_minmax_mcf(a, "lower", line[2])
      [] line[1] = "max" -> plot_minmax_mcf(a, "upper", line[2])
      [] OTHER -> a

\* mcf_read_file, and mcf_process_string of each line; without the file nothing
\* is read.
mcf_read_file(s, lines) ==
    IF lines = Missing THEN s
    ELSE [node |-> Given(lines, "node", s.node),
          dummy |-> Given(lines, "dummy", s.dummy),
          axis |-> FoldLeft(ApplyLimit, s.axis, lines),
          activity |-> s.activity \/ Mentions(lines, {"min", "max"})]

\* Some line is for the board.
Touches(lines) == lines # Missing /\ Mentions(lines, {"node", "dummy"})

\* mcf_load_defaults, in the order of registration.
Defaults ==
    <<<<"dummy", FALSE>>, <<"node", CHOOSE n \in Nodes : TRUE>>, <<"min", -Unit>>, <<"max", Unit>>>>

\* What the settings are, in the order of registration.
Exact(s) ==
    <<<<"dummy", s.dummy>>, <<"node", s.node>>,
      <<"min", s.axis.value["lower"]>>, <<"max", s.axis.value["upper"]>>>>

\* "%f": six decimals.
Printed(v) == 10 * ((v + 5) \div 10)

\* mcf_write_file, in the order of registration.
mcf_write_file(s) ==
    <<<<"dummy", s.dummy>>, <<"node", s.node>>,
      <<"min", Printed(s.axis.value["lower"])>>, <<"max", Printed(s.axis.value["upper"])>>>>

\* What a value is read as when the end of its line is missing: any name, or a number
\* which lost digits.
Shorter(line) ==
    CASE line[1] = "node" -> Nodes
      [] line[1] \in {"min", "max"} ->
           {v \in Limits : v \in 0..line[2] \/ v \in line[2]..0}
      [] OTHER -> {}

\* What is there of a file behind its first n lines when no more was written: nothing, or
\* the beginning of a line.
Rest(lines, n) ==
    {<<>>} \cup (IF n < Len(lines)
                 THEN {<<<<lines[n + 1][1], v>>>> : v \in Shorter(lines[n + 1])} ELSE {})

\* The settings are written to a file, n whole lines of them: all, or fewer when the disk
\* is full or the program is killed.
Write(file, n) ==
    LET lines == mcf_write_file(Settings)
    IN  /\ \E rest \in Rest(lines, n) :
             files' = [files EXCEPT ![file] = SubSeq(lines, 1, n) \o rest]
        /\ saved' = [saved EXCEPT ![file] = SubSeq(Exact(Settings), 1, n)]

-----------------------------------------------------------------------------
(* The board. *)

Target(n, d) == IF d THEN "dummy" ELSE n

\* hardware_update.
hardware_update ==
    IF blocked THEN dirty' = TRUE /\ UNCHANGED wired
    ELSE dirty' = FALSE /\ wired' = Target(node', dummy')

\* What waits is not looked at.
BugUnblock(touched) ==
    /\ blocked' = FALSE
    /\ dirty' = FALSE
    /\ wired' = IF touched THEN Target(node', dummy') ELSE wired

\* hardware_array_unblock, when lines have been applied or not.
hardware_array_unblock(touched) ==
    /\ blocked' = FALSE
    /\ dirty' = FALSE
    /\ wired' = IF dirty \/ touched THEN Target(node', dummy') ELSE wired

\* The early returns of config_csf leave the board blocked.
StaysBlocked(touched) ==
    /\ blocked' = TRUE
    /\ dirty' = (dirty \/ touched)
    /\ UNCHANGED wired

Assign(s) ==
    /\ node' = s.node /\ dummy' = s.dummy
    /\ axis' = s.axis /\ activity' = s.activity

Op == page # "off" /\ ops < MaxOps /\ ops' = ops + 1

-----------------------------------------------------------------------------
(* The program. *)

Init ==
    /\ page = "off"
    /\ node = CHOOSE n \in Nodes : TRUE
    /\ dummy = TRUE /\ blocked = FALSE /\ dirty = TRUE /\ wired = NoBoard
    /\ axis = axis_init /\ activity = FALSE
    /\ files = [f \in Files |-> Missing] /\ saved = [f \in Files |-> <<>>]
    /\ ops = 0

\* main: the defaults, then the user's file or, without one, the system's,
\* which becomes the user's.
Start ==
    LET new == [node |-> node, dummy |-> TRUE, axis |-> axis_init, activity |-> FALSE]
        def == mcf_read_file(new, Defaults)
        s == mcf_read_file(def, IF files["default"] = Missing THEN SysDefault
                                ELSE files["default"])
    IN  /\ page = "off"
        /\ page' = "setup"
        /\ Assign(s)
        /\ hardware_array_unblock(TRUE)
        /\ IF files["default"] = Missing
           THEN /\ files' = [files EXCEPT !["default"] = mcf_write_file(s)]
                /\ saved' = [saved EXCEPT !["default"] = Exact(s)]
           ELSE UNCHANGED disk
        /\ UNCHANGED ops

\* The end of main writes last.mcf.
Exit ==
    /\ Op
    /\ page' = "off"
    /\ \E n \in 0..4 : Write("last", n)
    /\ UNCHANGED <<hardware, plot>>

\* The program is killed, between two operations or while it saves.
Kill ==
    /\ Op
    /\ page' = "off"
    /\ \/ UNCHANGED disk
       \/ \E f \in {"default", "named"}, n \in 0..3 : Write(f, n)
    /\ UNCHANGED <<hardware, plot>>

EnterPanel ==
    /\ Op
    /\ page = "setup"
    /\ page' = "panel"
    /\ UNCHANGED <<hardware, plot, disk>>

\* plot_build, after a change of the axis or none: limits which were set on the setup
\* page become an entry of the history.
plot_build(a) ==
    /\ axis' = IF activity THEN history_range_append(a) ELSE a
    /\ activity' = FALSE

\* plot_size_cb: the toolkit gives the plot a size, at the beginning of a session or not.
Allocate ==
    /\ page = "panel"
    /\ activity
    /\ plot_build(axis)
    /\ UNCHANGED <<page, hardware, disk, ops>>

LeavePanel ==
    /\ Op
    /\ page = "panel"
    /\ page' = "setup"
    /\ UNCHANGED <<hardware, plot, disk>>

-----------------------------------------------------------------------------
(* The menu and the commands. *)

\* config_cb: a file, the last one, the user's, the system's or the internal
\* defaults.
MenuLoad ==
    /\ Op
    /\ page = "setup"
    /\ \E lines \in {files[f] : f \in Files} \cup {SysDefault, Defaults} :
         Assign(mcf_read_file(Settings, lines)) /\ hardware_array_unblock(Touches(lines))
    /\ UNCHANGED <<page, disk>>

\* config_cb, on any page; the disk may be full.
MenuSave ==
    /\ Op
    /\ \E f \in {"default", "named"}, n \in 0..4 : Write(f, n)
    /\ UNCHANGED <<node, dummy>>
    /\ hardware_array_unblock(FALSE)
    /\ UNCHANGED <<page, plot>>

\* config_csf: load_config, on the setup page.
ClientLoad ==
    /\ Op
    /\ page = "setup"
    /\ \E lines \in {files[f] : f \in Files} \cup {SysDefault, Defaults} :
         Assign(mcf_read_file(Settings, lines)) /\ StaysBlocked(Touches(lines))
    /\ UNCHANGED <<page, disk>>

\* config_csf: save_config, on any page.
ClientSave ==
    /\ Op
    /\ \E f \in {"default", "named"}, n \in 0..4 : Write(f, n)
    /\ StaysBlocked(FALSE)
    /\ UNCHANGED <<page, node, dummy, plot>>

\* config_csf with a mode which there is not: only this one unblocks.
ClientBadMode ==
    /\ Op
    /\ UNCHANGED <<node, dummy>>
    /\ hardware_array_unblock(FALSE)
    /\ UNCHANGED <<page, plot, disk>>

\* The handlers are connected for panels as well.
BugSetHardware ==
    /\ Op
    /\ \/ node' \in Nodes /\ UNCHANGED dummy
       \/ dummy' \in BOOLEAN /\ UNCHANGED node
    /\ hardware_update
    /\ UNCHANGED <<page, blocked, plot, disk>>

\* var_csf: set_var of a variable of the board.  Its handlers are connected
\* for the setup page only.
SetHardware ==
    /\ Op
    /\ page = "setup"
    /\ \/ node' \in Nodes /\ UNCHANGED dummy
       \/ dummy' \in BOOLEAN /\ UNCHANGED node
    /\ hardware_update
    /\ UNCHANGED <<page, blocked, plot, disk>>

\* var_csf: set_var of a limit.
SetLimit ==
    /\ Op
    /\ \E side \in Sides, v \in Limits :
         LET a == plot_minmax_mcf(axis, side, v)
         IN  IF page = "setup" THEN axis' = a /\ activity' = TRUE
             ELSE plot_build(history_range_append(a))
    /\ UNCHANGED <<page, hardware, disk>>

-----------------------------------------------------------------------------
(* The widgets. *)

\* hardware_node_cb and hardware_dummy_cb.
EditHardware ==
    /\ Op
    /\ page = "setup"
    /\ \/ ~dummy /\ node' \in Nodes /\ UNCHANGED dummy
       \/ dummy' = ~dummy /\ UNCHANGED node
    /\ hardware_update
    /\ UNCHANGED <<page, blocked, plot, disk>>

Zoomed(a) ==
    {history_range_increment(a, delta) : delta \in {-1, 1}}
      \cup {zoom_auto(a, l[1], l[2]) : l \in {m \in Limits \X Limits : m[1] < m[2]}}

\* An entry of the axis, and its menu.
EditAxis ==
    /\ Op
    /\ page = "panel"
    /\ \/ \E side \in Sides, v \in Limits : plot_build(plot_minmax_cb(axis, side, v))
       \/ \E a \in Zoomed(axis) : IF a = axis THEN UNCHANGED plot ELSE plot_build(a)
    /\ UNCHANGED <<page, hardware, disk>>

Next ==
    \/ Start \/ Exit \/ Kill \/ EnterPanel \/ Allocate \/ LeavePanel
    \/ MenuLoad \/ MenuSave \/ ClientLoad \/ ClientSave \/ ClientBadMode
    \/ SetHardware \/ SetLimit \/ EditHardware \/ EditAxis

Spec == Init /\ [][Next]_vars

-----------------------------------------------------------------------------
(* Properties. *)

\* The board is the one which the settings name, unless a client's command
\* left it blocked; a board which is not blocked has nothing to catch up.
BoardsFollow ==
    page # "off" /\ ~blocked => ~dirty /\ wired = Target(node, dummy)

\* A board is connected anew while a panel, and its DAQ thread with it, is
\* running only if a client's command left changes of the setup page waiting
\* (config_callback.c says of the unblocking that it is "only applicable to
\* loading", which panels do not do).
ConnectsInSetup == [][page = "panel" /\ wired' # wired => blocked /\ dirty]_vars

\* Whatever the settings are when a file is loaded, and however much of it was written:
\* of what was written whole, the board's variables come back as they were, and the
\* limits too, to six decimals, if the saved lower limit is not above the upper one of
\* now.  If it is, plot_minmax_mcf takes the first line for an error and exchanges the
\* limits.  Nothing is said of the line in which a save broke off.
Line(lines, name) == {lines[i][2] : i \in {j \in DOMAIN lines : lines[j][1] = name}}
SavedIsLoaded ==
    \A f \in Files : page # "off" /\ files[f] # Missing =>
       LET s == mcf_read_file(Settings, files[f])
       IN  /\ Line(saved[f], "dummy") \subseteq {s.dummy}
           /\ Line(saved[f], "node") \subseteq {s.node}
           /\ \A l \in Line(saved[f], "min"), u \in Line(saved[f], "max") :
                Printed(l) <= axis.value["upper"] /\ l <= u
                  => Value(s.axis) = <<Printed(l), Printed(u)>>

\* What zooming loses, zooming finds: whenever the limits change in a panel,
\* the ones from before are one step away in the history.  Not so if they were set on the
\* setup page and the toolkit has not had the plot built since.
ZoomsReturn ==
    [][page = "panel" /\ ~activity /\ Value(axis') # Value(axis)
         => \E i \in {axis'.current - 1, axis'.current + 1} \cap DOMAIN axis'.history :
              axis'.history[i] = Value(axis)]_vars

\* The limits come to be in the wrong order only where a configuration
\* variable has been written past the bounds of the entries, or by zooming
\* back to such limits.
Ordered(limits) == limits[1] <= limits[2]
InStep(a) == \A s \in Sides : a.bound[s] = a.value[Other(s)]
LimitsOrdered ==
    [][InStep(axis) /\ Ordered(Value(axis)) /\ (\A i \in DOMAIN axis.history : Ordered(axis.history[i]))
         => Ordered(Value(axis'))]_vars
=============================================================================
