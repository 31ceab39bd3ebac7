------------------------------- MODULE Trigger -------------------------------
(***************************************************************************)
(* The triggers of a panel: an IF expression and a list of instruction     *)
(* lines each.  On every pass the DAQ thread parses the edited lines,      *)
(* tests the IF of the armed triggers and executes the lines of the busy   *)
(* ones (run_triggers), holding trigger_mutex throughout; instructions     *)
(* arm, disarm, force and cancel triggers themselves, through the local    *)
(* control server and without locking.  The GUI thread edits lines and     *)
(* handles the two buttons of a trigger between passes.                    *)
(*                                                                         *)
(* An expression is reduced to its effect: a test of measured values, a    *)
(* wait, a trigger instruction, or another instruction.                    *)
(***************************************************************************)
EXTENDS Integers, Sequences

CONSTANTS
    NTrig,     \* M2_MAX_TRIG
    NLine,     \* lines after the IF, M2_TRIGGER_LINES - 1
    Programs,  \* the expressions a configuration may load: [Trigs -> [Lines -> Exprs]]
    Edits,     \* the expressions a user may type
    MaxOps     \* bound: edits, clicks, commands and changes of session in a behaviour

ASSUME TriggerAssumption == NTrig \in Nat \ {0} /\ NLine \in Nat \ {0} /\ MaxOps \in Nat

VARIABLES
    expr,       \* Trigger.line_expr
    lineDirty,  \* the lines with Trigger.line_dirty, of each trigger
    cf,         \* Trigger.line_cf: the expressions parsed
    trig,       \* the rest of each Trigger
    stuck,      \* the local server has a command nobody answered
    pass,       \* where the DAQ thread is in run_triggers
    at,         \* the trigger it treats
    shown,      \* the state of the ARM and THEN buttons
    ops,        \* operations so far
    deadClick,  \* triggers whose THEN button was pressed when not ready (history)
    selfCancel  \* triggers which were cancelled by a line of their own (history)

program == <<expr, lineDirty, cf>>
vars == <<program, trig, stuck, pass, at, shown, ops, deadClick, selfCancel>>

Trigs    == 1 .. NTrig
IF_Line  == 0
Lines    == 0 .. NLine
Commands == {"arm", "disarm", "force", "cancel"}
Verbs    == {"empty", "cond", "wait", "other", "unknown"}
Exprs    == [verb : Verbs, id : {0}] \cup [verb : Commands, id : Trigs]
Plain(v) == [verb |-> v, id |-> 0]
Passes   == {"idle", "check", "exec", "lines"}

\* armed, busy, ready, arm_dirty, busy_dirty and cur of a trigger; waiting stands for
\* wait_time > 0; ran is history: the lines passed since cur was last set to 1.
TriggerState == [armed : BOOLEAN, busy : BOOLEAN, ready : BOOLEAN, armDirty : BOOLEAN,
                 busyDirty : BOOLEAN, cur : 1 .. NLine + 1, waiting : BOOLEAN, ran : Seq(1 .. NLine)]

Init ==
    /\ expr \in Programs
    /\ lineDirty = [n \in Trigs |-> Lines]
    /\ cf = [n \in Trigs |-> [l \in Lines |-> Plain("empty")]]
    /\ trig = [n \in Trigs |->
                 [armed |-> FALSE, busy |-> FALSE, ready |-> FALSE, armDirty |-> FALSE,
                  busyDirty |-> FALSE, cur |-> 1, waiting |-> FALSE, ran |-> <<>>]]
    /\ stuck = FALSE
    /\ pass = "idle"
    /\ at = 1
    /\ shown = [n \in Trigs |-> [arm |-> FALSE, force |-> FALSE]]
    /\ ops = 0
    /\ deadClick = {}
    /\ selfCancel = {}
-----------------------------------------------------------------------------
Operation == ops < MaxOps /\ ops' = ops + 1
MutexFree == pass = "idle"

\* start_trigger.
Started(t) ==
    IF ~t.ready THEN t
    ELSE [t EXCEPT !.armed = FALSE, !.armDirty = @ \/ t.armed, !.cur = 1, !.waiting = FALSE,
                   !.busy = TRUE, !.busyDirty = TRUE, !.ran = <<>>]

\* trigger_csf whose arm_trigger does not tell the GUI thread.
BugCommanded(t, verb) ==
    CASE verb = "arm" /\ ~t.armed   -> [t EXCEPT !.armed = TRUE]
      [] verb = "disarm" /\ t.armed -> [t EXCEPT !.armed = FALSE, !.armDirty = TRUE]
      [] verb = "force" /\ ~t.busy  -> Started(t)
      [] verb = "cancel" /\ t.busy  -> [t EXCEPT !.busy = FALSE, !.busyDirty = TRUE]
      [] OTHER -> t

\* trigger_csf.
Commanded(t, verb) ==
    CASE verb = "arm" /\ ~t.armed   -> [t EXCEPT !.armed = TRUE, !.armDirty = TRUE]
      [] verb = "disarm" /\ t.armed -> [t EXCEPT !.armed = FALSE, !.armDirty = TRUE]
      [] verb = "force" /\ ~t.busy  -> Started(t)
      [] verb = "cancel" /\ t.busy  -> [t EXCEPT !.busy = FALSE, !.busyDirty = TRUE]
      [] OTHER -> t

\* An expression with trigger instructions (ComputeFunc.parse_exec).
Instructs(e) == e.verb \in Commands \cup {"wait", "other", "unknown"}

\* send_recv_local_cfunc: the command is executed unless an earlier one, which no
\* callback took, still occupies the local server.
Applied(e) ==
    IF e.verb \in Commands /\ ~stuck THEN [trig EXCEPT ![e.id] = Commanded(@, e.verb)] ELSE trig

\* What compute_function_test may return for the expression.
MaySucceed(e) == e.verb \in {"cond", "wait"} \/ (~stuck /\ e.verb \in Commands \cup {"other"})
MayFail(e)    == e.verb \notin Commands \cup {"wait"} \/ (stuck /\ e.verb \in Commands)
-----------------------------------------------------------------------------
(* The DAQ thread: run_triggers.                                           *)

\* trigger_parse of every trigger with a dirty line, in the order of the lines: an
\* IF with instructions makes the trigger not ready and disarms it, any other line
\* makes it ready.
DaqParse ==
    /\ pass = "idle"
    /\ pass' = "check"
    /\ cf' = [n \in Trigs |-> [l \in Lines |-> IF l \in lineDirty[n] THEN expr[n][l] ELSE cf[n][l]]]
    /\ lineDirty' = [n \in Trigs |-> {}]
    /\ trig' = [n \in Trigs |->
                  LET t      == trig[n]
                      refuse == IF_Line \in lineDirty[n] /\ Instructs(expr[n][IF_Line])
                  IN  [t EXCEPT !.ready = IF lineDirty[n] = {} THEN @
                                          ELSE ~refuse \/ lineDirty[n] # {IF_Line},
                                !.armed = @ /\ ~refuse,
                                !.armDirty = @ \/ (t.armed /\ refuse)]]
    /\ UNCHANGED <<expr, stuck, at, shown, ops, deadClick, selfCancel>>

\* The next trigger of the second or third loop, or what follows the loop.
GoOn ==
    /\ at' = IF at < NTrig THEN at + 1 ELSE 1
    /\ pass' = IF at < NTrig THEN (IF pass = "check" THEN "check" ELSE "exec")
               ELSE IF pass = "check" THEN "exec" ELSE "idle"

\* trigger_check: an armed, ready trigger whose IF is true starts.
DaqCheck ==
    /\ pass = "check"
    /\ LET e == cf[at][IF_Line]
       IN  IF trig[at].armed /\ trig[at].ready
           THEN /\ \/ MaySucceed(e) /\ trig' = [Applied(e) EXCEPT ![at] = Started(@)]
                   \/ MayFail(e) /\ UNCHANGED trig
                /\ stuck' = (stuck \/ e.verb = "unknown")
           ELSE UNCHANGED <<trig, stuck>>
    /\ GoOn
    /\ UNCHANGED <<program, shown, ops, deadClick, selfCancel>>

\* trigger_exec of a trigger which is not busy, or whose wait is not over.
DaqSkip ==
    /\ pass = "exec"
    /\ ~trig[at].busy \/ trig[at].waiting
    /\ GoOn
    /\ UNCHANGED <<program, trig, stuck, shown, ops, deadClick, selfCancel>>

\* trigger_exec goes to the line it is at.
DaqEnter ==
    /\ pass = "exec" /\ trig[at].busy
    /\ pass' = "lines"
    /\ trig' = [trig EXCEPT ![at].waiting = FALSE]
    /\ UNCHANGED <<program, stuck, at, shown, ops, deadClick, selfCancel>>

\* The run is over: the last line is done, or a line was not true.
EndRun(t) == [t EXCEPT !.busy = FALSE, !.busyDirty = TRUE, !.waiting = FALSE]

DaqFinish ==
    /\ pass = "lines" /\ trig[at].cur > NLine
    /\ trig' = [trig EXCEPT ![at] = EndRun(@)]
    /\ GoOn
    /\ UNCHANGED <<program, stuck, shown, ops, deadClick, selfCancel>>

\* A loop which does not advance past an instruction that started another trigger.
BugDaqLine ==
    /\ pass = "lines" /\ trig[at].cur <= NLine
    /\ LET l == trig[at].cur
           e == cf[at][l]
       IN  /\ stuck' = (stuck \/ e.verb = "unknown")
           /\ selfCancel' = IF e.verb = "cancel" /\ e.id = at /\ ~stuck
                            THEN selfCancel \cup {at} ELSE selfCancel
           /\ \/ /\ MaySucceed(e)
                 /\ trig' = [Applied(e) EXCEPT ![at].cur = IF e.verb = "force" THEN @ ELSE @ + 1,
                                               ![at].waiting = (e.verb = "wait")]
                 /\ IF e.verb = "wait" THEN GoOn ELSE UNCHANGED <<pass, at>>
              \/ /\ MayFail(e)
                 /\ trig' = [trig EXCEPT ![at] = EndRun(@)]
                 /\ GoOn
    /\ UNCHANGED <<program, shown, ops, deadClick>>

\* One turn of trigger_exec's loop: a line which is true lets the next one follow,
\* after a pause if it waits.
DaqLine ==
    /\ pass = "lines" /\ trig[at].cur <= NLine
    /\ LET l == trig[at].cur
           e == cf[at][l]
       IN  /\ stuck' = (stuck \/ e.verb = "unknown")
           /\ selfCancel' = IF e.verb = "cancel" /\ e.id = at /\ ~stuck
                            THEN selfCancel \cup {at} ELSE selfCancel
           /\ \/ /\ MaySucceed(e)
                 /\ trig' = [Applied(e) EXCEPT ![at].cur = @ + 1,
                                               ![at].waiting = (e.verb = "wait"),
                                               ![at].ran = Append(@, l)]
                 /\ IF e.verb = "wait" THEN GoOn ELSE UNCHANGED <<pass, at>>
              \/ /\ MayFail(e)
                 /\ trig' = [trig EXCEPT ![at] = EndRun(@)]
                 /\ GoOn
    /\ UNCHANGED <<program, shown, ops, deadClick>>

\* trigger_csf for a command from the terminal, before run_triggers.
DaqCommand(n, verb) ==
    /\ MutexFree /\ Operation
    /\ trig' = [trig EXCEPT ![n] = Commanded(@, verb)]
    /\ UNCHANGED <<program, stuck, pass, at, shown, deadClick, selfCancel>>
-----------------------------------------------------------------------------
(* The GUI thread.                                                         *)

\* trigger_expr_cb and trigger_expr_mcf.
GuiEdit(n, l, e) ==
    /\ MutexFree /\ Operation
    /\ expr' = [expr EXCEPT ![n][l] = e]
    /\ lineDirty' = [lineDirty EXCEPT ![n] = @ \cup {l}]
    /\ UNCHANGED <<cf, trig, stuck, pass, at, shown, deadClick, selfCancel>>

\* trigger_button_cb for ARM: the button, not the trigger, is toggled.
GuiArm(n) ==
    /\ MutexFree /\ Operation
    /\ trig' = [trig EXCEPT ![n].armed = ~shown[n].arm, ![n].armDirty = TRUE]
    /\ shown' = [shown EXCEPT ![n].arm = ~@]
    /\ UNCHANGED <<program, stuck, pass, at, deadClick, selfCancel>>

\* trigger_button_cb for THEN which does not lock trigger_mutex.
BugGuiForce(n) ==
    /\ Operation
    /\ trig' = [trig EXCEPT ![n] = IF shown[n].force
                                   THEN [@ EXCEPT !.busy = FALSE, !.busyDirty = TRUE]
                                   ELSE Started(@)]
    /\ shown' = [shown EXCEPT ![n].force = ~@]
    /\ deadClick' = IF shown[n].force THEN deadClick \ {n}
                    ELSE IF trig[n].ready THEN deadClick ELSE deadClick \cup {n}
    /\ UNCHANGED <<program, stuck, pass, at, selfCancel>>

\* trigger_button_cb for THEN: start, or cancel.  GTK toggles the button even when
\* start_trigger refused.
GuiForce(n) ==
    /\ MutexFree /\ Operation
    /\ trig' = [trig EXCEPT ![n] = IF shown[n].force
                                   THEN [@ EXCEPT !.busy = FALSE, !.busyDirty = TRUE]
                                   ELSE Started(@)]
    /\ shown' = [shown EXCEPT ![n].force = ~@]
    /\ deadClick' = IF shown[n].force THEN deadClick \ {n}
                    ELSE IF trig[n].ready THEN deadClick ELSE deadClick \cup {n}
    /\ UNCHANGED <<program, stuck, pass, at, selfCancel>>

\* set_trigger_buttons_all.  It sets the buttons after it has released the mutex,
\* but only this thread looks at them.
GuiShow ==
    /\ MutexFree
    /\ shown' = [n \in Trigs |->
                   [arm   |-> IF trig[n].armDirty THEN trig[n].armed ELSE shown[n].arm,
                    force |-> IF trig[n].busyDirty THEN trig[n].busy ELSE shown[n].force]]
    /\ UNCHANGED <<program, trig, stuck, pass, at, ops, deadClick, selfCancel>>

\* The panel is left and shown again: trigger_array_update sends every trigger back to
\* its first line, a busy one too.
NewSession ==
    /\ MutexFree /\ Operation
    /\ trig' = [n \in Trigs |-> [trig[n] EXCEPT !.cur = 1, !.waiting = FALSE, !.ran = <<>>]]
    /\ UNCHANGED <<program, stuck, pass, at, shown, deadClick, selfCancel>>
-----------------------------------------------------------------------------
DaqStep == DaqCheck \/ DaqSkip \/ DaqEnter \/ DaqFinish \/ DaqLine

Next ==
    \/ DaqParse \/ DaqStep
    \/ \E n \in Trigs, verb \in Commands : DaqCommand(n, verb)
    \/ \E n \in Trigs, l \in Lines, e \in Edits : GuiEdit(n, l, e)
    \/ \E n \in Trigs : GuiArm(n) \/ GuiForce(n)
    \/ GuiShow \/ NewSession

Spec == Init /\ [][Next]_vars

\* The DAQ thread keeps running.
FairSpec == Spec /\ WF_vars(DaqStep)
-----------------------------------------------------------------------------
TypeOK ==
    /\ expr \in [Trigs -> [Lines -> Exprs]]
    /\ lineDirty \in [Trigs -> SUBSET Lines]
    /\ cf \in [Trigs -> [Lines -> Exprs]]
    /\ trig \in [Trigs -> TriggerState]
    /\ stuck \in BOOLEAN
    /\ pass \in Passes
    /\ at \in Trigs
    /\ shown \in [Trigs -> [arm : BOOLEAN, force : BOOLEAN]]
    /\ ops \in 0 .. MaxOps
    /\ deadClick \subseteq Trigs
    /\ selfCancel \subseteq Trigs

\* The lines a trigger has passed are the first ones, each once and in order, however
\* it was started, cancelled, started again while it waited, or edited
\* (start_trigger and trigger_exec).  The exception is a trigger cancelled by a
\* line of its own: its loop goes on, and when a later line forces the trigger,
\* the first line is left out.
RunInOrder ==
    \A n \in Trigs \ selfCancel :
        trig[n].ran = [i \in 1 .. trig[n].cur - 1 |-> i]

\* A line is executed only while its trigger is busy: no click and no command gets
\* between the test of busy in run_triggers and the lines, except a cancel among
\* those lines.
NoLineAfterCancel == pass = "lines" => trig[at].busy \/ at \in selfCancel

\* Both: the lines of a trigger run in order, and only while it is busy.
PassInOrder == RunInOrder /\ NoLineAfterCancel

\* A button which differs from its trigger is going to be set: every path that arms,
\* disarms, starts or ends a trigger marks it for set_trigger_buttons_all.  The
\* exception is a THEN button pressed when the trigger could not start.
ButtonsFollow ==
    \A n \in Trigs :
        /\ shown[n].arm # trig[n].armed => trig[n].armDirty
        /\ shown[n].force # trig[n].busy => trig[n].busyDirty \/ n \in deadClick

\* run_triggers comes to an end, so the DAQ thread goes on acquiring and releases
\* trigger_mutex, unless a line cancelled its own trigger (a later line which forces
\* it again closes a loop inside trigger_exec).
PassEnds == pass # "idle" ~> pass = "idle" \/ selfCancel # {}
-----------------------------------------------------------------------------
(* The inductive invariant behind the first two.                           *)

\* The lines before the one the trigger is at.
InOrder(t) == t.ran = [i \in 1 .. t.cur - 1 |-> i]

OrderInv ==
    /\ trig \in [Trigs -> TriggerState]
    /\ at \in Trigs
    /\ pass \in Passes
    /\ RunInOrder
    /\ NoLineAfterCancel
-----------------------------------------------------------------------------
(* Why a pass ends: the work left of it.                                   *)

\* No pass takes more steps from here than this, with NLine + 2 for each trigger whose
\* lines are still to come.
PassLeft ==
    CASE pass = "idle"  -> 0
      [] pass = "check" -> NTrig + 1 - at + NTrig * (NLine + 2)
      [] pass = "exec"  -> (NTrig + 1 - at) * (NLine + 2)
      [] pass = "lines" -> (NTrig - at) * (NLine + 2) + NLine + 2 - trig[at].cur

\* Whatever the instructions of the lines do to the triggers, this one included, every
\* step during a pass leaves less to do, unless a line has cancelled its own trigger.
PassShrinks ==
    [][pass # "idle" /\ selfCancel' = {} => PassLeft' < PassLeft]_vars
=============================================================================
