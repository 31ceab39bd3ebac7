------------------------------ MODULE MCTrigger ------------------------------
EXTENDS Trigger, TLC

\* The first trigger forces, cancels and arms itself or the second, or waits; the second
\* one waits, cancels the first or goes on.  An IF tests a value or contains an instruction.
IfExprs     == {Plain("cond"), Plain("other")}
FirstExprs  == {Plain("wait"), [verb |-> "force", id |-> 2], [verb |-> "force", id |-> 1],
                [verb |-> "cancel", id |-> 1], [verb |-> "arm", id |-> 1]}
SecondExprs == {Plain("wait"), [verb |-> "cancel", id |-> 1], [verb |-> "force", id |-> 1],
                Plain("unknown")}

MCPrograms ==
    {[n \in 1 .. 2 |-> IF n = 1 THEN (0 :> i @@ 1 :> a @@ 2 :> b)
                                ELSE (0 :> Plain("cond") @@ 1 :> c @@ 2 :> Plain("cond"))] :
        i \in IfExprs, a \in FirstExprs, b \in FirstExprs, c \in SecondExprs}

MCEdits == {Plain("empty")}
=============================================================================
