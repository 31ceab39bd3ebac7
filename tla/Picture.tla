------------------------------- MODULE Picture -------------------------------
(***************************************************************************)
(* What a panel's plot promises of its data buffer: the picture shows the  *)
(* first points of the buffer, each once and in order, and goes on to show *)
(* all of them as long as the plot is on.  How it is drawn in slices while *)
(* another thread appends points is in Plot, which implements this.        *)
(***************************************************************************)
EXTENDS Naturals, Sequences

VARIABLES
    data,     \* the points of the buffer
    picture,  \* the points drawn
    on        \* the plot is enabled and its x axis has a channel

vars == <<data, picture, on>>

Init ==
    /\ data = <<>>
    /\ picture = <<>>
    /\ on \in BOOLEAN

Append1 ==
    /\ Len(data') = Len(data) + 1
    /\ SubSeq(data', 1, Len(data)) = data
    /\ UNCHANGED <<picture, on>>

Empty ==
    /\ data' = <<>>
    /\ picture' = <<>>
    /\ on' \in BOOLEAN

Redraw ==
    /\ picture' = <<>>
    /\ on' \in BOOLEAN
    /\ UNCHANGED data

Draw ==
    /\ on
    /\ \E n \in (Len(picture) + 1)..Len(data) : picture' = SubSeq(data, 1, n)
    /\ UNCHANGED <<data, on>>

Next == Append1 \/ Empty \/ Redraw \/ Draw

Spec == Init /\ [][Next]_vars /\ WF_vars(Draw)
==============================================================================
