------------------------------ MODULE Replies -------------------------------
(***************************************************************************)
(* What the terminal server promises: the requests are answered in the     *)
(* order in which they were sent, each once, and every one as long as the  *)
(* server runs.  Which thread answers, and when it may, is in Control,     *)
(* which implements this.                                                  *)
(***************************************************************************)
EXTENDS Naturals, Sequences

CONSTANT Kinds   \* what a reply may be

VARIABLES
    asked,    \* how many requests have been sent
    replies,  \* the replies to the first of them
    up        \* the server runs

vars == <<asked, replies, up>>

Init ==
    /\ asked = 0
    /\ replies = <<>>
    /\ up = TRUE

Ask ==
    /\ asked' = asked + 1
    /\ UNCHANGED <<replies, up>>

Answer ==
    /\ Len(replies) < asked
    /\ \E k \in Kinds : replies' = Append(replies, k)
    /\ UNCHANGED <<asked, up>>

Stop ==
    /\ up
    /\ up' = FALSE
    /\ UNCHANGED <<asked, replies>>

Next == Ask \/ Answer \/ Stop

Spec == Init /\ [][Next]_vars /\ WF_vars(up /\ Answer)
=============================================================================
