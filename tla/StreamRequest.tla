--------------------------- MODULE StreamRequest ---------------------------
(***************************************************************************)
(* What the library promises the program that asks for a stream of rows,   *)
(* whatever carries it: the rows come in order, each once, and after the   *)
(* last one there is one final callback and nothing more.  A program that  *)
(* cancels hears nothing again.                                            *)
(***************************************************************************)
EXTENDS Naturals, Sequences

VARIABLES
    status,     \* "open", "done" or "cancelled"
    rows        \* the rows delivered

vars == <<status, rows>>

Init == status = "open" /\ rows = <<>>

(***************************************************************************)
(* The program may cancel from within a row's callback, and the final      *)
(* callback may follow the last row at once.                               *)
(***************************************************************************)
Deliver ==
    /\ status = "open"
    /\ rows' = Append(rows, Len(rows) + 1)
    /\ status' \in {"open", "done", "cancelled"}

Finish == status = "open" /\ status' = "done" /\ UNCHANGED rows

Cancel == status = "open" /\ status' = "cancelled" /\ UNCHANGED rows

Next == Deliver \/ Finish \/ Cancel

Spec == Init /\ [][Next]_vars /\ WF_vars(Finish)

=============================================================================
