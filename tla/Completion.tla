----------------------------- MODULE Completion -----------------------------
(***************************************************************************)
(* What the library promises for the commands that the application         *)
(* schedules, whatever pipelines, retries and cluster maps do below:       *)
(* commands are spooled in a scheduling context that is accepted or        *)
(* discarded as a whole (lcb_sched_enter, lcb_sched_leave, lcb_sched_fail),*)
(* and the callback of an accepted command is invoked once.                *)
(***************************************************************************)
CONSTANT Cmds

VARIABLE status

States == {"new", "spooled", "accepted", "dropped", "done"}

Init == status = [c \in Cmds |-> "new"]

In(st) == {c \in Cmds : status[c] = st}

(* The commands of C change to the status st *)
Become(C, st) == status' = [c \in Cmds |-> IF c \in C THEN st ELSE status[c]]

Submit(c) == status[c] = "new" /\ Become({c}, "spooled")

Accept == In("spooled") # {} /\ Become(In("spooled"), "accepted")

Discard == In("spooled") # {} /\ Become(In("spooled"), "dropped")

(* Events complete any number of accepted commands, outside of a           *)
(* scheduling context.                                                     *)
Complete(C) == In("spooled") = {} /\ C \subseteq In("accepted") /\ Become(C, "done")

Next ==
  \/ \E c \in Cmds : Submit(c)
  \/ Accept
  \/ Discard
  \/ \E C \in SUBSET Cmds : Complete(C)

Spec == Init /\ [][Next]_status
=============================================================================
