------------------------- MODULE ConnectionRequest -------------------------
(***************************************************************************)
(* What a caller of lcbio_connect() or Pool::get() is promised             *)
(* (lcbio/connect.h, lcbio/manager.h): a request handle is answered once,  *)
(* by its handler or by being cancelled, and every handle is answered.     *)
(* Connect and SockPool implement it, each for its own handles.            *)
(***************************************************************************)
CONSTANT Handles        \* the request handles

VARIABLE status         \* of each handle: "none", "waiting", "called", "cancelled"

Init == status = [h \in Handles |-> "none"]

\* The handle is given out.
Request(h) ==
  /\ status[h] = "none"
  /\ status' = [status EXCEPT ![h] = "waiting"]

\* The handler of the handle is invoked.
Call(h) ==
  /\ status[h] = "waiting"
  /\ status' = [status EXCEPT ![h] = "called"]

\* The owner of some handles cancels them.
Cancel(H) ==
  /\ H /= {} /\ \A h \in H : status[h] = "waiting"
  /\ status' = [h \in Handles |-> IF h \in H THEN "cancelled" ELSE status[h]]

Next ==
  \/ \E h \in Handles : Request(h) \/ Call(h)
  \/ \E H \in SUBSET Handles : Cancel(H)

\* "The handler will always be invoked unless the request has been
\* cancelled" (lcbio/connect.h).
Answered == \A h \in Handles : status[h] = "waiting" ~> status[h] /= "waiting"

Spec == Init /\ [][Next]_status /\ Answered
=============================================================================
