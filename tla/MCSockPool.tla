----------------------------- MODULE MCSockPool -----------------------------
(* Instances of SockPool for TLC.                                          *)
EXTENDS SockPool

Env(nreq, naddr, io, maxidle, ev, others, late) ==
  [nreq |-> nreq, naddr |-> naddr, io |-> io, maxidle |-> maxidle,
   error_events |-> ev, cancel_others |-> others, late_cancel |-> late]

(* Two requests to a host with two addresses; three to one with a single   *)
(* address.                                                                *)
MCEnvs ==
  {Env(2, 2, "E", 1, FALSE, FALSE, TRUE), Env(2, 2, "E", 2, TRUE, FALSE, TRUE),
   Env(2, 2, "C", 1, FALSE, FALSE, FALSE), Env(3, 1, "E", 1, FALSE, FALSE, TRUE)}

(* A handler told of a failure cancels another request of the same host.   *)
MCCancel == {Env(2, 1, "E", 1, FALSE, TRUE, TRUE)}
=============================================================================
