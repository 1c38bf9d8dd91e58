---------------------------- MODULE MCBootstrap ----------------------------
(* Small instances of Bootstrap for TLC.                                   *)
EXTENDS Bootstrap

History(n) == [i \in 1 .. n |-> [epoch |-> 1, rev |-> i]]

Base == [bucket |-> TRUE, enabled |-> {"CCCP", "HTTP"}, history |-> History(2),
         disk |-> 0, compat |-> FALSE, poll |-> FALSE, ketama |-> FALSE,
         opens |-> "never", defers |-> FALSE, recreates |-> TRUE]
Cluster == [Base EXCEPT !.bucket = FALSE, !.history = History(1)]

MCEnvs ==
  {[Base EXCEPT !.poll = TRUE],
   [Base EXCEPT !.enabled = {"CCCP"}, !.poll = TRUE, !.history = History(3)],
   [Base EXCEPT !.history = History(3)],
   [Base EXCEPT !.compat = TRUE],
   [Base EXCEPT !.ketama = TRUE],
   [Base EXCEPT !.enabled = {"FILE", "CCCP"}, !.disk = 1, !.defers = TRUE],
   [Base EXCEPT !.enabled = Providers, !.disk = 2],
   [Cluster EXCEPT !.opens = "later"],
   [Cluster EXCEPT !.opens = "callback"]}

(* Three configurations: a refresh over HTTP, and HTTP disabled during it  *)
MCMixed == {[Base EXCEPT !.history = History(3)]}

(* lcb_open while a refresh asks for a newer configuration                 *)
MCOpen == {[Cluster EXCEPT !.opens = "later", !.history = History(2)]}

(* Operations before the bootstrap, and an application that carries on     *)
MCDefer == {[Base EXCEPT !.defers = TRUE, !.recreates = FALSE]}

(* A memcached bucket, opened later                                        *)
MCKetama == {[Cluster EXCEPT !.opens = "later", !.ketama = TRUE, !.history = History(2)]}
=============================================================================
