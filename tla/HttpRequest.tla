---------------------------- MODULE HttpRequest ----------------------------
(***************************************************************************)
(* The HTTP request object (lcb::http::Request, src/src/http/http.cc and   *)
(* http_io.cc): its reference count, its status flags, the connection it   *)
(* waits for or owns, its timer, and the nodes it has been sent to.        *)
(*                                                                         *)
(* The object's methods call back into the views and query code, which     *)
(* pause, cancel and create requests in turn.  This module holds the       *)
(* methods that call nobody; HttpClients holds the ones that invoke the    *)
(* callback.  Every operator takes the state s of the whole client and     *)
(* returns the state after the call; s.ht[h] is the request in slot h.     *)
(***************************************************************************)
EXTENDS Naturals, Sequences, FiniteSets

CONSTANTS
    NNodes,     \* nodes that offer the service
    NHttp,      \* request objects that may be alive together
    Envs        \* the programs that use the library

ASSUME HttpAssumption == NNodes \in Nat \ {0} /\ NHttp \in Nat \ {0}

Nodes == 1..NNodes
Slots == 1..NHttp

(***************************************************************************)
(* refs, cb (CBINVOKED), fin (FINISHED), paused, passed (passed_data),     *)
(* used and rev (used_nodes, last_vbcrev), hops (redircount), timer        *)
(* (armed), pend (listed in instance->pendops).  io is "conn" while the    *)
(* pool owes a connection (creq) and "io" while there is an ioctx; want    *)
(* is the context's rdwant and reading an outstanding read of a            *)
(* completion-based I/O plugin.  code is the parsed status, row the rows   *)
(* parsed from this answer, clean says that all of it was well formed, odd *)
(* that it ends in an error for which the query code has no status, and    *)
(* left bounds what the server may still send.  owner is the query handle  *)
(* given as the cookie (0 for the other programs).                         *)
(***************************************************************************)
NoRequest ==
    [live |-> FALSE, refs |-> 0, cb |-> FALSE, fin |-> FALSE, io |-> "none",
     want |-> FALSE, reading |-> FALSE, paused |-> FALSE, passed |-> FALSE,
     timer |-> FALSE, pend |-> FALSE, used |-> {}, rev |-> 0, hops |-> 0,
     code |-> "none", row |-> 0, clean |-> TRUE, odd |-> FALSE, left |-> 0, owner |-> 0]

IsOngoing(r) == ~r.cb /\ ~r.fin

CloseIo(s, h) ==
    [s EXCEPT !.ht[h].io = "none", !.ht[h].want = FALSE, !.ht[h].reading = FALSE]

(* A reference dropped from a request that is gone trips the assertion. *)
Decref(s, h) ==
    CASE s.ht[h].refs = 0 -> [s EXCEPT !.inst.fault = TRUE]
      [] s.ht[h].refs = 1 -> [s EXCEPT !.ht[h] = NoRequest]
      [] OTHER            -> [s EXCEPT !.ht[h].refs = @ - 1]

Incref(s, h) == [s EXCEPT !.ht[h].refs = @ + 1]

(* What finish() does after the callback. *)
FinishTail(s, h) ==
    IF s.ht[h].fin THEN s
    ELSE Decref([s EXCEPT !.ht[h].fin = TRUE, !.ht[h].pend = FALSE, !.ht[h].timer = FALSE], h)

CancelHttp(s, h) ==
    IF ~IsOngoing(s.ht[h]) THEN s ELSE FinishTail([s EXCEPT !.ht[h].cb = TRUE], h)

(* The nodes get_api_node() may pick from, if any has the service; the pick. *)
ApiNodes(s, h) ==
    CASE ~s.inst.svc                -> {}
      [] s.ht[h].rev # s.inst.rev   -> Nodes
      [] OTHER                      -> Nodes \ s.ht[h].used

GetApiNode(s, h, n) ==
    [s EXCEPT !.ht[h].used = (Nodes \ ApiNodes(s, h)) \cup {n}, !.ht[h].rev = s.inst.rev]

(* submit() and start_io(): the timer keeps running when it is armed. *)
Submit(s, h) ==
    LET c == CloseIo(s, h)
    IN  [c EXCEPT !.ht[h].io = "conn", !.ht[h].timer = TRUE, !.ht[h].code = "none",
                  !.ht[h].row = 0, !.ht[h].left = s.env.items, !.ht[h].clean = TRUE, !.ht[h].odd = FALSE,
                  !.out.intact = FALSE, !.out.odd = FALSE]

(* Request::create(), the first node chosen: submit(), lcb_aspend_add(). *)
CreateHttp(s, h, q) ==
    [Submit([s EXCEPT !.ht[h] = [NoRequest EXCEPT !.live = TRUE, !.refs = 1, !.owner = q]], h)
        EXCEPT !.ht[h].pend = TRUE]

FreeSlot(s) == CHOOSE h \in Slots : ~s.ht[h].live

Pause(s, h) ==
    IF s.ht[h].paused THEN s
    ELSE [s EXCEPT !.ht[h].paused = TRUE, !.ht[h].want = FALSE]

Resume(s, h) ==
    IF ~s.ht[h].paused \/ s.ht[h].io # "io" THEN s
    ELSE [s EXCEPT !.ht[h].paused = FALSE, !.ht[h].want = TRUE, !.ht[h].reading = TRUE]

=============================================================================
