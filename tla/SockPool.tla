------------------------------ MODULE SockPool ------------------------------
(***************************************************************************)
(* The socket pool of one host (lcbio/manager.cc: Pool, PoolHost,          *)
(* PoolConnInfo, PoolRequest), composed with the connection attempts of    *)
(* Connect that it starts, and with its users (HTTP requests, servers, the *)
(* CCCP provider), who may get, cancel, put and discard at any time,       *)
(* inside the handlers that the pool invokes included.                     *)
(***************************************************************************)
EXTENDS Connect, Sequences, FiniteSets

CONSTANTS
  NReq,         \* bound: requests made, numbered in the order of get()
  Envs          \* the environments to consider, each a record of
                \*   nreq: the number of requests, at most NReq
                \*   naddr: the addresses of the host
                \*   io: "E" event I/O, "C" completion I/O
                \*   maxidle: Options::maxidle
                \*   error_events: the I/O plugin reports LCB_ERROR_EVENT
                \*   cancel_others: a handler told of a failure may cancel
                \*     other requests of the host
                \*   late_cancel: shutdown may fall between the result of a
                \*     completion-mode attempt and its delivery

ASSUME PoolAssumption ==
  /\ Envs \subseteq [nreq : 0 .. NReq, naddr : 1 .. MaxAddr, io : {"E", "C"},
                     maxidle : Nat, error_events : BOOLEAN,
                     cancel_others : BOOLEAN, late_cancel : BOOLEAN]
  /\ NReq \in Nat

Reqs == 1 .. NReq       \* PoolRequest objects
Conns == 1 .. NReq      \* PoolConnInfo objects: get() makes at most one each,
                        \* which has the number of the request
None == 0               \* NULL; also the end of a list

VARIABLES
  env,          \* the environment of this behaviour; it never changes
  cs,           \* the attempts and the sockets of the connections
  info,         \* PoolConnInfo::state, with "none" before and "dead" after
  idle_timer,   \* the connections whose idle_timer is armed
  ll_idle, ll_pending,  \* the lists of PoolHost
  requests,     \* PoolHost::requests, waiting for a connection
  req,          \* PoolRequest: its state, its sock
  held,         \* the sockets that users have and have not given back
  async,        \* PoolHost::async is signalled
  n_total, hostref, poolref, down,
  loop          \* the loop that invokes handlers: "none", "available" or
                \* "failed"; conn: the connection whose on_connected runs it;
                \* nxt: the list position saved; user: a handler is running

vars == <<env, cs, info, idle_timer, ll_idle, ll_pending, requests, req, held,
          async, n_total, hostref, poolref, down, loop>>
counters == <<n_total, hostref, poolref, down>>

Items(list) == {list[i] : i \in DOMAIN list}

(* lcb_clist_delete: an item leaves the list it is in                      *)
UnlinkAt(list, i) == SubSeq(list, 1, i - 1) \o SubSeq(list, i + 1, Len(list))
Unlink(list, x) ==
  IF x \in Items(list) THEN UnlinkAt(list, CHOOSE i \in DOMAIN list : list[i] = x) ELSE list

Live(r) == req[r].state \in {"ASSIGNED", "PENDING"}
Loop(kind, c, r) == [kind |-> kind, conn |-> c, nxt |-> r, user |-> FALSE]
NoLoop == Loop("none", None, None)
Idle == loop.kind = "none"      \* the event loop may dispatch
UserRuns == Idle \/ loop.user   \* a user of the pool may call it

Init ==
  /\ env \in Envs
  /\ cs = [c \in Conns |-> NoAttempt]
  /\ info = [c \in Conns |-> "none"]
  /\ idle_timer = {} /\ ll_idle = <<>> /\ ll_pending = {} /\ requests = <<>>
  /\ req = [r \in Reqs |-> [state |-> "none", sock |-> None]]
  /\ held = {} /\ async = FALSE
  /\ n_total = 0 /\ hostref = 1 /\ poolref = 2 /\ down = FALSE
  /\ loop = NoLoop
-----------------------------------------------------------------------------
(* ~PoolConnInfo of the connections C, which leave `idle` in the idle      *)
(* list; the last reference of the host drops that of the pool.            *)
DeleteInfos(C, idle, other) ==
  /\ info' = [c \in Conns |-> IF c \in C THEN "dead" ELSE info[c]]
  /\ idle_timer' = idle_timer \ C
  /\ ll_idle' = idle
  /\ n_total' = n_total - Cardinality(C)
  /\ hostref' = hostref - Cardinality(C) - other
  /\ poolref' = poolref - other - (IF hostref' = 0 THEN 1 ELSE 0)

(* lcbio_unref of a pooled socket by its only owner: it is destroyed, and  *)
(* with it (cinfo_protoctx_dtor) its PoolConnInfo.                         *)
UnrefSock(c) ==
  /\ cs' = [cs EXCEPT ![c] = Unref(@)]
  /\ IF cs[c].ref = 1 THEN DeleteInfos({c}, Unlink(ll_idle, c), 0)
     ELSE UNCHANGED <<info, idle_timer, ll_idle, n_total, hostref, poolref>>

(* PoolRequest::invoke: the user's handler takes over the socket, if any,  *)
(* and the reference that the pool had.                                    *)
Invoked(r, c) ==
  /\ req' = [req EXCEPT ![r] = [state |-> "called", sock |-> None]]
  /\ held' = IF c = None THEN held ELSE held \cup {c}
-----------------------------------------------------------------------------
(* Pool::get. The idle connections after position k are found closed by    *)
(* lcbio_is_netclosed; the one at k, if any, is taken. Otherwise the       *)
(* request waits, and start_new_connection makes a connection unless there *)
(* are as many pending as requests.                                        *)
GetIdle(r, k) ==
  LET dead == {ll_idle[i] : i \in (k + 1) .. Len(ll_idle)}
      c == ll_idle[k]
  IN /\ cs' = [d \in Conns |-> IF d \in dead THEN Unref(cs[d]) ELSE cs[d]]
     /\ info' = [d \in Conns |-> IF d \in dead THEN "dead" ELSE
                                 IF d = c THEN "LEASED" ELSE info[d]]
     /\ idle_timer' = idle_timer \ (dead \cup {c})
     /\ ll_idle' = SubSeq(ll_idle, 1, k - 1)
     /\ n_total' = n_total - Cardinality(dead)
     /\ hostref' = hostref - Cardinality(dead)
     /\ req' = [req EXCEPT ![r] = [state |-> "ASSIGNED", sock |-> c]]
     /\ UNCHANGED <<ll_pending, requests>>

(* Mutant: the comparison comes before the request is in the list.         *)
NeedsConnection_Before == Cardinality(ll_pending) < Len(requests) \/ ll_pending = {}

NeedsConnection == Cardinality(ll_pending) < Len(requests) + 1

GetPending(r) ==
  LET dead == Items(ll_idle)
      gone == [d \in Conns |-> IF d \in dead THEN Unref(cs[d]) ELSE cs[d]]
      new == NeedsConnection
  IN /\ req' = [req EXCEPT ![r] = [state |-> "PENDING", sock |-> None]]
     /\ requests' = Append(requests, r)
     /\ ll_idle' = <<>> /\ idle_timer' = idle_timer \ dead
     /\ IF new
        THEN /\ \E s \in Connstart(env.io, env.naddr) : cs' = [gone EXCEPT ![r] = s]
             /\ info' = [d \in Conns |-> IF d \in dead THEN "dead" ELSE
                                         IF d = r THEN "PENDING" ELSE info[d]]
             /\ ll_pending' = ll_pending \cup {r}
        ELSE /\ cs' = gone
             /\ info' = [d \in Conns |-> IF d \in dead THEN "dead" ELSE info[d]]
             /\ UNCHANGED ll_pending
     /\ n_total' = n_total - Cardinality(dead) + (IF new THEN 1 ELSE 0)
     /\ hostref' = hostref - Cardinality(dead) + (IF new THEN 1 ELSE 0)

Get(r) ==
  /\ UserRuns /\ ~down /\ r <= env.nreq
  /\ req[r].state = "none" /\ \A q \in 1 .. (r - 1) : req[q].state /= "none"
  /\ GetPending(r) \/ \E k \in 1 .. Len(ll_idle) : GetIdle(r, k)
  /\ UNCHANGED <<env, held, async, poolref, down, loop>>

(* Pool::put: closed when there are maxidle idle ones, else idle.          *)
PutSock(c) ==
  IF Len(ll_idle) >= env.maxidle
  THEN UnrefSock(c)
  ELSE /\ idle_timer' = idle_timer \cup {c}
       /\ ll_idle' = Append(ll_idle, c)
       /\ info' = [info EXCEPT ![c] = "IDLE"]
       /\ UNCHANGED <<cs, n_total, hostref, poolref>>

Put(c) ==
  /\ UserRuns /\ c \in held /\ held' = held \ {c}
  /\ PutSock(c)
  /\ UNCHANGED <<env, ll_pending, requests, req, async, down, loop>>

Discard(c) ==
  /\ UserRuns /\ c \in held /\ held' = held \ {c}
  /\ UnrefSock(c)
  /\ UNCHANGED <<env, ll_pending, requests, req, async, down, loop>>

(* Mutant: the cancelled request stays in the list.                        *)
CancelRequest_Listed(r) ==
  /\ UserRuns /\ Live(r) /\ Idle /\ req[r].sock = None
  /\ req' = [req EXCEPT ![r] = [state |-> "cancelled", sock |-> None]]
  /\ UNCHANGED <<env, cs, info, idle_timer, ll_idle, ll_pending, requests, held, async,
                 counters, loop>>

(* PoolRequest::cancel                                                     *)
CancelRequest(r) ==
  /\ UserRuns /\ Live(r)
  /\ loop.kind = "failed" /\ req[r].state = "PENDING" => env.cancel_others
  /\ req' = [req EXCEPT ![r] = [state |-> "cancelled", sock |-> None]]
  /\ IF req[r].sock /= None
     THEN /\ PutSock(req[r].sock) /\ async' = TRUE
          /\ UNCHANGED requests
     ELSE /\ requests' = Unlink(requests, r)
          /\ UNCHANGED <<cs, info, idle_timer, ll_idle, n_total, hostref, poolref, async>>
  /\ UNCHANGED <<env, ll_pending, held, down, loop>>
-----------------------------------------------------------------------------
(* The attempt makes progress without a result for the pool: an event, or  *)
(* a C_conncb that fails or finds its Connstart gone.                      *)
ConnectProgress(c) ==
  /\ Idle
  /\ \/ /\ cs[c].watched /\ cs[c].st = "CS_PENDING"
        /\ \E s \in WriteEvent(cs[c]) \cup
                    (IF env.error_events THEN ErrorEvent(cs[c]) ELSE {}) :
             cs' = [cs EXCEPT ![c] = s]
     \/ /\ cs[c].flight
        /\ \E s \in ConncbFailed(cs[c]) : cs' = [cs EXCEPT ![c] = s]
  /\ UNCHANGED <<env, info, idle_timer, ll_idle, ll_pending, requests, req, held,
                 async, counters, loop>>

(* Mutant: on_connected forgets the idle timer.                            *)
OnConnected_NoTimer(c, s) ==
  /\ ll_pending' = ll_pending \ {c}
  /\ s.result = "SUCCESS"
  /\ cs' = [cs EXCEPT ![c] = [s EXCEPT !.ref = @ + 1]]
  /\ info' = [info EXCEPT ![c] = "IDLE"]
  /\ ll_idle' = Append(ll_idle, c)
  /\ loop' = Loop("available", c, None)
  /\ UNCHANGED <<env, idle_timer, requests, req, held, async, counters>>

(* PoolConnInfo::on_connected, up to its loop over the requests. s is the  *)
(* attempt when its handler is entered.                                    *)
OnConnected(c, s) ==
  /\ ll_pending' = ll_pending \ {c}
  /\ IF s.result = "SUCCESS"
     THEN /\ cs' = [cs EXCEPT ![c] = [s EXCEPT !.ref = @ + 1]]
          /\ info' = [info EXCEPT ![c] = "IDLE"]
          /\ ll_idle' = Append(ll_idle, c)
          /\ idle_timer' = idle_timer \cup {c}
          /\ loop' = Loop("available", c, None)
     ELSE /\ cs' = [cs EXCEPT ![c] = s]
          /\ loop' = Loop("failed", c, IF requests = <<>> THEN None ELSE Head(requests))
          /\ UNCHANGED <<info, ll_idle, idle_timer>>
  /\ UNCHANGED <<env, requests, req, held, async, counters>>

(* Mutant: the timer only delivers states that were signalled.             *)
ConnectTimer_NoTimeout(c) ==
  /\ Idle /\ cs[c].st \in {"CS_CONNECTED", "CS_ERROR"}
  /\ OnConnected(c, HandlerBegin(cs[c]))

(* Connstart::handler is entered from its timer (a timeout or a signalled  *)
(* state) ...                                                              *)
ConnectTimer(c) ==
  /\ Idle /\ cs[c].st \in {"CS_PENDING", "CS_CONNECTED", "CS_ERROR"}
  /\ OnConnected(c, HandlerBegin(cs[c]))

(* ... or from C_conncb.                                                   *)
ConnectCompleted(c) ==
  /\ Idle /\ cs[c].flight /\ cs[c].ref > 1
  /\ OnConnected(c, HandlerBegin(ConncbConnected(cs[c])))

(* An iteration of connection_available.                                   *)
ConnectionAvailable ==
  /\ loop.kind = "available" /\ requests /= <<>> /\ ll_idle /= <<>>
  /\ LET c == ll_idle[Len(ll_idle)]
     IN /\ requests' = Tail(requests)
        /\ ll_idle' = SubSeq(ll_idle, 1, Len(ll_idle) - 1)
        /\ info' = [info EXCEPT ![c] = "LEASED"]
        /\ idle_timer' = idle_timer \ {c}
        /\ Invoked(Head(requests), c)
        /\ loop' = [loop EXCEPT !.user = TRUE]
  /\ UNCHANGED <<env, cs, ll_pending, async, counters>>

(* The loop ends; in on_connected, ~Connstart follows.                     *)
ConnectionAvailableEnd ==
  /\ loop.kind = "available" /\ (requests = <<>> \/ ll_idle = <<>>)
  /\ loop' = NoLoop
  /\ IF loop.conn = None
     THEN UNCHANGED <<cs, info, idle_timer, ll_idle, n_total, hostref, poolref>>
     ELSE LET c == loop.conn
          IN /\ cs' = [cs EXCEPT ![c] = HandlerEnd(@)]
             /\ IF cs[c].ref = 1 /\ info[c] /= "dead" THEN DeleteInfos({c}, Unlink(ll_idle, c), 0)
                ELSE UNCHANGED <<info, idle_timer, ll_idle, n_total, hostref, poolref>>
  /\ UNCHANGED <<env, ll_pending, requests, req, held, async, down>>

(* An iteration of the LCB_LIST_SAFE_FOR of on_connected: the position     *)
(* after this request is saved before its handler is invoked. A saved      *)
(* position that is no longer in the list is freed memory.                 *)
FailRequest ==
  /\ loop.kind = "failed" /\ loop.nxt /= None
  /\ IF loop.nxt \notin Items(requests)
     THEN loop' = [loop EXCEPT !.kind = "dangling"] /\ UNCHANGED <<requests, req, held>>
     ELSE LET r == loop.nxt
              i == CHOOSE j \in 1 .. Len(requests) : requests[j] = r
          IN /\ loop' = [loop EXCEPT !.user = TRUE,
                                   !.nxt = IF i = Len(requests) THEN None
                                           ELSE requests[i + 1]]
             /\ requests' = Unlink(requests, r)
             /\ Invoked(r, None)
  /\ UNCHANGED <<env, cs, info, idle_timer, ll_idle, ll_pending, async, counters>>

FailRequestsEnd ==
  /\ loop.kind = "failed" /\ loop.nxt = None
  /\ loop' = NoLoop
  /\ cs' = [cs EXCEPT ![loop.conn] = HandlerEnd(@)]
  /\ DeleteInfos({loop.conn}, ll_idle, 0)
  /\ UNCHANGED <<env, ll_pending, requests, req, held, async, down>>

(* PoolRequest::timer_handler: signalled by set_ready, or a timeout.       *)
RequestTimer(r) ==
  /\ Idle /\ Live(r)
  /\ Invoked(r, req[r].sock)
  /\ requests' = Unlink(requests, r)
  /\ UNCHANGED <<env, cs, info, idle_timer, ll_idle, ll_pending, async, counters, loop>>

(* PoolConnInfo::on_idle_timeout                                           *)
IdleTimeout(c) ==
  /\ Idle /\ c \in idle_timer
  /\ UnrefSock(c)
  /\ UNCHANGED <<env, ll_pending, requests, req, held, async, down, loop>>

(* PoolHost::async: connection_available for what a cancellation put back. *)
AsyncAvailable ==
  /\ Idle /\ async
  /\ async' = FALSE
  /\ loop' = Loop("available", None, None)
  /\ UNCHANGED <<env, cs, info, idle_timer, ll_idle, ll_pending, requests, req, held, counters>>

(* Pool::shutdown, from lcb_destroy, which has cancelled the requests      *)
(* before: idle connections are closed, attempts cancelled.                *)
Shutdown ==
  /\ Idle /\ ~down /\ \A r \in Reqs : ~Live(r)
  /\ \A c \in ll_pending : env.io = "C" /\ ~env.late_cancel => cs[c].flight
  /\ down' = TRUE /\ async' = FALSE
  /\ cs' = [c \in Conns |-> IF c \in Items(ll_idle) THEN Unref(cs[c]) ELSE
                            IF c \in ll_pending THEN CancelAttempt(cs[c], env.io)
                            ELSE cs[c]]
  /\ ll_pending' = {}
  /\ DeleteInfos(Items(ll_idle) \cup ll_pending, <<>>, 1)
  /\ UNCHANGED <<env, requests, req, held, loop>>
-----------------------------------------------------------------------------
Next ==
  \/ \E r \in Reqs : Get(r) \/ CancelRequest(r) \/ RequestTimer(r)
  \/ \E c \in Conns : Put(c) \/ Discard(c) \/ IdleTimeout(c)
                      \/ ConnectProgress(c) \/ ConnectTimer(c) \/ ConnectCompleted(c)
  \/ ConnectionAvailable \/ ConnectionAvailableEnd
  \/ FailRequest \/ FailRequestsEnd
  \/ AsyncAvailable \/ Shutdown

(* The event loop fires every armed timer, a loop goes on, a connect() in  *)
(* flight completes. Users need not do anything.                           *)
Fairness ==
  /\ \A r \in Reqs : WF_vars(RequestTimer(r))
  /\ \A c \in Conns : WF_vars(ConnectTimer(c)) /\ WF_vars(IdleTimeout(c))
  /\ WF_vars(ConnectionAvailable \/ ConnectionAvailableEnd)
  /\ WF_vars(FailRequest \/ FailRequestsEnd)

Spec == Init /\ [][Next]_vars /\ Fairness
-----------------------------------------------------------------------------
TypeOK ==
  /\ env \in Envs
  /\ cs \in [Conns -> AttemptType]
  /\ info \in [Conns -> {"none", "PENDING", "IDLE", "LEASED", "dead"}]
  /\ idle_timer \subseteq Conns /\ held \subseteq Conns /\ ll_pending \subseteq Conns
  /\ ll_idle \in Seq(Conns) /\ requests \in Seq(Reqs)
  /\ req \in [Reqs -> [state : {"none", "PENDING", "ASSIGNED", "called", "cancelled"},
                       sock : Conns \cup {None}]]
  /\ {async, down} \subseteq BOOLEAN
  /\ n_total \in 0 .. Cardinality(Conns) /\ hostref \in Nat /\ poolref \in Nat
  /\ loop \in [kind : {"none", "available", "failed", "dangling"},
               conn : Conns \cup {None}, nxt : Reqs \cup {None}, user : BOOLEAN]

(* Whenever the event loop is in control, there is a connection attempt    *)
(* for every waiting request, whatever requests, failures and              *)
(* cancellations came inside handlers: get() starts one only if            *)
(* num_pending() < num_requests().                                         *)
WaitersCovered == Idle => Len(requests) <= Cardinality(ll_pending)

(* A connection is idle, assigned to one request or in the hands of one    *)
(* user, never two of these; and one that left the idle list is not lost.  *)
Owners(c) ==
  {<<"request", r>> : r \in {q \in Reqs : req[q].sock = c}}
    \cup {<<"user", c>> : d \in held \cap {c}} \cup {<<"pool", c>> : d \in Items(ll_idle) \cap {c}}
NotShared ==
  \A c \in Conns :
    /\ Cardinality(Owners(c)) <= 1
    /\ Idle /\ info[c] \in {"IDLE", "LEASED"} => Owners(c) /= {}

(* The references to a socket are those of its Connstart, of a C_connect   *)
(* in flight and of the owner of the connection: none is leaked and none   *)
(* dropped twice, also when the timeout or a cancellation of an attempt    *)
(* meets a completion that is still to come.  PoolHost::n_total counts the *)
(* connections; the host lives as long as they do, and the pool as long as *)
(* the host: after shutdown, nothing is left once the last leased          *)
(* connection has come back.                                               *)
References ==
  /\ \A c \in Conns :
       cs[c].ref = (IF cs[c].st \in {"CS_PENDING", "CS_CONNECTED", "CS_ERROR", "handler"}
                    THEN 1 ELSE 0)
                   + (IF cs[c].flight THEN 1 ELSE 0) + Cardinality(Owners(c))
  /\ n_total = Cardinality({c \in Conns : info[c] \in {"PENDING", "IDLE", "LEASED"}})
  /\ hostref = n_total + (IF down THEN 0 ELSE 1)
  /\ poolref = (IF down THEN 0 ELSE 1) + (IF hostref > 0 THEN 1 ELSE 0)

(* Who may use a connection and who keeps it alive agree at all times.     *)
Ownership == NotShared /\ References

(* An attempt fails with LCB_ERR_CONNECT_ERROR only when every address of  *)
(* the host has been tried (LCB_ERROR_EVENT apart, see ErrorEvent).        *)
EveryAddressTried ==
  \A c \in Conns : cs[c].result = "CONNECT_ERROR" /\ ~env.error_events
                     => cs[c].tried = 1 .. cs[c].n

(* The list position that on_connected saved while a handler runs is a     *)
(* request that still waits.                                               *)
SafeIteration == loop.kind /= "dangling"

(* What get() promises for its handles, and lcbio_connect() for its own:   *)
(* one answer each, the handler's or the cancellation, never both, and     *)
(* always one.                                                             *)
RequestStatus ==
  [r \in Reqs |-> IF Live(r) THEN "waiting" ELSE req[r].state]
AttemptStatus ==
  [c \in Conns |->
     IF cs[c].st = "none" THEN "none" ELSE
     IF cs[c].st \in {"handler", "gone"} THEN "called" ELSE
     IF cs[c].st = "CS_CANCELLED" THEN "cancelled" ELSE "waiting"]
Requests == INSTANCE ConnectionRequest WITH Handles <- Reqs, status <- RequestStatus
Attempts == INSTANCE ConnectionRequest WITH Handles <- Conns, status <- AttemptStatus

ImplementsRequests == Requests!Spec
ImplementsAttempts == Attempts!Spec

(* Every idle connection is eventually used or closed.                     *)
IdleEnds == \A c \in Conns : info[c] = "IDLE" ~> info[c] /= "IDLE"
=============================================================================
