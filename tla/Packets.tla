------------------------------ MODULE Packets ------------------------------
(***************************************************************************)
(* The life of a key-value command, from the moment it is put on a         *)
(* pipeline to its callback: mc_CMDQUEUE and its pipelines (mcreq.c), the  *)
(* responses, timeouts and socket errors of a Server (mcserver.cc), the    *)
(* retry queue (retryq.cc), the resolution of unknown collections and the  *)
(* relocation of requests under a new cluster map (newconfig.cc).          *)
(*                                                                         *)
(* A command is first one packet and then, each time it is retried or      *)
(* relocated, a renewed copy of it (mcreq_renew_packet): the packet <<c,i>>*)
(* is the i-th copy made for command c. All copies of a command carry the  *)
(* same opaque. The original lives in its pipeline's pool, the copies are  *)
(* detached.                                                               *)
(*                                                                         *)
(* The lists of the code are sets here: what follows does not depend on    *)
(* the order of the packets in them. The bytes, and the order in which the *)
(* send queue writes them, are the subject of Sendq. Writes are            *)
(* synchronous, as under event I/O. The event loop does not run while the  *)
(* application spools commands, so a scheduling context is open or events  *)
(* are delivered, not both.                                                *)
(***************************************************************************)
EXTENDS Naturals, FiniteSets

CONSTANTS
  Cmds,        \* commands, each with one opaque
  Servers,     \* slots for Server objects
  Fallback,    \* the fallback pipeline
  NoServer,    \* no server owns the vbucket
  MaxCopies,   \* bound: packets made for one command
  Collections, \* whether servers may answer UNKNOWN_COLLECTION
  Removable    \* servers that a new cluster map may remove

ASSUME PacketsAssumption ==
  /\ MaxCopies \in Nat /\ MaxCopies >= 2
  /\ Fallback \notin Servers /\ NoServer \notin Servers
  /\ Collections \in BOOLEAN
  /\ Removable \subseteq Servers

VARIABLES
  copies,     \* number of packets made for each command
  ctxqueued,  \* per pipeline: packets in the open scheduling context
  requests,   \* per server: packets waiting for a response
  sendq,      \* per server: packets with bytes still to be written
  retryq,     \* packets in the retry queue
  resolving,  \* packets waiting for their collection ID (packet_wrapper)
  oppkt,      \* per command: the copy RetryOp::pkt points to, 0 for none
  flushed, invoked,  \* packets with MCREQ_F_FLUSHED, MCREQ_F_INVOKED
  freed,      \* packets released
  dropped,    \* commands discarded by lcb_sched_fail
  calls,      \* per command: callbacks delivered
  conn,       \* per server: "none", "idle", "connecting" or "up"
  wire,       \* per server: packets written on this connection, unanswered
  sent,       \* packets ever written
  refused     \* packets that a server answered and did not execute

vars == <<copies, ctxqueued, requests, sendq, retryq, resolving, oppkt,
          flushed, invoked, freed, dropped, calls, conn, wire, sent, refused>>

Copies == 1..MaxCopies
Pkts == Cmds \X Copies
Pipelines == Servers \cup {Fallback}

Renew(p) == <<p[1], p[2] + 1>>
CmdsOf(P) == {c \in Cmds : \E i \in Copies : <<c, i>> \in P}
Exists(s) == conn[s] # "none"

(* Events are delivered only while no scheduling context is open *)
InLoop == \A pl \in Pipelines : ctxqueued[pl] = {}

Init ==
  /\ copies = [c \in Cmds |-> 0] /\ oppkt = [c \in Cmds |-> 0]
  /\ calls = [c \in Cmds |-> 0] /\ dropped = {}
  /\ ctxqueued = [pl \in Pipelines |-> {}]
  /\ requests = [s \in Servers |-> {}] /\ sendq = [s \in Servers |-> {}]
  /\ retryq = {} /\ resolving = {}
  /\ flushed = {} /\ invoked = {} /\ freed = {}
  /\ conn \in [Servers -> {"none", "idle"}]
  /\ wire = [s \in Servers |-> {}]
  /\ sent = {} /\ refused = {}

-----------------------------------------------------------------------------
(* What operations do to packets and commands *)

Handled_Unflushed(P, fl) == P

(* mcreq_packet_handled: of the packets P, now invoked, those with their   *)
(* FLUSHED flag in fl are released.                                        *)
Handled(P, fl) == P \cap fl

(* mcreq__pktflush_callback: of the packets P, now flushed, those with     *)
(* their INVOKED flag in inv are released.                                 *)
Flushed(P, inv) == P \cap inv

(* mcreq_dispatch_response for the commands C *)
Invoke(C) == [c \in Cmds |-> calls[c] + IF c \in C THEN 1 ELSE 0]

(* mcreq_renew_packet for the commands C *)
Renewed(C) == [c \in Cmds |-> copies[c] + IF c \in C THEN 1 ELSE 0]

(* The packets that RetryOp::pkt designates for the commands C *)
OldPkts(C) == {p \in Pkts : p[1] \in C /\ p[2] = oppkt[p[1]]}

(* RetryQueue::add for the commands C: the packet associated so far leaves *)
(* the send queues and is marked as flushed, and the new copy takes its    *)
(* place.                                                                  *)
Unlinked(C) == [s \in Servers |-> sendq[s] \ OldPkts(C)]

Associated_Source(C) == [c \in Cmds |-> IF c \in C THEN copies[c] ELSE oppkt[c]]
Associated(C) == [c \in Cmds |-> IF c \in C THEN copies[c] + 1 ELSE oppkt[c]]

-----------------------------------------------------------------------------
(* Scheduling *)

(* mcreq_basic_packet, mcreq_allocate_packet and mcreq_sched_add; the      *)
(* fallback pipeline takes the commands whose vbucket has no server.       *)
Schedule(c, pl) ==
  /\ copies[c] = 0
  /\ pl # Fallback => Exists(pl)
  /\ copies' = [copies EXCEPT ![c] = 1]
  /\ ctxqueued' = [ctxqueued EXCEPT ![pl] = @ \cup {<<c, 1>>}]
  /\ UNCHANGED <<requests, sendq, retryq, resolving, oppkt, flushed, invoked,
                 freed, dropped, calls, conn, wire, sent, refused>>

(* flush_start on the servers S: an idle one starts to connect *)
FlushStart(S) ==
  [s \in Servers |-> IF s \in S /\ conn[s] = "idle" THEN "connecting" ELSE conn[s]]

(* mcreq_sched_leave: everything spooled is enqueued. The fallback         *)
(* pipeline marks its packets as flushed and hands a copy of each to the   *)
(* retry queue (do_fallback_flush, add_fallback).                          *)
SchedLeave ==
  LET F == ctxqueued[Fallback]
  IN /\ ~InLoop
     /\ ctxqueued' = [pl \in Pipelines |-> {}]
     /\ requests' = [s \in Servers |-> requests[s] \cup ctxqueued[s]]
     /\ sendq' = [s \in Servers |-> sendq[s] \cup ctxqueued[s]]
     /\ conn' = FlushStart({s \in Servers : ctxqueued[s] # {}})
     /\ copies' = Renewed(CmdsOf(F)) /\ oppkt' = Associated(CmdsOf(F))
     /\ retryq' = retryq \cup {Renew(p) : p \in F}
     /\ flushed' = flushed \cup F /\ invoked' = invoked \cup F
     /\ freed' = freed \cup F
     /\ UNCHANGED <<resolving, dropped, calls, wire, sent, refused>>

(* mcreq_sched_fail: everything spooled is released, without a callback *)
SchedFail ==
  LET D == UNION {ctxqueued[pl] : pl \in Pipelines}
  IN /\ ~InLoop
     /\ ctxqueued' = [pl \in Pipelines |-> {}]
     /\ freed' = freed \cup D
     /\ dropped' = dropped \cup CmdsOf(D)
     /\ UNCHANGED <<copies, requests, sendq, retryq, resolving, oppkt, flushed,
                    invoked, calls, conn, wire, sent, refused>>

-----------------------------------------------------------------------------
(* Requests leaving a pipeline *)

(* The requests P leave server s. Those of R are renewed and added to the  *)
(* retry queue, the callback of the others is invoked; then each is marked *)
(* as handled. With drain, finalize_errored_ctx then marks whatever s      *)
(* still has to write as flushed.                                          *)
Leave(s, P, R, drain) ==
  LET C == CmdsOf(R)
      D == IF drain THEN Unlinked(C)[s] ELSE {}
      fl == flushed \cup OldPkts(C)
      inv == invoked \cup P
  IN /\ requests' = [requests EXCEPT ![s] = @ \ P]
     /\ sendq' = [Unlinked(C) EXCEPT ![s] = @ \ D]
     /\ copies' = Renewed(C) /\ oppkt' = Associated(C)
     /\ retryq' = retryq \cup {Renew(p) : p \in R}
     /\ calls' = Invoke(CmdsOf(P \ R))
     /\ flushed' = fl \cup D /\ invoked' = inv
     /\ freed' = freed \cup Handled(P, fl) \cup Flushed(D, inv)

(* A copy can be made of each of the packets P *)
Renewable(P) == \A p \in P : p[2] < MaxCopies

(* try_read, mcreq_pipeline_remove: a response for the packet q, read on   *)
(* server s, is matched by its opaque to a request p.                      *)
Answers(s, q, p) ==
  /\ InLoop /\ conn[s] = "up"
  /\ q \in wire[s] /\ p \in requests[s] /\ p[1] = q[1]

ReplyDone_NotRemoved(s, q, p) ==
  /\ Answers(s, q, p)
  /\ calls' = Invoke({p[1]})
  /\ wire' = [wire EXCEPT ![s] = @ \ {q}]
  /\ UNCHANGED <<copies, ctxqueued, requests, sendq, retryq, resolving, oppkt, flushed,
                 invoked, freed, dropped, conn, sent, refused>>

(* Either p's callback is invoked ... *)
ReplyDone(s, q, p) ==
  /\ Answers(s, q, p)
  /\ Leave(s, {p}, {}, FALSE)
  /\ wire' = [wire EXCEPT ![s] = @ \ {q}]
  /\ UNCHANGED <<ctxqueued, resolving, dropped, conn, sent, refused>>

(* ... or the status is one to retry: NOT_MY_VBUCKET (handle_nmv), warmup, *)
(* a fastpath error, one the error map says to retry ...                   *)
ReplyRetry(s, q, p) ==
  /\ Answers(s, q, p)
  /\ Renewable({p})
  /\ Leave(s, {p}, {p}, FALSE)
  /\ wire' = [wire EXCEPT ![s] = @ \ {q}]
  /\ refused' = refused \cup {q}
  /\ UNCHANGED <<ctxqueued, resolving, dropped, conn, sent>>

(* ... or UNKNOWN_COLLECTION: p is renewed and kept aside until a GET_CID  *)
(* request completes (handle_unknown_collection). The RetryOp moves to the *)
(* copy and still points to the packet it had.                             *)
ReplyCollection(s, q, p) ==
  /\ Collections
  /\ Answers(s, q, p)
  /\ Renewable({p})
  /\ requests' = [requests EXCEPT ![s] = @ \ {p}]
  /\ copies' = Renewed({p[1]})
  /\ resolving' = resolving \cup {Renew(p)}
  /\ invoked' = invoked \cup {p}
  /\ freed' = freed \cup Handled({p}, flushed)
  /\ wire' = [wire EXCEPT ![s] = @ \ {q}]
  /\ refused' = refused \cup {q}
  /\ UNCHANGED <<ctxqueued, sendq, retryq, oppkt, flushed, dropped, calls, conn, sent>>

(* If the GET_CID request cannot be sent, p's callback is invoked instead, *)
(* and the copy is lost.                                                   *)
ReplyUnresolved(s, q, p) ==
  /\ Collections
  /\ Answers(s, q, p)
  /\ Renewable({p})
  /\ requests' = [requests EXCEPT ![s] = @ \ {p}]
  /\ copies' = Renewed({p[1]})
  /\ calls' = Invoke({p[1]})
  /\ invoked' = invoked \cup {p}
  /\ freed' = freed \cup Handled({p}, flushed)
  /\ wire' = [wire EXCEPT ![s] = @ \ {q}]
  /\ refused' = refused \cup {q}
  /\ UNCHANGED <<ctxqueued, sendq, retryq, resolving, oppkt, flushed, dropped, conn, sent>>

(* ... or there is no request with this opaque any more. *)
ReplyOwnerless(s, q) ==
  /\ InLoop /\ conn[s] = "up"
  /\ q \in wire[s] /\ q[1] \notin CmdsOf(requests[s])
  /\ wire' = [wire EXCEPT ![s] = @ \ {q}]
  /\ UNCHANGED <<copies, ctxqueued, requests, sendq, retryq, resolving, oppkt, flushed,
                 invoked, freed, dropped, calls, conn, sent, refused>>

(* io_timeout: the deadline of the requests T has passed, and a timeout is *)
(* never retried.                                                          *)
Timeout(s, T) ==
  /\ InLoop /\ T # {} /\ T \subseteq requests[s]
  /\ Leave(s, T, {}, FALSE)
  /\ UNCHANGED <<ctxqueued, resolving, dropped, conn, wire, sent, refused>>

(* handle_connected with an error, socket_failed: every request is purged, *)
(* those of R into the retry queue. There is no context, so the send queue *)
(* is left as it is, and the server connects when next asked to.           *)
ConnectFailed(s, R) ==
  /\ InLoop /\ conn[s] = "connecting"
  /\ R \subseteq requests[s] /\ Renewable(R)
  /\ Leave(s, requests[s], R, FALSE)
  /\ conn' = [conn EXCEPT ![s] = "idle"]
  /\ UNCHANGED <<ctxqueued, resolving, dropped, wire, sent, refused>>

(* on_error, socket_failed: every request is purged, the context is        *)
(* finalized and the server reconnects.                                    *)
SocketFailed(s, R) ==
  /\ InLoop /\ conn[s] = "up"
  /\ R \subseteq requests[s] /\ Renewable(R)
  /\ Leave(s, requests[s], R, TRUE)
  /\ conn' = [conn EXCEPT ![s] = "connecting"]
  /\ wire' = [wire EXCEPT ![s] = {}]
  /\ UNCHANGED <<ctxqueued, resolving, dropped, sent, refused>>

-----------------------------------------------------------------------------
(* The connection *)

(* handle_connected with a negotiated socket *)
Connected(s) ==
  /\ InLoop /\ conn[s] = "connecting"
  /\ conn' = [conn EXCEPT ![s] = "up"]
  /\ UNCHANGED <<copies, ctxqueued, requests, sendq, retryq, resolving, oppkt, flushed,
                 invoked, freed, dropped, calls, wire, sent, refused>>

(* on_flush_ready, mcreq__pktflush_callback: the last byte of p is written *)
Flush(s, p) ==
  /\ InLoop /\ conn[s] = "up" /\ p \in sendq[s]
  /\ sendq' = [sendq EXCEPT ![s] = @ \ {p}]
  /\ wire' = [wire EXCEPT ![s] = @ \cup {p}]
  /\ sent' = sent \cup {p}
  /\ flushed' = flushed \cup {p}
  /\ freed' = freed \cup Flushed({p}, invoked)
  /\ UNCHANGED <<copies, ctxqueued, requests, retryq, resolving, oppkt, invoked,
                 dropped, calls, conn, refused>>

-----------------------------------------------------------------------------
(* The retry queue and the collection resolution *)

RetryFlush_NotErased(F, dest) ==
  LET due(s) == {p \in retryq \ F : dest[p] = s}
  IN /\ InLoop /\ UNION {due(s) : s \in Servers} # {}
     /\ requests' = [s \in Servers |-> requests[s] \cup due(s)]
     /\ sendq' = [s \in Servers |-> sendq[s] \cup due(s)]
     /\ conn' = FlushStart({s \in Servers : due(s) # {}})
     /\ UNCHANGED <<copies, ctxqueued, retryq, resolving, oppkt, flushed, invoked, freed,
                    dropped, calls, wire, sent, refused>>

(* RetryQueue::flush: the operations F fail, because they timed out or     *)
(* have no server to go to; of the others, those that are due are queued   *)
(* on the server of their vbucket, and the rest stay.                      *)
RetryFlush(F, dest) ==
  LET due(s) == {p \in retryq \ F : dest[p] = s}
      D == UNION {due(s) : s \in Servers}
  IN /\ InLoop /\ F \cup D # {}
     /\ retryq' = retryq \ (F \cup D)
     /\ requests' = [s \in Servers |-> requests[s] \cup due(s)]
     /\ sendq' = [s \in Servers |-> sendq[s] \cup due(s)]
     /\ conn' = FlushStart({s \in Servers : due(s) # {}})
     /\ calls' = Invoke(CmdsOf(F))
     /\ flushed' = flushed \cup F /\ invoked' = invoked \cup F
     /\ freed' = freed \cup F
     /\ UNCHANGED <<copies, ctxqueued, resolving, oppkt, dropped, wire, sent, refused>>

Resolved_Forgotten(p) ==
  /\ InLoop /\ p \in resolving
  /\ resolving' = resolving \ {p}
  /\ UNCHANGED <<copies, ctxqueued, requests, sendq, retryq, oppkt, flushed, invoked,
                 freed, dropped, calls, conn, wire, sent, refused>>

(* The GET_CID request is done, with an ID or with an error: the packet    *)
(* set aside goes to the retry queue (ucadd).                              *)
Resolved(p) ==
  /\ InLoop /\ p \in resolving
  /\ resolving' = resolving \ {p}
  /\ retryq' = retryq \cup {p}
  /\ oppkt' = [oppkt EXCEPT ![p[1]] = p[2]]
  /\ sendq' = Unlinked({p[1]})
  /\ flushed' = flushed \cup OldPkts({p[1]})
  /\ UNCHANGED <<copies, ctxqueued, requests, invoked, freed, dropped, calls, conn,
                 wire, sent, refused>>

-----------------------------------------------------------------------------
(* A new cluster map *)

(* replace_config: a server that was not there *)
AddServer(s) ==
  /\ InLoop /\ ~Exists(s)
  /\ conn' = [conn EXCEPT ![s] = "idle"]
  /\ UNCHANGED <<copies, ctxqueued, requests, sendq, retryq, resolving, oppkt, flushed,
                 invoked, freed, dropped, calls, wire, sent, refused>>

(* replace_config: server s is gone. iterwipe_cb renews the requests that  *)
(* have a server in the new map and queues them there; the others fail     *)
(* with MAP_CHANGED. The server is closed: with a context what it had to   *)
(* write is marked as flushed; without one the object is deleted, its pool *)
(* with the original packets, and detached packets are forgotten.          *)
RemoveServer(s, dest) ==
  LET M == {p \in requests[s] : dest[p] # NoServer}
      D == sendq[s]
      up == conn[s] = "up"
      inv == invoked \cup requests[s]
      moved(t) == {Renew(p) : p \in {q \in M : dest[q] = t}}
  IN /\ InLoop /\ s \in Removable /\ Exists(s) /\ Renewable(M)
     /\ requests' = [t \in Servers |-> IF t = s THEN {} ELSE requests[t] \cup moved(t)]
     /\ sendq' = [t \in Servers |-> IF t = s THEN {} ELSE sendq[t] \cup moved(t)]
     /\ copies' = Renewed(CmdsOf(M)) /\ calls' = Invoke(CmdsOf(requests[s] \ M))
     /\ invoked' = inv
     /\ flushed' = flushed \cup (IF up THEN D ELSE {})
     /\ freed' = freed \cup Handled(requests[s], flushed)
                       \cup (IF up THEN Flushed(D, inv) ELSE {p \in D : p[2] = 1})
     /\ conn' = [FlushStart({t \in Servers : moved(t) # {}}) EXCEPT ![s] = "none"]
     /\ wire' = [wire EXCEPT ![s] = {}]
     /\ UNCHANGED <<ctxqueued, retryq, resolving, oppkt, dropped, sent, refused>>

(* Where the cluster map may send the packets P *)
Destinations(P, S) == [P -> {s \in S : Exists(s)} \cup {NoServer}]

-----------------------------------------------------------------------------
Next ==
  \/ \E c \in Cmds, pl \in Pipelines : Schedule(c, pl)
  \/ SchedLeave
  \/ SchedFail
  \/ \E s \in Servers :
       \/ \E q \in wire[s] :
            \/ \E p \in requests[s] : \/ ReplyDone(s, q, p)
                                      \/ ReplyRetry(s, q, p)
                                      \/ ReplyCollection(s, q, p)
                                      \/ ReplyUnresolved(s, q, p)
            \/ ReplyOwnerless(s, q)
       \/ \E T \in SUBSET requests[s] : Timeout(s, T)
       \/ \E R \in SUBSET requests[s] : ConnectFailed(s, R) \/ SocketFailed(s, R)
       \/ Connected(s)
       \/ \E p \in sendq[s] : Flush(s, p)
       \/ AddServer(s)
       \/ \E dest \in Destinations(requests[s], Servers \ {s}) : RemoveServer(s, dest)
  \/ \E F \in SUBSET retryq : \E dest \in Destinations(retryq \ F, Servers) :
       RetryFlush(F, dest)
  \/ \E p \in resolving : Resolved(p)

Spec == Init /\ [][Next]_vars

(* The event loop runs: an open scheduling context is closed, the timers   *)
(* of the servers and of the retry queue fire, and the GET_CID request,    *)
(* itself a request with a deadline, completes.                            *)
Fairness ==
  /\ WF_vars(SchedLeave \/ SchedFail)
  /\ \A s \in Servers : WF_vars(\E T \in SUBSET requests[s] : Timeout(s, T))
  /\ WF_vars(\E F \in SUBSET retryq : \E dest \in Destinations(retryq \ F, Servers) :
                RetryFlush(F, dest))
  /\ WF_vars(\E p \in resolving : Resolved(p))

FairSpec == Spec /\ Fairness

-----------------------------------------------------------------------------
Spooled == UNION {ctxqueued[pl] : pl \in Pipelines}
Requests == UNION {requests[s] : s \in Servers}
SendQueued == UNION {sendq[s] : s \in Servers}

(* Where the packets of a command may wait for something to happen *)
Held == Spooled \cup Requests \cup retryq \cup resolving

TypeOK ==
  /\ copies \in [Cmds -> 0..MaxCopies] /\ oppkt \in [Cmds -> 0..MaxCopies]
  /\ calls \in [Cmds -> Nat] /\ dropped \subseteq Cmds
  /\ ctxqueued \in [Pipelines -> SUBSET Pkts]
  /\ requests \in [Servers -> SUBSET Pkts] /\ sendq \in [Servers -> SUBSET Pkts]
  /\ wire \in [Servers -> SUBSET Pkts]
  /\ retryq \subseteq Pkts /\ resolving \subseteq Pkts
  /\ flushed \subseteq Pkts /\ invoked \subseteq Pkts /\ freed \subseteq Pkts
  /\ conn \in [Servers -> {"none", "idle", "connecting", "up"}]
  /\ sent \subseteq Pkts /\ refused \subseteq Pkts
  /\ \A p \in retryq : oppkt[p[1]] = p[2]

(* The callback of a command is invoked at most once; a command that has   *)
(* been scheduled and was neither completed nor discarded is still held by *)
(* a queue, so that a response, a timer or an error will complete it; and  *)
(* no queue holds a command that is over.                                  *)
ExactlyOnce ==
  \A c \in Cmds :
    /\ calls[c] <= 1
    /\ (copies[c] > 0 /\ calls[c] = 0 /\ c \notin dropped) => c \in CmdsOf(Held)
    /\ (calls[c] = 1 \/ c \in dropped) => c \notin CmdsOf(Held)

(* A command waits in one queue only, as its latest copy: it cannot be     *)
(* answered by one pipeline while another one or the retry queue has it.   *)
OneHolder ==
  /\ \A p \in Held : p[2] = copies[p[1]]
  /\ \A s, t \in Servers : s # t => requests[s] \cap requests[t] = {}
  /\ Requests \cap (retryq \cup resolving \cup Spooled) = {}
  /\ retryq \cap (resolving \cup Spooled) = {} /\ resolving \cap Spooled = {}

(* No queue refers to a released packet. *)
QueuedAreLive == freed \cap (Held \cup SendQueued) = {}

(* mcreq_packet_done: a packet is released when, and as soon as, both its  *)
(* references are gone, or with the scheduling context it was spooled in.  *)
ReleasedWhenDone ==
  /\ flushed \cap invoked \subseteq freed
  /\ \A p \in freed : p \in flushed \cap invoked \/ p[1] \in dropped

(* RetryQueue::add dereferences RetryOp::pkt: as long as the command may   *)
(* be retried, that packet has not been released.                          *)
OpPktValid ==
  \A p \in Held : oppkt[p[1]] # 0 => <<p[1], oppkt[p[1]]>> \notin freed

(* RetryQueue::add makes sure that a command in the retry queue has no     *)
(* detached copy left to be written by a pipeline.                         *)
RetriedNotQueued ==
  \A p \in retryq, q \in SendQueued : q[1] = p[1] => q[2] = 1

(* However often a command is retried, the copies that RetryQueue::add     *)
(* detaches are released when they are done, not before and not never; the *)
(* copy it goes on from exists; and none waits in two places.              *)
RetrySafe == ReleasedWhenDone /\ OpPktValid /\ RetriedNotQueued

(* A command is not executed twice: it is never written again after a copy *)
(* was written that no server refused.                                     *)
SentOnce ==
  \A c \in Cmds :
    \A p, q \in sent \ refused : p[1] = c /\ q[1] = c => p = q

(* Every command that was scheduled is completed or discarded: whatever    *)
(* happens to connections and maps, its callback is invoked unless the     *)
(* application discarded it.                                               *)
EventuallyCalled ==
  \A c \in Cmds : copies[c] > 0 ~> (calls[c] = 1 \/ c \in dropped)

-----------------------------------------------------------------------------
(* What the application sees of a command. A second callback would be no   *)
(* status of Completion.                                                   *)
Status(c) ==
  CASE copies[c] = 0 -> "new"
    [] c \in dropped -> "dropped"
    [] calls[c] = 1 -> "done"
    [] calls[c] > 1 -> "done twice"
    [] c \in CmdsOf(Spooled) -> "spooled"
    [] OTHER -> "accepted"

status == [c \in Cmds |-> Status(c)]

Abs == INSTANCE Completion WITH Cmds <- Cmds, status <- status

(* The queues, servers, retries and relocations implement the promise of   *)
(* the command API: see Completion.                                        *)
ImplementsCompletion == Abs!Spec
=============================================================================
