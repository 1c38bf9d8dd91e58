------------------------------- MODULE Sendq -------------------------------
(***************************************************************************)
(* The send queue of one pipeline (netbuf.c, "Flush Routines"), the packet *)
(* flush callback of mcreq-flush-inl.h, the writes of lcbio/ctx.cc and the *)
(* error drain of mcserver.cc, byte by byte.                               *)
(*                                                                         *)
(* A packet has two implicit references: the send queue's, dropped when    *)
(* its last byte has been flushed (MCREQ_F_FLUSHED), and the request       *)
(* queue's, dropped when its response has been handled (MCREQ_F_INVOKED).  *)
(* Whoever drops the second one releases the packet.                       *)
(*                                                                         *)
(* A byte is abstracted to the packet it belongs to: a window is a         *)
(* sequence of packets, and so is what was written on the socket. A window *)
(* is identified by the packet it was created for.                         *)
(***************************************************************************)
EXTENDS Naturals, Sequences, SequencesExt, FiniteSets

CONSTANTS
  Pkts,         \* the packets that may be enqueued, each once
  Size,         \* mcreq_get_size: the number of bytes of each packet
  Envs,         \* the environments to consider, each a record of
                \*   mode: "E" event I/O, synchronous writes; "C" completion I/O
                \*   partial: the socket may accept less than it was given
                \*   writefail: a write call may fail at once
                \*   detached: packets made by mcreq_renew_packet (standalone)
                \*   retriable: detached packets that may be retried once more
                \*   reentrant: packets that a callback of a purge may schedule
  NIov,         \* windows taken by one mcreq_flush_iov_fill
  MaxFails,     \* bound: failures of an established connection
  NULL

ASSUME SendqAssumption ==
  /\ Size \in [Pkts -> Nat \ {0}]
  /\ Envs \subseteq [mode : {"E", "C"}, partial : BOOLEAN, writefail : BOOLEAN,
                     detached : SUBSET Pkts, retriable : SUBSET Pkts,
                     reentrant : SUBSET Pkts]
  /\ \A e \in Envs : e.retriable \subseteq e.detached
  /\ NIov \in Nat \ {0} /\ MaxFails \in Nat
  /\ NULL \notin Pkts

VARIABLES
  env,          \* the environment of this behaviour; it never changes
  sendq,        \* nb_SENDQ, with stale_next: the window that followed a
                \* last_requested when that one was unlinked from the list
  pk,           \* the packets: enqueued, flushed, invoked, freed, and the
                \* bytes of each one that have left the send queue
  outstanding,  \* "C": the writes submitted and not completed
  conn,         \* "idle" (flush_start is server_connect: the next operation
                \* connects), "connecting", "up", "error" (signalled), "drain"
                \* (S_ERRDRAIN)
  fails,        \* failures of an established connection so far
  wire,         \* bytes accepted by the socket of this connection
  assert_ok     \* lcb_assert(!nflushed) of netbuf_end_flush has held

vars == <<env, sendq, pk, outstanding, conn, fails, wire, assert_ok>>

Mode == env.mode
Partial == env.partial
WriteMayFail == env.writefail
Detached == env.detached
Retriable == env.retriable
Reentrant == env.reentrant

-----------------------------------------------------------------------------
Flat(wins) == FlattenSeq([i \in 1..Len(wins) |-> wins[i].bytes])
Bytes(pdus) ==
  FlattenSeq([i \in 1..Len(pdus) |-> [j \in 1..Size[pdus[i]] |-> pdus[i]]])
Ids(wins) == {wins[i].id : i \in 1..Len(wins)}
Pos(wins, id) == CHOOSE i \in 1..Len(wins) : wins[i].id = id
WinLen(wins, id) ==
  IF id \in Ids(wins) THEN Len(wins[Pos(wins, id)].bytes) ELSE 0
From(wins, i) == SubSeq(wins, i, Len(wins))
CountOf(p, s) == Len(SelectSeq(s, LAMBDA b : b = p))

(* The windows netbuf_start_flush walks: what is left of the window last   *)
(* handed out and its successors, or the whole list.                       *)
Unrequested(q) ==
  LET i == Pos(q.pending, q.last_requested)
      rest == From(q.pending[i].bytes, q.last_offset + 1)
  IN IF q.last_requested = NULL THEN q.pending
     ELSE IF q.last_requested \in Ids(q.pending)
     THEN (IF rest = <<>> THEN <<>> ELSE <<[q.pending[i] EXCEPT !.bytes = rest]>>)
            \o From(q.pending, i + 1)
     ELSE IF q.stale_next \in Ids(q.pending)
     THEN From(q.pending, Pos(q.pending, q.stale_next))
     ELSE <<>>

(* netbuf_start_flush: the windows handed out, and the cursor after them *)
Fill(q, niov) ==
  LET u == Unrequested(q) IN SubSeq(u, 1, IF Len(u) < niov THEN Len(u) ELSE niov)

start_flush(q, niov) ==
  LET f == Fill(q, niov)
  IN IF f = <<>> THEN q
     ELSE [q EXCEPT !.last_requested = Last(f).id,
                    !.last_offset = WinLen(q.pending, Last(f).id),
                    !.stale_next = NULL]

(* netbuf_end_flush: chop n bytes off the front of the windows. "left" is  *)
(* what remains of n when the list ends, asserted to be zero.              *)
end_flush(wins, n) ==
  LET upto(i) == Len(Flat(SubSeq(wins, 1, i)))
      live == {i \in 1..Len(wins) : upto(i) > n}
      first == CHOOSE i \in live : \A j \in live : i <= j
  IN IF live = {} THEN [left |-> n - upto(Len(wins)), out |-> <<>>]
     ELSE [left |-> 0,
           out |-> [From(wins, first) EXCEPT ![1].bytes =
                      From(@, n - upto(first - 1) + 1)]]

(* netbuf_end_flush2: pop the packets that end within the n bytes counted  *)
(* from the start of the first one.                                        *)
end_pdus(pdus, n) ==
  LET upto(i) == Len(Bytes(SubSeq(pdus, 1, i)))
      last == CHOOSE i \in 0..Len(pdus) :
                upto(i) <= n /\ (i < Len(pdus) => upto(i + 1) > n)
  IN [left |-> n - upto(last), done |-> ToSet(SubSeq(pdus, 1, last)),
      rest |-> From(pdus, last + 1)]

(* mcreq_flush_done_ex and mcreq__pktflush_callback *)
flush_done(q, k, nflushed, expected) ==
  LET e == end_flush(q.pending, nflushed)
      d == end_pdus(q.pdus, nflushed + q.pdu_offset)
      last == q.last_requested
      reset == \/ nflushed < expected
               \/ last \in Ids(q.pending) /\ last \notin Ids(e.out)
      cut == SubSeq(Flat(q.pending), 1, nflushed - e.left)
  IN [q |-> [pending |-> e.out,
             pdus |-> IF nflushed = 0 THEN q.pdus ELSE d.rest,
             pdu_offset |-> IF nflushed = 0 THEN q.pdu_offset ELSE d.left,
             last_requested |-> IF reset THEN NULL ELSE last,
             last_offset |-> IF reset THEN 0
                             ELSE q.last_offset + WinLen(e.out, last)
                                    - WinLen(q.pending, last),
             stale_next |-> IF reset THEN NULL ELSE q.stale_next],
      k |-> IF nflushed = 0 THEN k
            ELSE [k EXCEPT !.flushed = @ \cup d.done,
                           !.freed = @ \cup (d.done \cap k.invoked),
                           !.gone = [p \in Pkts |-> @[p] + CountOf(p, cut)]],
      ok |-> e.left = 0]

(* mcreq_packet_handled *)
packet_handled(k, P) ==
  [k EXCEPT !.invoked = @ \cup P, !.freed = @ \cup (P \cap k.flushed)]

unlink_WindowsOnly(q, R) ==
  [q EXCEPT !.pending = SelectSeq(q.pending, LAMBDA w : w.parent \notin R)]

(* RetryQueue::add, what it does to the packets R that the retried ones    *)
(* were copied into before: unlink them from pending and pdus, and set     *)
(* MCREQ_F_FLUSHED. Neither pdu_offset nor last_requested follows.         *)
unlink(q, R) ==
  LET keep == SelectSeq(q.pending, LAMBDA w : w.parent \notin R)
      i == Pos(q.pending, q.last_requested)
      after == From(q.pending, i + 1)
  IN [q EXCEPT !.pending = keep,
               !.pdus = SelectSeq(@, LAMBDA p : p \notin R),
               !.stale_next =
                 IF q.last_requested \in Ids(q.pending) \ Ids(keep)
                 THEN IF after = <<>> THEN NULL ELSE after[1].id
                 ELSE @]

(* finalize_errored_ctx: whatever is still queued is marked as flushed.    *)
drain(q, k) ==
  LET n == Len(Flat(Unrequested(q)))
  IN flush_done(start_flush(q, Len(q.pending)), k, n, n)

-----------------------------------------------------------------------------
Init ==
  /\ env \in Envs
  /\ sendq = [pending |-> <<>>, pdus |-> <<>>, pdu_offset |-> 0,
              last_requested |-> NULL, last_offset |-> 0, stale_next |-> NULL]
  /\ pk = [enqueued |-> {}, flushed |-> {}, invoked |-> {}, freed |-> {},
           gone |-> [p \in Pkts |-> 0]]
  /\ outstanding = <<>>
  /\ conn = "idle" /\ fails = 0 /\ wire = <<>>
  /\ assert_ok = TRUE

Waiting == pk.enqueued \ pk.invoked

Apply(r) ==
  /\ sendq' = r.q /\ pk' = r.k
  /\ assert_ok' = (assert_ok /\ r.ok)

(* mcreq_enqueue_packet and netbuf_enqueue: the packet's bytes extend the  *)
(* last window when they follow it in memory, which standalone buffers     *)
(* never do.                                                               *)
enqueue(q, p, contiguous) ==
  LET b == Bytes(<<p>>)
      n == Len(q.pending)
  IN [q EXCEPT !.pdus = Append(@, p),
               !.pending =
                 IF contiguous
                 THEN [@ EXCEPT ![n] = [@ EXCEPT !.bytes = @ \o b, !.parent = p]]
                 ELSE Append(@, [id |-> p, parent |-> p, bytes |-> b])]

(* mcreq_sched_leave calls flush_start, which connects an idle pipeline    *)
Enqueue(p, contiguous) ==
  /\ p \notin pk.enqueued
  /\ contiguous => /\ sendq.pending # <<>> /\ p \notin Detached
                   /\ Last(sendq.pending).parent \notin Detached
  /\ sendq' = enqueue(sendq, p, contiguous)
  /\ pk' = [pk EXCEPT !.enqueued = @ \cup {p}]
  /\ conn' = IF conn = "idle" THEN "connecting" ELSE conn
  /\ UNCHANGED <<outstanding, fails, wire, assert_ok>>

(* Server::handle_connected with a negotiated socket *)
Connected ==
  /\ conn = "connecting"
  /\ conn' = "up" /\ wire' = <<>>
  /\ UNCHANGED <<sendq, pk, outstanding, fails, assert_ok>>

FlushE_NoReset(n) ==
  LET b == Flat(Fill(sendq, NIov))
  IN /\ Mode = "E" /\ conn = "up"
     /\ b # <<>> /\ n \in 0..Len(b)
     /\ Partial \/ n = Len(b)
     /\ wire' = wire \o SubSeq(b, 1, n)
     /\ Apply(flush_done(start_flush(sendq, NIov), pk, n, n))
     /\ UNCHANGED <<outstanding, conn, fails>>

(* on_flush_ready under event I/O: E_put_ex reports what sendv accepted,   *)
(* nothing when the socket is not writable.                                *)
FlushE(n) ==
  LET b == Flat(Fill(sendq, NIov))
  IN /\ Mode = "E" /\ conn = "up"
     /\ b # <<>> /\ n \in 0..Len(b)
     /\ Partial \/ n = Len(b)
     /\ wire' = wire \o SubSeq(b, 1, n)
     /\ Apply(flush_done(start_flush(sendq, NIov), pk, n, Len(b)))
     /\ UNCHANGED <<outstanding, conn, fails>>

(* A write that fails at once, under either I/O model: everything is       *)
(* reported as written and the error is signalled to the event loop.       *)
WriteFails ==
  LET n == Len(Flat(Fill(sendq, NIov)))
  IN /\ WriteMayFail /\ fails < MaxFails
     /\ conn \in (IF Mode = "E" THEN {"up"} ELSE {"up", "error"}) /\ n > 0
     /\ conn' = "error" /\ fails' = fails + 1
     /\ Apply(flush_done(start_flush(sendq, NIov), pk, n, n))
     /\ UNCHANGED <<outstanding, wire>>

(* on_flush_ready under completion I/O: C_put_ex submits the write *)
SubmitC ==
  LET b == Flat(Fill(sendq, NIov))
  IN /\ Mode = "C" /\ conn \in {"up", "error"} /\ b # <<>>
     /\ outstanding' = Append(outstanding, b)
     /\ wire' = wire \o b
     /\ sendq' = start_flush(sendq, NIov)
     /\ UNCHANGED <<pk, conn, fails, assert_ok>>

WriteDone_Ignored ==
  /\ outstanding # <<>>
  /\ outstanding' = Tail(outstanding)
  /\ UNCHANGED <<sendq, pk, conn, fails, wire, assert_ok>>

(* Cw_ex_handler and on_flush_done: the oldest write completes. When the   *)
(* pipeline was draining and this was the last one, check_closed finalizes *)
(* the context.                                                            *)
WriteDone ==
  LET n == Len(Head(outstanding))
      r == flush_done(sendq, pk, n, n)
      final == conn = "drain" /\ Len(outstanding) = 1
  IN /\ outstanding # <<>>
     /\ outstanding' = Tail(outstanding)
     /\ LET r2 == IF final THEN drain(r.q, r.k) ELSE r
        IN Apply([r2 EXCEPT !.ok = @ /\ r.ok])
     /\ conn' = IF final THEN "connecting" ELSE conn
     /\ UNCHANGED <<fails, wire>>

(* A response, a timeout: the request leaves the pipeline and is done with *)
Handled(p) ==
  /\ p \in Waiting
  /\ pk' = packet_handled(pk, {p})
  /\ UNCHANGED <<sendq, outstanding, conn, fails, wire, assert_ok>>

(* The packets R go back to the retry queue as new copies (RetryQueue::add)*)
(* and all of P, R included, are handled.                                  *)
Retried(P, R) ==
  [q |-> unlink(sendq, R),
   k |-> packet_handled([pk EXCEPT !.flushed = @ \cup R,
                                   !.gone = [p \in Pkts |-> @[p] +
                                     IF p \in R THEN CountOf(p, Flat(sendq.pending))
                                     ELSE 0]], P),
   ok |-> TRUE]

(* A response that makes the pipeline retry p, which is itself a copy made *)
(* for an earlier retry. The response can come before the write completes. *)
Retry(p) ==
  /\ conn = "up" /\ p \in Retriable \cap Waiting
  /\ CountOf(p, wire) = Size[p]
  /\ Apply(Retried({p}, {p}))
  /\ UNCHANGED <<outstanding, conn, fails, wire>>

(* Server::purge: all requests leave the pipeline, those in R for the      *)
(* retry queue. The callback of the last one purged may schedule a new one,*)
(* L, which the purge loop no longer sees.                                 *)
Purged(R, L) ==
  LET r == Retried(Waiting, R)
  IN [r EXCEPT !.q = IF L = {} THEN @ ELSE enqueue(@, CHOOSE p \in L : TRUE, FALSE),
               !.k.enqueued = @ \cup L]

MayPurge(R, L) ==
  /\ R \subseteq Retriable \cap Waiting
  /\ L \subseteq Reentrant \ pk.enqueued /\ Cardinality(L) <= 1
  /\ L # {} => Waiting \ R # {}

(* socket_failed on an established connection: the requests are purged, and*)
(* the context is drained once no write is outstanding; then               *)
(* finalize_errored_ctx connects again.                                    *)
SocketFailed(R, L) ==
  LET r == Purged(R, L)
  IN /\ \/ conn = "up" /\ fails < MaxFails /\ fails' = fails + 1
        \/ conn = "error" /\ fails' = fails
     /\ MayPurge(R, L)
     /\ IF outstanding = <<>>
        THEN conn' = "connecting" /\ Apply(drain(r.q, r.k))
        ELSE conn' = "drain" /\ Apply(r)
     /\ UNCHANGED <<outstanding, wire>>

(* A connection attempt fails: the requests are purged, but without a      *)
(* context nothing is drained. start_errored_ctx tries again only for a    *)
(* request that is still there; otherwise the next operation connects.     *)
ConnectFails(R, L) ==
  /\ conn = "connecting" /\ MayPurge(R, L)
  /\ Apply(Purged(R, L))
  /\ conn' = IF L = {} THEN "idle" ELSE "connecting"
  /\ UNCHANGED <<outstanding, fails, wire>>

Next ==
  \/ UNCHANGED env /\ \E p \in Pkts : \E c \in BOOLEAN : Enqueue(p, c)
  \/ UNCHANGED env /\ Connected
  \/ UNCHANGED env /\ \E n \in 0..Len(Flat(sendq.pending)) : FlushE(n)
  \/ UNCHANGED env /\ WriteFails
  \/ UNCHANGED env /\ SubmitC
  \/ UNCHANGED env /\ WriteDone
  \/ UNCHANGED env /\ \E p \in Pkts : Handled(p)
  \/ UNCHANGED env /\ \E p \in Pkts : Retry(p)
  \/ UNCHANGED env /\ \E R \in SUBSET Retriable, L \in SUBSET Reentrant : SocketFailed(R, L)
  \/ UNCHANGED env /\ \E R \in SUBSET Retriable, L \in SUBSET Reentrant : ConnectFails(R, L)

Spec == Init /\ [][Next]_vars

(* Weak fairness, each action with its guard spelled out. A connection     *)
(* attempt ends, well or in an error or a timeout; nothing says that one   *)
(* ever succeeds (maybe_reconnect_on_fake_timeout repeats one without a    *)
(* purge, but only while a request is young). The event loop reports a     *)
(* writable socket and a completed write again and again, and each gets a  *)
(* little further; a signalled error is delivered.                         *)
CanWrite == Unrequested(sendq) # <<>>
Progress ==
  /\ []<>(conn # "connecting")
  /\ \/ []<>~(Mode = "E" /\ conn = "up" /\ CanWrite)
     \/ []<><<sendq'.pending # sendq.pending /\ Len(wire') > Len(wire)>>_vars
  /\ \/ []<>~(Mode = "C" /\ conn \in {"up", "error"} /\ CanWrite)
     \/ []<><<Len(outstanding') > Len(outstanding)>>_vars
  /\ []<>(outstanding = <<>>) \/ []<><<Len(outstanding') < Len(outstanding)>>_vars
  /\ []<>(conn # "error") \/ []<><<conn' \in {"drain", "connecting"}>>_vars

FairSpec == Spec /\ Progress

-----------------------------------------------------------------------------
(* Types of the send queue and of the connection *)
TypeOK ==
  /\ \A i \in 1..Len(sendq.pending) :
       sendq.pending[i].parent \in Pkts /\ sendq.pending[i].bytes \in Seq(Pkts) \ {<<>>}
  /\ sendq.pdus \in Seq(Pkts)
  /\ sendq.pdu_offset \in Nat /\ sendq.last_offset \in Nat
  /\ {sendq.last_requested, sendq.stale_next} \subseteq Pkts \cup {NULL}
  /\ pk.gone \in [Pkts -> Nat]
  /\ UNION {pk.enqueued, pk.flushed, pk.invoked, pk.freed} \subseteq Pkts
  /\ outstanding \in Seq(Seq(Pkts)) /\ wire \in Seq(Pkts)
  /\ conn \in {"idle", "connecting", "up", "error", "drain"}
  /\ fails \in 0..MaxFails /\ assert_ok \in BOOLEAN

(* The buffers of a submitted write stay allocated until it completes.     *)
InFlightPinned ==
  \A i \in 1..Len(outstanding) : pk.freed \cap ToSet(outstanding[i]) = {}

(* MCREQ_F_FLUSHED is set on a packet only when its last byte has left the *)
(* send queue, never while the tail of it is still to be written.          *)
FlushedIsGone == \A p \in pk.flushed : pk.gone[p] = Size[p]

(* The two lists describe the same bytes: the windows hold the packets of  *)
(* pdus, in order, without the first pdu_offset bytes.                     *)
PdusMatchWindows ==
  Flat(sendq.pending) = From(Bytes(sendq.pdus), sendq.pdu_offset + 1)

(* What a connection carries is framed: the bytes written and those that   *)
(* will follow are whole packets, none cut short, repeated or interleaved. *)
WireIsFramed ==
  conn = "up" =>
    LET s == wire \o Flat(Unrequested(sendq))
    IN \A i \in 1..Len(s) :
         \E j \in 1..i : /\ j + Size[s[i]] - 1 \in i..Len(s)
                         /\ \A m \in 1..Len(s) :
                              s[m] = s[i] <=> m \in j..(j + Size[s[i]] - 1)

(* A request that still waits for its response on a healthy connection and *)
(* is flagged as flushed was written on that connection. This is for event *)
(* I/O: under completion I/O finalize_errored_ctx also discards requests   *)
(* enqueued while it waits for outstanding writes.                         *)
WaitingWasSent ==
  Mode = "E" /\ conn = "up" => \A p \in Waiting \cap pk.flushed : CountOf(p, wire) = Size[p]

(* What the client has on record of its output is true: the two lists      *)
(* agree, and the flag of a packet tells what is on the wire.              *)
OutputRecorded == PdusMatchWindows /\ WaitingWasSent

(* lcb_assert(!nflushed): a completed write never covers more bytes than   *)
(* the send queue holds.                                                   *)
EndFlushAsserts == assert_ok

(* Every packet put on the send queue is eventually flushed, written or    *)
(* discarded, so that its memory can be released: unless its request is    *)
(* done and the pipeline has stopped connecting, as after a failed attempt,*)
(* which leaves the packet queued until the next operation. No request in  *)
(* progress is ever left so.                                               *)
EventuallyFlushed ==
  \A p \in Pkts : p \in pk.enqueued ~>
    p \in pk.flushed \/ (p \in pk.invoked /\ conn = "idle")

=============================================================================
