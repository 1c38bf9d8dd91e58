------------------------------ MODULE McServer ------------------------------
(***************************************************************************)
(* One connection to a data node: the Server of mcserver.cc with its       *)
(* connection attempts, its io_timer and its way from an error or a        *)
(* removal to the end of the context, on the I/O context of lcbio/ctx.cc   *)
(* and the timers of lcbio/timer.cc, under both I/O models.                *)
(*                                                                         *)
(* Packets are whole here: Sendq has their bytes and Packets their         *)
(* copies.  A packet is in the request queue ("reqs"), in the retry queue  *)
(* ("retry"), moved to another server ("away"), or its callback was        *)
(* invoked ("done").  Time is relative: rem, tmr and ctm are the ticks     *)
(* left, and the loop is responsive: a timer that is due fires before time *)
(* goes on.                                                                *)
(***************************************************************************)
EXTENDS Integers, Sequences, FiniteSets, FiniteSetsExt

CONSTANTS
    NPkts,        \* packets that may be scheduled, each once
    OpTimeout,    \* settings->operation_timeout, in ticks
    NodeTimeout,  \* settings->config_node_timeout, in ticks
    Envs,         \* the environments to consider, see EnvType
    MaxFails,     \* bound: failures of the network
    MaxRetries    \* bound: packets that come back from the retry queue

Pkts == 1..NPkts
Kinds == {"ok", "retry", "warmup", "invalid", "unmapped", "gone"}
EnvType ==
    [mode : {"E", "C"},     \* event or completion I/O
     short : BOOLEAN,       \* an operation may have a timeout of one tick
     calls : BOOLEAN,       \* a callback may schedule a packet
     removes : BOOLEAN,     \* a new map may lack the node
     moves : BOOLEAN,       \* a packet of a removed server may be moved here
     adjust : BOOLEAN,      \* settings->readj_ts_wait
     kinds : SUBSET Kinds]  \* the responses of the node

ASSUME ServerAssumption ==
    /\ NPkts \in Nat \ {0} /\ OpTimeout \in Nat \ {0} /\ NodeTimeout \in Nat \ {0}
    /\ Envs \subseteq EnvType /\ MaxFails \in Nat /\ MaxRetries \in Nat

VARIABLES
    env,  \* the environment; it never changes
    srv,  \* the Server: state, flush_start, connreq, io_timer
    ctx,  \* its lcbio_CTX
    net,  \* the socket: wire (requests the node has), inb (responses to read)
    op,   \* [Pkts -> [ph, rem]], and
    unsent, \* those with bytes in the send queue that no write has taken
    count   \* failures and retries so far

vars == <<env, srv, ctx, net, op, unsent, count>>

Now ==
    [env |-> env, srv |-> srv, ctx |-> ctx, net |-> net, op |-> op, unsent |-> unsent,
     count |-> count]

Become(s) ==
    /\ env' = s.env /\ srv' = s.srv /\ ctx' = s.ctx /\ net' = s.net
    /\ op' = s.op /\ unsent' = s.unsent /\ count' = s.count

NotArmed == -1
NoTimer == -2
MaxLate == OpTimeout + NodeTimeout + 1

NoCtx ==
    [up |-> FALSE, err |-> FALSE, sig |-> FALSE, rdwant |-> FALSE, wwant |-> FALSE,
     watch |-> {}, reading |-> FALSE, writes |-> <<>>, entered |-> FALSE, rope |-> <<>>,
     halted |-> FALSE, loop |-> "no"]
NoNet == [wire |-> {}, inb |-> <<>>, shut |-> FALSE]

Init ==
    /\ env \in Envs
    /\ srv = [st |-> "clean", flush |-> "connect", creq |-> "none", ctm |-> 0,
              tmr |-> NotArmed, fault |-> FALSE]
    /\ ctx = NoCtx /\ net = NoNet /\ unsent = {}
    /\ op = [p \in Pkts |-> [ph |-> "idle", rem |-> 0]]
    /\ count = [fails |-> 0, retries |-> 0]

Requests(s) == {p \in Pkts : s.op[p].ph = "reqs"}
HasPending(s) == Requests(s) # {}
HasIo(s) == s.ctx.reading \/ s.ctx.writes # <<>>
Leave(s, P, ph) ==
    [s EXCEPT !.op = [p \in Pkts |-> IF p \in P THEN [ph |-> ph, rem |-> 0] ELSE @[p]]]

-----------------------------------------------------------------------------
(***************************************************************************)
(* The timer and the I/O context.  w is what a write of the program gets:  *)
(* "ok", "again" (EAGAIN) or "fail".                                       *)
(***************************************************************************)
Arm(s, n) == [s EXCEPT !.srv.tmr = n]
ArmIfNot(s, n) == IF s.srv.tmr = NotArmed THEN Arm(s, n) ELSE s

(* Server::next_timeout() *)
NextTimeout(s) ==
    IF HasPending(s) THEN Max({0, Min({s.op[p].rem : p \in Requests(s)})}) ELSE OpTimeout

(* lcbio_ctx_senderr() *)
SendErr(s, err) ==
    [s EXCEPT !.ctx.err = @ \/ err, !.ctx.watch = {}, !.ctx.sig = TRUE]

Failure(s) == [s EXCEPT !.count.fails = @ + 1]

(* on_flush_ready() with lcbio_ctx_put_ex(): a write that fails is taken as done. *)
FlushReady(s, w) ==
    LET sent == [s EXCEPT !.unsent = {}]
        more(r) == [r EXCEPT !.ctx.wwant = TRUE]
    IN  IF s.unsent = {} THEN s
        ELSE IF s.env.mode = "E"
        THEN CASE w = "ok"    -> [sent EXCEPT !.net.wire = @ \cup s.unsent]
               [] w = "again" -> more(s)
               [] w = "fail"  -> more(SendErr(Failure(sent), TRUE))
        ELSE IF w = "fail" THEN SendErr(Failure(sent), TRUE)
        ELSE [sent EXCEPT !.ctx.writes = Append(@, s.unsent)]

(* lcbio_ctx_wwant() *)
WWant(s, w) ==
    IF s.env.mode = "C" /\ ~s.ctx.entered THEN FlushReady(s, w)
    ELSE [s EXCEPT !.ctx.wwant = TRUE]

ESchedule(s) ==
    [s EXCEPT !.ctx.watch = (IF s.ctx.rdwant THEN {"R"} ELSE {})
                               \cup (IF s.ctx.wwant THEN {"W"} ELSE {})]

CSchedule(s, w) ==
    LET r == IF s.ctx.wwant THEN FlushReady([s EXCEPT !.ctx.wwant = FALSE], w) ELSE s
    IN  IF r.ctx.rdwant THEN [r EXCEPT !.ctx.reading = TRUE] ELSE r

(* lcbio_ctx_schedule() *)
CtxSchedule(s, w) ==
    IF s.ctx.entered \/ s.ctx.err \/ ~s.ctx.up THEN s
    ELSE IF s.env.mode = "E" THEN ESchedule(s) ELSE CSchedule(s, w)

-----------------------------------------------------------------------------
(***************************************************************************)
(* The Server.                                                             *)
(***************************************************************************)
(* connect(); a request that was pending would be forgotten. *)
Connect(s) ==
    [s EXCEPT !.srv.creq = "pool", !.srv.ctm = OpTimeout, !.srv.flush = "noop",
              !.srv.st = "clean", !.srv.fault = @ \/ s.srv.creq # "none"]

Flush_NoRead(s, w) == ArmIfNot(CtxSchedule(WWant(s, w), w), OpTimeout)

(* flush() *)
Flush(s, w) ==
    LET r == [s EXCEPT !.ctx.rdwant = TRUE, !.ctx.halted = FALSE]
    IN  ArmIfNot(CtxSchedule(WWant(r, w), w), OpTimeout)

(* pipeline->flush_start(pipeline) *)
FlushStart(s, w) ==
    CASE s.srv.flush = "connect"  -> Connect(s)
      [] s.srv.flush = "noop"     -> s
      [] s.srv.flush = "flush"    -> Flush(s, w)
      [] s.srv.flush = "errdrain" -> ArmIfNot(s, OpTimeout)

(* mcreq_enqueue_packet() *)
Enqueue(s, p) == [s EXCEPT !.op[p].ph = "reqs", !.unsent = @ \cup {p}]

(* mcreq_sched_add(), which arms the timer before the packet is a request, *)
(* and mcreq_sched_leave().                                                *)
Schedule(s, p, t, w) ==
    FlushStart(Enqueue(Arm([s EXCEPT !.op[p].rem = t], NextTimeout(s)), p), w)

(* A callback of the program, which may schedule the packet nu (0: none). *)
Callback(s, nu, w) ==
    IF nu # 0 /\ s.op[nu].ph = "idle" /\ s.srv.st \notin {"closed", "freed"}
    THEN Schedule(s, nu, OpTimeout, w) ELSE s

(* purge(): rt are retried; the callback of the last of the others may schedule. *)
Purge(s, P, rt, nu, w) ==
    LET kept == [s EXCEPT !.op = [p \in Pkts |-> IF p \in P \cap rt
                                                 THEN [@[p] EXCEPT !.ph = "retry"] ELSE @[p]]]
        dead == P \ rt
    IN  IF dead = {} THEN kept ELSE Callback(Leave(kept, dead, "done"), nu, w)

(* ~Server() *)
Delete(s) == Leave([s EXCEPT !.srv.st = "freed", !.unsent = {}], Requests(s), "done")

(* finalize_errored_ctx() *)
Finalize(s) ==
    LET r == [s EXCEPT !.ctx = NoCtx, !.net = NoNet, !.unsent = {}]
    IN  IF HasIo(s) THEN s
        ELSE IF s.srv.st = "closed" THEN Delete(r) ELSE Connect(r)

StartErrored_NoCancel(s, next, w) ==
    LET r == [s EXCEPT !.srv.st = next, !.srv.tmr = IF next = "closed" THEN NoTimer ELSE @]
        drain == [CtxSchedule(r, w) EXCEPT !.net.shut = TRUE]
    IN  IF s.ctx.up
        THEN IF ~HasIo(s) THEN Finalize(r)
             ELSE IF next = "errdrain" THEN [drain EXCEPT !.srv.flush = "errdrain"] ELSE drain
        ELSE IF next = "closed" THEN Delete(r)
        ELSE IF HasPending(s) THEN Connect(ArmIfNot(r, OpTimeout))
        ELSE [r EXCEPT !.srv.flush = "connect"]

(* start_errored_ctx() *)
StartErrored(s, next, w) ==
    LET r == [s EXCEPT !.srv.st = next, !.srv.creq = "none", !.srv.ctm = 0,
                       !.srv.tmr = IF next = "closed" THEN NoTimer ELSE @]
        drain == [CtxSchedule(r, w) EXCEPT !.net.shut = TRUE]
    IN  IF s.ctx.up
        THEN IF ~HasIo(s) THEN Finalize(r)
             ELSE IF next = "errdrain" THEN [drain EXCEPT !.srv.flush = "errdrain"] ELSE drain
        ELSE IF next = "closed" THEN Delete(r)
        ELSE IF HasPending(s) THEN Connect(ArmIfNot(r, OpTimeout))
        ELSE [r EXCEPT !.srv.flush = "connect"]

SocketFailed_NoCheck(s, rt, nu, w) ==
    StartErrored(Purge(s, Requests(s), rt, nu, w), "errdrain", w)

(* socket_failed() and on_error(), with check_closed() *)
SocketFailed(s, rt, nu, w) ==
    IF s.srv.st # "clean" THEN Finalize(s)
    ELSE StartErrored(Purge(s, Requests(s), rt, nu, w), "errdrain", w)

(* replace_config() for a server the new map lacks: mv are moved elsewhere. *)
Remove(s, mv, w) ==
    LET r == Leave(s, Requests(s) \cap mv, "away")
    IN  StartErrored(Purge(r, Requests(r), {}, 0, w), "closed", w)

-----------------------------------------------------------------------------
(***************************************************************************)
(* Reading.  A response [p, kind] is "ok", to be retried ("retry"), from a *)
(* bucket that is not ready ("warmup"), an error of the error map that     *)
(* invalidates the connection ("invalid"; without another attribute its    *)
(* error is LCB_SUCCESS), one the map does not have ("unmapped"), or the   *)
(* answer to the GET_CLUSTER_CONFIG that CCCP sends over this Server for   *)
(* lcb_open, with a map that lacks this node ("gone").                     *)
(*                                                                         *)
(* Any other map that comes with a response, NOT_MY_VBUCKET included, is   *)
(* applied by a timer of Bootstrap, after the handler: "retry", and NewMap *)
(* later. But lcb_open sets the state to S_INITIAL_PRE, in which           *)
(* clconfig_lsn() calls config_callback() at once.                         *)
(***************************************************************************)
Retried(s, p) == [s EXCEPT !.op[p].ph = "retry"]

(* try_read() of a whole response; halted is PKT_READ_ABORT. It uses the   *)
(* Server (mcreq_packet_handled) after the callback of the request.        *)
TryRead(s, r, nu, mv, w) ==
    IF s.op[r.p].ph # "reqs" THEN s
    ELSE CASE r.kind = "ok"       -> Callback(Leave(s, {r.p}, "done"), nu, w)
           [] r.kind = "retry"    -> Retried(s, r.p)
           [] r.kind = "warmup"   -> [Retried(s, r.p) EXCEPT !.ctx.halted = TRUE]
           [] r.kind = "invalid"  -> [Callback(SendErr(Leave(s, {r.p}, "done"), FALSE), nu, w)
                                         EXCEPT !.ctx.halted = TRUE]
           [] r.kind = "unmapped" -> [Callback(SendErr(Leave(s, {r.p}, "done"), TRUE), nu, w)
                                         EXCEPT !.ctx.halted = TRUE]
           [] r.kind = "gone"     ->
                 LET g == Remove(Leave(s, {r.p}, "done"), mv, w)
                 IN  IF g.srv.st = "freed" THEN [g EXCEPT !.srv.fault = TRUE] ELSE g

(* What follows the read callback in E_handler() and Cr_handler() *)
AfterRead(s, eof, w) ==
    IF ~s.ctx.up THEN s ELSE IF eof THEN SendErr(s, TRUE) ELSE CtxSchedule(s, w)

(* What was received, and invoke_read_cb() when there is enough of it.     *)
(* on_read() takes the responses one by one, loop says for which event.    *)
EnterRead(s, eof, w) ==
    LET r == [s EXCEPT !.ctx.rope = @ \o s.net.inb, !.net.inb = <<>>]
    IN  IF r.ctx.rope = <<>> THEN AfterRead(r, eof, w)
        ELSE IF s.srv.st # "clean" THEN AfterRead(Finalize(r), eof, w)
        ELSE [r EXCEPT !.ctx.rdwant = FALSE, !.ctx.entered = TRUE, !.ctx.halted = FALSE,
                       !.ctx.loop = IF eof THEN "eof" ELSE "data"]

(* invoke_entered_errcb() *)
EnteredErr(s, rt, nu, w) ==
    LET e == SocketFailed([s EXCEPT !.ctx.err = TRUE, !.ctx.entered = TRUE], rt, nu, w)
    IN  [e EXCEPT !.ctx.entered = FALSE]

-----------------------------------------------------------------------------
(***************************************************************************)
(* Events.                                                                 *)
(***************************************************************************)
CanFail == count.fails < MaxFails
Writes == {"ok"} \cup (IF env.mode = "C" /\ CanFail THEN {"fail"} ELSE {})
News == {0} \cup (IF env.calls THEN {p \in Pkts : op[p].ph = "idle"} ELSE {})
Timeouts == {OpTimeout} \cup (IF env.short THEN {1} ELSE {})
Idle == ctx.loop = "no"
InUse == Idle /\ srv.st \notin {"closed", "freed"}

AppSchedule ==
    \E p \in Pkts, t \in Timeouts, w \in Writes :
        /\ InUse /\ op[p].ph = "idle" /\ \A q \in 1..(p - 1) : op[q].ph # "idle"
        /\ Become(Schedule(Now, p, t, w))

(* RetryQueue::flush() *)
RetryArrives ==
    \E p \in Pkts, w \in Writes :
        /\ InUse /\ op[p].ph = "retry" /\ op[p].rem > 0 /\ count.retries < MaxRetries
        /\ Become(FlushStart(Enqueue([Now EXCEPT !.count.retries = @ + 1], p), w))

(* iterwipe_cb() of another server: mcreq_reenqueue_packet(), then the     *)
(* flush of replace_config().  The packet has t ticks left.                *)
Relocated ==
    \E p \in Pkts, t \in 1..OpTimeout, w \in Writes :
        /\ env.moves /\ InUse /\ op[p].ph = "idle" /\ \A q \in 1..(p - 1) : op[q].ph # "idle"
        /\ Become(FlushStart(Enqueue([Now EXCEPT !.op[p].rem = t], p), w))

RetryExpires ==
    Idle /\ \E p \in Pkts : op[p].ph = "retry" /\ op[p].rem <= 0 /\ Become(Leave(Now, {p}, "done"))

(* handle_connected() of a socket without a session *)
Connected ==
    /\ srv.creq = "pool"
    /\ Become([Now EXCEPT !.srv.creq = "session", !.srv.ctm = NodeTimeout])

(* handle_connected() of a socket with a session: a context of its own *)
Established(s, w) ==
    LET r == [s EXCEPT !.srv.creq = "none", !.srv.ctm = 0, !.srv.flush = "flush",
                       !.ctx = [NoCtx EXCEPT !.up = TRUE]]
    IN  Flush(Arm(r, NextTimeout(r)), w)

Negotiated == srv.creq # "none" /\ \E w \in Writes : Become(Established(Now, w))

(* maybe_reconnect_on_fake_timeout() *)
FakeTimeout(s, timeout) ==
    timeout /\ s.env.adjust /\ HasPending(s) /\ 2 * NextTimeout(s) >= OpTimeout

ConnectFails ==
    \E timeout \in BOOLEAN, rt \in SUBSET Requests(Now), nu \in News, w \in Writes :
        /\ srv.creq # "none"
        /\ IF timeout THEN srv.ctm = 0 ELSE CanFail
        /\ LET r == [Now EXCEPT !.srv.creq = "none", !.srv.ctm = 0]
               s == IF timeout THEN r ELSE Failure(r)
           IN  Become(IF FakeTimeout(s, timeout) THEN Connect(s)
                      ELSE SocketFailed(s, IF timeout THEN {} ELSE rt, nu, w))

(* E_handler() of a read event: with the data, the end of the stream *)
EventRead ==
    \E eof \in BOOLEAN :
        /\ Idle /\ "R" \in ctx.watch /\ (net.inb # <<>> \/ eof) /\ (eof => CanFail)
        /\ Become(EnterRead(IF eof THEN Failure(Now) ELSE Now, eof, "ok"))

(* E_handler() of a write event *)
EventWrite ==
    \E w \in {"ok", "again", "fail"} :
        /\ Idle /\ "W" \in ctx.watch /\ (w = "fail" => CanFail)
        /\ LET r == FlushReady([Now EXCEPT !.ctx.wwant = FALSE], w)
           IN  Become(IF r.ctx.err THEN r ELSE CtxSchedule(r, w))

(* Cr_handler() *)
ReadDone ==
    \E w \in Writes :
        /\ Idle /\ ctx.reading /\ ~net.shut /\ net.inb # <<>>
        /\ Become(EnterRead([Now EXCEPT !.ctx.reading = FALSE], FALSE, w))

(* The loop of on_read(): the next response, *)
InLoop == ctx.loop # "no" /\ ctx.rope # <<>> /\ ~ctx.halted

ReadResponse ==
    \E nu \in News, mv \in SUBSET Requests(Now), w \in Writes :
        /\ InLoop
        /\ Become(TryRead([Now EXCEPT !.ctx.rope = Tail(@)], Head(ctx.rope), nu, mv, w))

(* or its end: more is wanted while requests are pending, unless it was an abort. *)
EndRead ==
    \E w \in Writes :
        /\ ctx.loop # "no" /\ ~InLoop
        /\ LET more == ~ctx.halted /\ HasPending(Now)
           IN  Become(AfterRead([Now EXCEPT !.ctx.entered = FALSE, !.ctx.loop = "no",
                                            !.ctx.rdwant = @ \/ more], ctx.loop = "eof", w))

ReadFails ==
    \E rt \in SUBSET Requests(Now), nu \in News, w \in Writes :
        /\ Idle /\ ctx.reading /\ (net.shut \/ CanFail)
        /\ LET s == [Now EXCEPT !.ctx.reading = FALSE, !.ctx.rdwant = FALSE]
           IN  Become(EnteredErr(IF net.shut THEN s ELSE Failure(s), rt, nu, w))

(* Cw_ex_handler(): on_flush_done() with check_closed(), then the error *)
WriteDone(s) ==
    LET r == [s EXCEPT !.ctx.writes = Tail(@)]
    IN  IF r.srv.st # "clean" THEN Finalize(r) ELSE r

Written ==
    /\ Idle /\ ctx.writes # <<>> /\ ~net.shut
    /\ Become(WriteDone([Now EXCEPT !.net.wire = @ \cup Head(ctx.writes)]))

WriteFails ==
    \E rt \in SUBSET Requests(Now), nu \in News, w \in Writes :
        /\ Idle /\ ctx.writes # <<>> /\ (net.shut \/ CanFail)
        /\ LET r == WriteDone(IF net.shut THEN Now ELSE Failure(Now))
           IN  Become(IF r.ctx.up THEN EnteredErr(r, rt, nu, w) ELSE r)

(* err_handler() of the context, which does not count as entered *)
ErrHandler ==
    \E rt \in SUBSET Requests(Now), nu \in News, w \in Writes :
        /\ Idle /\ ctx.sig
        /\ Become(SocketFailed([Now EXCEPT !.ctx.sig = FALSE], rt, nu, w))

IoTimeout_NoArm(s, nu, w) ==
    Purge(Arm(s, NotArmed), {p \in Requests(s) : s.op[p].rem <= 0}, {}, nu, w)

(* timer_callback() and io_timeout() *)
IoTimeout(s, nu, w) ==
    LET r == Purge(Arm(s, NotArmed), {p \in Requests(s) : s.op[p].rem <= 0}, {}, nu, w)
    IN  Arm(r, NextTimeout(r))

IoTimer == Idle /\ srv.tmr = 0 /\ \E nu \in News, w \in Writes : Become(IoTimeout(Now, nu, w))

NewMap ==
    /\ env.removes /\ InUse
    /\ \E mv \in SUBSET Requests(Now), w \in Writes : Become(Remove(Now, mv, w))

(* The node answers what it was sent. *)
Respond ==
    /\ Idle /\ ctx.up /\ ~net.shut
    /\ \E p \in net.wire, k \in env.kinds :
           Become([Now EXCEPT !.net.wire = @ \ {p}, !.net.inb = Append(@, [p |-> p, kind |-> k])])

(* A tick of the clock, when no timer is due *)
Waiting == {p \in Pkts : op[p].ph \in {"reqs", "retry"}}
Due ==
    \/ srv.tmr = 0 \/ ctx.sig \/ (srv.creq # "none" /\ srv.ctm = 0)
    \/ \E p \in Pkts : op[p].ph = "retry" /\ op[p].rem <= 0

Tick ==
    /\ Idle /\ ~Due /\ (Waiting # {} \/ srv.tmr > 0 \/ srv.creq # "none")
    /\ op' = [p \in Pkts |-> IF p \in Waiting THEN [op[p] EXCEPT !.rem = Max({-MaxLate, @ - 1})]
                             ELSE op[p]]
    /\ srv' = [srv EXCEPT !.tmr = IF @ > 0 THEN @ - 1 ELSE @,
                          !.ctm = IF @ > 0 THEN @ - 1 ELSE @]
    /\ UNCHANGED <<env, ctx, net, unsent, count>>

Next ==
    \/ AppSchedule \/ RetryArrives \/ Relocated \/ RetryExpires
    \/ Connected \/ Negotiated \/ ConnectFails
    \/ EventRead \/ EventWrite \/ ReadDone \/ ReadResponse \/ EndRead \/ ReadFails \/ Written \/ WriteFails
    \/ ErrHandler \/ IoTimer \/ NewMap \/ Respond \/ Tick

(* A loop goes on to its end, and the operations on a socket that was shut *)
(* down complete.                                                          *)
Fairness ==
    /\ []<>(~InLoop) \/ []<><<ReadResponse>>_vars
    /\ []<>(Idle \/ InLoop) \/ []<><<EndRead>>_vars
    /\ []<>(~net.shut \/ ~ctx.reading) \/ []<><<ReadFails>>_vars
    /\ []<>(~net.shut \/ ctx.writes = <<>>) \/ []<><<WriteFails>>_vars

Spec == Init /\ [][Next]_vars /\ Fairness

-----------------------------------------------------------------------------
TypeOK ==
    /\ env \in Envs
    /\ srv \in [st : {"clean", "errdrain", "closed", "freed"},
                flush : {"connect", "noop", "flush", "errdrain"},
                creq : {"none", "pool", "session"}, ctm : 0..Max({OpTimeout, NodeTimeout}),
                tmr : NoTimer..OpTimeout, fault : BOOLEAN]
    /\ op \in [Pkts -> [ph : {"idle", "reqs", "retry", "away", "done"},
                        rem : (-MaxLate)..OpTimeout]]
    /\ unsent \subseteq Pkts /\ net.wire \subseteq Pkts
    /\ count.fails <= MaxFails + 1 /\ count.retries <= MaxRetries

(* No handler uses a Server that was deleted below it, and nothing is left *)
(* behind that would call it: no timer, no context and no connection       *)
(* attempt, pending or forgotten (mcserver.h: "The resources of the server *)
(* may still continue to persist internally for a bit until all callbacks  *)
(* have been delivered").                                                  *)
ServerLive ==
    /\ ~srv.fault
    /\ srv.st = "freed" => srv.creq = "none" /\ srv.tmr = NoTimer /\ ~ctx.up

(* Whoever waits is attended to. A server with requests connects or has a  *)
(* context; one in error or closed has an operation pending whose          *)
(* completion finalizes it; an unwritten request has a write event, an     *)
(* attempt or an error signalled; a request on the wire has a read, unless *)
(* try_read() aborted and no flush() has come since.                       *)
Attended ==
    LET held == {p \in Pkts : p \in net.wire \/ \E i \in DOMAIN net.inb : net.inb[i].p = p}
    IN  /\ HasPending(Now) /\ srv.st = "clean" => srv.creq # "none" \/ ctx.up
        /\ srv.creq # "none" => ~ctx.up /\ srv.flush = "noop"
        /\ srv.st = "closed" => ctx.up /\ HasIo(Now)
        /\ srv.st = "errdrain" => IF ctx.up THEN HasIo(Now)
                                  ELSE ~HasPending(Now) /\ srv.flush = "connect"
        /\ ctx.up /\ srv.st = "clean" /\ ~ctx.sig /\ Idle =>
               /\ unsent # {} => "W" \in ctx.watch
               /\ Requests(Now) \cap held # {} /\ ~ctx.halted => "R" \in ctx.watch \/ ctx.reading

(* A request is not failed at its deadline, as the io_timer is armed for   *)
(* the packets before it or, for one moved to a server never used, not     *)
(* before it has connected.  But it is failed before the time of one       *)
(* attempt (operation_timeout and config_node_timeout) has passed since.   *)
LateBounded == \A p \in Requests(Now) : op[p].rem > -(OpTimeout + NodeTimeout)

(* "The operation timeout is the maximum amount of time the library will   *)
(* wait for an operation to receive a response before invoking its         *)
(* callback with a failure status" (cntl.h).                               *)
FailsAtDeadline == \A p \in Requests(Now) : op[p].rem >= 0

(* A server that was removed is deleted, and one in error connects again,  *)
(* once the operations on its socket have completed.                       *)
Drains ==
    /\ srv.st = "closed" ~> srv.st = "freed"
    /\ srv.st = "errdrain" /\ ctx.up ~> ~(srv.st = "errdrain" /\ ctx.up)

=============================================================================
