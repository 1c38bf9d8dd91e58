--------------------------- MODULE McServerProofs ---------------------------
(***************************************************************************)
(* The clock and the first state have the invariant of McServerInv, and so *)
(* ServerLive and LateBounded hold for any number of packets and any       *)
(* timeouts.  Then Attended, that whoever waits for a Server is attended   *)
(* to: McServerInv has the timer, the attempt and the states of the        *)
(* Server; Served adds what its context is waiting for.                    *)
(***************************************************************************)
EXTENDS McServerInv

(* Tick preserves the invariant. *)
LEMMA TickInv ==
  ASSUME Inv, Tick
  PROVE  Inv'
<1> DEFINE s == Now
           r == Now'
<1>1. s \in State /\ Ctl(s) /\ Timed(s) /\ Attempt(s)
  BY DEF Inv, Settled, Mid, Basic
<1>2. srv \in Srv /\ op \in Ops
  BY <1>1, NowFields DEF State
<1>3. /\ srv' \in Srv /\ srv'.st = srv.st /\ srv'.flush = srv.flush /\ srv'.creq = srv.creq
      /\ srv'.fault = srv.fault
      /\ srv'.tmr = (IF srv.tmr > 0 THEN srv.tmr - 1 ELSE srv.tmr)
      /\ srv'.ctm = (IF srv.ctm > 0 THEN srv.ctm - 1 ELSE srv.ctm)
  <2> DEFINE a == IF srv.tmr > 0 THEN srv.tmr - 1 ELSE srv.tmr
             b == IF srv.ctm > 0 THEN srv.ctm - 1 ELSE srv.ctm
  <2>1. srv' = [srv EXCEPT !.tmr = a, !.ctm = b]
    BY <1>2 DEF Srv, Tick
  <2>2. a \in Int /\ b \in Nat
    BY <1>2 DEF Srv
  <2> HIDE DEF a, b
  <2>3. /\ srv' \in Srv /\ srv'.st = srv.st /\ srv'.flush = srv.flush /\ srv'.creq = srv.creq
        /\ srv'.fault = srv.fault /\ srv'.tmr = a /\ srv'.ctm = b
    BY ZenonT(60), <1>2, <2>1, <2>2 DEF Srv
  <2> QED
    BY <2>3 DEF a, b
<1>4. OpTimeout \in Nat /\ NodeTimeout \in Nat /\ OpTimeout > 0 /\ NodeTimeout > 0
      /\ MaxLate \in Nat /\ Bound \in Int
  BY ServerAssumption DEF MaxLate, Bound
<1>5. ASSUME NEW p \in Pkts
      PROVE  /\ op'[p].ph = op[p].ph /\ op'[p].rem \in Int
             /\ op'[p].rem <= OpTimeout /\ op'[p].rem >= op[p].rem - 1
             /\ op'[p] \in [ph : {"idle", "reqs", "retry", "away", "done"}, rem : Int]
  <2>1. /\ op[p] \in [ph : {"idle", "reqs", "retry", "away", "done"}, rem : Int]
        /\ op[p].rem \in Int /\ op[p].rem <= OpTimeout
    BY <1>1, <1>2, NowFields DEF Ops, Timed
  <2> DEFINE m == Max({-MaxLate, op[p].rem - 1})
  <2>2. m = IF op[p].rem - 1 > -MaxLate THEN op[p].rem - 1 ELSE -MaxLate
    BY <1>4, <2>1 DEF Max
  <2>3. op'[p] = IF p \in Waiting THEN [op[p] EXCEPT !.rem = m] ELSE op[p]
    BY DEF Tick
  <2> HIDE DEF m
  <2>4. m \in Int /\ m >= op[p].rem - 1 /\ m <= OpTimeout
    BY SMTT(60), <1>4, <2>1, <2>2
  <2> QED
    BY <2>1, <2>3, <2>4
<1>6. op' \in Ops
  <2>1. op' = [p \in Pkts |-> op'[p]]
    BY ZenonT(60) DEF Tick
  <2> QED
    BY <1>5, <2>1 DEF Ops
<1>7. /\ r \in State /\ r.srv = srv' /\ r.op = op' /\ r.ctx = ctx
  <2>1. /\ s.env = env /\ s.ctx = ctx /\ s.net = net /\ s.unsent = unsent /\ s.count = count
    BY NowFields
  <2>2. r = [env |-> env, srv |-> srv', ctx |-> ctx, net |-> net, op |-> op', unsent |-> unsent,
             count |-> count]
    BY DEF Now, Tick
  <2> HIDE DEF s, r
  <2> QED
    BY ZenonT(60), <1>1, <1>3, <1>6, <2>1, <2>2 DEF State
<1> HIDE DEF r
<1>8. Requests(r) = Requests(s) /\ (HasPending(r) <=> HasPending(s))
  BY ZenonT(60), <1>5, <1>7, NowFields DEF Requests, HasPending
<1>9. srv.tmr # 0 /\ (srv.creq # "none" => srv.ctm # 0)
  BY ZenonT(60) DEF Tick, Due
<1>10. Ctl(r)
  BY SMTT(60), <1>1, <1>3, <1>7, NowFields DEF Ctl, NoTimer
<1>11. srv.tmr \in {NoTimer, NotArmed} \cup 1..OpTimeout
  BY SMTT(60), <1>1, <1>4, <1>9, NowFields DEF Timed
<1>12. srv.ctm \in Nat
  BY ZenonT(60), <1>2 DEF Srv
<1>13. ASSUME NEW p \in Requests(s)
       PROVE  /\ r.op[p].rem >= Bound
              /\ srv'.tmr >= 0 => r.op[p].rem - srv'.tmr >= Bound
              /\ srv'.tmr = NotArmed =>
                     /\ srv.creq # "none"
                     /\ r.op[p].rem - srv'.ctm >= IF srv.creq = "pool" THEN 1 - OpTimeout ELSE Bound
  <2>1. PICK x \in Int, y \in Int : x = op[p].rem /\ y = r.op[p].rem /\ y >= x - 1
    BY ZenonT(60), <1>2, <1>5, <1>7 DEF Requests, Ops
  <2>2. srv.tmr # NoTimer
    BY ZenonT(60), <1>1, NowFields DEF Timed, HasPending
  <2>3. CASE srv.tmr \in 1..OpTimeout
    <3>1. srv'.tmr = srv.tmr - 1 /\ srv.tmr \in Int /\ srv.tmr > 0
      BY SMTT(60), <1>3, <1>4, <2>3
    <3>2. x - srv.tmr >= Bound
      BY SMTT(60), <1>1, <2>1, <3>1, NowFields DEF Timed
    <3> QED
      BY SMTT(60), <1>4, <2>1, <3>1, <3>2 DEF NotArmed
  <2>4. CASE srv.tmr = NotArmed
    <3>1. srv.creq # "none" /\ srv.ctm \in Int /\ srv.ctm > 0
      BY SMTT(60), <1>1, <1>9, <1>12, <2>4, NowFields DEF Attempt, HasPending
    <3>2. srv'.tmr = NotArmed /\ srv'.ctm = srv.ctm - 1
      BY SMTT(60), <1>3, <2>4, <3>1 DEF NotArmed
    <3>3. x - srv.ctm >= IF srv.creq = "pool" THEN 1 - OpTimeout ELSE Bound
      BY ZenonT(60), <1>1, <2>1, <2>4, NowFields DEF Attempt, HasPending
    <3>4. y - srv'.ctm >= IF srv.creq = "pool" THEN 1 - OpTimeout ELSE Bound
      BY SMTT(60), <1>4, <2>1, <3>1, <3>2, <3>3
    <3>5. y >= Bound
      BY SMTT(60), <1>4, <2>1, <3>1, <3>2, <3>4 DEF Bound
    <3> QED
      BY SMTT(60), <2>1, <3>1, <3>2, <3>4, <3>5 DEF NotArmed
  <2> QED
    BY ZenonT(60), <1>11, <2>2, <2>3, <2>4
<1>14. /\ srv'.tmr \in {NoTimer, NotArmed} \cup 0..OpTimeout
       /\ srv'.tmr = NoTimer => srv.tmr = NoTimer
       /\ srv.creq = "pool" => srv'.ctm <= OpTimeout
       /\ srv.creq = "session" => srv'.ctm <= NodeTimeout
  <2>1. /\ srv.tmr \in {NoTimer, NotArmed} \cup 0..OpTimeout
        /\ srv.creq = "pool" => srv.ctm <= OpTimeout
        /\ srv.creq = "session" => srv.ctm <= NodeTimeout
    BY ZenonT(60), <1>1, NowFields DEF Timed
  <2>2. srv'.tmr \in {NoTimer, NotArmed} \cup 0..OpTimeout
    BY SMTT(60), <1>3, <1>4, <1>11, <2>1 DEF NoTimer, NotArmed
  <2>3. srv'.tmr = NoTimer => srv.tmr = NoTimer
    BY SMTT(60), <1>3, <1>4, <1>11, <2>1 DEF NoTimer, NotArmed
  <2>4. /\ srv.creq = "pool" => srv'.ctm <= OpTimeout
        /\ srv.creq = "session" => srv'.ctm <= NodeTimeout
    BY SMTT(60), <1>3, <1>4, <1>12, <2>1
  <2> QED
    BY ZenonT(60), <2>2, <2>3, <2>4
<1>15. Timed(r)
  BY ZenonT(60), <1>1, <1>3, <1>5, <1>7, <1>8, <1>13, <1>14, NowFields DEF Timed
<1>16. Attempt(r)
  <2>1. Trying(r)
    BY ZenonT(60), <1>1, <1>3, <1>7, NowFields DEF Attempt, Trying, Usable
  <2>2. ASSUME r.srv.tmr = NotArmed, NEW p \in Requests(r)
        PROVE  /\ r.srv.creq # "none"
               /\ r.op[p].rem - r.srv.ctm >= IF r.srv.creq = "pool" THEN 1 - OpTimeout ELSE Bound
    BY ZenonT(60), <1>3, <1>7, <1>8, <1>13, <2>2
  <2> QED
    BY ZenonT(60), <2>1, <2>2 DEF Attempt, HasPending
<1>17. Settled(r)
  BY ZenonT(60), <1>7, <1>10, <1>15, <1>16, BasicSettled DEF Basic
<1> QED
  BY <1>17 DEF Inv, r

-----------------------------------------------------------------------------
(* Server::Server() satisfies the invariant. *)
LEMMA InitInv ==
  ASSUME MapsKeepNode, Init
  PROVE  Inv
<1> DEFINE s == Now
<1>1. OpTimeout \in Nat /\ Bound \in Int
  BY SMTT(60), ServerAssumption DEF Bound
<1>2. env \in {e \in EnvType : "gone" \notin e.kinds}
  BY ZenonT(60), ServerAssumption DEF Init, MapsKeepNode
<1>3. srv \in Srv
  BY SMTT(60) DEF Init, Srv, NotArmed
<1>4. ctx \in Ctx /\ net \in Net
  BY SMTT(60) DEF Init, NoCtx, NoNet, Ctx, Net
<1>5. op \in Ops /\ unsent \in SUBSET Pkts /\ count \in [fails : Nat, retries : Nat]
  BY SMTT(60) DEF Init, Ops
<1>6. s \in State
  BY ZenonT(60), <1>2, <1>3, <1>4, <1>5 DEF State, Now
<1>7. /\ s.srv = [st |-> "clean", flush |-> "connect", creq |-> "none", ctm |-> 0,
                  tmr |-> NotArmed, fault |-> FALSE]
      /\ s.ctx = NoCtx /\ s.op = [p \in Pkts |-> [ph |-> "idle", rem |-> 0]]
  BY ZenonT(60), NowFields DEF Init
<1> HIDE DEF s
<1>8. Ctl(s)
  BY SMTT(60), <1>7 DEF Ctl, NoCtx
<1>9. Requests(s) = {}
  BY SMTT(60), <1>7 DEF Requests
<1>10. \A p \in Pkts : s.op[p].rem <= OpTimeout
  BY SMTT(60), <1>1, <1>7
<1>11. Timed(s) /\ Attempt(s)
  BY SMTT(60), <1>7, <1>9, <1>10 DEF Timed, Attempt, Trying, HasPending, NotArmed, NoTimer
<1> QED
  BY ZenonT(60), <1>6, <1>8, <1>11, BasicSettled DEF Inv, Basic, s

(* Every step preserves the invariant. *)
LEMMA NextInv ==
  ASSUME Inv, [Next]_vars
  PROVE  Inv'
<1>1. CASE UNCHANGED vars
  <2>1. Now' = Now
    BY ZenonT(60), <1>1 DEF vars, Now
  <2> QED
    BY ZenonT(60), <2>1 DEF Inv
<1>2. CASE Next
  BY ZenonT(60), <1>2, AppScheduleInv, RetryArrivesInv, RelocatedInv, RetryExpiresInv, ConnectedInv,
     NegotiatedInv, ConnectFailsInv, EventReadInv, EventWriteInv, ReadDoneInv, ReadResponseInv,
     EndReadInv, ReadFailsInv, WrittenInv, WriteFailsInv, ErrHandlerInv, IoTimerInv, NewMapInv,
     RespondInv, TickInv DEF Next
<1> QED
  BY <1>1, <1>2

(* The invariant implies the two properties. *)
LEMMA InvImplies ==
  ASSUME Inv
  PROVE  ServerLive /\ LateBounded
<1>1. Now \in State /\ Ctl(Now) /\ Timed(Now)
  BY DEF Inv, Settled, Mid, Basic
<1>2. ServerLive
  BY <1>1, NowFields DEF Ctl, ServerLive
<1>3. ASSUME NEW p \in Requests(Now) PROVE op[p].rem > -(OpTimeout + NodeTimeout)
  <2>1. op[p].rem \in Int /\ op[p].rem >= Bound
    BY <1>1, NowFields DEF Timed, State, Ops, Requests
  <2> QED
    BY SMTT(60), <2>1, ServerAssumption DEF Bound
<1> QED
  BY <1>2, <1>3 DEF LateBounded

(* Whatever the order of the events, the failures of the network, the      *)
(* removal of the node from the map and what the callbacks schedule, no    *)
(* handler of mcserver.cc uses a Server that was deleted, connect() never  *)
(* forgets an attempt, and ~Server() leaves no timer, context or attempt   *)
(* behind; provided no map that comes with a response lacks the node.      *)
THEOREM ServerIsLive ==
  ASSUME MapsKeepNode
  PROVE  Spec => []ServerLive
<1>1. Init => Inv
  BY InitInv
<1>2. Inv /\ [Next]_vars => Inv'
  BY NextInv
<1>3. Inv => ServerLive
  BY ZenonT(60), InvImplies
<1> QED
  BY <1>1, <1>2, <1>3, PTL DEF Spec

(* For every operation_timeout and config_node_timeout, and any number of  *)
(* packets, a request is still in the queue of mcserver.cc for less than   *)
(* the sum of the two after its deadline: io_timeout() or the end of the   *)
(* attempt has failed it by then.                                          *)
THEOREM LatenessIsBounded ==
  ASSUME MapsKeepNode
  PROVE  Spec => []LateBounded
<1>1. Init => Inv
  BY InitInv
<1>2. Inv /\ [Next]_vars => Inv'
  BY NextInv
<1>3. Inv => LateBounded
  BY InvImplies
<1> QED
  BY <1>1, <1>2, <1>3, PTL DEF Spec

-----------------------------------------------------------------------------
(* What is to be written and read is wanted: a handler of the context may  *)
(* leave it at that, as lcbio_ctx_schedule() follows.                      *)
Wants(s) ==
    /\ ~s.ctx.err
    /\ s.unsent # {} => s.ctx.wwant
    /\ s.ctx.entered \/ s.ctx.halted \/ s.ctx.rdwant \/ ~HasPending(s)

(* What is wanted has an event watched or an operation started. *)
Scheduled(s) ==
    \/ s.ctx.entered
    \/ IF s.env.mode = "E"
       THEN (s.ctx.rdwant => "R" \in s.ctx.watch) /\ (s.ctx.wwant => "W" \in s.ctx.watch)
       ELSE (s.ctx.rdwant => s.ctx.reading) /\ ~s.ctx.wwant

(* The context counts as entered in the loop of on_read() only, and an     *)
(* error that was signalled excuses the rest: err_handler() comes.         *)
Entered(s) == s.ctx.entered <=> s.ctx.loop # "no"
Ready(s) == Entered(s) /\ (s.ctx.sig \/ (Wants(s) /\ Scheduled(s)))

(* A server without requests is the only one that connects on demand; one  *)
(* in error or closed with its context waits for an operation, and only    *)
(* such a one has the flush_start that writes nothing.                     *)
Running(s) == s.ctx.up /\ s.srv.st = "clean"
Drained(s) ==
    /\ s.srv.flush = "connect" => ~HasPending(s)
    /\ s.srv.flush = "errdrain" => s.srv.st # "clean"
    /\ s.srv.flush = "flush" => s.srv.st # "errdrain"
    /\ s.srv.st = "closed" => s.ctx.up
    /\ s.ctx.up /\ s.srv.st # "clean" => HasIo(s)

Served(s) == Drained(s) /\ (Running(s) => Ready(s))

-----------------------------------------------------------------------------
(* What every operation of the context leaves as it was; an error that it  *)
(* sets is signalled.                                                      *)
Keeps(r, s) ==
    /\ r.env = s.env /\ r.srv = s.srv /\ r.op = s.op
    /\ \A f \in {"up", "entered", "loop", "halted", "rdwant"} : r.ctx[f] = s.ctx[f]
    /\ HasIo(s) => HasIo(r)
    /\ s.ctx.sig => r.ctx.sig
    /\ ~r.ctx.sig => r.ctx.err = s.ctx.err

(* The operations of the context can follow one another. *)
LEMMA KeepsTransitive ==
  ASSUME NEW s, NEW r, NEW q, Keeps(r, s), Keeps(q, r)
  PROVE  Keeps(q, s)
BY ZenonT(60) DEF Keeps

(* on_flush_ready() wants to write again what it could not write. *)
LEMMA FlushReadyKeeps ==
  ASSUME NEW s \in State, s.ctx.up, NEW w \in WriteResults
  PROVE  LET r == FlushReady(s, w)
         IN  /\ Keeps(r, s)
             /\ r.unsent # {} => r.ctx.wwant
             /\ s.env.mode # "E" => r.unsent = {} /\ r.ctx.wwant = s.ctx.wwant
<1> DEFINE sent == [s EXCEPT !.unsent = {}]
           more(r) == [r EXCEPT !.ctx.wwant = TRUE]
           err == SendErr(Failure(sent), TRUE)
           Good(r) == Keeps(r, s) /\ (r.unsent # {} => r.ctx.wwant)
           Done(r) == r.unsent = {} /\ r.ctx.wwant = s.ctx.wwant
<1>1. s.unsent = {} => Good(s) /\ Done(s)
  BY ZenonT(60) DEF Keeps
<1>2. Good([sent EXCEPT !.net.wire = @ \cup s.unsent])
  BY ZenonT(60) DEF Keeps, State, HasIo
<1>3. Good(more(s))
  BY ZenonT(60) DEF Keeps, State, Ctx, HasIo
<1>4. Good(err) /\ Done(err)
  BY ZenonT(60) DEF Keeps, State, Ctx, HasIo, SendErr, Failure
<1>5. Good(more(err))
  BY ZenonT(60) DEF Keeps, State, Ctx, HasIo, SendErr, Failure
<1>6. Good([sent EXCEPT !.ctx.writes = Append(@, s.unsent)]) /\ Done([sent EXCEPT !.ctx.writes = Append(@, s.unsent)])
  <2>1. s.ctx.writes \in Seq(SUBSET Pkts) /\ s.unsent \in SUBSET Pkts
    BY DEF State, Ctx
  <2>2. Append(s.ctx.writes, s.unsent) # <<>>
    BY <2>1
  <2> QED
    BY ZenonT(60), <2>2 DEF Keeps, State, Ctx, HasIo
<1> HIDE DEF Good, Done, err, more, sent
<1>7. FlushReady(s, w) =
         IF s.unsent = {} THEN s
         ELSE IF s.env.mode = "E"
         THEN CASE w = "ok"    -> [sent EXCEPT !.net.wire = @ \cup s.unsent]
                [] w = "again" -> more(s)
                [] w = "fail"  -> more(err)
         ELSE IF w = "fail" THEN err
         ELSE [sent EXCEPT !.ctx.writes = Append(@, s.unsent)]
  BY ZenonT(60) DEF FlushReady, err, more, sent
<1>8. Good(FlushReady(s, w)) /\ (s.env.mode # "E" => Done(FlushReady(s, w)))
  BY ZenonT(60), <1>1, <1>2, <1>3, <1>4, <1>5, <1>6, <1>7 DEF WriteResults
<1> QED
  BY <1>8 DEF Good, Done

(* lcbio_ctx_schedule() on a context that is not entered starts what is    *)
(* wanted, or signals an error.                                            *)
LEMMA CtxScheduleKeeps ==
  ASSUME NEW s \in State, s.ctx.up, NEW w \in WriteResults
  PROVE  LET r == CtxSchedule(s, w)
         IN  /\ Keeps(r, s)
             /\ (s.unsent # {} => s.ctx.wwant) => (r.unsent # {} => r.ctx.wwant)
             /\ s.ctx.err \/ r.ctx.sig \/ Scheduled(r)
<1> DEFINE Good(r) == /\ Keeps(r, s)
                      /\ (s.unsent # {} => s.ctx.wwant) => (r.unsent # {} => r.ctx.wwant)
<1>1. Good(s)
  BY ZenonT(60) DEF Keeps
<1>2. Good(ESchedule(s)) /\ (s.env.mode = "E" => Scheduled(ESchedule(s)))
  BY ZenonT(60) DEF Keeps, Scheduled, State, Ctx, HasIo, ESchedule
<1>3. s.env.mode # "E" => Good(CSchedule(s, w)) /\ Scheduled(CSchedule(s, w))
  <2> DEFINE q == [s EXCEPT !.ctx.wwant = FALSE]
             u == FlushReady(q, w)
             r == IF s.ctx.wwant THEN u ELSE s
  <2> SUFFICES ASSUME s.env.mode # "E" PROVE Good(CSchedule(s, w)) /\ Scheduled(CSchedule(s, w))
    OBVIOUS
  <2>1. q \in State /\ q.ctx.up /\ Keeps(q, s) /\ q.env = s.env /\ q.ctx.wwant = FALSE
    BY ZenonT(60) DEF Keeps, State, Ctx, HasIo
  <2> HIDE DEF q
  <2>2. u \in State /\ Keeps(u, q) /\ u.unsent = {} /\ u.ctx.wwant = FALSE
    BY ZenonT(60), <2>1, FlushReadyKeeps, FlushReadySame DEF Same
  <2> HIDE DEF u
  <2>3. r \in State /\ Keeps(r, s) /\ r.ctx.wwant = FALSE /\ (s.ctx.wwant => r.unsent = {}) /\ (~s.ctx.wwant => r = s)
    BY ZenonT(60), <1>1, <2>1, <2>2, KeepsTransitive DEF State, Ctx
  <2>4. CSchedule(s, w) = IF r.ctx.rdwant THEN [r EXCEPT !.ctx.reading = TRUE] ELSE r
    BY ZenonT(60) DEF CSchedule, r, u, q
  <2> HIDE DEF r
  <2> DEFINE v == [r EXCEPT !.ctx.reading = TRUE]
  <2>5. Keeps(v, r) /\ v.unsent = r.unsent /\ v.ctx.wwant = r.ctx.wwant /\ v.ctx.reading = TRUE
    BY ZenonT(60), <2>3 DEF Keeps, State, Ctx, HasIo
  <2>6. v.env.mode # "E" /\ r.env.mode # "E" /\ v.ctx.rdwant = r.ctx.rdwant
    BY ZenonT(60), <2>3, <2>5 DEF Keeps
  <2> HIDE DEF v
  <2>7. Keeps(v, s)
    BY <2>3, <2>5, KeepsTransitive
  <2>8. Good(v) /\ Scheduled(v)
    BY ZenonT(60), <2>3, <2>5, <2>6, <2>7 DEF Scheduled
  <2>9. ~r.ctx.rdwant => Good(r) /\ Scheduled(r)
    BY ZenonT(60), <2>3, <2>6 DEF Scheduled
  <2> QED
    BY ZenonT(60), <2>4, <2>8, <2>9 DEF v
<1> HIDE DEF Good
<1>4. s.ctx.entered => Scheduled(s)
  BY DEF Scheduled
<1>5. Good(CtxSchedule(s, w)) /\ (s.ctx.err \/ Scheduled(CtxSchedule(s, w)))
  BY ZenonT(60), <1>1, <1>2, <1>3, <1>4 DEF CtxSchedule
<1> QED
  BY ZenonT(60), <1>5 DEF Good

(* After it, a context that wanted what there is to do is ready. *)
LEMMA SchedulesReady ==
  ASSUME NEW s \in State, s.ctx.up, NEW w \in WriteResults, Entered(s), s.ctx.sig \/ Wants(s)
  PROVE  Ready(CtxSchedule(s, w))
<1> DEFINE r == CtxSchedule(s, w)
<1>1. /\ Keeps(r, s)
      /\ (s.unsent # {} => s.ctx.wwant) => (r.unsent # {} => r.ctx.wwant)
      /\ s.ctx.err \/ r.ctx.sig \/ Scheduled(r)
  BY ZenonT(60), CtxScheduleKeeps
<1> HIDE DEF r
<1>2. /\ r.op = s.op /\ (s.ctx.sig => r.ctx.sig) /\ (~r.ctx.sig => r.ctx.err = s.ctx.err)
      /\ r.ctx.entered = s.ctx.entered /\ r.ctx.loop = s.ctx.loop
      /\ r.ctx.halted = s.ctx.halted /\ r.ctx.rdwant = s.ctx.rdwant
  BY ZenonT(60), <1>1 DEF Keeps
<1>3. Entered(r) /\ (HasPending(r) <=> HasPending(s))
  BY ZenonT(60), <1>2 DEF Entered, HasPending, Requests
<1>4. r.ctx.sig \/ (Wants(r) /\ Scheduled(r))
  BY ZenonT(60), <1>1, <1>2, <1>3 DEF Wants
<1> QED
  BY <1>3, <1>4 DEF Ready, r

(* The timer is not part of it. *)
LEMMA ArmRest ==
  ASSUME NEW s \in State, NEW n
  PROVE  /\ Arm(s, n).env = s.env /\ Arm(s, n).ctx = s.ctx /\ Arm(s, n).op = s.op
         /\ Arm(s, n).unsent = s.unsent
         /\ \A f \in {"st", "flush"} : Arm(s, n).srv[f] = s.srv[f]
BY ZenonT(60) DEF Arm, State, Srv

(* flush() makes a context ready, whatever has joined the send queue. *)
LEMMA FlushReadies ==
  ASSUME NEW s \in State, s.ctx.up, NEW w \in WriteResults, Entered(s), s.ctx.sig \/ ~s.ctx.err
  PROVE  LET r == Flush(s, w)
         IN  /\ Ready(r) /\ r.ctx.up /\ (HasIo(s) => HasIo(r))
             /\ \A f \in {"st", "flush"} : r.srv[f] = s.srv[f]
<1> DEFINE a == [s EXCEPT !.ctx.rdwant = TRUE, !.ctx.halted = FALSE]
           m == [a EXCEPT !.ctx.wwant = TRUE]
           b == WWant(a, w)
           c == CtxSchedule(b, w)
<1>1. Same(a, s)
  BY ZenonT(60) DEF Same, State, Ctx
<1>2. /\ a.ctx.rdwant = TRUE /\ a.srv = s.srv /\ (HasIo(s) => HasIo(a)) /\ a.ctx.sig = s.ctx.sig
      /\ a.ctx.err = s.ctx.err /\ Entered(a)
  BY ZenonT(60) DEF State, Ctx, HasIo, Entered
<1> HIDE DEF a
<1>3. Keeps(m, a) /\ m.ctx.wwant = TRUE
  BY ZenonT(60), <1>1 DEF Same, State, Ctx, Keeps, HasIo
<1>4. Keeps(b, a) /\ (b.unsent # {} => b.ctx.wwant) /\ Same(b, a)
  BY ZenonT(60), <1>1, <1>3, FlushReadyKeeps, WWantSame DEF Same, WWant
<1> HIDE DEF m, b
<1>5. b \in State /\ b.ctx.up /\ b.ctx.rdwant = TRUE /\ b.srv = s.srv
  BY ZenonT(60), <1>1, <1>2, <1>4 DEF Same, Keeps
<1>6. Entered(b) /\ (b.ctx.sig \/ Wants(b)) /\ (HasIo(s) => HasIo(b))
  BY ZenonT(60), <1>2, <1>4, <1>5 DEF Keeps, Entered, Wants
<1>7. Ready(c) /\ Same(c, b) /\ Keeps(c, b)
  BY ZenonT(60), <1>5, <1>6, SchedulesReady, CtxScheduleSame, CtxScheduleKeeps
<1> HIDE DEF c
<1>8. c \in State /\ c.ctx.up /\ c.srv = s.srv /\ (HasIo(s) => HasIo(c))
  BY ZenonT(60), <1>5, <1>6, <1>7 DEF Same, Keeps
<1>9. Flush(s, w) = IF c.srv.tmr = NotArmed THEN Arm(c, OpTimeout) ELSE c
  BY ZenonT(60) DEF Flush, ArmIfNot, a, b, c
<1> DEFINE u == Arm(c, OpTimeout)
<1>10. /\ u.env = c.env /\ u.ctx = c.ctx /\ u.op = c.op /\ u.unsent = c.unsent
       /\ \A f \in {"st", "flush"} : u.srv[f] = c.srv[f]
  BY ZenonT(60), <1>8, ArmRest
<1> HIDE DEF u
<1>11. Ready(u) /\ u.ctx.up /\ (HasIo(s) => HasIo(u))
  BY ZenonT(60), <1>7, <1>8, <1>10 DEF Ready, Entered, Wants, Scheduled, HasPending, Requests, HasIo
<1> QED
  BY ZenonT(60), <1>7, <1>8, <1>9, <1>10, <1>11 DEF u

-----------------------------------------------------------------------------
(* What a handler that schedules a packet finds: Served, but for what      *)
(* flush_start will see to.                                                *)
Callable(s) ==
    /\ s.srv.flush = "errdrain" => s.srv.st # "clean"
    /\ s.srv.flush = "flush" => s.srv.st # "errdrain"
    /\ s.ctx.up /\ s.srv.st # "clean" => HasIo(s)
    /\ Running(s) => Entered(s) /\ (s.ctx.sig \/ ~s.ctx.err)

(* It is less than Served, *)
LEMMA ServedCallable ==
  ASSUME NEW s, Served(s)
  PROVE  Callable(s)
BY ZenonT(60) DEF Served, Drained, Callable, Ready, Wants

(* and does not depend on the packets. *)
LEMMA CallableSame ==
  ASSUME NEW s, Callable(s), NEW r, r.ctx = s.ctx, r.srv.st = s.srv.st, r.srv.flush = s.srv.flush
  PROVE  Callable(r)
BY ZenonT(60) DEF Callable, Running, HasIo, Entered

(* Fewer requests are served no less. *)
LEMMA FewerServed ==
  ASSUME NEW s, Served(s), NEW r, r.env = s.env, r.ctx = s.ctx, r.unsent = s.unsent,
         r.srv.st = s.srv.st, r.srv.flush = s.srv.flush, Requests(r) \subseteq Requests(s)
  PROVE  Served(r)
<1>1. HasPending(r) => HasPending(s)
  BY DEF HasPending
<1>2. Drained(r) /\ (Running(r) => Running(s))
  BY ZenonT(60), <1>1 DEF Served, Drained, Running, HasIo
<1>3. (Wants(s) => Wants(r)) /\ (Scheduled(s) => Scheduled(r)) /\ (Entered(s) => Entered(r))
  <2>1. Wants(s) => Wants(r)
    BY ZenonT(60), <1>1 DEF Wants
  <2>2. Scheduled(s) => Scheduled(r)
    BY DEF Scheduled
  <2> QED
    BY <2>1, <2>2 DEF Entered
<1> QED
  BY ZenonT(60), <1>2, <1>3 DEF Served, Ready

(* connect() without a context: its attempt serves whatever waits. *)
LEMMA ConnectServed ==
  ASSUME NEW s \in State, ~s.ctx.up
  PROVE  Served(Connect(s)) /\ ~Running(Connect(s))
<1>1. LET r == Connect(s) IN r.ctx = s.ctx /\ r.srv.st = "clean" /\ r.srv.flush = "noop"
  BY ZenonT(60), ConnectState
<1> QED
  BY ZenonT(60), <1>1 DEF Served, Drained, Running

(* pipeline->flush_start, after packets have joined the request queue. *)
LEMMA FlushStartServed ==
  ASSUME NEW s \in State, Ctl(s), Usable(s), Callable(s), NEW w \in WriteResults
  PROVE  Served(FlushStart(s, w))
<1>1. s.srv.flush \in {"connect", "noop", "flush", "errdrain"} /\ s.srv.st \notin {"closed", "freed"}
  BY DEF State, Srv, Usable
<1>2. s.ctx.up <=> s.srv.flush \in {"flush", "errdrain"}
  BY ZenonT(60), <1>1 DEF Ctl
<1>3. CASE s.srv.flush = "connect"
  BY ZenonT(60), <1>2, <1>3, ConnectServed DEF FlushStart
<1>4. CASE s.srv.flush = "noop"
  <2>1. FlushStart(s, w) = s
    BY <1>4 DEF FlushStart
  <2>2. Drained(s) /\ ~Running(s)
    BY ZenonT(60), <1>1, <1>2, <1>4 DEF Drained, Running
  <2> QED
    BY <2>1, <2>2 DEF Served
<1>5. CASE s.srv.flush = "flush"
  <2> DEFINE r == Flush(s, w)
  <2>1. FlushStart(s, w) = r
    BY <1>5 DEF FlushStart
  <2>2. s.srv.st = "clean"
    BY ZenonT(60), <1>1, <1>5 DEF Callable, State, Srv
  <2>3. /\ Ready(r) /\ r.ctx.up
        /\ \A f \in {"st", "flush"} : r.srv[f] = s.srv[f]
    BY ZenonT(60), <1>2, <1>5, <2>2, FlushReadies DEF Callable, Running
  <2> HIDE DEF r
  <2>4. r.srv.st = "clean" /\ r.srv.flush = "flush"
    BY ZenonT(60), <1>5, <2>2, <2>3
  <2> QED
    BY ZenonT(60), <2>1, <2>3, <2>4 DEF Served, Drained, Running
<1>6. CASE s.srv.flush = "errdrain"
  <2>1. FlushStart(s, w) = IF s.srv.tmr = NotArmed THEN Arm(s, OpTimeout) ELSE s
    BY <1>6 DEF FlushStart, ArmIfNot
  <2>2. Drained(s) /\ ~Running(s)
    BY ZenonT(60), <1>1, <1>6 DEF Drained, Running, Callable
  <2>3. Served(s)
    BY <2>2 DEF Served
  <2> DEFINE u == Arm(s, OpTimeout)
  <2>4. /\ u.env = s.env /\ u.ctx = s.ctx /\ u.op = s.op /\ u.unsent = s.unsent
        /\ u.srv.st = s.srv.st /\ u.srv.flush = s.srv.flush
    BY ZenonT(60), ArmRest
  <2> HIDE DEF u
  <2>5. Requests(u) \subseteq Requests(s)
    BY <2>4 DEF Requests
  <2>6. Served(u)
    BY ZenonT(60), <2>3, <2>4, <2>5, FewerServed
  <2> QED
    BY <2>1, <2>3, <2>6 DEF u
<1> QED
  BY <1>1, <1>3, <1>4, <1>5, <1>6

-----------------------------------------------------------------------------
(* mcreq_sched_add() and mcreq_sched_leave() *)
LEMMA ScheduleServed ==
  ASSUME NEW s, Mid(s), Usable(s), Callable(s), NEW p \in Pkts, NEW t \in 1..OpTimeout,
         NEW w \in WriteResults
  PROVE  Served(Schedule(s, p, t, w))
<1> DEFINE c == Scheduling(s, p, t)
<1>1. Mid(c) /\ Usable(c) /\ c.ctx = s.ctx /\ c.srv.st = s.srv.st /\ c.srv.flush = s.srv.flush
  BY ZenonT(60), SchedulingMid
<1>2. Schedule(s, p, t, w) = FlushStart(c, w)
  BY DEF Schedule, Scheduling
<1> HIDE DEF c
<1>3. Callable(c) /\ c \in State /\ Ctl(c)
  BY ZenonT(60), <1>1, CallableSame DEF Mid, Basic
<1> QED
  BY ZenonT(60), <1>1, <1>2, <1>3, FlushStartServed

(* A callback of the program *)
LEMMA CallbackServed ==
  ASSUME NEW s, Mid(s), Served(s), NEW nu \in Pkts \cup {0}, NEW w \in WriteResults
  PROVE  Served(Callback(s, nu, w))
<1>1. CASE nu # 0 /\ s.op[nu].ph = "idle" /\ Usable(s)
  <2>1. OpTimeout \in 1..OpTimeout /\ nu \in Pkts
    BY <1>1, ServerAssumption
  <2>2. Callback(s, nu, w) = Schedule(s, nu, OpTimeout, w)
    BY <1>1 DEF Callback, Usable
  <2> QED
    BY ZenonT(60), <1>1, <2>1, <2>2, ServedCallable, ScheduleServed
<1>2. CASE ~(nu # 0 /\ s.op[nu].ph = "idle" /\ Usable(s))
  <2>1. Callback(s, nu, w) = s
    BY ZenonT(60), <1>2 DEF Callback, Usable
  <2> QED
    BY <2>1
<1> QED
  BY <1>1, <1>2

(* r differs from s in the packets of the queue at most. *)
OnlyOps(r, s) ==
    r.env = s.env /\ r.srv = s.srv /\ r.ctx = s.ctx /\ r.unsent = s.unsent /\ r.net = s.net

(* A packet that leaves the queue leaves its bytes and the environment. *)
LEMMA LeaveRest ==
  ASSUME NEW s \in State, NEW P, NEW ph
  PROVE  OnlyOps(Leave(s, P, ph), s)
BY ZenonT(60) DEF Leave, State, OnlyOps

(* So do those that purge() takes. *)
LEMMA PurgedRest ==
  ASSUME NEW s \in State, NEW P, NEW rt
  PROVE  LET r == Purged(s, P, rt) IN r.env = s.env /\ r.unsent = s.unsent
<1> DEFINE o == [p \in Pkts |-> IF p \in P \cap rt THEN [s.op[p] EXCEPT !.ph = "retry"] ELSE s.op[p]]
           k == Kept(s, P, rt)
<1>1. o \in Ops
  BY DEF State, Ops
<1>2. k = [s EXCEPT !.op = o]
  BY DEF Kept
<1> HIDE DEF o
<1>3. k \in State /\ k.env = s.env /\ k.unsent = s.unsent
  BY ZenonT(60), <1>1, <1>2 DEF State
<1> HIDE DEF k
<1> DEFINE r == Leave(k, P \ rt, "done")
<1>4. OnlyOps(r, k)
  BY ZenonT(60), <1>3, LeaveRest
<1>5. Purged(s, P, rt) \in {k, r}
  BY ZenonT(60) DEF Purged, k
<1> HIDE DEF r
<1> QED
  BY ZenonT(60), <1>3, <1>4, <1>5 DEF OnlyOps

(* purge() of a server that goes on *)
LEMMA PurgeServed ==
  ASSUME NEW s, Basic(s), Served(s), NEW P \in SUBSET Requests(s), NEW rt, NEW nu \in Pkts \cup {0},
         NEW w \in WriteResults,
         s.srv.tmr = NotArmed /\ s.srv.creq = "none" =>
             \A p \in Requests(s) \ P : s.op[p].rem >= 1
  PROVE  Served(Purge(s, P, rt, nu, w))
<1> DEFINE left == Purged(s, P, rt)
<1>1. Mid(left) /\ left.srv = s.srv /\ left.ctx = s.ctx /\ Requests(left) = Requests(s) \ P
  BY ZenonT(60), PurgedMid
<1>2. left.env = s.env /\ left.unsent = s.unsent
  BY ZenonT(60), PurgedRest DEF Basic
<1>3. Purge(s, P, rt, nu, w) = IF P \ rt = {} THEN left ELSE Callback(left, nu, w)
  BY ZenonT(60) DEF Purge, Purged, Kept
<1> HIDE DEF left
<1>4. Requests(left) \subseteq Requests(s)
  BY <1>1
<1>5. Served(left)
  BY ZenonT(60), <1>1, <1>2, <1>4, FewerServed
<1>6. Served(Callback(left, nu, w))
  BY ZenonT(60), <1>1, <1>5, CallbackServed
<1> QED
  BY ZenonT(60), <1>3, <1>5, <1>6

-----------------------------------------------------------------------------
(* A server that was deleted has nothing to serve. *)
LEMMA DeleteServed ==
  ASSUME NEW s \in State, ~s.ctx.up
  PROVE  Served(Delete(s)) /\ ~Running(Delete(s))
<1> DEFINE a == [s EXCEPT !.srv.st = "freed", !.unsent = {}]
           r == Leave(a, Requests(s), "done")
<1>1. a \in State /\ a.op = s.op /\ a.ctx = s.ctx /\ a.srv.st = "freed"
  BY ZenonT(60) DEF State, Srv
<1>2. Requests(a) = Requests(s)
  BY <1>1 DEF Requests
<1> HIDE DEF a
<1>3. r.srv = a.srv /\ r.ctx = a.ctx /\ Requests(r) = Requests(a) \ Requests(s)
  BY ZenonT(60), <1>1, LeaveState
<1> HIDE DEF r
<1>4. r.srv.st = "freed" /\ ~r.ctx.up /\ ~HasPending(r)
  BY <1>1, <1>2, <1>3 DEF HasPending
<1>5. Served(r) /\ ~Running(r)
  BY ZenonT(60), <1>4 DEF Served, Drained, Running
<1> QED
  BY <1>5 DEF Delete, a, r

(* finalize_errored_ctx() of a server in error or closed: it waits on, is  *)
(* deleted or connects.                                                    *)
LEMMA FinalizeServed ==
  ASSUME NEW s \in State, s.ctx.up, s.srv.st \in {"errdrain", "closed"},
         HasIo(s) => s.srv.flush # "connect" /\ (s.srv.flush = "flush" => s.srv.st # "errdrain")
  PROVE  Served(Finalize(s)) /\ ~Running(Finalize(s))
<1> DEFINE a == [s EXCEPT !.ctx = NoCtx, !.net = NoNet, !.unsent = {}]
<1>2. CASE HasIo(s)
  <2>1. Finalize(s) = s
    BY <1>2 DEF Finalize
  <2>2. Served(s) /\ ~Running(s)
    BY ZenonT(60), <1>2 DEF Served, Drained, Running
  <2> QED
    BY <2>1, <2>2
<1>3. CASE ~HasIo(s)
  <2>1. NoCtx \in Ctx /\ NoNet \in Net /\ NoCtx.up = FALSE
    BY DEF NoCtx, NoNet, Ctx, Net
  <2>2. a \in State /\ ~a.ctx.up
    BY ZenonT(60), <2>1 DEF State
  <2>3. Finalize(s) = IF s.srv.st = "closed" THEN Delete(a) ELSE Connect(a)
    BY <1>3 DEF Finalize
  <2> HIDE DEF a
  <2> QED
    BY ZenonT(60), <2>2, <2>3, DeleteServed, ConnectServed
<1> QED
  BY <1>2, <1>3

(* start_errored_ctx(), from whatever state a handler calls it in *)
LEMMA StartErroredServed ==
  ASSUME NEW s \in State, Ctl(s), Usable(s), NEW next \in {"errdrain", "closed"}, NEW w \in WriteResults
  PROVE  LET r == StartErrored(s, next, w) IN Served(r) /\ ~Running(r)
<1> DEFINE a == Errored(s, next)
           g == CtxSchedule(a, w)
           d == [g EXCEPT !.net.shut = TRUE]
           e == [d EXCEPT !.srv.flush = "errdrain"]
           f == [a EXCEPT !.srv.flush = "connect"]
<1>1. StartErrored(s, next, w) =
         IF s.ctx.up
         THEN IF ~HasIo(s) THEN Finalize(a) ELSE IF next = "errdrain" THEN e ELSE d
         ELSE IF next = "closed" THEN Delete(a)
         ELSE IF HasPending(s) THEN Connect(ArmIfNot(a, OpTimeout)) ELSE f
  BY ZenonT(60) DEF StartErrored, Errored
<1>2. /\ a \in State /\ a.ctx = s.ctx /\ a.op = s.op /\ a.srv.st = next /\ a.srv.flush = s.srv.flush
  BY ZenonT(60), ErroredState
<1>3. s.ctx.up <=> s.srv.flush \in {"flush", "errdrain"}
  BY ZenonT(60) DEF Ctl, Usable
<1> HIDE DEF a
<1>4. (HasIo(a) <=> HasIo(s)) /\ (HasPending(a) <=> HasPending(s))
  BY <1>2 DEF HasIo, HasPending, Requests
<1>5. CASE s.ctx.up /\ ~HasIo(s)
  BY ZenonT(60), <1>1, <1>2, <1>4, <1>5, FinalizeServed
<1>6. CASE s.ctx.up /\ HasIo(s)
  <2>1. g \in State /\ g.srv = a.srv /\ g.ctx.up /\ HasIo(g)
    BY ZenonT(60), <1>2, <1>4, <1>6, CtxScheduleSame, CtxScheduleKeeps DEF Same, Keeps
  <2> HIDE DEF g
  <2>2. d \in State /\ d.srv = a.srv /\ d.ctx.up /\ HasIo(d)
    BY ZenonT(60), <2>1 DEF State, Net, HasIo
  <2> HIDE DEF d
  <2>3. next = "closed" => Served(d) /\ ~Running(d)
    BY ZenonT(60), <1>2, <1>3, <1>6, <2>2 DEF Served, Drained, Running
  <2>4. e.ctx = d.ctx /\ e.srv.st = next /\ e.srv.flush = "errdrain"
    BY ZenonT(60), <1>2, <2>2 DEF State, Srv
  <2> HIDE DEF e
  <2>5. next = "errdrain" => Served(e) /\ ~Running(e)
    BY ZenonT(60), <2>2, <2>4 DEF Served, Drained, Running, HasIo
  <2> QED
    BY ZenonT(60), <1>1, <1>6, <2>3, <2>5
<1>7. CASE ~s.ctx.up
  <2>1. Served(Delete(a)) /\ ~Running(Delete(a))
    BY ZenonT(60), <1>2, <1>7, DeleteServed
  <2> DEFINE u == ArmIfNot(a, OpTimeout)
  <2>2. u \in State /\ u.ctx = a.ctx
    <3>1. OpTimeout \in Int
      BY ServerAssumption
    <3> QED
      BY ZenonT(60), <1>2, <3>1, ArmState DEF ArmIfNot
  <2> HIDE DEF u
  <2>3. Served(Connect(u)) /\ ~Running(Connect(u))
    BY ZenonT(60), <1>2, <1>7, <2>2, ConnectServed
  <2>4. f.ctx = a.ctx /\ f.op = a.op /\ f.srv.flush = "connect" /\ f.srv.st = next
    BY ZenonT(60), <1>2 DEF State, Srv
  <2> HIDE DEF f
  <2>5. HasPending(f) <=> HasPending(s)
    BY <1>4, <2>4 DEF HasPending, Requests
  <2>6. next = "errdrain" /\ ~HasPending(s) => Served(f) /\ ~Running(f)
    BY ZenonT(60), <1>2, <1>7, <2>4, <2>5 DEF Served, Drained, Running
  <2> QED
    BY ZenonT(60), <1>1, <1>7, <2>1, <2>3, <2>6 DEF u
<1> QED
  BY <1>5, <1>6, <1>7

(* socket_failed() and on_error(), with check_closed(): afterwards the     *)
(* server does not run.                                                    *)
LEMMA SocketFailedServed ==
  ASSUME NEW s, Basic(s), s.srv.st # "clean" => s.ctx.up,
         s.srv.flush = "flush" => s.srv.st # "errdrain",
         NEW rt, NEW nu \in Pkts \cup {0}, NEW w \in WriteResults
  PROVE  LET r == SocketFailed(s, rt, nu, w) IN Served(r) /\ ~Running(r)
<1>1. CASE s.srv.st # "clean"
  <2>1. s \in State /\ s.srv.st \in {"errdrain", "closed"} /\ s.srv.flush \in {"flush", "errdrain"}
    BY ZenonT(60), <1>1 DEF Basic, Ctl, State, Srv
  <2> QED
    BY ZenonT(60), <1>1, <2>1, FinalizeServed DEF SocketFailed
<1>2. CASE s.srv.st = "clean"
  <2> DEFINE q == Purge(s, Requests(s), rt, nu, w)
  <2>1. Usable(s)
    BY ZenonT(60), <1>2 DEF Usable
  <2>2. Mid(q) /\ Usable(q)
    BY ZenonT(60), <2>1, PurgeMid
  <2> HIDE DEF q
  <2>3. LET r == StartErrored(q, "errdrain", w) IN Served(r) /\ ~Running(r)
    BY ZenonT(60), <2>2, StartErroredServed DEF Mid, Basic
  <2> QED
    BY ZenonT(60), <1>2, <2>3 DEF SocketFailed, q
<1> QED
  BY <1>1, <1>2

(* replace_config() for a server the new map lacks. *)
LEMMA RemoveServed ==
  ASSUME NEW s, Mid(s), Usable(s), NEW mv, NEW w \in WriteResults
  PROVE  Served(Remove(s, mv, w))
<1> DEFINE r == Leave(s, Requests(s) \cap mv, "away")
           q == Purge(r, Requests(r), {}, 0, w)
<1>1. s \in State
  BY DEF Mid, Basic
<1>2. r.srv = s.srv
  BY ZenonT(60), <1>1, LeaveState
<1>3. Mid(r)
  BY LeaveMid
<1> HIDE DEF r
<1>4. Usable(r)
  BY <1>2 DEF Usable
<1>5. Mid(q) /\ Usable(q)
  BY ZenonT(60), <1>3, <1>4, PurgeMid DEF Mid
<1> HIDE DEF q
<1>6. Served(StartErrored(q, "closed", w))
  BY ZenonT(60), <1>5, StartErroredServed DEF Mid, Basic
<1> QED
  BY <1>6 DEF Remove, q, r

-----------------------------------------------------------------------------
(* What a handler of the context leaves: Served, but for what is to be     *)
(* scheduled.                                                              *)
Wanting(s) == Drained(s) /\ (Running(s) => Entered(s) /\ (s.ctx.sig \/ Wants(s)))

(* It is less than Served. *)
LEMMA ServedWanting ==
  ASSUME NEW s, Served(s)
  PROVE  Wanting(s)
BY ZenonT(60) DEF Served, Ready, Wanting

(* A server whose error was signalled needs no more of its context. *)
LEMMA SendErrServed ==
  ASSUME NEW s \in State, Wanting(s), s.ctx.up, NEW e \in BOOLEAN
  PROVE  Served(SendErr(s, e))
<1> DEFINE r == SendErr(s, e)
<1>1. /\ r.srv = s.srv /\ r.op = s.op /\ r.ctx.up /\ r.ctx.sig /\ r.ctx.entered = s.ctx.entered
      /\ r.ctx.loop = s.ctx.loop /\ r.ctx.reading = s.ctx.reading /\ r.ctx.writes = s.ctx.writes
  BY ZenonT(60) DEF SendErr, State, Ctx
<1> HIDE DEF r
<1>2. (HasIo(r) <=> HasIo(s)) /\ (HasPending(r) <=> HasPending(s))
  BY <1>1 DEF HasIo, HasPending, Requests
<1>3. Drained(r) /\ (Running(r) => Running(s))
  BY ZenonT(60), <1>1, <1>2 DEF Wanting, Drained, Running
<1>4. Entered(s) => Ready(r)
  BY ZenonT(60), <1>1 DEF Ready, Entered
<1> QED
  BY ZenonT(60), <1>3, <1>4 DEF Wanting, Served, r

(* lcbio_ctx_schedule(), after a handler that has left its wants. *)
LEMMA CtxScheduleServed ==
  ASSUME NEW s \in State, Wanting(s), s.ctx.up, NEW w \in WriteResults
  PROVE  Served(CtxSchedule(s, w))
<1> DEFINE r == CtxSchedule(s, w)
<1>1. r.srv = s.srv /\ r.op = s.op /\ r.ctx.up /\ (HasIo(s) => HasIo(r))
  BY ZenonT(60), CtxScheduleKeeps, CtxScheduleSame DEF Keeps, Same
<1>2. Running(s) => Ready(r)
  BY ZenonT(60), SchedulesReady DEF Wanting
<1> HIDE DEF r
<1>3. HasPending(r) <=> HasPending(s)
  BY <1>1 DEF HasPending, Requests
<1>4. Drained(r) /\ (Running(r) => Running(s))
  BY ZenonT(60), <1>1, <1>3 DEF Wanting, Drained, Running
<1> QED
  BY <1>2, <1>4 DEF Served, r

(* What follows the read callback in E_handler() and Cr_handler() *)
LEMMA AfterReadServed ==
  ASSUME NEW s \in State, Wanting(s), NEW eof \in BOOLEAN, NEW w \in WriteResults
  PROVE  Served(AfterRead(s, eof, w))
<1>1. CASE ~s.ctx.up
  BY ZenonT(60), <1>1 DEF AfterRead, Wanting, Served, Running
<1>2. CASE s.ctx.up /\ eof
  BY ZenonT(60), <1>2, SendErrServed DEF AfterRead
<1>3. CASE s.ctx.up /\ ~eof
  BY ZenonT(60), <1>3, CtxScheduleServed DEF AfterRead
<1> QED
  BY <1>1, <1>2, <1>3

(* Being served does not depend on the network, on the responses received  *)
(* or on the writes of a server that runs.                                 *)
LEMMA SimilarServed ==
  ASSUME NEW s, Served(s), NEW r, r.env = s.env, r.srv = s.srv, r.op = s.op, r.unsent = s.unsent,
         \A f \in {"up", "err", "sig", "rdwant", "wwant", "watch", "reading", "entered", "loop", "halted"} :
             r.ctx[f] = s.ctx[f],
         s.srv.st = "clean" \/ r.ctx.writes = s.ctx.writes
  PROVE  Served(r)
<1>1. HasPending(r) <=> HasPending(s)
  BY ZenonT(60) DEF HasPending, Requests
<1>2. Drained(r) /\ (Running(r) => Running(s))
  BY ZenonT(60), <1>1 DEF Served, Drained, Running, HasIo
<1>3. (Entered(s) => Entered(r)) /\ (Wants(s) => Wants(r)) /\ r.ctx.sig = s.ctx.sig
  BY ZenonT(60), <1>1 DEF Entered, Wants
<1>4. /\ r.ctx.entered = s.ctx.entered /\ r.ctx.rdwant = s.ctx.rdwant
      /\ r.ctx.wwant = s.ctx.wwant /\ r.ctx.watch = s.ctx.watch /\ r.ctx.reading = s.ctx.reading
  BY ZenonT(60)
<1>5. Scheduled(s) => Scheduled(r)
  BY <1>4 DEF Scheduled
<1> QED
  BY ZenonT(60), <1>2, <1>3, <1>5 DEF Served, Ready

-----------------------------------------------------------------------------
(* Requests that were answered or failed *)
LEMMA LeaveServed ==
  ASSUME NEW s \in State, Served(s), NEW D, NEW f \in {"retry", "away", "done"}
  PROVE  Served(Leave(s, D, f))
<1> DEFINE r == Leave(s, D, f)
<1>1. Requests(r) = Requests(s) \ D
  BY ZenonT(60), LeaveState
<1>2. OnlyOps(r, s)
  BY ZenonT(60), LeaveRest
<1> HIDE DEF r
<1>3. Requests(r) \subseteq Requests(s)
  BY <1>1
<1> QED
  BY ZenonT(60), <1>2, <1>3, FewerServed DEF r, OnlyOps

(* A packet that is handed to the retry queue *)
LEMMA RetriedServed ==
  ASSUME NEW s \in State, Served(s), NEW p \in Pkts
  PROVE  Served(Retried(s, p)) /\ Retried(s, p) \in State /\ Retried(s, p).ctx = s.ctx
<1> DEFINE o == [s.op EXCEPT ![p].ph = "retry"]
           r == Retried(s, p)
<1>1. r = [s EXCEPT !.op = o]
  BY DEF Retried, State
<1>2. o \in Ops /\ \A x \in Pkts : o[x].ph = "reqs" => s.op[x].ph = "reqs"
  BY DEF State, Ops
<1> HIDE DEF o, r
<1>3. r \in State /\ r.env = s.env /\ r.srv = s.srv /\ r.ctx = s.ctx /\ r.unsent = s.unsent /\ r.op = o
  BY ZenonT(60), <1>1, <1>2 DEF State
<1>4. Requests(r) \subseteq Requests(s)
  BY <1>2, <1>3 DEF Requests
<1> QED
  BY ZenonT(60), <1>3, <1>4, FewerServed DEF r

(* PKT_READ_ABORT: no more is wanted until flush(). *)
LEMMA HaltedServed ==
  ASSUME NEW s \in State, Served(s)
  PROVE  Served([s EXCEPT !.ctx.halted = TRUE])
<1> DEFINE r == [s EXCEPT !.ctx.halted = TRUE]
<1>1. /\ r.env = s.env /\ r.srv = s.srv /\ r.op = s.op /\ r.unsent = s.unsent /\ r.ctx.halted = TRUE
      /\ \A f \in {"up", "err", "sig", "rdwant", "wwant", "watch", "reading", "writes", "entered", "loop"} :
             r.ctx[f] = s.ctx[f]
  BY ZenonT(60) DEF State, Ctx
<1> HIDE DEF r
<1>2. (HasIo(r) <=> HasIo(s)) /\ (HasPending(r) <=> HasPending(s))
  BY ZenonT(60), <1>1 DEF HasIo, HasPending, Requests
<1>3. Drained(r) /\ (Running(r) => Running(s))
  BY ZenonT(60), <1>1, <1>2 DEF Served, Drained, Running
<1>4. (Entered(s) => Entered(r)) /\ (Wants(s) => Wants(r)) /\ (Scheduled(s) => Scheduled(r))
  <2>1. (Entered(s) => Entered(r)) /\ (Wants(s) => Wants(r))
    BY ZenonT(60), <1>1, <1>2 DEF Entered, Wants
  <2>2. /\ r.env = s.env /\ r.ctx.entered = s.ctx.entered /\ r.ctx.rdwant = s.ctx.rdwant
        /\ r.ctx.wwant = s.ctx.wwant /\ r.ctx.watch = s.ctx.watch /\ r.ctx.reading = s.ctx.reading
    BY ZenonT(60), <1>1
  <2>3. Scheduled(s) => Scheduled(r)
    BY <2>2 DEF Scheduled
  <2> QED
    BY <2>1, <2>3
<1>5. r.ctx.sig = s.ctx.sig
  BY ZenonT(60), <1>1
<1> QED
  BY ZenonT(60), <1>3, <1>4, <1>5 DEF Served, Ready, r

(* try_read(), for every response but one whose map lacks the node *)
LEMMA TryReadServed ==
  ASSUME NEW s, Settled(s), Served(s), s.ctx.up, NEW r \in Resp, NEW nu \in Pkts \cup {0}, NEW mv,
         NEW w \in WriteResults
  PROVE  Served(TryRead(s, r, nu, mv, w))
<1> DEFINE left == Leave(s, {r.p}, "done")
           b(e) == Callback(SendErr(left, e), nu, w)
<1>1. r.p \in Pkts /\ r.kind \in {"ok", "retry", "warmup", "invalid", "unmapped"} /\ s \in State
  BY DEF Resp, Kinds, Settled, Mid, Basic
<1>2. Settled(left) /\ left.ctx.up /\ Served(left)
  BY ZenonT(60), <1>1, LeaveSettled, LeaveServed
<1>3. Served(Retried(s, r.p)) /\ Retried(s, r.p) \in State
  BY ZenonT(60), <1>1, RetriedServed
<1> HIDE DEF left
<1>4. Served(Callback(left, nu, w))
  BY ZenonT(60), <1>2, CallbackServed DEF Settled
<1>5. ASSUME NEW e \in BOOLEAN PROVE Served(b(e)) /\ b(e) \in State
  <2>1. left \in State
    BY <1>2 DEF Settled, Mid, Basic
  <2>2. Same(SendErr(left, e), left) /\ Served(SendErr(left, e))
    BY ZenonT(60), <1>2, <2>1, SendErrSame, ServedWanting, SendErrServed
  <2>3. Settled(SendErr(left, e))
    BY <1>2, <2>2, SameSettled
  <2>4. Settled(b(e)) /\ Served(b(e))
    BY ZenonT(60), <2>2, <2>3, CallbackSettled, CallbackServed DEF Settled
  <2> QED
    BY <2>4 DEF Settled, Mid, Basic
<1>6. Served([b(TRUE) EXCEPT !.ctx.halted = TRUE]) /\ Served([b(FALSE) EXCEPT !.ctx.halted = TRUE])
  <2> HIDE DEF b
  <2> QED
    BY ZenonT(60), <1>5, HaltedServed
<1>7. Served([Retried(s, r.p) EXCEPT !.ctx.halted = TRUE])
  BY ZenonT(60), <1>3, HaltedServed
<1>8. CASE s.op[r.p].ph # "reqs"
  BY <1>8 DEF TryRead
<1>9. CASE s.op[r.p].ph = "reqs"
  <2>1. CASE r.kind = "ok"
    BY ZenonT(60), <1>4, <1>9, <2>1 DEF TryRead, left
  <2>2. CASE r.kind = "retry"
    BY ZenonT(60), <1>3, <1>9, <2>2 DEF TryRead
  <2>3. CASE r.kind = "warmup"
    BY ZenonT(60), <1>7, <1>9, <2>3 DEF TryRead
  <2>4. CASE r.kind = "invalid"
    BY ZenonT(60), <1>6, <1>9, <2>4 DEF TryRead, left
  <2>5. CASE r.kind = "unmapped"
    BY ZenonT(60), <1>6, <1>9, <2>5 DEF TryRead, left
  <2> QED
    BY <1>1, <2>1, <2>2, <2>3, <2>4, <2>5
<1> QED
  BY <1>8, <1>9

(* The read callback, with data or at the end of the stream: the server is *)
(* finalized, or the loop of on_read() begins.                             *)
LEMMA EnterReadServed ==
  ASSUME NEW s, Settled(s), s.ctx.up, NEW eof \in BOOLEAN, NEW w \in WriteResults,
         s.srv.flush = "errdrain" => s.srv.st # "clean",
         s.srv.flush = "flush" => s.srv.st # "errdrain",
         Running(s) => s.ctx.sig \/ (~s.ctx.err /\ (s.unsent # {} => s.ctx.wwant)),
         s.net.inb # <<>> \/ (eof /\ Served(s))
  PROVE  Served(EnterRead(s, eof, w))
<1> DEFINE r == [s EXCEPT !.ctx.rope = @ \o s.net.inb, !.net.inb = <<>>]
           l == IF eof THEN "eof" ELSE "data"
           e == [r EXCEPT !.ctx.rdwant = FALSE, !.ctx.entered = TRUE, !.ctx.halted = FALSE, !.ctx.loop = l]
<1>1. s \in State /\ s.srv.st # "freed" /\ s.srv.flush \in {"flush", "errdrain"}
  BY ZenonT(60) DEF Settled, Mid, Basic, Ctl
<1>2. s.ctx.rope \o s.net.inb \in Seq(Resp) /\ <<>> \in Seq(Resp)
  BY <1>1 DEF State, Ctx, Net
<1>3. Same(r, s)
  BY ZenonT(60), <1>1, <1>2 DEF Same, State, Ctx, Net
<1>4. /\ r.env = s.env /\ r.srv = s.srv /\ r.op = s.op /\ r.unsent = s.unsent
      /\ \A f \in {"up", "err", "sig", "rdwant", "wwant", "watch", "reading", "writes", "entered",
                    "loop", "halted"} : r.ctx[f] = s.ctx[f]
  BY ZenonT(60), <1>1 DEF State, Ctx
<1>5. r.ctx.rope = s.ctx.rope \o s.net.inb
  BY ZenonT(60), <1>1 DEF State, Ctx
<1>6. Settled(r) /\ r.ctx.up /\ r \in State
  BY ZenonT(60), <1>3, SameSettled DEF Same
<1>7. EnterRead(s, eof, w) =
         IF r.ctx.rope = <<>> THEN AfterRead(r, eof, w)
         ELSE IF s.srv.st # "clean" THEN AfterRead(Finalize(r), eof, w) ELSE e
  BY DEF EnterRead
<1> HIDE DEF r
<1>8. CASE r.ctx.rope = <<>>
  <2>1. eof /\ Served(s)
    <3>1. s.net.inb \in Seq(Resp) /\ s.ctx.rope \in Seq(Resp)
      BY <1>1 DEF State, Net, Ctx
    <3>2. PICK x \in Seq(Resp), y \in Seq(Resp) : x = s.ctx.rope /\ y = s.net.inb
      BY <3>1
    <3>3. x \o y = <<>>
      BY ZenonT(60), <1>5, <1>8, <3>2
    <3>4. Len(x \o y) = Len(x) + Len(y) /\ Len(x) \in Nat /\ Len(y) \in Nat
      OBVIOUS
    <3>5. Len(y) = 0
      BY <3>3, <3>4
    <3>6. y = <<>>
      BY <3>5
    <3> QED
      BY <3>2, <3>6
  <2>2. Served(r)
    BY ZenonT(60), <1>4, <2>1, SimilarServed
  <2> QED
    BY ZenonT(60), <1>6, <1>7, <1>8, <2>2, ServedWanting, AfterReadServed
<1>9. CASE r.ctx.rope # <<>> /\ s.srv.st # "clean"
  <2>1. r.srv.st \in {"errdrain", "closed"}
    BY ZenonT(60), <1>1, <1>4, <1>9 DEF State, Srv
  <2>2. Served(Finalize(r))
    BY ZenonT(60), <1>1, <1>4, <1>6, <2>1, FinalizeServed
  <2>3. Finalize(r) \in State
    BY ZenonT(60), <1>6, FinalizeSettled DEF Settled, Mid, Basic
  <2> QED
    BY ZenonT(60), <1>7, <1>9, <2>2, <2>3, ServedWanting, AfterReadServed
<1>10. CASE r.ctx.rope # <<>> /\ s.srv.st = "clean"
  <2>1. l # "no"
    OBVIOUS
  <2> HIDE DEF l
  <2>2. /\ e.srv = r.srv /\ e.op = r.op /\ e.unsent = r.unsent /\ e.ctx.entered = TRUE /\ e.ctx.loop = l
        /\ e.ctx.up = r.ctx.up /\ e.ctx.sig = r.ctx.sig /\ e.ctx.err = r.ctx.err
        /\ e.ctx.wwant = r.ctx.wwant
    BY ZenonT(60), <1>6 DEF State, Ctx
  <2> HIDE DEF e
  <2>3. Drained(e)
    BY ZenonT(60), <1>1, <1>4, <1>10, <2>2 DEF Drained
  <2>4. Entered(e) /\ Scheduled(e)
    BY <2>1, <2>2 DEF Entered, Scheduled
  <2>5. e.ctx.sig \/ Wants(e)
    BY ZenonT(60), <1>4, <1>6, <1>10, <2>2 DEF Wants, Running
  <2> QED
    BY ZenonT(60), <1>7, <1>10, <2>3, <2>4, <2>5 DEF Served, Ready, e, l
<1> QED
  BY <1>8, <1>9, <1>10

(* invoke_entered_errcb() *)
LEMMA EnteredErrServed ==
  ASSUME NEW s, Settled(s), s.ctx.up, s.srv.flush = "flush" => s.srv.st # "errdrain",
         NEW rt, NEW nu \in Pkts \cup {0}, NEW w \in WriteResults
  PROVE  Served(EnteredErr(s, rt, nu, w))
<1> DEFINE a == [s EXCEPT !.ctx.err = TRUE, !.ctx.entered = TRUE]
           e == SocketFailed(a, rt, nu, w)
           f == [e EXCEPT !.ctx.entered = FALSE]
<1>1. Same(a, s)
  BY ZenonT(60) DEF Settled, Mid, Basic, Same, State, Ctx
<1>2. Settled(a) /\ a.ctx.up /\ a.srv = s.srv
  BY ZenonT(60), <1>1, SameSettled DEF Same
<1> HIDE DEF a
<1>3. Served(e) /\ ~Running(e)
  BY ZenonT(60), <1>2, SocketFailedServed DEF Settled, Mid
<1>4. Settled(e)
  BY <1>2, SocketFailedSettled DEF Settled, Mid
<1> HIDE DEF e
<1>5. e \in State
  BY <1>4 DEF Settled, Mid, Basic
<1>6. /\ f.srv = e.srv /\ f.op = e.op /\ f.ctx.up = e.ctx.up /\ f.ctx.reading = e.ctx.reading
      /\ f.ctx.writes = e.ctx.writes
  BY ZenonT(60), <1>5 DEF State, Ctx
<1> HIDE DEF f
<1>7. (HasIo(f) <=> HasIo(e)) /\ (HasPending(f) <=> HasPending(e))
  BY <1>6 DEF HasIo, HasPending, Requests
<1>8. Served(f)
  BY ZenonT(60), <1>3, <1>6, <1>7 DEF Served, Drained, Running
<1> QED
  BY <1>8 DEF EnteredErr, a, e, f

(* on_flush_done(), which finalizes a server that is in error or closed *)
LEMMA WriteDoneServed ==
  ASSUME NEW s, Settled(s), Served(s), s.ctx.up, s.ctx.writes # <<>>
  PROVE  Served(WriteDone(s))
<1> DEFINE r == [s EXCEPT !.ctx.writes = Tail(@)]
<1>1. s \in State /\ s.srv.st # "freed" /\ s.srv.flush \in {"flush", "errdrain"}
  BY ZenonT(60) DEF Settled, Mid, Basic, Ctl
<1>2. Tail(s.ctx.writes) \in Seq(SUBSET Pkts)
  BY <1>1 DEF State, Ctx
<1>3. /\ r \in State /\ r.env = s.env /\ r.srv = s.srv /\ r.op = s.op /\ r.unsent = s.unsent
      /\ \A f \in {"up", "err", "sig", "rdwant", "wwant", "watch", "reading", "entered", "loop", "halted"} :
             r.ctx[f] = s.ctx[f]
  BY ZenonT(60), <1>1, <1>2 DEF State, Ctx
<1>4. WriteDone(s) = IF r.srv.st # "clean" THEN Finalize(r) ELSE r
  BY DEF WriteDone
<1> HIDE DEF r
<1>5. r.srv.st # "clean" => Served(Finalize(r))
  <2>1. r.srv.st # "clean" => r.srv.st \in {"errdrain", "closed"}
    BY ZenonT(60), <1>1, <1>3 DEF State, Srv
  <2>2. r.srv.flush # "connect" /\ (r.srv.flush = "flush" => r.srv.st # "errdrain") /\ r.ctx.up
    BY ZenonT(60), <1>1, <1>3 DEF Served, Drained
  <2> QED
    BY ZenonT(60), <1>3, <2>1, <2>2, FinalizeServed
<1>6. r.srv.st = "clean" => Served(r)
  BY ZenonT(60), <1>3, SimilarServed
<1> QED
  BY ZenonT(60), <1>4, <1>5, <1>6

-----------------------------------------------------------------------------
(* A step to a state in which the server is served *)
LEMMA BecomesServed ==
  ASSUME NEW x, Served(x), Become(x)
  PROVE  Served(Now)'
<1> DEFINE r == Now'
<1>1. r.env = x.env /\ r.srv = x.srv /\ r.ctx = x.ctx /\ r.op = x.op /\ r.unsent = x.unsent
  BY DEF Become, Now
<1> HIDE DEF r
<1>2. Requests(r) \subseteq Requests(x)
  BY <1>1 DEF Requests
<1>3. Served(r)
  BY ZenonT(60), <1>1, <1>2, FewerServed
<1> QED
  BY <1>3 DEF r, Served

(* AppSchedule: mcreq_sched_leave() calls flush_start. *)
LEMMA AppScheduleServed ==
  ASSUME Inv, Served(Now), AppSchedule
  PROVE  Served(Now)'
<1>1. PICK p \in Pkts, t \in Timeouts, w \in Writes : InUse /\ Become(Schedule(Now, p, t, w))
  BY DEF AppSchedule
<1>2. Mid(Now) /\ Usable(Now) /\ Callable(Now)
  BY ZenonT(60), <1>1, NowFields, ServedCallable DEF Inv, Settled, InUse, Usable
<1>3. w \in WriteResults /\ t \in 1..OpTimeout
  BY Nondeterminism
<1>4. Served(Schedule(Now, p, t, w))
  BY <1>2, <1>3, ScheduleServed
<1> QED
  BY <1>1, <1>4, BecomesServed

(* A packet from elsewhere joins the queue. *)
LEMMA EnqueueServed ==
  ASSUME NEW s, Settled(s), Served(s), Usable(s), NEW q \in State, q.srv = s.srv, q.ctx = s.ctx,
         NEW p \in Pkts, NEW w \in WriteResults
  PROVE  Served(FlushStart(Enqueue(q, p), w))
<1> DEFINE o == [q.op EXCEPT ![p].ph = "reqs"]
           b == Enqueue(q, p)
<1>1. o \in Ops
  BY DEF State, Ops
<1>2. b = [q EXCEPT !.op = o, !.unsent = @ \cup {p}]
  BY DEF Enqueue
<1> HIDE DEF o, b
<1>3. b \in State /\ b.srv = s.srv /\ b.ctx = s.ctx
  BY ZenonT(60), <1>1, <1>2 DEF State
<1>4. Ctl(b) /\ Usable(b)
  BY ZenonT(60), <1>3 DEF Settled, Mid, Basic, Ctl, Usable
<1>5. Callable(b)
  BY ZenonT(60), <1>3, ServedCallable, CallableSame
<1> QED
  BY ZenonT(60), <1>3, <1>4, <1>5, FlushStartServed DEF b

(* RetryArrives and Relocated: flush_start follows. *)
LEMMA ArrivesServed ==
  ASSUME Inv, Served(Now), RetryArrives \/ Relocated
  PROVE  Served(Now)'
<1>1. Settled(Now) /\ Now \in State
  BY DEF Inv, Settled, Mid, Basic
<1>2. CASE RetryArrives
  <2> DEFINE q == [Now EXCEPT !.count.retries = @ + 1]
  <2>1. PICK p \in Pkts, w \in Writes : InUse /\ Become(FlushStart(Enqueue(q, p), w))
    BY <1>2 DEF RetryArrives
  <2>2. q \in State /\ q.srv = Now.srv /\ q.ctx = Now.ctx
    BY <1>1 DEF State
  <2> HIDE DEF q
  <2>3. Usable(Now) /\ w \in WriteResults
    BY <2>1, NowFields, Nondeterminism DEF InUse, Usable
  <2>4. Served(FlushStart(Enqueue(q, p), w))
    BY <1>1, <2>2, <2>3, EnqueueServed
  <2> QED
    BY <2>1, <2>4, BecomesServed
<1>3. CASE Relocated
  <2>1. PICK p \in Pkts, t \in 1..OpTimeout, w \in Writes :
           InUse /\ Become(FlushStart(Enqueue([Now EXCEPT !.op[p].rem = t], p), w))
    BY <1>3 DEF Relocated
  <2> DEFINE o == [Now.op EXCEPT ![p].rem = t]
             q == [Now EXCEPT !.op[p].rem = t]
  <2>2. Now.op \in Ops /\ t \in Int
    BY <1>1, ServerAssumption DEF State
  <2>3. o \in Ops
    BY <2>2 DEF Ops
  <2>4. q = [Now EXCEPT !.op = o]
    BY <1>1 DEF State
  <2> HIDE DEF o
  <2>5. q \in State /\ q.srv = Now.srv /\ q.ctx = Now.ctx
    BY <1>1, <2>3, <2>4 DEF State
  <2>6. Usable(Now) /\ w \in WriteResults
    BY <2>1, NowFields, Nondeterminism DEF InUse, Usable
  <2> HIDE DEF q
  <2>7. Served(FlushStart(Enqueue(q, p), w))
    BY <1>1, <2>5, <2>6, EnqueueServed
  <2> QED
    BY <2>1, <2>7, BecomesServed DEF q
<1> QED
  BY <1>2, <1>3

(* RetryExpires: no request leaves. *)
LEMMA RetryExpiresServed ==
  ASSUME Inv, Served(Now), RetryExpires
  PROVE  Served(Now)'
<1>1. PICK p \in Pkts : Become(Leave(Now, {p}, "done"))
  BY DEF RetryExpires
<1>2. Served(Leave(Now, {p}, "done"))
  BY LeaveServed DEF Inv, Settled, Mid, Basic
<1> QED
  BY <1>1, <1>2, BecomesServed

(* Connected: the attempt goes on. *)
LEMMA ConnectedServed ==
  ASSUME Inv, Served(Now), Connected
  PROVE  Served(Now)'
<1> DEFINE r == [Now EXCEPT !.srv.creq = "session", !.srv.ctm = NodeTimeout]
           s == Now
<1>1. Become(r)
  BY DEF Connected
<1>2. s \in State
  BY DEF Inv, Settled, Mid, Basic
<1> HIDE DEF s
<1>3. /\ r.env = s.env /\ r.ctx = s.ctx /\ r.op = s.op /\ r.unsent = s.unsent
      /\ r.srv.st = s.srv.st /\ r.srv.flush = s.srv.flush
  BY ZenonT(60), <1>2 DEF State, Srv, s
<1> HIDE DEF r
<1>4. Requests(r) \subseteq Requests(s)
  BY <1>3 DEF Requests
<1>5. Served(r)
  BY ZenonT(60), <1>3, <1>4, FewerServed DEF s
<1> QED
  BY <1>1, <1>5, BecomesServed

(* Negotiated: the new context is flushed. *)
LEMMA NegotiatedServed ==
  ASSUME Inv, Served(Now), Negotiated
  PROVE  Served(Now)'
<1>1. PICK w \in Writes : srv.creq # "none" /\ Become(Established(Now, w))
  BY DEF Negotiated
<1> DEFINE s == Now
           c == [NoCtx EXCEPT !.up = TRUE]
           r == [s EXCEPT !.srv.creq = "none", !.srv.ctm = 0, !.srv.flush = "flush", !.ctx = c]
           n == NextTimeout(r)
           a == Arm(r, n)
           f == Flush(a, w)
<1>2. s \in State /\ Ctl(s) /\ Timed(s) /\ s.srv.st = "clean"
  BY <1>1, NowFields DEF Inv, Settled, Mid, Basic, Ctl
<1>3. w \in WriteResults
  BY Nondeterminism
<1>4. Established(s, w) = f
  BY DEF Established
<1> HIDE DEF s
<1>5. c \in Ctx /\ c.up /\ ~c.entered /\ c.loop = "no" /\ ~c.err
  <2>1. NoCtx \in Ctx /\ ~NoCtx.entered /\ NoCtx.loop = "no" /\ ~NoCtx.err
    BY DEF NoCtx, Ctx
  <2> QED
    BY ZenonT(60), <2>1 DEF Ctx
<1> HIDE DEF c
<1>6. /\ r \in State /\ r.op = s.op /\ r.ctx = c /\ r.srv.flush = "flush" /\ r.srv.st = "clean"
      /\ r.srv.creq = "none" /\ r.srv.tmr = s.srv.tmr /\ r.srv.fault = s.srv.fault
  BY ZenonT(60), <1>2, <1>5 DEF State, Srv
<1> HIDE DEF r
<1>7. Ctl(r)
  BY <1>2, <1>5, <1>6 DEF Ctl
<1>8. Requests(r) = Requests(s) /\ (HasPending(r) <=> HasPending(s))
  BY ZenonT(60), <1>6 DEF Requests, HasPending
<1>9. Basic(r)
  BY <1>2, <1>6, <1>7, <1>8 DEF Basic, Timed
<1>10. n \in Int
  <2>1. n \in 0..OpTimeout
    BY ZenonT(60), <1>9, NextTimeoutBound
  <2> HIDE DEF n
  <2> QED
    BY <2>1, ServerAssumption
<1> HIDE DEF n
<1>11. a \in State /\ a.ctx = c /\ a.srv.st = "clean" /\ a.srv.flush = "flush"
  BY ZenonT(60), <1>6, <1>10, ArmState, ArmRest
<1> HIDE DEF a
<1>12. Entered(a)
  BY <1>5, <1>11 DEF Entered
<1>13. Ready(f) /\ f.ctx.up /\ \A x \in {"st", "flush"} : f.srv[x] = a.srv[x]
  BY ZenonT(60), <1>3, <1>5, <1>11, <1>12, FlushReadies
<1> HIDE DEF f
<1>14. f.srv.st = "clean" /\ f.srv.flush = "flush"
  BY ZenonT(60), <1>11, <1>13
<1>15. Served(f)
  BY ZenonT(60), <1>13, <1>14 DEF Served, Drained
<1> QED
  BY ZenonT(60), <1>1, <1>4, <1>15, BecomesServed DEF s

(* ConnectFails: the server connects again, or its requests have failed. *)
LEMMA ConnectFailsServed ==
  ASSUME Inv, Served(Now), ConnectFails
  PROVE  Served(Now)'
<1> DEFINE r == [Now EXCEPT !.srv.creq = "none", !.srv.ctm = 0]
           q(timeout) == IF timeout THEN r ELSE Failure(r)
<1>1. PICK timeout \in BOOLEAN, rt \in SUBSET Requests(Now), nu \in News, w \in Writes :
         /\ srv.creq # "none"
         /\ Become(IF FakeTimeout(q(timeout), timeout) THEN Connect(q(timeout))
                   ELSE SocketFailed(q(timeout), IF timeout THEN {} ELSE rt, nu, w))
  BY ZenonT(60) DEF ConnectFails
<1> DEFINE s == q(timeout)
           t == IF timeout THEN {} ELSE rt
<1>2. Now \in State /\ Ctl(Now) /\ Timed(Now) /\ Now.srv.st = "clean" /\ Now.srv.flush = "noop"
  BY <1>1, NowFields DEF Inv, Settled, Mid, Basic, Ctl
<1>3. Now.ctx = NoCtx
  BY <1>2 DEF Ctl
<1>4. w \in WriteResults /\ nu \in Pkts \cup {0}
  BY Nondeterminism
<1>5. /\ r \in State /\ r.op = op /\ r.ctx = NoCtx /\ r.srv.creq = "none"
      /\ r.srv.st = "clean" /\ r.srv.flush = "noop" /\ r.srv.tmr = srv.tmr /\ ~r.srv.fault
  <2> HIDE DEF q
  <2>1. /\ r \in State /\ r.op = Now.op /\ r.ctx = Now.ctx /\ r.srv.creq = "none"
        /\ r.srv.st = Now.srv.st /\ r.srv.flush = Now.srv.flush /\ r.srv.tmr = Now.srv.tmr
        /\ r.srv.fault = Now.srv.fault
    BY ZenonT(60), <1>2 DEF State, Srv
  <2> QED
    BY <1>2, <1>3, <2>1, NowFields DEF Ctl
<1> HIDE DEF r
<1>6. s \in State /\ s.srv = r.srv /\ s.op = op /\ s.ctx = NoCtx
  BY <1>5, FailureSame
<1> HIDE DEF q
<1>7. Ctl(s) /\ ~s.ctx.up
  BY <1>5, <1>6 DEF Ctl, NoCtx
<1>8. Requests(s) = Requests(Now) /\ (HasPending(s) <=> HasPending(Now))
  BY <1>6, NowFields DEF Requests, HasPending
<1>9. Basic(s) /\ s.srv.st = "clean" /\ s.srv.flush = "noop"
  BY <1>2, <1>5, <1>6, <1>7, <1>8, NowFields DEF Basic, Timed
<1>10. Served(Connect(s))
  BY ZenonT(60), <1>6, <1>7, ConnectServed
<1>11. Served(SocketFailed(s, t, nu, w))
  <2> HIDE DEF t
  <2> QED
    BY ZenonT(60), <1>4, <1>9, SocketFailedServed
<1> QED
  BY ZenonT(60), <1>1, <1>10, <1>11, BecomesServed

-----------------------------------------------------------------------------
(* Counting a failure of the network changes nothing of it. *)
LEMMA FailureServed ==
  ASSUME NEW s \in State, Served(s)
  PROVE  Served(Failure(s))
<1>1. LET f == Failure(s)
      IN  f.env = s.env /\ f.srv = s.srv /\ f.ctx = s.ctx /\ f.op = s.op /\ f.unsent = s.unsent
  BY ZenonT(60) DEF Failure, State
<1>2. Requests(Failure(s)) \subseteq Requests(s)
  BY <1>1 DEF Requests
<1> QED
  BY ZenonT(60), <1>1, <1>2, FewerServed

(* EventRead: the loop of on_read() begins, or err_handler() will come. *)
LEMMA EventReadServed ==
  ASSUME Inv, Served(Now), EventRead
  PROVE  Served(Now)'
<1>1. PICK eof \in BOOLEAN :
         /\ "R" \in ctx.watch /\ (net.inb # <<>> \/ eof)
         /\ Become(EnterRead(IF eof THEN Failure(Now) ELSE Now, eof, "ok"))
  BY ZenonT(60) DEF EventRead
<1> DEFINE s == IF eof THEN Failure(Now) ELSE Now
<1>2. ctx.up /\ Now \in State
  BY SMTT(60), <1>1, NowFields DEF Inv, Settled, Mid, Basic, Ctl, NoCtx
<1>3. Settled(s) /\ s.ctx.up
  BY <1>2, FailureSettled, NowFields DEF Inv
<1>4. Served(s)
  BY <1>2, FailureServed
<1>5. s.net.inb # <<>> \/ eof
  BY <1>1, NowFields
<1> HIDE DEF s
<1>6. /\ s.srv.flush = "errdrain" => s.srv.st # "clean"
      /\ s.srv.flush = "flush" => s.srv.st # "errdrain"
      /\ Running(s) => s.ctx.sig \/ (~s.ctx.err /\ (s.unsent # {} => s.ctx.wwant))
  BY ZenonT(60), <1>4 DEF Served, Drained, Ready, Wants
<1>7. "ok" \in WriteResults
  BY DEF WriteResults
<1>8. Served(EnterRead(s, eof, "ok"))
  BY ZenonT(60), <1>3, <1>4, <1>5, <1>6, <1>7, EnterReadServed
<1> QED
  BY <1>1, <1>8, BecomesServed DEF s

(* EventWrite: what could not be written is wanted again. *)
LEMMA EventWriteServed ==
  ASSUME Inv, Served(Now), EventWrite
  PROVE  Served(Now)'
<1> DEFINE a == [Now EXCEPT !.ctx.wwant = FALSE]
           r(w) == FlushReady(a, w)
<1>1. PICK w \in WriteResults :
         /\ Idle /\ "W" \in ctx.watch
         /\ Become(IF r(w).ctx.err THEN r(w) ELSE CtxSchedule(r(w), w))
  BY DEF EventWrite, WriteResults
<1> DEFINE b == r(w)
           s == Now
<1>2. s.ctx.up /\ s \in State /\ s.ctx.loop = "no"
  BY SMTT(60), <1>1, NowFields DEF Inv, Settled, Mid, Basic, Ctl, NoCtx, Idle
<1>3. Served(s)
  OBVIOUS
<1>4. /\ Same(a, s) /\ a.ctx.sig = s.ctx.sig /\ a.ctx.err = s.ctx.err /\ HasIo(a) = HasIo(s)
      /\ a.ctx.entered = s.ctx.entered /\ a.ctx.loop = s.ctx.loop /\ a.ctx.halted = s.ctx.halted
      /\ a.ctx.rdwant = s.ctx.rdwant
  <2> HIDE DEF r, s
  <2> QED
    BY ZenonT(60), <1>2 DEF Same, State, Ctx, HasIo, s
<1> HIDE DEF a, s
<1>5. Keeps(b, a) /\ (b.unsent # {} => b.ctx.wwant) /\ Same(b, a)
  BY ZenonT(60), <1>4, FlushReadyKeeps, FlushReadySame DEF Same
<1> HIDE DEF r
<1>6. /\ b \in State /\ b.srv = s.srv /\ b.op = s.op /\ b.ctx.up /\ (HasIo(s) => HasIo(b))
      /\ (s.ctx.sig => b.ctx.sig) /\ (~b.ctx.sig => b.ctx.err = s.ctx.err)
      /\ b.ctx.entered = s.ctx.entered /\ b.ctx.loop = s.ctx.loop /\ b.ctx.halted = s.ctx.halted
      /\ b.ctx.rdwant = s.ctx.rdwant
  BY ZenonT(60), <1>4, <1>5 DEF Same, Keeps
<1>7. HasPending(b) <=> HasPending(s)
  BY <1>6 DEF HasPending, Requests
<1>8. Drained(b) /\ (Running(b) => Running(s))
  BY ZenonT(60), <1>2, <1>3, <1>6, <1>7 DEF Served, Drained, Running
<1>9. Running(b) => Entered(b) /\ (b.ctx.sig \/ Wants(b))
  BY ZenonT(60), <1>3, <1>5, <1>6, <1>7, <1>8 DEF Served, Ready, Entered, Wants
<1>10. CASE b.ctx.err
  <2>1. Served(b)
    BY ZenonT(60), <1>8, <1>9, <1>10 DEF Served, Ready, Wants
  <2> QED
    BY ZenonT(60), <1>1, <1>10, <2>1, BecomesServed
<1>11. CASE ~b.ctx.err
  <2>1. Served(CtxSchedule(b, w))
    BY ZenonT(60), <1>6, <1>8, <1>9, CtxScheduleServed DEF Wanting
  <2> QED
    BY ZenonT(60), <1>1, <1>11, <2>1, BecomesServed
<1> QED
  BY <1>10, <1>11

(* ReadDone: the loop of on_read() begins. *)
LEMMA ReadDoneServed ==
  ASSUME Inv, Served(Now), ReadDone
  PROVE  Served(Now)'
<1> DEFINE a == [Now EXCEPT !.ctx.reading = FALSE]
           s == Now
<1>1. PICK w \in Writes : ctx.reading /\ net.inb # <<>> /\ Become(EnterRead(a, FALSE, w))
  BY ZenonT(60) DEF ReadDone
<1>2. s.ctx.up /\ Settled(s) /\ s \in State /\ s.net.inb # <<>> /\ Served(s)
  BY SMTT(60), <1>1, NowFields DEF Inv, Settled, Mid, Basic, Ctl, NoCtx
<1> HIDE DEF s
<1>3. /\ Same(a, s) /\ a.net = s.net /\ a.unsent = s.unsent /\ a.ctx.sig = s.ctx.sig
      /\ a.ctx.err = s.ctx.err /\ a.ctx.wwant = s.ctx.wwant
  BY ZenonT(60), <1>2 DEF Same, State, Ctx, s
<1> HIDE DEF a
<1>4. Settled(a) /\ a.ctx.up /\ a.srv = s.srv
  BY ZenonT(60), <1>2, <1>3, SameSettled DEF Same
<1>5. /\ a.srv.flush = "errdrain" => a.srv.st # "clean"
      /\ a.srv.flush = "flush" => a.srv.st # "errdrain"
      /\ Running(a) => a.ctx.sig \/ (~a.ctx.err /\ (a.unsent # {} => a.ctx.wwant))
  BY ZenonT(60), <1>2, <1>3, <1>4 DEF Served, Drained, Ready, Wants, Running
<1>6. w \in WriteResults /\ a.net.inb # <<>>
  BY <1>2, <1>3, Nondeterminism
<1>7. Served(EnterRead(a, FALSE, w))
  BY ZenonT(60), <1>4, <1>5, <1>6, EnterReadServed
<1> QED
  BY ZenonT(60), <1>1, <1>7, BecomesServed

(* ReadResponse: the loop goes on. *)
LEMMA ReadResponseServed ==
  ASSUME Inv, Served(Now), ReadResponse
  PROVE  Served(Now)'
<1> DEFINE a == [Now EXCEPT !.ctx.rope = Tail(@)]
           s == Now
<1>1. PICK nu \in News, mv \in SUBSET Requests(Now), w \in Writes :
         InLoop /\ Become(TryRead(a, Head(ctx.rope), nu, mv, w))
  BY DEF ReadResponse
<1>2. s.ctx.up /\ Settled(s) /\ s \in State /\ Served(s)
  BY SMTT(60), <1>1, NowFields DEF Inv, Settled, Mid, Basic, Ctl, NoCtx, InLoop
<1>3. s.ctx.rope \in Seq(Resp) /\ s.ctx.rope # <<>>
  BY ZenonT(60), <1>1, <1>2, NowFields DEF State, Ctx, InLoop
<1>4. Tail(s.ctx.rope) \in Seq(Resp) /\ Head(ctx.rope) \in Resp
  BY <1>3, NowFields
<1> HIDE DEF s
<1>5. /\ Same(a, s) /\ a.env = s.env /\ a.unsent = s.unsent /\ a.ctx.writes = s.ctx.writes
      /\ \A f \in {"up", "err", "sig", "rdwant", "wwant", "watch", "reading", "entered", "loop", "halted"} :
             a.ctx[f] = s.ctx[f]
  BY ZenonT(60), <1>2, <1>4 DEF Same, State, Ctx, s
<1> HIDE DEF a
<1>6. Settled(a) /\ a.ctx.up
  BY ZenonT(60), <1>2, <1>5, SameSettled DEF Same
<1>7. Served(a)
  BY ZenonT(60), <1>2, <1>5, SimilarServed DEF Same
<1>8. nu \in Pkts \cup {0} /\ w \in WriteResults
  BY Nondeterminism
<1>9. Served(TryRead(a, Head(ctx.rope), nu, mv, w))
  BY ZenonT(60), <1>4, <1>6, <1>7, <1>8, TryReadServed
<1> QED
  BY ZenonT(60), <1>1, <1>9, BecomesServed

(* EndRead: more is wanted if requests are pending and nothing aborted. *)
LEMMA EndReadServed ==
  ASSUME Inv, Served(Now), EndRead
  PROVE  Served(Now)'
<1> DEFINE more == ~ctx.halted /\ HasPending(Now)
           a == [Now EXCEPT !.ctx.entered = FALSE, !.ctx.loop = "no", !.ctx.rdwant = @ \/ more]
           s == Now
<1>1. PICK w \in Writes : ctx.loop # "no" /\ Become(AfterRead(a, ctx.loop = "eof", w))
  BY DEF EndRead
<1>2. s.ctx.up /\ s \in State /\ Served(s)
  BY SMTT(60), <1>1, NowFields DEF Inv, Settled, Mid, Basic, Ctl, NoCtx
<1>3. more \in BOOLEAN /\ (~s.ctx.halted /\ HasPending(s) => more)
  BY NowFields
<1> HIDE DEF more, s
<1>4. /\ Same(a, s) /\ a.unsent = s.unsent /\ a.ctx.entered = FALSE /\ a.ctx.loop = "no"
      /\ (a.ctx.rdwant <=> s.ctx.rdwant \/ more) /\ HasIo(a) = HasIo(s)
      /\ a.ctx.err = s.ctx.err /\ a.ctx.sig = s.ctx.sig /\ a.ctx.wwant = s.ctx.wwant
      /\ a.ctx.halted = s.ctx.halted
  BY ZenonT(60), <1>2, <1>3 DEF Same, State, Ctx, HasIo, s
<1> HIDE DEF a
<1>5. HasPending(a) <=> HasPending(s)
  BY <1>4 DEF Same, HasPending, Requests
<1>6. Drained(a) /\ (Running(a) => Running(s))
  BY ZenonT(60), <1>2, <1>4, <1>5 DEF Same, Served, Drained, Running
<1>7. Running(a) => a.ctx.sig \/ Wants(a)
  BY ZenonT(60), <1>2, <1>3, <1>4, <1>5, <1>6 DEF Served, Ready, Wants
<1>8. Entered(a)
  BY ZenonT(60), <1>4 DEF Entered
<1>9. Served(AfterRead(a, ctx.loop = "eof", w))
  <2>1. a \in State /\ w \in WriteResults /\ (ctx.loop = "eof") \in BOOLEAN
    BY <1>4, Nondeterminism DEF Same
  <2> QED
    BY ZenonT(60), <1>6, <1>7, <1>8, <2>1, AfterReadServed DEF Wanting
<1> QED
  BY ZenonT(60), <1>1, <1>9, BecomesServed

(* ReadFails: the server does not run any more. *)
LEMMA ReadFailsServed ==
  ASSUME Inv, Served(Now), ReadFails
  PROVE  Served(Now)'
<1> DEFINE a == [Now EXCEPT !.ctx.reading = FALSE, !.ctx.rdwant = FALSE]
           b == IF net.shut THEN a ELSE Failure(a)
           s == Now
<1>1. PICK rt \in SUBSET Requests(Now), nu \in News, w \in Writes :
         ctx.reading /\ Become(EnteredErr(b, rt, nu, w))
  BY DEF ReadFails
<1>2. s.ctx.up /\ Settled(s) /\ s \in State /\ Served(s)
  BY SMTT(60), <1>1, NowFields DEF Inv, Settled, Mid, Basic, Ctl, NoCtx
<1>3. Same(a, s)
  <2> HIDE DEF b, s
  <2> QED
    BY ZenonT(60), <1>2 DEF Same, State, Ctx, s
<1> HIDE DEF a, s
<1>4. Settled(a) /\ a.ctx.up /\ a.srv = s.srv
  BY ZenonT(60), <1>2, <1>3, SameSettled DEF Same
<1>5. Settled(b) /\ b.ctx.up /\ b.srv = s.srv
  BY ZenonT(60), <1>4, FailureSettled
<1> HIDE DEF b
<1>6. b.srv.flush = "flush" => b.srv.st # "errdrain"
  BY ZenonT(60), <1>2, <1>5 DEF Served, Drained
<1>7. nu \in Pkts \cup {0} /\ w \in WriteResults
  BY Nondeterminism
<1>8. Served(EnteredErr(b, rt, nu, w))
  BY ZenonT(60), <1>5, <1>6, <1>7, EnteredErrServed
<1> QED
  BY ZenonT(60), <1>1, <1>8, BecomesServed

(* Written: a server in error or closed is finalized. *)
LEMMA WrittenServed ==
  ASSUME Inv, Served(Now), Written
  PROVE  Served(Now)'
<1> DEFINE a == [Now EXCEPT !.net.wire = @ \cup Head(ctx.writes)]
           s == Now
<1>1. ctx.writes # <<>> /\ Become(WriteDone(a))
  BY DEF Written
<1>2. s.ctx.up /\ Settled(s) /\ s \in State /\ Served(s)
  BY SMTT(60), <1>1, NowFields DEF Inv, Settled, Mid, Basic, Ctl, NoCtx
<1>3. Head(ctx.writes) \in SUBSET Pkts
  BY SMTT(60), <1>1, <1>2, NowFields DEF State, Ctx
<1> HIDE DEF s
<1>4. Same(a, s) /\ a.ctx = s.ctx /\ a.env = s.env /\ a.unsent = s.unsent
  BY ZenonT(60), <1>2, <1>3 DEF Same, State, Net, s
<1>5. s.ctx.writes # <<>>
  BY <1>1, NowFields DEF s
<1> HIDE DEF a
<1>6. Settled(a) /\ a.ctx.up /\ a.ctx.writes # <<>>
  BY <1>2, <1>4, <1>5, SameSettled
<1>7. Served(a)
  <2>1. Requests(a) \subseteq Requests(s)
    BY <1>4 DEF Same, Requests
  <2> QED
    BY ZenonT(60), <1>2, <1>4, <2>1, FewerServed DEF Same
<1> QED
  BY ZenonT(60), <1>1, <1>6, <1>7, WriteDoneServed, BecomesServed

(* WriteFails: the server is finalized, or does not run any more. *)
LEMMA WriteFailsServed ==
  ASSUME Inv, Served(Now), WriteFails
  PROVE  Served(Now)'
<1> DEFINE a == IF net.shut THEN Now ELSE Failure(Now)
           r == WriteDone(a)
<1>1. PICK rt \in SUBSET Requests(Now), nu \in News, w \in Writes :
         ctx.writes # <<>> /\ Become(IF r.ctx.up THEN EnteredErr(r, rt, nu, w) ELSE r)
  BY ZenonT(60) DEF WriteFails
<1>2. Now.ctx.up /\ Settled(Now) /\ Now.ctx.writes # <<>> /\ Now \in State
  BY SMTT(60), <1>1, NowFields DEF Inv, Settled, Mid, Basic, Ctl, NoCtx
<1>3. Settled(a) /\ a.ctx.up /\ a.ctx.writes # <<>> /\ Served(a)
  BY ZenonT(60), <1>2, FailureSettled, FailureServed
<1> HIDE DEF a
<1>4. Settled(r) /\ Served(r)
  BY ZenonT(60), <1>3, WriteDoneSettled, WriteDoneServed
<1> HIDE DEF r
<1>5. r.srv.flush = "flush" => r.srv.st # "errdrain"
  BY ZenonT(60), <1>4 DEF Served, Drained
<1>6. nu \in Pkts \cup {0} /\ w \in WriteResults
  BY Nondeterminism
<1>7. r.ctx.up => Served(EnteredErr(r, rt, nu, w))
  BY ZenonT(60), <1>4, <1>5, <1>6, EnteredErrServed
<1> QED
  BY ZenonT(60), <1>1, <1>4, <1>7, BecomesServed

(* ErrHandler: what was signalled comes, and the server does not run. *)
LEMMA ErrHandlerServed ==
  ASSUME Inv, Served(Now), ErrHandler
  PROVE  Served(Now)'
<1> DEFINE a == [Now EXCEPT !.ctx.sig = FALSE]
           s == Now
<1>1. PICK rt \in SUBSET Requests(Now), nu \in News, w \in Writes :
         ctx.sig /\ Become(SocketFailed(a, rt, nu, w))
  BY DEF ErrHandler
<1>2. s.ctx.up /\ Settled(s) /\ s \in State /\ Served(s)
  BY SMTT(60), <1>1, NowFields DEF Inv, Settled, Mid, Basic, Ctl, NoCtx
<1> HIDE DEF s
<1>3. Same(a, s)
  BY ZenonT(60), <1>2 DEF Same, State, Ctx, s
<1> HIDE DEF a
<1>4. Settled(a) /\ a.ctx.up /\ a.srv = s.srv
  BY ZenonT(60), <1>2, <1>3, SameSettled DEF Same
<1>5. a.srv.flush = "flush" => a.srv.st # "errdrain"
  BY ZenonT(60), <1>2, <1>4 DEF Served, Drained
<1>6. nu \in Pkts \cup {0} /\ w \in WriteResults
  BY Nondeterminism
<1>7. Served(SocketFailed(a, rt, nu, w))
  BY ZenonT(60), <1>4, <1>5, <1>6, SocketFailedServed DEF Settled, Mid
<1> QED
  BY ZenonT(60), <1>1, <1>7, BecomesServed

(* A timer that is armed or stopped changes nothing of it. *)
LEMMA ArmServed ==
  ASSUME NEW s \in State, Served(s), NEW n
  PROVE  Served(Arm(s, n))
<1> DEFINE r == Arm(s, n)
<1>1. /\ r.env = s.env /\ r.ctx = s.ctx /\ r.op = s.op /\ r.unsent = s.unsent
      /\ r.srv.st = s.srv.st /\ r.srv.flush = s.srv.flush
  BY ZenonT(60), ArmRest
<1> HIDE DEF r
<1>2. Requests(r) \subseteq Requests(s)
  BY <1>1 DEF Requests
<1> QED
  BY ZenonT(60), <1>1, <1>2, FewerServed DEF r

(* IoTimer: what is left is served as before. *)
LEMMA IoTimerServed ==
  ASSUME Inv, Served(Now), IoTimer
  PROVE  Served(Now)'
<1> DEFINE s == Now
           a == Arm(s, NotArmed)
           P == {p \in Requests(s) : s.op[p].rem <= 0}
<1>1. PICK nu \in News, w \in Writes : srv.tmr = 0 /\ Become(IoTimeout(Now, nu, w))
  BY ZenonT(60) DEF IoTimer
<1> DEFINE q == Purge(a, P, {}, nu, w)
           n == NextTimeout(q)
<1>2. s \in State /\ Ctl(s) /\ Timed(s) /\ Trying(s) /\ s.srv.tmr = 0 /\ Served(s)
  BY ZenonT(60), <1>1, NowFields DEF Inv, Settled, Mid, Basic, Attempt
<1>3. IoTimeout(s, nu, w) = Arm(q, n)
  BY DEF IoTimeout
<1>4. nu \in Pkts \cup {0} /\ w \in WriteResults
  BY Nondeterminism
<1> HIDE DEF s
<1>5. Usable(s)
  BY <1>2 DEF Ctl, Usable, NoTimer
<1>6. /\ a \in State /\ a.op = s.op /\ a.ctx = s.ctx /\ Requests(a) = Requests(s)
      /\ a.srv = [s.srv EXCEPT !.tmr = NotArmed] /\ Served(a)
  BY <1>2, ArmState, ArmServed DEF NotArmed
<1> HIDE DEF a
<1>7. /\ a.srv.st = s.srv.st /\ a.srv.flush = s.srv.flush /\ a.srv.creq = s.srv.creq
      /\ a.srv.ctm = s.srv.ctm /\ a.srv.fault = s.srv.fault /\ a.srv.tmr = NotArmed
  BY <1>2, <1>6 DEF State, Srv
<1>8. Ctl(a) /\ Usable(a)
  BY ZenonT(60), <1>2, <1>5, <1>6, <1>7 DEF Ctl, Usable
<1>9. Basic(a)
  BY <1>2, <1>6, <1>7, <1>8 DEF Basic, Timed, NotArmed, NoTimer, HasPending
<1>10. \A p \in Requests(a) \ P : a.op[p].rem >= 1
  BY <1>2, <1>6 DEF State, Ops, Requests
<1>11. P \in SUBSET Requests(a)
  BY ZenonT(60), <1>6
<1> HIDE DEF P
<1>12. Mid(q) /\ Served(q)
  BY ZenonT(60), <1>4, <1>6, <1>8, <1>9, <1>10, <1>11, PurgeMid, PurgeServed
<1> HIDE DEF q
<1>13. Served(Arm(q, n))
  <2> HIDE DEF n
  <2> QED
    BY <1>12, ArmServed DEF Mid, Basic
<1> QED
  BY ZenonT(60), <1>1, <1>3, <1>13, BecomesServed DEF s

(* NewMap: a server that was removed waits for its operations. *)
LEMMA NewMapServed ==
  ASSUME Inv, Served(Now), NewMap
  PROVE  Served(Now)'
<1>1. PICK mv \in SUBSET Requests(Now), w \in Writes : InUse /\ Become(Remove(Now, mv, w))
  BY DEF NewMap
<1>2. Mid(Now) /\ Usable(Now)
  BY <1>1, NowFields DEF Inv, Settled, InUse, Usable
<1>3. Served(Remove(Now, mv, w))
  BY <1>2, Nondeterminism, RemoveServed
<1> QED
  BY <1>1, <1>3, BecomesServed

(* Respond and Tick: neither the network nor the time counts. *)
LEMMA OutsideServed ==
  ASSUME Inv, Served(Now), Respond \/ Tick
  PROVE  Served(Now)'
<1> DEFINE s == Now
           r == Now'
<1>1. s \in State
  BY DEF Inv, Settled, Mid, Basic
<1>2. /\ env' = env /\ ctx' = ctx /\ unsent' = unsent
      /\ srv'.st = srv.st /\ srv'.flush = srv.flush /\ \A p \in Pkts : op'[p].ph = op[p].ph
  <2>1. CASE Respond
    BY ZenonT(60), <1>1, <2>1 DEF Respond, Become, Now
  <2>2. CASE Tick
    <3>1. srv \in Srv /\ op \in Ops
      BY <1>1, NowFields DEF State
    <3>2. srv'.st = srv.st /\ srv'.flush = srv.flush
      BY ZenonT(60), <2>2, <3>1 DEF Tick, Srv
    <3>3. \A p \in Pkts : op'[p].ph = op[p].ph
      BY ZenonT(60), <2>2, <3>1 DEF Tick, Ops
    <3> QED
      BY <2>2, <3>2, <3>3 DEF Tick
  <2> QED
    BY ZenonT(60), <2>1, <2>2
<1>3. /\ r.env = s.env /\ r.ctx = s.ctx /\ r.unsent = s.unsent
      /\ r.srv.st = s.srv.st /\ r.srv.flush = s.srv.flush
      /\ \A p \in Pkts : r.op[p].ph = s.op[p].ph
  BY <1>2 DEF Now
<1>4. Served(s)
  OBVIOUS
<1> HIDE DEF s, r
<1>5. Requests(r) \subseteq Requests(s)
  BY <1>3 DEF Requests
<1>6. Served(r)
  BY ZenonT(60), <1>3, <1>4, <1>5, FewerServed
<1> QED
  BY <1>6 DEF r, Served

-----------------------------------------------------------------------------
(* Server::Server() waits for its first packet. *)
LEMMA InitServed ==
  ASSUME Init
  PROVE  Served(Now)
<1> DEFINE s == Now
<1>1. /\ s.srv = [st |-> "clean", flush |-> "connect", creq |-> "none", ctm |-> 0,
                  tmr |-> NotArmed, fault |-> FALSE]
      /\ s.ctx = NoCtx /\ s.op = [p \in Pkts |-> [ph |-> "idle", rem |-> 0]]
  BY ZenonT(60), NowFields DEF Init
<1> HIDE DEF s
<1>2. s.srv.st = "clean" /\ s.srv.flush = "connect" /\ ~s.ctx.up /\ Requests(s) = {}
  BY SMTT(60), <1>1 DEF Requests, NoCtx
<1>3. Served(s)
  BY ZenonT(60), <1>2 DEF Served, Drained, Running, HasPending
<1> QED
  BY <1>3 DEF s

(* Every step leaves the server served. *)
LEMMA NextServed ==
  ASSUME Inv, Served(Now), [Next]_vars
  PROVE  Served(Now)'
<1>1. CASE UNCHANGED vars
  <2>1. Become(Now)
    BY ZenonT(60), <1>1 DEF vars, Now, Become
  <2> QED
    BY <2>1, BecomesServed
<1>2. CASE Next
  BY ZenonT(60), <1>2, AppScheduleServed, ArrivesServed, RetryExpiresServed, ConnectedServed,
     NegotiatedServed, ConnectFailsServed, EventReadServed, EventWriteServed, ReadDoneServed,
     ReadResponseServed, EndReadServed, ReadFailsServed, WrittenServed, WriteFailsServed,
     ErrHandlerServed, IoTimerServed, NewMapServed, OutsideServed DEF Next
<1> QED
  BY <1>1, <1>2

(* A server that is served, in a state that is settled, is attended to. *)
LEMMA ServedAttended ==
  ASSUME Inv, Served(Now)
  PROVE  Attended
<1> DEFINE s == Now
           held == {p \in Pkts : p \in net.wire \/ \E i \in DOMAIN net.inb : net.inb[i].p = p}
<1>1. s \in State /\ Ctl(s) /\ Trying(s) /\ Served(s)
  BY DEF Inv, Settled, Mid, Basic, Attempt
<1> HIDE DEF s
<1>2. s.srv.flush \in {"connect", "noop", "flush", "errdrain"} /\ s.env.mode \in {"E", "C"}
  BY <1>1 DEF State, Srv, EnvType
<1>3. HasPending(s) /\ s.srv.st = "clean" => s.srv.creq # "none" \/ s.ctx.up
  BY ZenonT(60), <1>1, <1>2 DEF Ctl, Trying, Usable, Served, Drained
<1>4. s.srv.creq # "none" => ~s.ctx.up /\ s.srv.flush = "noop"
  BY ZenonT(60), <1>1 DEF Ctl
<1>5. s.srv.st = "closed" => s.ctx.up /\ HasIo(s)
  BY ZenonT(60), <1>1 DEF Served, Drained
<1>6. s.srv.st = "errdrain" => IF s.ctx.up THEN HasIo(s) ELSE ~HasPending(s) /\ s.srv.flush = "connect"
  BY ZenonT(60), <1>1, <1>2 DEF Ctl, Trying, Usable, Served, Drained
<1>7. ASSUME s.ctx.up, s.srv.st = "clean", ~s.ctx.sig, s.ctx.loop = "no"
      PROVE  /\ s.unsent # {} => "W" \in s.ctx.watch
             /\ HasPending(s) /\ ~s.ctx.halted => "R" \in s.ctx.watch \/ s.ctx.reading
  <2>1. ~s.ctx.entered /\ Wants(s) /\ Scheduled(s)
    BY ZenonT(60), <1>1, <1>7 DEF Served, Running, Ready, Entered
  <2> QED
    BY ZenonT(60), <2>1 DEF Wants, Scheduled
<1>8. Requests(s) \cap held # {} => HasPending(s)
  BY DEF HasPending
<1>9. s.srv = srv /\ s.ctx = ctx /\ s.unsent = unsent /\ s = Now
  BY NowFields DEF s
<1> QED
  BY ZenonT(60), <1>3, <1>4, <1>5, <1>6, <1>7, <1>8, <1>9 DEF Attended, Idle

(* Whatever the order of the events, the failures of the network, the      *)
(* removal of the node and what the callbacks schedule, under either I/O   *)
(* model: a request of mcserver.cc always has an attempt, an event, a read *)
(* or a signalled error that attends to it, and a server in error or       *)
(* closed an operation whose completion finalizes it; provided no map that *)
(* comes with a response lacks the node.                                   *)
THEOREM AlwaysAttended ==
  ASSUME MapsKeepNode
  PROVE  Spec => []Attended
<1> DEFINE IInv == Inv /\ Served(Now)
<1>1. Init => IInv
  BY InitInv, InitServed
<1>2. IInv /\ [Next]_vars => IInv'
  BY NextInv, NextServed
<1>3. IInv => Attended
  BY ServedAttended
<1> HIDE DEF IInv
<1> QED
  BY <1>1, <1>2, <1>3, PTL DEF Spec
=============================================================================
