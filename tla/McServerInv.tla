---------------------------- MODULE McServerInv ----------------------------
(***************************************************************************)
(* The inductive invariant of McServer, and what each operation of the     *)
(* Server does to it.  The handlers call one another, so the invariant has *)
(* two forms: Mid holds at every call a handler makes, Settled when it     *)
(* returns to the event loop.  A lemma for an operation says from which    *)
(* one it starts and in which one it ends.  Then every event preserves the *)
(* invariant; the clock follows in McServerProofs.                         *)
(***************************************************************************)
EXTENDS McServer, TLAPS, WellFoundedInduction

(* The assumption of the theorems: a map that lcb_open fetches over a      *)
(* Server contains the node of that Server.  Without it try_read() uses    *)
(* the Server that it deleted.                                             *)
MapsKeepNode == \A e \in Envs : "gone" \notin e.kinds

-----------------------------------------------------------------------------
(* The states, by their types. *)
Resp == [p : Pkts, kind : Kinds \ {"gone"}]
Srv == [st : {"clean", "errdrain", "closed", "freed"},
        flush : {"connect", "noop", "flush", "errdrain"},
        creq : {"none", "pool", "session"}, ctm : Nat, tmr : Int, fault : BOOLEAN]
Ctx == [up : BOOLEAN, err : BOOLEAN, sig : BOOLEAN, rdwant : BOOLEAN, wwant : BOOLEAN,
        watch : SUBSET {"R", "W"}, reading : BOOLEAN, writes : Seq(SUBSET Pkts),
        entered : BOOLEAN, rope : Seq(Resp), halted : BOOLEAN, loop : {"no", "data", "eof"}]
Net == [wire : SUBSET Pkts, inb : Seq(Resp), shut : BOOLEAN]
Ops == [Pkts -> [ph : {"idle", "reqs", "retry", "away", "done"}, rem : Int]]
State == [env : {e \in EnvType : "gone" \notin e.kinds}, srv : Srv, ctx : Ctx, net : Net,
          op : Ops, unsent : SUBSET Pkts, count : [fails : Nat, retries : Nat]]
WriteResults == {"ok", "again", "fail"}

(* How the state of the server, its flush_start, its attempt, its timer    *)
(* and its context go together.                                            *)
Ctl(s) ==
    /\ ~s.srv.fault
    /\ s.srv.creq # "none" => s.srv.st = "clean" /\ s.srv.flush = "noop"
    /\ s.srv.st \in {"closed", "freed"} => s.srv.tmr = NoTimer /\ s.srv.creq = "none"
    /\ s.srv.st # "freed" => (s.ctx.up <=> s.srv.flush \in {"flush", "errdrain"})
    /\ s.srv.st = "freed" => ~s.ctx.up
    /\ ~s.ctx.up => s.ctx = NoCtx

(* The least time a request may have left, and why it has no less: when    *)
(* the timer fires, every request still has that much.                     *)
Bound == 1 - OpTimeout - NodeTimeout
Timed(s) ==
    /\ s.srv.tmr \in {NoTimer, NotArmed} \cup 0..OpTimeout
    /\ s.srv.tmr = NoTimer => s.srv.st \in {"closed", "freed"} /\ ~HasPending(s)
    /\ \A p \in Requests(s) : s.op[p].rem >= Bound
    /\ s.srv.tmr >= 0 => \A p \in Requests(s) : s.op[p].rem - s.srv.tmr >= Bound
    /\ \A p \in Pkts : s.op[p].rem <= OpTimeout
    /\ s.srv.creq = "pool" => s.srv.ctm <= OpTimeout
    /\ s.srv.creq = "session" => s.srv.ctm <= NodeTimeout

(* A handler may see requests that neither the timer nor an attempt        *)
(* covers, but they are not late yet.                                      *)
Fresh(s) ==
    s.srv.tmr = NotArmed /\ s.srv.creq = "none" => \A p \in Requests(s) : s.op[p].rem >= 1

Basic(s) == s \in State /\ Ctl(s) /\ Timed(s)
Mid(s) == Basic(s) /\ Fresh(s)

(* Between handlers the requests of a server whose timer is not armed wait *)
(* for an attempt, and are not later than Bound when it ends: the attempt  *)
(* takes OpTimeout for the socket and NodeTimeout for the session.         *)
Usable(s) == s.srv.st \notin {"closed", "freed"}
Trying(s) == Usable(s) /\ s.srv.flush = "noop" => s.srv.creq # "none"
Attempt(s) ==
    /\ Trying(s)
    /\ s.srv.tmr = NotArmed /\ HasPending(s) =>
           /\ s.srv.creq # "none"
           /\ \A p \in Requests(s) :
                  s.op[p].rem - s.srv.ctm >= IF s.srv.creq = "pool" THEN 1 - OpTimeout ELSE Bound

Settled(s) == Mid(s) /\ Attempt(s)
Inv == Settled(Now)

(* What a step of the context alone leaves as it was *)
Same(r, s) == r \in State /\ r.srv = s.srv /\ r.op = s.op /\ r.ctx.up

-----------------------------------------------------------------------------
(* lcbio_ctx_senderr() changes only the context: the server, the requests  *)
(* and whether the context exists stay as they are.                        *)
LEMMA SendErrSame ==
  ASSUME NEW s \in State, s.ctx.up, NEW e \in BOOLEAN
  PROVE  Same(SendErr(s, e), s)
BY ZenonT(60) DEF Same, State, Ctx, SendErr

(* Counting a failure of the network changes nothing of the server. *)
LEMMA FailureSame ==
  ASSUME NEW s \in State
  PROVE  /\ Failure(s) \in State
         /\ \A f \in {"env", "srv", "ctx", "net", "op", "unsent"} : Failure(s)[f] = s[f]
BY DEF State, Failure

(* on_flush_ready(), whatever the write returns, leaves the server and the *)
(* requests alone.                                                         *)
LEMMA FlushReadySame ==
  ASSUME NEW s \in State, s.ctx.up, NEW w \in WriteResults
  PROVE  Same(FlushReady(s, w), s)
<1> DEFINE sent == [s EXCEPT !.unsent = {}]
           more(r) == [r EXCEPT !.ctx.wwant = TRUE]
<1>1. Same(sent, s)
  BY DEF Same, State
<1>2. ASSUME NEW r, Same(r, s) PROVE Same(more(r), s)
  BY ZenonT(60), <1>2 DEF Same, State, Ctx
<1>3. Same(s, s)
  BY DEF Same
<1>4. Same([sent EXCEPT !.net.wire = @ \cup s.unsent], s)
  BY ZenonT(60) DEF Same, State, Net
<1>5. Same(Failure(sent), s)
  BY ZenonT(60), <1>1, FailureSame DEF Same
<1>6. Same(SendErr(Failure(sent), TRUE), s)
  BY ZenonT(60), <1>5, SendErrSame DEF Same
<1>7. Same([sent EXCEPT !.ctx.writes = Append(@, s.unsent)], s)
  <2>1. s.unsent \in SUBSET Pkts /\ s.ctx.writes \in Seq(SUBSET Pkts)
    BY DEF State, Ctx
  <2>2. Append(s.ctx.writes, s.unsent) \in Seq(SUBSET Pkts)
    BY <2>1
  <2>3. sent.ctx.writes = s.ctx.writes
    BY DEF State
  <2> QED
    BY ZenonT(60), <1>1, <2>2, <2>3 DEF Same, State, Ctx
<1> HIDE DEF sent, more
<1>8. FlushReady(s, w) \in {s, [sent EXCEPT !.net.wire = @ \cup s.unsent], more(s),
                            more(SendErr(Failure(sent), TRUE)), SendErr(Failure(sent), TRUE),
                            [sent EXCEPT !.ctx.writes = Append(@, s.unsent)]}
  BY ZenonT(60) DEF FlushReady, WriteResults, sent, more
<1> QED
  BY ZenonT(60), <1>2, <1>3, <1>4, <1>6, <1>7, <1>8

(* lcbio_ctx_wwant() leaves the server and the requests alone. *)
LEMMA WWantSame ==
  ASSUME NEW s \in State, s.ctx.up, NEW w \in WriteResults
  PROVE  Same(WWant(s, w), s)
<1>1. Same([s EXCEPT !.ctx.wwant = TRUE], s)
  BY ZenonT(60) DEF Same, State, Ctx
<1> QED
  BY <1>1, FlushReadySame DEF WWant

(* lcbio_ctx_schedule() leaves the server and the requests alone. *)
LEMMA CtxScheduleSame ==
  ASSUME NEW s \in State, s.ctx.up, NEW w \in WriteResults
  PROVE  Same(CtxSchedule(s, w), s)
<1>1. Same(s, s)
  BY DEF Same
<1>2. Same(ESchedule(s), s)
  BY ZenonT(60) DEF Same, State, Ctx, ESchedule
<1>3. Same(CSchedule(s, w), s)
  <2> DEFINE q == [s EXCEPT !.ctx.wwant = FALSE]
             r == IF s.ctx.wwant THEN FlushReady(q, w) ELSE s
  <2>1. Same(q, s)
    BY ZenonT(60) DEF Same, State, Ctx
  <2>2. Same(r, s)
    BY ZenonT(60), <2>1, <1>1, FlushReadySame DEF Same
  <2>3. Same([r EXCEPT !.ctx.reading = TRUE], s)
    <3> HIDE DEF r
    <3> QED BY ZenonT(60), <2>2 DEF Same, State, Ctx
  <2> QED
    BY <2>2, <2>3 DEF CSchedule
<1> QED
  BY <1>1, <1>2, <1>3 DEF CtxSchedule

(* lcbio_timer_rearm() on the io_timer changes nothing but its time. *)
LEMMA ArmState ==
  ASSUME NEW s \in State, NEW n \in Int
  PROVE  /\ Arm(s, n) \in State
         /\ Arm(s, n).srv = [s.srv EXCEPT !.tmr = n]
         /\ Arm(s, n).op = s.op /\ Arm(s, n).ctx = s.ctx
         /\ Requests(Arm(s, n)) = Requests(s)
BY DEF State, Srv, Arm, Requests

-----------------------------------------------------------------------------
(* What connect() assigns. It faults exactly when an attempt was pending. *)
LEMMA ConnectState ==
  ASSUME NEW s \in State
  PROVE  LET r == Connect(s)
         IN  /\ r \in State /\ r.op = s.op /\ r.ctx = s.ctx
             /\ r.srv.st = "clean" /\ r.srv.creq = "pool" /\ r.srv.flush = "noop"
             /\ r.srv.ctm = OpTimeout /\ r.srv.tmr = s.srv.tmr
             /\ r.srv.fault <=> s.srv.fault \/ s.srv.creq # "none"
<1>1. OpTimeout \in Nat
  BY ServerAssumption
<1> QED
  BY ZenonT(60), <1>1 DEF Connect, State, Srv

(* A step of the context alone preserves the invariant of the handlers. *)
LEMMA SameMid ==
  ASSUME NEW s, Mid(s), NEW r, Same(r, s), s.ctx.up
  PROVE  Mid(r)
BY DEF Same, Mid, Basic, Ctl, Timed, Fresh, Requests, HasPending

(* connect() without a context or an attempt preserves the invariant of    *)
(* the handlers.                                                           *)
LEMMA ConnectMid ==
  ASSUME NEW s \in State, Timed(s), ~s.srv.fault, s.srv.creq = "none", s.ctx = NoCtx,
         s.srv.st \notin {"closed", "freed"}
  PROVE  Mid(Connect(s))
<1> DEFINE r == Connect(s)
<1>1. r \in State /\ r.op = s.op /\ r.ctx = s.ctx
  BY ConnectState
<1>2. /\ r.srv.st = "clean" /\ r.srv.creq = "pool" /\ r.srv.flush = "noop" /\ r.srv.ctm = OpTimeout
      /\ r.srv.tmr = s.srv.tmr /\ ~r.srv.fault
  BY ConnectState
<1> HIDE DEF r
<1>3. Ctl(r)
  BY <1>1, <1>2 DEF Ctl, Timed, NoCtx
<1>4. Timed(r) /\ Fresh(r)
  BY SMTT(60), <1>1, <1>2, ServerAssumption DEF Timed, Fresh, Requests, HasPending
<1> QED
  BY <1>1, <1>3, <1>4 DEF Mid, Basic, r

(* Arming the io_timer preserves it, if no request is then due too late. *)
LEMMA ArmMid ==
  ASSUME NEW s, Basic(s), s.srv.st \notin {"closed", "freed"}, NEW n \in 0..OpTimeout,
         \A p \in Requests(s) : s.op[p].rem - n >= Bound
  PROVE  LET r == Arm(s, n)
         IN  /\ Mid(r) /\ r.op = s.op /\ r.ctx = s.ctx /\ Requests(r) = Requests(s)
             /\ r.srv.st = s.srv.st /\ r.srv.creq = s.srv.creq /\ r.srv.flush = s.srv.flush
             /\ r.srv.ctm = s.srv.ctm /\ r.srv.tmr = n
<1>1. s \in State /\ s.srv \in Srv
  BY DEF Basic, State
<1> DEFINE r == Arm(s, n)
<1>2. n \in Int
  BY ServerAssumption
<1>3. /\ r \in State /\ r.op = s.op /\ r.ctx = s.ctx /\ Requests(r) = Requests(s)
      /\ r.srv.st = s.srv.st /\ r.srv.creq = s.srv.creq /\ r.srv.flush = s.srv.flush
      /\ r.srv.ctm = s.srv.ctm /\ r.srv.tmr = n /\ r.srv.fault = s.srv.fault
  <2>1. /\ r \in State /\ r.srv = [s.srv EXCEPT !.tmr = n] /\ r.op = s.op /\ r.ctx = s.ctx
        /\ Requests(r) = Requests(s)
    BY ZenonT(60), <1>1, <1>2, ArmState
  <2> HIDE DEF r
  <2> QED
    BY <1>1, <2>1 DEF Srv
<1> HIDE DEF r
<1>4. Ctl(r)
  BY <1>3 DEF Basic, Ctl
<1>5. Timed(r) /\ Fresh(r)
  BY <1>3, ServerAssumption DEF Basic, Timed, Fresh, HasPending, NoTimer, NotArmed
<1> QED
  BY <1>3, <1>4, <1>5 DEF Mid, Basic, r

-----------------------------------------------------------------------------
(* A set of integers that is not empty and is bounded below has a least    *)
(* element.                                                                *)
LEMMA MinExists ==
  ASSUME NEW S \in SUBSET Int, S # {}, NEW b \in Int, \A x \in S : x >= b
  PROVE  Min(S) \in S /\ \A y \in S : Min(S) <= y
<1> DEFINE T == {n \in Nat : \E x \in S : n = x - b}
<1>1. T \subseteq Nat /\ T # {}
  <2>1. PICK x \in S : TRUE
    BY ZenonT(60)
  <2>2. x - b \in T
    BY <2>1
  <2> QED
    BY ZenonT(60), <2>2
<1>2. PICK n \in T : \A m \in T : ~ (<<m, n>> \in OpToRel(<, Nat))
  <2> HIDE DEF T
  <2> QED
    BY ZenonT(60), <1>1, NatLessThanWellFounded, WFMin
<1>3. PICK x \in S : n = x - b
  BY ZenonT(60), <1>2
<1>4. \A y \in S : x <= y
  <2>1. SUFFICES ASSUME NEW y \in S PROVE x <= y
    OBVIOUS
  <2>2. y - b \in T
    OBVIOUS
  <2>3. ~ (<<y - b, x - b>> \in OpToRel(<, Nat))
    BY ZenonT(60), <1>2, <1>3, <2>2
  <2>4. ~ (y - b < x - b)
    BY <2>3, <1>3 DEF OpToRel
  <2> QED
    BY <2>4
<1> QED
  BY ZenonT(60), <1>4 DEF Min

(* Server::next_timeout() is a time the timer can have, no later than any  *)
(* request may wait, and when it is not 0 every request has at least that  *)
(* much left.                                                              *)
LEMMA NextTimeoutBound ==
  ASSUME NEW s, Basic(s)
  PROVE  LET n == NextTimeout(s)
         IN  /\ n \in 0..OpTimeout
             /\ \A p \in Requests(s) : s.op[p].rem - n >= Bound
             /\ n > 0 => \A p \in Requests(s) : s.op[p].rem >= n
<1> DEFINE R == {s.op[p].rem : p \in Requests(s)}
           m == Min(R)
<1>1. OpTimeout \in Nat /\ NodeTimeout \in Nat /\ OpTimeout > 0 /\ NodeTimeout > 0 /\ Bound \in Int
  BY ServerAssumption DEF Bound
<1>2. \A p \in Requests(s) : s.op[p].rem \in Int /\ s.op[p].rem >= Bound /\ s.op[p].rem <= OpTimeout
  BY DEF Basic, State, Ops, Requests, Timed
<1>3. CASE ~HasPending(s)
  BY <1>1, <1>3 DEF NextTimeout, HasPending
<1>4. CASE HasPending(s)
  <2>1. R \in SUBSET Int /\ R # {} /\ \A x \in R : x >= Bound
    BY <1>2, <1>4 DEF HasPending
  <2>2. m \in R /\ \A y \in R : m <= y
    <3> HIDE DEF R
    <3> QED
      BY ZenonT(60), <2>1, <1>1, MinExists
  <2>3. m \in Int /\ m >= Bound /\ m <= OpTimeout /\ \A p \in Requests(s) : m <= s.op[p].rem
    <3> HIDE DEF m
    <3> QED
      BY <1>2, <2>2
  <2>4. NextTimeout(s) = Max({0, m})
    BY <1>4 DEF NextTimeout
  <2> HIDE DEF m
  <2>5. Max({0, m}) = IF m > 0 THEN m ELSE 0
    BY <2>3 DEF Max
  <2>6. PICK n : n = NextTimeout(s)
    OBVIOUS
  <2>7. n \in 0..OpTimeout
    BY <1>1, <2>3, <2>4, <2>5, <2>6
  <2>8. ASSUME NEW p \in Requests(s)
        PROVE  s.op[p].rem - n >= Bound /\ (n > 0 => s.op[p].rem >= n)
    <3>1. PICK x \in Int : x = s.op[p].rem /\ x >= Bound /\ m <= x
      BY <1>2, <2>3
    <3> QED
      BY <1>1, <2>3, <2>4, <2>5, <2>6, <3>1 DEF Bound
  <2> QED
    BY <2>6, <2>7, <2>8
<1> QED
  BY <1>3, <1>4

-----------------------------------------------------------------------------

(* The timer armed by flush() or server_flush_errdrain(), if it was not    *)
(* armed, covers every request: they are all fresh.                        *)
LEMMA ArmIfNotMid ==
  ASSUME NEW s, Mid(s), Usable(s), s.srv.creq = "none"
  PROVE  LET r == ArmIfNot(s, OpTimeout)
         IN  /\ Mid(r) /\ r.op = s.op /\ r.ctx = s.ctx
             /\ r.srv.st = s.srv.st /\ r.srv.creq = s.srv.creq /\ r.srv.flush = s.srv.flush
             /\ r.srv.tmr >= 0
<1>1. OpTimeout \in Nat /\ NodeTimeout \in Nat /\ OpTimeout > 0 /\ NodeTimeout > 0
  BY ServerAssumption
<1>2. CASE s.srv.tmr = NotArmed
  <2>1. \A p \in Requests(s) : s.op[p].rem \in Int /\ s.op[p].rem >= 1
    BY <1>2 DEF Mid, Basic, Fresh, State, Ops, Requests
  <2>2. \A p \in Requests(s) : s.op[p].rem - OpTimeout >= Bound
    BY <1>1, <2>1 DEF Bound
  <2>3. OpTimeout \in 0..OpTimeout
    BY <1>1
  <2> QED
    BY SMTT(60), <1>1, <1>2, <2>2, <2>3, ArmMid DEF ArmIfNot, Mid, Usable
<1>3. CASE s.srv.tmr # NotArmed
  <2>1. s.srv.tmr >= 0
    BY SMTT(60), <1>1, <1>3 DEF Mid, Basic, Timed, Usable
  <2> QED
    BY <1>3, <2>1 DEF ArmIfNot
<1> QED
  BY <1>2, <1>3

(* flush() keeps the invariant of the handlers and ends with the timer     *)
(* armed.                                                                  *)
LEMMA FlushMid ==
  ASSUME NEW s, Mid(s), Usable(s), s.ctx.up, NEW w \in WriteResults
  PROVE  LET r == Flush(s, w)
         IN  /\ Mid(r) /\ r.op = s.op /\ r.ctx.up
             /\ r.srv.st = s.srv.st /\ r.srv.creq = s.srv.creq /\ r.srv.flush = s.srv.flush
             /\ r.srv.tmr >= 0
<1> DEFINE a == [s EXCEPT !.ctx.rdwant = TRUE, !.ctx.halted = FALSE]
           b == WWant(a, w)
           c == CtxSchedule(b, w)
<1>1. s \in State /\ s.srv.creq = "none"
  BY DEF Mid, Basic, Ctl, Usable
<1>2. Same(a, s)
  BY ZenonT(60), <1>1 DEF Same, State, Ctx
<1> HIDE DEF a
<1>3. Same(b, a)
  BY <1>2, WWantSame DEF Same
<1> HIDE DEF b
<1>4. Same(c, b)
  BY <1>3, CtxScheduleSame DEF Same
<1> HIDE DEF c
<1>5. Same(c, s)
  BY <1>2, <1>3, <1>4 DEF Same
<1>6. Mid(c) /\ Usable(c) /\ c.srv.creq = "none" /\ c.ctx.up /\ c.srv = s.srv /\ c.op = s.op
  BY <1>1, <1>5, SameMid DEF Same, Usable
<1>7. Flush(s, w) = ArmIfNot(c, OpTimeout)
  BY DEF Flush, a, b, c
<1> QED
  BY ZenonT(60), <1>6, <1>7, ArmIfNotMid

(* So does pipeline->flush_start, except where the timer waits for the     *)
(* connection: connect() and noop.                                         *)
LEMMA FlushStartMid ==
  ASSUME NEW s, Mid(s), Usable(s), NEW w \in WriteResults
  PROVE  LET r == FlushStart(s, w)
         IN  /\ Mid(r) /\ Usable(r) /\ r.op = s.op /\ (r.ctx.up <=> s.ctx.up)
             /\ Trying(s) => Trying(r)
             /\ s.srv.tmr >= 0 => r.srv.tmr >= 0
             /\ r.srv.tmr < 0 => \/ s.srv.flush = "connect" /\ r.srv.creq = "pool" /\ r.srv.ctm = OpTimeout
                                 \/ s.srv.flush = "noop" /\ r = s
<1>1. s \in State /\ s.srv \in Srv
  BY DEF Mid, Basic, State
<1>2. s.srv.flush \in {"connect", "noop", "flush", "errdrain"} /\ s.srv.tmr \in Int
  BY ZenonT(60), <1>1 DEF Srv
<1>3. CASE s.srv.flush = "connect"
  <2>1. s.srv.creq = "none" /\ ~s.ctx.up
    BY <1>3 DEF Mid, Basic, Ctl, Usable
  <2>2. FlushStart(s, w) = Connect(s)
    BY <1>3 DEF FlushStart
  <2>3. Mid(Connect(s))
    BY <1>1, <2>1, ConnectMid DEF Mid, Basic, Ctl, Usable
  <2> QED
    BY ZenonT(60), <1>1, <1>3, <2>1, <2>2, <2>3, ConnectState DEF Usable, Trying
<1>4. CASE s.srv.flush = "noop"
  <2>1. FlushStart(s, w) = s
    BY ZenonT(60), <1>4 DEF FlushStart
  <2> QED
    BY <1>4, <2>1
<1>5. CASE s.srv.flush = "flush"
  <2>1. s.ctx.up
    BY <1>5 DEF Mid, Basic, Ctl, Usable
  <2>2. FlushStart(s, w) = Flush(s, w)
    BY <1>5 DEF FlushStart
  <2>3. LET r == Flush(s, w)
         IN  /\ Mid(r) /\ r.op = s.op /\ r.ctx.up
             /\ r.srv.st = s.srv.st /\ r.srv.creq = s.srv.creq /\ r.srv.flush = s.srv.flush
             /\ r.srv.tmr >= 0
    BY ZenonT(60), <2>1, FlushMid
  <2>4. Flush(s, w).srv.tmr \in Int
    BY <2>3 DEF Mid, Basic, State, Srv
  <2> QED
    BY SMTT(60), <1>5, <2>1, <2>2, <2>3, <2>4 DEF Usable, Trying
<1>6. CASE s.srv.flush = "errdrain"
  <2>1. s.ctx.up /\ s.srv.creq = "none"
    BY <1>6 DEF Mid, Basic, Ctl, Usable
  <2>2. FlushStart(s, w) = ArmIfNot(s, OpTimeout)
    BY <1>6 DEF FlushStart
  <2>3. LET r == ArmIfNot(s, OpTimeout)
         IN  /\ Mid(r) /\ r.op = s.op /\ r.ctx = s.ctx
             /\ r.srv.st = s.srv.st /\ r.srv.creq = s.srv.creq /\ r.srv.flush = s.srv.flush
             /\ r.srv.tmr >= 0
    BY <2>1, ArmIfNotMid
  <2>4. ArmIfNot(s, OpTimeout).srv.tmr \in Int
    BY <2>3 DEF Mid, Basic, State, Srv
  <2> QED
    BY SMTT(60), <1>6, <2>1, <2>2, <2>3, <2>4 DEF Usable, Trying
<1> QED
  BY <1>2, <1>3, <1>4, <1>5, <1>6

-----------------------------------------------------------------------------
(* Requests that leave the queue leave the rest alone, *)
LEMMA LeaveState ==
  ASSUME NEW s \in State, NEW P, NEW ph \in {"retry", "away", "done"}
  PROVE  LET r == Leave(s, P, ph)
         IN  /\ r \in State /\ r.srv = s.srv /\ r.ctx = s.ctx
             /\ r.op = [p \in Pkts |-> IF p \in P THEN [ph |-> ph, rem |-> 0] ELSE s.op[p]]
             /\ Requests(r) = Requests(s) \ P
<1> DEFINE o == [p \in Pkts |-> IF p \in P THEN [ph |-> ph, rem |-> 0] ELSE s.op[p]]
<1>1. o \in Ops
  BY DEF State, Ops
<1>2. Leave(s, P, ph) = [s EXCEPT !.op = o]
  BY DEF Leave
<1>3. \A p \in Pkts : o[p].ph = "reqs" <=> p \notin P /\ s.op[p].ph = "reqs"
  BY DEF State, Ops
<1> HIDE DEF o
<1>4. LET r == [s EXCEPT !.op = o] IN r \in State /\ r.srv = s.srv /\ r.ctx = s.ctx /\ r.op = o
  BY <1>1 DEF State
<1> QED
  BY <1>2, <1>3, <1>4 DEF Requests, o

(* Fewer requests preserve the invariant of the handlers. *)
LEMMA FewerMid ==
  ASSUME NEW s, Basic(s), NEW r \in State, r.srv = s.srv, r.ctx = s.ctx,
         Requests(r) \subseteq Requests(s),
         \A p \in Requests(r) : r.op[p].rem = s.op[p].rem,
         \A p \in Pkts : r.op[p].rem <= OpTimeout,
         s.srv.tmr = NotArmed /\ s.srv.creq = "none" => \A p \in Requests(r) : s.op[p].rem >= 1
  PROVE  Mid(r)
<1>1. Ctl(r)
  BY DEF Basic, Ctl
<1>2. Timed(r)
  BY DEF Basic, Timed, HasPending
<1>3. Fresh(r)
  BY DEF Fresh
<1> QED
  BY ZenonT(60), <1>1, <1>2, <1>3 DEF Mid, Basic

(* A packet with time left may join the queue. *)
LEMMA EnqueueMid ==
  ASSUME NEW s, Basic(s), Usable(s), NEW p \in Pkts, NEW t \in 1..OpTimeout, NEW q \in State,
         q.srv = s.srv, q.ctx = s.ctx, q.op = [s.op EXCEPT ![p].rem = t],
         s.srv.tmr = NotArmed /\ s.srv.creq = "none" => \A x \in Requests(s) : s.op[x].rem >= 1
  PROVE  LET r == Enqueue(q, p)
         IN  /\ Mid(r) /\ r.srv = s.srv /\ r.ctx = s.ctx
             /\ Requests(r) = Requests(s) \cup {p}
             /\ r.op[p].rem = t
             /\ \A x \in Requests(s) \ {p} : r.op[x].rem = s.op[x].rem
<1> DEFINE r == Enqueue(q, p)
<1>1. s \in State /\ s.op \in Ops /\ q.op \in Ops /\ s.srv.tmr \in Int
  BY DEF Basic, State, Srv
<1>2. OpTimeout \in Nat /\ NodeTimeout \in Nat /\ OpTimeout > 0 /\ NodeTimeout > 0 /\ t \in Int
  BY ServerAssumption
<1>3. r \in State /\ r.srv = s.srv /\ r.ctx = s.ctx /\ r.op = [q.op EXCEPT ![p].ph = "reqs"]
  <2> DEFINE o == [q.op EXCEPT ![p].ph = "reqs"]
  <2>1. o \in Ops
    BY <1>1 DEF Ops
  <2>2. r = [q EXCEPT !.op = o, !.unsent = @ \cup {p}]
    BY DEF Enqueue
  <2> HIDE DEF o, r
  <2>3. r \in State /\ r.srv = q.srv /\ r.ctx = q.ctx /\ r.op = o
    BY ZenonT(60), <2>1, <2>2 DEF State
  <2> QED
    BY <2>3 DEF o
<1> HIDE DEF r
<1>4. r.op[p].ph = "reqs" /\ r.op[p].rem = t /\ \A x \in Pkts \ {p} : r.op[x] = s.op[x]
  BY <1>1, <1>3 DEF Ops
<1>5. Requests(r) = Requests(s) \cup {p}
  BY <1>4 DEF Requests
<1>6. \A x \in Requests(r) : r.op[x].rem \in Int /\ (x # p => r.op[x].rem = s.op[x].rem /\ x \in Requests(s))
  BY <1>1, <1>2, <1>4, <1>5 DEF Requests, Ops
<1>7. Ctl(r)
  BY <1>3 DEF Basic, Ctl
<1>8. Timed(r)
  <2>1. \A x \in Requests(r) : r.op[x].rem >= Bound
    BY <1>2, <1>4, <1>6 DEF Basic, Timed, Bound
  <2>2. s.srv.tmr >= 0 => \A x \in Requests(r) : r.op[x].rem - s.srv.tmr >= Bound
    BY SMTT(60), <1>1, <1>2, <1>4, <1>6 DEF Basic, Timed, Bound, NoTimer, NotArmed
  <2>3. \A x \in Pkts : r.op[x].rem <= OpTimeout
    BY <1>2, <1>4 DEF Basic, Timed
  <2>4. s.srv.tmr # NoTimer
    BY DEF Basic, Timed, Usable
  <2> QED
    BY <1>3, <2>1, <2>2, <2>3, <2>4 DEF Basic, Timed
<1>9. Fresh(r)
  BY SMTT(60), <1>2, <1>3, <1>4, <1>6 DEF Fresh
<1> QED
  BY ZenonT(60), <1>3, <1>4, <1>5, <1>6, <1>7, <1>8, <1>9 DEF Mid, Basic, r

(* The state in which mcreq_sched_leave() calls flush_start *)
Scheduling(s, p, t) == Enqueue(Arm([s EXCEPT !.op[p].rem = t], NextTimeout(s)), p)

(* mcreq_sched_add() arms the timer; then the packet joins the queue. *)
LEMMA SchedulingMid ==
  ASSUME NEW s, Mid(s), Usable(s), NEW p \in Pkts, NEW t \in 1..OpTimeout
  PROVE  LET c == Scheduling(s, p, t)
         IN  /\ Mid(c) /\ Usable(c) /\ c.ctx = s.ctx /\ c.srv.tmr >= 0
             /\ c.srv.st = s.srv.st /\ c.srv.flush = s.srv.flush
             /\ Trying(s) => Trying(c)
<1> DEFINE n == NextTimeout(s)
           a == [s EXCEPT !.op[p].rem = t]
           b == Arm(a, n)
           u == Arm(s, n)
           c == Enqueue(b, p)
<1>1. s \in State /\ Basic(s) /\ t \in Int /\ n \in Int /\ n >= 0
  BY NextTimeoutBound, ServerAssumption DEF Mid, Basic
<1>2. a \in State /\ a.srv = s.srv /\ a.ctx = s.ctx /\ a.op = [s.op EXCEPT ![p].rem = t]
  BY ZenonT(60), <1>1 DEF State, Ops
<1>3. /\ Mid(u) /\ u.op = s.op /\ u.ctx = s.ctx /\ Requests(u) = Requests(s)
      /\ u.srv.st = s.srv.st /\ u.srv.creq = s.srv.creq /\ u.srv.flush = s.srv.flush /\ u.srv.tmr = n
  BY <1>1, NextTimeoutBound, ArmMid DEF Usable
<1>4. u.srv = [s.srv EXCEPT !.tmr = n]
  BY <1>1, ArmState
<1> HIDE DEF a, n, u
<1>5. b \in State /\ b.srv = u.srv /\ b.ctx = u.ctx /\ b.op = [u.op EXCEPT ![p].rem = t]
  BY <1>1, <1>2, <1>3, <1>4, ArmState
<1> HIDE DEF b
<1>6. Usable(u) /\ Basic(u) /\ u.srv.tmr # NotArmed
  BY <1>1, <1>3 DEF Usable, Mid, NotArmed
<1>7. Mid(c) /\ c.srv = u.srv /\ c.ctx = u.ctx
  BY SMTT(60), <1>5, <1>6, EnqueueMid
<1> HIDE DEF c
<1>8. Usable(c) /\ c.srv.tmr >= 0 /\ (Trying(s) => Trying(c))
  BY <1>1, <1>3, <1>6, <1>7 DEF Usable, Trying
<1> QED
  BY ZenonT(60), <1>3, <1>7, <1>8 DEF Scheduling, a, b, c, n

(* mcreq_sched_add() and mcreq_sched_leave() leave the timer armed. *)
LEMMA ScheduleMid ==
  ASSUME NEW s, Mid(s), Usable(s), NEW p \in Pkts, s.op[p].ph = "idle", NEW t \in 1..OpTimeout,
         NEW w \in WriteResults
  PROVE  LET r == Schedule(s, p, t, w)
         IN  /\ Mid(r) /\ Usable(r) /\ (r.ctx.up <=> s.ctx.up) /\ r.srv.tmr >= 0
             /\ Trying(s) => Trying(r)
<1> DEFINE c == Scheduling(s, p, t)
<1>1. Mid(c) /\ Usable(c) /\ c.ctx = s.ctx /\ c.srv.tmr >= 0 /\ (Trying(s) => Trying(c))
  BY ZenonT(60), SchedulingMid
<1>2. Schedule(s, p, t, w) = FlushStart(c, w)
  BY DEF Schedule, Scheduling
<1> HIDE DEF c
<1> QED
  BY SMTT(60), <1>1, <1>2, FlushStartMid

-----------------------------------------------------------------------------
(* A callback may schedule a packet, which arms the timer, or do nothing. *)
LEMMA CallbackMid ==
  ASSUME NEW s, Mid(s), NEW nu \in Pkts \cup {0}, NEW w \in WriteResults
  PROVE  LET r == Callback(s, nu, w)
         IN  /\ Mid(r) /\ (r.ctx.up <=> s.ctx.up)
             /\ (Usable(s) /\ Usable(r)) \/ r = s
             /\ r = s \/ r.srv.tmr >= 0
             /\ nu = 0 => r = s
             /\ Trying(s) => Trying(r)
<1>1. CASE nu # 0 /\ s.op[nu].ph = "idle" /\ Usable(s)
  <2>1. OpTimeout \in 1..OpTimeout /\ nu \in Pkts
    BY <1>1, ServerAssumption
  <2>2. Callback(s, nu, w) = Schedule(s, nu, OpTimeout, w)
    BY <1>1 DEF Callback, Usable
  <2> QED
    BY <1>1, <2>1, <2>2, ScheduleMid
<1>2. CASE ~(nu # 0 /\ s.op[nu].ph = "idle" /\ Usable(s))
  <2>1. Callback(s, nu, w) = s
    BY ZenonT(60), <1>2 DEF Callback, Usable
  <2> QED
    BY <2>1
<1> QED
  BY ZenonT(60), <1>1, <1>2

(* What purge() leaves of the queue: rt go to the retry queue, the others  *)
(* to their callbacks.                                                     *)
Kept(s, P, rt) ==
    [s EXCEPT !.op = [p \in Pkts |-> IF p \in P \cap rt THEN [@[p] EXCEPT !.ph = "retry"] ELSE @[p]]]
Purged(s, P, rt) == IF P \ rt = {} THEN Kept(s, P, rt) ELSE Leave(Kept(s, P, rt), P \ rt, "done")

(* That leaves the rest of the server alone. *)
LEMMA PurgedMid ==
  ASSUME NEW s, Basic(s), NEW P \in SUBSET Requests(s), NEW rt,
         s.srv.tmr = NotArmed /\ s.srv.creq = "none" =>
             \A p \in Requests(s) \ P : s.op[p].rem >= 1
  PROVE  LET r == Purged(s, P, rt)
         IN  Mid(r) /\ r.srv = s.srv /\ r.ctx = s.ctx /\ Requests(r) = Requests(s) \ P
<1> DEFINE kept == [s EXCEPT !.op = [p \in Pkts |-> IF p \in P \cap rt
                                                    THEN [s.op[p] EXCEPT !.ph = "retry"] ELSE s.op[p]]]
           dead == P \ rt
           left == Leave(kept, dead, "done")
<1>1. s \in State /\ s.op \in Ops /\ s.srv.tmr \in Int
  BY DEF Basic, State, Srv
<1>2. /\ kept \in State /\ kept.srv = s.srv /\ kept.ctx = s.ctx
      /\ Requests(kept) = Requests(s) \ (P \cap rt)
      /\ \A p \in Pkts : kept.op[p].rem = s.op[p].rem
  <2> DEFINE o == [p \in Pkts |-> IF p \in P \cap rt THEN [s.op[p] EXCEPT !.ph = "retry"] ELSE s.op[p]]
  <2>1. o \in Ops
    BY <1>1 DEF Ops
  <2>2. \A p \in Pkts : /\ o[p].rem = s.op[p].rem
                        /\ o[p].ph = "reqs" <=> p \notin P \cap rt /\ s.op[p].ph = "reqs"
    BY <1>1 DEF Ops
  <2> HIDE DEF o
  <2>3. LET k == [s EXCEPT !.op = o] IN k \in State /\ k.srv = s.srv /\ k.ctx = s.ctx /\ k.op = o
    BY <1>1, <2>1 DEF State
  <2>4. kept = [s EXCEPT !.op = o]
    BY DEF o
  <2> QED
    BY <2>2, <2>3, <2>4 DEF Requests
<1>3. Purged(s, P, rt) = IF dead = {} THEN kept ELSE left
  BY ZenonT(60) DEF Purged, Kept
<1> HIDE DEF kept
<1>4. /\ left \in State /\ left.srv = s.srv /\ left.ctx = s.ctx
      /\ Requests(left) = Requests(s) \ P
      /\ \A p \in Pkts \ P : left.op[p].rem = s.op[p].rem
      /\ \A p \in Pkts : left.op[p].rem = 0 \/ left.op[p].rem = s.op[p].rem
  <2>1. /\ left \in State /\ left.srv = kept.srv /\ left.ctx = kept.ctx
        /\ left.op = [p \in Pkts |-> IF p \in dead THEN [ph |-> "done", rem |-> 0] ELSE kept.op[p]]
        /\ Requests(left) = Requests(kept) \ dead
    BY ZenonT(60), <1>2, LeaveState
  <2> HIDE DEF left
  <2>2. \A p \in Pkts : left.op[p].rem = IF p \in dead THEN 0 ELSE s.op[p].rem
    BY <1>2, <2>1
  <2>3. (Requests(s) \ (P \cap rt)) \ dead = Requests(s) \ P
    OBVIOUS
  <2> QED
    BY ZenonT(60), <1>2, <2>1, <2>2, <2>3
<1>5. OpTimeout \in Nat
  BY ServerAssumption
<1> HIDE DEF left
<1>6. dead # {} => Mid(left)
  <2>1. \A p \in Pkts : left.op[p].rem <= OpTimeout
    BY <1>4, <1>5 DEF Basic, Timed
  <2> QED
    BY <1>4, <2>1, FewerMid DEF Requests
<1>7. dead = {} => Mid(kept) /\ Requests(kept) = Requests(s) \ P
  <2>1. dead = {} => P \cap rt = P
    BY ZenonT(60)
  <2>2. \A p \in Pkts : kept.op[p].rem <= OpTimeout
    BY ZenonT(60), <1>2 DEF Basic, Timed
  <2> QED
    BY <1>2, <2>1, <2>2, FewerMid DEF Requests
<1> QED
  BY ZenonT(60), <1>2, <1>3, <1>4, <1>6, <1>7

(* purge() removes the packets; if it leaves the timer unarmed, nothing    *)
(* has joined them.                                                        *)
LEMMA PurgeMid ==
  ASSUME NEW s, Basic(s), NEW P \in SUBSET Requests(s), NEW rt, NEW nu \in Pkts \cup {0},
         NEW w \in WriteResults,
         s.srv.tmr = NotArmed /\ s.srv.creq = "none" =>
             \A p \in Requests(s) \ P : s.op[p].rem >= 1
  PROVE  LET r == Purge(s, P, rt, nu, w)
         IN  /\ Mid(r) /\ (r.ctx.up <=> s.ctx.up)
             /\ Usable(s) <=> Usable(r)
             /\ ~Usable(s) => r.srv = s.srv
             /\ r.srv.tmr < 0 \/ nu = 0 => Requests(r) = Requests(s) \ P /\ r.srv = s.srv
             /\ Trying(s) => Trying(r)
<1> DEFINE left == Purged(s, P, rt)
<1>1. Mid(left) /\ left.srv = s.srv /\ left.ctx = s.ctx /\ Requests(left) = Requests(s) \ P
  BY ZenonT(60), PurgedMid
<1>2. Purge(s, P, rt, nu, w) = IF P \ rt = {} THEN left ELSE Callback(left, nu, w)
  BY ZenonT(60) DEF Purge, Purged, Kept
<1> HIDE DEF left
<1>3. CASE P \ rt = {}
  BY ZenonT(60), <1>1, <1>2, <1>3 DEF Usable, Trying
<1>4. CASE P \ rt # {}
  <2> DEFINE r == Callback(left, nu, w)
  <2>1. /\ Mid(r) /\ (r.ctx.up <=> left.ctx.up) /\ ((Usable(left) /\ Usable(r)) \/ r = left)
        /\ (r = left \/ r.srv.tmr >= 0) /\ (nu = 0 => r = left) /\ (Trying(left) => Trying(r))
    BY ZenonT(60), <1>1, CallbackMid
  <2>2. Purge(s, P, rt, nu, w) = r
    BY ZenonT(60), <1>2, <1>4
  <2> HIDE DEF r
  <2>3. r.srv.tmr \in Int
    BY <2>1 DEF Mid, Basic, State, Srv
  <2> QED
    BY SMTT(60), <1>1, <2>1, <2>2, <2>3 DEF Usable, Trying
<1> QED
  BY ZenonT(60), <1>3, <1>4

-----------------------------------------------------------------------------
(* With the timer armed, or without requests, the state between handlers   *)
(* holds.                                                                  *)
LEMMA ArmedSettled ==
  ASSUME NEW s, Mid(s), Trying(s), s.srv.tmr >= 0 \/ ~HasPending(s)
  PROVE  Settled(s)
<1>1. s.srv.tmr \in Int
  BY DEF Mid, Basic, State, Srv
<1> QED
  BY <1>1 DEF Settled, Attempt, NotArmed

(* Between handlers the requests of a server without timer are fresh by    *)
(* themselves, as there are none or there is an attempt.                   *)
LEMMA BasicSettled ==
  ASSUME NEW s, Basic(s), Attempt(s)
  PROVE  Settled(s)
BY ZenonT(60) DEF Settled, Attempt, Mid, Fresh, HasPending

(* connect() ends a handler well: the attempt covers the requests. *)
LEMMA ConnectSettled ==
  ASSUME NEW s \in State, Timed(s), Fresh(s), ~s.srv.fault, s.srv.creq = "none", s.ctx = NoCtx,
         Usable(s)
  PROVE  Settled(Connect(s))
<1> DEFINE r == Connect(s)
<1>1. Mid(r)
  BY ZenonT(60), ConnectMid DEF Usable
<1>2. r.op = s.op /\ r.srv.creq = "pool" /\ r.srv.ctm = OpTimeout /\ r.srv.tmr = s.srv.tmr
  BY ConnectState
<1> HIDE DEF r
<1>3. OpTimeout \in Nat
  BY ServerAssumption
<1>4. Requests(r) = Requests(s)
  BY <1>2 DEF Requests
<1>5. \A p \in Requests(s) : s.op[p].rem \in Int
  BY DEF State, Ops, Requests
<1>6. r.srv.tmr = NotArmed => \A p \in Requests(r) : r.op[p].rem - OpTimeout >= 1 - OpTimeout
  BY SMTT(60), <1>2, <1>3, <1>4, <1>5 DEF Fresh
<1> QED
  BY ZenonT(60), <1>1, <1>2, <1>6 DEF Settled, Attempt, Trying, r

(* ~Server() leaves nothing behind that would call the server. *)
LEMMA DeleteSettled ==
  ASSUME NEW s \in State, Timed(s), ~s.srv.fault, s.srv.creq = "none", s.srv.tmr = NoTimer, s.ctx = NoCtx
  PROVE  Settled(Delete(s))
<1> DEFINE a == [s EXCEPT !.srv.st = "freed", !.unsent = {}]
           r == Delete(s)
<1>1. /\ a \in State /\ a.op = s.op /\ a.ctx = s.ctx
      /\ a.srv.st = "freed" /\ a.srv.creq = "none" /\ a.srv.tmr = NoTimer /\ ~a.srv.fault
  BY ZenonT(60) DEF State, Srv
<1>2. r = Leave(a, Requests(s), "done")
  BY DEF Delete
<1>3. Requests(a) = Requests(s)
  BY <1>1 DEF Requests
<1> HIDE DEF a, r
<1>4. /\ r \in State /\ r.srv = a.srv /\ r.ctx = NoCtx /\ Requests(r) = {}
      /\ r.op = [p \in Pkts |-> IF p \in Requests(s) THEN [ph |-> "done", rem |-> 0] ELSE a.op[p]]
  <2> DEFINE q == Leave(a, Requests(s), "done")
  <2>1. /\ q \in State /\ q.srv = a.srv /\ q.ctx = a.ctx /\ Requests(q) = Requests(a) \ Requests(s)
        /\ q.op = [p \in Pkts |-> IF p \in Requests(s) THEN [ph |-> "done", rem |-> 0] ELSE a.op[p]]
    BY ZenonT(60), <1>1, LeaveState
  <2> HIDE DEF q
  <2> QED
    BY <1>1, <1>2, <1>3, <2>1 DEF q
<1>5. \A p \in Pkts : r.op[p].rem <= OpTimeout
  BY <1>1, <1>4, ServerAssumption DEF Timed
<1>6. Ctl(r)
  BY <1>1, <1>4 DEF Ctl, NoCtx
<1>7. Timed(r) /\ Fresh(r)
  BY ZenonT(60), <1>1, <1>4, <1>5 DEF Timed, Fresh, HasPending, NoTimer, NotArmed
<1>8. Mid(r)
  BY ZenonT(60), <1>4, <1>6, <1>7 DEF Mid, Basic
<1>9. Trying(r) /\ ~HasPending(r)
  BY ZenonT(60), <1>1, <1>4 DEF Trying, Usable, HasPending
<1> QED
  BY <1>8, <1>9, ArmedSettled DEF r

(* finalize_errored_ctx() without pending operations either deletes the    *)
(* server or connects it again.                                            *)
LEMMA FinalizedSettled ==
  ASSUME NEW s, Mid(s), s.ctx.up, ~HasIo(s)
  PROVE  Settled(Finalize(s))
<1> DEFINE a == [s EXCEPT !.ctx = NoCtx, !.net = NoNet, !.unsent = {}]
<1>1. s \in State /\ s.srv.creq = "none" /\ ~s.srv.fault /\ s.srv.st # "freed"
  BY ZenonT(60) DEF Mid, Basic, Ctl
<1>2. NoCtx \in Ctx /\ NoNet \in Net
  BY DEF NoCtx, NoNet, Ctx, Net
<1>3. a \in State /\ a.srv = s.srv /\ a.op = s.op /\ a.ctx = NoCtx
  BY ZenonT(60), <1>1, <1>2 DEF State
<1>4. Finalize(s) = IF s.srv.st = "closed" THEN Delete(a) ELSE Connect(a)
  BY DEF Finalize
<1> HIDE DEF a
<1>5. Timed(a) /\ Fresh(a)
  BY <1>3 DEF Mid, Basic, Timed, Fresh, Requests, HasPending
<1>6. CASE s.srv.st = "closed"
  <2>1. a.srv.tmr = NoTimer
    BY <1>3, <1>6 DEF Mid, Basic, Ctl
  <2> QED
    BY <1>1, <1>3, <1>4, <1>5, <1>6, <2>1, DeleteSettled
<1>7. CASE s.srv.st # "closed"
  BY <1>1, <1>3, <1>4, <1>5, <1>7, ConnectSettled DEF Usable
<1> QED
  BY ZenonT(60), <1>6, <1>7

(* finalize_errored_ctx() whatever is pending. *)
LEMMA FinalizeSettled ==
  ASSUME NEW s, Settled(s), s.ctx.up
  PROVE  Settled(Finalize(s))
<1>1. HasIo(s) => Finalize(s) = s
  BY DEF Finalize
<1> QED
  BY <1>1, FinalizedSettled DEF Settled

(* The state start_errored_ctx() gives the server before anything else *)
Errored(s, next) ==
    [s EXCEPT !.srv.st = next, !.srv.creq = "none", !.srv.ctm = 0,
              !.srv.tmr = IF next = "closed" THEN NoTimer ELSE @]

(* It cancels the attempt and, for a removed server, the timer. *)
LEMMA ErroredState ==
  ASSUME NEW s \in State, NEW next \in {"errdrain", "closed"}
  PROVE  LET a == Errored(s, next)
         IN  /\ a \in State /\ a.ctx = s.ctx /\ a.op = s.op
             /\ a.srv.st = next /\ a.srv.creq = "none" /\ a.srv.ctm = 0
             /\ a.srv.flush = s.srv.flush /\ a.srv.fault = s.srv.fault
             /\ a.srv.tmr = IF next = "closed" THEN NoTimer ELSE s.srv.tmr
<1> DEFINE a == [s EXCEPT !.srv.st = next, !.srv.creq = "none", !.srv.ctm = 0,
                          !.srv.tmr = IF next = "closed" THEN NoTimer ELSE @]
<1> DEFINE n == IF next = "closed" THEN NoTimer ELSE s.srv.tmr
           c == [s.srv EXCEPT !.st = next, !.creq = "none", !.ctm = 0]
           v == [c EXCEPT !.tmr = n]
<1>3. /\ n \in Int
      /\ c \in Srv /\ c.st = next /\ c.creq = "none" /\ c.ctm = 0 /\ c.flush = s.srv.flush
      /\ c.fault = s.srv.fault
  <2>1. s.srv \in Srv
    BY DEF State
  <2>2. n \in Int
    BY <2>1 DEF Srv, NoTimer
  <2> HIDE DEF n
  <2> QED
    BY ZenonT(60), <2>1, <2>2 DEF Srv
<1>4. /\ v \in Srv /\ v.st = next /\ v.creq = "none" /\ v.ctm = 0 /\ v.flush = s.srv.flush
      /\ v.fault = s.srv.fault /\ v.tmr = IF next = "closed" THEN NoTimer ELSE s.srv.tmr
  <2> HIDE DEF n, c
  <2>1. /\ v \in Srv /\ v.st = next /\ v.creq = "none" /\ v.ctm = 0 /\ v.flush = s.srv.flush
        /\ v.fault = s.srv.fault /\ v.tmr = n
    BY <1>3 DEF Srv
  <2> QED
    BY <2>1 DEF n
<1>5. a \in State /\ a.srv = v /\ a.ctx = s.ctx /\ a.op = s.op
  <2> DEFINE b == [s EXCEPT !.srv.st = next, !.srv.creq = "none", !.srv.ctm = 0]
  <2>2. b \in State /\ b = [s EXCEPT !.srv = c] /\ b.srv = c
    BY ZenonT(60) DEF State, Srv
  <2>3. a = [b EXCEPT !.srv.tmr = n]
    BY <2>2 DEF State, Srv
  <2> HIDE DEF a, v, n, b
  <2>5. [b EXCEPT !.srv.tmr = n] = [b EXCEPT !.srv = [b.srv EXCEPT !.tmr = n]]
    BY <2>2 DEF State, Srv
  <2>1. a = [s EXCEPT !.srv = v]
    BY ZenonT(60), <2>2, <2>3, <2>5 DEF State, Srv, v
  <2> HIDE DEF a, v
  <2> QED
    BY <1>4, <2>1 DEF State
<1> HIDE DEF a, v, n
<1> QED
  BY <1>4, <1>5 DEF Errored, a

(* start_errored_ctx(), from a handler that leaves the timer armed while   *)
(* there are requests.                                                     *)
LEMMA StartErroredSettled ==
  ASSUME NEW s, Mid(s), Usable(s), HasPending(s) => s.srv.tmr >= 0,
         NEW next \in {"errdrain", "closed"}, next = "closed" => ~HasPending(s),
         NEW w \in WriteResults
  PROVE  Settled(StartErrored(s, next, w))
<1> DEFINE a == Errored(s, next)
           d == [CtxSchedule(a, w) EXCEPT !.net.shut = TRUE]
<1>1. /\ s \in State /\ Ctl(s) /\ Timed(s) /\ Fresh(s)
  BY DEF Mid, Basic
<1>2. StartErrored(s, next, w) =
         IF s.ctx.up
         THEN IF ~HasIo(s) THEN Finalize(a)
              ELSE IF next = "errdrain" THEN [d EXCEPT !.srv.flush = "errdrain"] ELSE d
         ELSE IF next = "closed" THEN Delete(a)
         ELSE IF HasPending(s) THEN Connect(ArmIfNot(a, OpTimeout))
         ELSE [a EXCEPT !.srv.flush = "connect"]
  BY DEF StartErrored, Errored
<1> DEFINE v == a.srv
<1>4. /\ v.st = next /\ v.creq = "none" /\ v.ctm = 0 /\ v.flush = s.srv.flush
      /\ v.fault = s.srv.fault /\ v.tmr = IF next = "closed" THEN NoTimer ELSE s.srv.tmr
  BY ZenonT(60), <1>1, ErroredState
<1>5. a \in State /\ a.srv = v /\ a.ctx = s.ctx /\ a.op = s.op
  BY ZenonT(60), <1>1, ErroredState
<1> HIDE DEF a, v
<1>6. Requests(a) = Requests(s) /\ (HasPending(a) <=> HasPending(s)) /\ (HasIo(a) <=> HasIo(s))
  BY <1>5 DEF Requests, HasPending, HasIo
<1>7. Timed(a)
  BY <1>1, <1>4, <1>5, <1>6, ServerAssumption DEF Timed, NoTimer, NotArmed, Usable, HasPending
<1>8. Fresh(a)
  BY SMTT(60), <1>1, <1>4, <1>5, <1>6 DEF Fresh, NotArmed, HasPending
<1>9. CASE s.ctx.up
  <2>1. Ctl(a)
    BY ZenonT(60), <1>1, <1>4, <1>5, <1>9 DEF Ctl, Usable
  <2>2. Mid(a)
    BY ZenonT(60), <1>5, <1>7, <1>8, <2>1 DEF Mid, Basic
  <2>3. CASE ~HasIo(s)
    BY ZenonT(60), <1>2, <1>5, <1>6, <1>9, <2>2, <2>3, FinalizedSettled
  <2>4. CASE HasIo(s)
    <3> DEFINE g == CtxSchedule(a, w)
    <3>1. g \in State /\ g.srv = v /\ g.op = s.op /\ g.ctx.up
      BY ZenonT(60), <1>5, <1>9, CtxScheduleSame DEF Same
    <3> HIDE DEF g
    <3>2. d \in State /\ d.srv = v /\ d.op = s.op /\ d.ctx.up
      BY ZenonT(60), <3>1 DEF State, Net, g
    <3> HIDE DEF d
    <3>3. Mid(d)
      BY <1>5, <1>9, <2>2, <3>2, SameMid DEF Same
    <3> DEFINE e == [d EXCEPT !.srv.flush = "errdrain"]
    <3>4. CASE next = "errdrain"
      <4>1. /\ e \in State /\ e.op = s.op /\ e.ctx = d.ctx
            /\ e.srv.flush = "errdrain" /\ e.srv.st = "errdrain" /\ e.srv.creq = "none"
            /\ e.srv.ctm = 0 /\ e.srv.tmr = s.srv.tmr /\ e.srv.fault = s.srv.fault
        BY <1>4, <3>2, <3>4 DEF State, Srv
      <4> HIDE DEF e
      <4>2. Ctl(e)
        BY <1>1, <3>2, <4>1 DEF Ctl
      <4>3. Requests(e) = Requests(s) /\ (HasPending(e) <=> HasPending(s))
        BY ZenonT(60), <4>1 DEF Requests, HasPending
      <4>4. Timed(e) /\ Fresh(e)
        BY SMTT(60), <1>1, <4>1, <4>3, ServerAssumption DEF Timed, Fresh, NoTimer, NotArmed, Usable, HasPending
      <4>5. Mid(e) /\ Trying(e)
        BY ZenonT(60), <4>1, <4>2, <4>4 DEF Mid, Basic, Trying
      <4>6. Settled(e)
        BY ZenonT(60), <4>1, <4>3, <4>5, ArmedSettled
      <4> QED
        BY <1>2, <1>9, <2>4, <3>4, <4>6 DEF e
    <3>5. CASE next = "closed"
      <4>1. Trying(d) /\ ~HasPending(d)
        BY ZenonT(60), <1>4, <1>6, <3>2, <3>5 DEF Trying, Usable, HasPending, Requests
      <4> QED
        BY ZenonT(60), <1>2, <1>9, <2>4, <3>3, <3>5, <4>1, ArmedSettled
    <3> QED
      BY ZenonT(60), <3>4, <3>5
  <2> QED
    BY ZenonT(60), <2>3, <2>4
<1>10. CASE ~s.ctx.up
  <2>1. a.ctx = NoCtx /\ ~a.srv.fault /\ a.srv.creq = "none"
    BY ZenonT(60), <1>1, <1>4, <1>5, <1>10 DEF Ctl
  <2>2. CASE next = "closed"
    BY ZenonT(60), <1>2, <1>4, <1>5, <1>7, <1>10, <2>1, <2>2, DeleteSettled
  <2>3. CASE next = "errdrain" /\ HasPending(s)
    <3>1. ArmIfNot(a, OpTimeout) = a
      BY <1>4, <1>5, <2>3 DEF ArmIfNot, NotArmed
    <3> QED
      BY ZenonT(60), <1>2, <1>4, <1>5, <1>7, <1>8, <1>10, <2>1, <2>3, <3>1, ConnectSettled DEF Usable
  <2>4. CASE next = "errdrain" /\ ~HasPending(s)
    <3> DEFINE e == [a EXCEPT !.srv.flush = "connect"]
    <3>1. /\ e \in State /\ e.op = s.op /\ e.ctx = NoCtx
          /\ e.srv.flush = "connect" /\ e.srv.st = "errdrain" /\ e.srv.creq = "none"
          /\ e.srv.ctm = 0 /\ e.srv.tmr = s.srv.tmr /\ ~e.srv.fault
      BY ZenonT(60), <1>4, <1>5, <2>1, <2>4 DEF State, Srv
    <3>2. Settled(e)
      <4> HIDE DEF e
      <4>1. Ctl(e)
        BY SMTT(60), <3>1 DEF Ctl, NoCtx
      <4>2. Requests(e) = Requests(s) /\ ~HasPending(e)
        BY ZenonT(60), <2>4, <3>1 DEF Requests, HasPending
      <4>3. Timed(e) /\ Fresh(e)
        BY ZenonT(60), <1>1, <3>1, <4>2, ServerAssumption DEF Timed, Fresh, NoTimer, NotArmed, Usable, HasPending
      <4> QED
        BY ZenonT(60), <3>1, <4>1, <4>2, <4>3, ArmedSettled DEF Mid, Basic, Trying
    <3> QED
      BY ZenonT(60), <1>2, <1>10, <2>4, <3>2
  <2> QED
    BY ZenonT(60), <2>2, <2>3, <2>4
<1> QED
  BY ZenonT(60), <1>9, <1>10

(* socket_failed() and on_error(), with check_closed(). *)
LEMMA SocketFailedSettled ==
  ASSUME NEW s, Basic(s), s.srv.st # "clean" => s.ctx.up /\ Attempt(s),
         NEW rt, NEW nu \in Pkts \cup {0}, NEW w \in WriteResults
  PROVE  Settled(SocketFailed(s, rt, nu, w))
<1>1. CASE s.srv.st # "clean"
  BY ZenonT(60), <1>1, BasicSettled, FinalizeSettled DEF SocketFailed
<1>2. CASE s.srv.st = "clean"
  <2> DEFINE q == Purge(s, Requests(s), rt, nu, w)
  <2>1. Usable(s)
    BY ZenonT(60), <1>2 DEF Usable
  <2>2. Mid(q) /\ Usable(q) /\ (q.srv.tmr < 0 => Requests(q) = {})
    BY SMTT(60), <2>1, PurgeMid
  <2> HIDE DEF q
  <2>3. q.srv.tmr \in Int
    BY ZenonT(60), <2>2 DEF Mid, Basic, State, Srv
  <2>4. HasPending(q) => q.srv.tmr >= 0
    BY SMTT(60), <2>2, <2>3 DEF HasPending
  <2>5. Settled(StartErrored(q, "errdrain", w))
    BY ZenonT(60), <2>2, <2>4, StartErroredSettled
  <2> QED
    BY ZenonT(60), <1>2, <2>5 DEF SocketFailed, q
<1> QED
  BY ZenonT(60), <1>1, <1>2

(* A step of the context alone preserves the state between handlers. *)
LEMMA SameSettled ==
  ASSUME NEW s, Settled(s), s.ctx.up, NEW r, Same(r, s)
  PROVE  Settled(r) /\ r.ctx.up
<1>1. Mid(r)
  BY ZenonT(60), SameMid DEF Settled
<1>2. Attempt(r)
  BY DEF Settled, Same, Attempt, Trying, Usable, HasPending, Requests
<1> QED
  BY <1>1, <1>2 DEF Settled, Same

(* and each keeps its time if it stays. *)
LEMMA LeaveRem ==
  ASSUME NEW s \in State, NEW P, NEW ph \in {"retry", "away", "done"}
  PROVE  LET r == Leave(s, P, ph)
         IN  /\ r \in State /\ r.srv = s.srv /\ r.ctx = s.ctx
             /\ Requests(r) = Requests(s) \ P
             /\ \A p \in Pkts : r.op[p].rem = IF p \in P THEN 0 ELSE s.op[p].rem
<1> DEFINE o == [p \in Pkts |-> IF p \in P THEN [ph |-> ph, rem |-> 0] ELSE s.op[p]]
<1>1. o \in Ops
  BY DEF State, Ops
<1>2. Leave(s, P, ph) = [s EXCEPT !.op = o]
  BY DEF Leave
<1>3. \A p \in Pkts : /\ o[p].ph = "reqs" <=> p \notin P /\ s.op[p].ph = "reqs"
                      /\ o[p].rem = IF p \in P THEN 0 ELSE s.op[p].rem
  BY ZenonT(60) DEF State, Ops
<1> HIDE DEF o
<1> QED
  BY SMTT(60), <1>1, <1>2, <1>3 DEF State, Requests

(* Requests that leave preserve the invariant of the handlers. *)
LEMMA LeaveMid ==
  ASSUME NEW s, Mid(s), NEW D, NEW f \in {"retry", "away", "done"}
  PROVE  Mid(Leave(s, D, f))
<1> DEFINE r == Leave(s, D, f)
<1>1. s \in State
  BY ZenonT(60) DEF Mid, Basic
<1>2. /\ r \in State /\ r.srv = s.srv /\ r.ctx = s.ctx
      /\ Requests(r) = Requests(s) \ D
      /\ \A p \in Pkts : r.op[p].rem = IF p \in D THEN 0 ELSE s.op[p].rem
  BY SMTT(60), <1>1, LeaveRem
<1> HIDE DEF r
<1>3. \A p \in Requests(r) : r.op[p].rem = s.op[p].rem
  BY ZenonT(60), <1>2 DEF Requests
<1>4. \A p \in Pkts : r.op[p].rem <= OpTimeout
  BY SMTT(60), <1>2, ServerAssumption DEF Mid, Basic, Timed
<1>5. s.srv.tmr = NotArmed /\ s.srv.creq = "none" => \A p \in Requests(r) : s.op[p].rem >= 1
  BY ZenonT(60), <1>2 DEF Mid, Fresh
<1> QED
  BY ZenonT(60), <1>2, <1>3, <1>4, <1>5, FewerMid DEF Mid, r

(* Fewer requests preserve the state between handlers, *)
LEMMA FewerSettled ==
  ASSUME NEW s, Settled(s), NEW r, Mid(r), r.srv = s.srv, Requests(r) \subseteq Requests(s),
         \A p \in Requests(r) : r.op[p].rem = s.op[p].rem
  PROVE  Settled(r)
BY ZenonT(60) DEF Settled, Attempt, Trying, Usable, HasPending

(* for example those that were answered or failed. *)
LEMMA LeaveSettled ==
  ASSUME NEW s, Settled(s), NEW D, NEW f \in {"retry", "away", "done"}
  PROVE  Settled(Leave(s, D, f)) /\ Leave(s, D, f).ctx = s.ctx
<1> DEFINE r == Leave(s, D, f)
<1>1. s \in State
  BY DEF Settled, Mid, Basic
<1>2. /\ r \in State /\ r.srv = s.srv /\ r.ctx = s.ctx
      /\ Requests(r) = Requests(s) \ D
      /\ \A p \in Pkts : r.op[p].rem = IF p \in D THEN 0 ELSE s.op[p].rem
  BY <1>1, LeaveRem
<1>3. Mid(r)
  BY ZenonT(60), LeaveMid DEF Settled
<1> HIDE DEF r
<1>4. \A p \in Requests(r) : r.op[p].rem = s.op[p].rem
  BY <1>2 DEF Requests
<1> QED
  BY ZenonT(60), <1>2, <1>3, <1>4, FewerSettled DEF r

(* replace_config() for a server the new map lacks. *)
LEMMA RemoveSettled ==
  ASSUME NEW s, Mid(s), Usable(s), NEW mv, NEW w \in WriteResults
  PROVE  Settled(Remove(s, mv, w))
<1> DEFINE r == Leave(s, Requests(s) \cap mv, "away")
           q == Purge(r, Requests(r), {}, 0, w)
<1>1. s \in State
  BY DEF Mid, Basic
<1>2. r.srv = s.srv
  BY ZenonT(60), <1>1, LeaveState
<1>3. Mid(r)
  BY LeaveMid
<1> HIDE DEF r
<1>4. Usable(r)
  BY <1>2 DEF Usable
<1>5. Mid(q) /\ Usable(q) /\ Requests(q) = {}
  BY SMTT(60), <1>3, <1>4, PurgeMid DEF Mid
<1> HIDE DEF q
<1>6. ~HasPending(q)
  BY <1>5 DEF HasPending
<1>7. Settled(StartErrored(q, "closed", w))
  BY ZenonT(60), <1>5, <1>6, StartErroredSettled
<1> QED
  BY <1>7 DEF Remove, q, r

(* A callback of the program preserves the state between handlers. *)
LEMMA CallbackSettled ==
  ASSUME NEW s, Settled(s), NEW nu \in Pkts \cup {0}, NEW w \in WriteResults
  PROVE  Settled(Callback(s, nu, w)) /\ (Callback(s, nu, w).ctx.up <=> s.ctx.up)
<1> DEFINE r == Callback(s, nu, w)
<1>1. Mid(r) /\ (r.ctx.up <=> s.ctx.up) /\ (r = s \/ r.srv.tmr >= 0) /\ Trying(r)
  BY CallbackMid DEF Settled, Attempt
<1> HIDE DEF r
<1> QED
  BY ZenonT(60), <1>1, ArmedSettled DEF r

(* PKT_READ_ABORT is a step of the context. *)
LEMMA HaltedSettled ==
  ASSUME NEW s, Settled(s), s.ctx.up
  PROVE  Settled([s EXCEPT !.ctx.halted = TRUE])
<1>1. Same([s EXCEPT !.ctx.halted = TRUE], s)
  BY ZenonT(60) DEF Settled, Mid, Basic, Same, State, Ctx
<1> QED
  BY <1>1, SameSettled

(* A packet that is handed to the retry queue. *)
LEMMA RetriedSettled ==
  ASSUME NEW s, Settled(s), NEW p \in Pkts
  PROVE  Settled(Retried(s, p)) /\ Retried(s, p).ctx = s.ctx
<1> DEFINE o == [s.op EXCEPT ![p].ph = "retry"]
           r == Retried(s, p)
<1>1. s \in State
  BY DEF Settled, Mid, Basic
<1>2. r = [s EXCEPT !.op = o]
  BY <1>1 DEF Retried, State
<1>3. o \in Ops
  BY <1>1 DEF State, Ops
<1>4. \A x \in Pkts : /\ o[x].rem = s.op[x].rem
                      /\ o[x].ph = "reqs" => s.op[x].ph = "reqs"
  BY <1>1 DEF State, Ops
<1> HIDE DEF o, r
<1>5. r \in State /\ r.srv = s.srv /\ r.ctx = s.ctx /\ r.op = o
  BY <1>1, <1>2, <1>3 DEF State
<1>6. Requests(r) \subseteq Requests(s)
  BY <1>4, <1>5 DEF Requests
<1>7. /\ \A x \in Requests(r) : r.op[x].rem = s.op[x].rem
      /\ \A x \in Pkts : r.op[x].rem <= OpTimeout
  BY <1>4, <1>5 DEF Requests, Settled, Mid, Basic, Timed
<1>8. Mid(r)
  BY ZenonT(60), <1>5, <1>6, <1>7, FewerMid DEF Settled, Mid, Fresh
<1> QED
  BY <1>5, <1>6, <1>7, <1>8, FewerSettled DEF r

(* try_read(), for every response but one whose map lacks the node. *)
LEMMA TryReadSettled ==
  ASSUME NEW s, Settled(s), s.ctx.up, NEW r \in Resp, NEW nu \in Pkts \cup {0}, NEW mv,
         NEW w \in WriteResults
  PROVE  Settled(TryRead(s, r, nu, mv, w))
<1> DEFINE left == Leave(s, {r.p}, "done")
           b(e) == Callback(SendErr(left, e), nu, w)
<1>1. r.p \in Pkts /\ r.kind \in {"ok", "retry", "warmup", "invalid", "unmapped"}
  BY DEF Resp, Kinds
<1>2. Settled(left) /\ left.ctx.up
  BY LeaveSettled
<1>3. Settled(Retried(s, r.p)) /\ Retried(s, r.p).ctx.up
  BY <1>1, RetriedSettled
<1> HIDE DEF left
<1>4. Settled(Callback(left, nu, w))
  BY ZenonT(60), <1>2, CallbackSettled
<1>5. ASSUME NEW e \in BOOLEAN PROVE Settled(b(e)) /\ b(e).ctx.up
  <2>1. Same(SendErr(left, e), left)
    BY <1>2, SendErrSame DEF Settled, Mid, Basic
  <2>2. Settled(SendErr(left, e)) /\ SendErr(left, e).ctx.up
    BY <1>2, <2>1, SameSettled
  <2> QED
    BY ZenonT(60), <2>2, CallbackSettled
<1>6. Settled([b(TRUE) EXCEPT !.ctx.halted = TRUE]) /\ Settled([b(FALSE) EXCEPT !.ctx.halted = TRUE])
  <2> HIDE DEF b
  <2> QED
    BY ZenonT(60), <1>5, HaltedSettled
<1>7. Settled([Retried(s, r.p) EXCEPT !.ctx.halted = TRUE])
  BY <1>3, HaltedSettled
<1>8. CASE s.op[r.p].ph # "reqs"
  BY <1>8 DEF TryRead
<1>9. CASE s.op[r.p].ph = "reqs"
  <2>1. CASE r.kind = "ok"
    BY ZenonT(60), <1>4, <1>9, <2>1 DEF TryRead, left
  <2>2. CASE r.kind = "retry"
    BY ZenonT(60), <1>3, <1>9, <2>2 DEF TryRead
  <2>3. CASE r.kind = "warmup"
    BY ZenonT(60), <1>7, <1>9, <2>3 DEF TryRead
  <2>4. CASE r.kind = "invalid"
    BY ZenonT(60), <1>6, <1>9, <2>4 DEF TryRead, left
  <2>5. CASE r.kind = "unmapped"
    BY ZenonT(60), <1>6, <1>9, <2>5 DEF TryRead, left
  <2> QED
    BY <1>1, <2>1, <2>2, <2>3, <2>4, <2>5
<1> QED
  BY <1>8, <1>9

(* What follows the read callback in E_handler() and Cr_handler(). *)
LEMMA AfterReadSettled ==
  ASSUME NEW s, Settled(s), NEW eof \in BOOLEAN, NEW w \in WriteResults
  PROVE  Settled(AfterRead(s, eof, w))
<1>1. CASE ~s.ctx.up
  BY <1>1 DEF AfterRead
<1>2. CASE s.ctx.up
  <2>1. Same(SendErr(s, TRUE), s) /\ Same(CtxSchedule(s, w), s)
    BY ZenonT(60), <1>2, SendErrSame, CtxScheduleSame DEF Settled, Mid, Basic
  <2>2. Settled(SendErr(s, TRUE)) /\ Settled(CtxSchedule(s, w))
    BY ZenonT(60), <1>2, <2>1, SameSettled
  <2> QED
    BY ZenonT(60), <1>2, <2>2 DEF AfterRead
<1> QED
  BY <1>1, <1>2

(* The read callback, which finalizes a server that is in error or closed. *)
LEMMA EnterReadSettled ==
  ASSUME NEW s, Settled(s), s.ctx.up, NEW eof \in BOOLEAN, NEW w \in WriteResults
  PROVE  Settled(EnterRead(s, eof, w))
<1> DEFINE r == [s EXCEPT !.ctx.rope = @ \o s.net.inb, !.net.inb = <<>>]
           e == [r EXCEPT !.ctx.rdwant = FALSE, !.ctx.entered = TRUE, !.ctx.halted = FALSE,
                          !.ctx.loop = IF eof THEN "eof" ELSE "data"]
<1>1. s \in State
  BY DEF Settled, Mid, Basic
<1>2. s.ctx.rope \o s.net.inb \in Seq(Resp) /\ <<>> \in Seq(Resp)
  BY <1>1 DEF State, Ctx, Net
<1>3. Same(r, s)
  BY ZenonT(60), <1>1, <1>2 DEF Same, State, Ctx, Net
<1>4. Settled(r) /\ r.ctx.up /\ r.srv = s.srv
  BY ZenonT(60), <1>3, SameSettled DEF Same
<1>5. EnterRead(s, eof, w) =
         IF r.ctx.rope = <<>> THEN AfterRead(r, eof, w)
         ELSE IF s.srv.st # "clean" THEN AfterRead(Finalize(r), eof, w) ELSE e
  BY DEF EnterRead
<1> HIDE DEF r
<1>6. Same(e, r)
  <2> DEFINE l == IF eof THEN "eof" ELSE "data"
  <2>1. l \in {"no", "data", "eof"}
    OBVIOUS
  <2> HIDE DEF l
  <2>2. Same([r EXCEPT !.ctx.rdwant = FALSE, !.ctx.entered = TRUE, !.ctx.halted = FALSE, !.ctx.loop = l], r)
    BY ZenonT(60), <1>4, <2>1 DEF Settled, Mid, Basic, Same, State, Ctx
  <2> QED
    BY <2>2 DEF l
<1>7. Settled(e)
  BY <1>4, <1>6, SameSettled
<1>8. Settled(AfterRead(r, eof, w))
  BY <1>4, AfterReadSettled
<1>9. Settled(AfterRead(Finalize(r), eof, w))
  BY <1>4, FinalizeSettled, AfterReadSettled
<1> QED
  BY <1>5, <1>7, <1>8, <1>9

(* invoke_entered_errcb(): when on_error() freed the context, there is no  *)
(* context left to be marked.                                              *)
LEMMA EnteredErrSettled ==
  ASSUME NEW s, Settled(s), s.ctx.up, NEW rt, NEW nu \in Pkts \cup {0}, NEW w \in WriteResults
  PROVE  Settled(EnteredErr(s, rt, nu, w))
<1> DEFINE a == [s EXCEPT !.ctx.err = TRUE, !.ctx.entered = TRUE]
           e == SocketFailed(a, rt, nu, w)
           f == [e EXCEPT !.ctx.entered = FALSE]
<1>1. Same(a, s)
  BY ZenonT(60) DEF Settled, Mid, Basic, Same, State, Ctx
<1>2. Settled(a) /\ a.ctx.up
  BY ZenonT(60), <1>1, SameSettled
<1> HIDE DEF a
<1>3. Settled(e)
  BY <1>2, SocketFailedSettled DEF Settled, Mid
<1> HIDE DEF e
<1>4. e \in State
  BY <1>3 DEF Settled, Mid, Basic
<1>5. CASE e.ctx.up
  <2>1. Same(f, e)
    BY ZenonT(60), <1>4, <1>5 DEF Same, State, Ctx
  <2> QED
    BY <1>3, <1>5, <2>1, SameSettled DEF EnteredErr, a, e
<1>6. CASE ~e.ctx.up
  <2>1. e.ctx = NoCtx
    BY <1>3, <1>6 DEF Settled, Mid, Basic, Ctl
  <2>2. f = e
    <3>1. e.ctx \in Ctx /\ e.ctx.entered = FALSE
      <4>1. NoCtx.entered = FALSE
        BY DEF NoCtx
      <4>2. e.ctx \in Ctx
        BY <1>4 DEF State
      <4> QED
        BY <2>1, <4>1, <4>2
    <3>2. [e.ctx EXCEPT !.entered = FALSE] = e.ctx
      BY ZenonT(60), <3>1 DEF Ctx
    <3>3. f = [e EXCEPT !.ctx = [e.ctx EXCEPT !.entered = FALSE]]
      BY <1>4 DEF State
    <3> QED
      BY <1>4, <3>2, <3>3 DEF State
  <2> QED
    BY <1>3, <2>2 DEF EnteredErr, a, e
<1> QED
  BY <1>5, <1>6

(* on_flush_done(), which finalizes a server that is in error or closed. *)
LEMMA WriteDoneSettled ==
  ASSUME NEW s, Settled(s), s.ctx.up, s.ctx.writes # <<>>
  PROVE  Settled(WriteDone(s))
<1> DEFINE r == [s EXCEPT !.ctx.writes = Tail(@)]
<1>1. s \in State
  BY DEF Settled, Mid, Basic
<1>2. Tail(s.ctx.writes) \in Seq(SUBSET Pkts)
  BY <1>1 DEF State, Ctx
<1>3. Same(r, s)
  BY ZenonT(60), <1>1, <1>2 DEF Same, State, Ctx
<1>4. Settled(r) /\ r.ctx.up
  BY ZenonT(60), <1>3, SameSettled
<1> HIDE DEF r
<1>5. Settled(Finalize(r))
  BY <1>4, FinalizeSettled
<1> QED
  BY <1>4, <1>5 DEF WriteDone, r

-----------------------------------------------------------------------------
(* A packet that comes from elsewhere, the retry queue or a removed        *)
(* server, does not arm the timer; the attempt that is pending, or that    *)
(* flush_start makes, covers it.                                           *)
LEMMA EnqueueSettled ==
  ASSUME NEW s, Settled(s), Usable(s), NEW p \in Pkts, NEW t \in 1..OpTimeout, NEW q \in State,
         q.srv = s.srv, q.ctx = s.ctx, q.op = [s.op EXCEPT ![p].rem = t], NEW w \in WriteResults
  PROVE  Settled(FlushStart(Enqueue(q, p), w))
<1> DEFINE b == Enqueue(q, p)
           r == FlushStart(b, w)
<1>1. Basic(s) /\ Attempt(s) /\ Trying(s) /\ Fresh(s) /\ s \in State /\ Ctl(s) /\ Timed(s)
  BY DEF Settled, Mid, Basic, Attempt
<1>2. /\ Mid(b) /\ b.srv = s.srv /\ Requests(b) = Requests(s) \cup {p} /\ b.op[p].rem = t
      /\ \A x \in Requests(s) \ {p} : b.op[x].rem = s.op[x].rem
  BY SMTT(60), <1>1, EnqueueMid DEF Fresh
<1> HIDE DEF b
<1>3. Usable(b) /\ Trying(b)
  BY <1>1, <1>2 DEF Usable, Trying
<1>4. /\ Mid(r) /\ r.op = b.op /\ Trying(r)
      /\ b.srv.tmr >= 0 => r.srv.tmr >= 0
      /\ r.srv.tmr < 0 => \/ b.srv.flush = "connect" /\ r.srv.creq = "pool" /\ r.srv.ctm = OpTimeout
                          \/ b.srv.flush = "noop" /\ r = b
  BY <1>2, <1>3, FlushStartMid
<1> HIDE DEF r
<1>5. OpTimeout \in Nat /\ NodeTimeout \in Nat /\ OpTimeout > 0 /\ NodeTimeout > 0 /\ Bound \in Int
  BY ServerAssumption DEF Bound
<1>6. r.srv.tmr \in Int /\ b.srv.tmr \in Int
  BY <1>2, <1>4 DEF Mid, Basic, State, Srv
<1>7. CASE r.srv.tmr >= 0
  BY <1>4, <1>7, ArmedSettled DEF r, b
<1>8. CASE r.srv.tmr < 0
  <2>1. b.srv.tmr = NotArmed
    BY SMTT(60), <1>2, <1>3, <1>4, <1>6, <1>8 DEF Mid, Basic, Timed, Usable
  <2>2. CASE b.srv.flush = "connect" /\ r.srv.creq = "pool" /\ r.srv.ctm = OpTimeout
    <3>1. b.srv.creq = "none"
      BY <1>2, <2>2 DEF Mid, Basic, Ctl
    <3>2. \A x \in Requests(b) : b.op[x].rem >= 1
      BY ZenonT(60), <1>2, <2>1, <3>1 DEF Mid, Fresh
    <3>3. Requests(r) = Requests(b) /\ \A x \in Requests(b) : b.op[x].rem \in Int
      BY <1>2, <1>4 DEF Requests, Mid, Basic, State, Ops
    <3>4. \A x \in Requests(r) : r.op[x].rem - OpTimeout >= 1 - OpTimeout
      BY SMTT(60), <1>4, <1>5, <3>2, <3>3
    <3> QED
      BY <1>4, <2>2, <3>4 DEF Settled, Attempt, r, b
  <2>3. CASE b.srv.flush = "noop" /\ r = b
    <3>1. s.srv.creq # "none" /\ s.srv.tmr = NotArmed
      BY SMTT(60), <1>2, <1>3, <2>1, <2>3 DEF Trying
    <3>2. /\ s.srv.ctm \in Nat /\ t \in Int /\ t >= 1
          /\ s.srv.creq = "pool" => s.srv.ctm <= OpTimeout
          /\ s.srv.creq # "pool" => s.srv.ctm <= NodeTimeout
      BY <1>1, <1>5, <3>1 DEF State, Srv, Timed
    <3>3. t - s.srv.ctm >= IF s.srv.creq = "pool" THEN 1 - OpTimeout ELSE Bound
      BY <1>5, <3>2 DEF Bound
    <3>4. \A x \in Requests(s) :
             s.op[x].rem - s.srv.ctm >= IF s.srv.creq = "pool" THEN 1 - OpTimeout ELSE Bound
      BY <1>1, <3>1 DEF Attempt, HasPending
    <3>5. \A x \in Requests(b) :
             b.op[x].rem - b.srv.ctm >= IF b.srv.creq = "pool" THEN 1 - OpTimeout ELSE Bound
      BY <1>2, <3>3, <3>4
    <3> QED
      BY ZenonT(60), <1>2, <1>3, <2>3, <3>1, <3>5 DEF Settled, Attempt, r, b
  <2> QED
    BY ZenonT(60), <1>4, <1>8, <2>2, <2>3
<1> QED
  BY <1>6, <1>7, <1>8

(* A step to a state that is settled preserves the invariant. *)
LEMMA Becomes ==
  ASSUME NEW x, Settled(x), Become(x)
  PROVE  Inv'
<1>1. x \in State
  BY DEF Settled, Mid, Basic
<1>2. x = [env |-> x.env, srv |-> x.srv, ctx |-> x.ctx, net |-> x.net, op |-> x.op,
           unsent |-> x.unsent, count |-> x.count]
  BY <1>1 DEF State
<1>3. Now' = x
  BY <1>2 DEF Become, Now
<1> QED
  BY <1>3 DEF Inv

(* The choices of the environment have their types. *)
LEMMA Nondeterminism ==
  /\ Writes \subseteq WriteResults
  /\ News \subseteq Pkts \cup {0}
  /\ Timeouts \subseteq 1..OpTimeout
<1>1. OpTimeout \in Nat /\ OpTimeout > 0
  BY ServerAssumption
<1> QED
  BY <1>1 DEF Writes, WriteResults, News, Timeouts

(* The fields of the state as a record are the variables. *)
LEMMA NowFields ==
  /\ Now.env = env /\ Now.srv = srv /\ Now.ctx = ctx /\ Now.net = net /\ Now.op = op
  /\ Now.unsent = unsent /\ Now.count = count
BY DEF Now

-----------------------------------------------------------------------------
(* AppSchedule preserves the invariant. *)
LEMMA AppScheduleInv ==
  ASSUME Inv, AppSchedule
  PROVE  Inv'
<1>1. PICK p \in Pkts, t \in Timeouts, w \in Writes :
         InUse /\ op[p].ph = "idle" /\ Become(Schedule(Now, p, t, w))
  BY DEF AppSchedule
<1>2. Mid(Now) /\ Trying(Now) /\ Usable(Now) /\ Now.op[p].ph = "idle"
  BY <1>1, NowFields DEF Inv, Settled, Attempt, InUse, Usable
<1>3. w \in WriteResults /\ t \in 1..OpTimeout
  BY Nondeterminism
<1> DEFINE r == Schedule(Now, p, t, w)
<1>4. Mid(r) /\ Trying(r) /\ r.srv.tmr >= 0
  BY <1>2, <1>3, ScheduleMid
<1> HIDE DEF r
<1>5. Settled(r)
  BY <1>4, ArmedSettled
<1> QED
  BY <1>1, <1>5, Becomes DEF r

(* RetryArrives preserves the invariant. *)
LEMMA RetryArrivesInv ==
  ASSUME Inv, RetryArrives
  PROVE  Inv'
<1>1. PICK p \in Pkts, w \in Writes :
         /\ InUse /\ op[p].rem > 0
         /\ Become(FlushStart(Enqueue([Now EXCEPT !.count.retries = @ + 1], p), w))
  BY DEF RetryArrives
<1> DEFINE q == [Now EXCEPT !.count.retries = @ + 1]
           t == op[p].rem
<1>2. Settled(Now) /\ Usable(Now) /\ Now \in State /\ Timed(Now)
  BY <1>1, NowFields DEF Inv, Settled, Mid, Basic, InUse, Usable
<1>3. w \in WriteResults
  BY Nondeterminism
<1>4. op \in Ops
  BY <1>2, NowFields DEF State
<1>5. t \in 1..OpTimeout /\ op = [op EXCEPT ![p].rem = t]
  <2>1. t \in Int /\ t <= OpTimeout /\ OpTimeout \in Nat
    BY <1>2, <1>4, NowFields, ServerAssumption DEF Ops, Timed
  <2>2. op = [op EXCEPT ![p].rem = op[p].rem]
    BY <1>4 DEF Ops
  <2> QED
    BY <1>1, <2>1, <2>2
<1>6. q \in State /\ q.srv = Now.srv /\ q.ctx = Now.ctx /\ q.op = Now.op
  <2> HIDE DEF t
  <2> QED
    BY <1>2 DEF State
<1> HIDE DEF q
<1>7. q.op = [Now.op EXCEPT ![p].rem = t]
  BY ZenonT(60), <1>5, <1>6, NowFields
<1> HIDE DEF t
<1>8. Settled(FlushStart(Enqueue(q, p), w))
  BY ZenonT(60), <1>2, <1>3, <1>5, <1>6, <1>7, EnqueueSettled
<1> QED
  BY <1>1, <1>8, Becomes DEF q

(* Relocated preserves the invariant. *)
LEMMA RelocatedInv ==
  ASSUME Inv, Relocated
  PROVE  Inv'
<1>1. PICK p \in Pkts, t \in 1..OpTimeout, w \in Writes :
         InUse /\ Become(FlushStart(Enqueue([Now EXCEPT !.op[p].rem = t], p), w))
  BY DEF Relocated
<1> DEFINE o == [Now.op EXCEPT ![p].rem = t]
           q == [Now EXCEPT !.op[p].rem = t]
<1>2. Settled(Now) /\ Usable(Now) /\ Now \in State
  BY <1>1, NowFields DEF Inv, Settled, Mid, Basic, InUse, Usable
<1>3. w \in WriteResults
  BY Nondeterminism
<1>4. Now.op \in Ops /\ t \in Int
  BY <1>2, ServerAssumption DEF State
<1>5. o \in Ops
  BY <1>4 DEF Ops
<1>6. q = [Now EXCEPT !.op = o]
  BY <1>2 DEF State
<1> HIDE DEF o
<1>7. q \in State /\ q.srv = Now.srv /\ q.ctx = Now.ctx /\ q.op = o
  BY <1>2, <1>5, <1>6 DEF State
<1> HIDE DEF q
<1>8. Settled(FlushStart(Enqueue(q, p), w))
  BY ZenonT(60), <1>2, <1>3, <1>7, EnqueueSettled DEF o
<1> QED
  BY <1>1, <1>8, Becomes DEF q

(* RetryExpires preserves the invariant. *)
LEMMA RetryExpiresInv ==
  ASSUME Inv, RetryExpires
  PROVE  Inv'
<1>1. PICK p \in Pkts : Become(Leave(Now, {p}, "done"))
  BY DEF RetryExpires
<1>2. Settled(Leave(Now, {p}, "done"))
  BY LeaveSettled DEF Inv
<1> QED
  BY <1>1, <1>2, Becomes

(* Connected preserves the invariant. *)
LEMMA ConnectedInv ==
  ASSUME Inv, Connected
  PROVE  Inv'
<1> DEFINE r == [Now EXCEPT !.srv.creq = "session", !.srv.ctm = NodeTimeout]
           s == Now
<1>1. Become(r) /\ s.srv.creq = "pool"
  BY NowFields DEF Connected
<1>2. s \in State /\ Ctl(s) /\ Timed(s) /\ Attempt(s)
  BY DEF Inv, Settled, Mid, Basic
<1> HIDE DEF s
<1>3. OpTimeout \in Nat /\ NodeTimeout \in Nat /\ NodeTimeout > 0
  BY ServerAssumption
<1>4. /\ r \in State /\ r.op = s.op /\ r.ctx = s.ctx
      /\ r.srv.creq = "session" /\ r.srv.ctm = NodeTimeout /\ r.srv.st = s.srv.st
      /\ r.srv.flush = s.srv.flush /\ r.srv.tmr = s.srv.tmr /\ r.srv.fault = s.srv.fault
  BY ZenonT(60), <1>2, <1>3 DEF State, Srv, s
<1> HIDE DEF r
<1>5. Ctl(r)
  BY <1>1, <1>2, <1>4 DEF Ctl
<1>6. Requests(r) = Requests(s) /\ (HasPending(r) <=> HasPending(s))
  BY <1>4 DEF Requests, HasPending
<1>7. Timed(r) /\ Fresh(r)
  BY <1>2, <1>3, <1>4, <1>6 DEF Timed, Fresh
<1>8. \A p \in Requests(s) : s.op[p].rem \in Int
  BY <1>2 DEF State, Ops, Requests
<1>9. s.srv.ctm \in Nat
  BY <1>2 DEF State, Srv
<1>10. Attempt(r)
  <2>1. Trying(r)
    BY <1>4 DEF Trying
  <2>2. SUFFICES ASSUME r.srv.tmr = NotArmed, HasPending(r), NEW p \in Requests(r)
                 PROVE  r.op[p].rem - r.srv.ctm >= Bound
    BY ZenonT(60), <1>4, <2>1 DEF Attempt
  <2>3. s.op[p].rem - s.srv.ctm >= 1 - OpTimeout
    BY ZenonT(60), <1>1, <1>2, <1>4, <1>6, <2>2 DEF Attempt
  <2>4. s.op[p].rem \in Int
    BY ZenonT(60), <1>6, <1>8, <2>2
  <2> QED
    BY <1>3, <1>4, <1>9, <2>3, <2>4 DEF Bound
<1>11. Settled(r)
  BY ZenonT(60), <1>4, <1>5, <1>7, <1>10 DEF Settled, Mid, Basic
<1> QED
  BY <1>1, <1>11, Becomes

(* Negotiated preserves the invariant. *)
LEMMA NegotiatedInv ==
  ASSUME Inv, Negotiated
  PROVE  Inv'
<1>1. PICK w \in Writes : srv.creq # "none" /\ Become(Established(Now, w))
  BY DEF Negotiated
<1> DEFINE s == Now
           c == [NoCtx EXCEPT !.up = TRUE]
           r == [s EXCEPT !.srv.creq = "none", !.srv.ctm = 0, !.srv.flush = "flush", !.ctx = c]
           n == NextTimeout(r)
           a == Arm(r, n)
<1>2. s \in State /\ Ctl(s) /\ Timed(s) /\ s.srv.st = "clean"
  BY <1>1, NowFields DEF Inv, Settled, Mid, Basic, Ctl
<1>3. w \in WriteResults
  BY Nondeterminism
<1>4. Established(s, w) = Flush(a, w)
  BY DEF Established
<1> HIDE DEF s
<1>5. c \in Ctx /\ c.up
  <2>1. NoCtx \in Ctx
    BY DEF NoCtx, Ctx
  <2> QED
    BY ZenonT(60), <2>1 DEF Ctx
<1> HIDE DEF c
<1>6. /\ r \in State /\ r.op = s.op /\ r.ctx = c
      /\ r.srv.creq = "none" /\ r.srv.ctm = 0 /\ r.srv.flush = "flush" /\ r.srv.st = "clean"
      /\ r.srv.tmr = s.srv.tmr /\ r.srv.fault = s.srv.fault
  BY ZenonT(60), <1>2, <1>5 DEF State, Srv
<1> HIDE DEF r
<1>7. Ctl(r)
  BY <1>2, <1>5, <1>6 DEF Ctl
<1>8. Requests(r) = Requests(s) /\ (HasPending(r) <=> HasPending(s))
  BY ZenonT(60), <1>6 DEF Requests, HasPending
<1>9. Timed(r)
  BY <1>2, <1>6, <1>8 DEF Timed
<1>10. Basic(r)
  BY <1>6, <1>7, <1>9 DEF Basic
<1>11. n \in 0..OpTimeout /\ \A p \in Requests(r) : r.op[p].rem - n >= Bound
  BY ZenonT(60), <1>10, NextTimeoutBound
<1> HIDE DEF n
<1>12. Mid(a) /\ a.ctx.up /\ a.srv.st = "clean" /\ a.srv.flush = "flush"
  BY ZenonT(60), <1>5, <1>6, <1>10, <1>11, ArmMid
<1> HIDE DEF a
<1>13. LET f == Flush(a, w) IN Mid(f) /\ f.srv.flush = "flush" /\ f.srv.tmr >= 0
  BY <1>3, <1>12, FlushMid DEF Usable
<1>14. Settled(Flush(a, w))
  BY <1>13, ArmedSettled DEF Trying
<1> QED
  BY ZenonT(60), <1>1, <1>4, <1>14, Becomes DEF s

(* Counting a failure of the network preserves the state between handlers. *)
LEMMA FailureSettled ==
  ASSUME NEW s, Settled(s)
  PROVE  Settled(Failure(s)) /\ Failure(s).ctx = s.ctx /\ Failure(s).srv = s.srv
<1> DEFINE f == Failure(s)
<1>1. s \in State
  BY DEF Settled, Mid, Basic
<1>2. f \in State /\ f.srv = s.srv /\ f.ctx = s.ctx /\ f.op = s.op
  BY <1>1, FailureSame
<1> HIDE DEF f
<1>3. Requests(f) = Requests(s) /\ (HasPending(f) <=> HasPending(s))
  BY ZenonT(60), <1>2 DEF Requests, HasPending
<1>4. Ctl(f) /\ Timed(f) /\ Fresh(f)
  BY ZenonT(60), <1>2, <1>3 DEF Settled, Mid, Basic, Ctl, Timed, Fresh
<1>5. Attempt(f)
  BY <1>2, <1>3 DEF Settled, Attempt, Trying, Usable
<1> QED
  BY ZenonT(60), <1>2, <1>4, <1>5 DEF Settled, Mid, Basic, f

(* ConnectFails preserves the invariant. *)
LEMMA ConnectFailsInv ==
  ASSUME Inv, ConnectFails
  PROVE  Inv'
<1> DEFINE r == [Now EXCEPT !.srv.creq = "none", !.srv.ctm = 0]
           q(timeout) == IF timeout THEN r ELSE Failure(r)
<1>1. PICK timeout \in BOOLEAN, rt \in SUBSET Requests(Now), nu \in News, w \in Writes :
         /\ srv.creq # "none"
         /\ Become(IF FakeTimeout(q(timeout), timeout) THEN Connect(q(timeout))
                   ELSE SocketFailed(q(timeout), IF timeout THEN {} ELSE rt, nu, w))
  BY ZenonT(60) DEF ConnectFails
<1> DEFINE s == q(timeout)
           n == NextTimeout(s)
<1>2. Now \in State /\ Ctl(Now) /\ Timed(Now) /\ Now.srv.st = "clean" /\ Now.srv.flush = "noop"
  BY <1>1, NowFields DEF Inv, Settled, Mid, Basic, Ctl
<1>3. Now.ctx = NoCtx
  BY <1>2 DEF Ctl
<1>4. w \in WriteResults /\ nu \in Pkts \cup {0}
  BY Nondeterminism
<1>5. /\ r \in State /\ r.op = op /\ r.ctx = NoCtx /\ r.srv.creq = "none" /\ r.srv.ctm = 0
      /\ r.srv.st = "clean" /\ r.srv.flush = "noop" /\ r.srv.tmr = srv.tmr /\ ~r.srv.fault
  <2> HIDE DEF q
  <2>1. /\ r \in State /\ r.op = Now.op /\ r.ctx = Now.ctx /\ r.srv.creq = "none" /\ r.srv.ctm = 0
        /\ r.srv.st = Now.srv.st /\ r.srv.flush = Now.srv.flush /\ r.srv.tmr = Now.srv.tmr
        /\ r.srv.fault = Now.srv.fault
    BY ZenonT(60), <1>2 DEF State, Srv
  <2> QED
    BY <1>2, <1>3, <2>1, NowFields DEF Ctl
<1> HIDE DEF r
<1>6. s \in State /\ s.srv = r.srv /\ s.op = op /\ s.ctx = NoCtx
  BY <1>5, FailureSame
<1> HIDE DEF q
<1>7. Ctl(s)
  BY <1>5, <1>6 DEF Ctl, NoCtx
<1>8. Requests(s) = Requests(Now) /\ (HasPending(s) <=> HasPending(Now))
  BY <1>6, NowFields DEF Requests, HasPending
<1>9. Timed(s)
  BY <1>2, <1>5, <1>6, <1>8, NowFields DEF Timed
<1>10. Basic(s)
  BY <1>6, <1>7, <1>9 DEF Basic
<1>11. CASE FakeTimeout(s, timeout)
  <2>1. n \in 0..OpTimeout /\ (n > 0 => \A p \in Requests(s) : s.op[p].rem >= n)
    BY <1>10, NextTimeoutBound
  <2>2. 2 * n >= OpTimeout
    BY ZenonT(60), <1>11 DEF FakeTimeout
  <2> HIDE DEF n
  <2>3. n \in Int /\ n > 0
    BY <2>1, <2>2, ServerAssumption
  <2>4. \A p \in Requests(s) : s.op[p].rem \in Int /\ s.op[p].rem >= 1
    BY <1>6, <2>1, <2>3 DEF State, Ops, Requests
  <2>5. Settled(Connect(s))
    BY <1>5, <1>6, <1>9, <2>4, ConnectSettled DEF Fresh, Usable
  <2> QED
    BY ZenonT(60), <1>1, <1>11, <2>5, Becomes
<1>12. CASE ~FakeTimeout(s, timeout)
  <2> DEFINE t == IF timeout THEN {} ELSE rt
  <2>1. s.srv.st = "clean"
    BY ZenonT(60), <1>5, <1>6
  <2>2. Settled(SocketFailed(s, t, nu, w))
    BY ZenonT(60), <1>4, <1>10, <2>1, SocketFailedSettled
  <2> QED
    BY <1>1, <1>12, <2>2, Becomes
<1> QED
  BY <1>11, <1>12

(* EventRead preserves the invariant. *)
LEMMA EventReadInv ==
  ASSUME Inv, EventRead
  PROVE  Inv'
<1>1. PICK eof \in BOOLEAN :
         "R" \in ctx.watch /\ Become(EnterRead(IF eof THEN Failure(Now) ELSE Now, eof, "ok"))
  BY ZenonT(60) DEF EventRead
<1> DEFINE s == IF eof THEN Failure(Now) ELSE Now
<1>2. ctx.up
  BY SMTT(60), <1>1, NowFields DEF Inv, Settled, Mid, Basic, Ctl, NoCtx
<1>3. Settled(s) /\ s.ctx.up
  BY <1>2, FailureSettled, NowFields DEF Inv
<1> HIDE DEF s
<1>4. Settled(EnterRead(s, eof, "ok"))
  BY <1>3, EnterReadSettled DEF WriteResults
<1> QED
  BY <1>1, <1>4, Becomes DEF s

(* EventWrite preserves the invariant. *)
LEMMA EventWriteInv ==
  ASSUME Inv, EventWrite
  PROVE  Inv'
<1> DEFINE a == [Now EXCEPT !.ctx.wwant = FALSE]
           r(w) == FlushReady(a, w)
<1>1. PICK w \in WriteResults :
         "W" \in ctx.watch /\ Become(IF r(w).ctx.err THEN r(w) ELSE CtxSchedule(r(w), w))
  BY DEF EventWrite, WriteResults
<1> DEFINE b == r(w)
<1>2. Now.ctx.up /\ Settled(Now) /\ Now \in State
  BY SMTT(60), <1>1, NowFields DEF Inv, Settled, Mid, Basic, Ctl, NoCtx
<1>3. Same(a, Now)
  <2> HIDE DEF r
  <2> QED
    BY ZenonT(60), <1>2 DEF Same, State, Ctx
<1>4. Settled(a) /\ a.ctx.up /\ a \in State
  BY ZenonT(60), <1>2, <1>3, SameSettled DEF Same
<1> HIDE DEF a
<1>5. Same(b, a)
  BY <1>4, FlushReadySame
<1>6. Settled(b) /\ b.ctx.up /\ b \in State
  BY ZenonT(60), <1>4, <1>5, SameSettled DEF Same
<1> HIDE DEF r
<1>7. Settled(CtxSchedule(b, w))
  BY ZenonT(60), <1>6, CtxScheduleSame, SameSettled
<1>8. CASE b.ctx.err
  BY ZenonT(60), <1>1, <1>6, <1>8, Becomes
<1>9. CASE ~b.ctx.err
  BY ZenonT(60), <1>1, <1>7, <1>9, Becomes
<1> QED
  BY ZenonT(60), <1>8, <1>9

(* ReadDone preserves the invariant. *)
LEMMA ReadDoneInv ==
  ASSUME Inv, ReadDone
  PROVE  Inv'
<1> DEFINE a == [Now EXCEPT !.ctx.reading = FALSE]
<1>1. PICK w \in Writes : ctx.reading /\ Become(EnterRead(a, FALSE, w))
  BY ZenonT(60) DEF ReadDone
<1>2. Now.ctx.up /\ Settled(Now) /\ Now \in State
  BY <1>1, NowFields DEF Inv, Settled, Mid, Basic, Ctl, NoCtx
<1>3. Same(a, Now)
  BY ZenonT(60), <1>2 DEF Same, State, Ctx
<1>4. Settled(a) /\ a.ctx.up
  BY ZenonT(60), <1>2, <1>3, SameSettled
<1> HIDE DEF a
<1>5. Settled(EnterRead(a, FALSE, w))
  BY ZenonT(60), <1>4, Nondeterminism, EnterReadSettled
<1> QED
  BY ZenonT(60), <1>1, <1>5, Becomes

(* ReadResponse preserves the invariant. *)
LEMMA ReadResponseInv ==
  ASSUME Inv, ReadResponse
  PROVE  Inv'
<1> DEFINE a == [Now EXCEPT !.ctx.rope = Tail(@)]
<1>1. PICK nu \in News, mv \in SUBSET Requests(Now), w \in Writes :
         InLoop /\ Become(TryRead(a, Head(ctx.rope), nu, mv, w))
  BY DEF ReadResponse
<1>2. Now.ctx.up /\ Settled(Now) /\ Now \in State
  BY <1>1, NowFields DEF Inv, Settled, Mid, Basic, Ctl, NoCtx, InLoop
<1>3. Now.ctx.rope \in Seq(Resp) /\ Now.ctx.rope # <<>>
  BY <1>1, <1>2, NowFields DEF State, Ctx, InLoop
<1>4. Tail(Now.ctx.rope) \in Seq(Resp) /\ Head(ctx.rope) \in Resp
  BY <1>3, NowFields
<1>5. Same(a, Now)
  BY ZenonT(60), <1>2, <1>4 DEF Same, State, Ctx
<1>6. Settled(a) /\ a.ctx.up
  BY ZenonT(60), <1>2, <1>5, SameSettled
<1> HIDE DEF a
<1>7. Settled(TryRead(a, Head(ctx.rope), nu, mv, w))
  BY <1>4, <1>6, Nondeterminism, TryReadSettled
<1> QED
  BY <1>1, <1>7, Becomes

(* EndRead preserves the invariant. *)
LEMMA EndReadInv ==
  ASSUME Inv, EndRead
  PROVE  Inv'
<1> DEFINE more == ~ctx.halted /\ HasPending(Now)
           a == [Now EXCEPT !.ctx.entered = FALSE, !.ctx.loop = "no", !.ctx.rdwant = @ \/ more]
<1>1. PICK w \in Writes : ctx.loop # "no" /\ Become(AfterRead(a, ctx.loop = "eof", w))
  BY DEF EndRead
<1>2. Now.ctx.up /\ Settled(Now) /\ Now \in State
  BY SMTT(60), <1>1, NowFields DEF Inv, Settled, Mid, Basic, Ctl, NoCtx
<1>3. more \in BOOLEAN
  OBVIOUS
<1> HIDE DEF more
<1>4. Same(a, Now)
  BY ZenonT(60), <1>2, <1>3 DEF Same, State, Ctx
<1>5. Settled(a)
  BY <1>2, <1>4, SameSettled
<1> HIDE DEF a
<1>6. Settled(AfterRead(a, ctx.loop = "eof", w))
  BY ZenonT(60), <1>5, Nondeterminism, AfterReadSettled
<1> QED
  BY <1>1, <1>6, Becomes

(* ReadFails preserves the invariant. *)
LEMMA ReadFailsInv ==
  ASSUME Inv, ReadFails
  PROVE  Inv'
<1> DEFINE a == [Now EXCEPT !.ctx.reading = FALSE, !.ctx.rdwant = FALSE]
           b == IF net.shut THEN a ELSE Failure(a)
<1>1. PICK rt \in SUBSET Requests(Now), nu \in News, w \in Writes :
         ctx.reading /\ Become(EnteredErr(b, rt, nu, w))
  BY DEF ReadFails
<1>2. Now.ctx.up /\ Settled(Now) /\ Now \in State
  BY SMTT(60), <1>1, NowFields DEF Inv, Settled, Mid, Basic, Ctl, NoCtx
<1>3. Same(a, Now)
  <2> HIDE DEF b
  <2> QED
    BY ZenonT(60), <1>2 DEF Same, State, Ctx
<1>4. Settled(a) /\ a.ctx.up
  BY ZenonT(60), <1>2, <1>3, SameSettled
<1> HIDE DEF a
<1>5. Settled(b) /\ b.ctx.up
  BY ZenonT(60), <1>4, FailureSettled
<1> HIDE DEF b
<1>6. Settled(EnteredErr(b, rt, nu, w))
  BY ZenonT(60), <1>5, Nondeterminism, EnteredErrSettled
<1> QED
  BY <1>1, <1>6, Becomes

(* Written preserves the invariant. *)
LEMMA WrittenInv ==
  ASSUME Inv, Written
  PROVE  Inv'
<1> DEFINE a == [Now EXCEPT !.net.wire = @ \cup Head(ctx.writes)]
<1>1. ctx.writes # <<>> /\ Become(WriteDone(a))
  BY DEF Written
<1>2. Now.ctx.up /\ Settled(Now) /\ Now \in State
  BY SMTT(60), <1>1, NowFields DEF Inv, Settled, Mid, Basic, Ctl, NoCtx
<1>3. Head(ctx.writes) \in SUBSET Pkts
  BY SMTT(60), <1>1, <1>2, NowFields DEF State, Ctx
<1>4. Same(a, Now) /\ a.ctx = Now.ctx
  BY ZenonT(60), <1>2, <1>3 DEF Same, State, Net
<1>5. Settled(a) /\ a.ctx.up /\ a.ctx.writes # <<>>
  BY <1>1, <1>2, <1>4, SameSettled, NowFields
<1> HIDE DEF a
<1> QED
  BY ZenonT(60), <1>1, <1>5, WriteDoneSettled, Becomes

(* WriteFails preserves the invariant. *)
LEMMA WriteFailsInv ==
  ASSUME Inv, WriteFails
  PROVE  Inv'
<1> DEFINE a == IF net.shut THEN Now ELSE Failure(Now)
           r == WriteDone(a)
<1>1. PICK rt \in SUBSET Requests(Now), nu \in News, w \in Writes :
         ctx.writes # <<>> /\ Become(IF r.ctx.up THEN EnteredErr(r, rt, nu, w) ELSE r)
  BY DEF WriteFails
<1>2. Now.ctx.up /\ Settled(Now) /\ Now.ctx.writes # <<>>
  <2>1. Now.ctx.writes # <<>>
    BY ZenonT(60), <1>1, NowFields
  <2>2. Settled(Now) /\ (~Now.ctx.up => Now.ctx = NoCtx)
    BY ZenonT(60) DEF Inv, Settled, Mid, Basic, Ctl
  <2>3. NoCtx.writes = <<>>
    BY ZenonT(60) DEF NoCtx
  <2> QED
    BY ZenonT(60), <2>1, <2>2, <2>3
<1>3. Settled(a) /\ a.ctx.up /\ a.ctx.writes # <<>>
  BY ZenonT(60), <1>2, FailureSettled
<1> HIDE DEF a
<1>4. Settled(r)
  BY ZenonT(60), <1>3, WriteDoneSettled
<1> HIDE DEF r
<1>5. CASE r.ctx.up
  <2>1. Settled(EnteredErr(r, rt, nu, w))
    BY ZenonT(60), <1>4, <1>5, Nondeterminism, EnteredErrSettled
  <2> QED
    BY ZenonT(60), <1>1, <1>5, <2>1, Becomes
<1>6. CASE ~r.ctx.up
  BY ZenonT(60), <1>1, <1>4, <1>6, Becomes
<1> QED
  BY <1>5, <1>6

(* ErrHandler preserves the invariant. *)
LEMMA ErrHandlerInv ==
  ASSUME Inv, ErrHandler
  PROVE  Inv'
<1> DEFINE a == [Now EXCEPT !.ctx.sig = FALSE]
<1>1. PICK rt \in SUBSET Requests(Now), nu \in News, w \in Writes :
         ctx.sig /\ Become(SocketFailed(a, rt, nu, w))
  BY DEF ErrHandler
<1>2. Now.ctx.up /\ Settled(Now) /\ Now \in State
  BY SMTT(60), <1>1, NowFields DEF Inv, Settled, Mid, Basic, Ctl, NoCtx
<1>3. Same(a, Now)
  BY ZenonT(60), <1>2 DEF Same, State, Ctx
<1>4. Settled(a) /\ a.ctx.up
  BY ZenonT(60), <1>2, <1>3, SameSettled
<1> HIDE DEF a
<1>5. Settled(SocketFailed(a, rt, nu, w))
  BY <1>4, Nondeterminism, SocketFailedSettled DEF Settled, Mid
<1> QED
  BY <1>1, <1>5, Becomes

(* IoTimer preserves the invariant. *)
LEMMA IoTimerInv ==
  ASSUME Inv, IoTimer
  PROVE  Inv'
<1> DEFINE s == Now
           a == Arm(s, NotArmed)
           P == {p \in Requests(s) : s.op[p].rem <= 0}
<1>1. PICK nu \in News, w \in Writes : srv.tmr = 0 /\ Become(IoTimeout(Now, nu, w))
  BY ZenonT(60) DEF IoTimer
<1> DEFINE q == Purge(a, P, {}, nu, w)
           n == NextTimeout(q)
<1>2. s \in State /\ Ctl(s) /\ Timed(s) /\ Trying(s) /\ s.srv.tmr = 0
  BY ZenonT(60), <1>1, NowFields DEF Inv, Settled, Mid, Basic, Attempt
<1>3. IoTimeout(s, nu, w) = Arm(q, n)
  BY DEF IoTimeout
<1>4. nu \in Pkts \cup {0} /\ w \in WriteResults
  BY Nondeterminism
<1> HIDE DEF s
<1>5. Usable(s)
  BY <1>2 DEF Ctl, Usable, NoTimer
<1>6. /\ a \in State /\ a.op = s.op /\ a.ctx = s.ctx /\ Requests(a) = Requests(s)
      /\ a.srv = [s.srv EXCEPT !.tmr = NotArmed]
  BY <1>2, ArmState DEF NotArmed
<1> HIDE DEF a
<1>7. /\ a.srv.st = s.srv.st /\ a.srv.flush = s.srv.flush /\ a.srv.creq = s.srv.creq
      /\ a.srv.ctm = s.srv.ctm /\ a.srv.fault = s.srv.fault /\ a.srv.tmr = NotArmed
  BY <1>2, <1>6 DEF State, Srv
<1>8. Ctl(a) /\ Usable(a) /\ Trying(a)
  BY ZenonT(60), <1>2, <1>5, <1>6, <1>7 DEF Ctl, Usable, Trying
<1>9. Timed(a)
  BY <1>2, <1>6, <1>7 DEF Timed, NotArmed, NoTimer, HasPending
<1>10. Basic(a)
  BY <1>6, <1>8, <1>9 DEF Basic
<1>11. \A p \in Requests(a) \ P : a.op[p].rem >= 1
  BY <1>2, <1>6 DEF State, Ops, Requests
<1>12. P \in SUBSET Requests(a)
  BY ZenonT(60), <1>6
<1> HIDE DEF P
<1>13. Mid(q) /\ Usable(q) /\ Trying(q)
  BY ZenonT(60), <1>4, <1>8, <1>10, <1>11, <1>12, PurgeMid
<1> HIDE DEF q
<1>14. n \in 0..OpTimeout /\ \A p \in Requests(q) : q.op[p].rem - n >= Bound
  BY <1>13, NextTimeoutBound DEF Mid
<1> HIDE DEF n
<1>15. LET r == Arm(q, n)
       IN  /\ Mid(r) /\ r.srv.st = q.srv.st /\ r.srv.creq = q.srv.creq /\ r.srv.flush = q.srv.flush
           /\ r.srv.tmr = n
  BY <1>13, <1>14, ArmMid DEF Mid, Usable
<1>16. Settled(Arm(q, n))
  <2>1. n >= 0
    BY <1>14, ServerAssumption
  <2>2. Trying(Arm(q, n))
    BY <1>13, <1>15 DEF Trying, Usable
  <2> QED
    BY <1>15, <2>1, <2>2, ArmedSettled
<1> QED
  BY ZenonT(60), <1>1, <1>3, <1>16, Becomes DEF s

(* NewMap preserves the invariant. *)
LEMMA NewMapInv ==
  ASSUME Inv, NewMap
  PROVE  Inv'
<1>1. PICK mv \in SUBSET Requests(Now), w \in Writes : InUse /\ Become(Remove(Now, mv, w))
  BY DEF NewMap
<1>2. Mid(Now) /\ Usable(Now)
  BY <1>1, NowFields DEF Inv, Settled, InUse, Usable
<1>3. Settled(Remove(Now, mv, w))
  BY <1>2, Nondeterminism, RemoveSettled
<1> QED
  BY <1>1, <1>3, Becomes

(* Respond preserves the invariant. *)
LEMMA RespondInv ==
  ASSUME Inv, Respond
  PROVE  Inv'
<1> DEFINE a(p, k) == [Now EXCEPT !.net.wire = @ \ {p}, !.net.inb = Append(@, [p |-> p, kind |-> k])]
<1>1. PICK p \in net.wire, k \in env.kinds : ctx.up /\ Become(a(p, k))
  BY ZenonT(60) DEF Respond
<1>2. Now.ctx.up /\ Settled(Now) /\ Now \in State
  BY <1>1, NowFields DEF Inv, Settled, Mid, Basic
<1>3. p \in Pkts /\ k \in Kinds \ {"gone"} /\ net.inb \in Seq(Resp)
  BY ZenonT(60), <1>1, <1>2, NowFields DEF State, EnvType, Net
<1>4. Append(Now.net.inb, [p |-> p, kind |-> k]) \in Seq(Resp)
  <2>1. [p |-> p, kind |-> k] \in Resp
    BY <1>3 DEF Resp
  <2> QED
    BY SMTT(60), <1>3, <2>1, NowFields
<1>5. Same(a(p, k), Now)
  BY ZenonT(60), <1>2, <1>4 DEF Same, State, Net
<1>6. Settled(a(p, k))
  <2> HIDE DEF a
  <2> QED
    BY <1>2, <1>5, SameSettled
<1> QED
  BY ZenonT(60), <1>1, <1>6, Becomes

=============================================================================
