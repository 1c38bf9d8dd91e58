---------------------------- MODULE HttpClients ----------------------------
(***************************************************************************)
(* HTTP requests at work: the events of http_io.cc (a connection, data, an *)
(* error, a timeout), the callbacks they make into the program, a view or  *)
(* a query, and the timers and document fetches of those.  The library is  *)
(* single-threaded, but one read and one turn of the document queue make   *)
(* several callbacks in a row; run says which loop is under way, and no    *)
(* other event is handled before it ends.                                  *)
(*                                                                         *)
(* The connection pool is the one of SockPool: a request for a connection  *)
(* is answered once unless it is cancelled.  Document fetches are answered *)
(* once, as Packets shows.  Both are events of the environment here.       *)
(***************************************************************************)
EXTENDS QueryRequest

CONSTANTS
    MaxRedir,   \* the setting max_redir
    MaxBad      \* bound on the trailers that ask for a retry

ASSUME ClientAssumption == MaxRedir \in Nat /\ MaxBad \in Nat

VARIABLES
    env,    \* the program: kind ("http", "view", "query") and its options
    ht,     \* [Slots -> request]
    view,
    docq,
    qry,    \* [Handles -> query handle]
    inst,   \* the instance: rev, svc, plan, cnt (pending counter), fault
    run,    \* the loop under way
    out     \* what the program has seen

vars == <<env, ht, view, docq, qry, inst, run, out>>

Now ==
    [env |-> env, ht |-> ht, view |-> view, docq |-> docq, qry |-> qry, inst |-> inst,
     run |-> run, out |-> out]

Become(s) ==
    /\ env' = s.env /\ ht' = s.ht /\ view' = s.view /\ docq' = s.docq
    /\ qry' = s.qry /\ inst' = s.inst /\ run' = s.run /\ out' = s.out

Idle == [pc |-> "idle", h |-> 0, rv |-> "more"]

Init ==
    /\ env \in Envs
    /\ ht = [h \in Slots |-> NoRequest]
    /\ view = NoView
    /\ docq = NoDocq
    /\ qry = [q \in Handles |-> NoQuery]
    /\ inst \in [rev : {1}, svc : {TRUE}, plan : {FALSE, env.plan}, cnt : {0}, bad : {0},
                 fault : {FALSE}, started : {FALSE}, destroyed : {FALSE}]
    /\ run = Idle
    /\ out = [rows |-> <<>>, finals |-> 0, ok |-> FALSE, intact |-> FALSE, odd |-> FALSE,
              sent |-> 0, cancelled |-> FALSE, refused |-> FALSE]

Ready == run.pc = "idle" /\ ~inst.destroyed /\ ~inst.fault

(* What a program may do from within a callback: nothing, or cancel. *)
Choices == {FALSE, env.cancels}

(***************************************************************************)
(* The callback of request h.  A plain request calls the program: a        *)
(* streamed one for every piece of the body.                               *)
(***************************************************************************)
UserHttpCancel(s, h) == [CancelHttp(s, h) EXCEPT !.out.cancelled = TRUE]

UserChunk(s, h, resp, c) ==
    LET r == IF resp.final THEN Final(s, resp.rc = "ok")
             ELSE IF resp.body = "row" THEN Row(s, resp.row) ELSE s
    IN  IF c THEN UserHttpCancel(r, h) ELSE r

Callback(s, h, resp, c) ==
    CASE s.env.kind = "http"  -> UserChunk(s, h, resp, c)
      [] s.env.kind = "view"  -> ViewChunk(s, resp, c)
      [] s.env.kind = "query" -> QueryChunk(s, h, resp, s.env.prepared, c)

Response(s, h, final, rc, body) ==
    [final |-> final, rc |-> rc, code |-> s.ht[h].code, body |-> body, row |-> s.ht[h].row]

(* Request::finish(); rc is "ok", "timeout", "network" or "other". *)
Finish(s, h, rc, c) ==
    FinishTail(IF s.ht[h].cb THEN s
               ELSE Callback([s EXCEPT !.ht[h].cb = TRUE], h, Response(s, h, TRUE, rc, "none"), c), h)

IsDataRequest(s) == s.env.data

(* Request::finish_or_retry(); n: the next node. *)
CanRetry(s, h) == ~s.ht[h].passed /\ IsDataRequest(s) /\ ApiNodes(s, h) # {}

FinishOrRetry(s, h, rc, n, c) ==
    IF rc # "timeout" /\ CanRetry(s, h) THEN Submit(GetApiNode(s, h, n), h)
    ELSE Finish(s, h, rc, c)

(* The node get_api_node() picks, any when it is not asked. *)
Picks(h) == IF CanRetry(Now, h) THEN ApiNodes(Now, h) ELSE {1}

(* submit() refuses a host name that is too long and drops a reference. *)
Refuse(s, h) == [Decref(CloseIo(s, h), h) EXCEPT !.out.refused = TRUE]

(* Request::redirect(); to is the new URL: "good", "bad", or "long" for its host. *)
Redirect(s, h, to, c) ==
    IF MaxRedir < s.ht[h].hops + 1 \/ to = "bad" THEN Finish(s, h, "other", c)
    ELSE LET r == [s EXCEPT !.ht[h].hops = @ + 1]
         IN  IF to = "long" THEN Finish(Refuse(r, h), h, "other", c) ELSE Submit(r, h)

-----------------------------------------------------------------------------
(***************************************************************************)
(* The program.                                                            *)
(***************************************************************************)
Started(s) == [s EXCEPT !.inst.started = TRUE]

LcbHttp ==
    /\ Ready /\ ~inst.started /\ env.kind = "http"
    /\ \E n \in Nodes :
           LET s == CreateHttp(Started(Now), 1, 0)
           IN  Become(IF env.data THEN GetApiNode(s, 1, n) ELSE s)

StartView ==
    /\ Ready /\ ~inst.started /\ env.kind = "view"
    /\ \E n \in Nodes : Become(LcbView(Started(Now), env.docs, n))

StartQuery ==
    /\ Ready /\ ~inst.started /\ env.kind = "query" /\ CanIssue(Now)
    /\ Become(LcbQuery(Started(Now), env.prepared))

(* Cancelling outside of callbacks; handle 1 is the program's query. *)
CancelRequest ==
    /\ Ready /\ inst.started /\ env.cancels /\ ~out.cancelled /\ out.finals = 0
    /\ Become(CASE env.kind = "http"  -> UserHttpCancel(Now, 1)
                [] env.kind = "view"  -> UserViewCancel(Now)
                [] env.kind = "query" -> UserQueryCancel(Now, 1))

(* lcb_destroy(): every pending HTTP request is finished silently. *)
LcbDestroy ==
    /\ Ready /\ env.destroys /\ inst.started
    /\ Become([Now EXCEPT !.ht = [h \in Slots |-> IF @[h].pend THEN NoRequest ELSE @[h]],
                           !.inst.destroyed = TRUE])

(* A new cluster map; it may drop the query service. *)
ConfigUpdate ==
    /\ Ready /\ inst.rev < env.revs
    /\ \E svc \in {TRUE, ~env.nosvc} :
           Become([Now EXCEPT !.inst.rev = @ + 1, !.inst.svc = svc])

-----------------------------------------------------------------------------
(***************************************************************************)
(* The events of a request.                                                *)
(***************************************************************************)
OnConnected(h) ==
    /\ Ready /\ ht[h].io = "conn"
    /\ Become([Now EXCEPT !.ht[h].io = "io", !.ht[h].want = TRUE, !.ht[h].reading = TRUE])

ConnectFailed(h) ==
    /\ Ready /\ ht[h].io = "conn"
    /\ \E rc \in {"network", "timeout"}, n \in Picks(h), c \in Choices :
           Become(FinishOrRetry(CloseIo(Now, h), h, rc, n, c))

Readable(h) == ht[h].io = "io" /\ IF env.completion THEN ht[h].reading ELSE ht[h].want

(* Before the answer begins, the write may fail as well. *)
IoError(h) ==
    /\ Ready /\ ht[h].io = "io" /\ (Readable(h) \/ ht[h].code = "none")
    /\ \E n \in Picks(h), c \in Choices : Become(FinishOrRetry(Now, h, "network", n, c))

RequestTimedOut(h) ==
    /\ Ready /\ ht[h].timer /\ ~(env.patient /\ ht[h].paused)
    /\ \E c \in Choices : Become(Finish([Now EXCEPT !.ht[h].timer = FALSE], h, "timeout", c))

(* io_read() begins; the timer is armed anew. *)
IoRead(h) ==
    /\ Ready /\ Readable(h) /\ ht[h].left > 0
    /\ Become([Incref(Now, h) EXCEPT !.ht[h].timer = TRUE, !.ht[h].reading = FALSE,
                                     !.run = [pc |-> "read", h |-> h, rv |-> "first"]])

(***************************************************************************)
(* handle_parse_chunked(), one step for each piece it meets: the headers   *)
(* with their status, a piece of the body, the end, or an error.           *)
(***************************************************************************)
Reading(h) ==
    /\ run.pc = "read" /\ run.h = h /\ ~inst.fault
    /\ IsOngoing(ht[h]) /\ ht[h].left > 0 /\ run.rv \in {"first", "more"}

Took(s, h, rv) == [s EXCEPT !.ht[h].left = @ - 1, !.run.rv = rv]

ParseHeaders(h) ==
    /\ Reading(h) /\ ht[h].code = "none"
    /\ \E code \in {"ok", "bad"} : Become([Took(Now, h, "more") EXCEPT !.ht[h].code = code])

ParseRedirect(h) ==
    /\ Reading(h) /\ ht[h].code = "none" /\ env.redirects
    /\ Become([Took(Now, h, "redirect") EXCEPT !.ht[h].code = "bad"])

ParseError(h) == Reading(h) /\ Become(Took(Now, h, "error"))

(* Errors that make a query try again, at most MaxBad times. *)
Again == {"stale", "magic", "auth", "creds"}

(***************************************************************************)
(* The trailer of a query's response comes last.  After "magic" even "ok"  *)
(* makes a query without rows prepare again; here it does only when no     *)
(* other PREPARE is alive, which bounds the handles.                       *)
(***************************************************************************)
Trailers(q) ==
    {t \in env.trailers :
        /\ t \in Again => inst.bad < MaxBad
        /\ t = "ok" /\ qry[q].first = "magic" => \A p \in Handles \ {q} : ~qry[p].live}

Bodies(h) ==
    CASE env.kind = "http" -> {"row"}
      [] env.kind = "view" -> {"row", "junk"}
      [] env.kind = "query" /\ qry[ht[h].owner].meta # "none" -> {}
      [] OTHER -> {"row", "junk"} \cup Trailers(ht[h].owner)

(* A piece of the body: passed on at once, or kept for the final callback. *)
ParseBody(h) ==
    /\ Reading(h) /\ ht[h].code # "none" /\ ht[h].left > 1
    /\ \E body \in Bodies(h), c \in Choices :
           LET s == [Took(Now, h, "more") EXCEPT
                        !.ht[h].row = @ + (IF body = "row" THEN 1 ELSE 0),
                        !.inst.bad = @ + (IF body \in Again THEN 1 ELSE 0),
                        !.ht[h].clean = @ /\ body \in {"row", "ok", "odd", "creds"},
                        !.ht[h].odd = body \in {"odd", "creds"}]
           IN  Become(IF env.stream
                      THEN Callback([s EXCEPT !.ht[h].passed = TRUE], h,
                                    Response(s, h, FALSE, "ok", body), c)
                      ELSE s)

(* The response is the program's own, not the one of a PREPARE. *)
Own(h) == ht[h].owner = 0 \/ qry[ht[h].owner].parent = 0

(* The end: the final callback, and only then the flag CBINVOKED. *)
ParseEnd(h) ==
    /\ Reading(h) /\ ht[h].code # "none"
    /\ \E c \in Choices :
           LET good == ht[h].clean /\ (ht[h].code = "ok" \/ env.kind = "http")
               s == [Took(Now, h, "more") EXCEPT !.ht[h].passed = TRUE,
                        !.out.intact = IF Own(h) THEN good ELSE @,
                        !.out.odd = IF Own(h) THEN ht[h].odd ELSE @,
                        !.out.sent = IF Own(h) THEN ht[h].row ELSE @]
           IN  Become([Callback(s, h, Response(s, h, TRUE, "ok", "none"), c) EXCEPT !.ht[h].cb = TRUE])

(* The URLs a server may redirect to. *)
Targets ==
    IF run.rv # "redirect" THEN {"good"} ELSE {"good", "bad"} \cup (IF env.long THEN {"long"} ELSE {})

(* The end of io_read() *)
IoReadEnd(h) ==
    /\ run.pc = "read" /\ run.h = h /\ run.rv # "first" /\ ~inst.fault
    /\ \E n \in Picks(h), to \in Targets, c \in Choices :
           LET s == CASE run.rv = "redirect"  -> Redirect(Now, h, to, c)
                      [] run.rv = "error"     -> FinishOrRetry(Now, h, "other", n, c)
                      [] ~IsOngoing(ht[h])    -> Finish(Now, h, "ok", c)
                      [] OTHER                -> [Now EXCEPT !.ht[h].want = ~ht[h].paused,
                                                             !.ht[h].reading = ~ht[h].paused]
           IN  Become([Decref(s, h) EXCEPT !.run = Idle])

-----------------------------------------------------------------------------
(***************************************************************************)
(* The document queue.                                                     *)
(***************************************************************************)
Running(pc) == run.pc = pc /\ ~inst.fault

DocTimer ==
    /\ Ready /\ docq.timer
    /\ Become([Now EXCEPT !.docq.timer = FALSE, !.run.pc = "sched"])

DocSchedule ==
    /\ Running("sched") /\ docq.pending # <<>> /\ ~HandlerFull(Now)
    /\ \E ok \in {TRUE, ~env.rejects} : Become(ScheduleDoc(Now, ok))

DocHandlerEnd ==
    /\ Running("sched") /\ (docq.pending = <<>> \/ HandlerFull(Now))
    /\ Become([HandlerEnd(Now) EXCEPT !.run.pc = "docs"])

(* The answer to an lcb_get(), in any order. *)
DocAnswer ==
    /\ Ready
    /\ \E i \in DOMAIN docq.cbq :
           /\ ~docq.cbq[i].ready
           /\ Become([DocCallback(Now, i) EXCEPT !.run.pc = "answer"])

InvokePending ==
    /\ Running("docs") \/ Running("answer")
    /\ DocReady(Now)
    /\ \E c \in Choices : Become(DocDeliver(Now, c))

InvokePendingEnd ==
    /\ Running("docs") \/ Running("answer")
    /\ ~DocReady(Now)
    /\ Become([DocsEnd(Now, run.pc = "answer") EXCEPT !.run = Idle])

-----------------------------------------------------------------------------
(***************************************************************************)
(* The timers of a query.                                                  *)
(***************************************************************************)
QueryTimeout(q) ==
    /\ Ready /\ qry[q].timer
    /\ \E c \in Choices : Become(OnTimeout(Now, q, c))

QueryBackoff(q) ==
    /\ Ready /\ qry[q].btimer
    /\ Become(OnBackoff(Now, q, env.prepared))

-----------------------------------------------------------------------------
RunStep ==
    \/ \E h \in Slots : ParseHeaders(h) \/ ParseRedirect(h) \/ ParseError(h) \/ ParseBody(h)
                         \/ ParseEnd(h) \/ IoReadEnd(h)
    \/ DocSchedule \/ DocHandlerEnd \/ InvokePending \/ InvokePendingEnd

Start == LcbHttp \/ StartView \/ StartQuery

Next ==
    \/ Start \/ CancelRequest \/ LcbDestroy \/ ConfigUpdate
    \/ \E h \in Slots : OnConnected(h) \/ ConnectFailed(h) \/ IoError(h) \/ RequestTimedOut(h)
                         \/ IoRead(h)
    \/ RunStep \/ DocTimer \/ DocAnswer
    \/ \E q \in Handles : QueryTimeout(q) \/ QueryBackoff(q)

(***************************************************************************)
(* The event loop: an armed timer fires unless it is disarmed (either way  *)
(* it is no longer armed), documents that were asked for are answered, and *)
(* a callback runs to its end.                                             *)
(***************************************************************************)
Stopped == inst.destroyed \/ inst.fault

Fairness ==
    /\ []<>inst.started
    /\ []<>(run.pc = "idle" \/ Stopped)
    /\ []<>(~docq.timer \/ Stopped)
    /\ []<>(AwaitingResponse(Now) = 0 \/ run.pc = "answer" \/ Stopped)
    /\ \A h \in Slots : []<>(~ht[h].timer \/ (env.patient /\ ht[h].paused) \/ Stopped)
    /\ \A q \in Handles : []<>(~qry[q].timer \/ Stopped) /\ []<>(~qry[q].btimer \/ Stopped)

Spec == Init /\ [][Next]_vars /\ Fairness

-----------------------------------------------------------------------------
TypeOK ==
    /\ env \in Envs
    /\ \A h \in Slots :
          /\ ht[h].refs \in 0..2 /\ ht[h].live = (ht[h].refs > 0)
          /\ ht[h].io \in {"none", "conn", "io"} /\ ht[h].used \subseteq Nodes
          /\ ht[h].hops \in 0..MaxRedir /\ ht[h].owner \in {0} \cup Handles
    /\ view.http \in {0} \cup Slots
    /\ \A q \in Handles : qry[q].http \in {0} \cup Slots /\ qry[q].prep \in {0} \cup Handles
    /\ inst.rev \in 1..env.revs /\ inst.cnt \in Nat
    /\ run.pc \in {"idle", "read", "sched", "docs", "answer"}
    /\ out.rows \in Seq(Nat)

(***************************************************************************)
(* Every assertion of the code holds: Request::decref() never meets a      *)
(* request that is gone (http.cc:198), and the document queue outlives     *)
(* every loop over it (docreq.cc:163-174).                                 *)
(***************************************************************************)
AssertionsHold == ~inst.fault

(***************************************************************************)
(* A plain pointer is never left behind.  A request that may still call    *)
(* back belongs to a view or query handle that is alive and knows it; a    *)
(* PREPARE that may still call back belongs to a query that is alive and   *)
(* waits for it (the cookies of viewreq.cc:361, n1ql.cc:837 and :861).     *)
(***************************************************************************)
PointersLive ==
    /\ \A h \in Slots : ht[h].live /\ IsOngoing(ht[h]) =>
          CASE env.kind = "http"  -> TRUE
            [] env.kind = "view"  -> view.live /\ view.http = h
            [] env.kind = "query" -> qry[ht[h].owner].live /\ qry[ht[h].owner].http = h
    /\ view.http # 0 => ht[view.http].live
    /\ \A q \in Handles :
          /\ qry[q].http # 0 => ht[qry[q].http].live
          /\ qry[q].live /\ qry[q].cbk /\ qry[q].parent # 0 =>
                qry[qry[q].parent].live /\ qry[qry[q].parent].prep = q

(***************************************************************************)
(* No callback finds what it works on gone, by an assertion or without,    *)
(* but for one case: redirect() to a host name that submit() refuses drops *)
(* one reference too many (http.cc:374), and io_read() then drops its own  *)
(* from a request that is gone.                                            *)
(***************************************************************************)
SafeCallbacks == (AssertionsHold \/ out.refused) /\ PointersLive

(***************************************************************************)
(* lcb_wait() keeps running while the program is owed a callback: one more *)
(* operation is pending (a request in the list, a view's or a backoff's    *)
(* count), and the count is exact, so that lcb_wait() does return.  One    *)
(* query is not counted: on_backoff() could not send it again, because the *)
(* new map has no query node, and only its timer will report that.         *)
(***************************************************************************)
HasPending == inst.cnt > 0 \/ \E h \in Slots : ht[h].pend

Owed == inst.started /\ out.finals = 0 /\ ~out.cancelled

(* While a callback is owed, lcb_wait() finds something pending. *)
OwedIsPending == run.pc = "idle" /\ Owed /\ ~Stopped => HasPending

Stranded(q) ==
    /\ qry[q].live /\ qry[q].cbk /\ qry[q].err = "nosvc" /\ qry[q].timer
    /\ qry[q].http = 0 /\ qry[q].prep = 0 /\ ~qry[q].btimer

PendingExact ==
    /\ inst.cnt = (IF view.cbk THEN 1 ELSE 0) + Cardinality({q \in Handles : qry[q].btimer})
    /\ OwedIsPending \/ \E q \in Handles : Stranded(q)

(***************************************************************************)
(* Success is reported only for a response that came to its end, with a    *)
(* good status, well-formed rows and no error in its trailer (the return   *)
(* codes of finish(), and of chunk_callback() and parse_meta() of a query).*)
(***************************************************************************)
Truthful == out.finals > 0 /\ out.ok => out.intact /\ ~out.odd

(***************************************************************************)
(* So it is but for views, and but for an error in a query's trailer whose *)
(* code parse_meta() does not know (see Truthful): success still means     *)
(* that the response came to its end, well formed and with a good status.  *)
(* And the final callback of such a response follows all of its rows:      *)
(* invoke_last() waits for those whose document is being fetched           *)
(* (viewreq.cc:46).                                                        *)
(***************************************************************************)
FinalTruthful ==
    /\ env.kind # "view" /\ out.finals > 0 /\ out.ok => out.intact
    /\ env.stream /\ out.finals > 0 /\ out.intact /\ ~out.cancelled => Len(out.rows) = out.sent

(***************************************************************************)
(* The rows a program is given, and the one final callback after them, are *)
(* those of the abstract StreamRequest: in order, none twice although      *)
(* requests are retried, redirected and prepared again, none after the     *)
(* final callback or after cancelling, and the final callback does come.   *)
(***************************************************************************)
StreamStatus ==
    CASE out.finals > 1  -> "twice"
      [] out.finals = 1  -> "done"
      [] out.cancelled \/ inst.destroyed -> "cancelled"
      [] OTHER           -> "open"

Stream == INSTANCE StreamRequest WITH status <- StreamStatus, rows <- out.rows

ImplementsStream == Stream!Spec

(***************************************************************************)
(* A request that the document queue has paused reads on or ends: the      *)
(* queue's timer is always armed again, and documents come back.           *)
(***************************************************************************)
PausedResumes == \A h \in Slots : ht[h].paused ~> (ht[h].want \/ ~ht[h].live)

(***************************************************************************)
(* Everything a request was made of is released in the end: HTTP requests, *)
(* view, document queue, query handles and orphaned PREPAREs.              *)
(***************************************************************************)
AllReleased ==
    /\ \A h \in Slots : ~ht[h].live
    /\ \A q \in Handles : ~qry[q].live
    /\ ~view.live /\ ~docq.live

Released == inst.started ~> AllReleased

=============================================================================
