---------------------------- MODULE ViewRequest ----------------------------
(***************************************************************************)
(* A view query (src/src/views/viewreq.cc) and the queue that fetches the  *)
(* document of every row (src/src/docreq/docreq.cc).  The view turns the   *)
(* chunks of one HTTP request into rows; with include_docs a row waits in  *)
(* the queue until its document has come, and the queue pauses the HTTP    *)
(* request while too many documents are outstanding.                       *)
(***************************************************************************)
EXTENDS HttpRequest

CONSTANTS
    MaxDocs,    \* Queue::max_pending_response
    MinBatch    \* Queue::min_batch_size

ASSUME DocAssumption == MaxDocs \in Nat /\ MinBatch \in Nat

(***************************************************************************)
(* view: cbk says that the callback is still set, err that lasterr is an   *)
(* error, parsing that the JSON parser still reports to the view, http is  *)
(* the HTTP request (0 for none).  docq: parent says that the view is      *)
(* alive, pending holds the rows whose document is not asked for yet, cbq  *)
(* the ones asked for, each ready or not.  The counters                    *)
(* n_awaiting_schedule and n_awaiting_response are the numbers of the      *)
(* former and of the latter that are not ready.                            *)
(***************************************************************************)
NoView == [live |-> FALSE, refs |-> 0, cbk |-> FALSE, err |-> FALSE, parsing |-> FALSE, http |-> 0]

NoDocq ==
    [live |-> FALSE, refs |-> 0, parent |-> FALSE, pending |-> <<>>, cbq |-> <<>>,
     cancelled |-> FALSE, timer |-> FALSE]

AwaitingResponse(s) == Cardinality({i \in DOMAIN s.docq.cbq : ~s.docq.cbq[i].ready})
AwaitingSchedule(s) == Len(s.docq.pending)
HasPendingDocs(s) == AwaitingSchedule(s) > 0 \/ AwaitingResponse(s) > 0

LcbAssert(s, holds) == IF holds THEN s ELSE [s EXCEPT !.inst.fault = TRUE]

(***************************************************************************)
(* What the program sees.  c says whether it cancels its request from      *)
(* within the callback.                                                    *)
(***************************************************************************)
Row(s, row) == [s EXCEPT !.out.rows = Append(@, row)]
Final(s, ok) == [s EXCEPT !.out.finals = @ + 1, !.out.ok = ok]

ViewCancel(s) ==
    IF ~s.view.cbk THEN s
    ELSE [s EXCEPT !.view.cbk = FALSE, !.inst.cnt = @ - 1, !.docq.cancelled = s.docq.live]

(* The program's lcb_view_cancel(). *)
UserViewCancel(s) == [ViewCancel(s) EXCEPT !.out.cancelled = TRUE]
MaybeViewCancel(s, c) == IF c THEN UserViewCancel(s) ELSE s

InvokeLast_Docs(s, ok, c) ==
    IF ~s.view.cbk THEN s ELSE ViewCancel(MaybeViewCancel(Final(s, ok), c))

(* invoke_last(): rows still to come put the final callback off. *)
InvokeLast(s, ok, c) ==
    IF ~s.view.cbk \/ HasPendingDocs(s) THEN s
    ELSE ViewCancel(MaybeViewCancel(Final(s, ok), c))

InvokeRow(s, row, c) == IF ~s.view.cbk THEN s ELSE MaybeViewCancel(Row(s, row), c)

DocqUnref(s) ==
    IF s.docq.refs = 1 THEN [s EXCEPT !.docq = NoDocq] ELSE [s EXCEPT !.docq.refs = @ - 1]

(* ~lcb_VIEW_HANDLE_() *)
ViewDelete(s, c) ==
    LET l == InvokeLast(s, ~s.view.err, c)
        g == IF l.view.http # 0 THEN CancelHttp(l, l.view.http) ELSE l
        d == [g EXCEPT !.view = NoView]
    IN  IF d.docq.live THEN DocqUnref([d EXCEPT !.docq.parent = FALSE]) ELSE d

ViewUnref(s, c) ==
    IF s.view.refs = 1 THEN ViewDelete(s, c) ELSE [s EXCEPT !.view.refs = @ - 1]

(* cb_docq_throttle() *)
Throttle(s, on) ==
    IF ~s.docq.parent \/ s.view.http = 0 THEN s
    ELSE IF on THEN Pause(s, s.view.http) ELSE Resume(s, s.view.http)

DocqPoke_NoTimer(s) ==
    IF AwaitingResponse(s) < MaxDocs /\ AwaitingSchedule(s) > MinBatch
    THEN [Throttle(s, FALSE) EXCEPT !.docq.timer = TRUE]
    ELSE s

(* docq_poke(): signalled or delayed, the timer is armed. *)
DocqPoke(s) ==
    LET r == IF AwaitingResponse(s) < MaxDocs /\ AwaitingSchedule(s) > MinBatch
             THEN Throttle(s, FALSE) ELSE s
    IN  [r EXCEPT !.docq.timer = TRUE]

(* JSPARSE_on_row(); the rows of a reduced view have no document ids. *)
OnRow(s, row, c) ==
    IF s.docq.live /\ s.env.ids /\ s.view.cbk
    THEN [DocqPoke([s EXCEPT !.docq.pending = Append(@, row), !.docq.refs = @ + 1])
             EXCEPT !.view.refs = @ + 1]
    ELSE InvokeRow(s, row, c)

(* JSPARSE_on_error(): the parser reports nothing after it. *)
OnError(s, c) == [InvokeLast(s, FALSE, c) EXCEPT !.view.parsing = FALSE]

(***************************************************************************)
(* chunk_callback().  resp: final, rc (the return code), code (the HTTP    *)
(* status), body: "row", "junk" (not JSON) or "none".                      *)
(***************************************************************************)
ViewChunk(s, resp, c) ==
    IF resp.rc # "ok" \/ resp.code # "ok" \/ resp.final
    THEN LET e == [s EXCEPT !.view.err = @ \/ resp.code # "ok", !.view.refs = @ + 1]
             l == InvokeLast(e, ~e.view.err, c)
             f == IF resp.final THEN ViewUnref([l EXCEPT !.view.http = 0], c) ELSE l
         IN  ViewUnref(f, c)
    ELSE IF ~s.view.cbk \/ ~s.view.parsing THEN s
    ELSE IF resp.body = "row" THEN OnRow(s, resp.row, c)
    ELSE IF resp.body = "junk" THEN OnError(s, c) ELSE s

(* lcb_view() with valid arguments: the constructor and request_http(). *)
LcbView(s, docs, n) ==
    LET h == FreeSlot(s)
        v == [s EXCEPT !.view = [NoView EXCEPT !.live = TRUE, !.refs = 1, !.cbk = TRUE,
                                               !.parsing = TRUE, !.http = h],
                       !.docq = IF docs THEN [NoDocq EXCEPT !.live = TRUE, !.refs = 1, !.parent = TRUE]
                                ELSE NoDocq,
                       !.inst.cnt = @ + 1]
    IN  GetApiNode(CreateHttp(v, h, 0), h, n)

(***************************************************************************)
(* The queue's timer (docreq_handler()) runs as a loop over the pending    *)
(* rows, one step for each; ok says that lcb_get() accepted the document.  *)
(***************************************************************************)
HandlerFull(s) == AwaitingResponse(s) > MaxDocs

ScheduleDoc(s, ok) ==
    LET row == Head(s.docq.pending)
        asked == ~s.docq.cancelled /\ ok
    IN  [s EXCEPT !.docq.pending = Tail(@),
                  !.docq.cbq = Append(@, [row |-> row, ready |-> ~asked])]

HandlerEnd_NoResume(s) ==
    LET b == IF s.docq.pending # <<>> THEN Throttle([s EXCEPT !.docq.timer = TRUE], TRUE) ELSE s
    IN  [DocqPoke(b) EXCEPT !.docq.refs = @ + 1]

(* The end of the loop, and the start of invoke_pending(). *)
HandlerEnd(s) ==
    LET b == IF s.docq.pending # <<>> THEN Throttle([s EXCEPT !.docq.timer = TRUE], TRUE) ELSE s
        r == IF AwaitingSchedule(b) < MinBatch THEN Throttle(b, FALSE) ELSE b
    IN  [DocqPoke(r) EXCEPT !.docq.refs = @ + 1]

(* doc_callback(): a document has come; then invoke_pending() starts. *)
DocCallback(s, i) == [s EXCEPT !.docq.cbq[i].ready = TRUE, !.docq.refs = @ + 2]

(* invoke_pending() stops at the first row that is not ready. *)
DocReady(s) == s.docq.cbq # <<>> /\ Head(s.docq.cbq).ready

(* One turn of invoke_pending() with cb_doc_ready(). *)
DocDeliver(s, c) ==
    LET t == [s EXCEPT !.docq.cbq = Tail(@)]
        r == IF t.docq.parent THEN ViewUnref(InvokeRow(t, Head(s.docq.cbq).row, c), c) ELSE t
    IN  DocqUnref(LcbAssert(r, r.docq.refs > 2))

(* The end of invoke_pending(), and of check() and doc_callback() around it. *)
DocsEnd(s, response) ==
    LET u == DocqUnref(LcbAssert(s, s.docq.refs > 1))
    IN  IF response THEN DocqUnref(DocqPoke(LcbAssert(u, u.docq.refs > 0))) ELSE u

=============================================================================
