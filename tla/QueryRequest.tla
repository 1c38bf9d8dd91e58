---------------------------- MODULE QueryRequest ----------------------------
(***************************************************************************)
(* A query (lcb_QUERY_HANDLE_, src/src/n1ql/n1ql.cc).  A prepared query    *)
(* first runs a second query, the PREPARE, whose only row is the plan; the *)
(* plan goes into the instance's cache and the query is sent with it.  A   *)
(* server that no longer knows the plan makes the query prepare again; an  *)
(* error worth retrying makes it send its body again after a pause.        *)
(*                                                                         *)
(* Handles refer to each other and to HTTP requests by plain pointers and  *)
(* delete themselves from callbacks and timers.                            *)
(***************************************************************************)
EXTENDS ViewRequest

CONSTANTS
    NQuery      \* query handles that may be alive together

ASSUME QueryAssumption == NQuery \in Nat \ {0, 1}

Handles == 1..NQuery

(***************************************************************************)
(* cbk: the callback is set; err: lasterr ("ok", "timeout", "network",     *)
(* "nosvc" for a map without the service, or "other"); http and prep: the  *)
(* HTTP request and the PREPARE (0 for none); parent: the query a PREPARE  *)
(* belongs to (its cookie); nrows, timer, btimer as in the code.           *)
(*                                                                         *)
(* meta is what the response's trailer says: "ok", or an error: "stale"    *)
(* (the plan is gone), "magic" (one of wtf_magic_strings), "auth" (codes   *)
(* 10000 to 10999), "creds" (13014 with a dynamic authenticator), "bad"    *)
(* (any other code that parse_meta() knows), "odd" (one it does not know). *)
(* first is the last error seen, which a later success does not erase.     *)
(***************************************************************************)
NoQuery ==
    [live |-> FALSE, cbk |-> FALSE, err |-> "ok", http |-> 0, prep |-> 0, parent |-> 0,
     nrows |-> 0, parsing |-> FALSE, meta |-> "none", first |-> "none", timer |-> FALSE,
     btimer |-> FALSE]

FreeHandle(s) == CHOOSE q \in Handles : ~s.qry[q].live

DisarmBackoff_Counted(s, q) == [s EXCEPT !.qry[q].btimer = FALSE]

DisarmBackoff(s, q) ==
    [s EXCEPT !.inst.cnt = @ - (IF s.qry[q].btimer THEN 1 ELSE 0), !.qry[q].btimer = FALSE]

NewParser(s, q) == [s EXCEPT !.qry[q].parsing = TRUE, !.qry[q].meta = "none"]

(* lcb_query_cancel(); a PREPARE has no PREPARE of its own. *)
QueryCancel(s, q) ==
    LET p == s.qry[q].prep
        b == DisarmBackoff(s, q)
        n == IF p = 0 THEN b ELSE [DisarmBackoff(b, p) EXCEPT !.qry[p].cbk = FALSE, !.qry[q].prep = 0]
    IN  [n EXCEPT !.qry[q].cbk = FALSE]

UserQueryCancel(s, q) == [QueryCancel(s, q) EXCEPT !.out.cancelled = TRUE]
MaybeQueryCancel(s, q, c) == IF c THEN UserQueryCancel(s, q) ELSE s

(* ~lcb_QUERY_HANDLE_() without the callback and the PREPARE. *)
Free_NoCancel(s, q) == [DisarmBackoff(s, q) EXCEPT !.qry[q] = NoQuery]

Free(s, q) ==
    LET h == IF s.qry[q].http # 0 THEN CancelHttp(s, s.qry[q].http) ELSE s
    IN  [DisarmBackoff(h, q) EXCEPT !.qry[q] = NoQuery]

(* parse_meta(): lasterr, unless the trailer has an error that it knows. *)
ParseMeta(x) ==
    CASE x.meta \in {"none", "ok", "odd", "creds"} -> x.err
      [] x.meta \in {"stale", "auth"}              -> x.meta
      [] OTHER                                     -> "other"

FinalOk(x) == ParseMeta(x) = "ok"

(* The final callback of the program's query, if it is still due. *)
FinalRow(s, q, ok, c) ==
    IF ~s.qry[q].cbk THEN s
    ELSE [MaybeQueryCancel(Final(s, ok), q, c) EXCEPT !.qry[q].cbk = FALSE]

DeletePrepare(s, q) ==
    LET p == s.qry[q].prep
    IN  IF p = 0 THEN s ELSE Free(QueryCancel(s, p), p)

(* delete, for the program's query. *)
DeleteUser(s, q, c) ==
    Free(DeletePrepare(FinalRow(s, q, FinalOk(s.qry[q]), c), q), q)

(* prepare_rowcb() starts by letting go of the PREPARE of query o. *)
DropPrepare(s, o) ==
    LET p == s.qry[o].prep
    IN  IF p = 0 THEN s ELSE [QueryCancel(s, p) EXCEPT !.qry[o].prep = 0]

FailPrepared(s, q, c) == DeleteUser(FinalRow(s, q, FALSE, c), q, c)

(* delete, for a PREPARE: its final row fails the query it belongs to. *)
DeletePrep(s, p, c) ==
    LET o == s.qry[p].parent
        f == IF s.qry[p].cbk THEN FailPrepared(DropPrepare(s, o), o, c) ELSE s
    IN  Free(f, p)

Delete(s, q, c) == IF s.qry[q].parent # 0 THEN DeletePrep(s, q, c) ELSE DeleteUser(s, q, c)

(***************************************************************************)
(* issue_htreq() fails when the cluster map names no query node            *)
(* (request_address()).  It names the node itself, so that the HTTP        *)
(* request starts with an empty list of used nodes.                        *)
(***************************************************************************)
CanIssue(s) == s.inst.svc

IssueHtreq(s, q) ==
    LET h == FreeSlot(s) IN [CreateHttp(s, h, q) EXCEPT !.qry[q].http = h, !.qry[q].err = "ok"]

NewHandle(s, q, parent) ==
    [s EXCEPT !.qry[q] = [NoQuery EXCEPT !.live = TRUE, !.cbk = TRUE, !.parsing = TRUE,
                                         !.timer = TRUE, !.parent = parent]]

RequestPlan(s, q) ==
    LET p == FreeHandle(s)
    IN  [IssueHtreq(NewHandle(s, p, q), p) EXCEPT !.qry[q].prep = p, !.qry[q].err = "ok"]

(* The plan from the cache, or a PREPARE. *)
PlanOrPrepare(s, q) == IF s.inst.plan THEN IssueHtreq(s, q) ELSE RequestPlan(s, q)

LcbQuery(s, prepared) ==
    LET q == FreeHandle(s)
        n == NewHandle(s, q, 0)
    IN  IF prepared THEN PlanOrPrepare(n, q) ELSE IssueHtreq(n, q)

(* prepare_rowcb() with the plan: into the cache, and the query goes out. *)
PlanArrived(s, p, c) ==
    LET o == s.qry[p].parent
        d == DropPrepare(s, o)
        a == [d EXCEPT !.inst.plan = TRUE]
    IN  IF CanIssue(a) THEN IssueHtreq(a, o) ELSE FailPrepared(a, o, c)

(* JSPARSE_on_row() and invoke_row() *)
QueryRow(s, q, row, c) ==
    LET n == [s EXCEPT !.qry[q].nrows = 1]
    IN  IF ~n.qry[q].cbk THEN n
        ELSE IF n.qry[q].parent # 0 THEN PlanArrived(n, q, c)
        ELSE MaybeQueryCancel(Row(n, row), q, c)

PlanFailed(x) == ParseMeta(x) = "stale" \/ x.first = "magic"

(***************************************************************************)
(* has_retriable_error(), with the best-effort strategy: an error that no  *)
(* network or node caused is worth a retry if the query is read-only (a    *)
(* PREPARE is not); so is success.                                         *)
(***************************************************************************)
HasRetriableError(s, x) ==
    \/ PlanFailed(x) \/ x.first = "creds"
    \/ ParseMeta(x) \in {"auth", "network"}
    \/ ParseMeta(x) # "timeout" /\ s.env.readonly /\ x.parent = 0

MaybeRetry_Rows(s, x) == x.cbk /\ x.meta # "none" /\ HasRetriableError(s, x)

(* The conditions of maybe_retry(). *)
MaybeRetry(s, x) == x.cbk /\ x.nrows = 0 /\ x.meta # "none" /\ HasRetriableError(s, x)

(* What maybe_retry() does; only the program's query uses the plan cache. *)
Retry(s, q, prepared, c) ==
    IF PlanFailed(s.qry[q]) /\ prepared /\ s.qry[q].parent = 0
    THEN LET r == [s EXCEPT !.inst.plan = FALSE]
         IN  IF CanIssue(r) THEN NewParser(RequestPlan(r, q), q)
             ELSE DeleteUser([r EXCEPT !.qry[q].err = "nosvc"], q, c)
    ELSE [s EXCEPT !.qry[q].btimer = TRUE, !.inst.cnt = @ + 1]

(* lasterr after a chunk: the first error, or the one of a bad status. *)
LastErr(err, resp) ==
    IF resp.code # "ok" THEN IF resp.rc # "ok" THEN resp.rc ELSE "other"
    ELSE IF err = "ok" THEN resp.rc ELSE err

(* chunk_callback(); resp as in ViewChunk, a trailer is a body as well. *)
QueryChunk(s, h, resp, prepared, c) ==
    LET q == s.ht[h].owner
        e == [s EXCEPT !.qry[q].err = LastErr(@, resp)]
        f == [e EXCEPT !.qry[q].http = 0]
    IN  IF resp.final
        THEN IF MaybeRetry(f, f.qry[q]) THEN Retry(f, q, prepared, c) ELSE Delete(f, q, c)
        ELSE IF ~e.qry[q].cbk THEN Delete(e, q, c)
        ELSE IF ~e.qry[q].parsing \/ resp.body = "none" THEN e
        ELSE IF resp.body = "row" THEN QueryRow(e, q, resp.row, c)
        ELSE IF resp.body = "junk" THEN [e EXCEPT !.qry[q].err = "other", !.qry[q].parsing = FALSE]
        ELSE [e EXCEPT !.qry[q].meta = resp.body,
                       !.qry[q].first = CASE resp.body = "ok" -> @
                                          [] resp.body \in {"magic", "creds"} -> resp.body
                                          [] OTHER -> "none"]

OnTimeout(s, q, c) == Delete([s EXCEPT !.qry[q].err = IF @ = "ok" THEN "timeout" ELSE @], q, c)

(* on_backoff(); a query that cannot be sent is left to its timer. *)
OnBackoff(s, q, prepared) ==
    LET d == NewParser(DisarmBackoff(s, q), q)
    IN  IF ~CanIssue(d) THEN [d EXCEPT !.qry[q].err = "nosvc"]
        ELSE IF prepared /\ d.qry[q].parent = 0 THEN PlanOrPrepare(d, q) ELSE IssueHtreq(d, q)

=============================================================================
