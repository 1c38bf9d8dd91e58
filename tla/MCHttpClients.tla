--------------------------- MODULE MCHttpClients ---------------------------
(* Instances of HttpClients for TLC. *)
EXTENDS HttpClients

Program ==
    [kind |-> "http", data |-> TRUE, stream |-> TRUE, docs |-> FALSE, prepared |-> FALSE,
     plan |-> FALSE, cancels |-> FALSE, destroys |-> FALSE, rejects |-> FALSE, long |-> FALSE,
     nosvc |-> FALSE, completion |-> FALSE, patient |-> FALSE, redirects |-> TRUE,
     ids |-> TRUE, readonly |-> FALSE, trailers |-> {"ok", "bad", "odd"} \cup Again,
     items |-> 4, revs |-> 2]

(* Plain requests: streamed or not, to any node or to one. *)
HttpEnvs ==
    {[Program EXCEPT !.stream = st, !.data = d, !.cancels = TRUE, !.destroys = TRUE, !.long = TRUE] :
        st \in BOOLEAN, d \in BOOLEAN}

ViewEnvs == {[Program EXCEPT !.kind = "view", !.cancels = TRUE, !.long = TRUE]}

DocEnvs ==
    {[Program EXCEPT !.kind = "view", !.docs = TRUE, !.completion = co, !.patient = TRUE,
                     !.items = 6] : co \in BOOLEAN}
        \cup {[Program EXCEPT !.kind = "view", !.docs = TRUE, !.ids = FALSE, !.cancels = TRUE,
                              !.redirects = FALSE]}

Query == [Program EXCEPT !.kind = "query", !.redirects = FALSE, !.items = 3, !.revs = 1]
Prepared == [Query EXCEPT !.prepared = TRUE, !.plan = TRUE]

(* Read-only or not, cancelled or not; a map that drops the query service. *)
PlainQueries ==
    {[Query EXCEPT !.cancels = TRUE, !.items = 4],
     [Query EXCEPT !.readonly = TRUE, !.nosvc = TRUE, !.revs = 2]}

PreparedQueries ==
    {[Prepared EXCEPT !.cancels = TRUE, !.trailers = {"ok", "bad", "stale"}],
     [Prepared EXCEPT !.trailers = {"ok", "odd", "auth"}, !.nosvc = TRUE, !.revs = 2],
     [Prepared EXCEPT !.plan = FALSE, !.trailers = {"ok", "magic"}]}

QueryEnvs == PlainQueries \cup PreparedQueries

MCEnvs == HttpEnvs \cup ViewEnvs \cup DocEnvs \cup QueryEnvs

(* A program that cancels its view while documents are being fetched. *)
MCDocCancel ==
    {[Program EXCEPT !.kind = "view", !.docs = TRUE, !.cancels = TRUE, !.redirects = FALSE]}

=============================================================================
