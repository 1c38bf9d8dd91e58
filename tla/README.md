# TLA+ verification of libcouchbase

libcouchbase is a single-threaded, event-driven client library. This directory
holds TLA+ models of its core, the TLC runs that check them on small instances
and TLAPS proofs for instances of any size. Source paths below are relative to
the library core, `src/src/`.

## The system

The application schedules commands inside a scheduling context
(`lcb_sched_enter` ... `lcb_sched_leave`). A command becomes a packet
(`mc_PACKET`) of a pipeline (`mc_PIPELINE`, in fact a `lcb::Server`), chosen by
the cluster map; commands without a server go to the fallback pipeline. The
packet is linked in the pipeline's `requests` and, as bytes, in its send queue
(`nb_SENDQ`). The event loop writes the send queue, reads responses, runs timers
and reports errors; each of them may complete the command (its callback is
invoked), retry it (a renewed copy goes to the retry queue), or move it (a new
cluster map removed its server). All of this happens on one thread, and the
order of the events is arbitrary. That order is what the models explore.

| part | state | operations | what is hard |
|---|---|---|---|
| command queue, `mc/mcreq.c` | `ctxqueued`, `requests`, packet flags | sched enter/add/leave/fail, enqueue, renew, handled, timeout, iterwipe | two references to a packet, dropped in either order |
| send queue, `netbuf/netbuf.c` | `pending`, `pdus`, `pdu_offset`, `last_requested`, `last_offset` | enqueue, start/end flush, reset | short writes, several writes outstanding, unlinking from outside |
| server, `mcserver/mcserver.cc` | state, context, `io_timer` | flush, read, time out, connect, fail, drain, close | errors with writes outstanding, callbacks that schedule |
| retry queue, `retryq.cc` | `schedops`, `tmoops`, `RetryOp` | add, flush, fail, schedule | copies of a command in several lists, deadlines |
| cluster map, `newconfig.cc` | pipelines, vbucket map | replace servers, relocate requests | requests partly written or answered |
| collections, `collections.*` | cache, packets waiting for an ID | resolve, retry | a packet outside of any timed queue |
| I/O contexts, `lcbio/ctx.cc` | `npending`, buffers | put, schedule, close | completion model: results arrive after an error |
| connection pool, `lcbio/manager.cc` | idle, pending, leased connections | get, put, cancel, discard | timeout against completion |
| connecting, negotiation | addresses, SASL steps | connect, HELLO, SASL, select bucket | failures half way |
| configuration, `bucketconfig/*`, `bootstrap.cc` | providers, current map, state | start, stop, next provider, set configuration | stale configurations, restarts from callbacks |
| waiting, `wait.cc`, `aspend.h` | pending operations | wait, break out | nobody ends the loop |
| durability, `operations/durability*.cc` | entries, waiters, timer | poll, update, fail | a timer against the last response |
| HTTP, query, views | requests, redirects, rows | read, pause, cancel, retry | cancellation from callbacks |
| containers, `rdb/`, `ringbuffer.c`, `hostlist.cc`, `netbuf.c` (mblock) | buffers | append, consume, reserve, release | wrap-around, out-of-order release |

`PROJECT.json` lists every component with its status, and the hazards with the
properties that cover them.

## Modules

| module | models |
|---|---|
| `Sendq` | the send queue of one pipeline, byte by byte: `netbuf_start_flush`, `netbuf_end_flush`, `netbuf_end_flush2`, the flush callback of `mcreq-flush-inl.h`, `put_ex` under both I/O models, the drain of a failed connection, the unlinking done by `RetryQueue::add` |
| `Packets` | the life of commands and packets across pipelines, connections, the retry queue, collection lookups and cluster maps |
| `Retryq` | the retry queue with its clock: both sorted lists, the delays and deadlines, the timer, the error that is reported in the end |
| `Completion` | what the application is promised: a context is accepted or discarded as a whole, and the callback of an accepted command is invoked once |
| `PacketsProofs` | TLAPS proofs about `Packets`: the inductive invariant, the safety theorems, and that `Packets` implements `Completion` |
| `McServer` | one connection to a data node: `lcb::Server`, its attempts, its `io_timer`, reading, errors, draining and deletion, on the I/O context of `lcbio/ctx.cc` |
| `McServerInv`, `McServerProofs` | TLAPS proofs about `McServer`: the invariant and what each operation and each event does to it; the clock, the theorems, and that whoever waits for a `Server` is attended to |
| `Connect` | one connection attempt, address by address (`lcbio/connect.cc`) |
| `SockPool` | the connection pool of one host (`lcbio/manager.cc`), composed with `Connect` and with its users |
| `SockPoolInv`, `SockPoolProofs` | TLAPS proofs about `SockPool`: the invariant with lemmas about lists, counters and attempts, and the operations; the other actions and the theorems |
| `ConnectionRequest` | what the caller of `lcbio_connect` or `Pool::get` is promised |
| `Confmon` | the configuration monitor and the providers FILE, CCCP and HTTP |
| `Bootstrap` | `bootstrap.cc`, `lcb_wait`, `lcb_connect`, `lcb_open` and deferred operations, composed with `Confmon` |
| `BootstrapProofs` | TLAPS proofs about `Bootstrap`: the invariant with what each operation does to it, then the actions and the theorems |
| `HttpRequest` | the HTTP request object |
| `ViewRequest` | a view query and the queue that fetches the documents of its rows |
| `QueryRequest` | a query, its PREPARE and its retries |
| `HttpClients` | the events of `http_io.cc`, composed with the three modules above |
| `StreamRequest` | what a program that asks for rows is promised |
| `Durability` | one durability operation: the `Durset` of `operations/durability.cc` |
| `DurabilityInv`, `DurabilityProofs` | TLAPS proofs about `Durability`: the invariant of the counters and what each action does to it; the theorems |
| `MC*` | instances for TLC |

### Sendq

`sendq.pending` is the list of `nb_SNDQELEM` windows and `sendq.pdus` the list of
packets; a byte is abstracted to the packet it belongs to, so a window is a
sequence of packet names and the socket's contents is one too. `last_requested`
and `last_offset` are the cursor of `netbuf_start_flush`. When
`RetryQueue::add` unlinks the window under the cursor, the code keeps following
the `next` pointer of the unlinked element; `stale_next` is that pointer.
`pk.gone` counts the bytes of each packet that left the queue.

`Envs` is a set of environments; a behaviour chooses one of them in its initial
state and never changes it (`env`), so that one run covers several. `mode` is
the I/O model of `lcbio/ctx.cc`. Under "E" a write is
synchronous and may be short; under "C" it is submitted, completes later and in
full, and a response may overtake its completion. `conn` has the states of the
pipeline: idle (`flush_start` is `server_connect`, and the next operation
connects), connecting, up, an error that was signalled and not yet delivered,
and the drain of `S_ERRDRAIN`, in which outstanding writes are awaited. After a
failed connection `finalize_errored_ctx` connects again; after a failed attempt
`start_errored_ctx` does so only when a request is left, and is idle otherwise. After an error
has been signalled under "C" the pipeline may still submit writes. The other
fields say whether writes may be short or fail, which packets are detached, which
are copies that may be retried, and which are scheduled from a callback of the
purge.

### Packets

A packet is `<<c, i>>`, the i-th copy made for command `c` by
`mcreq_renew_packet`; copies share the opaque. Lists are sets, because none of
the properties depends on their order. `oppkt` is `RetryOp::pkt`. `flushed`,
`invoked` and `freed` are the packet's flags and its release. `conn[s]` is
`"none"` for a slot without a `Server`. `wire`, `sent` and `refused` are
history: what was written on the connection and not answered, what was ever
written, and what a server answered without executing it.

An action is one event of the event loop, with everything its handler does:
a response with each of its outcomes, a timeout, a connection made or failed, a
socket error with its purge, drain and reconnection, a pass over the retry
queue, the end of a collection lookup, a new cluster map. Which status codes
are retried (`lcb_kv_should_retry`, the error map, the retry strategy) is a
free choice, except that timeouts and `LCB_ERR_MAP_CHANGED` never are.

Left out of `Packets`: commands with several responses (STAT), destruction of
the instance, callbacks that schedule during a purge (they are in `Sendq`), and
asynchronous writes (also in `Sendq`). Events are not delivered while a
scheduling context is open, as the documentation of `lcb_sched_enter` requires
of the application.

### Retryq

`schedops` and `tmoops` are the two lists, `op[o]` is the `RetryOp` with the
retry count and the deadline of its packet, `timer` the time at which `tick`
runs. The clock (`now`) counts nanoseconds, settings and error map use
microseconds; `US` and `MS` are the factors between the units, small numbers
with the same truncations. A `RetryOp` gets its delay from `update_trytime`,
that is, from the error map's strategy (constant, linear, exponential, with
`after`, `ceil` and `max_duration`) or from `retry_interval` times the retry
count, whose width is `Width`. A tick fails what has expired, then sends what is
due within `Fuzz`, or puts it back (or fails it) when no server is known.
`reset_timeouts` is what `lcb_wait` does when the setting `readj_ts_wait` is on.
`real` is history: the commands whose last cause, timeouts and
`NOT_MY_VBUCKET` aside, was an error response or a missing server.

Left out of `Retryq`: `signal()`, which has no caller; callbacks that schedule
during `flush`; the wrap-around of the retry count after 256 retries (the width
is there, the bounds do not reach it).

### McServer

`srv` is the `Server`, `ctx` its `lcbio_CTX`, `net` the socket, `op` the
requests and `unsent` the ones not yet handed to the socket. Packets are whole
(`Sendq` has their bytes) and have no copies (`Packets` has them): one is in
the request queue, in the retry queue, moved to another server, or done. The
operators map the whole state `s` to the state after a call, so that a handler
is the composition of the calls it makes; an action applies it to `Now`. The
read loop of `try_read` is one action per response (`ReadResponse`), because
each response may call the application, apply a map or delete the server;
nothing else runs until `EndRead`. A map that comes with a response is applied
by a timer later (`NewMap`), also one that comes with NOT_MY_VBUCKET; only while
`lcb_open` waits for the first map of a bucket is it applied at once, inside the
handler (the kind "gone", when the map lacks the node). Time is relative: `rem` is the time a
request has left, `tmr` the time until `io_timer` fires.

Left out: selecting a bucket on a pooled socket, writes that take part of a
packet, a read that fails when it is submitted, forwarded packets, responses in
several parts. A callback of a purge schedules a request only when it is the
last one purged.

### Connect and SockPool

`cs[c]` is the attempt for connection `c` (`Connstart`), `info[c]` the state of
its `PoolConnInfo`, `req[r]` a `PoolRequest`. With event I/O an attempt watches
its socket; with completion I/O a `C_connect` is in flight and keeps a
reference of its own. Users get, cancel, put and discard between any two
events and inside the handlers that `on_connected` and `connection_available`
invoke: `loop` is the iteration that such a handler interrupts. A connection has
the number of the request whose `get` made it. The lists are sequences with
operators of their own (`Items`, `Unlink`), as those of the community modules
are defined by folds, about which little can be proved.

### Confmon and Bootstrap

A configuration is its position in the history of the cluster, with its
epoch and revision, whether it names a bucket, and its origin. `mon`, `cccp`,
`http`, `file` are the monitor and the providers, `bs` the `Bootstrap` object,
`inst` the instance with its pending counter (modulo `CountMod`, as the
counter of the code is unsigned), its deferred operations and callbacks. A
reply to a command whose cookie is no longer active stays in `cccp.stale` and
arrives later.

An HTTP stream answers for the bucket it was asked for when it was connected
(`http.sel`).

Left out: CLADMIN and MCRAW, configurations without a revision, the time of
the throttle, an HTTP stream that delivers a configuration in pieces, and a node
without a `Server` once there is a configuration, for which CCCP would make a
connection of its own (`CccpRequest`; that path is taken while there is no
configuration).

### HttpRequest, ViewRequest, QueryRequest, HttpClients

`ht[h]`, `view`, `docq` and `qry[q]` are the objects; `run` is the loop under
way (the parser over the data that was read, or a turn of the document queue),
one callback per step. A response is a number of items, the last of which is
the end. In every callback the program may cancel. The connection pool
answers a request once, as `SockPool` shows, and a document fetch is answered
once, as `Packets` shows.

A query is retried as `has_retriable_error` says with the default strategy,
`best_effort`; `err` is its `lasterr` and `meta` the kind of error in the
trailer of the response. As in the code, a read-only query whose answer has no
rows is sent again even when it succeeded, until its timer fires, and the
message of an earlier error still counts after a success (`first`).

Three things the code does are exceptions that the properties of the run name,
and nothing else is excepted; without the exception each is a disagreement of
the table below:

- `submit` refuses a host name that is too long and drops a reference, which
  `redirect` drops again (`out.refused`, in `SafeCallbacks`);
- a query that `on_backoff` cannot send again, as the new map has no query node,
  is not counted as pending (`Stranded`, in `PendingExact`);
- `parse_meta` keeps `lasterr` for an error code outside of its cases
  (`out.odd`, not asked for by `FinalTruthful`).

Left out: analytics, search and index management, which use the request in the
same way as a query without PREPARE; the contents of JSON; redirects of queries.

### Durability

`dur` is the `Durset`, `item[i]` an entry with the counters of its response and
`sinfo`, what is known of each server of its vbucket. A poll starts when no
request is left of the one before, and makes at most one for an item and a node:
`net[i][n]` is where the observe request is that was made for node `n` (with a
node, in the retry queue, or nowhere). `has[n][i]` is what node `n` has
of the mutation: nothing, in memory, on disk, or the same under an old
`vbucket_uuid` after a failover. `addr` gives the address of each node's
`Server`, because `prepare` compares addresses; a deleted server's address may
be used again. `past.moved` and `masters` are history. Time is relative, and a
timer may fire late.

An entry for which `add_endure` failed stays in the set, as in the code, and is
called back like the others; nothing is claimed of it (`token`).

## Runs

| run | instance | shows |
|---|---|---|
| `sendq` | 3 packets of 2, 1, 2 bytes; 2 windows per write; 2 failures; three environments: event I/O with short and failing writes, completion I/O, event I/O with retried copies and whole-window writes | the lists agree with each other and with the wire, the wire is framed, every packet is flushed, except one whose request is done in a pipeline that waits for the next operation |
| `packets` | 1 command, 2 servers, one removable, up to 5 copies, lookups | the command is completed exactly once, and eventually; one holder; no dangling packet |
| `packets_retry` | 2 commands, 1 server, up to 4 copies, no lookups | copies released when done and never before, `RetryOp::pkt` valid, refinement of `Completion` |
| `retryq` | three environments: two commands with a linear strategy; one command with every kind of error, exponential and constant strategies; one command whose timeout is reset | the timer covers both lists, retries are throttled, the cause of a failure is not masked, every operation leaves the queue |
| `server` | 2 packets, 2 failures, 1 retry, both I/O models; short-lived and moved requests, callbacks that schedule, removal of the server, every kind of response but a map without the node during `lcb_open` | no handler uses a deleted server, pending work is always attended, requests fail with a bounded delay, draining ends |
| `pool` | 2 requests and 2 addresses, 3 requests and 1 address, both I/O models | waiting requests are covered by attempts, connections are neither shared nor lost, references are exact, every address is tried, refinement of `ConnectionRequest` for requests and for attempts, idle connections end |
| `config` | 2 nodes; nine environments over the providers, a stale file, polling, compatibility mode, memcached buckets, `lcb_open` later or from a callback, deferred operations | the pending counter is exact, providers remain, configurations only go forward, a refresh ends unless the provider it waits for is disabled, the instance catches up, `lcb_wait` returns |
| `http` | 2 nodes, 3 requests, up to 6 items; plain requests and views with redirects to good, bad and refused URLs, views with documents and with rows that have none, queries, read-only and prepared ones, with every kind of error and with a map that drops the query service | no stale pointer or failed assertion, exact pending counter, truthful final callback (with the three exceptions named above), refinement of `StreamRequest`, paused requests resume, everything is released |
| `durability` | 3 nodes, 1 replica, 1 or 2 items; eight environments over the options, map changes, retries, a store, failover, `lcb_destroy` | the set lives exactly as long as it is needed; success only with the copies that were asked for; the master always has it; no early failure; it ends |

Three runs end in a violation; each is a disagreement between the code and a
comment or assertion in it, described under `findings` in `PROJECT.json`:

| run | what happens |
|---|---|
| `http_view` | a view that is cut off after the status line 200 ends with `LCB_SUCCESS` |
| `server_gone` | `lcb_open` fetches the bucket's map over a `Server` of a node that is not in it; the map is applied inside the response handler and the `Server` is deleted below `try_read` |
| `durability_retried` | an observe request for a replica is retried, goes to the master, and the master is counted twice |

Further disagreements are not runs of the project but can be reproduced with
the configurations kept for them or, where the table names a set of
environments of the `MC` module, with the configuration of the `config`,
`durability` or `http` run in which `Envs` (and `Maps`) is that set and the property is
the only one.
Each violates the property it names:

| configuration | what happens |
|---|---|
| `MCSendqRetryWrite` | `EndFlushAsserts`: a retried packet is unlinked while its write is outstanding; the completion fails the assertion of `netbuf_end_flush` |
| `MCSendqRetryPartial` | `FlushedIsGone`: a partly written packet is unlinked, `pdu_offset` is not reset, and the next packet counts as flushed too early |
| `MCSendqWriteError` | `InFlightPinned`: under completion I/O a write that fails at once is accounted to the packets of the write before it |
| `MCSendqReentrant` | `WaitingWasSent`: a request scheduled from a callback of the purge is marked as flushed without having been sent |
| `MCPacketsOpPkt` | `OpPktValid`: a collection lookup renews a retried packet; `RetryOp::pkt` is left pointing to the released one |
| `MCPacketsTwice` | `SentOnce`: after a failed connection attempt both the original and the retried copy of a command are sent |
| `MCRetryqReset` | `TmoOrdered`: `reset_timeouts` changes the deadlines and leaves `tmoops` in the old order |
| `MCSockPoolCancel` | `SafeIteration`: a handler told of a failure cancels the request that `on_connected` saved as the next one |
| `Envs <- MCMixed` | `RefreshAttended`: HTTP is disabled while a refresh waits for it; the refresh stays active with nobody to end it |
| `Envs <- MCDefer` | `WaitReturns`: the bootstrap fails with operations deferred, and `lcb_wait` does not return |
| `Envs <- MCOpen` | `OpenAnswered`: `lcb_open` during a refresh is not answered |
| `Envs <- MCKetama` | `ProvidersRemain`: a memcached bucket disables CCCP, a late CCCP reply then disables HTTP, and no provider is left (the assertion of `Confmon::prepare`) |
| `Envs <- HttpEnvs` (or `ViewEnvs`) | `AssertionsHold`: a redirect names a host that is too long; `submit`, `finish` and `io_read` drop three references of two (the assertion of `http.cc:198`, on a request that is gone) |
| `Envs <- PlainQueries` (or `PreparedQueries`) | `OwedIsPending`: a query cannot be sent again after its backoff; nothing is pending and `lcb_wait` returns, although the final callback is still to come from the query's timer |
| `Envs <- PlainQueries` | `Truthful`: a response with status 200 and an error whose code `parse_meta` does not know ends with `LCB_SUCCESS` |
| `MCHttpClientsDocs` | `AssertionsHold`: a view is cancelled while its documents are being fetched; the assertion of `docreq.cc:163` fails |
| `MCMcServerLate` | `FailsAtDeadline`: a request that is alone in its pipeline, or was retried or moved there, fails after its deadline; `LateBounded` has the bound |
| `Envs <- MCPromoted` | `DurableWhenAsked`: after a failover `old_seqno` counts as persisted, though the node may have the mutation in memory only |
| `Envs <- MCReused`, `Maps <- MCReusedMaps` | `DurableWhenAsked`: a replica leaves the map and returns as the master; a new node, whose `Server` is at the replica's old address, takes its place, and what the replica answered is counted for both |
| `Envs <- MCDestroyed` | `DursetLive`: `lcb_destroy` deletes the set, then the retry queue fails an observe request that points to it |

`WaitingWasSent` is checked under event I/O only. Under completion I/O a
request enqueued while the pipeline drains is marked as flushed by
`finalize_errored_ctx` too, which is the disagreement of `MCSendqReentrant` once
more.

### Bounds

`MaxFails` bounds the failures of established connections (failed attempts
are not bounded in `Sendq`): two let a failure hit what was enqueued
during the recovery from the first one. Packets of one and two bytes tell a
window boundary, a packet boundary and the middle of a packet apart; two
windows per write and three packets leave a window that was not handed out.
`MaxCopies` bounds the packets made for one command. Three allow a retry of a
retry, which is when `RetryOp::pkt` is first used; four also a lookup between
them, five a relocation as well. Two servers are needed for a relocation, two commands for a batch and
for a purge that retries one command and fails the other. Commands are
symmetric in `packets_retry`; servers are not, as one of them is removable.
In `Retryq`, `MaxRetries` = 2 gives a command its first retry, where `after`
applies, and one more, where the strategies differ; `MaxTime` = 6 exceeds both
timeouts (3 and 5), so that every deadline passes, and a command is only issued
when its deadline is within `MaxTime`. `US` = `MS` = 2 make a division truncate.
Deadline resets are checked with one command (with two, `TmoOrdered` fails:
`MCRetryqReset`).
In `McServer` two packets tell "the last request" from "some request", two
failures let one hit the recovery from the other, and `OpTimeout` = 2 and
`NodeTimeout` = 3 differ, so that the two terms of `LateBounded` can be told
apart. In `SockPool` the connections are as many as the requests that can
start one; three requests are needed for one to wait while another is served in
the handler of a third. In `Bootstrap` a history of two configurations makes a
stale one possible, three an answer that is stale twice; `CountMod` = 8 only has
to exceed what the counter reaches. In `HttpClients` one redirect and one
failure per request suffice for "again on another node", three handles for a
query, its PREPARE and a second PREPARE; `items` are the responses' parts and
`MaxBad` the errors that make a query try again. A PREPARE that was let go lives until
its response ends, so that a server which answers faster than that could make
any number of them: after "magic", success is only answered when no other
PREPARE is alive (`Trailers`). The environments of prepared queries share out
the kinds of trailers; a plain query meets them all. In
`Durability` one replica is the smallest bucket in which `persist_to` = 2 and
`replicate_to` = 1 mean something; a third node is there to replace a node by a
new one at an address used before; `Timeout` is twice `Interval`, which gives
an initial poll and one repeated poll before the deadline.
`maps`, `retries` and `failover` in `Envs` bound what the cluster does.

Deadlock is not checked in any run: when the work is complete, nothing has to happen.

### Fairness

Safety runs assume none. `EventuallyFlushed` assumes that a connection
attempt ends, in success or in failure (it has a timeout), that a writable socket is reported again and some write makes
progress, that a submitted write completes and that a signalled error is
delivered; these are the obligations of the event loop and of the plugin behind
`lcbio`. `EventuallyCalled` assumes that the application closes its scheduling
context, that the `io_timer` of a server fires for requests past their deadline
(it is armed by `mcreq_sched_add`, `handle_connected`, `io_timeout` and
`flush`), that the timer of the retry queue fires (`RetryQueue::schedule`) and
that the GET_CID request, which has a deadline itself, completes. `Leaves` assumes that
the clock goes on and that a timer that is due fires; it excludes environments
with resets, which may postpone a deadline for ever.

`Drains` assumes that the read loop goes on and that, on a socket that was shut
down, an outstanding read or write completes. `IdleEnds` and
the two refinements of `ConnectionRequest` assume that timers fire (of a
request, of an attempt, of an idle connection) and that a loop over handlers
ends. The properties of `Bootstrap` assume that a scheduled call or an armed
timer comes, and that a connection request, and a command on a connection, is
answered, with success or failure: `ConnectionRequest` and `Completion` promise
that. `PausedResumes` and `Released` assume the same of the timers of requests
and queries and of document fetches; a program is assumed to let the loop run.
In the environments with documents a request that is paused is not timed out
(`patient`), as otherwise the timeout alone would end every pause.
`Ends` assumes that time passes, a due timer fires and every observe request
ends, which `EventuallyCalled` shows. Most of these are weak fairness, written
out as "infinitely often not possible, or infinitely often taken". Nothing is
assumed of servers or of the network.

## Proofs

`PacketsProofs` proves, for any sets of commands and servers, any number of copies, with and
without collection lookups and removable servers:

| theorem | statement |
|---|---|
| `Inductive` | `Spec => []IInv` |
| `TypeCorrect` | `Spec => []TypeOK` |
| `CallbackExactlyOnce` | `Spec => []ExactlyOnce` |
| `HeldByOneQueue` | `Spec => []OneHolder` |
| `NoDanglingPackets` | `Spec => []QueuedAreLive` |
| `Refinement` | `Spec => ImplementsCompletion`, that is, `Packets` implements `Completion` |
| `RetriesAreSafe` | without collection lookups (`~Collections`) and removable servers (`Removable = {}`): `Spec => []RetrySafe` |

The only assumption is `PacketsAssumption`. None of the four invariants is
inductive. `IInv` adds what makes them so: a packet that waits anywhere is the
latest copy of its command (`HeldAreCurrent`) and waits in one place
(`HeldOnce`); no packet with a higher number is known to any list or flag
(`NothingAhead`), so that a renewed copy is fresh; a packet that waits is not
invoked and its command is open (`HeldNotDone`); a packet to be
written is neither flushed nor released, is on one server only, and is not in
the retry queue (`SendQueues`); the copies known to `RetryOp` exist (`RetryOps`); every open
command is held (`Accounted`). There is one lemma per action, or per family of
actions that share `Leave`, and one step per conjunct in it. The refinement
uses that under `IInv` the status of a command is decided by its latest copy
(`StatusIs`), and shows that each action is a step of `Completion` or leaves
all statuses as they are.

The hypotheses of `RetriesAreSafe` are those of the `packets_retry` run, and
needed: `MCPacketsOpPkt` has a lookup that leaves `RetryOp::pkt` dangling. `RInv`
is what makes `RetrySafe` inductive on top of `IInv`: `RetryOp::pkt`, once set,
is the latest copy, and so is every copy but the first that is still to be
written.

`McServerInv` and `McServerProofs` prove, for any number of packets,
failures and retries, any timeouts and both I/O models:

| theorem | statement |
|---|---|
| `ServerIsLive` | `MapsKeepNode`, `Spec => []ServerLive`: no handler uses a deleted `Server`, no attempt is forgotten, and deletion leaves no timer, context or attempt |
| `LatenessIsBounded` | `MapsKeepNode`, `Spec => []LateBounded`: a request is failed less than `OpTimeout + NodeTimeout` after its deadline |
| `AlwaysAttended` | `MapsKeepNode`, `Spec => []Attended`: there is always an attempt, an event, an operation or a signalled error that goes on with what is pending |

`MapsKeepNode` says that no map that `lcb_open` fetches over a `Server` lacks
the node of that `Server`; the run `server_gone` shows that `ServerLive` needs it. Handlers of the
server call one another, and in the middle of one the invariant of the event
loop does not hold: after `mcreq_sched_add` there are requests that no timer
covers, and after an error a context without an attempt. So there are two
predicates. `Mid` holds at every call: the state of the server, its
`flush_start`, its attempt, its timer and its context fit together (`Ctl`); no
request is late by more than the bound, nor will be when the timer fires
(`Timed`); a request that nothing covers is not late at all (`Fresh`).
`Settled` adds what holds when a handler returns. There is a lemma for each
operation that says from which of the two it starts and in which it ends, and
the actions compose the lemmas. `Attended` needs one more invariant, `Served`:
a server that connects on demand has no requests, one in error or closed waits
for an operation (`Drained`), and in a context that is up everything that is
to be written or read is wanted (`Wants`) and what is wanted has an event
watched or an operation started (`Scheduled`), unless an error was signalled.
In the middle of a handler the last part is missing; `Callable` and `Wanting`
are what the operations have there. Both invariants were checked with TLC on
the instance of the `server` run before they were proved.

`SockPoolInv` and `SockPoolProofs` prove, for any numbers of
requests and addresses, both I/O models, and users that get, cancel, put and
discard between events and inside handlers:

| theorem | statement |
|---|---|
| `PoolInvariant` | `Spec => []IInv` |
| `WaitersAlwaysCovered` | `Spec => []WaitersCovered`: in the event loop at least as many attempts are under way as requests wait |
| `AddressesAlwaysTried` | `Spec => []EveryAddressTried` |
| `OwnershipUntilAbort` | `Ownership` holds as long as no attempt has aborted (`cs[c].st # "abort"`): connections are neither shared nor lost, and all references are exact |
| `OwnershipAlways` | if no environment with completion I/O has `late_cancel`: `Spec => []Ownership` |

`PoolAssumption` and `ConnectAssumption` are the only assumptions. The abort is
the failing assertion of `Connstart::cancel`: with completion I/O, `shutdown`
may fall between the result of an attempt and its delivery (`late_cancel`), and
the program then ends with the references of that attempt as they are. `IInv`
says which list each connection is in, by its state, and who has it (`Placed`);
that waiting requests are listed once (`Listed`); what each attempt and each
connection has in references (`Trying`, `Counted`); and that the counters of
host and pool are those of the living connections (`Counters`). `Covered` is the
part that is not at rest in a loop over handlers: before the first handler of
`on_connected` has been invoked, the attempt that ended is missing, and the
iteration is at the first request of the list.

`BootstrapProofs` proves, for any number of nodes, any
histories of configurations, any choice of providers and every order of
timeouts, late replies and refreshes:

| theorem | statement |
|---|---|
| `PendingCounter` | if every environment `recreates`: `Spec => []CounterExact` |
| `SomeProvider` | if no environment has a memcached bucket (`ketama`): `Spec => []ProvidersRemain` |
| `NeverBack` | if in every environment the bucket is not opened later (`opens = "never"`) and epochs and revisions do not decrease (`Ordered`): `Spec => ConfigForward` |

The hypotheses are needed; TLC finds the property violated without them. An
instance that is used on after its bootstrap failed may get a configuration
after `initial_error` took its pending operation away, and `config_callback`
takes it away once more. With a memcached bucket that is opened later, a late
reply over CCCP disables the last provider (`MCKetama`). With a later
`lcb_open` and three configurations, a late reply that names no bucket
replaces, by its revision, the first configuration that does; then an older one
that names the bucket is accepted. What the run has beyond the hypotheses (a
memcached bucket from the start; `lcb_open` in a cluster that does not change)
is only model-checked. Besides these, `ConfmonAssumption` and `CountAssumption`
are used.

All operations of the monitor, the providers and the listener map the whole
state to a state and call one another, so the lemmas speak of the operations:
`Keeps(r, s)` says that `r` has what the invariant needs if `s` has it, and
that no bootstrap failed between them; `Ends(r, s)` allows a bootstrap to end
in an error; `Asks` and `Rests` are operations that only start or stop
requests. These relations compose. The invariant `Inv` says: nothing happens
before `lcb_connect`; the counter is exact, and without a bucket a
configuration means that the bootstrap is done, so that `lcb_open` never
starts a second one (`Counted`); the list is that of the enabled providers, and
either FILE or CCCP is enabled or nothing may arrive over CCCP that disables
HTTP (`Remaining`); every configuration anywhere, the ones cached by providers
included, is one of the history and names the bucket exactly if the instance
does, the commands whose reply is outstanding included, and the instance is not
ahead of the monitor (`Uniform`). TLC checked it over the environments of the
run and further ones before it was proved.

`DurabilityInv` and `DurabilityProofs` prove, for any number of nodes, replicas,
items, map changes and retries, any timeout and interval:

| theorem | statement |
|---|---|
| `ExactUntilDestroyed` | `Spec => [](dur.ph # "destroyed" => CountsExact)` |
| `CountsAlwaysExact` | if no environment has both `destroys` and `retries`: `Spec => []CountsExact` |
| `NeverEarly` | `Spec => NotEarly` |
| `MasterAlwaysHolds` | if no environment has `"mem"` in `failover`: `Spec => []MasterHolds` |
| `AlwaysDurableWhenAsked` | if no environment has `"mem"` in `failover`: `Spec /\ [][NoReuse]_vars => []DurableWhenAsked` |

`DurabilityAssumption` is the only assumption on the constants. The other
hypotheses are needed: `MCDestroyed`, `MCPromoted` and `MCReused` are what
happens without them (`CountsExact` is violated together with `DursetLive`).
`NoReuse` says that a `Server` is not allocated at an address that an item
remembers in `sinfo`; the maps of the `durability` run allow such an address to
be used again, but in no way that falsifies the property, so there the run shows
a little more than the theorem.

The invariant `Good` has the types of all fields and `Rest`, the counters
between two events: `waiting` is the number of requests wherever they are,
`nremaining` that of the items not called back, and `refcnt` has one reference
for either as long as it is not zero. Inside an event some requests have ended
that are still counted and the running code holds references of its own;
`Balanced(s, k, x)` is the same with `k` and `x` of those, and the lemmas of the
operations say how they change them. `Timing` relates the timer and the state
it is for to the deadline, which is what `NotEarly` needs. For each action
`Steps` also says what else it does (`Effect`): it sets up an entry, prepares a
poll, digests an answer, loses requests, moves one, changes the map or lets a
node store. The last two theorems use only that. For `MasterHolds` the
invariant `Vouched` says that what an entry knows of the master, in its
counters or in `sinfo`, some node that answered as the master has.
For `DurableWhenAsked` it is `Proven`: what `sinfo` says of an address is true
of the node whose `Server` is there (`Remembered`), and the counters are
witnessed by sets of different nodes, none of which is still to answer
(`Evident`). So an answer that is counted adds a node to the sets, which is
where a retried request, whose answer comes from the master once more, would
break it. TLC checked `Vouched` and `Proven` on the environments of the run and
with further map changes before they were proved.

Only model-checked: the properties of `Retryq`, `Sendq` and `HttpClients`
(those of `Sendq` count bytes over sequences, which needs induction over data;
those of `Retryq` and `HttpClients` have no proof yet), and all liveness properties, including the ones of `ConnectionRequest` (fairness
and ENABLED are beyond the proof system). The invariants `TypeOK` of the
modules are not part of the runs; the one of `Packets` is proved, and the
invariant of `McServer` has a type for every field of its state.

## Not modelled

- Session negotiation (`mcserver/negotiate.cc`): a fixed exchange on a
  connection of its own. `McServer` has its outcome and its timeout.
- Key-value operations and response handlers: they encode a request and decode
  a response. What they do to packets is in `Packets`. Operations in several
  packets (STAT, observe, ping) count their responses; `Durability` has the one
  in which the count decides something.
- vbucket maps: lookups in a table and a parser. Maps are values here. The
  guesses of `vbucket.c` (which node to try when the map is wrong) are a choice
  of the server in `Packets`.
- Containers (`rdb/`, `ringbuffer.c`, `hostlist.cc`, the block allocator of
  `netbuf.c`): sequential data structures with unit tests. Their contents are
  sequences and sets in the models.
- TLS, compression, encryption, tracing, metrics, logging, I/O plugins, tools
  and the vendored libraries under `contrib/`: other code, or code
  that takes no part in what is promised here. They are most of the lines of the
  repository.
