------------------------------- MODULE Retryq -------------------------------
(***************************************************************************)
(* The retry queue (retryq.cc) with its clock: the two intrusive lists,    *)
(* the delays computed by update_trytime and by the error map              *)
(* (errmap::RetrySpec), the deadlines and the single timer.                *)
(*                                                                         *)
(* Time is in nanoseconds, settings and error map are in microseconds and  *)
(* timers are armed with whole microseconds: US and MS are the factors     *)
(* between the units, so that the truncations of LCB_NS2US and of          *)
(* get_next_interval are those of the code on small numbers. An operation  *)
(* is a RetryOp; where its packet is meanwhile is "st".                    *)
(***************************************************************************)
EXTENDS Integers, Sequences, SequencesExt, FiniteSets

CONSTANTS
  Ops,            \* the commands
  Timeout,        \* the operation timeout of each command (ns)
  Envs,           \* the environments to consider, each a record of
                  \*   ops: the commands the application issues
                  \*   specs: retry specifications of the server's error map
                  \*   neterrors: errors that connections fail with
                  \*   nmv_retry_imm: the setting of this name
                  \*   reset: lcb_wait() resets the timeouts (readj_ts_wait)
  RetryInterval,  \* settings->retry_interval (us)
  NmvInterval,    \* settings->retry_nmv_interval (us)
  Fuzz,           \* TIMEFUZZ_NS
  US, MS,         \* nanoseconds per microsecond, microseconds per millisecond
  Width,          \* mc_PACKET::retries has this many bits
  MaxRetries,     \* bound: times a command may be added
  MaxTime,        \* bound: the clock
  NULL

RetrySpecs == [strategy : {"CONSTANT", "LINEAR", "EXPONENTIAL"}, interval : Nat,
               after : Nat, ceil : Nat, max_duration : Nat]

ASSUME RetryqAssumption ==
  /\ Timeout \in [Ops -> Nat]
  /\ {RetryInterval, NmvInterval, US, MS, Width} \subseteq Nat \ {0}
  /\ {Fuzz, MaxRetries, MaxTime} \subseteq Nat
  /\ NULL \notin RetrySpecs
  /\ \A e \in Envs :
       /\ e.ops \subseteq Ops /\ e.specs \subseteq RetrySpecs
       /\ e.neterrors \subseteq {"NETWORK", "CONNECT_ERROR", "BUCKET_NOT_FOUND"}
       /\ e.nmv_retry_imm \in BOOLEAN /\ e.reset \in BOOLEAN
       /\ e.specs # {} => MaxRetries + MaxTime < 2 ^ Width

VARIABLES
  env,       \* the environment of this behaviour; it never changes
  now,       \* gethrtime()
  st,        \* "idle", "sent" (in a pipeline), "queued", "done", "failed"
  op,        \* the RetryOp of each command (start, deadline, trytime, origerr,
             \* origstatus, spec) and whether it exists; the retry count of its
             \* packet and "due", the deadline in the packet's request data
  schedops,  \* operations in the order of their retries
  tmoops,    \* operations in the order of their deadlines
  timer,     \* when the timer is due, or NULL
  result,    \* the error passed to the callback of a failed command
  real       \* history: the commands whose last cause for being queued, other
             \* than a timeout, was an error response or a missing server

vars == <<env, now, st, op, schedops, tmoops, timer, result, real>>

(* LCB_ERROR_IS_NETWORK *)
Network == {"TIMEOUT", "NOT_MY_VBUCKET", "NETWORK", "CONNECT_ERROR"}

(* What makes a pipeline retry a command: purge_single with the error of   *)
(* the connection, an unknown collection, an error response with or        *)
(* without a retry specification.                                          *)
Failures ==
  {[err |-> e, status |-> "UNSPECIFIED", spec |-> NULL] : e \in env.neterrors}
  \cup {[err |-> "TIMEOUT", status |-> "UNKNOWN_COLLECTION", spec |-> NULL]}
  \cup {[err |-> "TEMPORARY_FAILURE", status |-> "ETMPFAIL", spec |-> s] :
          s \in env.specs \cup {NULL}}

-----------------------------------------------------------------------------
(* lcb_list_add_sorted: before the first element that is greater *)
add_sorted(list, o, key) ==
  LET before == {i \in 1..Len(list) : key[o] < key[list[i]]}
  IN IF before = {} THEN Append(list, o)
     ELSE InsertAt(list, CHOOSE i \in before : \A j \in before : i <= j, o)

add_all_sorted(list, os, key) ==
  LET upto[n \in 0..Len(os)] ==
        IF n = 0 THEN list ELSE add_sorted(upto[n - 1], os[n], key)
  IN upto[Len(os)]

(* RetrySpec::get_next_interval *)
get_next_interval(spec, attempts) ==
  LET base == spec.interval \div MS
      cur == IF spec.strategy = "LINEAR" THEN attempts * spec.interval
             ELSE IF attempts = 0 THEN MS ELSE (base ^ attempts) * MS
  IN IF spec.strategy = "CONSTANT" THEN spec.interval
     ELSE IF spec.ceil # 0 /\ spec.ceil < cur THEN spec.ceil ELSE cur

update_trytime_NoDefault(r, t) ==
  LET us == get_next_interval(r.spec, r.retries - 1)
              + (IF r.retries = 1 THEN r.spec.after ELSE 0)
  IN IF r.spec # NULL THEN t + us * US ELSE t + RetryInterval * US * r.retries

(* RetryQueue::update_trytime *)
update_trytime(r, t) ==
  LET us == get_next_interval(r.spec, r.retries - 1)
              + (IF r.retries = 1 THEN r.spec.after ELSE 0)
  IN IF r.spec # NULL /\ r.retries # 0 /\ us # 0 THEN t + us * US
     ELSE t + RetryInterval * US * r.retries

assign_error_Last(orig, e) == IF e = "NOT_MY_VBUCKET" THEN "TIMEOUT" ELSE e

(* assign_error: the error an operation has after one more *)
assign_error(orig, e) ==
  LET err == IF e = "NOT_MY_VBUCKET" THEN "TIMEOUT" ELSE e
      first == IF orig = "SUCCESS" THEN err ELSE orig
  IN IF \/ err = "TIMEOUT"
        \/ first \in Network \ {"TIMEOUT"} /\ err \in {"NETWORK", "CONNECT_ERROR"}
     THEN first ELSE err

(* RetryQueue::fail: the error the callback is given *)
Reported(r, err) ==
  LET orig == assign_error(r.origerr, err)
  IN IF \/ r.origstatus = "UNSPECIFIED" /\ orig \in Network
        \/ orig = "BUCKET_NOT_FOUND"
     THEN err ELSE orig

schedule_RetryOnly(sched, tmo, r) ==
  IF sched = <<>> THEN NULL
  ELSE LET next == r[Head(sched)].trytime
       IN IF next <= now THEN now ELSE now + ((next - now) \div US) * US

schedule_Once(sched, tmo, r) ==
  IF sched = <<>> \/ (timer # NULL /\ timer <= now) THEN NULL
  ELSE now + ((r[Head(sched)].trytime - now) \div US) * US

(* RetryQueue::schedule: when the timer is due for these lists *)
schedule(sched, tmo, r) ==
  IF sched = <<>> THEN NULL
  ELSE LET schednext == r[Head(sched)].trytime
           tmonext == r[Head(tmo)].deadline
           selected == IF schednext > tmonext THEN tmonext ELSE schednext
       IN IF selected <= now THEN now
          ELSE now + ((selected - now) \div US) * US

-----------------------------------------------------------------------------
NoOp == [exists |-> FALSE, start |-> 0, deadline |-> 0, due |-> 0, trytime |-> 0,
         retries |-> 0, origerr |-> "SUCCESS", origstatus |-> "SUCCESS", spec |-> NULL]

Init ==
  /\ env \in Envs
  /\ now = 0
  /\ st = [o \in Ops |-> "idle"]
  /\ op = [o \in Ops |-> NoOp]
  /\ schedops = <<>> /\ tmoops = <<>> /\ timer = NULL
  /\ result = [o \in Ops |-> NULL]
  /\ real = {}

Issued(o) ==
  [NoOp EXCEPT !.start = now, !.deadline = now + Timeout[o], !.due = now + Timeout[o]]

(* A command is scheduled in a pipeline; its request data get a deadline *)
Issue(o) ==
  /\ st[o] = "idle" /\ o \in env.ops /\ now + Timeout[o] <= MaxTime
  /\ st' = [st EXCEPT ![o] = "sent"]
  /\ op' = [op EXCEPT ![o] = Issued(o)]
  /\ UNCHANGED <<env, now, schedops, tmoops, timer, result, real>>

(* The constructor of RetryOp in RetryQueue::add: the deadline is brought  *)
(* forward when the error map limits the duration of the retries.          *)
Created(r, spec) ==
  LET operation_timeout == (r.deadline - r.start) \div US
      diff == IF spec # NULL /\ spec.max_duration # 0
                   /\ spec.max_duration < operation_timeout
              THEN operation_timeout - spec.max_duration ELSE 0
  IN IF r.exists THEN r
     ELSE [r EXCEPT !.exists = TRUE, !.spec = spec, !.start = @ - diff * US,
                    !.deadline = @ - diff * US]

(* RetryQueue::add of the packet r, with a delay of its own (a number) or  *)
(* the one of update_trytime (NULL).                                       *)
add(o, issued, err, status, spec, delay) ==
  LET c == [Created(issued, spec) EXCEPT !.origstatus = status,
              !.retries = (@ + 1) % 2 ^ Width, !.origerr = assign_error(@, err)]
      r == [c EXCEPT !.trytime = IF delay = NULL THEN update_trytime(c, now)
                                 ELSE now + delay * US]
      ops == [op EXCEPT ![o] = r]
      sched == add_sorted(schedops, o, [x \in Ops |-> ops[x].trytime])
      tmo == add_sorted(tmoops, o, [x \in Ops |-> ops[x].deadline])
  IN /\ op[o].retries < MaxRetries
     /\ op' = ops /\ schedops' = sched /\ tmoops' = tmo
     /\ timer' = schedule(sched, tmo, ops)
     /\ st' = [st EXCEPT ![o] = "queued"]
     /\ real' = IF err \in {"TIMEOUT", "NOT_MY_VBUCKET"} THEN real
                ELSE IF err \in {"TEMPORARY_FAILURE", "NO_MATCHING_SERVER"}
                THEN real \cup {o} ELSE real \ {o}
     /\ UNCHANGED <<env, now, result>>

(* A response or an error of the pipeline is retried (handle_unknown_error, *)
(* maybe_retry_packet, handle_unknown_collection)                           *)
AddFailed(o, f) ==
  /\ st[o] = "sent"
  /\ add(o, op[o], f.err, f.status, f.spec, NULL)

nmvadd(o) ==
  /\ st[o] = "sent"
  /\ add(o, op[o], "NOT_MY_VBUCKET", "NOT_MY_VBUCKET", NULL,
         IF env.nmv_retry_imm THEN 0 ELSE NmvInterval)

(* A command is scheduled while its vbucket has no server *)
add_fallback(o) ==
  /\ st[o] = "idle" /\ o \in env.ops /\ now + Timeout[o] <= MaxTime
  /\ add(o, Issued(o), "NO_MATCHING_SERVER", "UNSPECIFIED", NULL, 0)

Answered(o) ==
  /\ st[o] = "sent"
  /\ st' = [st EXCEPT ![o] = "done"] /\ op' = [op EXCEPT ![o] = NoOp]
  /\ UNCHANGED <<env, now, schedops, tmoops, timer, result, real>>

(* purge_single of a request past its deadline: error_for replaces the error *)
TimedOut(o) ==
  /\ st[o] = "sent" /\ op[o].due <= now
  /\ st' = [st EXCEPT ![o] = "failed"] /\ op' = [op EXCEPT ![o] = NoOp]
  /\ result' = [result EXCEPT ![o] = IF op[o].exists THEN op[o].origerr ELSE "TIMEOUT"]
  /\ UNCHANGED <<env, now, schedops, tmoops, timer, real>>

-----------------------------------------------------------------------------
(* The first loop of RetryQueue::flush: the operations it finds expired *)
Expired(tmo) ==
  LET n == CHOOSE i \in 0..Len(tmo) :
             /\ \A j \in 1..i : op[tmo[j]].deadline <= now
             /\ i < Len(tmo) => op[tmo[i + 1]].deadline > now
  IN ToSet(SubSeq(tmo, 1, n))

(* The second loop: the operations it tries, in order *)
Due(sched) ==
  LET n == CHOOSE i \in 0..Len(sched) :
             /\ \A j \in 1..i : op[sched[j]].trytime - Fuzz <= now
             /\ i < Len(sched) => op[sched[i + 1]].trytime - Fuzz > now
  IN SubSeq(sched, 1, n)

(* erase *)
Without(list, os) == SelectSeq(list, LAMBDA o : o \notin os)

(* RetryQueue::flush(true). "lost" are the operations whose vbucket has no *)
(* server, "keep" says whether they wait for a new configuration.          *)
flush(lost, keep) ==
  LET expired == Expired(tmoops)
      due == Due(Without(schedops, expired))
      resched == IF keep THEN SelectSeq(due, LAMBDA o : o \in lost) ELSE <<>>
      noserver == IF keep THEN {} ELSE ToSet(due) \cap lost
      gone == expired \cup ToSet(due)
      ops == [o \in Ops |->
                IF o \in ToSet(resched)
                THEN LET r == [op[o] EXCEPT !.retries = (@ + 1) % 2 ^ Width,
                                 !.origerr = assign_error(@, "NO_MATCHING_SERVER")]
                     IN [r EXCEPT !.trytime = update_trytime(r, now)]
                ELSE IF o \in expired \cup noserver THEN NoOp ELSE op[o]]
      sched == add_all_sorted(Without(schedops, gone), resched,
                              [o \in Ops |-> ops[o].trytime])
      tmo == add_all_sorted(Without(tmoops, gone), resched,
                            [o \in Ops |-> ops[o].deadline])
  IN /\ op' = ops /\ schedops' = sched /\ tmoops' = tmo
     /\ timer' = schedule(sched, tmo, ops)
     /\ st' = [o \in Ops |-> IF o \in expired \cup noserver THEN "failed"
                             ELSE IF o \in ToSet(due) \ lost THEN "sent" ELSE st[o]]
     /\ result' = [o \in Ops |->
                     IF o \in expired THEN Reported(op[o], "TIMEOUT")
                     ELSE IF o \in noserver THEN Reported(op[o], "NO_MATCHING_SERVER")
                     ELSE result[o]]
     /\ real' = real \cup ToSet(resched)
     /\ UNCHANGED <<env, now>>

tick ==
  /\ timer # NULL /\ timer <= now
  /\ \E lost \in SUBSET ToSet(Due(Without(schedops, Expired(tmoops)))),
        keep \in BOOLEAN :
       (lost = {} => keep) /\ flush(lost, keep)

(* maybe_reset_timeouts (wait.cc): RetryQueue::reset_timeouts, and         *)
(* mcreq_reset_timeouts for the packets in a pipeline, whose times a       *)
(* RetryOp that does not exist yet will copy.                              *)
reset_timeouts ==
  /\ env.reset
  /\ op' = [o \in Ops |->
              CASE st[o] = "queued" ->
                     [op[o] EXCEPT !.deadline = now + (@ - op[o].start), !.start = now]
                [] st[o] = "sent" /\ op[o].exists ->
                     [op[o] EXCEPT !.due = now + Timeout[o]]
                [] st[o] = "sent" /\ ~op[o].exists -> Issued(o)
                [] OTHER -> op[o]]
  /\ UNCHANGED <<env, now, st, schedops, tmoops, timer, result, real>>

Advance ==
  /\ now < MaxTime /\ now' = now + 1
  /\ UNCHANGED <<env, st, op, schedops, tmoops, timer, result, real>>

(* ~RetryQueue *)
Destroy ==
  /\ \E o \in Ops : st[o] = "queued"
  /\ st' = [o \in Ops |-> IF st[o] = "queued" THEN "failed" ELSE "done"]
  /\ result' = [o \in Ops |-> IF st[o] = "queued" THEN Reported(op[o], "GENERIC")
                              ELSE result[o]]
  /\ schedops' = <<>> /\ tmoops' = <<>> /\ timer' = NULL
  /\ op' = [o \in Ops |-> NoOp]
  /\ UNCHANGED <<env, now, real>>

Next ==
  \/ \E o \in Ops : Issue(o) \/ nmvadd(o) \/ add_fallback(o) \/ Answered(o) \/ TimedOut(o)
  \/ \E o \in Ops, f \in Failures : AddFailed(o, f)
  \/ tick
  \/ reset_timeouts
  \/ Advance
  \/ Destroy

Spec == Init /\ [][Next]_vars

(* Weak fairness of tick and of Advance, with their guards and effects     *)
(* spelled out: a timer that is due fires, and the clock goes on.          *)
Progress ==
  /\ \/ []<>~(timer # NULL /\ timer <= now)
     \/ []<><<schedops' # schedops \/ timer' # timer>>_vars
  /\ []<>(now = MaxTime) \/ []<><<now' # now>>_vars

FairSpec == Spec /\ Progress

-----------------------------------------------------------------------------
Queued == {o \in Ops : st[o] = "queued"}

TypeOK ==
  /\ now \in 0..MaxTime
  /\ st \in [Ops -> {"idle", "sent", "queued", "done", "failed"}]
  /\ schedops \in Seq(Ops) /\ tmoops \in Seq(Ops)
  /\ timer \in Nat \cup {NULL}
  /\ \A o \in Ops : op[o].retries \in 0..(2 ^ Width - 1)

(* tmoops is sorted by deadline ("List of operations in timeout ordering", *)
(* retryq.h:162), as flush and schedule rely on                            *)
TmoOrdered ==
  \A i, j \in 1..Len(tmoops) :
    i < j => op[tmoops[i]].deadline <= op[tmoops[j]].deadline

(* No lost wake-up: while operations wait the timer is armed, and it is    *)
(* due no later than the earliest retry and the earliest deadline of all   *)
(* of them; the timer of an empty queue is off.                            *)
TimerCovers ==
  IF Queued = {} THEN timer = NULL
  ELSE /\ timer # NULL
       /\ \A o \in Queued :
            \/ timer <= now
            \/ timer <= op[o].trytime /\ timer <= op[o].deadline

(* "retry operations with a certain throttle" (retryq.h:52-53): an operation  *)
(* that enters or re-enters the queue is not due at once, except when it   *)
(* was scheduled with RETRY_SCHED_IMM.                                     *)
Throttled ==
  [][\A o \in Ops :
       (/\ st'[o] = "queued" /\ op'[o].retries # op[o].retries
        /\ ~ (env.nmv_retry_imm /\ op'[o].origstatus = "NOT_MY_VBUCKET")
        /\ st[o] # "idle") => op'[o].trytime > now]_vars

(* error_for "eliminates spurious timeout errors which mask the real cause *)
(* of the error" (retryq.h:104): when a command was last queued because of *)
(* an error response or a missing server, possibly followed by timeouts    *)
(* and by NOT_MY_VBUCKET, neither its pipeline nor the retry queue reports *)
(* a timeout to its callback.                                              *)
CauseNotMasked == \A o \in real : result[o] # "TIMEOUT"

(* Every operation leaves the queue, unless its timeout is reset again and *)
(* again: it is sent once more or fails.                                   *)
Leaves == \A o \in Ops : st[o] = "queued" /\ ~env.reset ~> st[o] # "queued"
=============================================================================
