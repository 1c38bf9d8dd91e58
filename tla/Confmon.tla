------------------------------ MODULE Confmon ------------------------------
(***************************************************************************)
(* The configuration monitor (bucketconfig/confmon.cc) and the requests    *)
(* of its providers: FILE (bc_file.cc), CCCP over memcached connections    *)
(* (bc_cccp.cc) and the HTTP stream (bc_http.cc).  Every operator maps the *)
(* whole state s of the client, a record of the components below, to the   *)
(* state after the call; the listener and the event loop are in Bootstrap. *)
(*                                                                         *)
(*  mon  - Confmon: active (CONFMON_S_ACTIVE), as_start, cur (cur_provider)*)
(*         enabled, list (active_providers), config.                       *)
(*  cccp - st: idle, conn (creq), ctx (ioctx), cmd (cmdcookie); sel: the   *)
(*         request follows a selected bucket; ix (position in the nodes),  *)
(*         timer, cached (config), stale: the sel of the commands whose    *)
(*         cookie is no longer active.                                     *)
(*  http - st: idle, conn (creq), ctx (ioctx); sel: the stream was asked   *)
(*         for a bucket; ix, compat (stream time -1), the three timers io, *)
(*         reconnect, disconn; cached.                                     *)
(*  file - disk: the file's configuration; fresh: its mtime is new; timer; *)
(*         cached.                                                         *)
(*  bs   - Bootstrap: state, tm (off, timeout, signal), poll (tmpoll).     *)
(*  inst - cfg (cur_configinfo), bucket (settings->bucket), count          *)
(*         (pendops.count), wait, deferred, and the callbacks bcb and ocb. *)
(*                                                                         *)
(* A configuration is the position ix in the cluster's history, whether it *)
(* names a bucket, and its origin.  ITERGRACE is only reported, never      *)
(* read, and is left out.                                                  *)
(***************************************************************************)
EXTENDS Naturals, Sequences

CONSTANTS
  NNodes,       \* the nodes of every provider's host list
  Envs          \* the environments, each a record of
                \*   bucket: the connection string names a bucket
                \*   enabled: the providers that are configured
                \*   history: the cluster's configurations, oldest first,
                \*     each with its epoch and rev
                \*   disk: the configuration in the cache file, 0 for none
                \*   compat: bc_http_stream_time is -1
                \*   poll: config_poll_interval is not 0
                \*   ketama: the bucket is a memcached bucket
                \*   opens: "never", "later" or in the bootstrap "callback"
                \*   defers: operations are scheduled before the bootstrap
                \*   recreates: the application gives an instance up whose
                \*     bootstrap failed

Providers == {"FILE", "CCCP", "HTTP"}

ASSUME ConfmonAssumption ==
  /\ NNodes \in Nat \ {0}
  /\ \A e \in Envs :
       /\ {e.bucket, e.compat, e.poll, e.ketama, e.defers, e.recreates} \subseteq BOOLEAN
       /\ e.enabled \subseteq Providers /\ e.enabled # {}
       /\ e.history \in Seq([epoch : Nat, rev : Nat]) /\ e.history # <<>>
       /\ e.disk \in 0 .. Len(e.history)
       /\ e.opens \in {"never", "later", "callback"}

NoConfig == [ix |-> 0, bucket |-> FALSE, origin |-> "none"]

-----------------------------------------------------------------------------
(* Mutant: any configuration replaces the current one.                     *)
Swaps_Any(h, a, b) == TRUE

(* ConfigInfo::compare < 0: configuration b replaces a.                    *)
Swaps(h, a, b) ==
  \/ ~a.bucket /\ b.bucket
  \/ h[b.ix].epoch > h[a.ix].epoch
  \/ h[b.ix].rev > h[a.ix].rev

(* stop_current_request: the cookie of a command outlives the request.     *)
CccpStop(s) ==
  [s EXCEPT !.cccp.st = "idle", !.cccp.sel = FALSE,
            !.cccp.stale = IF s.cccp.st = "cmd" THEN @ \cup {s.cccp.sel} ELSE @]

CccpPause(s) ==
  IF s.cccp.st = "idle" THEN s ELSE [CccpStop(s) EXCEPT !.cccp.timer = FALSE]

(* HttpProvider::pause: arm_if_disarmed, unless the stream is perpetual.   *)
HttpPause(s) == IF s.http.compat THEN s ELSE [s EXCEPT !.http.disconn = TRUE]

(* first_active, "none" if the list is empty, which prepare() asserts not. *)
FirstActive(list) == IF list = <<>> THEN "none" ELSE Head(list)

(* prepare(): the active list in the order of Method; pause the others.    *)
Prepare(s) ==
  LET only(p) == IF p \in s.mon.enabled THEN <<p>> ELSE <<>>
      list == only("FILE") \o only("CCCP") \o only("HTTP")
      s1 == IF "CCCP" \in s.mon.enabled THEN s ELSE CccpPause(s)
      s2 == IF "HTTP" \in s.mon.enabled THEN s1 ELSE HttpPause(s1)
  IN  [s2 EXCEPT !.mon.list = list, !.mon.cur = FirstActive(list)]

(* Mutant: set_active forgets prepare().                                   *)
SetActive_NoPrepare(s, p, enabled) ==
  [s EXCEPT !.mon.enabled = IF enabled THEN @ \cup {p} ELSE @ \ {p}]

SetActive(s, p, enabled) ==
  IF (p \in s.mon.enabled) = enabled THEN s
  ELSE Prepare([s EXCEPT !.mon.enabled =
                           IF enabled THEN @ \cup {p} ELSE @ \ {p}])

(* Hostlist::next is not NULL.                                             *)
HasNext(ix, wrap) == wrap \/ ix < NNodes

NextIx(ix) == IF ix = NNodes THEN 1 ELSE ix + 1

(* schedule_next_request on the next host: a command on the server if the  *)
(* instance has one, else a new connection (whose timeout is its own).     *)
CccpRequest(s) ==
  LET s1 == [s EXCEPT !.cccp.ix = NextIx(@)]
  IN  IF s.inst.cfg # NoConfig
      THEN [s1 EXCEPT !.cccp.st = "cmd", !.cccp.timer = TRUE,
                      !.cccp.sel = s.inst.bucket]
      ELSE [s1 EXCEPT !.cccp.st = "conn"]

(* Provider::refresh                                                       *)
HttpRefresh(s) ==
  [s EXCEPT !.http.reconnect = @ \/ s.http.st = "idle",
            !.http.disconn = FALSE,
            !.http.io = @ \/ s.http.st = "ctx"]

Refresh(s, p) ==
  CASE p = "FILE" -> [s EXCEPT !.file.timer = TRUE]
    [] p = "CCCP" -> IF s.cccp.st = "idle" THEN CccpRequest(s) ELSE s
    [] p = "HTTP" -> HttpRefresh(s)
    [] OTHER -> s

Start(s, refresh) ==
  LET s1 == [s EXCEPT !.mon.active = TRUE]
      s2 == IF refresh THEN Refresh(s1, s.mon.cur) ELSE s1
  IN  IF s.mon.active THEN s ELSE [s2 EXCEPT !.mon.as_start = TRUE]

Stop(s) ==
  IF s.mon.active
  THEN [s EXCEPT !.mon.active = FALSE, !.mon.as_start = FALSE] ELSE s

(* config_updated of the enabled providers: new node lists, from the start.*)
ConfigUpdated(s) ==
  [s EXCEPT !.cccp.ix = IF "CCCP" \in s.mon.enabled THEN 0 ELSE @,
            !.http.ix = IF "HTTP" \in s.mon.enabled THEN 0 ELSE @]

(* next_active, "none" at the end of the list.                             *)
NextActive(s) ==
  LET later == {i \in 2 .. Len(s.mon.list) : s.mon.list[i - 1] = s.mon.cur}
  IN  IF later = {} THEN "none" ELSE s.mon.list[CHOOSE i \in later : TRUE]

(* close_current: cancels the connection attempt or closes the stream.     *)
HttpClose(s) == [s EXCEPT !.http.st = "idle", !.http.disconn = FALSE]
=============================================================================
