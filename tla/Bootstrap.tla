----------------------------- MODULE Bootstrap -----------------------------
(***************************************************************************)
(* Getting and keeping a cluster configuration: the monitor and providers  *)
(* of Confmon, their listener Bootstrap (bootstrap.cc), the pending        *)
(* operation counter and lcb_wait (aspend, wait.cc), deferred operations   *)
(* (defer.cc), lcb_connect and lcb_open, under the event loop, the         *)
(* cluster's changes, and failures and delays of every request.            *)
(***************************************************************************)
EXTENDS Confmon

CONSTANT CountMod   \* pendops.count is unsigned: arithmetic modulo CountMod,
                    \* which stands for 2^32

ASSUME CountAssumption == CountMod \in Nat /\ CountMod > 3

VARIABLES env, newest, mon, cccp, http, file, bs, inst
vars == <<env, newest, mon, cccp, http, file, bs, inst>>

Now == [mon |-> mon, cccp |-> cccp, http |-> http, file |-> file, bs |-> bs,
        inst |-> inst]
Become(s) ==
  /\ mon' = s.mon /\ cccp' = s.cccp /\ http' = s.http /\ file' = s.file
  /\ bs' = s.bs /\ inst' = s.inst
  /\ UNCHANGED <<env, newest>>

Init ==
  /\ env \in Envs /\ newest = 1
  /\ mon = [active |-> FALSE, as_start |-> FALSE, cur |-> "none",
            enabled |-> env.enabled, list |-> <<>>, config |-> NoConfig]
  /\ cccp = [st |-> "idle", sel |-> FALSE, ix |-> 0, timer |-> FALSE,
             cached |-> NoConfig, stale |-> {}]
  /\ http = [st |-> "idle", sel |-> env.bucket, ix |-> 0, compat |-> env.compat, io |-> FALSE,
             reconnect |-> FALSE, disconn |-> FALSE, cached |-> NoConfig]
  /\ file = [disk |-> env.disk, fresh |-> env.disk > 0, timer |-> FALSE,
             cached |-> NoConfig]
  /\ bs = [state |-> "PRE", tm |-> "off", poll |-> FALSE]
  /\ inst = [cfg |-> NoConfig, bucket |-> env.bucket, count |-> 0,
             wait |-> FALSE, deferred |-> FALSE, connected |-> FALSE,
             failed |-> FALSE, bcb |-> "set", ocb |-> "set"]
-----------------------------------------------------------------------------
(* lcb_aspend_add and lcb_aspend_del of LCB_PENDTYPE_COUNTER               *)
AspendAdd(s) == [s EXCEPT !.inst.count = (@ + 1) % CountMod]
AspendDel(s) == [s EXCEPT !.inst.count = (@ + CountMod - 1) % CountMod]

HasPending(s) == s.inst.deferred \/ s.inst.count > 0

Breakout(s) == [s EXCEPT !.inst.wait = @ /\ HasPending(s)]

(* Mutant: the bootstrap error leaves the pending counter alone.           *)
InitialError_Pending(s) ==
  LET told(cb) == IF cb = "set" THEN "error" ELSE cb
  IN  Breakout([s EXCEPT !.bs.tm = "off", !.inst.failed = TRUE,
                         !.inst.bcb = told(@), !.inst.ocb = told(@)])

(* initial_error: both callbacks get the error and are forgotten.          *)
InitialError(s) ==
  LET told(cb) == IF cb = "set" THEN "error" ELSE cb
  IN  Breakout(AspendDel([s EXCEPT !.bs.tm = "off", !.inst.failed = TRUE,
                                   !.inst.bcb = told(@), !.inst.ocb = told(@)]))

(* Bootstrap::bootstrap.  A throttled request is one that is not made.     *)
DoBootstrap(s, option) ==
  LET reset(x) == AspendAdd([Prepare(x) EXCEPT !.bs.state = "PRE",
                                               !.bs.tm = "timeout"])
      opened == reset(Stop([s EXCEPT !.mon.enabled = @ \cup {"HTTP"}]))
      refresh == option = "OPEN" \/ (~s.inst.bucket /\ option # "ALWAYS")
  IN  CASE option = "OPEN" -> Start(opened, refresh)
        [] option # "OPEN" /\ s.mon.active -> s
        [] option = "INITIAL" /\ ~s.mon.active -> Start(reset(s), refresh)
        [] OTHER -> Start(s, refresh)

(* lcb_open: only an instance with a configuration that names no bucket    *)
Opens(s) == s.inst.cfg # NoConfig /\ ~s.inst.cfg.bucket
Open(s) == DoBootstrap([s EXCEPT !.inst.bucket = TRUE], "OPEN")

(* The callback of lcb_set_bootstrap_callback, which may call lcb_open.    *)
BootstrapCallback(s) ==
  LET s1 == IF env.opens = "callback" /\ Opens(s) THEN Open(s) ELSE s
  IN  IF s.inst.bcb = "set" THEN [s1 EXCEPT !.inst.bcb = "ok"] ELSE s

OpenCallback(s) ==
  IF s.inst.ocb = "set" /\ s.inst.cfg.bucket THEN [s EXCEPT !.inst.ocb = "ok"] ELSE s

(* Memcached buckets: the perpetual HTTP stream instead of CCCP            *)
RevertToHttp(s) ==
  IF env.ketama /\ s.inst.bucket /\ s.inst.cfg.bucket
  THEN SetActive(SetActive([s EXCEPT !.http.compat = TRUE], "HTTP", TRUE), "CCCP", FALSE)
  ELSE s

CheckBgpoll(s) ==
  [s EXCEPT !.bs.poll = env.poll /\ s.inst.cfg.origin = "CCCP"]

(* The first configuration since lcb_connect or lcb_open                   *)
Bootstrapped(s) ==
  LET s1 == RevertToHttp(AspendDel([s EXCEPT !.bs.state = "BOOTSTRAPPED"]))
      s2 == OpenCallback(BootstrapCallback(s1))
  IN  CheckBgpoll([s2 EXCEPT !.inst.deferred = @ /\ ~s2.inst.bucket])

(* Mutant: config_callback keeps the configuration the instance has.       *)
ConfigCallback_Keeps(s, cfg) ==
  LET s1 == [s EXCEPT !.bs.tm = "off",
                      !.inst.cfg = IF @ = NoConfig THEN cfg ELSE @]
  IN  Breakout(IF s.bs.state = "PRE" THEN Bootstrapped(s1) ELSE s1)

(* config_callback for a new configuration                                 *)
ConfigCallback(s, cfg) ==
  LET s1 == [s EXCEPT !.bs.tm = "off"]
      s2 == IF cfg.origin = "CCCP" /\ s.inst.cfg.origin # "HTTP"
            THEN SetActive(s1, "HTTP", FALSE) ELSE s1
      s3 == Breakout([s2 EXCEPT !.inst.cfg = cfg])
  IN  Breakout(IF s.bs.state = "PRE" THEN Bootstrapped(s3) ELSE s3)

(* invoke_listeners: FileProvider::clconfig_lsn, then that of Bootstrap    *)
WriteCache(s, cfg) ==
  IF "FILE" \in s.mon.enabled /\ cfg.origin # "FILE" /\ cfg.bucket
  THEN [s EXCEPT !.file.disk = cfg.ix, !.file.fresh = TRUE] ELSE s

GotNewConfig(s, cfg) ==
  LET s1 == WriteCache(s, cfg)
  IN  IF s.bs.state = "PRE" THEN ConfigCallback(s1, cfg)
      ELSE [s1 EXCEPT !.bs.tm = "signal"]

ProvidersCycled(s) ==
  IF s.bs.state = "PRE" /\ s.inst.cfg = NoConfig THEN InitialError(s) ELSE s

(* do_set_next                                                             *)
SetNext(s, cfg) ==
  IF s.mon.config = NoConfig \/ Swaps(env.history, s.mon.config, cfg)
  THEN GotNewConfig(Stop([ConfigUpdated(s) EXCEPT !.mon.config = cfg]), cfg)
  ELSE s

GotConfig(s, cfg) == Stop(SetNext(s, cfg))

(* Mutant: the last provider's failure does not end the refresh.           *)
ProviderFailed_Active(s, p) ==
  LET next == NextActive(s)
      last == ProvidersCycled(s)
  IN  CASE p # s.mon.cur -> s
        [] p = s.mon.cur /\ next # "none" ->
             [s EXCEPT !.mon.cur = next, !.mon.as_start = TRUE]
        [] OTHER -> [last EXCEPT !.mon.cur = FirstActive(last.mon.list)]

(* provider_failed, which goes on although no refresh is active            *)
ProviderFailed(s, p) ==
  LET next == NextActive(s)
      last == ProvidersCycled(s)
  IN  CASE p # s.mon.cur -> s
        [] p = s.mon.cur /\ next # "none" ->
             [s EXCEPT !.mon.cur = next, !.mon.as_start = TRUE]
        [] OTHER -> Stop([last EXCEPT !.mon.cur = FirstActive(last.mon.list)])
-----------------------------------------------------------------------------
(* The application: a callback that fails tells it to recreate the         *)
(* instance, which ends the behaviour.                                     *)
Running == ~(env.recreates /\ inst.failed)
InLoop(s) == Running /\ Become(s)
Caller(s) == Running /\ ~inst.wait /\ Become(s)

(* What a node may answer: any configuration up to the newest one.         *)
Answers(sel, origin) ==
  {[ix |-> i, bucket |-> sel, origin |-> origin] : i \in 1 .. newest}

Connect == ~inst.connected /\ Caller(DoBootstrap([Now EXCEPT !.inst.connected = TRUE], "INITIAL"))

OpenBucket ==
  /\ env.opens = "later" /\ ~inst.bucket /\ Opens(Now)
  /\ Caller(Open(Now))

(* lcb_refresh_config, and the refreshes that servers and the retry queue  *)
(* ask for when something looks wrong                                      *)
RequestRefresh(option) ==
  /\ inst.cfg # NoConfig
  /\ InLoop(DoBootstrap(Now, option))

Wait == inst.connected /\ HasPending(Now) /\ Caller([Now EXCEPT !.inst.wait = TRUE])

DeferOperation ==
  /\ env.defers /\ inst.connected /\ inst.cfg = NoConfig /\ ~inst.deferred
  /\ Caller([Now EXCEPT !.inst.deferred = TRUE])

ClusterChanges ==
  /\ newest < Len(env.history) /\ newest' = newest + 1
  /\ UNCHANGED <<env, mon, cccp, http, file, bs, inst>>
-----------------------------------------------------------------------------
Cached(s, p) ==
  CASE p = "FILE" -> s.file.cached [] p = "CCCP" -> s.cccp.cached
    [] p = "HTTP" -> s.http.cached

SetCached(s, p) ==
  IF p \in s.mon.enabled /\ Cached(s, p) # NoConfig
  THEN SetNext(s, Cached(s, p)) ELSE s

CachedPass(s) == SetCached(SetCached(SetCached(s, "FILE"), "CCCP"), "HTTP")

(* do_next_provider: a list that was rebuilt meanwhile is walked again.    *)
DoNextProvider ==
  LET s == CachedPass([Now EXCEPT !.mon.as_start = FALSE])
      s1 == IF s.mon.list # mon.list THEN CachedPass(s) ELSE s
  IN  mon.as_start /\ InLoop(Refresh(s1, s1.mon.cur))

(* reload_cache: only a file that changed, for the bucket, is loaded.      *)
FileReload ==
  LET s == [Now EXCEPT !.file.timer = FALSE]
      cfg == [ix |-> file.disk, bucket |-> TRUE, origin |-> "FILE"]
      loaded == [s EXCEPT !.file.cached = cfg, !.file.fresh = FALSE]
  IN  /\ file.timer
      /\ InLoop(IF file.fresh /\ inst.bucket THEN GotConfig(loaded, cfg)
                ELSE ProviderFailed(s, "FILE"))
-----------------------------------------------------------------------------
(* CCCP: schedule_next_request, mcio_error, update.                        *)
CccpFailed(s) == ProviderFailed([s EXCEPT !.cccp.timer = FALSE], "CCCP")
CccpNext(s) == IF HasNext(s.cccp.ix, FALSE) THEN CccpRequest(s) ELSE CccpFailed(s)

McioError(s, protocol) ==
  IF protocol /\ ~s.inst.bucket THEN CccpFailed(CccpStop(s)) ELSE CccpNext(CccpStop(s))

CccpUpdate(s, cfg) == GotConfig([s EXCEPT !.cccp.cached = cfg], cfg)

(* on_connected, after the session negotiation if there is none yet        *)
CccpConnected ==
  /\ cccp.st = "conn"
  /\ \/ InLoop([Now EXCEPT !.cccp.st = "ctx", !.cccp.timer = TRUE,
                           !.cccp.sel = inst.bucket])
     \/ InLoop(McioError([Now EXCEPT !.cccp.st = "idle"], FALSE))

(* on_io_read and io_error_handler: a configuration, one that cannot be    *)
(* parsed, a response that is not one, or a broken connection              *)
CccpRead ==
  /\ cccp.st = "ctx"
  /\ \/ \E cfg \in Answers(cccp.sel, "CCCP") :
           InLoop([CccpUpdate(CccpStop(Now), cfg) EXCEPT !.cccp.timer = FALSE])
     \/ InLoop(CccpNext(CccpStop(Now)))
     \/ \E protocol \in BOOLEAN : InLoop(McioError(Now, protocol))

CccpTimeout ==
  cccp.timer /\ InLoop(McioError([Now EXCEPT !.cccp.timer = FALSE], FALSE))

(* cccp_update for the active cookie: a configuration, an error of the     *)
(* request (its own timeout included), or of the bucket selection before   *)
CccpReply ==
  LET s == [Now EXCEPT !.cccp.st = "idle", !.cccp.sel = FALSE, !.cccp.timer = FALSE]
  IN  /\ cccp.st = "cmd"
      /\ \/ \E cfg \in Answers(cccp.sel, "CCCP") : InLoop(CccpUpdate(s, cfg))
         \/ \E protocol \in BOOLEAN : InLoop(McioError(s, protocol))

(* cccp_update for a cookie that is not active any more: a configuration   *)
(* is still taken, and a failed selection still fails the current request. *)
CccpStaleReply ==
  \E sel \in cccp.stale :
    LET s == [Now EXCEPT !.cccp.stale = @ \ {sel}]
    IN  \/ \E cfg \in Answers(sel, "CCCP") : InLoop(CccpUpdate(s, cfg))
        \/ InLoop(s)
        \/ sel /\ InLoop(McioError(s, FALSE))

(* A not-my-vbucket response that carries a configuration, which is taken  *)
(* if CCCP is enabled; memcached buckets have no vbuckets.                 *)
CarrierConfig ==
  /\ inst.cfg.bucket /\ ~env.ketama /\ "CCCP" \in mon.enabled
  /\ \E cfg \in Answers(TRUE, "CCCP") : InLoop(CccpUpdate(Now, cfg))
-----------------------------------------------------------------------------
(* HTTP: on_io_error, with the next node or none left                      *)
HttpIoError(s) ==
  LET s1 == HttpClose(s)
      s2 == ProviderFailed(s1, "HTTP")
  IN  IF HasNext(s.http.ix, FALSE)
      THEN [s1 EXCEPT !.http.st = "conn", !.http.ix = NextIx(@)]
      ELSE [s2 EXCEPT !.http.io = FALSE,
                      !.http.reconnect = @ \/ (s.http.compat /\ s2.mon.config # NoConfig)]

(* setup_request_header names the bucket of the moment; the stream keeps to*)
(* it when lcb_open names one later.                                       *)
HttpConnected ==
  /\ http.st = "conn"
  /\ \/ InLoop([Now EXCEPT !.http.st = "ctx", !.http.sel = inst.bucket, !.http.io = TRUE])
     \/ InLoop(HttpIoError([Now EXCEPT !.http.st = "idle"]))

(* read_common and io_error_handler: a configuration, a part of one, an    *)
(* error status, a bad configuration or a broken stream                    *)
HttpRead ==
  /\ http.st = "ctx"
  /\ \/ \E cfg \in Answers(http.sel, "HTTP") :
           InLoop(GotConfig([Now EXCEPT !.http.io = FALSE, !.http.cached = cfg], cfg))
     \/ InLoop([Now EXCEPT !.http.io = TRUE])
     \/ InLoop(HttpIoError([Now EXCEPT !.http.io = TRUE]))

HttpTimeout ==
  LET s == [Now EXCEPT !.http.io = FALSE]
  IN  /\ http.io
      /\ InLoop(IF mon.cur = "HTTP" /\ mon.active THEN HttpIoError(s) ELSE s)

HttpDisconnect ==
  http.disconn /\ InLoop([HttpClose(Now) EXCEPT !.http.io = FALSE])

(* delayed_reconnect: connect_next cancels what was going on.              *)
HttpReconnect ==
  LET s == [Now EXCEPT !.http.reconnect = FALSE]
  IN  /\ http.reconnect
      /\ InLoop(IF http.st = "ctx" THEN s
                ELSE [HttpClose(s) EXCEPT !.http.st = "conn", !.http.ix = NextIx(@)])
-----------------------------------------------------------------------------
(* timer_dispatch                                                          *)
BootstrapTimer ==
  LET s == [Now EXCEPT !.bs.tm = "off"]
  IN  /\ bs.tm # "off"
      /\ InLoop(IF bs.state = "PRE" THEN InitialError(s)
                ELSE IF mon.config # NoConfig THEN ConfigCallback(s, mon.config) ELSE s)

Bgpoll == bs.poll /\ InLoop(CheckBgpoll(DoBootstrap(Now, "ALWAYS")))

Next ==
  \/ Connect \/ OpenBucket \/ Wait \/ DeferOperation \/ ClusterChanges
  \/ \E option \in {"ALWAYS", "THROTTLE"} : RequestRefresh(option)
  \/ DoNextProvider \/ FileReload
  \/ CccpConnected \/ CccpRead \/ CccpTimeout \/ CccpReply \/ CccpStaleReply
  \/ CarrierConfig
  \/ HttpConnected \/ HttpRead \/ HttpTimeout \/ HttpDisconnect \/ HttpReconnect
  \/ BootstrapTimer \/ Bgpoll

(* Timers fire, connection attempts and commands end (each has a timeout   *)
(* of its own).  Nothing is assumed of the cluster or of the application.  *)
Fairness ==
  /\ []<>(~Running \/ ~mon.as_start) \/ []<><<DoNextProvider>>_vars
  /\ []<>(~Running \/ ~file.timer) \/ []<><<FileReload>>_vars
  /\ []<>(~Running \/ cccp.st # "conn") \/ []<><<CccpConnected>>_vars
  /\ []<>(~Running \/ ~cccp.timer) \/ []<><<CccpTimeout>>_vars
  /\ []<>(~Running \/ cccp.st # "cmd") \/ []<><<CccpReply>>_vars
  /\ []<>(~Running \/ http.st # "conn") \/ []<><<HttpConnected>>_vars
  /\ []<>(~Running \/ ~http.io) \/ []<><<HttpTimeout>>_vars
  /\ []<>(~Running \/ ~http.disconn) \/ []<><<HttpDisconnect>>_vars
  /\ []<>(~Running \/ ~http.reconnect) \/ []<><<HttpReconnect>>_vars
  /\ []<>(~Running \/ bs.tm = "off") \/ []<><<BootstrapTimer>>_vars

Spec == Init /\ [][Next]_vars /\ Fairness
-----------------------------------------------------------------------------
Configs == [ix : 0 .. Len(env.history), bucket : BOOLEAN,
            origin : Providers \cup {"none"}]

(* The state of every component stays in its type.                         *)
TypeOK ==
  /\ newest \in 1 .. Len(env.history)
  /\ mon \in [active : BOOLEAN, as_start : BOOLEAN, cur : Providers \cup {"none"},
              enabled : SUBSET Providers, list : Seq(Providers), config : Configs]
  /\ cccp \in [st : {"idle", "conn", "ctx", "cmd"}, sel : BOOLEAN, ix : 0 .. NNodes,
               timer : BOOLEAN, cached : Configs, stale : SUBSET BOOLEAN]
  /\ http \in [st : {"idle", "conn", "ctx"}, sel : BOOLEAN, ix : 0 .. NNodes, compat : BOOLEAN,
               io : BOOLEAN, reconnect : BOOLEAN, disconn : BOOLEAN, cached : Configs]
  /\ file \in [disk : 0 .. Len(env.history), fresh : BOOLEAN, timer : BOOLEAN,
               cached : Configs]
  /\ bs \in [state : {"PRE", "BOOTSTRAPPED"}, tm : {"off", "timeout", "signal"},
             poll : BOOLEAN]
  /\ inst \in [cfg : Configs, bucket : BOOLEAN, count : 0 .. CountMod - 1,
               wait : BOOLEAN, deferred : BOOLEAN, connected : BOOLEAN,
               failed : BOOLEAN, bcb : {"set", "ok", "error"},
               ocb : {"set", "ok", "error"}]

(* pendops.count is the number of bootstraps (lcb_connect, lcb_open) that  *)
(* are neither done nor failed, so that lcb_wait blocks for these alone.   *)
CounterExact ==
  inst.count = IF inst.connected /\ bs.state = "PRE" /\ ~inst.failed THEN 1 ELSE 0

(* There is always a provider left to ask, and the current one is enabled, *)
(* whichever listener enables or disables providers during a notification: *)
(* what prepare() asserts of active_providers.                             *)
ProvidersRemain ==
  inst.connected =>
    /\ mon.cur \in mon.enabled
    /\ {mon.list[i] : i \in DOMAIN mon.list} = mon.enabled

(* A refresh in progress is attended to: the walk is scheduled, or the     *)
(* current provider has a request whose timeout or answer will end it.     *)
RefreshAttended ==
  mon.active =>
    \/ mon.as_start
    \/ mon.cur = "FILE" /\ file.timer
    \/ mon.cur = "CCCP" /\ (cccp.st \in {"conn", "cmd"} \/ cccp.timer)
    \/ mon.cur = "HTTP" /\ (http.reconnect \/ http.st = "conn" \/ http.io)

(* Neither the monitor nor the instance goes back to an older              *)
(* configuration, late answers and cached configurations notwithstanding;  *)
(* only the first configuration that names the bucket may be older.        *)
NotBack(old, new) == new.ix >= old.ix \/ (new.bucket /\ ~old.bucket)
ConfigForward ==
  [][NotBack(mon.config, mon'.config) /\ NotBack(inst.cfg, inst'.cfg)]_vars

(* A refresh of the configuration ends, whatever the nodes answer, as long *)
(* as it is attended to, and only one step takes that from it: the         *)
(* callback that applies a configuration disables the provider the refresh *)
(* waits for. A refresh forgotten in this way stays active, and start()    *)
(* begins no other, until a configuration comes unasked.                   *)
RefreshEnds ==
  /\ []<>~(mon.active /\ RefreshAttended /\ Running)
  /\ [][RefreshAttended /\ ~RefreshAttended' => mon'.enabled = mon.enabled \ {mon.cur}]_vars

(* The instance comes to use the configuration that the monitor accepted,  *)
(* which it is told of outside the handler that received it.               *)
CatchesUp == (mon.config # inst.cfg) ~> (mon.config = inst.cfg \/ ~Running)

(* lcb_wait returns, unless the bootstrap failed with operations deferred. *)
WaitEnds == inst.wait ~> (~inst.wait \/ (inst.failed /\ inst.deferred))

(* lcb_wait returns, deferred operations or not: what it waits for has     *)
(* ended with a result or an error.                                        *)
WaitReturns == inst.wait ~> ~inst.wait

(* lcb_open is answered by the open callback, with success or an error.    *)
OpenAnswered == (inst.bucket /\ ~env.bucket) ~> (inst.ocb # "set")
=============================================================================
