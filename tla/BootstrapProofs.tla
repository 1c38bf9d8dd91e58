-------------------------- MODULE BootstrapProofs ---------------------------
(***************************************************************************)
(* The inductive invariant of Bootstrap, what each operation of the        *)
(* monitor, its providers and its listener does to it, and what follows    *)
(* from it for every number of nodes and every environment.  The           *)
(* operations call one another on the whole state, so a lemma says of one  *)
(* operation that its result Keeps what held before; the actions and the   *)
(* theorems come last.                                                     *)
(***************************************************************************)
EXTENDS Bootstrap, TLAPS

(* The histories of the theorem about ConfigForward: epochs and revisions  *)
(* do not decrease, as the history is ordered from the oldest on.          *)
Ordered(h) ==
  \A i, j \in DOMAIN h : i <= j => h[i].epoch <= h[j].epoch /\ h[i].rev <= h[j].rev

-----------------------------------------------------------------------------
(* The states, by their types. *)
Cfgs(origin) == [ix : Nat, bucket : BOOLEAN, origin : {origin, "none"}]
Cfg == [ix : Nat, bucket : BOOLEAN, origin : Providers \cup {"none"}]
Mon == [active : BOOLEAN, as_start : BOOLEAN, cur : Providers \cup {"none"},
        enabled : SUBSET Providers, list : Seq(Providers), config : Cfg]
Cccp == [st : {"idle", "conn", "ctx", "cmd"}, sel : BOOLEAN, ix : Nat,
         timer : BOOLEAN, cached : Cfgs("CCCP"), stale : SUBSET BOOLEAN]
Http == [st : {"idle", "conn", "ctx"}, sel : BOOLEAN, ix : Nat, compat : BOOLEAN, io : BOOLEAN,
         reconnect : BOOLEAN, disconn : BOOLEAN, cached : Cfgs("HTTP")]
File == [disk : Nat, fresh : BOOLEAN, timer : BOOLEAN, cached : Cfgs("FILE")]
Bs == [state : {"PRE", "BOOTSTRAPPED"}, tm : {"off", "timeout", "signal"}, poll : BOOLEAN]
Inst == [cfg : Cfg, bucket : BOOLEAN, count : Nat, wait : BOOLEAN, deferred : BOOLEAN,
         connected : BOOLEAN, failed : BOOLEAN, bcb : {"set", "ok", "error"},
         ocb : {"set", "ok", "error"}]
State == [mon : Mon, cccp : Cccp, http : Http, file : File, bs : Bs, inst : Inst]

-----------------------------------------------------------------------------
(* The counter is exact, and only lcb_open bootstraps again.               *)
Exact(s) ==
  s.inst.count = IF s.inst.connected /\ s.bs.state = "PRE" /\ ~s.inst.failed THEN 1 ELSE 0
Counted(s) ==
  /\ Exact(s)
  /\ s.inst.cfg # NoConfig /\ ~s.inst.bucket => s.bs.state = "BOOTSTRAPPED"

(* The list is that of the enabled providers.  Either FILE or CCCP is      *)
(* there for good, or nothing can come over CCCP that disables HTTP.       *)
Listed(s) ==
  /\ s.mon.cur \in s.mon.enabled
  /\ {s.mon.list[i] : i \in DOMAIN s.mon.list} = s.mon.enabled
Lasting(s) == "FILE" \in s.mon.enabled \/ "CCCP" \in s.mon.enabled
Idle(s) == s.cccp.st = "idle" /\ ~s.cccp.timer /\ s.cccp.stale = {}
Remaining(s) ==
  /\ Listed(s)
  /\ Lasting(s) \/ (Idle(s) /\ s.mon.config.origin # "CCCP")

(* Every configuration is one of the history and names the bucket or not   *)
(* as the instance does; the instance is not ahead of the monitor.         *)
Fits(c) == c.bucket = env.bucket /\ c.ix \in 1 .. Len(env.history)
Selected(s) ==
  /\ s.cccp.st \in {"ctx", "cmd"} => s.cccp.sel = s.inst.bucket
  /\ s.cccp.stale \subseteq {s.inst.bucket}
  /\ s.http.sel = s.inst.bucket
Uniform(s) ==
  /\ s.inst.bucket = env.bucket
  /\ Selected(s)
  /\ \A c \in {s.mon.config, s.inst.cfg, s.cccp.cached, s.http.cached, s.file.cached} :
       c = NoConfig \/ Fits(c)
  /\ s.file.fresh => s.file.disk \in 1 .. Len(env.history)
  /\ s.inst.cfg.ix <= s.mon.config.ix

(* The environments of each part *)
GivesUp == env.recreates
NoMemcached == ~env.ketama
NoLateOpen == env.opens = "never" /\ Ordered(env.history)

Good(s) ==
  /\ s \in State /\ s.inst.connected
  /\ GivesUp => Counted(s)
  /\ NoMemcached => Remaining(s)
  /\ NoLateOpen => Uniform(s)

(* Before lcb_connect nothing happens to the instance.                     *)
Unconnected ==
  /\ Now \in State /\ ~inst.connected /\ ~mon.active /\ ~mon.as_start
  /\ mon.enabled = env.enabled /\ mon.config = NoConfig
  /\ cccp.st = "idle" /\ ~cccp.timer /\ cccp.stale = {} /\ cccp.cached = NoConfig
  /\ http.st = "idle" /\ ~http.io /\ ~http.reconnect /\ ~http.disconn
  /\ http.cached = NoConfig /\ http.sel = env.bucket
  /\ ~file.timer /\ file.cached = NoConfig /\ (file.fresh => file.disk \in 1 .. Len(env.history))
  /\ bs.state = "PRE" /\ bs.tm = "off" /\ ~bs.poll
  /\ inst.cfg = NoConfig /\ inst.bucket = env.bucket /\ inst.count = 0 /\ ~inst.failed

Inv ==
  /\ env \in Envs /\ newest \in 1 .. Len(env.history)
  /\ Unconnected \/ Good(Now)

-----------------------------------------------------------------------------
(* An operation that fails nothing, one that may end the bootstrap with an *)
(* error, and one that only starts or stops requests.                      *)
Forward(r, s) ==
  NoLateOpen /\ Uniform(s) =>
    /\ Uniform(r)
    /\ s.mon.config.ix <= r.mon.config.ix /\ s.inst.cfg.ix <= r.inst.cfg.ix
Ends(r, s) ==
  /\ r \in State /\ r.inst.connected
  /\ GivesUp /\ Counted(s) /\ ~s.inst.failed => Counted(r)
  /\ NoMemcached /\ Remaining(s) => Remaining(r)
  /\ Forward(r, s)
Keeps(r, s) ==
  /\ Ends(r, s)
  /\ GivesUp /\ Counted(s) /\ ~s.inst.failed => ~r.inst.failed
Asks(r, s) ==
  /\ r \in State /\ r.inst = s.inst /\ r.bs = s.bs /\ r.mon.cur = s.mon.cur
  /\ r.mon.enabled = s.mon.enabled /\ r.mon.list = s.mon.list /\ r.mon.config = s.mon.config
  /\ r.cccp.cached = s.cccp.cached /\ r.http.cached = s.http.cached
  /\ r.file.cached = s.file.cached /\ r.file.disk = s.file.disk /\ r.file.fresh = s.file.fresh
  /\ Selected(s) => Selected(r)
Rests(r, s) == Asks(r, s) /\ (Idle(s) => Idle(r))

-----------------------------------------------------------------------------
(* The relations compose. *)
LEMMA AsksTrans ==
  ASSUME NEW s, NEW r, NEW q, Asks(r, s), Asks(q, r)
  PROVE  Asks(q, s)
BY ZenonT(60) DEF Asks

LEMMA RestsTrans ==
  ASSUME NEW s, NEW r, NEW q, Rests(r, s), Rests(q, r)
  PROVE  Rests(q, s)
BY ZenonT(60), AsksTrans DEF Rests

LEMMA SelfRests ==
  ASSUME NEW s \in State
  PROVE  Rests(s, s)
BY ZenonT(60) DEF Rests, Asks

(* Starting and stopping requests keeps the invariant, but a CCCP request  *)
(* may only start where its answers do no harm.                            *)
LEMMA AsksKeeps ==
  ASSUME NEW s, s.inst.connected, NEW r, Asks(r, s),
         NoMemcached /\ Remaining(s) => Lasting(s) \/ Idle(r)
  PROVE  Keeps(r, s)
<1>1. r \in State /\ r.inst = s.inst /\ r.bs = s.bs /\ r.mon.config = s.mon.config
  BY ZenonT(60) DEF Asks
<1>2. Counted(s) => Counted(r)
  BY SMTT(60), <1>1 DEF Counted, Exact
<1>3. Lasting(s) => Lasting(r)
  BY ZenonT(60) DEF Asks, Lasting
<1>4. Listed(s) => Listed(r)
  BY ZenonT(60) DEF Asks, Listed
<1>5. Uniform(s) => Uniform(r)
  BY SMTT(60) DEF Asks, Uniform
<1>6. s.mon.config.ix <= r.mon.config.ix /\ s.inst.cfg.ix <= r.inst.cfg.ix
  BY SMTT(60), <1>1 DEF State, Mon, Inst, Cfg
<1>7. NoMemcached /\ Remaining(s) => Remaining(r)
  BY ZenonT(60), <1>1, <1>3, <1>4 DEF Remaining
<1> QED
  BY ZenonT(60), <1>1, <1>2, <1>5, <1>6, <1>7 DEF Keeps, Ends, Forward

LEMMA RestsKeeps ==
  ASSUME NEW s, s.inst.connected, NEW r, Rests(r, s)
  PROVE  Keeps(r, s)
BY ZenonT(60), AsksKeeps DEF Rests, Remaining

(* Keeps composes with itself and with Ends. *)
LEMMA KeepsTrans ==
  ASSUME NEW s \in State, NEW r, NEW q, Keeps(r, s), Keeps(q, r)
  PROVE  Keeps(q, s)
<1>1. Forward(q, s)
  <2>1. r \in State /\ q \in State
    BY ZenonT(60) DEF Keeps, Ends
  <2>2. \A x \in State : x.mon.config.ix \in Nat /\ x.inst.cfg.ix \in Nat
    BY SMTT(60) DEF State, Mon, Inst, Cfg
  <2> QED
    BY SMTT(60), <2>1, <2>2 DEF Keeps, Ends, Forward
<1> QED
  BY ZenonT(60), <1>1 DEF Keeps, Ends

LEMMA KeepsThenEnds ==
  ASSUME NEW s \in State, NEW r, NEW q, Keeps(r, s), Ends(q, r)
  PROVE  Ends(q, s)
<1>1. Forward(q, s)
  <2>1. r \in State /\ q \in State
    BY ZenonT(60) DEF Keeps, Ends
  <2>2. \A x \in State : x.mon.config.ix \in Nat /\ x.inst.cfg.ix \in Nat
    BY SMTT(60) DEF State, Mon, Inst, Cfg
  <2> QED
    BY SMTT(60), <2>1, <2>2 DEF Keeps, Ends, Forward
<1> QED
  BY ZenonT(60), <1>1 DEF Keeps, Ends

(* After the bootstrap ended, requests may still be stopped. *)
LEMMA EndsThenRests ==
  ASSUME NEW s \in State, NEW r, NEW q, Ends(r, s), Rests(q, r)
  PROVE  Ends(q, s)
<1>1. Keeps(q, r) /\ (Counted(r) => Counted(q))
  BY SMTT(60), RestsKeeps DEF Ends, Rests, Asks, Counted, Exact
<1>2. Forward(q, s)
  <2>1. r \in State /\ q \in State
    BY ZenonT(60), <1>1 DEF Keeps, Ends
  <2>2. \A x \in State : x.mon.config.ix \in Nat /\ x.inst.cfg.ix \in Nat
    BY SMTT(60) DEF State, Mon, Inst, Cfg
  <2> QED
    BY SMTT(60), <1>1, <2>1, <2>2 DEF Keeps, Ends, Forward
<1> QED
  BY ZenonT(60), <1>1, <1>2 DEF Keeps, Ends

-----------------------------------------------------------------------------
(* stop_current_request() *)
LEMMA CccpStopRests ==
  ASSUME NEW s \in State
  PROVE  Rests(CccpStop(s), s)
BY ZenonT(60) DEF CccpStop, Rests, Asks, Selected, Idle, State, Cccp

(* The timer of the CCCP provider *)
LEMMA CccpTimerRests ==
  ASSUME NEW s \in State
  PROVE  Rests([s EXCEPT !.cccp.timer = FALSE], s)
BY ZenonT(60) DEF Rests, Asks, Selected, Idle, State, Cccp

(* CccpProvider::pause() *)
LEMMA CccpPauseRests ==
  ASSUME NEW s \in State
  PROVE  Rests(CccpPause(s), s)
<1>1. Rests(CccpStop(s), s) /\ CccpStop(s) \in State
  BY SMTT(60), CccpStopRests DEF Rests, Asks
<1>2. Rests([CccpStop(s) EXCEPT !.cccp.timer = FALSE], s)
  BY ZenonT(60), <1>1, CccpTimerRests, RestsTrans
<1> QED
  BY ZenonT(60), <1>2, SelfRests DEF CccpPause

(* HttpProvider::pause(), and the other timers and connections of HTTP *)
LEMMA HttpRests ==
  ASSUME NEW s \in State, NEW r \in State, r.http.cached = s.http.cached,
         r.http.sel \in {s.http.sel, s.inst.bucket}, r.mon = s.mon, r.cccp = s.cccp, r.file = s.file, r.bs = s.bs, r.inst = s.inst
  PROVE  Rests(r, s)
BY SMTT(60) DEF Rests, Asks, Selected, Idle

LEMMA HttpPauseRests ==
  ASSUME NEW s \in State
  PROVE  Rests(HttpPause(s), s)
<1>1. LET r == [s EXCEPT !.http.disconn = TRUE]
      IN  /\ r \in State /\ r.http.cached = s.http.cached /\ r.http.sel = s.http.sel
          /\ r.mon = s.mon /\ r.cccp = s.cccp /\ r.file = s.file /\ r.bs = s.bs /\ r.inst = s.inst
  BY ZenonT(60) DEF State, Http
<1> QED
  BY ZenonT(60), <1>1, HttpRests, SelfRests DEF HttpPause

(* HttpProvider::refresh() *)
LEMMA HttpRefreshRests ==
  ASSUME NEW s \in State
  PROVE  Rests(HttpRefresh(s), s)
<1>1. LET r == HttpRefresh(s)
      IN  /\ r \in State /\ r.http.cached = s.http.cached /\ r.http.sel = s.http.sel
          /\ r.mon = s.mon /\ r.cccp = s.cccp /\ r.file = s.file /\ r.bs = s.bs /\ r.inst = s.inst
  BY ZenonT(60) DEF State, Http, HttpRefresh
<1> QED
  BY ZenonT(60), <1>1, HttpRests

(* close_current() *)
LEMMA HttpCloseRests ==
  ASSUME NEW s \in State
  PROVE  Rests(HttpClose(s), s)
<1>1. LET r == HttpClose(s)
      IN  /\ r \in State /\ r.http.cached = s.http.cached /\ r.http.sel = s.http.sel
          /\ r.mon = s.mon /\ r.cccp = s.cccp /\ r.file = s.file /\ r.bs = s.bs /\ r.inst = s.inst
  BY ZenonT(60) DEF State, Http, HttpClose
<1> QED
  BY ZenonT(60), <1>1, HttpRests

(* Confmon::stop() *)
LEMMA StopRests ==
  ASSUME NEW s \in State
  PROVE  Rests(Stop(s), s)
<1>1. Rests([s EXCEPT !.mon.active = FALSE, !.mon.as_start = FALSE], s)
  BY ZenonT(60) DEF Rests, Asks, Selected, Idle, State, Mon
<1> QED
  BY ZenonT(60), <1>1, SelfRests DEF Stop

(* config_updated() *)
LEMMA ConfigUpdatedRests ==
  ASSUME NEW s \in State
  PROVE  Rests(ConfigUpdated(s), s)
BY ZenonT(60) DEF ConfigUpdated, Rests, Asks, Selected, Idle, State, Cccp, Http

(* schedule_next_request() starts a request. *)
LEMMA CccpRequestAsks ==
  ASSUME NEW s \in State
  PROVE  Asks(CccpRequest(s), s)
<1> DEFINE t == [s EXCEPT !.cccp.ix = NextIx(@)]
<1>1. NextIx(s.cccp.ix) \in Nat
  BY SMTT(60), ConfmonAssumption DEF NextIx, State, Cccp
<1>2. Asks(t, s)
  BY SMTT(60), <1>1 DEF Asks, Selected, State, Cccp
<1>3. Asks([t EXCEPT !.cccp.st = "conn"], s)
  BY ZenonT(60), <1>1 DEF Asks, Selected, State, Cccp
<1>4. Asks([t EXCEPT !.cccp.st = "cmd", !.cccp.timer = TRUE, !.cccp.sel = s.inst.bucket], s)
  BY ZenonT(60), <1>1 DEF Asks, Selected, State, Cccp, Inst
<1> QED
  BY ZenonT(60), <1>3, <1>4 DEF CccpRequest

(* Provider::refresh() of the current provider *)
LEMMA RefreshKeeps ==
  ASSUME NEW s \in State, s.inst.connected
  PROVE  Asks(Refresh(s, s.mon.cur), s) /\ Keeps(Refresh(s, s.mon.cur), s)
<1>1. CASE s.mon.cur = "FILE"
  <2>1. Rests([s EXCEPT !.file.timer = TRUE], s)
    BY ZenonT(60) DEF Rests, Asks, Selected, Idle, State, File
  <2>2. Refresh(s, s.mon.cur) = [s EXCEPT !.file.timer = TRUE]
    BY SMTT(60), <1>1 DEF Refresh
  <2> QED
    BY ZenonT(60), <2>1, <2>2, RestsKeeps DEF Rests
<1>2. CASE s.mon.cur = "CCCP"
  <2>1. Refresh(s, s.mon.cur) = IF s.cccp.st = "idle" THEN CccpRequest(s) ELSE s
    BY SMTT(60), <1>2 DEF Refresh
  <2>2. Remaining(s) => Lasting(s)
    BY SMTT(60), <1>2 DEF Remaining, Lasting, Listed
  <2>3. Asks(CccpRequest(s), s) /\ Asks(s, s)
    BY ZenonT(60), CccpRequestAsks, SelfRests DEF Rests
  <2> QED
    BY ZenonT(60), <2>1, <2>2, <2>3, AsksKeeps
<1>3. CASE s.mon.cur = "HTTP"
  <2>1. Refresh(s, s.mon.cur) = HttpRefresh(s)
    BY SMTT(60), <1>3 DEF Refresh
  <2> QED
    BY ZenonT(60), <2>1, HttpRefreshRests, RestsKeeps DEF Rests
<1>4. CASE s.mon.cur \notin {"FILE", "CCCP", "HTTP"}
  <2>1. Refresh(s, s.mon.cur) = s
    BY SMTT(60), <1>4 DEF Refresh
  <2> QED
    BY ZenonT(60), <2>1, SelfRests, RestsKeeps DEF Rests
<1> QED
  BY ZenonT(60), <1>1, <1>2, <1>3, <1>4

(* Confmon::start() *)
LEMMA StartKeeps ==
  ASSUME NEW s \in State, s.inst.connected, NEW refresh \in BOOLEAN
  PROVE  Keeps(Start(s, refresh), s)
<1> DEFINE a == [s EXCEPT !.mon.active = TRUE]
           b == IF refresh THEN Refresh(a, s.mon.cur) ELSE a
           c == [b EXCEPT !.mon.as_start = TRUE]
<1>1. Rests(a, s)
  BY ZenonT(60) DEF Rests, Asks, Selected, Idle, State, Mon
<1>2. a \in State /\ a.inst.connected /\ a.mon.cur = s.mon.cur /\ Keeps(a, s)
  BY ZenonT(60), <1>1, RestsKeeps DEF Rests, Asks
<1>3. Keeps(b, s)
  <2> HIDE DEF a
  <2>1. Keeps(Refresh(a, s.mon.cur), a)
    BY ZenonT(60), <1>2, RefreshKeeps
  <2> QED
    BY ZenonT(60), <1>2, <2>1, KeepsTrans
<1> HIDE DEF b
<1>4. b \in State /\ b.inst.connected
  BY ZenonT(60), <1>3 DEF Keeps, Ends
<1>5. Rests(c, b)
  BY ZenonT(60), <1>4 DEF Rests, Asks, Selected, Idle, State, Mon
<1>6. Keeps(c, s)
  <2> HIDE DEF c
  <2> QED
    BY ZenonT(60), <1>3, <1>4, <1>5, RestsKeeps, KeepsTrans
<1>7. Start(s, refresh) = IF s.mon.active THEN s ELSE c
  BY SMTT(60) DEF Start, a, b
<1>8. Keeps(s, s)
  BY ZenonT(60), SelfRests, RestsKeeps
<1> HIDE DEF c
<1> QED
  BY ZenonT(60), <1>6, <1>7, <1>8

-----------------------------------------------------------------------------
(* The providers of a list are those of its first part and of its second.  *)
Elements(list) == {list[i] : i \in DOMAIN list}

LEMMA ConcatElements ==
  ASSUME NEW p, NEW q, p \in Seq(Providers), q \in Seq(Providers)
  PROVE  p \o q \in Seq(Providers) /\ Elements(p \o q) = Elements(p) \cup Elements(q)
<1>1. p \o q \in Seq(Providers) /\ DOMAIN (p \o q) = 1 .. Len(p) + Len(q)
  BY SMTT(60)
<1>2. \A i \in DOMAIN p : i \in DOMAIN (p \o q) /\ (p \o q)[i] = p[i]
  BY SMTT(60)
<1>3. \A i \in DOMAIN q : Len(p) + i \in DOMAIN (p \o q) /\ (p \o q)[Len(p) + i] = q[i]
  BY SMTT(60)
<1>4. \A i \in DOMAIN (p \o q) : \/ i \in DOMAIN p /\ (p \o q)[i] = p[i]
                                 \/ i - Len(p) \in DOMAIN q /\ (p \o q)[i] = q[i - Len(p)]
  BY SMTT(60)
<1>5. PICK c : c = p \o q
  BY ZenonT(60)
<1>6. ASSUME NEW e PROVE e \in Elements(p) \cup Elements(q) => e \in Elements(c)
  BY ZenonT(60), <1>2, <1>3, <1>5 DEF Elements
<1>7. ASSUME NEW e PROVE e \in Elements(c) => e \in Elements(p) \cup Elements(q)
  BY SMTT(60), <1>4, <1>5 DEF Elements
<1> QED
  BY SMTT(60), <1>1, <1>5, <1>6, <1>7

LEMMA FirstElement ==
  ASSUME NEW list \in Seq(Providers)
  PROVE  /\ FirstActive(list) \in Providers \cup {"none"}
         /\ Elements(list) # {} => FirstActive(list) \in Elements(list)
<1>1. CASE list = <<>>
  BY SMTT(60), <1>1 DEF FirstActive, Elements
<1>2. CASE list # <<>>
  <2>1. 1 \in DOMAIN list /\ Head(list) = list[1] /\ list[1] \in Providers
    BY SMTT(60), <1>2
  <2> QED
    BY ZenonT(60), <1>2, <2>1 DEF FirstActive, Elements
<1> QED
  BY SMTT(60), <1>1, <1>2

(* What set_active() and prepare() leave: the list is made anew. *)
Relists(r, s) ==
  /\ r \in State /\ r.inst = s.inst /\ r.bs = s.bs /\ r.mon.config = s.mon.config
  /\ r.cccp.cached = s.cccp.cached /\ r.http.cached = s.http.cached
  /\ r.file.cached = s.file.cached /\ r.file.disk = s.file.disk /\ r.file.fresh = s.file.fresh
  /\ Selected(s) => Selected(r)
  /\ Idle(s) => Idle(r)
  /\ Listed(s) /\ r.mon.enabled # {} => Listed(r)

(* prepare() *)
LEMMA PrepareRelists ==
  ASSUME NEW s \in State
  PROVE  /\ Relists(Prepare(s), s) /\ Prepare(s).mon.enabled = s.mon.enabled
         /\ s.mon.enabled # {} => Listed(Prepare(s))
<1> DEFINE only(p) == IF p \in s.mon.enabled THEN <<p>> ELSE <<>>
           list == only("FILE") \o only("CCCP") \o only("HTTP")
           a == IF "CCCP" \in s.mon.enabled THEN s ELSE CccpPause(s)
           b == IF "HTTP" \in s.mon.enabled THEN a ELSE HttpPause(a)
           c == [b EXCEPT !.mon.list = list, !.mon.cur = FirstActive(list)]
<1>1. Prepare(s) = c
  BY SMTT(60) DEF Prepare
<1>2. s.mon.enabled \subseteq Providers
  BY ZenonT(60) DEF State, Mon
<1>3. ASSUME NEW p \in Providers
      PROVE  only(p) \in Seq(Providers) /\ Elements(only(p)) = {p} \cap s.mon.enabled
  BY SMTT(60) DEF Elements
<1>4. list \in Seq(Providers) /\ Elements(list) = s.mon.enabled
  <2> HIDE DEF only
  <2>1. {"FILE", "CCCP", "HTTP"} = Providers
    BY ZenonT(60) DEF Providers
  <2>2. PICK ff, cc, hh : ff = only("FILE") /\ cc = only("CCCP") /\ hh = only("HTTP")
    BY ZenonT(60)
  <2>3. ff \in Seq(Providers) /\ cc \in Seq(Providers) /\ hh \in Seq(Providers)
    BY ZenonT(60), <1>3, <2>1, <2>2
  <2>4. ff \o cc \in Seq(Providers) /\ Elements(ff \o cc) = Elements(ff) \cup Elements(cc)
    BY ZenonT(60), <2>3, ConcatElements
  <2>5. PICK fc : fc = ff \o cc
    BY ZenonT(60)
  <2>6. fc \o hh \in Seq(Providers) /\ Elements(fc \o hh) = Elements(fc) \cup Elements(hh)
    BY ZenonT(60), <2>3, <2>4, <2>5, ConcatElements
  <2>7. list = fc \o hh
    BY ZenonT(60), <2>2, <2>5
  <2>8. /\ Elements(ff) = {"FILE"} \cap s.mon.enabled
        /\ Elements(cc) = {"CCCP"} \cap s.mon.enabled
        /\ Elements(hh) = {"HTTP"} \cap s.mon.enabled
    BY ZenonT(60), <1>3, <2>1, <2>2
  <2> HIDE DEF list
  <2> QED
    BY ZenonT(60), <1>2, <2>4, <2>5, <2>6, <2>7, <2>8 DEF Providers
<1> HIDE DEF list
<1>5. FirstActive(list) \in Providers \cup {"none"} /\ (s.mon.enabled # {} => FirstActive(list) \in s.mon.enabled)
  BY ZenonT(60), <1>4, FirstElement
<1>6. Rests(b, s) /\ b \in State
  <2>1. Rests(a, s)
    BY ZenonT(60), CccpPauseRests, SelfRests
  <2> HIDE DEF a
  <2>2. a \in State
    BY ZenonT(60), <2>1 DEF Rests, Asks
  <2>3. Rests(HttpPause(a), s)
    BY ZenonT(60), <2>1, <2>2, HttpPauseRests, RestsTrans
  <2>4. Rests(b, s)
    BY ZenonT(60), <2>1, <2>3
  <2> QED
    BY ZenonT(60), <2>4 DEF Rests, Asks
<1> HIDE DEF b
<1>7. /\ c \in State /\ c.inst = b.inst /\ c.bs = b.bs /\ c.cccp = b.cccp /\ c.http = b.http
      /\ c.file = b.file /\ c.mon.config = b.mon.config /\ c.mon.enabled = b.mon.enabled
      /\ c.mon.list = list /\ c.mon.cur = FirstActive(list)
  BY ZenonT(60), <1>4, <1>5, <1>6 DEF State, Mon
<1> HIDE DEF c
<1>8. c.mon.enabled = s.mon.enabled /\ (c.mon.enabled # {} => Listed(c))
  BY ZenonT(60), <1>4, <1>5, <1>6, <1>7 DEF Listed, Elements, Rests, Asks
<1> QED
  BY ZenonT(60), <1>1, <1>6, <1>7, <1>8 DEF Relists, Rests, Asks, Selected, Idle

(* set_active() *)
LEMMA SetActiveRelists ==
  ASSUME NEW s \in State, NEW p \in Providers, NEW on \in BOOLEAN
  PROVE  /\ Relists(SetActive(s, p, on), s)
         /\ SetActive(s, p, on).mon.enabled
              = IF on THEN s.mon.enabled \cup {p} ELSE s.mon.enabled \ {p}
<1> DEFINE e == IF on THEN s.mon.enabled \cup {p} ELSE s.mon.enabled \ {p}
           a == [s EXCEPT !.mon.enabled = e]
<1>1. s.mon.enabled \subseteq Providers
  BY ZenonT(60) DEF State, Mon
<1>2. e \subseteq Providers
  BY ZenonT(60), <1>1
<1>3. SetActive(s, p, on) = IF (p \in s.mon.enabled) = on THEN s ELSE Prepare(a)
  BY ZenonT(60) DEF SetActive
<1>4. (p \in s.mon.enabled) = on => e = s.mon.enabled
  OBVIOUS
<1> HIDE DEF e
<1>5. /\ a \in State /\ a.inst = s.inst /\ a.bs = s.bs /\ a.cccp = s.cccp /\ a.http = s.http
      /\ a.file = s.file /\ a.mon.config = s.mon.config /\ a.mon.enabled = e
  BY ZenonT(60), <1>2 DEF State, Mon
<1> HIDE DEF a
<1>6. /\ Relists(Prepare(a), a) /\ Prepare(a).mon.enabled = e
      /\ e # {} => Listed(Prepare(a))
  BY ZenonT(60), <1>5, PrepareRelists
<1>7. Relists(Prepare(a), s)
  BY ZenonT(60), <1>5, <1>6 DEF Relists, Selected, Idle
<1>8. Relists(s, s)
  BY ZenonT(60) DEF Relists
<1>9. CASE (p \in s.mon.enabled) = on
  BY ZenonT(60), <1>3, <1>4, <1>8, <1>9 DEF e
<1>10. CASE (p \in s.mon.enabled) # on
  BY ZenonT(60), <1>3, <1>6, <1>7, <1>10 DEF e
<1> QED
  BY ZenonT(60), <1>9, <1>10

(* A new list keeps the invariant if a provider that lasts is in it. *)
LEMMA RelistsKeeps ==
  ASSUME NEW s, s.inst.connected, NEW r, Relists(r, s),
         NoMemcached /\ Remaining(s) => Lasting(r) \/ (r.mon.enabled # {} /\ ~Lasting(s))
  PROVE  Keeps(r, s)
<1>1. r \in State /\ r.inst = s.inst /\ r.bs = s.bs /\ r.mon.config = s.mon.config
  BY ZenonT(60) DEF Relists
<1>2. Counted(s) => Counted(r)
  BY SMTT(60), <1>1 DEF Counted, Exact
<1>3. Listed(s) /\ Lasting(r) => Listed(r)
  BY ZenonT(60) DEF Relists, Lasting
<1>4. NoMemcached /\ Remaining(s) => Remaining(r)
  BY ZenonT(60), <1>1, <1>3 DEF Remaining, Relists
<1>5. Uniform(s) => Uniform(r)
  BY SMTT(60) DEF Relists, Uniform
<1>6. s.mon.config.ix <= r.mon.config.ix /\ s.inst.cfg.ix <= r.inst.cfg.ix
  BY SMTT(60), <1>1 DEF State, Mon, Inst, Cfg
<1> QED
  BY ZenonT(60), <1>1, <1>2, <1>4, <1>5, <1>6 DEF Keeps, Ends, Forward

-----------------------------------------------------------------------------
(* The counter, modulo CountMod: adding one to none and taking it away. *)
LEMMA CountFacts ==
  /\ (0 + 1) % CountMod = 1
  /\ (1 + CountMod - 1) % CountMod = 0
  /\ \A n \in Nat : (n + 1) % CountMod \in Nat /\ (n + CountMod - 1) % CountMod \in Nat
<1>1. CountMod \in Nat /\ CountMod > 3
  BY SMTT(60), CountAssumption
<1>2. (0 + 1) % CountMod = 1
  BY SMTT(60), <1>1
<1>3. (1 + CountMod - 1) % CountMod = 0
  BY SMTT(60), <1>1
<1>4. \A n \in Nat : (n + 1) % CountMod \in Nat /\ (n + CountMod - 1) % CountMod \in Nat
  BY SMTT(60), <1>1
<1> QED
  BY ZenonT(60), <1>2, <1>3, <1>4

(* lcb_maybe_breakout() *)
LEMMA BreakoutState ==
  ASSUME NEW s \in State
  PROVE  LET r == Breakout(s)
         IN  /\ r \in State /\ r.mon = s.mon /\ r.cccp = s.cccp /\ r.http = s.http
             /\ r.file = s.file /\ r.bs = s.bs
             /\ \A f \in {"cfg", "bucket", "count", "connected", "failed", "bcb", "ocb"} :
                  r.inst[f] = s.inst[f]
<1>1. (s.inst.wait /\ HasPending(s)) \in BOOLEAN
  BY ZenonT(60)
<1> QED
  BY ZenonT(60), <1>1 DEF Breakout, State, Inst

(* The fields that the invariant reads, and those it does not *)
Agrees(r, s) ==
  /\ r \in State /\ r.mon = s.mon /\ r.cccp = s.cccp
  /\ r.http.cached = s.http.cached /\ r.http.sel = s.http.sel
  /\ r.file.cached = s.file.cached /\ r.file.disk = s.file.disk /\ r.file.fresh = s.file.fresh
  /\ r.bs.state = s.bs.state
  /\ r.inst.cfg = s.inst.cfg /\ r.inst.bucket = s.inst.bucket /\ r.inst.count = s.inst.count
  /\ r.inst.connected = s.inst.connected /\ r.inst.failed = s.inst.failed

LEMMA AgreesKeeps ==
  ASSUME NEW s, s.inst.connected, NEW r, Agrees(r, s)
  PROVE  Keeps(r, s)
<1>1. /\ r \in State /\ r.inst.connected /\ r.mon = s.mon /\ r.inst.cfg = s.inst.cfg
      /\ r.inst.failed = s.inst.failed
  BY ZenonT(60) DEF Agrees
<1>2. Counted(s) => Counted(r)
  BY SMTT(60) DEF Agrees, Counted, Exact
<1>3. Remaining(s) => Remaining(r)
  BY ZenonT(60) DEF Agrees, Remaining, Listed, Lasting, Idle
<1>4. Uniform(s) => Uniform(r)
  BY SMTT(60) DEF Agrees, Uniform, Selected
<1>5. s.mon.config.ix <= r.mon.config.ix /\ s.inst.cfg.ix <= r.inst.cfg.ix
  BY SMTT(60), <1>1 DEF State, Mon, Inst, Cfg
<1> QED
  BY ZenonT(60), <1>1, <1>2, <1>3, <1>4, <1>5 DEF Keeps, Ends, Forward

LEMMA BreakoutKeeps ==
  ASSUME NEW s \in State, s.inst.connected
  PROVE  Agrees(Breakout(s), s) /\ Keeps(Breakout(s), s)
<1> DEFINE r == Breakout(s)
<1>1. /\ r \in State /\ r.mon = s.mon /\ r.cccp = s.cccp /\ r.http = s.http
      /\ r.file = s.file /\ r.bs = s.bs
      /\ \A f \in {"cfg", "bucket", "count", "connected", "failed", "bcb", "ocb"} :
           r.inst[f] = s.inst[f]
  BY ZenonT(60), BreakoutState
<1> HIDE DEF r
<1>2. Agrees(r, s)
  BY ZenonT(60), <1>1 DEF Agrees
<1> QED
  BY ZenonT(60), <1>2, AgreesKeeps DEF r

LEMMA EndsThenAgrees ==
  ASSUME NEW s \in State, NEW r, NEW q, Ends(r, s), Agrees(q, r)
  PROVE  Ends(q, s)
<1>1. Keeps(q, r)
  BY ZenonT(60), AgreesKeeps DEF Ends
<1>2. Counted(r) => Counted(q)
  BY SMTT(60) DEF Agrees, Counted, Exact
<1>3. Forward(q, s)
  <2>1. r \in State /\ q \in State
    BY ZenonT(60), <1>1 DEF Keeps, Ends
  <2>2. \A x \in State : x.mon.config.ix \in Nat /\ x.inst.cfg.ix \in Nat
    BY SMTT(60) DEF State, Mon, Inst, Cfg
  <2> QED
    BY SMTT(60), <1>1, <2>1, <2>2 DEF Keeps, Ends, Forward
<1> QED
  BY ZenonT(60), <1>1, <1>2, <1>3 DEF Keeps, Ends

(* initial_error(), in a bootstrap that has neither ended nor failed *)
LEMMA InitialErrorEnds ==
  ASSUME NEW s \in State, s.inst.connected, s.bs.state = "PRE"
  PROVE  Ends(InitialError(s), s)
<1> DEFINE told(cb) == IF cb = "set" THEN "error" ELSE cb
           a == [s EXCEPT !.bs.tm = "off", !.inst.failed = TRUE,
                          !.inst.bcb = told(@), !.inst.ocb = told(@)]
           b == AspendDel(a)
           n == (s.inst.count + CountMod - 1) % CountMod
<1>1. \A cb \in {"set", "ok", "error"} : told(cb) \in {"set", "ok", "error"}
  BY ZenonT(60)
<1> HIDE DEF told
<1>2. /\ a \in State /\ a.mon = s.mon /\ a.cccp = s.cccp /\ a.http = s.http /\ a.file = s.file
      /\ a.bs.state = s.bs.state /\ a.inst.failed /\ a.inst.cfg = s.inst.cfg
      /\ a.inst.bucket = s.inst.bucket /\ a.inst.count = s.inst.count /\ a.inst.connected
  BY ZenonT(60), <1>1 DEF State, Bs, Inst
<1> HIDE DEF a
<1>3. n \in Nat
  BY SMTT(60), CountFacts DEF State, Inst
<1>4. /\ b \in State /\ b.mon = a.mon /\ b.cccp = a.cccp /\ b.http = a.http /\ b.file = a.file
      /\ b.bs = a.bs /\ b.inst.failed = a.inst.failed /\ b.inst.cfg = a.inst.cfg
      /\ b.inst.bucket = a.inst.bucket /\ b.inst.count = n /\ b.inst.connected
  <2> HIDE DEF n
  <2>1. b = [a EXCEPT !.inst.count = n]
    BY ZenonT(60), <1>2 DEF AspendDel, n, State, Inst
  <2> QED
    BY ZenonT(60), <1>2, <1>3, <2>1 DEF State, Inst
<1> HIDE DEF b
<1>b. b.mon = s.mon /\ b.cccp = s.cccp
  BY ZenonT(60), <1>2, <1>4
<1>5. Counted(s) /\ ~s.inst.failed => Counted(b)
  <2>1. Counted(s) /\ ~s.inst.failed => n = 0
    BY SMTT(60), CountFacts DEF Counted, Exact
  <2> QED
    BY ZenonT(60), <1>2, <1>4, <2>1 DEF Counted, Exact
<1>6. Remaining(s) => Remaining(b)
  BY ZenonT(60), <1>b DEF Remaining, Listed, Lasting, Idle
<1>7. Uniform(s) => Uniform(b)
  BY SMTT(60), <1>2, <1>4 DEF Uniform, Selected
<1>8. s.mon.config.ix <= b.mon.config.ix /\ s.inst.cfg.ix <= b.inst.cfg.ix
  BY SMTT(60), <1>2, <1>4 DEF State, Mon, Inst, Cfg
<1>9. Ends(b, s)
  BY ZenonT(60), <1>4, <1>5, <1>6, <1>7, <1>8 DEF Ends, Forward
<1>10. InitialError(s) = Breakout(b)
  BY ZenonT(60) DEF InitialError, a, b, told
<1> QED
  BY ZenonT(60), <1>4, <1>9, <1>10, BreakoutKeeps, EndsThenAgrees

-----------------------------------------------------------------------------
(* bootstrap() on behalf of lcb_open, after an earlier bootstrap *)
LEMMA OpenKeeps ==
  ASSUME NEW s \in State, s.inst.connected, env.opens # "never",
         GivesUp => s.bs.state = "BOOTSTRAPPED"
  PROVE  Keeps(Open(s), s)
<1> DEFINE e == s.mon.enabled \cup {"HTTP"}
           a == [s EXCEPT !.inst.bucket = TRUE]
           b == [a EXCEPT !.mon.enabled = e]
           c == Stop(b)
           d == Prepare(c)
           f == [d EXCEPT !.bs.state = "PRE", !.bs.tm = "timeout"]
           n == (s.inst.count + 1) % CountMod
           g == [f EXCEPT !.inst.count = n]
<1>1. e \subseteq Providers /\ e # {}
  BY ZenonT(60) DEF State, Mon, Providers
<1> HIDE DEF e
<1>2. /\ b \in State /\ b.cccp = s.cccp /\ b.mon.config = s.mon.config /\ b.mon.enabled = e
      /\ b.inst.cfg = s.inst.cfg /\ b.inst.bucket /\ b.inst.count = s.inst.count
      /\ b.inst.connected /\ b.inst.failed = s.inst.failed
  BY ZenonT(60), <1>1 DEF State, Mon, Inst
<1> HIDE DEF b
<1>3. /\ c \in State /\ c.inst = b.inst /\ (Idle(b) => Idle(c))
      /\ c.mon.config = b.mon.config /\ c.mon.enabled = e
  BY ZenonT(60), <1>2, StopRests DEF Rests, Asks
<1> HIDE DEF c
<1>4. /\ d \in State /\ d.inst = c.inst /\ (Idle(c) => Idle(d))
      /\ d.mon.config = c.mon.config /\ d.mon.enabled = e /\ Listed(d)
  BY ZenonT(60), <1>1, <1>3, PrepareRelists DEF Relists
<1> HIDE DEF d
<1>5. /\ f \in State /\ f.inst = d.inst /\ f.mon = d.mon /\ f.cccp = d.cccp /\ f.bs.state = "PRE"
  BY ZenonT(60), <1>4 DEF State, Bs
<1> HIDE DEF f
<1>6. n \in Nat
  BY SMTT(60), CountFacts DEF State, Inst
<1>7. /\ g \in State /\ g.mon = f.mon /\ g.cccp = f.cccp /\ g.bs = f.bs
      /\ g.inst.cfg = f.inst.cfg /\ g.inst.bucket = f.inst.bucket /\ g.inst.count = n
      /\ g.inst.connected = f.inst.connected /\ g.inst.failed = f.inst.failed
  <2> HIDE DEF n
  <2> QED
    BY ZenonT(60), <1>5, <1>6 DEF State, Inst
<1> HIDE DEF g
<1>8. g = AspendAdd(f)
  <2>1. f.inst.count = s.inst.count
    BY ZenonT(60), <1>2, <1>3, <1>4, <1>5
  <2> QED
    BY ZenonT(60), <1>5, <2>1 DEF AspendAdd, g, n, State, Inst
<1>9. /\ g.inst.connected /\ g.inst.failed = s.inst.failed /\ g.inst.bucket
      /\ g.mon.config = s.mon.config /\ g.mon.enabled = e /\ Listed(g)
      /\ Idle(s) => Idle(g)
  <2>1. Idle(s) => Idle(b)
    BY ZenonT(60), <1>2 DEF Idle
  <2>2. Idle(d) => Idle(g)
    BY ZenonT(60), <1>5, <1>7 DEF Idle
  <2>3. Listed(g)
    BY ZenonT(60), <1>4, <1>5, <1>7 DEF Listed
  <2> QED
    BY ZenonT(60), <1>2, <1>3, <1>4, <1>5, <1>7, <2>1, <2>2, <2>3
<1>10. GivesUp /\ Counted(s) /\ ~s.inst.failed => Counted(g)
  <2>1. GivesUp /\ Counted(s) => n = 1
    BY SMTT(60), CountFacts DEF Counted, Exact
  <2> QED
    BY ZenonT(60), <1>5, <1>7, <1>9, <2>1 DEF Counted, Exact
<1>11. Remaining(s) => Remaining(g)
  BY ZenonT(60), <1>9 DEF Remaining, Lasting, e
<1>12. Keeps(g, s)
  BY ZenonT(60), <1>7, <1>9, <1>10, <1>11 DEF Keeps, Ends, Forward, NoLateOpen
<1>13. Open(s) = Start(g, TRUE)
  <2>1. DoBootstrap(a, "OPEN") = Start(g, TRUE)
    <3>1. [a EXCEPT !.mon.enabled = @ \cup {"HTTP"}] = b
      BY ZenonT(60) DEF b, e, State
    <3> QED
      BY ZenonT(60), <1>8, <3>1 DEF DoBootstrap, c, d, f
  <2> QED
    BY ZenonT(60), <2>1 DEF Open
<1> QED
  BY ZenonT(60), <1>7, <1>9, <1>12, <1>13, StartKeeps, KeepsTrans

(* bootstrap() for a refresh *)
LEMMA RefreshBootstrapKeeps ==
  ASSUME NEW s \in State, s.inst.connected, NEW option \in {"ALWAYS", "THROTTLE"}
  PROVE  Keeps(DoBootstrap(s, option), s)
<1> DEFINE refresh == option = "OPEN" \/ (~s.inst.bucket /\ option # "ALWAYS")
<1>1. option # "OPEN" /\ option # "INITIAL"
  BY SMTT(60)
<1>2. DoBootstrap(s, option) = IF s.mon.active THEN s ELSE Start(s, refresh)
  BY SMTT(60), <1>1 DEF DoBootstrap
<1>3. refresh \in BOOLEAN
  BY ZenonT(60)
<1> HIDE DEF refresh
<1> QED
  BY ZenonT(60), <1>2, <1>3, StartKeeps, SelfRests, RestsKeeps

-----------------------------------------------------------------------------
(* The bootstrap callback, which may call lcb_open: the bootstrap it is    *)
(* told of is over.                                                        *)
LEMMA BootstrapCallbackKeeps ==
  ASSUME NEW s \in State, s.inst.connected, s.bs.state = "BOOTSTRAPPED"
  PROVE  Keeps(BootstrapCallback(s), s)
<1> DEFINE a == IF env.opens = "callback" /\ Opens(s) THEN Open(s) ELSE s
           b == [a EXCEPT !.inst.bcb = "ok"]
<1>1. Keeps(s, s)
  BY ZenonT(60), SelfRests, RestsKeeps
<1>2. "callback" # "never"
  BY SMTT(60)
<1>3. Keeps(a, s)
  BY ZenonT(60), <1>1, <1>2, OpenKeeps
<1> HIDE DEF a
<1>4. a \in State /\ a.inst.connected
  BY ZenonT(60), <1>3 DEF Keeps, Ends
<1>5. Agrees(b, a)
  BY ZenonT(60), <1>4 DEF Agrees, State, Inst
<1>6. BootstrapCallback(s) = IF s.inst.bcb = "set" THEN b ELSE s
  BY ZenonT(60) DEF BootstrapCallback, a
<1> HIDE DEF b
<1>7. Keeps(b, s)
  BY ZenonT(60), <1>3, <1>4, <1>5, AgreesKeeps, KeepsTrans
<1> QED
  BY ZenonT(60), <1>1, <1>6, <1>7

(* The open callback *)
LEMMA OpenCallbackAgrees ==
  ASSUME NEW s \in State
  PROVE  Agrees(OpenCallback(s), s)
<1>1. Agrees([s EXCEPT !.inst.ocb = "ok"], s)
  BY ZenonT(60) DEF Agrees, State, Inst
<1>2. Agrees(s, s)
  BY ZenonT(60) DEF Agrees
<1> QED
  BY ZenonT(60), <1>1, <1>2 DEF OpenCallback

(* execute_deferred_operations() and check_bgpoll() *)
LEMMA DeferredAgrees ==
  ASSUME NEW s \in State, NEW b \in BOOLEAN
  PROVE  Agrees([s EXCEPT !.inst.deferred = b], s)
BY ZenonT(60) DEF Agrees, State, Inst

LEMMA CheckBgpollAgrees ==
  ASSUME NEW s \in State
  PROVE  Agrees(CheckBgpoll(s), s)
<1>1. (env.poll /\ s.inst.cfg.origin = "CCCP") \in BOOLEAN
  BY ZenonT(60)
<1> QED
  BY ZenonT(60), <1>1 DEF CheckBgpoll, Agrees, State, Bs

(* A memcached bucket's configuration enables HTTP and disables CCCP. *)
LEMMA RevertToHttpKeeps ==
  ASSUME NEW s \in State, s.inst.connected
  PROVE  Keeps(RevertToHttp(s), s) /\ RevertToHttp(s).bs = s.bs
<1> DEFINE a == [s EXCEPT !.http.compat = TRUE]
           b == SetActive(a, "HTTP", TRUE)
           c == SetActive(b, "CCCP", FALSE)
<1>1. Keeps(s, s)
  BY ZenonT(60), SelfRests, RestsKeeps
<1>2. CASE env.ketama
  <2>1. Agrees(a, s) /\ a \in State /\ a.inst.connected /\ a.bs = s.bs
    BY ZenonT(60) DEF Agrees, State, Http
  <2> HIDE DEF a
  <2>2. Relists(b, a)
    BY ZenonT(60), <2>1, SetActiveRelists DEF Providers
  <2> HIDE DEF b
  <2>3. b \in State /\ b.inst.connected /\ b.bs = a.bs
    BY ZenonT(60), <2>1, <2>2 DEF Relists
  <2>4. Relists(c, b)
    BY ZenonT(60), <2>3, SetActiveRelists DEF Providers
  <2> HIDE DEF c
  <2>5. c.bs = b.bs
    BY ZenonT(60), <2>4 DEF Relists
  <2>6. ~NoMemcached
    BY ZenonT(60), <1>2 DEF NoMemcached
  <2>7. Keeps(a, s) /\ Keeps(b, a) /\ Keeps(c, b)
    BY ZenonT(60), <2>1, <2>2, <2>3, <2>4, <2>6, AgreesKeeps, RelistsKeeps
  <2>8. Keeps(c, s) /\ c.bs = s.bs
    BY ZenonT(60), <2>1, <2>3, <2>5, <2>7, KeepsTrans
  <2>9. RevertToHttp(s) = c \/ RevertToHttp(s) = s
    BY ZenonT(60) DEF RevertToHttp, a, b, c
  <2> QED
    BY ZenonT(60), <1>1, <2>8, <2>9
<1>3. CASE ~env.ketama
  BY ZenonT(60), <1>1, <1>3 DEF RevertToHttp
<1> QED
  BY ZenonT(60), <1>2, <1>3

-----------------------------------------------------------------------------
(* The instance takes the monitor's configuration and is bootstrapped.     *)
LEMMA TakesKeeps ==
  ASSUME NEW s \in State, s.inst.connected, NEW r \in State, r.mon = s.mon, r.cccp = s.cccp,
         r.http = s.http, r.file = s.file, r.inst.bucket = s.inst.bucket,
         r.inst.connected = s.inst.connected, r.inst.failed = s.inst.failed,
         r.inst.cfg = s.mon.config, r.bs.state = "BOOTSTRAPPED",
         r.inst.count = IF s.bs.state = "PRE" THEN (s.inst.count + CountMod - 1) % CountMod
                        ELSE s.inst.count
  PROVE  Keeps(r, s)
<1>1. Counted(s) /\ ~s.inst.failed => Counted(r)
  <2>1. CASE s.bs.state = "PRE"
    BY SMTT(60), <2>1, CountFacts DEF Counted, Exact
  <2>2. CASE s.bs.state # "PRE"
    BY SMTT(60), <2>2 DEF Counted, Exact
  <2> QED
    BY ZenonT(60), <2>1, <2>2
<1>2. Remaining(s) => Remaining(r)
  BY ZenonT(60) DEF Remaining, Listed, Lasting, Idle
<1>3. /\ s.mon.config.ix <= r.mon.config.ix /\ r.inst.cfg.ix <= r.mon.config.ix
      /\ Uniform(s) => s.inst.cfg.ix <= r.inst.cfg.ix
  BY SMTT(60) DEF State, Mon, Cfg, Uniform
<1>4. Uniform(s) => Uniform(r)
  BY SMTT(60), <1>3 DEF Uniform, Selected
<1> QED
  BY ZenonT(60), <1>1, <1>2, <1>3, <1>4 DEF Keeps, Ends, Forward

(* What config_callback() does in a bootstrap once the instance has the    *)
(* configuration: s is the state before, t the one with the configuration. *)
LEMMA BootstrappedKeeps ==
  ASSUME NEW s \in State, s.inst.connected, s.bs.state = "PRE",
         NEW t \in State, t.mon = s.mon, t.cccp = s.cccp, t.http = s.http, t.file = s.file,
         t.inst.bucket = s.inst.bucket, t.inst.connected = s.inst.connected,
         t.inst.failed = s.inst.failed, t.inst.cfg = s.mon.config,
         t.inst.count = s.inst.count
  PROVE  Keeps(Bootstrapped(t), s)
<1> DEFINE n == (s.inst.count + CountMod - 1) % CountMod
           a == [t EXCEPT !.bs.state = "BOOTSTRAPPED", !.inst.count = n]
           b == RevertToHttp(a)
           c == BootstrapCallback(b)
           d == OpenCallback(c)
           e == [d EXCEPT !.inst.deferred = @ /\ ~d.inst.bucket]
<1>1. n \in Nat
  BY SMTT(60), CountFacts DEF State, Inst
<1>2. a = AspendDel([t EXCEPT !.bs.state = "BOOTSTRAPPED"])
  BY ZenonT(60) DEF AspendDel, State, Bs, Inst
<1> HIDE DEF n
<1>3. /\ a \in State /\ a.mon = t.mon /\ a.cccp = t.cccp /\ a.http = t.http /\ a.file = t.file
      /\ a.inst.bucket = t.inst.bucket /\ a.inst.connected = t.inst.connected
      /\ a.inst.failed = t.inst.failed /\ a.inst.cfg = t.inst.cfg
      /\ a.inst.count = n /\ a.bs.state = "BOOTSTRAPPED"
  BY ZenonT(60), <1>1 DEF State, Bs, Inst
<1>4. Bootstrapped(t) = CheckBgpoll(e)
  BY ZenonT(60), <1>2 DEF Bootstrapped
<1> HIDE DEF a
<1>5. Keeps(a, s)
  <2>1. a.inst.count = IF s.bs.state = "PRE" THEN (s.inst.count + CountMod - 1) % CountMod
                       ELSE s.inst.count
    BY ZenonT(60), <1>3 DEF n
  <2>2. /\ a.mon = s.mon /\ a.cccp = s.cccp /\ a.http = s.http /\ a.file = s.file
        /\ a.inst.bucket = s.inst.bucket /\ a.inst.connected = s.inst.connected
        /\ a.inst.failed = s.inst.failed /\ a.inst.cfg = s.mon.config
    BY ZenonT(60), <1>3
  <2> QED
    BY ZenonT(60), <1>3, <2>1, <2>2, TakesKeeps
<1>6. a.inst.connected
  BY ZenonT(60), <1>3
<1>7. Keeps(b, a) /\ b.bs.state = "BOOTSTRAPPED"
  BY ZenonT(60), <1>3, <1>6, RevertToHttpKeeps
<1> HIDE DEF b
<1>8. b \in State /\ b.inst.connected
  BY ZenonT(60), <1>7 DEF Keeps, Ends
<1>9. Keeps(c, b)
  BY ZenonT(60), <1>7, <1>8, BootstrapCallbackKeeps
<1> HIDE DEF c
<1>10. c \in State /\ c.inst.connected
  BY ZenonT(60), <1>9 DEF Keeps, Ends
<1>11. Keeps(d, c)
  BY ZenonT(60), <1>10, OpenCallbackAgrees, AgreesKeeps
<1> HIDE DEF d
<1>12. d \in State /\ d.inst.connected
  BY ZenonT(60), <1>11 DEF Keeps, Ends
<1>13. Keeps(e, d)
  <2>1. (d.inst.deferred /\ ~d.inst.bucket) \in BOOLEAN
    BY ZenonT(60)
  <2>2. e = [d EXCEPT !.inst.deferred = (d.inst.deferred /\ ~d.inst.bucket)]
    BY ZenonT(60), <1>12 DEF State, Inst
  <2>3. Agrees(e, d)
    BY ZenonT(60), <1>12, <2>1, <2>2, DeferredAgrees
  <2> HIDE DEF e
  <2> QED
    BY ZenonT(60), <1>12, <2>3, AgreesKeeps
<1> HIDE DEF e
<1>14. e \in State /\ e.inst.connected
  BY ZenonT(60), <1>13 DEF Keeps, Ends
<1>15. Keeps(CheckBgpoll(e), e)
  BY ZenonT(60), <1>14, CheckBgpollAgrees, AgreesKeeps
<1>16. Keeps(b, s)
  BY ZenonT(60), <1>5, <1>7, KeepsTrans
<1>17. Keeps(d, s)
  BY ZenonT(60), <1>8, <1>9, <1>11, <1>16, KeepsTrans
<1> QED
  BY ZenonT(60), <1>4, <1>12, <1>13, <1>15, <1>17, KeepsTrans

(* config_callback() for the monitor's configuration *)
LEMMA ConfigCallbackKeeps ==
  ASSUME NEW s \in State, s.inst.connected
  PROVE  Keeps(ConfigCallback(s, s.mon.config), s)
<1> DEFINE cfg == s.mon.config
           a == [s EXCEPT !.bs.tm = "off"]
           h == SetActive(a, "HTTP", FALSE)
           b == IF cfg.origin = "CCCP" /\ s.inst.cfg.origin # "HTTP" THEN h ELSE a
           c == [b EXCEPT !.inst.cfg = cfg]
           d == Breakout(c)
           e == IF s.bs.state = "PRE" THEN Bootstrapped(d) ELSE d
<1>1. ConfigCallback(s, cfg) = Breakout(e)
  BY ZenonT(60) DEF ConfigCallback
<1>2. cfg \in Cfg /\ s.bs.state \in {"PRE", "BOOTSTRAPPED"}
  BY ZenonT(60) DEF State, Mon, Bs
<1>3. Agrees(a, s) /\ a \in State /\ a.inst = s.inst
  BY ZenonT(60) DEF Agrees, State, Bs
<1> HIDE DEF a
<1>4. Keeps(a, s) /\ a.inst.connected /\ a.mon = s.mon /\ a.bs.state = s.bs.state
  BY ZenonT(60), <1>3, AgreesKeeps DEF Agrees
<1>5. Relists(h, a) /\ h.mon.enabled = a.mon.enabled \ {"HTTP"}
  BY ZenonT(60), <1>3, SetActiveRelists DEF Providers
<1> HIDE DEF h
<1>6. Keeps(b, s) /\ b.mon.config = cfg /\ b.bs.state = s.bs.state
  <2>1. CASE cfg.origin = "CCCP"
    <3>1. Remaining(a) => Lasting(h)
      <4>1. Remaining(a) => Lasting(a)
        BY ZenonT(60), <1>4, <2>1 DEF Remaining
      <4> QED
        BY SMTT(60), <4>1, <1>5 DEF Lasting
    <3>2. Keeps(h, a)
      BY ZenonT(60), <1>4, <1>5, <3>1, RelistsKeeps
    <3>3. h.mon.config = cfg /\ h.bs.state = s.bs.state
      BY ZenonT(60), <1>4, <1>5 DEF Relists
    <3>4. Keeps(h, s)
      BY ZenonT(60), <1>4, <3>2, KeepsTrans
    <3> QED
      BY ZenonT(60), <1>4, <3>3, <3>4
  <2>2. CASE cfg.origin # "CCCP"
    BY ZenonT(60), <1>4, <2>2
  <2> QED
    BY ZenonT(60), <2>1, <2>2
<1> HIDE DEF b
<1>7. b \in State /\ b.inst.connected
  BY ZenonT(60), <1>6 DEF Keeps, Ends
<1>8. /\ c \in State /\ c.mon = b.mon /\ c.cccp = b.cccp /\ c.http = b.http /\ c.file = b.file
      /\ c.bs = b.bs /\ c.inst.bucket = b.inst.bucket /\ c.inst.connected = b.inst.connected
      /\ c.inst.failed = b.inst.failed /\ c.inst.cfg = cfg /\ c.inst.count = b.inst.count
  <2> HIDE DEF cfg
  <2> QED
    BY ZenonT(60), <1>2, <1>7 DEF State, Inst
<1> HIDE DEF c
<1>9. /\ d \in State /\ d.mon = b.mon /\ d.cccp = b.cccp /\ d.http = b.http /\ d.file = b.file
      /\ d.bs = b.bs /\ d.inst.bucket = b.inst.bucket /\ d.inst.connected = b.inst.connected
      /\ d.inst.failed = b.inst.failed /\ d.inst.cfg = b.mon.config
      /\ d.inst.count = b.inst.count
  <2>1. /\ d \in State /\ d.mon = c.mon /\ d.cccp = c.cccp /\ d.http = c.http
        /\ d.file = c.file /\ d.bs = c.bs
        /\ \A f \in {"cfg", "bucket", "count", "connected", "failed", "bcb", "ocb"} :
             d.inst[f] = c.inst[f]
    BY ZenonT(60), <1>8, BreakoutState
  <2> HIDE DEF d, cfg
  <2> QED
    BY ZenonT(60), <1>6, <1>8, <2>1
<1> HIDE DEF d
<1>10. Keeps(e, b)
  <2>1. CASE s.bs.state = "PRE"
    BY ZenonT(60), <1>6, <1>7, <1>9, <2>1, BootstrappedKeeps
  <2>2. CASE s.bs.state = "BOOTSTRAPPED"
    <3>1. b.bs.state = "BOOTSTRAPPED" /\ b.bs.state # "PRE" /\ e = d
      BY SMTT(60), <1>6, <2>2
    <3>2. d.inst.count = IF b.bs.state = "PRE" THEN (b.inst.count + CountMod - 1) % CountMod
                         ELSE b.inst.count
      BY ZenonT(60), <1>9, <3>1
    <3>3. d.bs.state = "BOOTSTRAPPED"
      BY ZenonT(60), <1>9, <3>1
    <3>4. Keeps(d, b)
      BY ZenonT(60), <1>7, <1>9, <3>2, <3>3, TakesKeeps
    <3> QED
      BY ZenonT(60), <3>1, <3>4
  <2> QED
    BY ZenonT(60), <1>2, <2>1, <2>2
<1> HIDE DEF e
<1>11. e \in State /\ e.inst.connected
  BY ZenonT(60), <1>10 DEF Keeps, Ends
<1>12. Keeps(e, s) /\ Keeps(Breakout(e), e)
  BY ZenonT(60), <1>6, <1>10, <1>11, KeepsTrans, BreakoutKeeps
<1> QED
  BY ZenonT(60), <1>1, <1>12, KeepsTrans

-----------------------------------------------------------------------------
(* A configuration that a provider may hand to the monitor. *)
Suits(cfg, s) ==
  /\ cfg \in Cfg /\ cfg # NoConfig
  /\ NoMemcached /\ Remaining(s) => Lasting(s) \/ cfg.origin # "CCCP"
  /\ NoLateOpen /\ Uniform(s) => Fits(cfg)

(* ConfigInfo::compare() accepts no configuration that is older in the     *)
(* history, if both name the bucket or neither does.                       *)
LEMMA SwapsForward ==
  ASSUME env \in Envs, Ordered(env.history), NEW a \in Cfg, NEW b \in Cfg, Fits(a), Fits(b),
         Swaps(env.history, a, b)
  PROVE  a.ix <= b.ix
<1> DEFINE h == env.history
<1>1. h \in Seq([epoch : Nat, rev : Nat])
  BY ZenonT(60), ConfmonAssumption
<1>2. a.bucket = b.bucket /\ a.ix \in 1 .. Len(h) /\ b.ix \in 1 .. Len(h)
  BY ZenonT(60) DEF Fits
<1>3. \/ h[b.ix].epoch > h[a.ix].epoch
      \/ h[b.ix].rev > h[a.ix].rev
  BY ZenonT(60), <1>2 DEF Swaps
<1>4. b.ix <= a.ix => h[b.ix].epoch <= h[a.ix].epoch /\ h[b.ix].rev <= h[a.ix].rev
  <2>1. a.ix \in DOMAIN h /\ b.ix \in DOMAIN h
    BY SMTT(60), <1>1, <1>2
  <2> QED
    BY ZenonT(60), <2>1 DEF Ordered
<1> HIDE DEF h
<1>5. /\ h[a.ix].epoch \in Nat /\ h[b.ix].epoch \in Nat
      /\ h[a.ix].rev \in Nat /\ h[b.ix].rev \in Nat /\ a.ix \in Nat /\ b.ix \in Nat
  <2>1. ASSUME NEW R, h \in Seq(R) PROVE \A i \in 1 .. Len(h) : h[i] \in R
    BY SMTT(60), <2>1
  <2>2. \A r \in [epoch : Nat, rev : Nat] : r.epoch \in Nat /\ r.rev \in Nat
    BY ZenonT(60)
  <2>3. a.ix \in Nat /\ b.ix \in Nat
    BY ZenonT(60) DEF Cfg
  <2> QED
    BY ZenonT(60), <1>1, <1>2, <2>1, <2>2, <2>3
<1> QED
  BY SMTT(60), <1>3, <1>4, <1>5

(* FileProvider::clconfig_lsn() writes the cache file. *)
LEMMA WriteCacheKeeps ==
  ASSUME NEW s \in State, s.inst.connected, NEW cfg, Suits(cfg, s)
  PROVE  Keeps(WriteCache(s, cfg), s) /\ WriteCache(s, cfg).mon = s.mon
           /\ WriteCache(s, cfg).bs = s.bs
<1> DEFINE r == [s EXCEPT !.file.disk = cfg.ix, !.file.fresh = TRUE]
<1>1. Keeps(s, s)
  BY ZenonT(60), SelfRests, RestsKeeps
<1>2. cfg.ix \in Nat
  BY SMTT(60) DEF Suits, Cfg
<1>3. /\ r \in State /\ r.mon = s.mon /\ r.cccp = s.cccp /\ r.http = s.http /\ r.bs = s.bs
      /\ r.inst = s.inst /\ r.file.cached = s.file.cached /\ r.file.disk = cfg.ix
  BY ZenonT(60), <1>2 DEF State, File
<1>4. WriteCache(s, cfg) = r \/ WriteCache(s, cfg) = s
  BY ZenonT(60) DEF WriteCache
<1> HIDE DEF r
<1>5. Counted(s) => Counted(r)
  BY SMTT(60), <1>3 DEF Counted, Exact
<1>6. Remaining(s) => Remaining(r)
  BY ZenonT(60), <1>3 DEF Remaining, Listed, Lasting, Idle
<1>7. NoLateOpen /\ Uniform(s) => Uniform(r)
  BY SMTT(60), <1>3 DEF Uniform, Selected, Suits, Fits
<1>8. s.mon.config.ix <= r.mon.config.ix /\ s.inst.cfg.ix <= r.inst.cfg.ix
  BY SMTT(60), <1>3 DEF State, Mon, Inst, Cfg
<1>9. Keeps(r, s)
  BY ZenonT(60), <1>3, <1>5, <1>6, <1>7, <1>8 DEF Keeps, Ends, Forward
<1> QED
  BY ZenonT(60), <1>1, <1>3, <1>4, <1>9

(* invoke_listeners() for the monitor's new configuration *)
LEMMA GotNewConfigKeeps ==
  ASSUME NEW s \in State, s.inst.connected, s.mon.config # NoConfig
  PROVE  Keeps(GotNewConfig(s, s.mon.config), s)
<1> DEFINE cfg == s.mon.config
           a == WriteCache(s, cfg)
           b == [a EXCEPT !.bs.tm = "signal"]
<1>0. Suits(s.mon.config, s)
  <2>1. s.mon.config \in Cfg
    BY ZenonT(60) DEF State, Mon
  <2> QED
    BY ZenonT(60), <2>1 DEF Suits, Remaining, Uniform
<1>1. Keeps(a, s) /\ a.mon = s.mon /\ a.bs = s.bs
  BY ZenonT(60), <1>0, WriteCacheKeeps
<1>2. GotNewConfig(s, cfg) = IF s.bs.state = "PRE" THEN ConfigCallback(a, cfg) ELSE b
  BY ZenonT(60) DEF GotNewConfig
<1> HIDE DEF a
<1>3. a \in State /\ a.inst.connected
  BY ZenonT(60), <1>1 DEF Keeps, Ends
<1>4. Keeps(ConfigCallback(a, cfg), a)
  BY ZenonT(60), <1>1, <1>3, ConfigCallbackKeeps
<1>5. Agrees(b, a)
  BY ZenonT(60), <1>3 DEF Agrees, State, Bs
<1> HIDE DEF b
<1>6. Keeps(b, a)
  BY ZenonT(60), <1>3, <1>5, AgreesKeeps
<1>7. PICK c : c = ConfigCallback(a, cfg)
  BY ZenonT(60)
<1>8. Keeps(c, s) /\ Keeps(b, s)
  BY ZenonT(60), <1>1, <1>4, <1>6, <1>7, KeepsTrans
<1> QED
  BY ZenonT(60), <1>2, <1>7, <1>8

(* do_set_next() *)
LEMMA SetNextKeeps ==
  ASSUME env \in Envs, NEW s \in State, s.inst.connected, NEW cfg, Suits(cfg, s)
  PROVE  Keeps(SetNext(s, cfg), s)
<1> DEFINE a == ConfigUpdated(s)
           b == [a EXCEPT !.mon.config = cfg]
           c == Stop(b)
<1>1. Keeps(s, s)
  BY ZenonT(60), SelfRests, RestsKeeps
<1>2. cfg \in Cfg
  BY ZenonT(60) DEF Suits
<1>3. CASE s.mon.config = NoConfig \/ Swaps(env.history, s.mon.config, cfg)
  <2>1. Rests(a, s) /\ Keeps(a, s)
    BY ZenonT(60), ConfigUpdatedRests, RestsKeeps
  <2> HIDE DEF a
  <2>2. /\ a \in State /\ a.inst = s.inst /\ a.bs = s.bs /\ a.mon.config = s.mon.config
        /\ (Lasting(s) <=> Lasting(a))
    BY ZenonT(60), <2>1 DEF Rests, Asks, Lasting
  <2>3. /\ b \in State /\ b.cccp = a.cccp /\ b.http = a.http /\ b.file = a.file /\ b.bs = a.bs
        /\ b.inst = a.inst /\ b.mon.config = cfg /\ b.mon.cur = a.mon.cur
        /\ b.mon.list = a.mon.list /\ b.mon.enabled = a.mon.enabled
    BY ZenonT(60), <1>2, <2>2 DEF State, Mon
  <2> HIDE DEF b
  <2>4. Counted(s) => Counted(b)
    BY SMTT(60), <2>2, <2>3 DEF Counted, Exact
  <2>5. NoMemcached /\ Remaining(s) => Remaining(b)
    <3>1. ASSUME NoMemcached, Remaining(s) PROVE Remaining(b)
      <4>1. Remaining(a) /\ (Lasting(a) \/ cfg.origin # "CCCP")
        BY ZenonT(60), <3>1, <2>1, <2>2 DEF Keeps, Ends, Suits
      <4>2. Lasting(a) => Lasting(b)
        BY ZenonT(60), <2>3 DEF Lasting
      <4>3. Idle(a) => Idle(b)
        BY ZenonT(60), <2>3 DEF Idle
      <4>4. Listed(a) => Listed(b)
        BY ZenonT(60), <2>3 DEF Listed
      <4> QED
        BY ZenonT(60), <4>1, <4>2, <4>3, <4>4, <2>3 DEF Remaining
    <3> QED
      BY ZenonT(60), <3>1
  <2>6. ASSUME NoLateOpen, Uniform(s)
        PROVE  Uniform(b) /\ s.mon.config.ix <= b.mon.config.ix /\ s.inst.cfg.ix <= b.inst.cfg.ix
    <3>1. Fits(cfg) /\ Uniform(a)
      BY ZenonT(60), <2>6, <2>1 DEF Suits, Keeps, Ends, Forward
    <3>2. s.mon.config \in Cfg /\ s.inst.cfg \in Cfg
      BY ZenonT(60) DEF State, Mon, Inst
    <3>3. s.mon.config.ix <= cfg.ix
      <4>1. CASE s.mon.config = NoConfig
        BY SMTT(60), <4>1, <1>2 DEF NoConfig, Cfg
      <4>2. CASE s.mon.config # NoConfig
        <5>1. Fits(s.mon.config) /\ Swaps(env.history, s.mon.config, cfg)
          BY ZenonT(60), <1>3, <2>6, <4>2 DEF Uniform
        <5> QED
          BY ZenonT(60), <1>2, <2>6, <3>1, <3>2, <5>1, SwapsForward DEF NoLateOpen
      <4> QED
        BY ZenonT(60), <4>1, <4>2
    <3>4. s.inst.cfg.ix <= s.mon.config.ix /\ s.inst.cfg.ix <= s.inst.cfg.ix
      BY SMTT(60), <2>6, <3>2 DEF Uniform, Cfg
    <3>5. s.inst.cfg.ix <= cfg.ix
      BY SMTT(60), <1>2, <3>2, <3>3, <3>4 DEF Cfg
    <3>6. Uniform(b)
      BY SMTT(60), <2>2, <2>3, <3>1, <3>5 DEF Uniform, Selected
    <3> QED
      BY ZenonT(60), <2>2, <2>3, <3>3, <3>4, <3>6
  <2>7. Keeps(b, s)
    BY ZenonT(60), <2>2, <2>3, <2>4, <2>5, <2>6 DEF Keeps, Ends, Forward
  <2>8. Rests(c, b) /\ b.inst.connected
    BY ZenonT(60), <2>2, <2>3, StopRests
  <2>9. SetNext(s, cfg) = GotNewConfig(c, cfg)
    BY ZenonT(60), <1>3 DEF SetNext, a, b
  <2> HIDE DEF c
  <2>10. c \in State /\ c.inst.connected /\ c.mon.config = cfg /\ Keeps(c, s)
    BY ZenonT(60), <2>3, <2>7, <2>8, RestsKeeps, KeepsTrans DEF Rests, Asks
  <2>11. PICK d : d = GotNewConfig(c, cfg)
    BY ZenonT(60)
  <2>12. Keeps(d, c)
    BY ZenonT(60), <2>10, <2>11, GotNewConfigKeeps DEF Suits
  <2> QED
    BY ZenonT(60), <2>9, <2>10, <2>11, <2>12, KeepsTrans
<1>4. CASE ~(s.mon.config = NoConfig \/ Swaps(env.history, s.mon.config, cfg))
  BY ZenonT(60), <1>1, <1>4 DEF SetNext
<1> QED
  BY ZenonT(60), <1>3, <1>4

(* provider_got_config() *)
LEMMA GotConfigKeeps ==
  ASSUME env \in Envs, NEW s \in State, s.inst.connected, NEW cfg, Suits(cfg, s)
  PROVE  Keeps(GotConfig(s, cfg), s)
<1>1. PICK a : a = SetNext(s, cfg)
  BY ZenonT(60)
<1>2. Keeps(a, s)
  BY ZenonT(60), <1>1, SetNextKeeps
<1>3. a \in State /\ a.inst.connected
  BY ZenonT(60), <1>2 DEF Keeps, Ends
<1>4. Keeps(Stop(a), s)
  BY ZenonT(60), <1>2, <1>3, StopRests, RestsKeeps, KeepsTrans
<1> QED
  BY ZenonT(60), <1>1, <1>4 DEF GotConfig

(* The cached configuration of an enabled provider *)
LEMMA SetCachedKeeps ==
  ASSUME env \in Envs, NEW s \in State, s.inst.connected, NEW p \in Providers
  PROVE  Keeps(SetCached(s, p), s)
<1> DEFINE cfg == Cached(s, p)
<1>1. cfg \in {s.file.cached, s.cccp.cached, s.http.cached}
  BY SMTT(60) DEF Cached, Providers
<1>2. cfg \in Cfg
  <2>1. /\ s.file.cached \in Cfgs("FILE") /\ s.cccp.cached \in Cfgs("CCCP")
        /\ s.http.cached \in Cfgs("HTTP")
    BY ZenonT(60) DEF State, File, Cccp, Http
  <2>2. Cfgs("FILE") \subseteq Cfg /\ Cfgs("CCCP") \subseteq Cfg /\ Cfgs("HTTP") \subseteq Cfg
    BY SMTT(60) DEF Cfgs, Cfg, Providers
  <2> HIDE DEF cfg
  <2> QED
    BY ZenonT(60), <1>1, <2>1, <2>2
<1>3. p \in s.mon.enabled => Lasting(s) \/ cfg.origin # "CCCP"
  <2>1. p = "HTTP" => cfg = s.http.cached
    BY SMTT(60) DEF Cached
  <2>2. s.http.cached.origin \in {"HTTP", "none"}
    BY ZenonT(60) DEF State, Http, Cfgs
  <2> HIDE DEF cfg
  <2> QED
    BY SMTT(60), <2>1, <2>2 DEF Lasting, Providers
<1>4. Uniform(s) /\ cfg # NoConfig => Fits(cfg)
  <2> HIDE DEF cfg
  <2> QED
    BY SMTT(60), <1>1 DEF Uniform
<1>5. Keeps(s, s)
  BY ZenonT(60), SelfRests, RestsKeeps
<1>6. SetCached(s, p) = IF p \in s.mon.enabled /\ cfg # NoConfig THEN SetNext(s, cfg) ELSE s
  BY ZenonT(60) DEF SetCached
<1> HIDE DEF cfg
<1>7. p \in s.mon.enabled /\ cfg # NoConfig => Keeps(SetNext(s, cfg), s)
  BY ZenonT(60), <1>2, <1>3, <1>4, SetNextKeeps DEF Suits
<1> QED
  BY ZenonT(60), <1>5, <1>6, <1>7

(* do_next_provider() tries the cached configurations first. *)
LEMMA CachedPassKeeps ==
  ASSUME env \in Envs, NEW s \in State, s.inst.connected
  PROVE  Keeps(CachedPass(s), s)
<1>1. "FILE" \in Providers /\ "CCCP" \in Providers /\ "HTTP" \in Providers
  BY ZenonT(60) DEF Providers
<1>2. PICK a : a = SetCached(s, "FILE")
  BY ZenonT(60)
<1>3. Keeps(a, s) /\ a \in State /\ a.inst.connected
  BY ZenonT(60), <1>1, <1>2, SetCachedKeeps DEF Keeps, Ends
<1>4. PICK b : b = SetCached(a, "CCCP")
  BY ZenonT(60)
<1>5. Keeps(b, a) /\ b \in State /\ b.inst.connected
  BY ZenonT(60), <1>1, <1>3, <1>4, SetCachedKeeps DEF Keeps, Ends
<1>6. PICK c : c = SetCached(b, "HTTP")
  BY ZenonT(60)
<1>7. Keeps(c, b)
  BY ZenonT(60), <1>1, <1>5, <1>6, SetCachedKeeps
<1>8. Keeps(c, s)
  BY ZenonT(60), <1>3, <1>5, <1>7, KeepsTrans
<1> QED
  BY ZenonT(60), <1>2, <1>4, <1>6, <1>8 DEF CachedPass

-----------------------------------------------------------------------------
(* Another current provider, of the enabled ones *)
LEMMA CurEnds ==
  ASSUME NEW s \in State, NEW r, Ends(r, s), NEW p \in Providers \cup {"none"},
         Listed(r) => p \in r.mon.enabled
  PROVE  Ends([r EXCEPT !.mon.cur = p], s)
<1> DEFINE q == [r EXCEPT !.mon.cur = p]
<1>1. r \in State
  BY ZenonT(60) DEF Ends
<1>2. /\ q \in State /\ q.cccp = r.cccp /\ q.http = r.http /\ q.file = r.file /\ q.bs = r.bs
      /\ q.inst = r.inst /\ q.mon.cur = p /\ q.mon.enabled = r.mon.enabled
      /\ q.mon.list = r.mon.list /\ q.mon.config = r.mon.config
  BY ZenonT(60), <1>1 DEF State, Mon
<1> HIDE DEF q
<1>3. Counted(r) => Counted(q)
  BY SMTT(60), <1>2 DEF Counted, Exact
<1>4. Remaining(r) => Remaining(q)
  BY ZenonT(60), <1>2 DEF Remaining, Listed, Lasting, Idle
<1>5. Uniform(r) => Uniform(q)
  BY SMTT(60), <1>2 DEF Uniform, Selected
<1>6. Ends(q, s)
  BY ZenonT(60), <1>2, <1>3, <1>4, <1>5 DEF Ends, Forward
<1> QED
  BY ZenonT(60), <1>6 DEF q

(* next_active() is one of the list. *)
LEMMA NextActiveListed ==
  ASSUME NEW s \in State
  PROVE  /\ NextActive(s) \in Providers \cup {"none"}
         /\ Listed(s) /\ NextActive(s) # "none" => NextActive(s) \in s.mon.enabled
<1> DEFINE list == s.mon.list
           later == {i \in 2 .. Len(list) : list[i - 1] = s.mon.cur}
           i == CHOOSE i \in later : TRUE
<1>1. list \in Seq(Providers)
  BY ZenonT(60) DEF State, Mon
<1>2. NextActive(s) = IF later = {} THEN "none" ELSE list[i]
  BY ZenonT(60) DEF NextActive
<1>3. later # {} => i \in later
  BY ZenonT(60)
<1>4. later \subseteq DOMAIN list /\ \A j \in DOMAIN list : list[j] \in Providers
  <2> HIDE DEF list
  <2> QED
    BY SMTT(60), <1>1
<1> HIDE DEF later, i
<1> QED
  BY ZenonT(60), <1>2, <1>3, <1>4 DEF Listed

(* provider_failed() *)
LEMMA ProviderFailedEnds ==
  ASSUME NEW s \in State, s.inst.connected, NEW p
  PROVE  Ends(ProviderFailed(s, p), s)
<1>1. Ends(s, s)
  BY ZenonT(60), SelfRests, RestsKeeps DEF Keeps
<1>2. CASE p # s.mon.cur
  <2>1. ProviderFailed(s, p) = s
    BY SMTT(60), <1>2 DEF ProviderFailed
  <2> QED
    BY ZenonT(60), <1>1, <2>1
<1>3. CASE p = s.mon.cur /\ NextActive(s) # "none"
  <2> DEFINE a == [s EXCEPT !.mon.cur = NextActive(s)]
             b == [a EXCEPT !.mon.as_start = TRUE]
  <2>1. Ends(a, s)
    BY ZenonT(60), <1>1, <1>3, NextActiveListed, CurEnds
  <2>2. ProviderFailed(s, p) = b
    <3>1. ProviderFailed(s, p) = [s EXCEPT !.mon.cur = NextActive(s), !.mon.as_start = TRUE]
      BY SMTT(60), <1>3 DEF ProviderFailed
    <3> QED
      BY ZenonT(60), <3>1
  <2> HIDE DEF a
  <2>3. a \in State
    BY ZenonT(60), <2>1 DEF Ends
  <2>4. Rests(b, a)
    BY ZenonT(60), <2>3 DEF Rests, Asks, Selected, Idle, State, Mon
  <2> HIDE DEF b
  <2> QED
    BY ZenonT(60), <2>1, <2>2, <2>4, EndsThenRests
<1>4. CASE p = s.mon.cur /\ NextActive(s) = "none"
  <2> DEFINE last == ProvidersCycled(s)
             a == [last EXCEPT !.mon.cur = FirstActive(last.mon.list)]
  <2>1. ProviderFailed(s, p) = Stop(a)
    BY SMTT(60), <1>4 DEF ProviderFailed
  <2>2. Ends(last, s)
    BY ZenonT(60), <1>1, InitialErrorEnds DEF ProvidersCycled
  <2> HIDE DEF last
  <2>3. last \in State /\ last.mon.list \in Seq(Providers)
    BY ZenonT(60), <2>2 DEF Ends, State, Mon
  <2>4. /\ FirstActive(last.mon.list) \in Providers \cup {"none"}
        /\ Listed(last) => FirstActive(last.mon.list) \in last.mon.enabled
    BY ZenonT(60), <2>3, FirstElement DEF Listed, Elements
  <2>5. Ends(a, s)
    BY ZenonT(60), <2>2, <2>4, CurEnds
  <2> HIDE DEF a
  <2>6. Rests(Stop(a), a)
    BY ZenonT(60), <2>5, StopRests DEF Ends
  <2> QED
    BY ZenonT(60), <2>1, <2>5, <2>6, EndsThenRests
<1> QED
  BY ZenonT(60), <1>2, <1>3, <1>4

-----------------------------------------------------------------------------
(* A CCCP request may be going on. *)
MayAsk(s) == NoMemcached => Lasting(s)

(* A configuration that a node may answer with *)
Offered(cfg, s) ==
  /\ cfg \in Cfg /\ cfg # NoConfig
  /\ MayAsk(s) \/ cfg.origin # "CCCP"
  /\ NoLateOpen => Fits(cfg)

LEMMA OfferedSuits ==
  ASSUME NEW cfg, NEW s, Offered(cfg, s)
  PROVE  Suits(cfg, s)
BY ZenonT(60) DEF Offered, Suits, MayAsk

LEMMA MayStillAsk ==
  ASSUME NEW s, NEW r, Rests(r, s), MayAsk(s)
  PROVE  MayAsk(r)
BY ZenonT(60) DEF MayAsk, Rests, Asks, Lasting

(* The CCCP provider fails. *)
LEMMA CccpFailedEnds ==
  ASSUME NEW s \in State, s.inst.connected
  PROVE  Ends(CccpFailed(s), s)
<1>1. PICK a : a = [s EXCEPT !.cccp.timer = FALSE]
  BY ZenonT(60)
<1>2. Rests(a, s)
  BY ZenonT(60), <1>1, CccpTimerRests
<1>3. a \in State /\ a.inst.connected /\ Keeps(a, s)
  BY ZenonT(60), <1>2, RestsKeeps DEF Rests, Asks
<1>4. Ends(ProviderFailed(a, "CCCP"), a)
  BY ZenonT(60), <1>3, ProviderFailedEnds
<1> QED
  BY ZenonT(60), <1>1, <1>3, <1>4, KeepsThenEnds DEF CccpFailed

(* schedule_next_request() *)
LEMMA CccpNextEnds ==
  ASSUME NEW s \in State, s.inst.connected, MayAsk(s)
  PROVE  Ends(CccpNext(s), s)
<1>1. Ends(CccpRequest(s), s)
  BY ZenonT(60), CccpRequestAsks, AsksKeeps DEF MayAsk, Keeps
<1> QED
  BY ZenonT(60), <1>1, CccpFailedEnds DEF CccpNext

(* The same after stop_current_request() *)
LEMMA CccpStopNextEnds ==
  ASSUME NEW s \in State, s.inst.connected, MayAsk(s)
  PROVE  Ends(CccpNext(CccpStop(s)), s)
<1>1. PICK a : a = CccpStop(s)
  BY ZenonT(60)
<1>2. Rests(a, s)
  BY ZenonT(60), <1>1, CccpStopRests
<1>3. a \in State /\ a.inst.connected /\ Keeps(a, s) /\ MayAsk(a)
  BY ZenonT(60), <1>2, RestsKeeps, MayStillAsk DEF Rests, Asks
<1>4. Ends(CccpNext(a), a)
  BY ZenonT(60), <1>3, CccpNextEnds
<1> QED
  BY ZenonT(60), <1>1, <1>3, <1>4, KeepsThenEnds

(* mcio_error() *)
LEMMA McioErrorEnds ==
  ASSUME NEW s \in State, s.inst.connected, MayAsk(s),
         NEW protocol \in BOOLEAN
  PROVE  Ends(McioError(s, protocol), s)
<1>1. PICK a : a = CccpStop(s)
  BY ZenonT(60)
<1>2. Rests(a, s)
  BY ZenonT(60), <1>1, CccpStopRests
<1>3. a \in State /\ a.inst.connected /\ Keeps(a, s)
  BY ZenonT(60), <1>2, RestsKeeps DEF Rests, Asks
<1>4. Ends(CccpFailed(a), s)
  BY ZenonT(60), <1>3, CccpFailedEnds, KeepsThenEnds
<1>5. Ends(CccpNext(CccpStop(s)), s)
  BY ZenonT(60), CccpStopNextEnds
<1> QED
  BY ZenonT(60), <1>1, <1>4, <1>5 DEF McioError

(* A provider caches a configuration. *)
LEMMA CachesKeeps ==
  ASSUME NEW s \in State, s.inst.connected, NEW cfg, Offered(cfg, s), NEW r \in State,
         r.mon = s.mon, r.bs = s.bs, r.inst = s.inst, Selected(s) => Selected(r),
         Idle(s) => Idle(r), r.cccp.cached \in {s.cccp.cached, cfg},
         r.http.cached \in {s.http.cached, cfg}, r.file.cached \in {s.file.cached, cfg},
         r.file.disk = s.file.disk, r.file.fresh => s.file.fresh
  PROVE  Keeps(r, s) /\ Offered(cfg, r)
<1>1. Counted(s) => Counted(r)
  BY SMTT(60) DEF Counted, Exact
<1>2. (Lasting(s) <=> Lasting(r)) /\ (Listed(s) <=> Listed(r))
  BY ZenonT(60) DEF Lasting, Listed
<1>3. Remaining(s) => Remaining(r)
  BY ZenonT(60), <1>2 DEF Remaining
<1>4. NoLateOpen /\ Uniform(s) => Uniform(r)
  BY SMTT(60) DEF Uniform, Offered
<1>5. s.mon.config.ix <= r.mon.config.ix /\ s.inst.cfg.ix <= r.inst.cfg.ix
  BY SMTT(60) DEF State, Mon, Inst, Cfg
<1>6. Keeps(r, s)
  BY ZenonT(60), <1>1, <1>3, <1>4, <1>5 DEF Keeps, Ends, Forward
<1> QED
  BY ZenonT(60), <1>2, <1>6 DEF Offered, MayAsk

(* update() *)
LEMMA CccpUpdateKeeps ==
  ASSUME env \in Envs, NEW s \in State, s.inst.connected, NEW cfg, Offered(cfg, s),
         cfg.origin = "CCCP"
  PROVE  Keeps(CccpUpdate(s, cfg), s)
<1> DEFINE a == [s EXCEPT !.cccp.cached = cfg]
<1>1. cfg \in Cfgs("CCCP")
  BY SMTT(60) DEF Offered, Cfgs, Cfg
<1>2. /\ a \in State /\ a.mon = s.mon /\ a.bs = s.bs /\ a.inst = s.inst /\ a.http = s.http
      /\ a.file = s.file /\ a.cccp.cached = cfg /\ a.cccp.st = s.cccp.st
      /\ a.cccp.timer = s.cccp.timer /\ a.cccp.stale = s.cccp.stale /\ a.cccp.sel = s.cccp.sel
  BY ZenonT(60), <1>1 DEF State, Cccp
<1>3. CccpUpdate(s, cfg) = GotConfig(a, cfg)
  BY ZenonT(60) DEF CccpUpdate
<1> HIDE DEF a
<1>4. (Selected(s) => Selected(a)) /\ (Idle(s) => Idle(a))
  BY ZenonT(60), <1>2 DEF Selected, Idle
<1>5. Keeps(a, s) /\ Offered(cfg, a) /\ a.inst.connected
  BY ZenonT(60), <1>2, <1>4, CachesKeeps
<1>6. Keeps(GotConfig(a, cfg), a)
  BY ZenonT(60), <1>2, <1>5, OfferedSuits, GotConfigKeeps
<1> QED
  BY ZenonT(60), <1>3, <1>5, <1>6, KeepsTrans

(* HTTP: on_io_error() *)
LEMMA HttpIoErrorEnds ==
  ASSUME NEW s \in State, s.inst.connected
  PROVE  Ends(HttpIoError(s), s)
<1> DEFINE a == HttpClose(s)
           b == ProviderFailed(a, "HTTP")
           c == [a EXCEPT !.http.st = "conn", !.http.ix = NextIx(@)]
           again == b.http.reconnect \/ (s.http.compat /\ b.mon.config # NoConfig)
           d == [b EXCEPT !.http.io = FALSE, !.http.reconnect = again]
<1>1. HttpIoError(s) = IF HasNext(s.http.ix, FALSE) THEN c ELSE
                       [b EXCEPT !.http.io = FALSE,
                                 !.http.reconnect = @ \/ (s.http.compat /\ b.mon.config # NoConfig)]
  BY ZenonT(60) DEF HttpIoError
<1>2. Rests(a, s) /\ a \in State
  BY ZenonT(60), HttpCloseRests DEF Rests, Asks
<1> HIDE DEF a
<1>3. Keeps(a, s) /\ a.inst.connected
  BY ZenonT(60), <1>2, RestsKeeps DEF Rests, Asks
<1>4. Ends(b, s)
  BY ZenonT(60), <1>2, <1>3, ProviderFailedEnds, KeepsThenEnds
<1> HIDE DEF b
<1>5. b \in State
  BY ZenonT(60), <1>4 DEF Ends
<1>6. Rests(c, a)
  <2>1. NextIx(a.http.ix) \in Nat
    BY SMTT(60), <1>2, ConfmonAssumption DEF NextIx, State, Http
  <2>2. /\ c \in State /\ c.http.cached = a.http.cached /\ c.http.sel = a.http.sel
        /\ c.mon = a.mon /\ c.cccp = a.cccp /\ c.file = a.file /\ c.bs = a.bs /\ c.inst = a.inst
    BY ZenonT(60), <1>2, <2>1 DEF State, Http
  <2> HIDE DEF c
  <2> QED
    BY ZenonT(60), <1>2, <2>2, HttpRests
<1>7. Rests(d, b)
  <2>1. again \in BOOLEAN
    BY ZenonT(60)
  <2> HIDE DEF again
  <2>2. /\ d \in State /\ d.http.cached = b.http.cached /\ d.http.sel = b.http.sel
        /\ d.mon = b.mon /\ d.cccp = b.cccp /\ d.file = b.file /\ d.bs = b.bs /\ d.inst = b.inst
    BY ZenonT(60), <1>5, <2>1 DEF State, Http
  <2> HIDE DEF d
  <2> QED
    BY ZenonT(60), <1>5, <2>2, HttpRests
<1>8. d = [b EXCEPT !.http.io = FALSE,
                    !.http.reconnect = @ \/ (s.http.compat /\ b.mon.config # NoConfig)]
  BY ZenonT(60), <1>5 DEF State, Http
<1>9. Ends(d, s)
  <2> HIDE DEF d
  <2> QED
    BY ZenonT(60), <1>4, <1>7, EndsThenRests
<1>10. Ends(c, s)
  <2> HIDE DEF c
  <2> QED
    BY ZenonT(60), <1>2, <1>3, <1>6, RestsKeeps, KeepsTrans DEF Keeps
<1> HIDE DEF c, d
<1> QED
  BY ZenonT(60), <1>1, <1>8, <1>9, <1>10

-----------------------------------------------------------------------------
(* Neither the monitor nor the instance goes back in the history. *)
Onward ==
  NoLateOpen => mon.config.ix <= mon'.config.ix /\ inst.cfg.ix <= inst'.cfg.ix

(* A step to a good state *)
LEMMA GoodStep ==
  ASSUME Inv, NEW s, Good(s), InLoop(s),
         NoLateOpen => mon.config.ix <= s.mon.config.ix /\ inst.cfg.ix <= s.inst.cfg.ix
  PROVE  Inv' /\ Onward
<1>1. env' = env /\ newest' = newest /\ mon' = s.mon /\ inst' = s.inst
  BY ZenonT(60) DEF InLoop, Become
<1>2. Now' = s
  <2>1. s \in State
    BY ZenonT(60) DEF Good
  <2>2. s = [mon |-> s.mon, cccp |-> s.cccp, http |-> s.http, file |-> s.file, bs |-> s.bs,
             inst |-> s.inst]
    BY ZenonT(60), <2>1 DEF State
  <2> QED
    BY ZenonT(60), <2>2 DEF InLoop, Become, Now
<1>3. Good(Now)'
  <2>1. (GivesUp' <=> GivesUp) /\ (NoMemcached' <=> NoMemcached) /\ (NoLateOpen' <=> NoLateOpen)
    BY ZenonT(60), <1>1 DEF GivesUp, NoMemcached, NoLateOpen
  <2>2. (Counted(Now))' <=> Counted(s)
    BY ZenonT(60), <1>2 DEF Counted, Exact
  <2>3. (Remaining(Now))' <=> Remaining(s)
    BY ZenonT(60), <1>2 DEF Remaining, Listed, Lasting, Idle
  <2>4. (Uniform(Now))' <=> Uniform(s)
    BY ZenonT(60), <1>1, <1>2 DEF Uniform, Selected, Fits
  <2> QED
    BY ZenonT(60), <1>2, <2>1, <2>2, <2>3, <2>4 DEF Good
<1> QED
  BY ZenonT(60), <1>1, <1>3 DEF Inv, Onward

(* A step of which Ends says enough *)
LEMMA StepInv ==
  ASSUME Inv, Good(Now), NEW s, Ends(s, Now), InLoop(s)
  PROVE  Inv' /\ Onward
<1>1. GivesUp => ~Now.inst.failed
  BY ZenonT(60) DEF GivesUp, InLoop, Running, Now
<1>2. Good(s)
  BY ZenonT(60), <1>1 DEF Good, Ends, Forward
<1>3. NoLateOpen => mon.config.ix <= s.mon.config.ix /\ inst.cfg.ix <= s.inst.cfg.ix
  BY ZenonT(60) DEF Ends, Forward, Good, Now
<1> QED
  BY ZenonT(60), <1>2, <1>3, GoodStep

LEMMA NowIs ==
  /\ Now.mon = mon /\ Now.cccp = cccp /\ Now.http = http /\ Now.file = file
  /\ Now.bs = bs /\ Now.inst = inst
BY ZenonT(60) DEF Now

(* Whatever happens, happens after lcb_connect. *)
LEMMA IsGood ==
  ASSUME Inv,
         \/ inst.connected \/ inst.cfg # NoConfig \/ mon.as_start \/ file.timer
         \/ cccp.st # "idle" \/ cccp.timer \/ cccp.stale # {}
         \/ http.st # "idle" \/ http.io \/ http.disconn \/ http.reconnect
         \/ bs.tm # "off" \/ bs.poll
  PROVE  /\ Good(Now) /\ Now \in State /\ Now.inst.connected
         /\ env \in Envs /\ newest \in 1 .. Len(env.history)
BY ZenonT(60) DEF Inv, Unconnected, Good

(* While CCCP is not at rest its answers do no harm. *)
LEMMA NowMayAsk ==
  ASSUME Good(Now), ~Idle(Now) \/ "CCCP" \in mon.enabled
  PROVE  MayAsk(Now)
BY ZenonT(60), NowIs DEF Good, Remaining, MayAsk, Lasting

(* What a node answers *)
LEMMA AnswersOffered ==
  ASSUME env \in Envs, newest \in 1 .. Len(env.history), NEW s, NEW sel \in BOOLEAN,
         NEW origin \in {"CCCP", "HTTP"}, NEW cfg \in Answers(sel, origin),
         NoLateOpen => sel = env.bucket, MayAsk(s) \/ origin # "CCCP"
  PROVE  Offered(cfg, s) /\ cfg.origin = origin
<1>1. PICK i \in 1 .. newest : cfg = [ix |-> i, bucket |-> sel, origin |-> origin]
  BY ZenonT(60) DEF Answers
<1>2. Len(env.history) \in Nat
  <2>1. PICK R : env.history \in Seq(R)
    BY ZenonT(60), ConfmonAssumption
  <2> QED
    BY SMTT(60), <2>1
<1>3. i \in Nat /\ i # 0 /\ i \in 1 .. Len(env.history)
  BY SMTT(60), <1>2
<1>4. cfg.ix = i /\ cfg.bucket = sel /\ cfg.origin = origin /\ cfg \in Cfg
  BY ZenonT(60), <1>1, <1>3 DEF Cfg, Providers
<1>5. cfg # NoConfig
  BY SMTT(60), <1>3, <1>4 DEF NoConfig
<1> QED
  BY ZenonT(60), <1>3, <1>4, <1>5 DEF Offered, Fits

-----------------------------------------------------------------------------
(* lcb_connect() *)
LEMMA ConnectStep ==
  ASSUME Inv, Connect
  PROVE  Inv' /\ Onward
<1> DEFINE a == [Now EXCEPT !.inst.connected = TRUE]
           d == Prepare(a)
           f == [d EXCEPT !.bs.state = "PRE", !.bs.tm = "timeout"]
           g == [f EXCEPT !.inst.count = 1]
           refresh == ~a.inst.bucket
<1>1. /\ Unconnected /\ InLoop(DoBootstrap(a, "INITIAL"))
      /\ env \in Envs /\ newest \in 1 .. Len(env.history)
  BY ZenonT(60) DEF Inv, Good, Connect, Caller, InLoop, Now
<1>2. /\ a \in State /\ a.mon = mon /\ a.cccp = cccp /\ a.http = http /\ a.file = file /\ a.bs = bs
      /\ a.inst.connected /\ a.inst.count = 0 /\ a.inst.cfg = NoConfig
      /\ a.inst.bucket = env.bucket /\ ~a.inst.failed
  <2>1. Now \in State
    BY ZenonT(60), <1>1 DEF Unconnected
  <2> QED
    BY ZenonT(60), <1>1, <2>1, NowIs DEF Unconnected, State, Inst
<1> HIDE DEF a
<1>3. /\ Relists(d, a) /\ d.mon.enabled = env.enabled /\ Listed(d)
  BY ZenonT(60), <1>1, <1>2, PrepareRelists, ConfmonAssumption DEF Unconnected
<1> HIDE DEF d
<1>4. /\ d \in State /\ d.inst = a.inst /\ d.mon.config = NoConfig /\ Idle(d) /\ Selected(d)
      /\ d.cccp.cached = NoConfig /\ d.http.cached = NoConfig /\ d.file.cached = NoConfig
      /\ d.file.fresh => d.file.disk \in 1 .. Len(env.history)
  BY ZenonT(60), <1>1, <1>2, <1>3 DEF Relists, Unconnected, Idle, Selected
<1>5. /\ g \in State /\ g.mon = d.mon /\ g.cccp = d.cccp /\ g.http = d.http /\ g.file = d.file
      /\ g.bs.state = "PRE" /\ g.inst.count = 1 /\ g.inst.connected
      /\ g.inst.cfg = NoConfig /\ g.inst.bucket = env.bucket /\ ~g.inst.failed
  BY ZenonT(60), <1>2, <1>4 DEF State, Bs, Inst
<1> HIDE DEF g
<1>6. Good(g)
  <2>1. Counted(g)
    BY ZenonT(60), <1>5 DEF Counted, Exact
  <2>2. Selected(g)
    BY ZenonT(60), <1>2, <1>4, <1>5 DEF Selected
  <2>3. Listed(g) /\ Idle(g) /\ g.mon.config.origin # "CCCP"
    BY SMTT(60), <1>3, <1>4, <1>5 DEF Listed, Idle, NoConfig
  <2>4. Uniform(g)
    BY SMTT(60), <1>4, <1>5, <2>2 DEF Uniform, NoConfig
  <2> QED
    BY ZenonT(60), <1>5, <2>1, <2>3, <2>4 DEF Good, Remaining
<1>7. DoBootstrap(a, "INITIAL") = Start(g, refresh)
  <2>1. g = AspendAdd(f)
    <3>1. f.inst.count = 0 /\ f \in State
      BY ZenonT(60), <1>2, <1>4 DEF State, Bs
    <3> HIDE DEF f
    <3> QED
      BY SMTT(60), <3>1, CountFacts DEF AspendAdd, g, State, Inst
  <2>2. ~a.mon.active
    BY ZenonT(60), <1>1, <1>2 DEF Unconnected
  <2>3. refresh <=> "INITIAL" = "OPEN" \/ (~a.inst.bucket /\ "INITIAL" # "ALWAYS")
    BY SMTT(60)
  <2> HIDE DEF refresh
  <2> QED
    BY ZenonT(60), <2>1, <2>2, <2>3 DEF DoBootstrap, d, f
<1>8. PICK r : r = Start(g, refresh)
  BY ZenonT(60)
<1>9. refresh \in BOOLEAN
  BY ZenonT(60)
<1>10. Keeps(r, g)
  <2> HIDE DEF refresh
  <2> QED
    BY ZenonT(60), <1>5, <1>8, <1>9, StartKeeps
<1>11. Good(r)
  <2>1. ~g.inst.failed
    BY ZenonT(60), <1>5
  <2> QED
    BY ZenonT(60), <1>6, <1>10, <2>1 DEF Good, Keeps, Ends, Forward
<1>12. NoLateOpen => mon.config.ix <= r.mon.config.ix /\ inst.cfg.ix <= r.inst.cfg.ix
  <2>1. mon.config = g.mon.config /\ inst.cfg = g.inst.cfg
    BY ZenonT(60), <1>1, <1>4, <1>5 DEF Unconnected
  <2> QED
    BY ZenonT(60), <1>6, <1>10, <2>1 DEF Good, Keeps, Ends, Forward
<1> QED
  BY ZenonT(60), <1>1, <1>7, <1>8, <1>11, <1>12, GoodStep

(* The application: lcb_open(), lcb_wait(), operations before the          *)
(* bootstrap, and refreshes                                                *)
LEMMA CallerStep ==
  ASSUME Inv, \/ OpenBucket \/ Wait \/ DeferOperation \/ Bgpoll
              \/ \E option \in {"ALWAYS", "THROTTLE"} : RequestRefresh(option)
  PROVE  Inv' /\ Onward
<1>1. CASE OpenBucket
  <2>1. Good(Now) /\ Now \in State /\ Now.inst.connected
    BY ZenonT(60), <1>1, IsGood, NowIs DEF OpenBucket, Opens
  <2>2. env.opens # "never" /\ InLoop(Open(Now)) /\ inst.cfg # NoConfig /\ ~inst.bucket
    BY SMTT(60), <1>1, NowIs DEF OpenBucket, Caller, InLoop, Opens
  <2>3. GivesUp => Now.bs.state = "BOOTSTRAPPED"
    BY ZenonT(60), <2>1, <2>2, NowIs DEF Good, Counted
  <2> QED
    BY ZenonT(60), <2>1, <2>2, <2>3, OpenKeeps, StepInv DEF Keeps
<1>2. CASE Wait
  <2>1. Good(Now) /\ Now \in State /\ Now.inst.connected /\ InLoop([Now EXCEPT !.inst.wait = TRUE])
    BY ZenonT(60), <1>2, IsGood DEF Wait, Caller, InLoop
  <2>2. Agrees([Now EXCEPT !.inst.wait = TRUE], Now)
    BY ZenonT(60), <2>1 DEF Agrees, State, Inst
  <2> QED
    BY ZenonT(60), <2>1, <2>2, AgreesKeeps, StepInv DEF Keeps
<1>3. CASE DeferOperation
  <2>1. /\ Good(Now) /\ Now \in State /\ Now.inst.connected
        /\ InLoop([Now EXCEPT !.inst.deferred = TRUE])
    BY ZenonT(60), <1>3, IsGood DEF DeferOperation, Caller, InLoop
  <2> QED
    BY ZenonT(60), <2>1, DeferredAgrees, AgreesKeeps, StepInv DEF Keeps
<1>4. CASE Bgpoll
  <2>1. Good(Now) /\ Now \in State /\ Now.inst.connected
    BY ZenonT(60), <1>4, IsGood DEF Bgpoll
  <2>2. PICK a : a = DoBootstrap(Now, "ALWAYS")
    BY ZenonT(60)
  <2>3. Keeps(a, Now)
    BY ZenonT(60), <2>1, <2>2, RefreshBootstrapKeeps
  <2>4. Agrees(CheckBgpoll(a), a)
    BY ZenonT(60), <2>3, CheckBgpollAgrees DEF Keeps, Ends
  <2>5. Ends(CheckBgpoll(a), Now)
    BY ZenonT(60), <2>1, <2>3, <2>4, EndsThenAgrees DEF Keeps
  <2>6. InLoop(CheckBgpoll(a))
    BY ZenonT(60), <1>4, <2>2 DEF Bgpoll
  <2> QED
    BY ZenonT(60), <2>1, <2>5, <2>6, StepInv
<1>5. ASSUME NEW option \in {"ALWAYS", "THROTTLE"}, RequestRefresh(option)
      PROVE  Inv' /\ Onward
  <2>1. Good(Now) /\ Now \in State /\ Now.inst.connected /\ InLoop(DoBootstrap(Now, option))
    BY ZenonT(60), <1>5, IsGood DEF RequestRefresh
  <2> QED
    BY ZenonT(60), <2>1, RefreshBootstrapKeeps, StepInv DEF Keeps
<1> QED
  BY ZenonT(60), <1>1, <1>2, <1>3, <1>4, <1>5

(* A new configuration of the cluster reaches nobody by itself. *)
LEMMA ClusterStep ==
  ASSUME Inv, ClusterChanges \/ UNCHANGED vars
  PROVE  Inv' /\ Onward
<1>1. env' = env /\ mon' = mon /\ inst' = inst /\ Now' = Now
  BY ZenonT(60) DEF ClusterChanges, vars, Now
<1>2. newest' \in 1 .. Len(env.history)
  <2>1. PICK R : env.history \in Seq(R)
    BY ZenonT(60), ConfmonAssumption DEF Inv
  <2>2. Len(env.history) \in Nat
    BY SMTT(60), <2>1
  <2>3. newest' = newest \/ (newest < Len(env.history) /\ newest' = newest + 1)
    BY ZenonT(60) DEF ClusterChanges, vars
  <2>4. newest \in 1 .. Len(env.history)
    BY ZenonT(60) DEF Inv
  <2> QED
    BY SMTT(60), <2>2, <2>3, <2>4
<1>3. Unconnected => Unconnected'
  BY ZenonT(60), <1>1 DEF Unconnected, ClusterChanges, vars
<1>4. Good(Now) => Good(Now)'
  <2>1. (GivesUp' <=> GivesUp) /\ (NoMemcached' <=> NoMemcached) /\ (NoLateOpen' <=> NoLateOpen)
    BY ZenonT(60), <1>1 DEF GivesUp, NoMemcached, NoLateOpen
  <2>2. (Counted(Now))' <=> Counted(Now)
    BY ZenonT(60), <1>1 DEF Counted, Exact
  <2>3. (Remaining(Now))' <=> Remaining(Now)
    BY ZenonT(60), <1>1 DEF Remaining, Listed, Lasting, Idle
  <2>4. (Uniform(Now))' <=> Uniform(Now)
    BY ZenonT(60), <1>1 DEF Uniform, Selected, Fits
  <2> QED
    BY ZenonT(60), <1>1, <2>1, <2>2, <2>3, <2>4 DEF Good
<1>5. Onward
  <2>1. Now \in State
    BY ZenonT(60) DEF Inv, Unconnected, Good
  <2>2. mon.config.ix \in Nat /\ inst.cfg.ix \in Nat
    BY ZenonT(60), <2>1, NowIs DEF State, Mon, Inst, Cfg
  <2> QED
    BY SMTT(60), <1>1, <2>2 DEF Onward
<1> QED
  BY ZenonT(60), <1>1, <1>2, <1>3, <1>4, <1>5 DEF Inv

(* The asynchronous walk over the providers: do_next_provider() *)
LEMMA DoNextProviderStep ==
  ASSUME Inv, DoNextProvider
  PROVE  Inv' /\ Onward
<1> DEFINE a == [Now EXCEPT !.mon.as_start = FALSE]
           b == CachedPass(a)
           c == IF b.mon.list # mon.list THEN CachedPass(b) ELSE b
<1>1. Good(Now) /\ Now \in State /\ Now.inst.connected /\ env \in Envs
  BY ZenonT(60), IsGood DEF DoNextProvider
<1>2. InLoop(Refresh(c, c.mon.cur))
  BY ZenonT(60) DEF DoNextProvider
<1>3. Rests(a, Now)
  BY ZenonT(60), <1>1 DEF Rests, Asks, Selected, Idle, State, Mon
<1> HIDE DEF a
<1>4. Keeps(a, Now) /\ a \in State /\ a.inst.connected
  BY ZenonT(60), <1>1, <1>3, RestsKeeps DEF Keeps, Ends
<1>5. Keeps(b, a)
  BY ZenonT(60), <1>1, <1>4, CachedPassKeeps
<1> HIDE DEF b
<1>6. b \in State /\ b.inst.connected /\ Keeps(b, Now)
  BY ZenonT(60), <1>1, <1>4, <1>5, KeepsTrans DEF Keeps, Ends
<1>7. Keeps(CachedPass(b), Now)
  BY ZenonT(60), <1>1, <1>6, CachedPassKeeps, KeepsTrans
<1>8. Keeps(c, Now)
  BY ZenonT(60), <1>6, <1>7
<1> HIDE DEF c
<1>9. c \in State /\ c.inst.connected
  BY ZenonT(60), <1>8 DEF Keeps, Ends
<1>10. Keeps(Refresh(c, c.mon.cur), Now)
  BY ZenonT(60), <1>1, <1>8, <1>9, RefreshKeeps, KeepsTrans
<1> QED
  BY ZenonT(60), <1>1, <1>2, <1>10, StepInv DEF Keeps

(* The timer of the file provider: reload_cache() *)
LEMMA FileReloadStep ==
  ASSUME Inv, FileReload
  PROVE  Inv' /\ Onward
<1> DEFINE a == [Now EXCEPT !.file.timer = FALSE]
           cfg == [ix |-> file.disk, bucket |-> TRUE, origin |-> "FILE"]
           l == [a EXCEPT !.file.cached = cfg, !.file.fresh = FALSE]
<1>1. Good(Now) /\ Now \in State /\ Now.inst.connected /\ env \in Envs
  BY ZenonT(60), IsGood DEF FileReload
<1>2. InLoop(IF file.fresh /\ inst.bucket THEN GotConfig(l, cfg) ELSE ProviderFailed(a, "FILE"))
  BY ZenonT(60) DEF FileReload
<1>3. Rests(a, Now)
  BY ZenonT(60), <1>1 DEF Rests, Asks, Selected, Idle, State, File
<1>4. cfg \in Cfgs("FILE") /\ cfg \in Cfg /\ cfg.bucket /\ cfg.ix = file.disk
  BY ZenonT(60), <1>1, NowIs DEF Cfgs, Cfg, Providers, State, File
<1>5. cfg.origin = "FILE" /\ cfg.origin # "CCCP" /\ cfg # NoConfig
  BY SMTT(60) DEF NoConfig
<1> HIDE DEF cfg
<1>6. /\ l \in State /\ l.mon = a.mon /\ l.bs = a.bs /\ l.inst = a.inst /\ l.cccp = a.cccp
      /\ l.http = a.http /\ l.file.cached = cfg /\ l.file.disk = a.file.disk /\ ~l.file.fresh
  BY ZenonT(60), <1>1, <1>4 DEF State, File
<1> HIDE DEF a, l
<1>7. Keeps(a, Now) /\ a \in State /\ a.inst.connected
  BY ZenonT(60), <1>1, <1>3, RestsKeeps DEF Keeps, Ends
<1>8. CASE file.fresh /\ inst.bucket
  <2>1. Offered(cfg, a)
    <3>1. NoLateOpen => Fits(cfg)
      BY ZenonT(60), <1>1, <1>4, <1>8, NowIs DEF Good, Uniform, Fits
    <3> QED
      BY ZenonT(60), <1>4, <1>5, <3>1 DEF Offered
  <2>2. (Selected(a) => Selected(l)) /\ (Idle(a) => Idle(l))
    BY ZenonT(60), <1>6 DEF Selected, Idle
  <2>3. Keeps(l, a) /\ Offered(cfg, l) /\ l.inst.connected
    BY ZenonT(60), <1>6, <1>7, <2>1, <2>2, CachesKeeps
  <2>4. Keeps(GotConfig(l, cfg), l)
    BY ZenonT(60), <1>1, <1>6, <2>3, OfferedSuits, GotConfigKeeps
  <2>5. Keeps(GotConfig(l, cfg), Now)
    BY ZenonT(60), <1>1, <1>6, <1>7, <2>3, <2>4, KeepsTrans
  <2> QED
    BY ZenonT(60), <1>1, <1>2, <1>8, <2>5, StepInv DEF Keeps
<1>9. CASE ~(file.fresh /\ inst.bucket)
  <2>1. Ends(ProviderFailed(a, "FILE"), Now)
    BY ZenonT(60), <1>1, <1>7, ProviderFailedEnds, KeepsThenEnds
  <2> QED
    BY ZenonT(60), <1>1, <1>2, <1>9, <2>1, StepInv
<1> QED
  BY ZenonT(60), <1>8, <1>9

(* The timer of the listener: timer_dispatch() *)
LEMMA BootstrapTimerStep ==
  ASSUME Inv, BootstrapTimer
  PROVE  Inv' /\ Onward
<1> DEFINE a == [Now EXCEPT !.bs.tm = "off"]
<1>1. Good(Now) /\ Now \in State /\ Now.inst.connected
  BY ZenonT(60), IsGood DEF BootstrapTimer
<1>2. InLoop(IF bs.state = "PRE" THEN InitialError(a)
             ELSE IF mon.config # NoConfig THEN ConfigCallback(a, mon.config) ELSE a)
  BY ZenonT(60) DEF BootstrapTimer
<1>3. Agrees(a, Now)
  BY ZenonT(60), <1>1 DEF Agrees, State, Bs
<1> HIDE DEF a
<1>4. /\ Keeps(a, Now) /\ a \in State /\ a.inst.connected
      /\ a.bs.state = bs.state /\ a.mon.config = mon.config
  BY ZenonT(60), <1>1, <1>3, AgreesKeeps, NowIs DEF Keeps, Ends, Agrees
<1>5. bs.state = "PRE" => Ends(InitialError(a), Now)
  BY ZenonT(60), <1>1, <1>4, InitialErrorEnds, KeepsThenEnds
<1>6. Ends(ConfigCallback(a, mon.config), Now)
  BY ZenonT(60), <1>1, <1>4, ConfigCallbackKeeps, KeepsTrans DEF Keeps
<1>7. Ends(a, Now)
  BY ZenonT(60), <1>4 DEF Keeps
<1> QED
  BY ZenonT(60), <1>1, <1>2, <1>5, <1>6, <1>7, StepInv

-----------------------------------------------------------------------------
(* The HTTP stream *)
LEMMA HttpReadStep ==
  ASSUME Inv, HttpRead
  PROVE  Inv' /\ Onward
<1>1. /\ Good(Now) /\ Now \in State /\ Now.inst.connected /\ env \in Envs
      /\ newest \in 1 .. Len(env.history)
  BY ZenonT(60), IsGood DEF HttpRead
<1> DEFINE a == [Now EXCEPT !.http.io = TRUE]
<1>2. Rests(a, Now)
  <2>1. /\ a \in State /\ a.http.cached = Now.http.cached /\ a.http.sel = Now.http.sel /\ a.mon = Now.mon
        /\ a.cccp = Now.cccp /\ a.file = Now.file /\ a.bs = Now.bs /\ a.inst = Now.inst
    BY ZenonT(60), <1>1 DEF State, Http
  <2> HIDE DEF a
  <2> QED
    BY ZenonT(60), <1>1, <2>1, HttpRests
<1>3. CASE \E cfg \in Answers(http.sel, "HTTP") :
             InLoop(GotConfig([Now EXCEPT !.http.io = FALSE, !.http.cached = cfg], cfg))
  <2>1. PICK cfg \in Answers(http.sel, "HTTP") :
               InLoop(GotConfig([Now EXCEPT !.http.io = FALSE, !.http.cached = cfg], cfg))
    BY ZenonT(60), <1>3
  <2> DEFINE l == [Now EXCEPT !.http.io = FALSE, !.http.cached = cfg]
  <2>2. http.sel \in BOOLEAN /\ (NoLateOpen => http.sel = env.bucket)
    BY ZenonT(60), <1>1, NowIs DEF Good, Uniform, Selected, State, Http
  <2>3. "HTTP" \in {"CCCP", "HTTP"} /\ "HTTP" # "CCCP"
    BY SMTT(60)
  <2>4. Offered(cfg, Now) /\ cfg.origin = "HTTP"
    BY ZenonT(60), <1>1, <2>2, <2>3, AnswersOffered
  <2>5. cfg \in Cfgs("HTTP")
    BY SMTT(60), <2>4 DEF Offered, Cfgs, Cfg
  <2>6. /\ l \in State /\ l.mon = Now.mon /\ l.bs = Now.bs /\ l.inst = Now.inst
        /\ l.cccp = Now.cccp /\ l.file = Now.file /\ l.http.cached = cfg /\ l.http.sel = Now.http.sel
    BY ZenonT(60), <1>1, <2>5 DEF State, Http
  <2>7. InLoop(GotConfig(l, cfg))
    BY ZenonT(60), <2>1
  <2> HIDE DEF l
  <2>8. (Selected(Now) => Selected(l)) /\ (Idle(Now) => Idle(l))
    BY ZenonT(60), <2>6 DEF Selected, Idle
  <2>9. Keeps(l, Now) /\ Offered(cfg, l) /\ l.inst.connected
    BY ZenonT(60), <1>1, <2>4, <2>6, <2>8, CachesKeeps
  <2>10. Keeps(GotConfig(l, cfg), l)
    BY ZenonT(60), <1>1, <2>6, <2>9, OfferedSuits, GotConfigKeeps
  <2>11. Keeps(GotConfig(l, cfg), Now)
    BY ZenonT(60), <1>1, <2>9, <2>10, KeepsTrans
  <2> QED
    BY ZenonT(60), <1>1, <2>7, <2>11, StepInv DEF Keeps
<1> HIDE DEF a
<1>4. Keeps(a, Now) /\ a \in State /\ a.inst.connected
  BY ZenonT(60), <1>1, <1>2, RestsKeeps DEF Keeps, Ends
<1>5. CASE InLoop(a)
  BY ZenonT(60), <1>1, <1>4, <1>5, StepInv DEF Keeps
<1>6. CASE InLoop(HttpIoError(a))
  BY ZenonT(60), <1>1, <1>4, <1>6, HttpIoErrorEnds, KeepsThenEnds, StepInv
<1> QED
  BY ZenonT(60), <1>3, <1>5, <1>6 DEF HttpRead, a

(* The connection attempt, the timers of the provider *)
LEMMA HttpStep ==
  ASSUME Inv, HttpConnected \/ HttpTimeout \/ HttpDisconnect \/ HttpReconnect
  PROVE  Inv' /\ Onward
<1>1. Good(Now) /\ Now \in State /\ Now.inst.connected
  <2>1. \/ http.st # "idle" \/ http.io \/ http.disconn \/ http.reconnect
    BY ZenonT(60) DEF HttpConnected, HttpTimeout, HttpDisconnect, HttpReconnect
  <2> QED
    BY ZenonT(60), <2>1, IsGood
<1>2. ASSUME NEW r, r \in State, r.http.cached = http.cached, r.http.sel \in {http.sel, inst.bucket},
             r.mon = mon, r.cccp = cccp, r.file = file, r.bs = bs, r.inst = inst
      PROVE  /\ InLoop(r) => Inv' /\ Onward
             /\ InLoop(HttpIoError(r)) => Inv' /\ Onward
  <2>1. Keeps(r, Now)
    BY ZenonT(60), <1>1, <1>2, NowIs, HttpRests, RestsKeeps
  <2>2. Ends(r, Now) /\ r.inst.connected
    BY ZenonT(60), <2>1 DEF Keeps, Ends
  <2>3. Ends(HttpIoError(r), Now)
    BY ZenonT(60), <1>1, <1>2, <2>1, <2>2, HttpIoErrorEnds, KeepsThenEnds
  <2> QED
    BY ZenonT(60), <1>1, <2>2, <2>3, StepInv
<1>3. NextIx(http.ix) \in Nat
  BY SMTT(60), <1>1, NowIs, ConfmonAssumption DEF NextIx, State, Http
<1>4. CASE HttpConnected
  <2> DEFINE a == [Now EXCEPT !.http.st = "ctx", !.http.sel = inst.bucket, !.http.io = TRUE]
             b == [Now EXCEPT !.http.st = "idle"]
  <2>1. /\ a \in State /\ a.http.cached = http.cached /\ a.mon = mon /\ a.cccp = cccp
        /\ a.file = file /\ a.bs = bs /\ a.inst = inst /\ a.http.sel = inst.bucket
    BY ZenonT(60), <1>1, NowIs DEF State, Http, Inst
  <2>2. /\ b \in State /\ b.http.cached = http.cached /\ b.mon = mon /\ b.cccp = cccp
        /\ b.file = file /\ b.bs = bs /\ b.inst = inst /\ b.http.sel = http.sel
    BY ZenonT(60), <1>1, NowIs DEF State, Http
  <2>3. InLoop(a) \/ InLoop(HttpIoError(b))
    BY ZenonT(60), <1>4 DEF HttpConnected
  <2> HIDE DEF a, b
  <2> QED
    BY ZenonT(60), <1>2, <2>1, <2>2, <2>3
<1>5. CASE HttpTimeout
  <2> DEFINE a == [Now EXCEPT !.http.io = FALSE]
  <2>1. /\ a \in State /\ a.http.cached = http.cached /\ a.mon = mon /\ a.cccp = cccp
        /\ a.file = file /\ a.bs = bs /\ a.inst = inst /\ a.http.sel = http.sel
    BY ZenonT(60), <1>1, NowIs DEF State, Http
  <2>2. InLoop(IF mon.cur = "HTTP" /\ mon.active THEN HttpIoError(a) ELSE a)
    BY ZenonT(60), <1>5 DEF HttpTimeout
  <2> HIDE DEF a
  <2> QED
    BY ZenonT(60), <1>2, <2>1, <2>2
<1>6. CASE HttpDisconnect
  <2> DEFINE a == [HttpClose(Now) EXCEPT !.http.io = FALSE]
  <2>1. /\ a \in State /\ a.http.cached = http.cached /\ a.mon = mon /\ a.cccp = cccp
        /\ a.file = file /\ a.bs = bs /\ a.inst = inst /\ a.http.sel = http.sel
    BY ZenonT(60), <1>1, NowIs DEF State, Http, HttpClose
  <2>2. InLoop(a)
    BY ZenonT(60), <1>6 DEF HttpDisconnect
  <2> HIDE DEF a
  <2> QED
    BY ZenonT(60), <1>2, <2>1, <2>2
<1>7. CASE HttpReconnect
  <2> DEFINE a == [Now EXCEPT !.http.reconnect = FALSE]
             b == [HttpClose(a) EXCEPT !.http.st = "conn", !.http.ix = NextIx(@)]
             n == NextIx(http.ix)
             c == [HttpClose(a) EXCEPT !.http.st = "conn", !.http.ix = n]
  <2>1. /\ a \in State /\ a.http.cached = http.cached /\ a.mon = mon /\ a.cccp = cccp
        /\ a.file = file /\ a.bs = bs /\ a.inst = inst /\ a.http.sel = http.sel /\ a.http.ix = http.ix
    BY ZenonT(60), <1>1, NowIs DEF State, Http
  <2>2. InLoop(IF http.st = "ctx" THEN a ELSE b)
    BY ZenonT(60), <1>7 DEF HttpReconnect
  <2> HIDE DEF a
  <2>3. b = c
    BY ZenonT(60), <2>1 DEF HttpClose, State, Http
  <2>4. n \in Nat
    BY ZenonT(60), <1>3
  <2> HIDE DEF n
  <2>5. /\ c \in State /\ c.http.cached = http.cached /\ c.mon = mon /\ c.cccp = cccp
        /\ c.file = file /\ c.bs = bs /\ c.inst = inst /\ c.http.sel = http.sel
    BY ZenonT(60), <2>1, <2>4 DEF State, Http, HttpClose
  <2> HIDE DEF b, c
  <2> QED
    BY ZenonT(60), <1>2, <2>1, <2>2, <2>3, <2>5
<1> QED
  BY ZenonT(60), <1>4, <1>5, <1>6, <1>7

-----------------------------------------------------------------------------
(* CCCP: after any state that keeps the requests at rest, an error, the    *)
(* next request or a configuration that is offered                         *)
LEMMA CccpAfter ==
  ASSUME Inv, Good(Now), Now \in State, Now.inst.connected, env \in Envs, MayAsk(Now),
         NEW r, Rests(r, Now)
  PROVE  /\ InLoop(r) => Inv' /\ Onward
         /\ \A protocol \in BOOLEAN : InLoop(McioError(r, protocol)) => Inv' /\ Onward
         /\ InLoop(CccpNext(r)) => Inv' /\ Onward
         /\ \A cfg : Offered(cfg, Now) /\ cfg.origin = "CCCP" =>
              Keeps(CccpUpdate(r, cfg), Now)
<1>1. Keeps(r, Now) /\ MayAsk(r)
  BY ZenonT(60), RestsKeeps, MayStillAsk
<1>2. Ends(r, Now) /\ r \in State /\ r.inst.connected
  BY ZenonT(60), <1>1 DEF Keeps, Ends
<1>3. \A protocol \in BOOLEAN : Ends(McioError(r, protocol), Now)
  BY ZenonT(60), <1>1, <1>2, McioErrorEnds, KeepsThenEnds
<1>4. Ends(CccpNext(r), Now)
  BY ZenonT(60), <1>1, <1>2, CccpNextEnds, KeepsThenEnds
<1>5. ASSUME NEW cfg, Offered(cfg, Now), cfg.origin = "CCCP"
      PROVE  Keeps(CccpUpdate(r, cfg), Now)
  <2>1. Offered(cfg, r)
    BY ZenonT(60), <1>1, <1>5 DEF Offered
  <2> QED
    BY ZenonT(60), <1>1, <1>2, <1>5, <2>1, CccpUpdateKeeps, KeepsTrans
<1> QED
  BY ZenonT(60), <1>2, <1>3, <1>4, <1>5, StepInv

(* The requests on a connection of the provider's own, and its timer *)
LEMMA CccpConnectionStep ==
  ASSUME Inv, CccpConnected \/ CccpRead \/ CccpTimeout
  PROVE  Inv' /\ Onward
<1>1. ~Idle(Now)
  BY ZenonT(60), NowIs DEF CccpConnected, CccpRead, CccpTimeout, Idle
<1>2. /\ Good(Now) /\ Now \in State /\ Now.inst.connected /\ env \in Envs
      /\ newest \in 1 .. Len(env.history)
  BY ZenonT(60), <1>1, NowIs, IsGood DEF Idle
<1>3. MayAsk(Now)
  BY ZenonT(60), <1>1, <1>2, NowMayAsk
<1>4. CASE CccpConnected
  <2> DEFINE a == [Now EXCEPT !.cccp.st = "ctx", !.cccp.timer = TRUE, !.cccp.sel = inst.bucket]
             b == [Now EXCEPT !.cccp.st = "idle"]
  <2>1. inst.bucket \in BOOLEAN
    BY ZenonT(60), <1>2, NowIs DEF State, Inst
  <2>2. Asks(a, Now)
    BY ZenonT(60), <1>2, <2>1, NowIs DEF Asks, Selected, State, Cccp
  <2>3. Rests(b, Now)
    BY ZenonT(60), <1>2 DEF Rests, Asks, Selected, Idle, State, Cccp
  <2>4. InLoop(a) \/ InLoop(McioError(b, FALSE))
    BY ZenonT(60), <1>4 DEF CccpConnected
  <2> HIDE DEF a, b
  <2>5. Ends(a, Now)
    BY ZenonT(60), <1>2, <1>3, <2>2, AsksKeeps DEF MayAsk, Keeps
  <2>6. FALSE \in BOOLEAN
    BY ZenonT(60)
  <2> QED
    BY ZenonT(60), <1>2, <1>3, <2>3, <2>4, <2>5, <2>6, CccpAfter, StepInv
<1>5. CASE CccpRead
  <2>1. PICK r : r = CccpStop(Now)
    BY ZenonT(60)
  <2>2. Rests(r, Now)
    BY ZenonT(60), <1>2, <2>1, CccpStopRests
  <2>3. ASSUME NEW cfg \in Answers(cccp.sel, "CCCP"),
               InLoop([CccpUpdate(r, cfg) EXCEPT !.cccp.timer = FALSE])
        PROVE  Inv' /\ Onward
    <3>1. cccp.sel \in BOOLEAN /\ (NoLateOpen => cccp.sel = env.bucket)
      BY ZenonT(60), <1>2, <1>5, NowIs DEF Good, Uniform, Selected, State, Cccp, CccpRead
    <3>2. Offered(cfg, Now) /\ cfg.origin = "CCCP"
      BY ZenonT(60), <1>2, <1>3, <2>3, <3>1, AnswersOffered
    <3>3. PICK q : q = CccpUpdate(r, cfg)
      BY ZenonT(60)
    <3>4. Keeps(q, Now) /\ q \in State
      BY ZenonT(60), <1>2, <1>3, <2>2, <3>2, <3>3, CccpAfter DEF Keeps, Ends
    <3>5. PICK p : p = [q EXCEPT !.cccp.timer = FALSE]
      BY ZenonT(60)
    <3>6. Ends(p, Now)
      BY ZenonT(60), <1>2, <3>4, <3>5, CccpTimerRests, EndsThenRests DEF Keeps
    <3> QED
      BY ZenonT(60), <1>2, <2>3, <3>3, <3>5, <3>6, StepInv
  <2>4. CASE InLoop(CccpNext(r))
    BY ZenonT(60), <1>2, <1>3, <2>2, <2>4, CccpAfter
  <2>5. CASE \E protocol \in BOOLEAN : InLoop(McioError(Now, protocol))
    BY ZenonT(60), <1>2, <1>3, <2>5, SelfRests, CccpAfter
  <2> QED
    BY ZenonT(60), <1>5, <2>1, <2>3, <2>4, <2>5 DEF CccpRead
<1>6. CASE CccpTimeout
  <2>1. PICK r : r = [Now EXCEPT !.cccp.timer = FALSE]
    BY ZenonT(60)
  <2>2. Rests(r, Now) /\ InLoop(McioError(r, FALSE)) /\ FALSE \in BOOLEAN
    BY ZenonT(60), <1>2, <1>6, <2>1, CccpTimerRests DEF CccpTimeout
  <2> QED
    BY ZenonT(60), <1>2, <1>3, <2>2, CccpAfter
<1> QED
  BY ZenonT(60), <1>4, <1>5, <1>6

(* The replies to commands, those that nobody waits for included, and a    *)
(* configuration that a not-my-vbucket response carries                    *)
LEMMA CccpReplyStep ==
  ASSUME Inv, CccpReply \/ CccpStaleReply \/ CarrierConfig
  PROVE  Inv' /\ Onward
<1>1. ~Idle(Now) \/ (CarrierConfig /\ "CCCP" \in mon.enabled /\ inst.cfg # NoConfig)
  <2>1. CccpReply \/ CccpStaleReply => ~Idle(Now)
    BY ZenonT(60), NowIs DEF CccpReply, CccpStaleReply, Idle
  <2>2. CarrierConfig => "CCCP" \in mon.enabled /\ inst.cfg.bucket
    BY ZenonT(60) DEF CarrierConfig
  <2>3. inst.cfg.bucket => inst.cfg # NoConfig
    BY SMTT(60) DEF NoConfig
  <2> QED
    BY ZenonT(60), <2>1, <2>2, <2>3
<1>2. /\ Good(Now) /\ Now \in State /\ Now.inst.connected /\ env \in Envs
      /\ newest \in 1 .. Len(env.history)
  BY ZenonT(60), <1>1, NowIs, IsGood DEF Idle
<1>3. MayAsk(Now)
  BY ZenonT(60), <1>1, <1>2, NowMayAsk
<1>4. ASSUME NEW r, Rests(r, Now), NEW sel \in BOOLEAN, NoLateOpen => sel = env.bucket,
             \E cfg \in Answers(sel, "CCCP") : InLoop(CccpUpdate(r, cfg))
      PROVE  Inv' /\ Onward
  <2>1. PICK cfg \in Answers(sel, "CCCP") : InLoop(CccpUpdate(r, cfg))
    BY ZenonT(60), <1>4
  <2>2. Offered(cfg, Now) /\ cfg.origin = "CCCP"
    BY ZenonT(60), <1>2, <1>3, <1>4, AnswersOffered
  <2>3. Keeps(CccpUpdate(r, cfg), Now)
    BY ZenonT(60), <1>2, <1>3, <1>4, <2>2, CccpAfter
  <2> QED
    BY ZenonT(60), <1>2, <2>1, <2>3, StepInv DEF Keeps
<1>5. CASE CccpReply
  <2> DEFINE r == [Now EXCEPT !.cccp.st = "idle", !.cccp.sel = FALSE, !.cccp.timer = FALSE]
  <2>1. Rests(r, Now)
    BY ZenonT(60), <1>2 DEF Rests, Asks, Selected, Idle, State, Cccp
  <2>2. \/ \E cfg \in Answers(cccp.sel, "CCCP") : InLoop(CccpUpdate(r, cfg))
        \/ \E protocol \in BOOLEAN : InLoop(McioError(r, protocol))
    BY ZenonT(60), <1>5 DEF CccpReply
  <2> HIDE DEF r
  <2>3. cccp.sel \in BOOLEAN /\ (NoLateOpen => cccp.sel = env.bucket)
    BY ZenonT(60), <1>2, <1>5, NowIs DEF Good, Uniform, Selected, State, Cccp, CccpReply
  <2> QED
    BY ZenonT(60), <1>2, <1>3, <1>4, <2>1, <2>2, <2>3, CccpAfter
<1>6. CASE CccpStaleReply
  <2>1. PICK sel \in cccp.stale :
          LET s == [Now EXCEPT !.cccp.stale = @ \ {sel}]
          IN  \/ \E cfg \in Answers(sel, "CCCP") : InLoop(CccpUpdate(s, cfg))
              \/ InLoop(s)
              \/ sel /\ InLoop(McioError(s, FALSE))
    BY ZenonT(60), <1>6 DEF CccpStaleReply
  <2> DEFINE r == [Now EXCEPT !.cccp.stale = @ \ {sel}]
  <2>2. Rests(r, Now)
    BY ZenonT(60), <1>2 DEF Rests, Asks, Selected, Idle, State, Cccp
  <2>3. \/ \E cfg \in Answers(sel, "CCCP") : InLoop(CccpUpdate(r, cfg))
        \/ InLoop(r)
        \/ InLoop(McioError(r, FALSE))
    BY ZenonT(60), <2>1
  <2> HIDE DEF r
  <2>4. sel \in BOOLEAN /\ (NoLateOpen => sel = env.bucket)
    BY ZenonT(60), <1>2, <2>1, NowIs DEF Good, Uniform, Selected, State, Cccp
  <2>5. FALSE \in BOOLEAN
    BY ZenonT(60)
  <2> QED
    BY ZenonT(60), <1>2, <1>3, <1>4, <2>2, <2>3, <2>4, <2>5, CccpAfter
<1>7. CASE CarrierConfig
  <2>1. Rests(Now, Now) /\ TRUE \in BOOLEAN
    BY ZenonT(60), <1>2, SelfRests
  <2>2. NoLateOpen => TRUE = env.bucket
    <3>1. inst.cfg # NoConfig /\ inst.cfg.bucket = TRUE
      <4>1. inst.cfg.bucket \in BOOLEAN
        BY ZenonT(60), <1>2, NowIs DEF State, Inst, Cfg
      <4>2. inst.cfg.bucket
        BY ZenonT(60), <1>7 DEF CarrierConfig
      <4>3. inst.cfg # NoConfig
        BY SMTT(60), <4>2 DEF NoConfig
      <4> QED
        BY ZenonT(60), <4>1, <4>2, <4>3
    <3>2. NoLateOpen => Fits(inst.cfg)
      BY ZenonT(60), <1>2, <3>1, NowIs DEF Good, Uniform
    <3> QED
      BY ZenonT(60), <3>1, <3>2 DEF Fits
  <2> QED
    BY ZenonT(60), <1>4, <1>7, <2>1, <2>2 DEF CarrierConfig
<1> QED
  BY ZenonT(60), <1>5, <1>6, <1>7

-----------------------------------------------------------------------------
(* Every step preserves the invariant. *)
LEMMA NextInv ==
  ASSUME Inv, [Next]_vars
  PROVE  Inv' /\ Onward
BY ZenonT(60), ConnectStep, CallerStep, ClusterStep, DoNextProviderStep, FileReloadStep,
   BootstrapTimerStep, HttpReadStep, HttpStep, CccpConnectionStep, CccpReplyStep DEF Next

LEMMA InitInv ==
  ASSUME Init
  PROVE  Inv
<1>1. env \in Envs /\ newest = 1
  BY ZenonT(60) DEF Init
<1>2. /\ env.bucket \in BOOLEAN /\ env.compat \in BOOLEAN
      /\ env.enabled \subseteq Providers
  BY ZenonT(60), <1>1, ConfmonAssumption
<1>3. Len(env.history) \in Nat /\ 1 <= Len(env.history) /\ env.disk \in 0 .. Len(env.history)
  <2>1. PICK R : env.history \in Seq(R)
    BY ZenonT(60), <1>1, ConfmonAssumption
  <2>2. env.history # <<>> /\ env.disk \in 0 .. Len(env.history)
    BY ZenonT(60), <1>1, ConfmonAssumption
  <2> QED
    BY SMTT(60), <2>1, <2>2
<1>4. /\ newest \in 1 .. Len(env.history) /\ env.disk \in Nat
      /\ (env.disk > 0) \in BOOLEAN /\ (env.disk > 0 => env.disk \in 1 .. Len(env.history))
  BY SMTT(60), <1>1, <1>3
<1>5. /\ NoConfig \in Cfg /\ NoConfig \in Cfgs("CCCP") /\ NoConfig \in Cfgs("HTTP")
      /\ NoConfig \in Cfgs("FILE") /\ 0 \in Nat /\ <<>> \in Seq(Providers)
  BY SMTT(60) DEF NoConfig, Cfg, Cfgs
<1>6. mon \in Mon /\ bs \in Bs
  BY ZenonT(60), <1>2, <1>5 DEF Init, Mon, Bs
<1>7. cccp \in Cccp /\ http \in Http
  BY ZenonT(60), <1>2, <1>5 DEF Init, Cccp, Http
<1>8. file \in File /\ inst \in Inst
  BY ZenonT(60), <1>2, <1>4, <1>5 DEF Init, File, Inst
<1>9. Now \in State
  BY ZenonT(60), <1>6, <1>7, <1>8 DEF Now, State
<1>10. /\ ~inst.connected /\ ~mon.active /\ ~mon.as_start
       /\ mon.enabled = env.enabled /\ mon.config = NoConfig
       /\ cccp.st = "idle" /\ ~cccp.timer /\ cccp.stale = {} /\ cccp.cached = NoConfig
       /\ http.st = "idle" /\ ~http.io /\ ~http.reconnect /\ ~http.disconn
       /\ http.cached = NoConfig /\ http.sel = env.bucket
  BY ZenonT(60) DEF Init
<1>11. /\ ~file.timer /\ file.cached = NoConfig
       /\ (file.fresh => file.disk \in 1 .. Len(env.history))
       /\ bs.state = "PRE" /\ bs.tm = "off" /\ ~bs.poll
       /\ inst.cfg = NoConfig /\ inst.bucket = env.bucket /\ inst.count = 0 /\ ~inst.failed
  BY ZenonT(60), <1>4 DEF Init
<1> QED
  BY ZenonT(60), <1>1, <1>4, <1>9, <1>10, <1>11 DEF Inv, Unconnected

LEMMA SpecInv == Spec => []Inv
<1>1. Inv /\ [Next]_vars => Inv'
  BY ZenonT(60), NextInv
<1> QED
  BY <1>1, InitInv, PTL DEF Spec

-----------------------------------------------------------------------------
(* If the application gives an instance up whose bootstrap failed,         *)
(* pendops.count is exactly the number of bootstraps in progress: no       *)
(* sequence of timeouts, late replies, failed providers, lcb_open() and    *)
(* refreshes makes initial_error() or config_callback() take the pending   *)
(* operation away twice or never, for every number of nodes, every history *)
(* of configurations and every choice of providers.                        *)
THEOREM PendingCounter ==
  ASSUME \A e \in Envs : e.recreates
  PROVE  Spec => []CounterExact
<1>1. Inv => CounterExact
  <2> SUFFICES ASSUME Inv PROVE CounterExact
    OBVIOUS
  <2>1. CASE Unconnected
    BY ZenonT(60), <2>1 DEF Unconnected, CounterExact
  <2>2. CASE Good(Now)
    <3>1. GivesUp
      BY ZenonT(60) DEF Inv, GivesUp
    <3> QED
      BY ZenonT(60), <2>2, <3>1, NowIs DEF Good, Counted, Exact, CounterExact
  <2> QED
    BY ZenonT(60), <2>1, <2>2 DEF Inv
<1> QED
  BY <1>1, SpecInv, PTL

(* Without memcached buckets, there is always a provider left to ask, the  *)
(* current one is enabled, and the list is that of the enabled providers,  *)
(* whichever configurations the listener enables and disables HTTP for.    *)
THEOREM SomeProvider ==
  ASSUME \A e \in Envs : ~e.ketama
  PROVE  Spec => []ProvidersRemain
<1>1. Inv => ProvidersRemain
  <2> SUFFICES ASSUME Inv, inst.connected PROVE Listed(Now)
    BY ZenonT(60), NowIs DEF ProvidersRemain, Listed
  <2>1. NoMemcached
    BY ZenonT(60) DEF Inv, NoMemcached
  <2> QED
    BY ZenonT(60), <2>1, IsGood DEF Good, Remaining
<1> QED
  BY <1>1, SpecInv, PTL

(* If the bucket is not opened later and neither epochs nor revisions ever *)
(* decrease, neither the monitor nor the instance goes back to an older    *)
(* configuration: late replies to abandoned commands, cached               *)
(* configurations of the providers, the file and the HTTP stream never     *)
(* replace a newer configuration.                                          *)
THEOREM NeverBack ==
  ASSUME \A e \in Envs : e.opens = "never" /\ Ordered(e.history)
  PROVE  Spec => ConfigForward
<1>1. Inv /\ [Next]_vars =>
        [NotBack(mon.config, mon'.config) /\ NotBack(inst.cfg, inst'.cfg)]_vars
  <2> SUFFICES ASSUME Inv, [Next]_vars
               PROVE  NotBack(mon.config, mon'.config) /\ NotBack(inst.cfg, inst'.cfg)
    OBVIOUS
  <2>1. NoLateOpen
    BY ZenonT(60) DEF Inv, NoLateOpen
  <2>2. mon.config.ix <= mon'.config.ix /\ inst.cfg.ix <= inst'.cfg.ix
    BY ZenonT(60), <2>1, NextInv DEF Onward
  <2>3. Now \in State /\ Now' \in State
    BY ZenonT(60), NextInv DEF Inv, Unconnected, Good
  <2>4. /\ mon.config.ix \in Nat /\ mon'.config.ix \in Nat
        /\ inst.cfg.ix \in Nat /\ inst'.cfg.ix \in Nat
    BY ZenonT(60), <2>3 DEF Now, State, Mon, Inst, Cfg
  <2> QED
    BY SMTT(60), <2>2, <2>4 DEF NotBack
<1> QED
  BY <1>1, SpecInv, PTL DEF Spec, ConfigForward
=============================================================================
