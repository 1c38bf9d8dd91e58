----------------------------- MODULE Durability -----------------------------
(***************************************************************************)
(* One durability operation: the Durset of operations/durability.cc, which *)
(* polls the nodes of each item's vbucket with OBSERVE_SEQNO until enough  *)
(* of them hold the mutation or the time is up.                            *)
(*                                                                         *)
(* net[item][node] is where the observe request is that was made for the   *)
(* node: with a node, the one it was made for or another, in the retry     *)
(* queue, or nowhere; Packets and McServer have the rest of it.  A server  *)
(* index is the node it stands for in the current map, a Server its        *)
(* address.  Time is relative: dur.left is ns_timeout minus now, dur.timer *)
(* the ticks until the one timer is due, and a timer may fire late.        *)
(***************************************************************************)
EXTENDS Integers, Sequences, FiniteSets, FiniteSetsExt

CONSTANTS
    Nodes, NoNode,  \* the data nodes; NoNode: an index below 0, or no request
    RetryQ,         \* the retry queue, as the place of a request
    Addrs, NoAddr,  \* where a Server may be allocated; NoAddr: NULL
    Items,          \* the keys of the operation, 1..n
    Maps,           \* the maps: servers, and vb, a sequence of nodes per item
    Timeout,        \* opts.timeout, in ticks
    Interval,       \* opts.interval, in ticks
    Envs            \* the environments to consider, see EnvType

NSlots == Len((CHOOSE m \in Maps : TRUE).vb[1])  \* LCBT_NREPLICAS + 1
Slots == 1..NSlots

EnvType ==
    [persist_to : 0..NSlots + 1, replicate_to : 0..NSlots + 1,
     cap : BOOLEAN,       \* opts.cap_max
     store : BOOLEAN,     \* the operation follows an lcb_store
     first : Maps,        \* the map it starts with
     items : Items,       \* entries that may be added
     maps : Nat,          \* bound: changes of the map
     retries : Nat,       \* bound: requests that enter the retry queue
     failover : SUBSET {"lost", "mem", "disk"},  \* see Failover
     destroys : BOOLEAN]  \* the instance may be destroyed

(* f has an address for the Server of each node of the map m. *)
Allocated(f, m) ==
    /\ \A n \in Nodes : f[n] = NoAddr <=> n \notin m.servers
    /\ \A n, o \in m.servers : f[n] = f[o] => n = o

ASSUME DurabilityAssumption ==
    /\ Timeout \in Nat \ {0} /\ Interval \in Nat \ {0}
    /\ IsFiniteSet(Nodes) /\ NoNode \notin Nodes /\ RetryQ \notin Nodes \cup {NoNode}
    /\ NoAddr \notin Addrs
    /\ IsFiniteSet(Items) /\ Items = 1..Cardinality(Items) /\ Items # {}
    /\ Maps # {} /\ Maps \subseteq [servers : SUBSET Nodes, vb : [Items -> Seq(Nodes \cup {NoNode})]]
    /\ \A m \in Maps : \E f \in [Nodes -> Addrs \cup {NoAddr}] : Allocated(f, m)
    /\ \A m \in Maps : \A i \in Items :
           /\ Len(m.vb[i]) = NSlots /\ NSlots > 0
           /\ \A ii, jj \in Slots : m.vb[i][ii] = m.vb[i][jj] => ii = jj \/ m.vb[i][ii] = NoNode
           /\ \A ii \in Slots : m.vb[i][ii] \in m.servers \cup {NoNode}
    /\ Envs \subseteq EnvType

VARIABLES
    env,   \* the environment; it never changes
    cfg,   \* the current map, LCBT_VBCONFIG
    addr,  \* [Nodes -> address of the node's Server]
    has,   \* [Nodes -> [Items -> what the node has of the mutation]]
    net,   \* [Items -> [Nodes -> where the request for the node is]]
    dur,   \* the Durset
    item,  \* its entries
    past   \* what happened: map changes, retries, requests a second node got

vars == <<env, cfg, addr, has, net, dur, item, past>>

Now ==
    [env |-> env, cfg |-> cfg, addr |-> addr, has |-> has, net |-> net, dur |-> dur,
     item |-> item, past |-> past]

Become(s) ==
    /\ env' = s.env /\ cfg' = s.cfg /\ addr' = s.addr /\ has' = s.has
    /\ net' = s.net /\ dur' = s.dur /\ item' = s.item /\ past' = s.past

NotArmed == -1
NoTimeout == -2   \* ns_timeout is 0
States == {"INIT", "OBSPOLL", "TIMEOUT", "IGNORE"}
Codes == {"SUCCESS", "TIMEOUT", "TOO_MANY", "MUTATION_LOST", "REQUEST", "REFUSED"}

Holding == {"mem", "disk", "old mem", "old disk"}
OnDisk == {"disk", "old disk"}

NoInfo == [server |-> NoAddr, persisted |-> FALSE, exists |-> FALSE]

NewItem ==
    [entry |-> FALSE, token |-> FALSE, done |-> FALSE, calls |-> 0, rc |-> "SUCCESS",
     exists_master |-> FALSE, persisted_master |-> FALSE, npersisted |-> 0, nreplicated |-> 0,
     sinfo |-> [ii \in Slots |-> NoInfo],
     masters |-> {}]  \* history: who answered as the master

NewDurset ==
    [ph |-> "none", persist_to |-> 0, replicate_to |-> 0, nremaining |-> 0, waiting |-> 0,
     refcnt |-> 0, next |-> "OBSPOLL", lasterr |-> "SUCCESS", left |-> NoTimeout,
     timer |-> NotArmed, fault |-> "none"]

Entries(s) == {i \in Items : s.item[i].entry}

-----------------------------------------------------------------------------
(* The options. *)

(* lcb_durability_validate: what the map allows, or the error. *)
Validate(m, persist, replicate, cap) ==
    LET replicas == Min({NSlots - 1, Cardinality(m.servers) - 1})
        Over(n, max) == n > max /\ ~cap
        Capped(n, max) == IF n > max THEN max ELSE n
    IN  IF persist = 0 /\ replicate = 0
          THEN [rc |-> "REFUSED", persist_to |-> 0, replicate_to |-> 0]
        ELSE IF Over(persist, replicas + 1) \/ Over(replicate, replicas)
          THEN [rc |-> "TOO_MANY", persist_to |-> 0, replicate_to |-> 0]
        ELSE [rc |-> "SUCCESS", persist_to |-> Capped(persist, replicas + 1),
              replicate_to |-> Capped(replicate, replicas)]

-----------------------------------------------------------------------------
(* The life of the Durset. *)

(* ~Durset: the timer is destroyed with it. *)
Delete(s) == [s EXCEPT !.dur.ph = "deleted", !.dur.timer = NotArmed]

Incref(s) == [s EXCEPT !.dur.refcnt = @ + 1]

Decref(s) ==
    LET r == [s EXCEPT !.dur.refcnt = @ - 1]
    IN  IF r.dur.refcnt = 0 THEN Delete(r) ELSE r

(* Mutant of SwitchState: the comparison with the deadline is reversed. *)
SwitchState_Reversed(s, state) ==
    LET late == state = "OBSPOLL" /\ Interval < s.dur.left
        next == IF late THEN "TIMEOUT" ELSE state
        delay == IF late \/ state = "INIT" THEN 0
                 ELSE IF state = "OBSPOLL" THEN Interval
                 ELSE Max({0, s.dur.left})
    IN  [s EXCEPT !.dur.next = next, !.dur.timer = delay]

(* Durset::switch_state: the one timer is set again, whatever it was for. *)
SwitchState(s, state) ==
    LET late == state = "OBSPOLL" /\ ~(s.dur.left # NoTimeout /\ Interval < s.dur.left)
        next == IF late THEN "TIMEOUT" ELSE state
        delay == IF late \/ state = "INIT" THEN 0
                 ELSE IF state = "OBSPOLL" THEN Interval
                 ELSE Max({0, s.dur.left})
    IN  [s EXCEPT !.dur.next = next, !.dur.timer = delay]

(* An entry whose callback was invoked. *)
Called(x, rc) == [x EXCEPT !.done = TRUE, !.rc = rc, !.calls = @ + 1]

(* Mutant of Finish: the last item does not drop the reference of the set. *)
Finish_Kept(s, rc) ==
    LET new == {i \in DOMAIN rc : ~s.item[i].done}
    IN  [s EXCEPT !.item = [i \in Items |-> IF i \in new THEN Called(@[i], rc[i]) ELSE @[i]],
                  !.dur.nremaining = @ - Cardinality(new)]

(* Item::finish of the items in the domain of rc: the callback is invoked, *)
(* once, and the last of the set drops the reference.                      *)
Finish(s, rc) ==
    LET new == {i \in DOMAIN rc : ~s.item[i].done}
        r == [s EXCEPT !.item = [i \in Items |-> IF i \in new THEN Called(@[i], rc[i]) ELSE @[i]],
                       !.dur.nremaining = @ - Cardinality(new)]
    IN  IF s.dur.nremaining \in 1..Cardinality(new) THEN Decref(r) ELSE r

(* Mutant of OnPollDone: the poll does not drop its reference. *)
OnPollDone_Kept(s) ==
    LET r == [s EXCEPT !.dur.waiting = 0]
    IN  IF r.dur.nremaining > 0 THEN SwitchState(r, "OBSPOLL") ELSE r

(* Durset::on_poll_done, with its assertion. *)
OnPollDone(s) ==
    LET r == [s EXCEPT !.dur.waiting = 0]
    IN  IF s.dur.waiting = 0 THEN [s EXCEPT !.dur.fault = "assertion"]
        ELSE Decref(IF r.dur.nremaining > 0 THEN SwitchState(r, "OBSPOLL") ELSE r)

(* The end of n calls of seqno_callback. *)
Tally(s, n) ==
    LET left == s.dur.waiting - n
    IN  IF n = 0 THEN s
        ELSE IF left = 0 THEN OnPollDone([s EXCEPT !.dur.waiting = 1])
        ELSE [s EXCEPT !.dur.waiting = left]

-----------------------------------------------------------------------------
(* The items. *)

(* Mutant of IsAllDone: the copies are counted, the master is not asked for. *)
IsAllDone_Counts(d, x) ==
    /\ d.persist_to > 0 => x.npersisted >= d.persist_to
    /\ d.replicate_to > 0 => x.nreplicated >= d.replicate_to

IsAllDone(d, x) ==
    /\ x.exists_master
    /\ d.persist_to > 0 => x.persisted_master /\ x.npersisted >= d.persist_to
    /\ d.replicate_to > 0 => x.nreplicated >= d.replicate_to

IsServerDone(d, info, isMaster) ==
    /\ info.exists
    /\ info.persisted \/ d.persist_to = 0 \/ (d.persist_to = 1 /\ ~isMaster)

(* Mutant of Counted: the counters of the last poll are not reset. *)
Counted_Added(x, cached, disk) ==
    [x EXCEPT !.rc = "SUCCESS",
              !.exists_master = 1 \in cached,
              !.persisted_master = 1 \in disk,
              !.npersisted = @ + Cardinality(disk),
              !.nreplicated = @ + Cardinality(cached \ {1})]

(* The result with only the servers in cached, those in disk persisted. *)
Counted(x, cached, disk) ==
    [x EXCEPT !.rc = "SUCCESS",
              !.exists_master = 1 \in cached,
              !.persisted_master = 1 \in disk,
              !.npersisted = Cardinality(disk),
              !.nreplicated = Cardinality(cached \ {1})]

(* Item::prepare: what is known of the servers that are still the ones of  *)
(* the vbucket is counted, and the others are to be asked.                 *)
Prepare(s, i) ==
    LET vb == s.cfg.vb[i]
        x == s.item[i]
        asked == IF s.dur.persist_to = 1 /\ s.dur.replicate_to = 0 THEN {1} ELSE Slots
        Same(ii) == vb[ii] # NoNode /\ s.addr[vb[ii]] = x.sinfo[ii].server
        cached == {ii \in asked : Same(ii) /\ IsServerDone(s.dur, x.sinfo[ii], ii = 1)}
        disk == {ii \in cached : x.sinfo[ii].persisted}
    IN  [entry |-> [Counted(x, cached, disk) EXCEPT
             !.sinfo = [ii \in Slots |->
                           IF ii \in asked /\ ~Same(ii) THEN NoInfo ELSE x.sinfo[ii]]],
         ask |-> {vb[ii] : ii \in asked \ cached} \ {NoNode}]

(* What the entry says of an answer of n, a node of the vbucket. *)
Learned(s, i, n, persisted) ==
    LET slot == CHOOSE ii \in Slots : s.cfg.vb[i][ii] = n
        isMaster == s.cfg.vb[i][1] = n
    IN  [s.item[i] EXCEPT
            !.sinfo[slot] = [server |-> s.addr[n], persisted |-> persisted, exists |-> TRUE],
            !.npersisted = @ + (IF persisted THEN 1 ELSE 0),
            !.persisted_master = @ \/ (persisted /\ isMaster),
            !.exists_master = @ \/ isMaster,
            !.nreplicated = @ + (IF isMaster THEN 0 ELSE 1),
            !.masters = IF isMaster THEN @ \cup {n} ELSE @]

(* Item::update: n is among the nodes of the vbucket now, or its answer is *)
(* ignored.                                                                *)
Update(s, i, n, persisted) ==
    LET y == Learned(s, i, n, persisted)
        r == [s EXCEPT !.item[i] = y]
    IN  IF s.item[i].done \/ n \notin {s.cfg.vb[i][ii] : ii \in Slots} THEN s
        ELSE IF IsAllDone(s.dur, y) THEN Finish(r, [j \in {i} |-> "SUCCESS"]) ELSE r

(* seqno_callback for the answer of n, or for a request that failed.  An   *)
(* item without a token asks for sequence number 0, which everyone has.    *)
Answered(s, i, n, report) ==
    IF s.item[i].token
      THEN CASE report = "lost" -> Finish(s, [j \in {i} |-> "MUTATION_LOST"])
             [] report = "none" -> s
             [] report = "mem" -> Update(s, i, n, FALSE)
             [] report \in {"disk", "old"} -> Update(s, i, n, TRUE)
      ELSE Update(s, i, n, TRUE)

SeqnoCallback(s, i, n, report) ==
    IF s.dur.ph # "polling" THEN [s EXCEPT !.dur.fault = "deleted"]
    ELSE Tally(Answered(s, i, n, report), 1)

FailedCallback(s, i) ==
    IF s.dur.ph # "polling" THEN [s EXCEPT !.dur.fault = "deleted"]
    ELSE Tally([s EXCEPT !.item[i].rc = IF s.item[i].done THEN @ ELSE "REQUEST"], 1)

-----------------------------------------------------------------------------
(* Polling. *)

(* The requests, each <<item, node it was made for>>. *)
Requests(s) == {q \in Items \X Nodes : s.net[q[1]][q[2]] # NoNode}
Outstanding(s) == Cardinality(Requests(s))

(* Durset::poll and SeqnoDurset::poll_impl, with the assertion. *)
Poll(s) ==
    LET todo == {i \in Entries(s) : ~s.item[i].done}
        plan == [i \in todo |-> Prepare(s, i)]
        sent == {q \in todo \X Nodes : q[2] \in plan[q[1]].ask}
        r == [Incref(s) EXCEPT
                 !.item = [i \in Items |-> IF i \in todo THEN plan[i].entry ELSE @[i]],
                 !.net = [i \in Items |-> [n \in Nodes |-> IF <<i, n>> \in sent THEN n ELSE @[i][n]]],
                 !.dur.waiting = @ + Cardinality(sent)]
    IN  IF s.dur.waiting # 0 THEN [s EXCEPT !.dur.fault = "assertion"]
        ELSE IF sent # {} THEN Decref(SwitchState(Incref(r), "TIMEOUT"))
        ELSE Decref(SwitchState([r EXCEPT !.dur.lasterr = "TOO_MANY"], "OBSPOLL"))

(* Durset::tick in STATE_TIMEOUT. *)
TimeOut(s) ==
    LET err == IF s.dur.lasterr # "SUCCESS" THEN s.dur.lasterr ELSE "TIMEOUT"
        Code(x) == IF x.rc = "SUCCESS" THEN err ELSE x.rc
    IN  Decref(Finish(Incref([s EXCEPT !.dur.left = NoTimeout, !.dur.next = "IGNORE"]),
                      [i \in Entries(s) |-> Code(s.item[i])]))

TickOf(s) ==
    LET next == IF s.dur.left # NoTimeout /\ s.dur.left < 0 THEN "TIMEOUT" ELSE s.dur.next
        r == [s EXCEPT !.dur.next = next]
    IN  CASE next \in {"OBSPOLL", "INIT"} -> Poll(r)
          [] next = "TIMEOUT" -> TimeOut(r)
          [] next = "IGNORE" -> r

TimerFires ==
    /\ dur.timer = 0
    /\ Become(TickOf([Now EXCEPT !.dur.timer = NotArmed]))

-----------------------------------------------------------------------------
(* The calls that make a Durset. *)

(* MCTX_done of a set with entries. *)
Start(s) ==
    SwitchState([Incref(s) EXCEPT !.dur.ph = "polling", !.dur.left = Timeout,
                                  !.dur.nremaining = Cardinality(Entries(s))],
                "INIT")

(* lcb_endure3_ctxnew; with refuse, a server without mutation tokens. *)
Created(s, refuse) ==
    LET v == Validate(s.cfg, s.env.persist_to, s.env.replicate_to, s.env.cap)
    IN  IF refuse THEN [s EXCEPT !.dur.lasterr = "REFUSED"]
        ELSE IF v.rc # "SUCCESS" THEN [s EXCEPT !.dur.lasterr = v.rc]
        ELSE [s EXCEPT !.dur.ph = "open", !.dur.persist_to = v.persist_to,
                       !.dur.replicate_to = v.replicate_to]

(* MCTX_add_endure: the entry stays even when no token is found for it. *)
Added(s, i, token) == [s EXCEPT !.item[i].entry = TRUE, !.item[i].token = token]

CtxNew(refuse) ==
    /\ ~env.store /\ dur.ph = "none" /\ dur.lasterr = "SUCCESS"
    /\ Become(Created(Now, refuse))

AddEndure(i, token) ==
    /\ ~env.store /\ dur.ph = "open" /\ i <= env.items /\ i = Cardinality(Entries(Now)) + 1
    /\ Become(Added(Now, i, token))

MctxDone ==
    /\ ~env.store /\ dur.ph = "open"
    /\ Become(IF Entries(Now) = {} THEN Delete(Now) ELSE Start(Now))

MctxFail ==
    /\ ~env.store /\ dur.ph = "open"
    /\ Become(Delete(Now))

(* handle_dur_storecb: the store succeeded, and its callback is either     *)
(* that of the item or invoked at once with the error.                     *)
DurStore(refuse, token) ==
    LET s == Created(Now, refuse)
        Bail(t, err) == [t EXCEPT !.item[1].calls = @ + 1, !.item[1].done = TRUE, !.item[1].rc = err]
    IN  /\ env.store /\ dur.ph = "none" /\ dur.lasterr = "SUCCESS"
        /\ Become(IF s.dur.ph # "open" THEN Bail(s, s.dur.lasterr)
                  ELSE IF ~token THEN Bail(Delete(Added(s, 1, FALSE)), "REFUSED")
                  ELSE Start(Added(s, 1, TRUE)))

-----------------------------------------------------------------------------
(* The requests. *)

Reports(what) ==
    CASE what = "none" -> {"none"}
      [] what = "mem" -> {"none", "mem"}
      [] what = "disk" -> {"none", "mem", "disk"}
      [] what = "lost" -> {"none", "lost"}
      [] what \in {"old mem", "old disk"} -> {"none", "old"}

(* The request of item i for node n gets to a place, or ends (NoNode). *)
Put(s, i, n, place) == [s EXCEPT !.net[i][n] = place]

(* The node that has the request answers, with what it had then. *)
Answer(i, n) ==
    LET at == net[i][n]
    IN  /\ at \in Nodes
        /\ \E report \in Reports(has[at][i]) :
               Become(SeqnoCallback(Put(Now, i, n, NoNode), i, at, report))

(* The request fails: its deadline, a lost connection that is not retried. *)
RequestFails(i, n) ==
    /\ net[i][n] \in Nodes
    /\ Become(FailedCallback(Put(Now, i, n, NoNode), i))

(* It is put in the retry queue: NOT_MY_VBUCKET, or a lost connection. *)
Retry(i, n) ==
    /\ net[i][n] \in Nodes /\ past.retries < env.retries
    /\ Become([Put(Now, i, n, RetryQ) EXCEPT !.past.retries = @ + 1])

(* RetryQueue::flush: the request goes to the master of the vbucket.  Whom *)
(* it was for is forgotten.                                                *)
RetryFlush(i, n) ==
    LET master == cfg.vb[i][1]
    IN  /\ net[i][n] = RetryQ /\ master # NoNode
        /\ Become([Put(Now, i, n, master) EXCEPT !.past.moved = @ \cup {i}])

(* RetryQueue::fail: its deadline, or no master. *)
RetryFails(i, n) ==
    /\ net[i][n] = RetryQ
    /\ Become(FailedCallback(Put(Now, i, n, NoNode), i))

-----------------------------------------------------------------------------
(* The cluster, and time. *)

(* iterwipe_cb and Server::purge for the servers that m lacks: a request   *)
(* goes to the master the item has in m, or fails if there is none.        *)
Relocate(s, m) ==
    LET gone == s.cfg.servers \ m.servers
        Master(i) == m.vb[i][1]
        lost == {q \in Items \X Nodes : s.net[q[1]][q[2]] \in gone}
        failed == {q \in lost : Master(q[1]) = NoNode}
        Failed(i) == \E q \in failed : q[1] = i
        r == [s EXCEPT
                 !.cfg = m,
                 !.net = [i \in Items |-> [n \in Nodes |->
                     IF <<i, n>> \in lost THEN Master(i) ELSE @[i][n]]],
                 !.item = [i \in Items |->
                     IF Failed(i) /\ ~@[i].done THEN [@[i] EXCEPT !.rc = "REQUEST"] ELSE @[i]],
                 !.past.maps = @ + 1,
                 !.past.moved = @ \cup {q[1] : q \in lost \ failed}]
    IN  Tally(r, Cardinality(failed))

(* replace_config: the Servers of the nodes that stay are kept, and the    *)
(* new ones are allocated before any is deleted; later the address of a    *)
(* deleted one may be used again.                                          *)
MapChange(m) ==
    LET used == {addr[n] : n \in cfg.servers}
        free == Addrs \ used
    IN  /\ dur.ph = "polling" /\ m # cfg /\ past.maps < env.maps
        /\ \E new \in [m.servers \ cfg.servers -> free] :
               /\ \A n, o \in DOMAIN new : new[n] = new[o] => n = o
               /\ Become(Relocate([Now EXCEPT !.addr =
                      [n \in Nodes |-> CASE n \in DOMAIN new -> new[n]
                                         [] n \in m.servers \cap cfg.servers -> addr[n]
                                         [] OTHER -> NoAddr]], m))

(* A node gets the mutation, or writes it to its disk.  What happens after *)
(* the item's callback is left out.                                        *)
Polled(i) == dur.ph = "polling" /\ item[i].entry /\ ~item[i].done

NodeStores(n, i) ==
    /\ Polled(i) /\ n \in cfg.servers /\ has[n][i] \in {"none", "mem", "old mem"}
    /\ Become([Now EXCEPT !.has[n][i] = CASE @ = "none" -> "mem"
                                           [] @ = "mem" -> "disk"
                                           [] OTHER -> "old disk"])

(* The vbucket of a node gets a new uuid: it answers with old_uuid, and    *)
(* with an old_seqno that covers the mutation or not.                      *)
Failover(n, i) ==
    /\ Polled(i) /\ n \in cfg.servers
    /\ \/ /\ has[n][i] = "none" /\ "lost" \in env.failover
          /\ Become([Now EXCEPT !.has[n][i] = "lost"])
       \/ /\ has[n][i] \in env.failover
          /\ Become([Now EXCEPT !.has[n][i] = IF @ = "mem" THEN "old mem" ELSE "old disk"])

(* lcb_destroy: the Durset is deleted, the queued requests vanish with     *)
(* their servers, and then ~RetryQueue fails the ones it holds.            *)
Destroy ==
    /\ env.destroys /\ dur.ph = "polling"
    /\ LET held == \E i \in Items, n \in Nodes : net[i][n] = RetryQ
       IN  Become([Delete(Now) EXCEPT
                      !.dur.ph = "destroyed", !.dur.fault = IF held THEN "deleted" ELSE @,
                      !.net = [i \in Items |-> [n \in Nodes |-> NoNode]]])

Pass ==
    /\ dur.ph = "polling" /\ dur.timer >= 0 /\ (dur.timer > 0 \/ dur.left >= 0)
    /\ Become([Now EXCEPT !.dur.timer = Max({0, @ - 1}),
                          !.dur.left = IF @ >= 0 THEN @ - 1 ELSE @])

Init ==
    /\ env \in Envs
    /\ cfg = env.first
    /\ addr = CHOOSE f \in [Nodes -> Addrs \cup {NoAddr}] : Allocated(f, cfg)
    /\ has = [n \in Nodes |-> [i \in Items |-> IF cfg.vb[i][1] = n THEN "mem" ELSE "none"]]
    /\ net = [i \in Items |-> [n \in Nodes |-> NoNode]]
    /\ dur = NewDurset
    /\ item = [i \in Items |-> NewItem]
    /\ past = [maps |-> 0, retries |-> 0, moved |-> {}]

Next ==
    \/ \E refuse \in BOOLEAN : CtxNew(refuse)
    \/ \E i \in Items, token \in BOOLEAN : AddEndure(i, token)
    \/ MctxDone
    \/ MctxFail
    \/ \E refuse, token \in BOOLEAN : DurStore(refuse, token)
    \/ TimerFires
    \/ \E i \in Items, n \in Nodes : Answer(i, n)
    \/ \E i \in Items, n \in Nodes : RequestFails(i, n)
    \/ \E i \in Items, n \in Nodes : Retry(i, n)
    \/ \E i \in Items, n \in Nodes : RetryFlush(i, n)
    \/ \E i \in Items, n \in Nodes : RetryFails(i, n)
    \/ \E m \in Maps : MapChange(m)
    \/ \E n \in Nodes, i \in Items : NodeStores(n, i)
    \/ \E n \in Nodes, i \in Items : Failover(n, i)
    \/ Destroy
    \/ Pass

(* Time passes, a due timer fires, and every request ends: Retryq and      *)
(* McServer have that.                                                     *)
Fairness ==
    /\ []<>(dur.timer # 0) \/ []<><<TimerFires>>_vars
    /\ []<>(dur.ph # "polling" \/ dur.timer <= 0) \/ []<><<Pass>>_vars
    /\ \A i \in Items, n \in Nodes :
           /\ []<>(net[i][n] \notin Nodes) \/ []<><<Answer(i, n) \/ RequestFails(i, n)>>_vars
           /\ []<>(net[i][n] # RetryQ) \/ []<><<RetryFlush(i, n) \/ RetryFails(i, n)>>_vars

Spec == Init /\ [][Next]_vars /\ Fairness

-----------------------------------------------------------------------------
TypeOK ==
    /\ env \in Envs /\ cfg \in Maps
    /\ addr \in [Nodes -> Addrs \cup {NoAddr}]
    /\ has \in [Nodes -> [Items -> {"none", "lost"} \cup Holding]]
    /\ net \in [Items -> [Nodes -> Nodes \cup {NoNode, RetryQ}]]
    /\ dur.ph \in {"none", "open", "polling", "deleted", "destroyed"}
    /\ dur.next \in States /\ dur.lasterr \in Codes
    /\ dur.waiting \in Nat /\ dur.nremaining \in Nat /\ dur.refcnt \in Nat
    /\ dur.left \in NoTimeout..Timeout /\ dur.timer \in NotArmed..Timeout
    /\ \A i \in Items : item[i].rc \in Codes /\ item[i].calls \in 0..1

(* Neither assertion of durability.cc fails, and no callback of an observe *)
(* request reaches a Durset that was deleted.                              *)
DursetLive == dur.fault = "none"

(* The Durset is kept for exactly as long as someone needs it: a reference *)
(* for the items that were not called back and one for the requests of the *)
(* poll, and the poll waits for exactly the requests there are, wherever   *)
(* retries and new maps took them; so neither an assertion fails nor is a  *)
(* deleted Durset used, and while nothing is awaited the timer is armed.   *)
CountsExact ==
    LET todo == Cardinality({i \in Entries(Now) : ~item[i].done})
        One(b) == IF b THEN 1 ELSE 0
    IN  /\ DursetLive
        /\ dur.ph = "polling" =>
               /\ dur.waiting = Outstanding(Now)
               /\ dur.nremaining = todo
               /\ dur.refcnt = One(todo > 0) + One(dur.waiting > 0)
               /\ dur.waiting = 0 => dur.timer >= 0
        /\ dur.ph = "deleted" => Outstanding(Now) = 0

Reported(i) == item[i].token /\ item[i].calls > 0 /\ item[i].rc = "SUCCESS"

(* What the options ask for. *)
Held(i) ==
    /\ Cardinality({n \in Nodes : has[n][i] \in OnDisk}) >= dur.persist_to
    /\ dur.replicate_to > 0 =>
           Cardinality({n \in Nodes : has[n][i] \in Holding}) >= dur.replicate_to + 1

(* An item is reported durable only if persist_to nodes have it on disk    *)
(* and replicate_to nodes beside the master have it at all, if the options *)
(* ask for it (internalstructs.h), however the map changed meanwhile.      *)
DurableOnNodes == \A i \in Items : Reported(i) => Held(i)

(* The same, for an item none of whose requests was retried or relocated,  *)
(* so that every answer came from the node that prepare() chose.           *)
DurableWhenAsked == \A i \in Items \ past.moved : Reported(i) => Held(i)

(* In any case a node that was the master of the vbucket has the item, and *)
(* has it on disk if persistence was asked for.                            *)
MasterHolds ==
    \A i \in Items : Reported(i) =>
        \E n \in item[i].masters :
            has[n][i] \in (IF dur.persist_to > 0 THEN OnDisk ELSE Holding)

(* An item fails only when no further poll fits in before its deadline, or *)
(* the mutation is lost: a failed request or a poll with nobody to ask is  *)
(* tried again.                                                            *)
NotEarly ==
    [][\A i \in Items :
           /\ dur.ph = "polling" /\ item'[i].calls > item[i].calls
           /\ item'[i].rc \notin {"SUCCESS", "MUTATION_LOST"}
           => dur.left <= Interval]_vars

(* Every item of a Durset is called back, and the Durset is deleted. *)
Ends ==
    (dur.ph = "polling") ~>
        \/ dur.ph = "destroyed"
        \/ dur.ph = "deleted" /\ \A i \in Entries(Now) : item[i].calls = 1

=============================================================================
