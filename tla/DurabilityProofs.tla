-------------------------- MODULE DurabilityProofs --------------------------
(***************************************************************************)
(* What Durability promises, for any number of nodes, replicas and items:  *)
(* the references and counters of a Durset are exact, no item fails early, *)
(* and what is reported durable is held by the nodes that were asked.  The *)
(* steps are those of DurabilityInv.                                       *)
(***************************************************************************)
EXTENDS DurabilityInv

(* The first state: nothing is counted, and each server has an address.    *)
LEMMA InitGood ==
  ASSUME Init
  PROVE  Good(Now) /\ Allocated(addr, cfg)
<1>1. env \in EnvType /\ cfg \in Maps
  <2>1. env \in EnvType /\ cfg = env.first
    BY ZenonT(60), DurabilityAssumption DEF Init
  <2>2. QED
    BY ZenonT(60), <2>1 DEF EnvType
<1>2. addr \in [Nodes -> Addrs \cup {NoAddr}] /\ Allocated(addr, cfg)
  <2>1. \E f \in [Nodes -> Addrs \cup {NoAddr}] : Allocated(f, cfg)
    BY ZenonT(60), <1>1, DurabilityAssumption
  <2>2. addr = CHOOSE f \in [Nodes -> Addrs \cup {NoAddr}] : Allocated(f, cfg)
    BY ZenonT(60) DEF Init
  <2>3. QED
    BY ZenonT(60), <2>1, <2>2
<1>3. has \in [Nodes -> [Items -> What]]
  <2>1. "mem" \in What /\ "none" \in What
    BY ZenonT(60) DEF What, Holding
  <2>2. has = [n \in Nodes |-> [i \in Items |-> IF cfg.vb[i][1] = n THEN "mem" ELSE "none"]]
    BY ZenonT(60) DEF Init
  <2> HIDE DEF What
  <2>3. QED
    BY ZenonT(60), <2>1, <2>2
<1>4. net \in [Items -> [Nodes -> Places]] /\ \A i \in Items, n \in Nodes : net[i][n] = NoNode
  BY ZenonT(60) DEF Init, Places
<1>5. dur \in Durs /\ dur.ph = "none" /\ dur.timer = NotArmed /\ dur.fault = "none" /\ dur.refcnt = 0 /\ dur.waiting = 0
  <2>1. dur = NewDurset
    BY ZenonT(60) DEF Init
  <2>2. QED
    BY SMTT(60), <2>1 DEF NewDurset, Durs, NotArmed, NoTimeout, States, Codes
<1>6. item \in [Items -> Entry] /\ \A i \in Items : Blank(item[i])
  <2>1. NoInfo \in Info
    BY ZenonT(60) DEF NoInfo, Info
  <2>2. 0 \in Nat /\ "SUCCESS" \in Codes
    BY DEF Codes
  <2>3. NewItem \in Entry /\ Blank(NewItem)
    BY ZenonT(60), <2>1, <2>2 DEF NewItem, Entry, Blank
  <2>4. item = [i \in Items |-> NewItem]
    BY ZenonT(60) DEF Init
  <2> HIDE DEF NewItem, Entry, Blank
  <2>5. QED
    BY ZenonT(60), <2>3, <2>4
<1>7. past \in [maps : Nat, retries : Nat, moved : SUBSET Items]
  BY SMTT(60) DEF Init
<1> DEFINE s == Now
<1>8. s \in State
  BY ZenonT(60), <1>1, <1>2, <1>3, <1>4, <1>5, <1>6, <1>7 DEF Now, State
<1>9. s.dur = dur /\ s.item = item /\ s.net = net
  BY ZenonT(60) DEF Now
<1> HIDE DEF s
<1>10. Requests(s) = {}
  BY SMTT(60), <1>4, <1>9 DEF Requests
<1>11. NotArmed < 0 /\ "none" # "polling"
  BY DEF NotArmed
<1>12. Rest(s)
  BY ZenonT(60), <1>5, <1>6, <1>9, <1>10, <1>11 DEF Rest
<1>13. QED
  BY ZenonT(60), <1>2, <1>8, <1>12 DEF s, Good

Counters == Good(Now)

(* The counters of the Durset are exact in every state.                    *)
LEMMA CountersAlways == Spec => []Counters
<1>1. Init => Counters
  BY ZenonT(60), InitGood DEF Counters
<1>2. Counters /\ [Next]_vars => Counters'
  BY ZenonT(60), Steps DEF Counters
<1>3. QED
  BY <1>1, <1>2, PTL DEF Spec

(* What that says, in the words of CountsExact.                            *)
LEMMA CountsFollow ==
  ASSUME Counters
  PROVE  /\ dur.ph # "destroyed" => dur.fault = "none"
         /\ dur.fault = "none" => CountsExact
<1> DEFINE s == Now
           t == Cardinality(Todo(s))
<1>1. s \in State /\ Rest(s) /\ s.dur = dur /\ s.item = item
  BY ZenonT(60) DEF Counters, Good, Now
<1>2. {i \in Entries(Now) : ~item[i].done} = Todo(s)
  BY ZenonT(60), <1>1 DEF Todo
<1> HIDE DEF s
<1>3. dur.ph # "destroyed" => dur.fault = "none"
  BY ZenonT(60), <1>1 DEF Rest, Balanced
<1>4. t \in Nat /\ (t = 0 <=> Todo(s) = {})
  <2>1. IsFiniteSet(Todo(s))
    BY ZenonT(60), FiniteSets
  <2>2. QED
    BY ZenonT(60), <2>1, Counting
<1>5. One(Todo(s) # {}) = One(t > 0)
  BY SMTT(60), <1>4 DEF One
<1> HIDE DEF t
<1>6. ASSUME dur.ph = "polling"
      PROVE  /\ dur.waiting = Outstanding(s) /\ dur.nremaining = t
             /\ dur.refcnt = One(t > 0) + One(dur.waiting > 0)
             /\ dur.waiting = 0 => dur.timer >= 0
  <2>1. Balanced(s, 0, 0) /\ (dur.waiting = 0 => dur.timer >= 0)
    BY ZenonT(60), <1>1, <1>6 DEF Rest
  <2>2. /\ dur.waiting = Cardinality(Requests(s)) + 0 /\ dur.nremaining = t
        /\ dur.refcnt = One(t > 0) + One(dur.waiting > 0) + 0
    BY ZenonT(60), <1>1, <1>5, <2>1 DEF Balanced, t
  <2>3. Cardinality(Requests(s)) \in Nat
    <3>1. IsFiniteSet(Requests(s))
      BY ZenonT(60), FiniteSets
    <3>2. QED
      BY ZenonT(60), <3>1, Counting
  <2>4. QED
    BY SMTT(60), <2>1, <2>2, <2>3 DEF Outstanding, One
<1>7. dur.ph = "deleted" => Outstanding(s) = 0
  <2>1. dur.ph = "deleted" => Requests(s) = {}
    BY ZenonT(60), <1>1 DEF Rest
  <2>2. Cardinality({}) = 0
    BY FS_EmptySet
  <2>3. QED
    BY ZenonT(60), <2>1, <2>2 DEF Outstanding
<1>8. ASSUME dur.fault = "none" PROVE CountsExact
  BY ZenonT(60), <1>2, <1>6, <1>7, <1>8 DEF CountsExact, DursetLive, One, s, t
<1>9. QED
  BY ZenonT(60), <1>3, <1>8

(* Until the instance is destroyed the references and the counters of a    *)
(* Durset are exact, neither of its assertions fails and no callback gets  *)
(* to a deleted one: for any number of nodes, replicas and items, and any  *)
(* order of answers, failures, retries, new maps and ticks of the timer.   *)
THEOREM ExactUntilDestroyed == Spec => [](dur.ph # "destroyed" => CountsExact)
<1>1. Counters => (dur.ph # "destroyed" => CountsExact)
  BY ZenonT(60), CountsFollow
<1>2. QED
  BY <1>1, CountersAlways, PTL


(* No request is in the retry queue before one was put there, and nothing  *)
(* has failed.                                                             *)
Unheld(s) ==
    /\ s.env \in Envs /\ s.past.retries <= s.env.retries
    /\ s.past.retries = 0 => \A i \in Items, n \in Nodes : s.net[i][n] # RetryQ
    /\ s.dur.fault = "none"

(* If only an instance without retries is destroyed, that stays.           *)
LEMMA UnheldStep ==
  ASSUME \A e \in Envs : e.destroys => e.retries = 0,
         NEW s, NEW r, Good(s), Good(r), Effect(r, s), Unheld(s)
  PROVE  Unheld(r)
<1>1. RetryQ \notin Nodes /\ NoNode # RetryQ
  BY ZenonT(60), DurabilityAssumption
<1>2. r.dur.ph # "destroyed" => r.dur.fault = "none"
  BY ZenonT(60) DEF Good, Rest, Balanced
<1>3. /\ s.past \in [maps : Nat, retries : Nat, moved : SUBSET Items] /\ s.past.retries \in Nat
      /\ s.env.retries \in Nat
  BY ZenonT(60) DEF Good, State, EnvType
<1>4. CASE Sets(r, s) \/ Polls(r, s) \/ TimesOut(r, s)
  BY ZenonT(60), <1>1, <1>2, <1>4 DEF Unheld, Sets, Polls, TimesOut, Cluster
<1>5. CASE Remaps(r, s)
  BY ZenonT(60), <1>2, <1>5 DEF Unheld, Remaps
<1>6. CASE Gains(r, s) \/ Waits(r, s)
  BY ZenonT(60), <1>6 DEF Unheld, Gains, Waits, Cluster
<1>7. CASE Destroys(r, s)
  <2>1. s.env.retries = 0 /\ s.past.retries <= s.env.retries
    BY ZenonT(60), <1>7 DEF Unheld, Destroys
  <2>2. s.past.retries = 0
    BY SMTT(60), <1>3, <2>1
  <2>3. \A i \in Items, n \in Nodes : s.net[i][n] # RetryQ
    BY ZenonT(60), <2>2 DEF Unheld
  <2>4. r.dur.fault = s.dur.fault /\ Cluster(r, s) /\ r.net = [i \in Items |-> [n \in Nodes |-> NoNode]]
    BY ZenonT(60), <1>7, <2>3 DEF Destroys
  <2>5. \A i \in Items, n \in Nodes : r.net[i][n] # RetryQ
    <3> SUFFICES ASSUME NEW i \in Items, NEW n \in Nodes PROVE r.net[i][n] # RetryQ
      OBVIOUS
    <3>1. r.net[i] = [o \in Nodes |-> NoNode]
      BY ZenonT(60), <2>4
    <3>2. r.net[i][n] = NoNode
      BY ZenonT(60), <3>1
    <3>3. QED
      BY ZenonT(60), <1>1, <3>2
  <2>6. QED
    BY ZenonT(60), <2>4, <2>5 DEF Unheld, Cluster
<1>8. CASE \E i \in Items, n \in Nodes : Answers(r, s, i, n) \/ Fails(r, s, i, n)
  <2>1. PICK i \in Items, n \in Nodes : Ended(r, s, i, n)
    BY ZenonT(60), <1>8 DEF Answers, Fails
  <2>2. \A j \in Items, o \in Nodes : r.net[j][o] \in {NoNode, s.net[j][o]}
    BY ZenonT(60), <2>1 DEF Ended
  <2>3. /\ r.env = s.env /\ r.past = s.past /\ r.dur.fault = "none"
    BY ZenonT(60), <1>2, <2>1 DEF Unheld, Ended, Cluster
  <2>4. s.past.retries = 0 => \A j \in Items, o \in Nodes : r.net[j][o] # RetryQ
    <3> SUFFICES ASSUME s.past.retries = 0, NEW j \in Items, NEW o \in Nodes
                 PROVE  r.net[j][o] # RetryQ
      OBVIOUS
    <3>1. s.net[j][o] # RetryQ
      BY ZenonT(60) DEF Unheld
    <3>2. QED
      BY ZenonT(60), <1>1, <2>2, <3>1
  <2>5. QED
    BY ZenonT(60), <2>3, <2>4 DEF Unheld
<1>9. CASE \E i \in Items, n \in Nodes : Resends(r, s, i, n)
  <2>1. PICK i \in Items, n \in Nodes : Resends(r, s, i, n)
    BY ZenonT(60), <1>9
  <2>2. PICK place \in Nodes \cup {RetryQ} :
          /\ \A j \in Items, o \in Nodes : r.net[j][o] = IF j = i /\ o = n THEN place ELSE s.net[j][o]
          /\ IF place = RetryQ THEN r.past = [s.past EXCEPT !.retries = @ + 1] /\ r.past.retries <= s.env.retries
                               ELSE r.past = [s.past EXCEPT !.moved = @ \cup {i}]
    BY ZenonT(60), <2>1 DEF Resends
  <2>3. CASE place = RetryQ
    <3>1. r.past.retries = s.past.retries + 1 /\ r.past.retries <= s.env.retries
      BY ZenonT(60), <1>3, <2>2, <2>3
    <3>2. r.past.retries # 0
      BY SMTT(60), <1>3, <3>1
    <3>3. QED
      BY ZenonT(60), <2>1, <3>1, <3>2 DEF Unheld, Resends
  <2>4. CASE place # RetryQ
    <3>1. r.past.retries = s.past.retries
      BY ZenonT(60), <1>3, <2>2, <2>4
    <3>2. s.past.retries = 0 => \A j \in Items, o \in Nodes : s.net[j][o] # RetryQ
      BY ZenonT(60) DEF Unheld
    <3>3. r.past.retries = 0 => \A j \in Items, o \in Nodes : r.net[j][o] # RetryQ
      <4> SUFFICES ASSUME r.past.retries = 0, NEW j \in Items, NEW o \in Nodes
                   PROVE  r.net[j][o] # RetryQ
        OBVIOUS
      <4>1. s.net[j][o] # RetryQ
        BY ZenonT(60), <3>1, <3>2
      <4>2. r.net[j][o] \in {place, s.net[j][o]}
        BY ZenonT(60), <2>2
      <4>3. QED
        BY ZenonT(60), <2>4, <4>1, <4>2
    <3>4. r.env = s.env /\ r.dur = s.dur
      BY ZenonT(60), <2>1 DEF Resends
    <3>5. QED
      BY ZenonT(60), <3>1, <3>3, <3>4 DEF Unheld
  <2>5. QED
    BY <2>3, <2>4
<1>10. QED
  BY ZenonT(60), <1>4, <1>5, <1>6, <1>7, <1>8, <1>9 DEF Effect

(* They are exact to the end if the retry queue is empty when the instance *)
(* is destroyed: an instance that retries is not.                          *)
THEOREM CountsAlwaysExact ==
  ASSUME \A e \in Envs : e.destroys => e.retries = 0
  PROVE  Spec => []CountsExact
<1> DEFINE Held0 == Unheld(Now)
<1>1. Init => Held0
  <2> SUFFICES ASSUME Init PROVE Unheld(Now)
    BY ZenonT(60)
  <2>1. env \in EnvType
    BY ZenonT(60), DurabilityAssumption DEF Init
  <2>2. env.retries \in Nat /\ past.retries = 0 /\ NoNode # RetryQ /\ dur.fault = "none" /\ env \in Envs
    BY ZenonT(60), <2>1, DurabilityAssumption DEF Init, EnvType, NewDurset
  <2>3. past.retries <= env.retries
    BY SMTT(60), <2>2
  <2>4. \A i \in Items, n \in Nodes : net[i][n] # RetryQ
    BY ZenonT(60), <2>2 DEF Init
  <2>5. QED
    BY ZenonT(60), <2>2, <2>3, <2>4 DEF Unheld, Now
<1>2. Counters /\ Held0 /\ [Next]_vars => Held0'
  <2> SUFFICES ASSUME Counters, Held0, [Next]_vars PROVE Unheld(Now')
    BY ZenonT(60)
  <2>1. Good(Now) /\ Good(Now') /\ Effect(Now', Now) /\ Unheld(Now)
    BY ZenonT(60), Steps DEF Counters
  <2>2. QED
    BY ZenonT(60), <2>1, UnheldStep
<1>3. Counters /\ Held0 => CountsExact
  BY ZenonT(60), CountsFollow DEF Unheld, Now
<1> HIDE DEF Held0
<1>4. QED
  BY <1>1, <1>2, <1>3, CountersAlways, PTL DEF Spec

(* What a step does to the calls of an entry. *)
LEMMA CallsStep ==
  ASSUME NEW s, NEW r, Good(s), Good(r), Effect(r, s), s.dur.ph = "polling", NEW i \in Items,
         r.item[i].calls > s.item[i].calls, r.item[i].rc \notin {"SUCCESS", "MUTATION_LOST"}
  PROVE  s.dur.left <= Interval
<1>1. s.item[i] \in Entry /\ s.item[i].calls \in Nat
  BY ZenonT(60) DEF Good, State, Entry
<1>2. SUFFICES ASSUME ~TimesOut(r, s) PROVE r.item[i].calls = s.item[i].calls
  BY SMTT(60), <1>1 DEF TimesOut
<1>3. CASE Gains(r, s) \/ Waits(r, s) \/ Destroys(r, s)
  BY ZenonT(60), <1>3 DEF Gains, Waits, Destroys
<1>4. CASE Polls(r, s)
  <2>1. r.item[i] = s.item[i] \/ r.item[i] = Prepare(s, i).entry
    BY ZenonT(60), <1>4 DEF Polls
  <2>2. Prepare(s, i).entry.calls = s.item[i].calls
    BY ZenonT(60), <1>1 DEF Prepare, Counted, Entry
  <2>3. QED
    BY ZenonT(60), <2>1, <2>2
<1>5. CASE Told(r, s)
  BY ZenonT(60), <1>1, <1>5 DEF Told, Entry
<1>6. ASSUME NEW j \in Items, NEW n \in Nodes, Answers(r, s, j, n) PROVE r.item[i].calls = s.item[i].calls
  <2>1. CASE j # i
    BY ZenonT(60), <1>6, <2>1 DEF Answers
  <2>2. CASE j = i
    <3>1. PICK report : Digested(r.item[i], s, i, s.net[i][n], report)
      BY ZenonT(60), <1>6, <2>2 DEF Answers
    <3>2. CASE r.item[i] = s.item[i]
      BY ZenonT(60), <3>2
    <3>3. ASSUME NEW x \in Entry, NEW c, r.item[i] = Called(x, c) PROVE r.item[i].rc = c
      BY ZenonT(60), <3>3 DEF Called, Entry
    <3>4. ASSUME NEW p \in BOOLEAN, NEW slot \in Slots, s.cfg.vb[i][slot] = s.net[i][n]
          PROVE  /\ Learned(s, i, s.net[i][n], p) \in Entry
                 /\ Learned(s, i, s.net[i][n], p).calls = s.item[i].calls
      <4>1. s \in State /\ s.net[i][n] \in Nodes
        BY ZenonT(60), <1>6, <2>2 DEF Answers, Good
      <4>2. Informed(Learned(s, i, s.net[i][n], p), s.item[i], s.addr[s.net[i][n]], s.net[i][n], slot, p)
        BY ZenonT(60), <3>4, <4>1, LearnedIs
      <4>3. QED
        BY ZenonT(60), <4>2 DEF Informed
    <3>5. QED
      BY ZenonT(60), <1>1, <3>1, <3>2, <3>3, <3>4 DEF Digested
  <2>3. QED
    BY <2>1, <2>2
<1>7. CASE \E j \in Items, n \in Nodes : Resends(r, s, j, n)
  BY ZenonT(60), <1>7 DEF Resends
<1>8. QED
  BY ZenonT(60), <1>2, <1>3, <1>4, <1>5, <1>6, <1>7 DEF Effect, Sets, Remaps, Fails


(* An item fails only when no further poll fits in before its deadline, or *)
(* the mutation is lost, whatever happens to its requests.                 *)
THEOREM NeverEarly == Spec => NotEarly
<1>1. Counters /\ [Next]_vars =>
        [\A i \in Items :
           /\ dur.ph = "polling" /\ item'[i].calls > item[i].calls
           /\ item'[i].rc \notin {"SUCCESS", "MUTATION_LOST"}
           => dur.left <= Interval]_vars
  <2> SUFFICES ASSUME Counters, [Next]_vars,
                      NEW i \in Items, dur.ph = "polling", item'[i].calls > item[i].calls,
                      item'[i].rc \notin {"SUCCESS", "MUTATION_LOST"}
               PROVE  dur.left <= Interval
    BY ZenonT(60)
  <2> DEFINE s == Now
             r == Now'
  <2>1. Good(s) /\ Good(r) /\ Effect(r, s)
    BY ZenonT(60), Steps DEF Counters
  <2>2. s.dur = dur /\ s.item = item /\ r.item = item'
    BY ZenonT(60) DEF Now
  <2> HIDE DEF s, r
  <2>3. QED
    BY ZenonT(60), <2>1, <2>2, CallsStep
<1>2. QED
  BY <1>1, CountersAlways, PTL DEF Spec, NotEarly


-----------------------------------------------------------------------------
(* What a step does to one item.  Nothing is learned about it:             *)
Unlearned(y, x) ==
    /\ y.token = x.token /\ y.masters = x.masters /\ y.sinfo = x.sinfo
    /\ y.exists_master = x.exists_master /\ y.persisted_master = x.persisted_master
    /\ y.npersisted = x.npersisted /\ y.nreplicated = x.nreplicated
    /\ \/ y.done = x.done /\ y.calls = x.calls /\ (x.done => y.rc = x.rc)
       \/ y.done /\ y.rc # "SUCCESS"

(* The requests that an item has not been given a new one of.              *)
Fewer(r, s, i) ==
    \A n \in Nodes : \/ r.net[i][n] \in {NoNode, s.net[i][n]}
                     \/ s.net[i][n] # NoNode /\ (r.net[i][n] = RetryQ \/ i \in r.past.moved)

Quiet(r, s, i) == Options(r, s) /\ Unlearned(r.item[i], s.item[i]) /\ Fewer(r, s, i)

Made(r, s, i) == Fresh(r.item[i]) /\ Fewer(r, s, i) /\ r.addr = s.addr

Prepared(r, s, i) ==
    /\ Options(r, s) /\ r.cfg = s.cfg /\ r.addr = s.addr /\ r.has = s.has
    /\ ~s.item[i].done /\ r.item[i] = Prepare(s, i).entry
    /\ \A n \in Nodes : r.net[i][n] = IF n \in Prepare(s, i).ask THEN n ELSE NoNode

(* The answer to the request for n tells what the node in the slot has.    *)
Reached(y, r, s, i, n, slot, p) ==
    LET at == s.net[i][n]
    IN  /\ at \in Nodes /\ s.cfg.vb[i][slot] = at /\ ~s.item[i].done
        /\ s.item[i].token => /\ s.has[at][i] \in Holding
                              /\ p => s.has[at][i] \in OnDisk \cup {"old mem"}
        /\ Informed(y, s.item[i], s.addr[at], at, slot, p)
        /\ \/ r.item[i] = y
           \/ IsAllDone(s.dur, y) /\ r.item[i] = Called(y, "SUCCESS")
Heard(r, s, i) ==
    /\ Options(r, s) /\ Cluster(r, s)
    /\ \E n \in Nodes :
          /\ \A o \in Nodes : r.net[i][o] = IF o = n THEN NoNode ELSE s.net[i][o]
          /\ \E y \in Entry, slot \in Slots, p \in BOOLEAN : Reached(y, r, s, i, n, slot, p)

(* What nodes have only grows, and no item's request is forgotten to have  *)
(* moved.                                                                  *)
Grows(r, s) ==
    /\ r.env = s.env /\ s.past.moved \subseteq r.past.moved
    /\ \A n \in Nodes, i \in Items :
          /\ s.has[n][i] \in Holding => r.has[n][i] \in Holding
          /\ s.has[n][i] \in OnDisk => r.has[n][i] \in OnDisk
          /\ r.has[n][i] = "old mem" => s.has[n][i] = "old mem" \/ "mem" \in s.env.failover

(* A result that is not of an answer leaves what was learned.              *)
LEMMA UnlearnedIs ==
  ASSUME NEW x \in Entry
  PROVE  /\ Unlearned(x, x)
         /\ \A c \in Codes \ {"SUCCESS"} : ~x.done => Unlearned(Called(x, c), x)
         /\ ~x.done => Unlearned([x EXCEPT !.rc = "REQUEST"], x)
<1>1. Unlearned(x, x)
  BY ZenonT(60) DEF Unlearned
<1>2. ASSUME NEW c \in Codes \ {"SUCCESS"} PROVE Unlearned(Called(x, c), x)
  BY ZenonT(60), <1>2 DEF Unlearned, Called, Entry
<1>3. ASSUME ~x.done PROVE Unlearned([x EXCEPT !.rc = "REQUEST"], x)
  BY ZenonT(60), <1>3 DEF Unlearned, Entry
<1>4. QED
  BY ZenonT(60), <1>1, <1>2, <1>3

(* Every step lets it grow. *)
LEMMA GrowsStep ==
  ASSUME NEW s, NEW r, Good(s), Effect(r, s)
  PROVE  Grows(r, s)
<1>1. CASE Cluster(r, s)
  BY ZenonT(60), <1>1 DEF Grows, Cluster
<1>2. CASE Remaps(r, s)
  BY ZenonT(60), <1>2 DEF Grows, Remaps
<1>3. CASE Gains(r, s)
  BY ZenonT(60), <1>3 DEF Grows, Gains
<1>4. ASSUME NEW i \in Items, NEW n \in Nodes, Resends(r, s, i, n) PROVE Grows(r, s)
  <2>1. s.past \in [maps : Nat, retries : Nat, moved : SUBSET Items]
    BY ZenonT(60) DEF Good, State
  <2>2. s.past.moved \subseteq r.past.moved
    BY ZenonT(60), <1>4, <2>1 DEF Resends
  <2>3. QED
    BY ZenonT(60), <1>4, <2>2 DEF Grows, Resends
<1>5. QED
  BY ZenonT(60), <1>1, <1>2, <1>3, <1>4
     DEF Effect, Sets, Polls, TimesOut, Destroys, Waits, Answers, Fails, Ended

(* An answer, as one item sees it. *)
LEMMA HeardStep ==
  ASSUME NEW s, NEW r, Good(s), NEW i \in Items, NEW n \in Nodes, Answers(r, s, i, n)
  PROVE  Quiet(r, s, i) \/ Heard(r, s, i)
<1> DEFINE at == s.net[i][n]
           x == s.item[i]
<1>1. /\ s \in State /\ x \in Entry /\ at \in Nodes /\ Options(r, s) /\ Cluster(r, s)
      /\ \A o \in Nodes : r.net[i][o] = IF o = n THEN NoNode ELSE s.net[i][o]
  BY ZenonT(60) DEF Good, State, Answers, Ended
<1>2. PICK report \in Reports(s.has[at][i]) : Digested(r.item[i], s, i, at, report)
  BY ZenonT(60) DEF Answers
<1>3. Fewer(r, s, i)
  BY ZenonT(60), <1>1 DEF Fewer
<1>4. CASE r.item[i] = x \/ (~x.done /\ r.item[i] = Called(x, "MUTATION_LOST"))
  <2>1. "MUTATION_LOST" \in Codes \ {"SUCCESS"}
    BY DEF Codes
  <2>2. Unlearned(r.item[i], x)
    BY ZenonT(60), <1>1, <1>4, <2>1, UnlearnedIs
  <2>3. QED
    BY ZenonT(60), <1>1, <1>3, <2>2 DEF Quiet
<1>5. ASSUME NEW p \in BOOLEAN, NEW slot \in Slots, ~x.done, s.cfg.vb[i][slot] = at,
             x.token => report \in {"mem", "disk", "old"} /\ (p => report # "mem"),
             \/ r.item[i] = Learned(s, i, at, p)
             \/ /\ IsAllDone(s.dur, Learned(s, i, at, p))
                /\ r.item[i] = Called(Learned(s, i, at, p), "SUCCESS")
      PROVE  Heard(r, s, i)
  <2> DEFINE y == Learned(s, i, at, p)
  <2>1. Informed(y, x, s.addr[at], at, slot, p)
    BY ZenonT(60), <1>1, <1>5, LearnedIs
  <2>2. x.token => s.has[at][i] \in Holding /\ (p => s.has[at][i] \in OnDisk \cup {"old mem"})
    <3> HIDE DEF at, x
    <3>1. s.has[at][i] \in What
      <4>1. s.has \in [Nodes -> [Items -> What]] /\ at \in Nodes
        BY ZenonT(60), <1>1 DEF State
      <4>2. QED
        BY ZenonT(60), <4>1
    <3>2. /\ report = "mem" => s.has[at][i] \in Holding
          /\ report = "disk" => s.has[at][i] \in OnDisk
          /\ report = "old" => s.has[at][i] \in {"old mem", "old disk"}
      BY ZenonT(60), <3>1, ReportsAre
    <3>3. QED
      BY ZenonT(60), <1>5, <3>2 DEF Holding, OnDisk
  <2> HIDE DEF y
  <2>3. Reached(y, r, s, i, n, slot, p)
    BY ZenonT(60), <1>1, <1>5, <2>1, <2>2 DEF Reached, y
  <2>4. y \in Entry
    BY ZenonT(60), <2>1 DEF Informed
  <2>5. QED
    BY ZenonT(60), <1>1, <2>3, <2>4 DEF Heard
<1> HIDE DEF at, x
<1>6. QED
  BY ZenonT(60), <1>2, <1>4, <1>5 DEF Digested, x

(* Every step, as one item sees it. *)
LEMMA ItemStep ==
  ASSUME NEW s, NEW r, Good(s), Good(r), Effect(r, s), NEW i \in Items
  PROVE  Quiet(r, s, i) \/ Made(r, s, i) \/ Prepared(r, s, i) \/ Heard(r, s, i)
<1>1. s.item[i] \in Entry /\ s \in State /\ r \in State
  BY ZenonT(60) DEF Good, State
<1>2. Unlearned(s.item[i], s.item[i])
  BY ZenonT(60), <1>1, UnlearnedIs
<1>3. CASE Sets(r, s)
  BY ZenonT(60), <1>3 DEF Sets, Made, Fewer, Cluster
<1>4. CASE Polls(r, s)
  <2>1. CASE i \in Todo(s)
    BY ZenonT(60), <1>4, <2>1 DEF Polls, Prepared, Cluster, Todo
  <2>2. CASE i \notin Todo(s)
    BY ZenonT(60), <1>2, <1>4, <2>2 DEF Polls, Quiet, Fewer
  <2>3. QED
    BY <2>1, <2>2
<1>5. CASE TimesOut(r, s)
  <2>1. Unlearned(r.item[i], s.item[i])
    BY ZenonT(60), <1>1, <1>5, UnlearnedIs DEF TimesOut
  <2>2. QED
    BY ZenonT(60), <1>5, <2>1 DEF TimesOut, Quiet, Fewer
<1>6. ASSUME Told(r, s) PROVE Unlearned(r.item[i], s.item[i])
  BY ZenonT(60), <1>1, <1>6, UnlearnedIs DEF Told
<1>7. CASE Remaps(r, s)
  <2>1. Fewer(r, s, i)
    <3>1. NoNode \notin Nodes
      BY ZenonT(60), DurabilityAssumption
    <3>2. QED
      BY ZenonT(60), <1>7, <3>1 DEF Remaps, Fewer
  <2>2. QED
    BY ZenonT(60), <1>6, <1>7, <2>1 DEF Remaps, Quiet
<1>8. CASE Gains(r, s)
  BY ZenonT(60), <1>2, <1>8 DEF Gains, Quiet, Fewer, Options
<1>9. CASE Destroys(r, s)
  <2>1. \A n \in Nodes : r.net[i][n] = NoNode
    <3>1. r.net = [j \in Items |-> [n \in Nodes |-> NoNode]]
      BY ZenonT(60), <1>9 DEF Destroys
    <3>2. QED
      BY ZenonT(60), <3>1
  <2>2. QED
    BY ZenonT(60), <1>2, <1>9, <2>1 DEF Destroys, Quiet, Fewer
<1>10. CASE Waits(r, s)
  BY ZenonT(60), <1>2, <1>10 DEF Waits, Quiet, Fewer
<1>11. ASSUME NEW j \in Items, NEW n \in Nodes, Ended(r, s, j, n) PROVE Fewer(r, s, i) /\ Options(r, s)
  BY ZenonT(60), <1>11 DEF Ended, Fewer
<1>12. ASSUME NEW j \in Items, NEW n \in Nodes, Answers(r, s, j, n) PROVE Quiet(r, s, i) \/ Heard(r, s, i)
  <2>1. CASE j = i
    BY ZenonT(60), <1>12, <2>1, HeardStep
  <2>2. CASE j # i
    BY ZenonT(60), <1>2, <1>11, <1>12, <2>2 DEF Answers, Quiet
  <2>3. QED
    BY <2>1, <2>2
<1>13. ASSUME NEW j \in Items, NEW n \in Nodes, Fails(r, s, j, n) PROVE Quiet(r, s, i)
  BY ZenonT(60), <1>6, <1>11, <1>13 DEF Fails, Quiet
<1>14. ASSUME NEW j \in Items, NEW n \in Nodes, Resends(r, s, j, n) PROVE Quiet(r, s, i)
  <2>1. s.past \in [maps : Nat, retries : Nat, moved : SUBSET Items]
    BY ZenonT(60), <1>1 DEF State
  <2>2. Fewer(r, s, i)
    BY ZenonT(60), <1>14, <2>1 DEF Resends, Fewer
  <2>3. QED
    BY ZenonT(60), <1>2, <1>14, <2>2 DEF Resends, Quiet, Options
<1>15. QED
  BY ZenonT(60), <1>3, <1>4, <1>5, <1>7, <1>8, <1>9, <1>10, <1>12, <1>13, <1>14 DEF Effect


-----------------------------------------------------------------------------
(* What an entry says of the master, a node that answered as the master    *)
(* has; and so has one when the item is reported.                          *)
Has(s, i, W) == \E n \in s.item[i].masters : s.has[n][i] \in W
MasterVouched(s, i) ==
    LET x == s.item[i]
    IN  x.token =>
            /\ x.exists_master \/ x.sinfo[1].exists => Has(s, i, Holding)
            /\ x.persisted_master \/ x.sinfo[1].persisted => Has(s, i, OnDisk)
            /\ ~x.done => x.calls = 0
            /\ x.calls > 0 /\ x.rc = "SUCCESS" =>
                   Has(s, i, Holding) /\ (s.dur.persist_to > 0 => Has(s, i, OnDisk))
Vouched(s) ==
    /\ "mem" \notin s.env.failover
    /\ \A n \in Nodes, i \in Items : s.has[n][i] # "old mem"
    /\ \A i \in Items : MasterVouched(s, i)

(* What was vouched for stays so as long as the masters are not forgotten. *)
LEMMA HasGrows ==
  ASSUME NEW s, NEW r, NEW i \in Items, Grows(r, s), s.item[i].masters \subseteq Nodes,
         s.item[i].masters \subseteq r.item[i].masters
  PROVE  /\ Has(s, i, Holding) => Has(r, i, Holding)
         /\ Has(s, i, OnDisk) => Has(r, i, OnDisk)
BY ZenonT(60) DEF Has, Grows

(* An item whose callback was not invoked is not reported.                 *)
LEMMA ZeroIsLeast == ~(0 > 0)
OBVIOUS

(* The answer of a master vouches for what is written down of it.          *)
LEMMA HeardVouched ==
  ASSUME NEW s, NEW r, Good(s), Grows(r, s), NEW i \in Items, Heard(r, s, i), MasterVouched(s, i),
         \A n \in Nodes : s.has[n][i] # "old mem"
  PROVE  MasterVouched(r, i)
<1> DEFINE x == s.item[i]
           z == r.item[i]
<1>1. /\ Options(r, s) /\ r.has = s.has
      /\ \E n \in Nodes, y \in Entry, slot \in Slots, p \in BOOLEAN : Reached(y, r, s, i, n, slot, p)
  BY ZenonT(60) DEF Heard, Cluster
<1>2. PICK n \in Nodes, y \in Entry, slot \in Slots, p \in BOOLEAN : Reached(y, r, s, i, n, slot, p)
  BY ZenonT(60), <1>1
<1> DEFINE at == s.net[i][n]
<1>3. /\ at \in Nodes /\ ~x.done /\ x \in Entry
      /\ Informed(y, x, s.addr[at], at, slot, p)
      /\ z = y \/ (IsAllDone(s.dur, y) /\ z = Called(y, "SUCCESS"))
      /\ x.token => s.has[at][i] \in Holding /\ (p => s.has[at][i] \in OnDisk \cup {"old mem"})
  BY ZenonT(60), <1>2 DEF Reached, Informed
<1> HIDE DEF at, x, z
<1>4. /\ z.token = y.token /\ z.masters = y.masters /\ z.exists_master = y.exists_master
      /\ z.persisted_master = y.persisted_master /\ z.sinfo = y.sinfo
  BY ZenonT(60), <1>3 DEF Called, Entry
<1>5. SUFFICES ASSUME z.token PROVE MasterVouched(r, i)
  BY ZenonT(60) DEF MasterVouched, z
<1>6. x.token /\ x.masters \subseteq Nodes /\ x.masters \subseteq z.masters
  BY ZenonT(60), <1>3, <1>4, <1>5 DEF Informed, Entry
<1>7. /\ Has(s, i, Holding) => Has(r, i, Holding)
      /\ Has(s, i, OnDisk) => Has(r, i, OnDisk)
  BY ZenonT(60), <1>6, HasGrows DEF x, z
<1>8. slot = 1 => /\ Has(r, i, Holding) /\ at \in z.masters
                  /\ p => Has(r, i, OnDisk)
  <2> SUFFICES ASSUME slot = 1
               PROVE  Has(r, i, Holding) /\ at \in z.masters /\ (p => Has(r, i, OnDisk))
    BY ZenonT(60)
  <2>1. at \in z.masters
    BY ZenonT(60), <1>3, <1>4 DEF Informed
  <2>2. s.has[at][i] \in Holding /\ (p => s.has[at][i] \in OnDisk)
    BY ZenonT(60), <1>3, <1>6
  <2>3. QED
    BY ZenonT(60), <1>1, <2>1, <2>2 DEF Has, z
<1>9. 1 \in Slots
  BY ZenonT(60), SlotsAre
<1>10. /\ x.exists_master \/ x.sinfo[1].exists => Has(s, i, Holding)
       /\ x.persisted_master \/ x.sinfo[1].persisted => Has(s, i, OnDisk)
       /\ x.calls = 0
  BY ZenonT(60), <1>3, <1>6 DEF MasterVouched, x
<1>11. /\ z.exists_master \/ z.sinfo[1].exists => Has(r, i, Holding)
       /\ z.persisted_master \/ z.sinfo[1].persisted => Has(r, i, OnDisk)
  <2>1. CASE slot = 1
    <3>1. z.sinfo[1].persisted = p
      <4> DEFINE k == [server |-> s.addr[at], persisted |-> p, exists |-> TRUE]
      <4>1. z.sinfo[1] = k
        BY ZenonT(60), <1>3, <1>4, <2>1 DEF Informed
      <4>2. k.persisted = p
        BY ZenonT(60)
      <4> HIDE DEF k
      <4>3. QED
        BY ZenonT(60), <4>1, <4>2
    <3>2. z.persisted_master => x.persisted_master \/ p
      BY ZenonT(60), <1>3, <1>4 DEF Informed
    <3>3. QED
      BY ZenonT(60), <1>7, <1>8, <1>10, <2>1, <3>1, <3>2
  <2>2. CASE slot # 1
    <3>1. z.sinfo[1] = x.sinfo[1]
      BY ZenonT(60), <1>3, <1>4, <1>9, <2>2 DEF Informed
    <3>2. (z.persisted_master => x.persisted_master) /\ (z.exists_master => x.exists_master)
      BY ZenonT(60), <1>3, <1>4, <2>2 DEF Informed
    <3>3. QED
      BY ZenonT(60), <1>7, <1>10, <3>1, <3>2
  <2>3. QED
    BY ZenonT(60), <2>1, <2>2
<1>12. CASE z = y
  <2>1. z.calls = 0
    BY ZenonT(60), <1>3, <1>10, <1>12 DEF Informed
  <2>2. ~(z.calls > 0)
    BY ZenonT(60), <2>1, ZeroIsLeast
  <2>3. QED
    BY ZenonT(60), <1>11, <2>1, <2>2 DEF MasterVouched, z
<1>13. CASE IsAllDone(s.dur, y) /\ z = Called(y, "SUCCESS")
  <2>1. z.done
    BY ZenonT(60), <1>13 DEF Called, Entry
  <2>2. z.exists_master /\ (s.dur.persist_to > 0 => z.persisted_master)
    BY ZenonT(60), <1>4, <1>13 DEF IsAllDone
  <2>3. r.dur.persist_to = s.dur.persist_to
    BY ZenonT(60), <1>1 DEF Options
  <2>4. QED
    BY ZenonT(60), <1>11, <2>1, <2>2, <2>3 DEF MasterVouched, z
<1>14. QED
  BY ZenonT(60), <1>3, <1>12, <1>13

(* Every step keeps it, unless a node that fails over calls persisted what *)
(* it had in memory only.                                                  *)
LEMMA VouchedStep ==
  ASSUME NEW s, NEW r, Good(s), Good(r), Effect(r, s), Vouched(s)
  PROVE  Vouched(r)
<1>1. Grows(r, s)
  BY ZenonT(60), GrowsStep
<1>2. "mem" \notin r.env.failover /\ \A n \in Nodes, i \in Items : r.has[n][i] # "old mem"
  BY ZenonT(60), <1>1 DEF Vouched, Grows
<1>3. ASSUME NEW i \in Items PROVE MasterVouched(r, i)
  <2> DEFINE x == s.item[i]
             z == r.item[i]
  <2>1. MasterVouched(s, i) /\ x \in Entry /\ s \in State /\ \A n \in Nodes : s.has[n][i] # "old mem"
    BY ZenonT(60) DEF Vouched, Good, State
  <2>2. x.masters \subseteq Nodes /\ 1 \in Slots
    BY ZenonT(60), <2>1, SlotsAre DEF Entry
  <2>3. CASE Heard(r, s, i)
    BY ZenonT(60), <1>1, <2>1, <2>3, HeardVouched
  <2>4. CASE Made(r, s, i)
    <3> HIDE DEF z
    <3>1. Fresh(z)
      BY ZenonT(60), <2>4 DEF Made, z
    <3>2. ~z.sinfo[1].exists /\ ~z.sinfo[1].persisted
      <4>1. z.sinfo[1] = NoInfo
        BY ZenonT(60), <2>2, <3>1 DEF Fresh
      <4>2. ~NoInfo.exists /\ ~NoInfo.persisted
        BY ZenonT(60) DEF NoInfo
      <4>3. QED
        BY ZenonT(60), <4>1, <4>2
    <3>3. (~z.done => z.calls = 0) /\ ~(z.calls > 0 /\ z.rc = "SUCCESS")
      BY SMTT(60), <3>1 DEF Fresh
    <3>4. QED
      BY ZenonT(60), <3>1, <3>2, <3>3 DEF MasterVouched, Fresh, z
  <2>5. CASE Quiet(r, s, i)
    <3> HIDE DEF x, z
    <3>1. Unlearned(z, x) /\ r.dur.persist_to = s.dur.persist_to
      BY ZenonT(60), <2>5 DEF Quiet, Options, x, z
    <3>2. /\ Has(s, i, Holding) => Has(r, i, Holding)
          /\ Has(s, i, OnDisk) => Has(r, i, OnDisk)
      <4>1. x.masters \subseteq z.masters
        BY ZenonT(60), <3>1 DEF Unlearned
      <4>2. QED
        BY ZenonT(60), <1>1, <2>2, <4>1, HasGrows DEF x, z
    <3>3. SUFFICES ASSUME z.token PROVE MasterVouched(r, i)
      BY ZenonT(60) DEF MasterVouched, z
    <3>4. /\ x.exists_master \/ x.sinfo[1].exists => Has(s, i, Holding)
          /\ x.persisted_master \/ x.sinfo[1].persisted => Has(s, i, OnDisk)
          /\ ~x.done => x.calls = 0
          /\ x.calls > 0 /\ x.rc = "SUCCESS" =>
                 Has(s, i, Holding) /\ (s.dur.persist_to > 0 => Has(s, i, OnDisk))
      BY ZenonT(60), <2>1, <3>1, <3>3 DEF MasterVouched, Unlearned, x
    <3>5. /\ z.exists_master \/ z.sinfo[1].exists => Has(r, i, Holding)
          /\ z.persisted_master \/ z.sinfo[1].persisted => Has(r, i, OnDisk)
      BY ZenonT(60), <3>1, <3>2, <3>4 DEF Unlearned
    <3>6. /\ ~z.done => z.calls = 0
          /\ z.calls > 0 /\ z.rc = "SUCCESS" => x.calls > 0 /\ x.rc = "SUCCESS"
      BY ZenonT(60), <3>1, <3>4, ZeroIsLeast DEF Unlearned
    <3>7. QED
      BY ZenonT(60), <3>1, <3>2, <3>4, <3>5, <3>6 DEF MasterVouched, z
  <2>6. CASE Prepared(r, s, i)
    <3>1. /\ ~x.done /\ z = Prepare(s, i).entry /\ r.has = s.has
      BY ZenonT(60), <2>6 DEF Prepared
    <3> HIDE DEF z
    <3>2. /\ z.done = x.done /\ z.calls = x.calls /\ z.token = x.token /\ z.masters = x.masters
          /\ z.exists_master => x.sinfo[1].exists
          /\ z.persisted_master => x.sinfo[1].persisted
          /\ \A ii \in Slots : z.sinfo[ii] = NoInfo \/ z.sinfo[ii] = x.sinfo[ii]
      <4> DEFINE e == Prepare(s, i).entry
      <4>1. /\ e.done = x.done /\ e.calls = x.calls /\ e.token = x.token /\ e.masters = x.masters
            /\ e.exists_master => x.sinfo[1].exists
            /\ e.persisted_master => x.sinfo[1].persisted
            /\ \A ii \in Slots : e.sinfo[ii] = NoInfo \/ e.sinfo[ii] = x.sinfo[ii]
        BY ZenonT(60), <2>1, PrepareIs
      <4> HIDE DEF e, x
      <4>2. z = e
        BY ZenonT(60), <3>1 DEF e
      <4>3. QED
        BY ZenonT(60), <4>1, <4>2
    <3> HIDE DEF x
    <3>3. /\ z.sinfo[1].exists => x.sinfo[1].exists
          /\ z.sinfo[1].persisted => x.sinfo[1].persisted
      <4>1. ~NoInfo.exists /\ ~NoInfo.persisted
        BY ZenonT(60) DEF NoInfo
      <4>2. z.sinfo[1] = NoInfo \/ z.sinfo[1] = x.sinfo[1]
        BY ZenonT(60), <2>2, <3>2
      <4>3. QED
        BY ZenonT(60), <4>1, <4>2
    <3>4. /\ Has(s, i, Holding) => Has(r, i, Holding)
          /\ Has(s, i, OnDisk) => Has(r, i, OnDisk)
      BY ZenonT(60), <1>1, <2>2, <3>2, HasGrows DEF x, z
    <3>5. QED
      BY ZenonT(60), <2>1, <3>1, <3>2, <3>3, <3>4, ZeroIsLeast DEF MasterVouched, x, z
  <2>7. QED
    BY ZenonT(60), <2>3, <2>4, <2>5, <2>6, ItemStep
<1>4. QED
  BY ZenonT(60), <1>2, <1>3 DEF Vouched

Vouch == Vouched(Now)

(* So it always is, if no such node is considered.                         *)
LEMMA VouchAlways ==
  ASSUME \A e \in Envs : "mem" \notin e.failover
  PROVE  Spec => []Vouch
<1>1. Init => Vouch
  <2> SUFFICES ASSUME Init PROVE Vouched(Now)
    BY ZenonT(60) DEF Vouch
  <2>1. env \in Envs /\ item = [i \in Items |-> NewItem]
        /\ has = [n \in Nodes |-> [i \in Items |-> IF cfg.vb[i][1] = n THEN "mem" ELSE "none"]]
    BY ZenonT(60) DEF Init
  <2>2. \A n \in Nodes, i \in Items : has[n][i] # "old mem"
    BY ZenonT(60), <2>1
  <2>3. \A i \in Items : ~item[i].token
    BY ZenonT(60), <2>1 DEF NewItem
  <2>4. QED
    BY ZenonT(60), <2>1, <2>2, <2>3 DEF Vouched, MasterVouched, Now
<1>2. Counters /\ Vouch /\ [Next]_vars => Vouch'
  <2> SUFFICES ASSUME Counters, Vouch, [Next]_vars PROVE Vouched(Now')
    BY ZenonT(60) DEF Vouch
  <2>1. Good(Now) /\ Good(Now') /\ Effect(Now', Now) /\ Vouched(Now)
    BY ZenonT(60), Steps DEF Counters, Vouch
  <2>2. QED
    BY ZenonT(60), <2>1, VouchedStep
<1>3. QED
  BY <1>1, <1>2, CountersAlways, PTL DEF Spec

(* If no node that fails over calls persisted what it had in memory only,  *)
(* an item is reported durable only when a node that was its master has it *)
(* and, if persistence was asked for, has it on disk.                      *)
THEOREM MasterAlwaysHolds ==
  ASSUME \A e \in Envs : "mem" \notin e.failover
  PROVE  Spec => []MasterHolds
<1>1. Vouch => MasterHolds
  BY ZenonT(60) DEF Vouch, Vouched, MasterVouched, MasterHolds, Reported, Has, Now
<1>2. QED
  BY <1>1, VouchAlways, PTL

-----------------------------------------------------------------------------
(* What is kept of the servers is true of the nodes that are there.        *)
Remembered(s, i) ==
    \A ii \in Slots, n \in Nodes :
        LET k == s.item[i].sinfo[ii]
        IN  k.exists /\ s.addr[n] # NoAddr /\ s.addr[n] = k.server =>
                s.has[n][i] \in Holding /\ (k.persisted => s.has[n][i] \in OnDisk)

(* The counters of this poll count different nodes, P for the disk, R as   *)
(* replicas and M as masters, and none of them is still to answer.         *)
Witnessed(s, i, P, R, M) ==
    LET x == s.item[i]
    IN  /\ \A n \in P : s.has[n][i] \in OnDisk
        /\ \A n \in R \cup M : s.has[n][i] \in Holding
        /\ R \cap M = {} /\ (x.exists_master => M # {})
        /\ x.npersisted <= Cardinality(P) /\ x.nreplicated <= Cardinality(R)
        /\ \A n \in P \cup R \cup M : s.net[i][n] = NoNode
Evident(s, i) == \E P, R, M \in SUBSET Nodes : Witnessed(s, i, P, R, M)

(* Held, of a state. *)
HeldIn(s, i) ==
    /\ Cardinality({n \in Nodes : s.has[n][i] \in OnDisk}) >= s.dur.persist_to
    /\ s.dur.replicate_to > 0 =>
           Cardinality({n \in Nodes : s.has[n][i] \in Holding}) >= s.dur.replicate_to + 1

Asked(s, i) == \A n \in Nodes : s.net[i][n] \in {NoNode, n, RetryQ}
Trusted(s, i) ==
    /\ Remembered(s, i) /\ Evident(s, i)
    /\ ~s.item[i].done => s.item[i].calls = 0
    /\ s.item[i].calls > 0 /\ s.item[i].rc = "SUCCESS" => HeldIn(s, i)
Proven(s) ==
    /\ Allocated(s.addr, s.cfg)
    /\ \A i \in Items \ s.past.moved : Asked(s, i) /\ (s.item[i].token => Trusted(s, i))

(* A new Server is not where one was that an item remembers.               *)
NotReused(r, s) ==
    \A n \in Nodes : s.addr[n] = NoAddr /\ r.addr[n] # NoAddr =>
        \A i \in Items, ii \in Slots : s.item[i].sinfo[ii].server # r.addr[n]

(* Then each address is unused, as before, or new to every item.           *)
LEMMA AddrStep ==
  ASSUME NEW s, NEW r, Good(s), Effect(r, s), Allocated(s.addr, s.cfg), NotReused(r, s)
  PROVE  /\ Allocated(r.addr, r.cfg)
         /\ \A n \in Nodes : \/ r.addr[n] \in {NoAddr, s.addr[n]}
                             \/ \A i \in Items, ii \in Slots : s.item[i].sinfo[ii].server # r.addr[n]
<1>1. CASE r.addr = s.addr /\ r.cfg = s.cfg
  BY ZenonT(60), <1>1
<1>2. CASE Remaps(r, s)
  <2>1. Allocated(r.addr, r.cfg)
    BY ZenonT(60), <1>2 DEF Remaps
  <2>2. ASSUME NEW n \in Nodes PROVE r.addr[n] \in {NoAddr, s.addr[n]} \/ s.addr[n] = NoAddr
    BY ZenonT(60), <1>2 DEF Remaps, Allocated
  <2>3. QED
    BY ZenonT(60), <2>1, <2>2 DEF NotReused
<1>3. QED
  BY ZenonT(60), <1>1, <1>2
     DEF Effect, Sets, Polls, TimesOut, Gains, Destroys, Waits, Answers, Fails, Resends, Ended, Cluster

(* What is held stays held. *)
LEMMA HeldGrows ==
  ASSUME NEW s, NEW r, Good(s), NEW i \in Items, Grows(r, s), Options(r, s), HeldIn(s, i)
  PROVE  HeldIn(r, i)
<1> DEFINE D(t) == {n \in Nodes : t.has[n][i] \in OnDisk}
           H(t) == {n \in Nodes : t.has[n][i] \in Holding}
<1>1. D(s) \subseteq D(r) /\ H(s) \subseteq H(r)
  BY ZenonT(60) DEF Grows
<1>2. IsFiniteSet(Nodes)
  BY ZenonT(60), FiniteSets
<1>3. IsFiniteSet(D(r)) /\ IsFiniteSet(H(r))
  BY ZenonT(60), <1>2, FS_Subset
<1>4. /\ Cardinality(D(s)) \in Nat /\ Cardinality(D(r)) \in Nat /\ Cardinality(D(s)) <= Cardinality(D(r))
  BY ZenonT(60), <1>1, <1>3, Counting
<1>5. /\ Cardinality(H(s)) \in Nat /\ Cardinality(H(r)) \in Nat /\ Cardinality(H(s)) <= Cardinality(H(r))
  BY ZenonT(60), <1>1, <1>3, Counting
<1>6. s.dur.persist_to \in Int /\ s.dur.replicate_to \in Int
  BY ZenonT(60) DEF Good, State, Durs
<1>7. r.dur.persist_to = s.dur.persist_to /\ r.dur.replicate_to = s.dur.replicate_to
  BY ZenonT(60) DEF Options
<1>8. /\ Cardinality(D(s)) >= s.dur.persist_to
      /\ s.dur.replicate_to > 0 => Cardinality(H(s)) >= s.dur.replicate_to + 1
  BY ZenonT(60) DEF HeldIn
<1> HIDE DEF D, H
<1>9. /\ Cardinality(D(r)) >= r.dur.persist_to
      /\ r.dur.replicate_to > 0 => Cardinality(H(r)) >= r.dur.replicate_to + 1
  BY SMTT(60), <1>4, <1>5, <1>6, <1>7, <1>8
<1>10. QED
  BY ZenonT(60), <1>9 DEF HeldIn, D, H

(* What is remembered stays true. *)
LEMMA RememberedKept ==
  ASSUME NEW s, NEW r, NEW i \in Items, Grows(r, s), Remembered(s, i),
         \A n \in Nodes : \/ r.addr[n] \in {NoAddr, s.addr[n]}
                          \/ \A j \in Items, ii \in Slots : s.item[j].sinfo[ii].server # r.addr[n],
         \A ii \in Slots : r.item[i].sinfo[ii] \in {NoInfo, s.item[i].sinfo[ii]}
  PROVE  Remembered(r, i)
<1> SUFFICES ASSUME NEW ii \in Slots, NEW n \in Nodes, r.item[i].sinfo[ii].exists,
                    r.addr[n] # NoAddr, r.addr[n] = r.item[i].sinfo[ii].server
             PROVE  r.has[n][i] \in Holding /\ (r.item[i].sinfo[ii].persisted => r.has[n][i] \in OnDisk)
  BY ZenonT(60) DEF Remembered
<1>1. ~NoInfo.exists
  BY ZenonT(60) DEF NoInfo
<1>2. r.item[i].sinfo[ii] = s.item[i].sinfo[ii]
  BY ZenonT(60), <1>1
<1>3. r.addr[n] = s.addr[n]
  BY ZenonT(60), <1>2
<1>4. s.has[n][i] \in Holding /\ (s.item[i].sinfo[ii].persisted => s.has[n][i] \in OnDisk)
  BY ZenonT(60), <1>2, <1>3 DEF Remembered
<1>5. QED
  BY ZenonT(60), <1>2, <1>4 DEF Grows

(* Nothing learned, and no new request: the nodes that were counted are    *)
(* still there.                                                            *)
LEMMA EvidentKept ==
  ASSUME NEW s, NEW r, NEW i \in Items, Grows(r, s), Evident(s, i), Quiet(r, s, i), i \notin r.past.moved
  PROVE  Evident(r, i)
<1>1. PICK P \in SUBSET Nodes, R \in SUBSET Nodes, M \in SUBSET Nodes : Witnessed(s, i, P, R, M)
  BY ZenonT(60) DEF Evident
<1>2. /\ r.item[i].exists_master = s.item[i].exists_master
      /\ r.item[i].npersisted = s.item[i].npersisted /\ r.item[i].nreplicated = s.item[i].nreplicated
  BY ZenonT(60) DEF Quiet, Unlearned
<1>3. \A n \in Nodes : s.net[i][n] = NoNode => r.net[i][n] = NoNode
  BY ZenonT(60) DEF Quiet, Fewer
<1>4. Witnessed(r, i, P, R, M)
  BY ZenonT(60), <1>1, <1>2, <1>3 DEF Witnessed, Grows
<1>5. QED
  BY ZenonT(60), <1>4 DEF Evident

(* Different slots of the vbucket are different nodes. *)
LEMMA SlotNodes ==
  ASSUME NEW m \in Maps, NEW i \in Items, NEW D \in SUBSET Slots, \A ii \in D : m.vb[i][ii] # NoNode
  PROVE  /\ {m.vb[i][ii] : ii \in D} \in SUBSET Nodes
         /\ Cardinality(D) <= Cardinality({m.vb[i][ii] : ii \in D})
<1> DEFINE T == {m.vb[i][ii] : ii \in D}
           g == [ii \in D |-> m.vb[i][ii]]
<1>1. \A ii \in Slots : m.vb[i][ii] \in Nodes \cup {NoNode}
  BY ZenonT(60), SlotsAre
<1>2. T \in SUBSET Nodes
  BY ZenonT(60), <1>1
<1>3. IsFiniteSet(T)
  <2>1. IsFiniteSet(Nodes)
    BY ZenonT(60), FiniteSets
  <2> HIDE DEF T
  <2>2. QED
    BY ZenonT(60), <1>2, <2>1, FS_Subset
<1>4. \A ii, jj \in D : m.vb[i][ii] = m.vb[i][jj] => ii = jj
  <2>1. \A ii \in Slots, jj \in Slots : m.vb[i][ii] = m.vb[i][jj] => ii = jj \/ m.vb[i][ii] = NoNode
    BY ZenonT(60), SlotsAre
  <2>2. QED
    BY ZenonT(60), <2>1
<1>5. g \in Injection(D, T)
  <2>1. g \in [D -> T]
    BY ZenonT(60)
  <2>2. IsInjective(g)
    BY ZenonT(60), <1>4 DEF IsInjective
  <2>3. QED
    BY ZenonT(60), <2>1, <2>2 DEF Injection
<1> HIDE DEF T, g
<1>6. Cardinality(D) <= Cardinality(T)
  BY ZenonT(60), <1>3, <1>5, FS_Injection
<1>7. QED
  BY ZenonT(60), <1>2, <1>6 DEF T


(* Item::prepare: it counts the slots C, those in D as persisted, of which *)
(* it knows something that is of the server there now, and does not ask.   *)
Counts(s, i, C, D) ==
    LET e == Prepare(s, i).entry
        vb == s.cfg.vb[i]
        k == s.item[i].sinfo
    IN  /\ e.exists_master => 1 \in C
        /\ e.npersisted = Cardinality(D) /\ e.nreplicated = Cardinality(C \ {1})
        /\ \A ii \in C : /\ vb[ii] # NoNode /\ s.addr[vb[ii]] = k[ii].server /\ k[ii].exists
                         /\ vb[ii] \notin Prepare(s, i).ask
        /\ \A ii \in D : k[ii].persisted
LEMMA PrepareCounts ==
  ASSUME NEW s \in State, NEW i \in Items
  PROVE  \E C \in SUBSET Slots : \E D \in SUBSET C : Counts(s, i, C, D)
<1> DEFINE vb == s.cfg.vb[i]
           x == s.item[i]
           asked == IF s.dur.persist_to = 1 /\ s.dur.replicate_to = 0 THEN {1} ELSE Slots
           Same(ii) == vb[ii] # NoNode /\ s.addr[vb[ii]] = x.sinfo[ii].server
           cached == {ii \in asked : Same(ii) /\ IsServerDone(s.dur, x.sinfo[ii], ii = 1)}
           disk == {ii \in cached : x.sinfo[ii].persisted}
           si == [ii \in Slots |-> IF ii \in asked /\ ~Same(ii) THEN NoInfo ELSE x.sinfo[ii]]
           ask == {vb[ii] : ii \in asked \ cached} \ {NoNode}
           y == Counted(x, cached, disk)
           z == [y EXCEPT !.sinfo = si]
<1>1. x \in Entry /\ s.cfg \in Maps
  BY ZenonT(60) DEF State
<1>2. asked \subseteq Slots /\ cached \subseteq Slots /\ disk \subseteq cached
  BY ZenonT(60), SlotsAre
<1>3. \A ii \in cached : vb[ii] # NoNode /\ s.addr[vb[ii]] = x.sinfo[ii].server /\ x.sinfo[ii].exists
  BY ZenonT(60) DEF IsServerDone
<1>4. \A ii \in disk : x.sinfo[ii].persisted
  BY ZenonT(60)
<1>5. \A ii, jj \in Slots : vb[ii] = vb[jj] => ii = jj \/ vb[ii] = NoNode
  BY ZenonT(60), <1>1, SlotsAre
<1>6. Prepare(s, i) = [entry |-> z, ask |-> ask]
  BY ZenonT(60) DEF Prepare
<1> HIDE DEF cached, disk, asked, si, x
<1>7. \A ii \in cached : vb[ii] \notin ask
  <2> SUFFICES ASSUME NEW ii \in cached, vb[ii] \in ask PROVE FALSE
    BY ZenonT(60)
  <2>1. PICK jj \in asked \ cached : vb[ii] = vb[jj]
    BY ZenonT(60) DEF ask
  <2> HIDE DEF vb
  <2>2. ii = jj
    BY ZenonT(60), <1>2, <1>3, <1>5, <2>1
  <2>3. QED
    BY ZenonT(60), <2>1, <2>2
<1> HIDE DEF ask
<1> DEFINE em == 1 \in cached
           pm == 1 \in disk
           np == Cardinality(disk)
           nr == Cardinality(cached \ {1})
<1>8. y = [x EXCEPT !.rc = "SUCCESS", !.exists_master = em, !.persisted_master = pm,
                    !.npersisted = np, !.nreplicated = nr]
  BY ZenonT(60) DEF Counted
<1> HIDE DEF y, em, pm, np, nr
<1>9. /\ y.exists_master = em /\ y.npersisted = np /\ y.nreplicated = nr
      /\ DOMAIN y = DOMAIN x
  BY ZenonT(60), <1>1, <1>8 DEF Entry
<1>10. /\ z.exists_master = em /\ z.npersisted = np /\ z.nreplicated = nr
  BY ZenonT(60), <1>1, <1>9 DEF Entry
<1> HIDE DEF z
<1>11. Prepare(s, i).entry = z /\ Prepare(s, i).ask = ask
  BY SMTT(60), <1>6
<1> DEFINE e == Prepare(s, i).entry
           qa == Prepare(s, i).ask
<1>12. /\ e.exists_master = em /\ e.npersisted = np /\ e.nreplicated = nr /\ qa = ask
  BY ZenonT(60), <1>10, <1>11
<1>13. Counts(s, i, cached, disk)
  <2>1. \A ii \in cached : vb[ii] \notin qa
    BY ZenonT(60), <1>7, <1>12
  <2>2. (e.exists_master => 1 \in cached) /\ e.npersisted = Cardinality(disk) /\ e.nreplicated = Cardinality(cached \ {1})
    BY ZenonT(60), <1>12 DEF em, np, nr
  <2>3. QED
    BY ZenonT(60), <1>3, <1>4, <2>1, <2>2 DEF Counts, x
<1>14. QED
  BY ZenonT(60), <1>2, <1>13

(* The nodes that are counted without being asked.                         *)
LEMMA EvidentPrepared ==
  ASSUME NEW s, NEW r, Good(s), NEW i \in Items, Allocated(s.addr, s.cfg), Remembered(s, i),
         Prepared(r, s, i)
  PROVE  Evident(r, i)
<1>1. s \in State /\ s.cfg \in Maps
  BY ZenonT(60) DEF Good, State
<1>2. PICK C \in SUBSET Slots : \E D \in SUBSET C : Counts(s, i, C, D)
  BY ZenonT(60), <1>1, PrepareCounts
<1>3. PICK D \in SUBSET C : Counts(s, i, C, D)
  BY ZenonT(60), <1>2
<1> DEFINE vb == s.cfg.vb[i]
           k == s.item[i].sinfo
           N(S) == {s.cfg.vb[i][ii] : ii \in S}
           P == N(D)
           R == N(C \ {1})
           M == N(C \cap {1})
<1>4. /\ \A ii \in C : vb[ii] # NoNode /\ s.addr[vb[ii]] = k[ii].server /\ k[ii].exists
      /\ \A ii \in D : k[ii].persisted
      /\ \A ii \in C : vb[ii] \notin Prepare(s, i).ask
  BY ZenonT(60), <1>3 DEF Counts
<1>5. /\ r.item[i].exists_master => 1 \in C
      /\ r.item[i].npersisted = Cardinality(D) /\ r.item[i].nreplicated = Cardinality(C \ {1})
      /\ r.has = s.has
  BY ZenonT(60), <1>3 DEF Counts, Prepared
<1>6. ASSUME NEW S \in SUBSET C PROVE N(S) \in SUBSET Nodes /\ Cardinality(S) <= Cardinality(N(S))
  <2>1. S \in SUBSET Slots /\ \A ii \in S : s.cfg.vb[i][ii] # NoNode
    BY ZenonT(60), <1>4
  <2>2. QED
    BY ZenonT(60), <1>1, <2>1, SlotNodes
<1>7. /\ P \in SUBSET Nodes /\ R \in SUBSET Nodes /\ M \in SUBSET Nodes
      /\ r.item[i].npersisted <= Cardinality(P) /\ r.item[i].nreplicated <= Cardinality(R)
  <2>1. D \in SUBSET C /\ C \ {1} \in SUBSET C /\ C \cap {1} \in SUBSET C
    BY ZenonT(60)
  <2> HIDE DEF N
  <2>2. QED
    BY ZenonT(60), <1>5, <1>6, <2>1
<1>8. /\ s.cfg.servers \subseteq Nodes
      /\ \A ii \in Slots : vb[ii] \in s.cfg.servers \cup {NoNode}
      /\ \A ii, jj \in Slots : vb[ii] = vb[jj] => ii = jj \/ vb[ii] = NoNode
  BY ZenonT(60), <1>1, SlotsAre
<1>9. ASSUME NEW ii \in C
      PROVE  /\ s.has[vb[ii]][i] \in Holding /\ (ii \in D => s.has[vb[ii]][i] \in OnDisk)
             /\ r.net[i][vb[ii]] = NoNode
  <2>1. vb[ii] \in Nodes /\ vb[ii] \in s.cfg.servers
    BY ZenonT(60), <1>4, <1>8
  <2>2. s.addr[vb[ii]] # NoAddr
    BY ZenonT(60), <2>1 DEF Allocated
  <2>3. s.has[vb[ii]][i] \in Holding /\ (k[ii].persisted => s.has[vb[ii]][i] \in OnDisk)
    <3> HIDE DEF vb
    <3>1. QED
      BY ZenonT(60), <1>4, <2>1, <2>2 DEF Remembered
  <2>4. r.net[i][vb[ii]] = NoNode
    <3> HIDE DEF vb
    <3>1. QED
      BY ZenonT(60), <1>4, <2>1 DEF Prepared
  <2>5. QED
    BY ZenonT(60), <1>4, <2>3, <2>4
<1>10. R \cap M = {}
  <2> SUFFICES ASSUME NEW n \in R, n \in M PROVE FALSE
    BY ZenonT(60)
  <2>1. PICK ii \in C \ {1} : n = vb[ii]
    BY ZenonT(60)
  <2>2. PICK jj \in C \cap {1} : n = vb[jj]
    BY ZenonT(60)
  <2>3. ii = jj
    <3>1. ii \in Slots /\ jj \in Slots /\ vb[ii] = vb[jj] /\ vb[ii] # NoNode
      BY ZenonT(60), <1>4, <2>1, <2>2
    <3>2. QED
      BY ZenonT(60), <1>8, <3>1
  <2>4. QED
    BY ZenonT(60), <2>1, <2>2, <2>3
<1>11. 1 \in C => M # {}
  BY ZenonT(60)
<1>12. /\ \A n \in P : r.has[n][i] \in OnDisk
       /\ \A n \in R \cup M : r.has[n][i] \in Holding
       /\ \A n \in P \cup R \cup M : r.net[i][n] = NoNode
  <2> HIDE DEF vb
  <2>1. /\ \A n \in P : \E ii \in D : n = vb[ii]
        /\ \A n \in P \cup R \cup M : \E ii \in C : n = vb[ii]
    BY ZenonT(60) DEF vb
  <2> HIDE DEF P, R, M
  <2>2. QED
    BY ZenonT(60), <1>5, <1>9, <2>1
<1> HIDE DEF P, R, M
<1>13. Witnessed(r, i, P, R, M)
  BY ZenonT(60), <1>5, <1>7, <1>10, <1>11, <1>12 DEF Witnessed
<1>14. QED
  BY ZenonT(60), <1>7, <1>13 DEF Evident


(* An item for which enough nodes were counted is held by enough.          *)
LEMMA EvidenceHolds ==
  ASSUME NEW r, Good(r), NEW i \in Items, Evident(r, i), IsAllDone(r.dur, r.item[i])
  PROVE  HeldIn(r, i)
<1> DEFINE x == r.item[i]
           D == {n \in Nodes : r.has[n][i] \in OnDisk}
           H == {n \in Nodes : r.has[n][i] \in Holding}
<1>1. PICK P \in SUBSET Nodes, R \in SUBSET Nodes, M \in SUBSET Nodes : Witnessed(r, i, P, R, M)
  BY ZenonT(60) DEF Evident
<1>2. /\ P \subseteq D /\ R \cup M \subseteq H /\ R \cap M = {} /\ M # {}
      /\ x.npersisted <= Cardinality(P) /\ x.nreplicated <= Cardinality(R)
  BY ZenonT(60), <1>1 DEF Witnessed, IsAllDone
<1>3. PICK m \in M : m \notin R
  BY ZenonT(60), <1>2
<1>4. R \cup {m} \subseteq H
  BY ZenonT(60), <1>2, <1>3
<1>5. IsFiniteSet(Nodes)
  BY ZenonT(60), FiniteSets
<1>6. IsFiniteSet(D) /\ IsFiniteSet(H)
  BY ZenonT(60), <1>5, FS_Subset
<1>7. IsFiniteSet(R)
  BY ZenonT(60), <1>5, FS_Subset
<1>8. /\ r.dur.persist_to \in Int /\ r.dur.replicate_to \in Int /\ x.npersisted \in Nat /\ x.nreplicated \in Nat
  BY ZenonT(60) DEF Good, State, Durs, Entry
<1>9. /\ r.dur.persist_to > 0 => x.npersisted >= r.dur.persist_to
      /\ r.dur.replicate_to > 0 => x.nreplicated >= r.dur.replicate_to
  BY ZenonT(60) DEF IsAllDone
<1> HIDE DEF x, D, H
<1>10. Cardinality(D) \in Nat /\ Cardinality(P) \in Nat /\ Cardinality(P) <= Cardinality(D)
  BY ZenonT(60), <1>2, <1>6, Counting
<1>11. Cardinality(H) \in Nat /\ Cardinality(R \cup {m}) \in Nat /\ Cardinality(R \cup {m}) <= Cardinality(H)
  BY ZenonT(60), <1>4, <1>6, Counting
<1>12. Cardinality(R \cup {m}) = Cardinality(R) + 1
  BY ZenonT(60), <1>3, <1>7, FS_AddElement
<1>13. Cardinality(R) \in Nat
  BY ZenonT(60), <1>7, FS_CardinalityType
<1>14. Cardinality(D) >= r.dur.persist_to
  BY SMTT(60), <1>2, <1>8, <1>9, <1>10
<1>15. r.dur.replicate_to > 0 => Cardinality(H) >= r.dur.replicate_to + 1
  BY SMTT(60), <1>2, <1>8, <1>9, <1>11, <1>12, <1>13
<1>16. QED
  BY ZenonT(60), <1>14, <1>15 DEF HeldIn, D, H

(* The counters with one more node n, persisted or not, a replica or not.  *)
LEMMA OneMoreNode ==
  ASSUME NEW s, NEW r, NEW i \in Items, r.has = s.has, Evident(s, i), s.item[i] \in Entry,
         NEW n \in Nodes, s.net[i][n] # NoNode, NEW slot \in Slots, NEW p \in BOOLEAN,
         s.has[n][i] \in Holding, p => s.has[n][i] \in OnDisk,
         \A o \in Nodes : r.net[i][o] = IF o = n THEN NoNode ELSE s.net[i][o],
         r.item[i].npersisted = s.item[i].npersisted + One(p),
         r.item[i].nreplicated = s.item[i].nreplicated + One(slot # 1),
         r.item[i].exists_master = (s.item[i].exists_master \/ slot = 1)
  PROVE  Evident(r, i)
<1>1. PICK P \in SUBSET Nodes, R \in SUBSET Nodes, M \in SUBSET Nodes : Witnessed(s, i, P, R, M)
  BY ZenonT(60) DEF Evident
<1> DEFINE Q == IF p THEN P \cup {n} ELSE P
           S == IF slot # 1 THEN R \cup {n} ELSE R
           N == IF slot = 1 THEN M \cup {n} ELSE M
           x == s.item[i]
           z == r.item[i]
<1>2. Q \in SUBSET Nodes /\ S \in SUBSET Nodes /\ N \in SUBSET Nodes
  BY ZenonT(60)
<1>3. n \notin P \cup R \cup M
  BY ZenonT(60), <1>1 DEF Witnessed
<1>4. ASSUME NEW T \in SUBSET Nodes, n \notin T, NEW b \in BOOLEAN, NEW c \in Nat, c <= Cardinality(T)
      PROVE  c + One(b) <= Cardinality(IF b THEN T \cup {n} ELSE T)
  <2>1. IsFiniteSet(T)
    <3>1. IsFiniteSet(Nodes)
      BY ZenonT(60), FiniteSets
    <3>2. QED
      BY ZenonT(60), <3>1, FS_Subset
  <2>2. Cardinality(T) \in Nat
    BY ZenonT(60), <2>1, FS_CardinalityType
  <2>3. Cardinality(T \cup {n}) = Cardinality(T) + 1
    BY ZenonT(60), <1>4, <2>1, FS_AddElement
  <2>4. CASE b
    BY SMTT(60), <1>4, <2>2, <2>3, <2>4 DEF One
  <2>5. CASE ~b
    BY SMTT(60), <1>4, <2>2, <2>5 DEF One
  <2>6. QED
    BY <2>4, <2>5
<1>5. z.npersisted <= Cardinality(Q) /\ z.nreplicated <= Cardinality(S)
  <2>1. x.npersisted \in Nat /\ x.nreplicated \in Nat
    BY ZenonT(60) DEF Entry
  <2>2. x.npersisted <= Cardinality(P) /\ x.nreplicated <= Cardinality(R)
    BY ZenonT(60), <1>1 DEF Witnessed
  <2>3. z.npersisted <= Cardinality(Q)
    BY ZenonT(60), <1>3, <1>4, <2>1, <2>2
  <2> DEFINE b == slot # 1
  <2>4. b \in BOOLEAN /\ z.nreplicated = x.nreplicated + One(b) /\ S = IF b THEN R \cup {n} ELSE R
    BY ZenonT(60)
  <2> HIDE DEF b, S
  <2>5. z.nreplicated <= Cardinality(S)
    BY ZenonT(60), <1>3, <1>4, <2>1, <2>2, <2>4
  <2>6. QED
    BY ZenonT(60), <2>3, <2>5
<1>6. /\ \A o \in Q : r.has[o][i] \in OnDisk
      /\ \A o \in S \cup N : r.has[o][i] \in Holding
  BY ZenonT(60), <1>1 DEF Witnessed
<1>7. S \cap N = {} /\ (z.exists_master => N # {})
  BY ZenonT(60), <1>1, <1>3 DEF Witnessed
<1>8. \A o \in Q \cup S \cup N : r.net[i][o] = NoNode
  <2>1. \A o \in P \cup R \cup M : s.net[i][o] = NoNode
    BY ZenonT(60), <1>1 DEF Witnessed
  <2>2. \A o \in Q \cup S \cup N : o \in Nodes /\ (o = n \/ o \in P \cup R \cup M)
    BY ZenonT(60)
  <2> HIDE DEF Q, S, N
  <2>3. QED
    BY ZenonT(60), <2>1, <2>2
<1> HIDE DEF Q, S, N
<1>9. Witnessed(r, i, Q, S, N)
  BY ZenonT(60), <1>5, <1>6, <1>7, <1>8 DEF Witnessed
<1>10. QED
  BY ZenonT(60), <1>2, <1>9 DEF Evident


(* The answer of the node that was asked.                                  *)
LEMMA HeardTrusted ==
  ASSUME NEW s, NEW r, Good(s), Good(r), Vouched(s), NEW i \in Items, Heard(r, s, i),
         Allocated(s.addr, s.cfg), Asked(s, i), s.item[i].token, Trusted(s, i)
  PROVE  Trusted(r, i)
<1> DEFINE x == s.item[i]
           z == r.item[i]
<1>1. /\ Options(r, s) /\ r.has = s.has /\ r.addr = s.addr
      /\ \E n \in Nodes, y \in Entry, slot \in Slots, p \in BOOLEAN :
            /\ \A o \in Nodes : r.net[i][o] = IF o = n THEN NoNode ELSE s.net[i][o]
            /\ Reached(y, r, s, i, n, slot, p)
  BY ZenonT(60) DEF Heard, Cluster
<1>2. PICK n \in Nodes, y \in Entry, slot \in Slots, p \in BOOLEAN :
         /\ \A o \in Nodes : r.net[i][o] = IF o = n THEN NoNode ELSE s.net[i][o]
         /\ Reached(y, r, s, i, n, slot, p)
  BY ZenonT(60), <1>1
<1>3. s.net[i][n] = n
  BY ZenonT(60), <1>2, DurabilityAssumption DEF Asked, Reached
<1>4. /\ ~x.done /\ x \in Entry /\ s.cfg.vb[i][slot] = n
      /\ Informed(y, x, s.addr[n], n, slot, p)
      /\ z = y \/ (IsAllDone(s.dur, y) /\ z = Called(y, "SUCCESS"))
      /\ s.has[n][i] \in Holding /\ (p => s.has[n][i] \in OnDisk)
  BY ZenonT(60), <1>2, <1>3 DEF Reached, Informed, Vouched
<1> HIDE DEF x, z
<1>5. /\ z.sinfo = y.sinfo /\ z.exists_master = y.exists_master /\ z.persisted_master = y.persisted_master
      /\ z.npersisted = y.npersisted /\ z.nreplicated = y.nreplicated
  BY ZenonT(60), <1>4 DEF Called, Entry
<1>6. Evident(r, i)
  <2>1. s.net[i][n] # NoNode
    BY ZenonT(60), <1>3, DurabilityAssumption
  <2>2. /\ z.npersisted = x.npersisted + One(p) /\ z.nreplicated = x.nreplicated + One(slot # 1)
        /\ z.exists_master = (x.exists_master \/ slot = 1)
    BY ZenonT(60), <1>4, <1>5 DEF Informed
  <2>3. Evident(s, i)
    BY ZenonT(60) DEF Trusted
  <2>4. /\ r.item[i].npersisted = s.item[i].npersisted + One(p)
        /\ r.item[i].nreplicated = s.item[i].nreplicated + One(slot # 1)
        /\ r.item[i].exists_master = (s.item[i].exists_master \/ slot = 1)
        /\ s.item[i] \in Entry
    BY ZenonT(60), <1>4, <2>2 DEF x, z
  <2>5. \A o \in Nodes : r.net[i][o] = IF o = n THEN NoNode ELSE s.net[i][o]
    BY ZenonT(60), <1>2
  <2>6. r.has = s.has /\ s.has[n][i] \in Holding /\ (p => s.has[n][i] \in OnDisk)
    BY ZenonT(60), <1>1, <1>4
  <2>7. QED
    BY SMTT(60), <2>1, <2>3, <2>4, <2>5, <2>6, OneMoreNode
<1>7. Remembered(r, i)
  <2> SUFFICES ASSUME NEW ii \in Slots, NEW o \in Nodes, z.sinfo[ii].exists,
                      r.addr[o] # NoAddr, r.addr[o] = z.sinfo[ii].server
               PROVE  r.has[o][i] \in Holding /\ (z.sinfo[ii].persisted => r.has[o][i] \in OnDisk)
    BY ZenonT(60) DEF Remembered, z
  <2>1. CASE ii # slot
    <3>1. z.sinfo[ii] = x.sinfo[ii]
      BY ZenonT(60), <1>4, <1>5, <2>1 DEF Informed
    <3>2. QED
      BY ZenonT(60), <1>1, <3>1 DEF Trusted, Remembered, x
  <2>2. CASE ii = slot
    <3> DEFINE k == [server |-> s.addr[n], persisted |-> p, exists |-> TRUE]
    <3>1. z.sinfo[ii] = k
      BY ZenonT(60), <1>4, <1>5, <2>2 DEF Informed
    <3>2. k.server = s.addr[n] /\ k.persisted = p
      BY ZenonT(60)
    <3> HIDE DEF k
    <3>3. s.addr[o] = s.addr[n] /\ s.addr[o] # NoAddr
      BY ZenonT(60), <1>1, <3>1, <3>2
    <3>4. o \in s.cfg.servers /\ n \in s.cfg.servers
      BY ZenonT(60), <3>3 DEF Allocated
    <3>5. o = n
      BY ZenonT(60), <3>3, <3>4 DEF Allocated
    <3>6. QED
      BY ZenonT(60), <1>1, <1>4, <3>1, <3>2, <3>5
  <2>3. QED
    BY ZenonT(60), <2>1, <2>2
<1>8. CASE z = y
  <2>1. z.calls = 0
    BY ZenonT(60), <1>4, <1>8 DEF Informed, Trusted, x
  <2>2. QED
    BY ZenonT(60), <1>6, <1>7, <2>1, ZeroIsLeast DEF Trusted, z
<1>9. CASE IsAllDone(s.dur, y) /\ z = Called(y, "SUCCESS")
  <2>1. z.done
    BY ZenonT(60), <1>9 DEF Called, Entry
  <2>2. IsAllDone(r.dur, z)
    <3>1. r.dur.persist_to = s.dur.persist_to /\ r.dur.replicate_to = s.dur.replicate_to
      BY ZenonT(60), <1>1 DEF Options
    <3>2. QED
      BY ZenonT(60), <1>5, <1>9, <3>1 DEF IsAllDone
  <2>3. HeldIn(r, i)
    BY ZenonT(60), <1>6, <2>2, EvidenceHolds DEF z
  <2>4. QED
    BY ZenonT(60), <1>6, <1>7, <2>1, <2>3 DEF Trusted, z
<1>10. QED
  BY ZenonT(60), <1>4, <1>8, <1>9

(* A new entry. *)
LEMMA MadeTrusted ==
  ASSUME NEW r, NEW i \in Items, Fresh(r.item[i])
  PROVE  Trusted(r, i)
<1> DEFINE z == r.item[i]
<1> HIDE DEF z
<1>1. Fresh(z)
  BY ZenonT(60) DEF z
<1>2. \A ii \in Slots : ~z.sinfo[ii].exists
  <2>1. ~NoInfo.exists
    BY ZenonT(60) DEF NoInfo
  <2>2. \A ii \in Slots : z.sinfo[ii] = NoInfo
    BY ZenonT(60), <1>1 DEF Fresh
  <2>3. QED
    BY ZenonT(60), <2>1, <2>2
<1>3. Remembered(r, i)
  BY ZenonT(60), <1>2 DEF Remembered, z
<1>4. Evident(r, i)
  <2>1. Cardinality({}) = 0 /\ 0 <= 0
    BY FS_EmptySet
  <2>2. ~z.exists_master /\ z.npersisted = 0 /\ z.nreplicated = 0
    BY ZenonT(60), <1>1 DEF Fresh
  <2>3. z.npersisted <= Cardinality({}) /\ z.nreplicated <= Cardinality({})
    BY SMTT(60), <2>1, <2>2
  <2>4. Witnessed(r, i, {}, {}, {})
    BY ZenonT(60), <2>2, <2>3 DEF Witnessed, z
  <2>5. QED
    BY ZenonT(60), <2>4 DEF Evident
<1>5. (~z.done => z.calls = 0) /\ ~(z.calls > 0 /\ z.rc = "SUCCESS")
  BY ZenonT(60), <1>1, ZeroIsLeast DEF Fresh
<1>6. QED
  BY ZenonT(60), <1>3, <1>4, <1>5 DEF Trusted, z

(* Every step keeps it. *)
LEMMA ProvenStep ==
  ASSUME NEW s, NEW r, Good(s), Good(r), Effect(r, s), Vouched(s), Proven(s), NotReused(r, s)
  PROVE  Proven(r)
<1>1. Grows(r, s)
  BY ZenonT(60), GrowsStep
<1>2. Allocated(s.addr, s.cfg)
  BY ZenonT(60) DEF Proven
<1>3. /\ Allocated(r.addr, r.cfg)
      /\ \A n \in Nodes : \/ r.addr[n] \in {NoAddr, s.addr[n]}
                          \/ \A i \in Items, ii \in Slots : s.item[i].sinfo[ii].server # r.addr[n]
  BY ZenonT(60), <1>2, AddrStep
<1>4. ASSUME NEW i \in Items, i \notin r.past.moved PROVE Asked(r, i) /\ (r.item[i].token => Trusted(r, i))
  <2> DEFINE x == s.item[i]
             z == r.item[i]
  <2>1. Asked(s, i) /\ (x.token => Trusted(s, i)) /\ s \in State
    BY ZenonT(60), <1>1, <1>4 DEF Proven, Grows, Good
  <2>2. CASE Quiet(r, s, i)
    <3>1. Asked(r, i)
      BY ZenonT(60), <1>4, <2>1, <2>2 DEF Quiet, Fewer, Asked
    <3>2. ASSUME z.token PROVE Trusted(r, i)
      <4> HIDE DEF x, z
      <4>1. Unlearned(z, x) /\ Options(r, s)
        BY ZenonT(60), <2>2 DEF Quiet, x, z
      <4>2. Trusted(s, i)
        BY ZenonT(60), <2>1, <3>2, <4>1 DEF Unlearned
      <4>3. Remembered(r, i)
        <5>1. Remembered(s, i) /\ \A ii \in Slots : r.item[i].sinfo[ii] \in {NoInfo, s.item[i].sinfo[ii]}
          BY ZenonT(60), <4>1, <4>2 DEF Trusted, Unlearned, x, z
        <5>2. QED
          BY ZenonT(60), <1>1, <1>3, <5>1, RememberedKept
      <4>4. Evident(r, i)
        <5>1. Evident(s, i)
          BY ZenonT(60), <4>2 DEF Trusted
        <5>2. QED
          BY ZenonT(60), <1>1, <1>4, <2>2, <5>1, EvidentKept
      <4>5. (~x.done => x.calls = 0) /\ (x.calls > 0 /\ x.rc = "SUCCESS" => HeldIn(s, i))
        BY ZenonT(60), <4>2 DEF Trusted, x
      <4>6. /\ ~z.done => z.calls = 0
            /\ z.calls > 0 /\ z.rc = "SUCCESS" => x.calls > 0 /\ x.rc = "SUCCESS"
        BY ZenonT(60), <4>1, <4>5, ZeroIsLeast DEF Unlearned
      <4>7. HeldIn(s, i) => HeldIn(r, i)
        BY ZenonT(60), <1>1, <4>1, HeldGrows
      <4>8. QED
        BY ZenonT(60), <4>3, <4>4, <4>5, <4>6, <4>7 DEF Trusted, z
    <3>3. QED
      BY ZenonT(60), <3>1, <3>2
  <2>3. CASE Made(r, s, i)
    <3>1. Asked(r, i)
      BY ZenonT(60), <1>4, <2>1, <2>3 DEF Made, Fewer, Asked
    <3>2. QED
      BY ZenonT(60), <2>3, <3>1, MadeTrusted DEF Made
  <2>4. CASE Prepared(r, s, i)
    <3>1. Asked(r, i)
      BY ZenonT(60), <2>4 DEF Prepared, Asked
    <3>2. ASSUME z.token PROVE Trusted(r, i)
      <4> DEFINE e == Prepare(s, i).entry
      <4>1. ~x.done /\ z = e
        BY ZenonT(60), <2>4 DEF Prepared
      <4>2. /\ e.done = x.done /\ e.calls = x.calls /\ e.token = x.token
            /\ \A ii \in Slots : e.sinfo[ii] = NoInfo \/ e.sinfo[ii] = x.sinfo[ii]
        BY ZenonT(60), <2>1, PrepareIs
      <4> HIDE DEF e, x, z
      <4>3. Trusted(s, i)
        BY ZenonT(60), <2>1, <3>2, <4>1, <4>2
      <4>4. Remembered(s, i) /\ z.calls = 0
        BY ZenonT(60), <4>1, <4>2, <4>3 DEF Trusted, x
      <4>5. Remembered(r, i)
        <5>1. \A ii \in Slots : r.item[i].sinfo[ii] \in {NoInfo, s.item[i].sinfo[ii]}
          BY ZenonT(60), <4>1, <4>2 DEF x, z
        <5>2. QED
          BY ZenonT(60), <1>1, <1>3, <4>4, <5>1, RememberedKept
      <4>6. Evident(r, i)
        BY ZenonT(60), <1>2, <2>4, <4>4, EvidentPrepared
      <4>7. QED
        BY ZenonT(60), <4>4, <4>5, <4>6, ZeroIsLeast DEF Trusted, z
    <3>3. QED
      BY ZenonT(60), <3>1, <3>2
  <2>5. CASE Heard(r, s, i)
    <3>1. Asked(r, i)
      BY ZenonT(60), <2>1, <2>5 DEF Heard, Asked
    <3>2. ASSUME z.token PROVE Trusted(r, i)
      <4>1. x.token
        <5>1. PICK n \in Nodes, y \in Entry, slot \in Slots, p \in BOOLEAN : Reached(y, r, s, i, n, slot, p)
          BY ZenonT(60), <2>5 DEF Heard
        <5>2. y.token = x.token /\ (z = y \/ z = Called(y, "SUCCESS"))
          BY ZenonT(60), <5>1 DEF Reached, Informed
        <5>3. Called(y, "SUCCESS").token = y.token
          BY ZenonT(60) DEF Called, Entry
        <5> HIDE DEF x, z
        <5>4. QED
          BY ZenonT(60), <3>2, <5>2, <5>3
      <4>2. QED
        BY ZenonT(60), <1>2, <2>1, <2>5, <4>1, HeardTrusted
    <3>3. QED
      BY ZenonT(60), <3>1, <3>2
  <2>6. QED
    BY ZenonT(60), <2>2, <2>3, <2>4, <2>5, ItemStep
<1>5. QED
  BY ZenonT(60), <1>3, <1>4 DEF Proven

(* A Server that is allocated is not where one was that an item remembers. *)
NoReuse ==
    \A n \in Nodes : addr[n] = NoAddr /\ addr'[n] # NoAddr =>
        \A i \in Items, ii \in Slots : item[i].sinfo[ii].server # addr'[n]

(* If no node that fails over calls persisted what it had in memory only,  *)
(* and no new Server is allocated where one was that an item remembers, an *)
(* item none of whose requests was retried or relocated is reported        *)
(* durable only when as many nodes as the options ask for have it.         *)
THEOREM AlwaysDurableWhenAsked ==
  ASSUME \A e \in Envs : "mem" \notin e.failover
  PROVE  Spec /\ [][NoReuse]_vars => []DurableWhenAsked
<1> DEFINE Prove == Proven(Now)
<1>1. Init => Prove
  <2> SUFFICES ASSUME Init PROVE Proven(Now)
    BY ZenonT(60)
  <2>1. Allocated(addr, cfg)
    BY ZenonT(60), InitGood
  <2>2. item = [i \in Items |-> NewItem] /\ net = [i \in Items |-> [n \in Nodes |-> NoNode]]
    BY ZenonT(60) DEF Init
  <2>3. \A i \in Items : ~item[i].token
    BY ZenonT(60), <2>2 DEF NewItem
  <2>4. \A i \in Items, n \in Nodes : net[i][n] = NoNode
    BY ZenonT(60), <2>2
  <2>5. QED
    BY ZenonT(60), <2>1, <2>3, <2>4 DEF Proven, Asked, Now
<1>2. Counters /\ Vouch /\ Prove /\ [Next]_vars /\ [NoReuse]_vars => Prove'
  <2> SUFFICES ASSUME Counters, Vouch, Prove, [Next]_vars, [NoReuse]_vars PROVE Proven(Now')
    BY ZenonT(60)
  <2>1. Good(Now) /\ Good(Now') /\ Effect(Now', Now) /\ Vouched(Now) /\ Proven(Now)
    BY ZenonT(60), Steps DEF Counters, Vouch
  <2>2. NotReused(Now', Now)
    BY ZenonT(60) DEF NoReuse, NotReused, Now, vars
  <2>3. QED
    BY ZenonT(60), <2>1, <2>2, ProvenStep
<1>3. Prove => DurableWhenAsked
  BY ZenonT(60) DEF Proven, Trusted, HeldIn, DurableWhenAsked, Reported, Held, Now
<1> HIDE DEF Prove
<1>4. QED
  BY <1>1, <1>2, <1>3, CountersAlways, VouchAlways, PTL DEF Spec

=============================================================================
