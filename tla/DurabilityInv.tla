--------------------------- MODULE DurabilityInv ---------------------------
(***************************************************************************)
(* The inductive invariant of Durability, Good: the references of a Durset *)
(* and its counters are exact.  What each operation does to it, and then,  *)
(* for every action, that it holds and what else the step does (Effect).   *)
(***************************************************************************)
EXTENDS Durability, TLAPS, FiniteSetTheorems

(* The states, by their types. *)
Places == Nodes \cup {NoNode, RetryQ}
What == {"none", "lost"} \cup Holding
Info == [server : Addrs \cup {NoAddr}, persisted : BOOLEAN, exists : BOOLEAN]
Entry == [entry : BOOLEAN, token : BOOLEAN, done : BOOLEAN, calls : Nat, rc : Codes,
          exists_master : BOOLEAN, persisted_master : BOOLEAN, npersisted : Nat,
          nreplicated : Nat, sinfo : [Slots -> Info], masters : SUBSET Nodes]
Durs == [ph : {"none", "open", "polling", "deleted", "destroyed"}, persist_to : Int,
         replicate_to : Int, nremaining : Int, waiting : Int, refcnt : Int, next : States,
         lasterr : Codes, left : Int, timer : Int, fault : {"none", "assertion", "deleted"}]
State == [env : EnvType, cfg : Maps, addr : [Nodes -> Addrs \cup {NoAddr}],
          has : [Nodes -> [Items -> What]], net : [Items -> [Nodes -> Places]], dur : Durs,
          item : [Items -> Entry], past : [maps : Nat, retries : Nat, moved : SUBSET Items]]

(* The entries whose callback was not invoked.                             *)
Todo(s) == {i \in Entries(s) : ~s.item[i].done}
One(b) == IF b THEN 1 ELSE 0

(* The counters while the Durset is polling: k requests have ended that    *)
(* are still counted, and x references are held by the code that runs.     *)
Balanced(s, k, x) ==
    /\ s.dur.ph = "polling" /\ s.dur.fault = "none"
    /\ s.dur.waiting = Cardinality(Requests(s)) + k
    /\ s.dur.nremaining = Cardinality(Todo(s))
    /\ s.dur.refcnt = One(Todo(s) # {}) + One(s.dur.waiting > 0) + x
    /\ \A q \in Requests(s) : s.item[q[1]].entry

(* The timer and what it is for: while requests are awaited no poll comes, *)
(* and the deadline, when it is what the timer is for, is not early.       *)
Timing(s) ==
    /\ s.dur.waiting > 0 => s.dur.next \in {"TIMEOUT", "IGNORE"}
    /\ s.dur.next = "IGNORE" => s.dur.timer < 0
    /\ s.dur.next = "TIMEOUT" /\ s.dur.timer >= 0 => s.dur.left - s.dur.timer <= Interval

(* An entry before its first poll.                                         *)
Blank(x) ==
    /\ ~x.done /\ x.calls = 0 /\ ~x.exists_master /\ ~x.persisted_master
    /\ x.npersisted = 0 /\ x.nreplicated = 0 /\ x.sinfo = [ii \in Slots |-> NoInfo]

(* Between two events: a Durset that polls has an item to call back or a   *)
(* request to wait for, and if there is no request its timer is armed; one *)
(* that does not poll has neither requests nor a timer.                    *)
Rest(s) ==
    IF s.dur.ph = "polling"
    THEN /\ Balanced(s, 0, 0) /\ Timing(s)
         /\ Todo(s) # {} \/ s.dur.waiting > 0
         /\ s.dur.waiting = 0 => s.dur.timer >= 0
    ELSE /\ Requests(s) = {} /\ s.dur.timer < 0
         /\ s.dur.ph # "destroyed" => s.dur.fault = "none"
         /\ s.dur.ph = "open" \/ (s.dur.ph = "none" /\ s.dur.lasterr = "SUCCESS") =>
                /\ s.dur.refcnt = 0 /\ s.dur.waiting = 0
                /\ \A i \in Items : Blank(s.item[i])

Good(s) == s \in State /\ Rest(s)

-----------------------------------------------------------------------------
(* The sets that are counted are finite.                                   *)
LEMMA FiniteSets ==
  /\ IsFiniteSet(Items) /\ IsFiniteSet(Nodes) /\ IsFiniteSet(Items \X Nodes)
  /\ \A s : IsFiniteSet(Requests(s)) /\ IsFiniteSet(Todo(s)) /\ IsFiniteSet(Entries(s))
<1>1. IsFiniteSet(Items) /\ IsFiniteSet(Nodes)
  BY DurabilityAssumption
<1>2. IsFiniteSet(Items \X Nodes)
  BY <1>1, FS_Product
<1>3. ASSUME NEW s
      PROVE  IsFiniteSet(Requests(s)) /\ IsFiniteSet(Todo(s)) /\ IsFiniteSet(Entries(s))
  <2>1. Requests(s) \in SUBSET (Items \X Nodes) /\ Entries(s) \in SUBSET Items /\ Todo(s) \in SUBSET Items
    BY DEF Requests, Todo, Entries
  <2>2. QED
    BY <1>1, <1>2, <2>1, FS_Subset
<1>4. QED
  BY <1>1, <1>2, <1>3

(* The number of a finite set and whether there is something in it.        *)
LEMMA Counting ==
  ASSUME NEW S, IsFiniteSet(S)
  PROVE  /\ Cardinality(S) \in Nat /\ (Cardinality(S) = 0 <=> S = {})
         /\ \A T \in SUBSET S :
              /\ IsFiniteSet(T) /\ Cardinality(T) \in Nat /\ Cardinality(T) <= Cardinality(S)
              /\ Cardinality(S \ T) = Cardinality(S) - Cardinality(T)
              /\ Cardinality(T) = Cardinality(S) => T = S
<1>1. Cardinality(S) \in Nat /\ (Cardinality(S) = 0 <=> S = {})
  BY FS_CardinalityType, FS_EmptySet
<1>2. ASSUME NEW T \in SUBSET S
      PROVE  /\ IsFiniteSet(T) /\ Cardinality(T) \in Nat /\ Cardinality(T) <= Cardinality(S)
             /\ Cardinality(S \ T) = Cardinality(S) - Cardinality(T)
             /\ Cardinality(T) = Cardinality(S) => T = S
  <2>1. IsFiniteSet(T) /\ Cardinality(T) <= Cardinality(S) /\ (Cardinality(T) = Cardinality(S) => T = S)
    BY FS_Subset
  <2>2. Cardinality(T) \in Nat
    BY <2>1, FS_CardinalityType
  <2>3. IsFiniteSet(S \ T) /\ Cardinality(S \ T) \in Nat
    <3>1. S \ T \in SUBSET S
      OBVIOUS
    <3>2. QED
      BY <3>1, FS_Subset, FS_CardinalityType
  <2>4. Cardinality((S \ T) \cup T) = Cardinality(S \ T) + Cardinality(T) - Cardinality((S \ T) \cap T)
    BY <2>1, <2>3, FS_Union
  <2>5. (S \ T) \cup T = S /\ (S \ T) \cap T = {}
    OBVIOUS
  <2>6. Cardinality({}) = 0
    BY FS_EmptySet
  <2>7. Cardinality(S \ T) = Cardinality(S) - Cardinality(T)
    BY <2>2, <2>3, <2>4, <2>5, <2>6, <1>1
  <2>8. QED
    BY <2>1, <2>2, <2>7
<1>3. QED
  BY <1>1, <1>2

(* What an operation on the Durset alone leaves as it was.                 *)
OnlyDur(r, s) ==
    /\ r \in State
    /\ r.env = s.env /\ r.cfg = s.cfg /\ r.addr = s.addr /\ r.has = s.has /\ r.net = s.net
    /\ r.item = s.item /\ r.past = s.past
    /\ r.dur.persist_to = s.dur.persist_to /\ r.dur.replicate_to = s.dur.replicate_to

(* Such operations can follow one another.                                 *)
LEMMA OnlyDurTransitive ==
  ASSUME NEW s, NEW r, NEW q, OnlyDur(r, s), OnlyDur(q, r)
  PROVE  OnlyDur(q, s)
BY DEF OnlyDur

(* Then entries and requests are the same.                                 *)
LEMMA OnlyDurSets ==
  ASSUME NEW s, NEW r, OnlyDur(r, s)
  PROVE  Requests(r) = Requests(s) /\ Todo(r) = Todo(s) /\ Entries(r) = Entries(s)
BY DEF OnlyDur, Requests, Todo, Entries

(* The other fields of the Durset that most of the operations leave.       *)
SameDur(r, s) ==
    /\ r.dur.waiting = s.dur.waiting /\ r.dur.nremaining = s.dur.nremaining
    /\ r.dur.left = s.dur.left /\ r.dur.fault = s.dur.fault /\ r.dur.lasterr = s.dur.lasterr

(* Durset::incref.                                                         *)
LEMMA IncrefIs ==
  ASSUME NEW s \in State
  PROVE  LET r == Incref(s)
         IN  /\ OnlyDur(r, s) /\ SameDur(r, s)
             /\ r.dur.refcnt = s.dur.refcnt + 1
             /\ r.dur.ph = s.dur.ph /\ r.dur.timer = s.dur.timer /\ r.dur.next = s.dur.next
<1>1. s.dur.refcnt + 1 \in Int
  BY DEF State, Durs
<1>2. QED
  BY ZenonT(60), <1>1 DEF OnlyDur, SameDur, State, Durs, Incref

(* Durset::decref: the last one deletes the Durset.                        *)
LEMMA DecrefIs ==
  ASSUME NEW s \in State
  PROVE  LET r == Decref(s)
         IN  /\ OnlyDur(r, s) /\ SameDur(r, s)
             /\ r.dur.refcnt = s.dur.refcnt - 1 /\ r.dur.next = s.dur.next
             /\ s.dur.refcnt # 1 => r.dur.ph = s.dur.ph /\ r.dur.timer = s.dur.timer
             /\ s.dur.refcnt = 1 => r.dur.ph = "deleted" /\ r.dur.timer = NotArmed
<1> DEFINE q == [s EXCEPT !.dur.refcnt = @ - 1]
           d == Delete(q)
<1>1. s.dur.refcnt - 1 \in Int /\ (s.dur.refcnt - 1 = 0 <=> s.dur.refcnt = 1)
  BY DEF State, Durs
<1>2. NotArmed \in Int
  BY DEF NotArmed
<1>3. /\ OnlyDur(q, s) /\ SameDur(q, s) /\ q.dur.refcnt = s.dur.refcnt - 1
      /\ q.dur.ph = s.dur.ph /\ q.dur.timer = s.dur.timer /\ q.dur.next = s.dur.next
  BY ZenonT(60), <1>1 DEF OnlyDur, SameDur, State, Durs
<1> HIDE DEF q
<1>4. /\ OnlyDur(d, q) /\ SameDur(d, q) /\ d.dur.refcnt = q.dur.refcnt
      /\ d.dur.ph = "deleted" /\ d.dur.timer = NotArmed /\ d.dur.next = q.dur.next
  <2>1. q \in State
    BY <1>3 DEF OnlyDur
  <2>2. QED
    BY ZenonT(60), <1>2, <2>1 DEF OnlyDur, SameDur, State, Durs, Delete
<1>5. Decref(s) = IF q.dur.refcnt = 0 THEN d ELSE q
  BY ZenonT(60) DEF Decref, q
<1> HIDE DEF d
<1>6. CASE s.dur.refcnt = 1
  <2>1. Decref(s) = d /\ OnlyDur(d, s) /\ SameDur(d, s)
    BY ZenonT(60), <1>1, <1>3, <1>4, <1>5, <1>6, OnlyDurTransitive DEF SameDur
  <2>2. QED
    BY ZenonT(60), <1>3, <1>4, <1>6, <2>1
<1>7. CASE s.dur.refcnt # 1
  <2>1. Decref(s) = q
    BY ZenonT(60), <1>1, <1>3, <1>5, <1>7
  <2>2. QED
    BY ZenonT(60), <1>3, <1>7, <2>1
<1>8. QED
  BY <1>6, <1>7

(* Durset::switch_state: the timer is armed, and not early if it is for    *)
(* the deadline.                                                           *)
LEMMA SwitchIs ==
  ASSUME NEW s \in State, NEW state \in {"INIT", "OBSPOLL", "TIMEOUT"}
  PROVE  LET r == SwitchState(s, state)
         IN  /\ OnlyDur(r, s) /\ SameDur(r, s)
             /\ r.dur.refcnt = s.dur.refcnt /\ r.dur.ph = s.dur.ph
             /\ r.dur.timer >= 0 /\ r.dur.next # "IGNORE"
             /\ state = "TIMEOUT" => r.dur.next = "TIMEOUT"
             /\ r.dur.next = "TIMEOUT" => r.dur.left - r.dur.timer <= Interval
<1> DEFINE late == state = "OBSPOLL" /\ ~(s.dur.left # NoTimeout /\ Interval < s.dur.left)
           next == IF late THEN "TIMEOUT" ELSE state
           delay == IF late \/ state = "INIT" THEN 0
                    ELSE IF state = "OBSPOLL" THEN Interval
                    ELSE Max({0, s.dur.left})
<1>1. s.dur.left \in Int /\ Interval \in Nat
  BY DurabilityAssumption DEF State, Durs
<1>2. Max({0, s.dur.left}) \in Int /\ Max({0, s.dur.left}) >= 0 /\ Max({0, s.dur.left}) >= s.dur.left
  BY <1>1 DEF Max
<1>3. next \in States \ {"IGNORE"} /\ delay \in Int /\ delay >= 0 /\ (next = "TIMEOUT" => s.dur.left - delay <= Interval)
      /\ (state = "TIMEOUT" => next = "TIMEOUT")
  BY <1>1, <1>2 DEF States, NoTimeout
<1>4. SwitchState(s, state) = [s EXCEPT !.dur.next = next, !.dur.timer = delay]
  BY DEF SwitchState
<1> HIDE DEF next, delay
<1>5. next \in States /\ delay \in Int
  BY <1>3
<1> DEFINE r == [s EXCEPT !.dur.next = next, !.dur.timer = delay]
<1>6. /\ OnlyDur(r, s) /\ SameDur(r, s) /\ r.dur.refcnt = s.dur.refcnt /\ r.dur.ph = s.dur.ph
      /\ r.dur.timer = delay /\ r.dur.next = next
  BY ZenonT(60), <1>5 DEF OnlyDur, SameDur, State, Durs
<1> HIDE DEF r
<1>7. QED
  BY SMTT(60), <1>3, <1>4, <1>6 DEF SameDur, r

-----------------------------------------------------------------------------
(* Only the answer about some entries changed, and the counters.           *)
OnlyItems(r, s) ==
    /\ r \in State
    /\ r.env = s.env /\ r.cfg = s.cfg /\ r.addr = s.addr /\ r.has = s.has /\ r.net = s.net
    /\ r.past = s.past
    /\ r.dur.persist_to = s.dur.persist_to /\ r.dur.replicate_to = s.dur.replicate_to

(* The entries in D that were not called back are.                         *)
Finished(r, s, D, rc) ==
    /\ OnlyItems(r, s) /\ Todo(r) = Todo(s) \ D /\ Entries(r) = Entries(s)
    /\ \A i \in Items :
          r.item[i] = IF i \in D \cap Todo(s) THEN Called(s.item[i], rc[i]) ELSE s.item[i]
    /\ r.dur.waiting = s.dur.waiting /\ r.dur.next = s.dur.next
    /\ r.dur.left = s.dur.left /\ r.dur.timer = s.dur.timer

(* Item::finish of some entries: each that was not called back is, and the *)
(* last one drops the reference of the set; so the counters stay exact, as *)
(* long as somebody else has a reference.                                  *)
LEMMA FinishIs ==
  ASSUME NEW s \in State, NEW k \in Nat, NEW x \in Nat, Balanced(s, k, x),
         x > 0 \/ s.dur.waiting > 0,
         NEW D \in SUBSET Entries(s), NEW rc \in [D -> Codes]
  PROVE  Balanced(Finish(s, rc), k, x) /\ Finished(Finish(s, rc), s, D, rc)
<1> DEFINE new == {i \in DOMAIN rc : ~s.item[i].done}
           it == [i \in Items |-> IF i \in new THEN Called(s.item[i], rc[i]) ELSE s.item[i]]
           m == s.dur.nremaining - Cardinality(new)
           q == [s EXCEPT !.item = it, !.dur.nremaining = m]
<1>1. new = D \cap Todo(s) /\ new \in SUBSET Todo(s) /\ new \in SUBSET Items
  BY DEF Todo, Entries
<1>2. Finish(s, rc) = IF s.dur.nremaining \in 1..Cardinality(new) THEN Decref(q) ELSE q
  BY ZenonT(30) DEF Finish
<1>3. /\ Cardinality(new) \in Nat /\ Cardinality(Todo(s)) \in Nat
      /\ Cardinality(Todo(s) \ new) = Cardinality(Todo(s)) - Cardinality(new)
      /\ Cardinality(Todo(s)) = 0 <=> Todo(s) = {}
      /\ Cardinality(new) <= Cardinality(Todo(s))
      /\ Cardinality(new) = Cardinality(Todo(s)) => new = Todo(s)
  BY ZenonT(60), <1>1, Counting, FiniteSets
<1>4. it \in [Items -> Entry] /\ \A i \in Items : it[i] = IF i \in D \cap Todo(s) THEN Called(s.item[i], rc[i]) ELSE s.item[i]
  <2>1. ASSUME NEW i \in Items PROVE it[i] \in Entry
    <3>1. s.item[i] \in Entry /\ s.item[i].calls + 1 \in Nat /\ (i \in new => rc[i] \in Codes)
      BY DEF State, Entry
    <3>2. QED
      BY ZenonT(60), <3>1 DEF Entry, Called
  <2>2. QED
    BY ZenonT(60), <1>1, <2>1
<1>4b. \A i \in Items : it[i].entry = s.item[i].entry /\ (it[i].done <=> s.item[i].done \/ i \in D \cap Todo(s))
  <2> SUFFICES ASSUME NEW i \in Items
               PROVE  it[i].entry = s.item[i].entry /\ (it[i].done <=> s.item[i].done \/ i \in D \cap Todo(s))
    OBVIOUS
  <2> DEFINE y == s.item[i]
  <2>1. y \in Entry
    BY ZenonT(60) DEF State
  <2>2. it[i] = IF i \in D \cap Todo(s) THEN Called(y, rc[i]) ELSE y
    BY ZenonT(60), <1>4
  <2> HIDE DEF it
  <2>3. CASE i \in D \cap Todo(s)
    <3>1. it[i] = [y EXCEPT !.done = TRUE, !.rc = rc[i], !.calls = @ + 1]
      BY ZenonT(60), <2>2, <2>3 DEF Called
    <3>2. it[i].entry = y.entry /\ it[i].done = TRUE
      BY ZenonT(60), <2>1, <3>1 DEF Entry
    <3>3. QED
      BY ZenonT(60), <2>3, <3>2
  <2>4. CASE i \notin D \cap Todo(s)
    BY ZenonT(60), <2>2, <2>4
  <2>5. QED
    BY <2>3, <2>4
<1>5. m \in Int /\ m = Cardinality(Todo(s) \ new)
  BY SMTT(60), <1>3 DEF Balanced
<1> HIDE DEF new, it, m
<1>6. /\ q \in State /\ OnlyItems(q, s) /\ q.item = it /\ q.dur.nremaining = m
      /\ \A f \in {"ph", "waiting", "refcnt", "next", "left", "timer", "fault"} : q.dur[f] = s.dur[f]
  BY ZenonT(60), <1>4, <1>5 DEF OnlyItems, State, Durs
<1>7. /\ Entries(q) = Entries(s) /\ Todo(q) = Todo(s) \ D /\ Todo(q) = Todo(s) \ new
      /\ Requests(q) = Requests(s)
  <2>1. \A i \in Items : q.item[i].entry = s.item[i].entry /\ (q.item[i].done <=> s.item[i].done \/ i \in D \cap Todo(s))
    BY ZenonT(60), <1>4b, <1>6
  <2>2. QED
    BY ZenonT(60), <1>1, <1>6, <2>1 DEF Todo, Entries, Requests, OnlyItems
<1> HIDE DEF q
<1>8. CASE s.dur.nremaining \in 1..Cardinality(new)
  <2>1. Todo(s) # {} /\ Todo(q) = {}
    <3>1. Todo(s) # {} /\ Cardinality(new) = Cardinality(Todo(s))
      BY SMTT(60), <1>3, <1>8 DEF Balanced
    <3>2. QED
      BY ZenonT(60), <3>1, <1>3, <1>7
  <2>2. s.dur.refcnt # 1
    BY SMTT(60), <2>1 DEF Balanced, One
  <2> DEFINE r == Decref(q)
  <2>3. /\ OnlyDur(r, q) /\ SameDur(r, q) /\ r.dur.refcnt = q.dur.refcnt - 1 /\ r.dur.next = q.dur.next
        /\ r.dur.ph = q.dur.ph /\ r.dur.timer = q.dur.timer
    BY ZenonT(60), <1>6, <2>2, DecrefIs
  <2> HIDE DEF r
  <2>4. Requests(r) = Requests(s) /\ Todo(r) = {} /\ Entries(r) = Entries(s)
    BY ZenonT(60), <1>7, <2>1, <2>3, OnlyDurSets
  <2>5. /\ OnlyItems(r, s) /\ r.item = it
        /\ r.dur.waiting = s.dur.waiting /\ r.dur.next = s.dur.next
        /\ r.dur.left = s.dur.left /\ r.dur.timer = s.dur.timer
        /\ r.dur.refcnt = s.dur.refcnt - 1 /\ r.dur.nremaining = m /\ r.dur.ph = s.dur.ph
        /\ r.dur.fault = s.dur.fault
    BY ZenonT(60), <1>6, <2>3 DEF OnlyDur, OnlyItems, SameDur
  <2>6. \A j \in Items : r.item[j].entry = s.item[j].entry
    BY ZenonT(60), <2>5, <1>4b
  <2>7. Balanced(r, k, x)
    <3>1. /\ r.dur.nremaining = Cardinality(Todo(r)) /\ r.dur.waiting = Cardinality(Requests(r)) + k
          /\ r.dur.ph = "polling" /\ r.dur.fault = "none"
      BY ZenonT(60), <1>5, <1>7, <2>1, <2>4, <2>5 DEF Balanced
    <3>2. r.dur.refcnt = One(Todo(r) # {}) + One(r.dur.waiting > 0) + x
      <4>1. s.dur.refcnt = 1 + One(s.dur.waiting > 0) + x
        BY ZenonT(60), <2>1 DEF Balanced, One
      <4>2. One(s.dur.waiting > 0) \in Int
        BY DEF One
      <4>3. QED
        BY SMTT(60), <2>4, <2>5, <4>1, <4>2 DEF One
    <3>3. \A u \in Requests(r) : r.item[u[1]].entry
      BY ZenonT(60), <2>4, <2>6 DEF Balanced, Requests
    <3>4. QED
      BY ZenonT(60), <3>1, <3>2, <3>3 DEF Balanced
  <2>8. QED
    BY ZenonT(60), <1>2, <1>4, <1>7, <1>8, <2>1, <2>4, <2>5, <2>7 DEF r, Finished
<1>9. CASE s.dur.nremaining \notin 1..Cardinality(new)
  <2>1. Todo(s) # {} <=> Todo(q) # {}
    <3>1. CASE Todo(s) = {}
      BY ZenonT(60), <1>7, <3>1
    <3>2. CASE Todo(s) # {}
      <4>1. Cardinality(new) # Cardinality(Todo(s))
        BY SMTT(60), <1>3, <1>9, <3>2 DEF Balanced
      <4>2. QED
        BY ZenonT(60), <1>1, <1>7, <3>2, <4>1
    <3>3. QED
      BY <3>1, <3>2
  <2>2. \A j \in Items : q.item[j].entry = s.item[j].entry
    BY ZenonT(60), <1>6, <1>4b
  <2>3. Balanced(q, k, x)
    <3>1. /\ q.dur.nremaining = Cardinality(Todo(q)) /\ q.dur.waiting = Cardinality(Requests(q)) + k
          /\ q.dur.ph = "polling" /\ q.dur.fault = "none"
      BY ZenonT(60), <1>5, <1>6, <1>7 DEF Balanced
    <3>2. q.dur.refcnt = One(Todo(q) # {}) + One(q.dur.waiting > 0) + x
      BY ZenonT(60), <1>6, <2>1 DEF Balanced, One
    <3>3. \A u \in Requests(q) : q.item[u[1]].entry
      BY ZenonT(60), <1>7, <2>2 DEF Balanced, Requests
    <3>4. QED
      BY ZenonT(60), <3>1, <3>2, <3>3 DEF Balanced
  <2>4. QED
    BY ZenonT(60), <1>2, <1>4, <1>6, <1>7, <1>9, <2>3 DEF Finished
<1>10. QED
  BY <1>8, <1>9

(* The end of n calls of seqno_callback: the poll ends with the last of    *)
(* them, and another one is due or the Durset is deleted.                  *)
LEMMA TallyRest ==
  ASSUME NEW s \in State, NEW n \in Nat \ {0}, Balanced(s, n, 0), Timing(s)
  PROVE  OnlyDur(Tally(s, n), s) /\ Rest(Tally(s, n)) /\ Tally(s, n).dur.ph # "destroyed"
<1> DEFINE left == s.dur.waiting - n
<1>1. /\ left = Cardinality(Requests(s)) /\ left \in Nat /\ (left = 0 <=> Requests(s) = {})
      /\ s.dur.waiting = left + n /\ s.dur.waiting > 0
  <2>1. Cardinality(Requests(s)) \in Nat /\ (Cardinality(Requests(s)) = 0 <=> Requests(s) = {})
    BY ZenonT(60), Counting, FiniteSets
  <2>2. QED
    BY SMTT(60), <2>1 DEF Balanced
<1> HIDE DEF left
<1>2. s.dur.refcnt = One(Todo(s) # {}) + 1
  BY SMTT(60), <1>1 DEF Balanced, One
<1>3. CASE left = 0
  <2> DEFINE t == [s EXCEPT !.dur.waiting = 1]
             q == [t EXCEPT !.dur.waiting = 0]
             u == IF q.dur.nremaining > 0 THEN SwitchState(q, "OBSPOLL") ELSE q
             r == Decref(u)
  <2>1. /\ t \in State /\ t.dur.waiting = 1 /\ OnlyDur(q, s) /\ q.dur.waiting = 0
        /\ \A f \in {"ph", "nremaining", "refcnt", "next", "left", "timer", "fault"} : q.dur[f] = s.dur[f]
    <3>1. 1 \in Int /\ 0 \in Int
      OBVIOUS
    <3>2. QED
      BY ZenonT(60), <3>1 DEF OnlyDur, State, Durs
  <2>2. Tally(s, n) = OnPollDone(t)
    BY SMTT(60), <1>3 DEF Tally, left
  <2>3. OnPollDone(t) = r
    <3>1. t.dur.waiting # 0
      BY SMTT(60), <2>1
    <3>2. QED
      BY ZenonT(60), <3>1 DEF OnPollDone
  <2>4. q \in State /\ Requests(q) = Requests(s) /\ Todo(q) = Todo(s)
    BY ZenonT(60), <2>1, OnlyDurSets DEF OnlyDur
  <2> HIDE DEF t, q
  <2>5. q.dur.nremaining > 0 <=> Todo(s) # {}
    <3>1. Cardinality(Todo(s)) \in Nat /\ (Cardinality(Todo(s)) = 0 <=> Todo(s) = {})
      BY ZenonT(60), Counting, FiniteSets
    <3>2. q.dur.nremaining = Cardinality(Todo(s))
      BY ZenonT(60), <2>1 DEF Balanced
    <3>3. QED
      BY SMTT(60), <3>1, <3>2
  <2>6. /\ OnlyDur(u, q) /\ SameDur(u, q) /\ u.dur.refcnt = q.dur.refcnt /\ u.dur.ph = q.dur.ph
        /\ Todo(s) # {} => /\ u.dur.timer >= 0 /\ u.dur.next # "IGNORE"
                           /\ u.dur.next = "TIMEOUT" => u.dur.left - u.dur.timer <= Interval
    <3>1. CASE Todo(s) # {}
      <4>1. u = SwitchState(q, "OBSPOLL")
        BY ZenonT(60), <2>5, <3>1
      <4>2. "OBSPOLL" \in {"INIT", "OBSPOLL", "TIMEOUT"}
        OBVIOUS
      <4> HIDE DEF u
      <4>3. QED
        BY ZenonT(60), <2>4, <4>1, <4>2, SwitchIs
    <3>2. CASE Todo(s) = {}
      BY ZenonT(60), <2>4, <2>5, <3>2 DEF OnlyDur, SameDur
    <3>3. QED
      BY <3>1, <3>2
  <2> HIDE DEF u
  <2>7. u \in State /\ OnlyDur(u, s) /\ u.dur.waiting = 0 /\ u.dur.refcnt = s.dur.refcnt /\ u.dur.ph = "polling"
        /\ u.dur.nremaining = Cardinality(Todo(s)) /\ u.dur.fault = "none"
    BY ZenonT(60), <2>1, <2>6, OnlyDurTransitive DEF OnlyDur, SameDur, Balanced
  <2>8. /\ OnlyDur(r, u) /\ SameDur(r, u) /\ r.dur.refcnt = u.dur.refcnt - 1 /\ r.dur.next = u.dur.next
        /\ u.dur.refcnt # 1 => r.dur.ph = u.dur.ph /\ r.dur.timer = u.dur.timer
        /\ u.dur.refcnt = 1 => r.dur.ph = "deleted" /\ r.dur.timer = NotArmed
    BY ZenonT(60), <2>7, DecrefIs
  <2> HIDE DEF r
  <2>9. OnlyDur(r, s) /\ Requests(r) = {} /\ Todo(r) = Todo(s) /\ r \in State
    <3>1. OnlyDur(r, s)
      BY ZenonT(60), <2>7, <2>8, OnlyDurTransitive
    <3>2. Requests(r) = Requests(s) /\ Todo(r) = Todo(s)
      BY ZenonT(60), <3>1, OnlyDurSets
    <3>3. QED
      BY ZenonT(60), <1>1, <1>3, <3>1, <3>2 DEF OnlyDur
  <2>10. CASE Todo(s) = {}
    <3>1. r.dur.ph = "deleted" /\ r.dur.timer < 0 /\ r.dur.fault = "none"
      BY SMTT(60), <1>2, <2>7, <2>8, <2>10 DEF One, NotArmed, SameDur
    <3>2. QED
      BY SMTT(60), <2>2, <2>3, <2>9, <3>1 DEF Rest
  <2>11. CASE Todo(s) # {}
    <3>1. r.dur.ph = "polling" /\ r.dur.timer = u.dur.timer /\ r.dur.refcnt = 1
      BY SMTT(60), <1>2, <2>7, <2>8, <2>11 DEF One
    <3>2. r.dur.waiting = 0 /\ r.dur.left = u.dur.left /\ r.dur.fault = "none" /\ r.dur.nremaining = Cardinality(Todo(r))
      BY ZenonT(60), <2>7, <2>8, <2>9 DEF SameDur
    <3>3. Cardinality(Requests(r)) = 0
      BY ZenonT(60), <2>9, FS_EmptySet
    <3>4. Balanced(r, 0, 0)
      BY SMTT(60), <2>9, <2>11, <3>1, <3>2, <3>3 DEF Balanced, One
    <3>5. Timing(r) /\ r.dur.timer >= 0
      BY SMTT(60), <2>6, <2>8, <2>11, <3>1, <3>2 DEF Timing
    <3>6. QED
      BY ZenonT(60), <2>2, <2>3, <2>9, <2>11, <3>1, <3>4, <3>5 DEF Rest
  <2>12. QED
    BY <2>10, <2>11
<1>4. CASE left # 0
  <2> DEFINE r == [s EXCEPT !.dur.waiting = left]
  <2>1. /\ OnlyDur(r, s) /\ r.dur.waiting = left
        /\ \A f \in {"ph", "nremaining", "refcnt", "next", "left", "timer", "fault"} : r.dur[f] = s.dur[f]
    <3>1. left \in Int
      BY SMTT(60), <1>1
    <3>2. QED
      BY ZenonT(60), <3>1 DEF OnlyDur, State, Durs
  <2>2. Tally(s, n) = r
    BY SMTT(60), <1>4 DEF Tally, left
  <2> HIDE DEF r
  <2>3. Requests(r) = Requests(s) /\ Todo(r) = Todo(s) /\ r.item = s.item
    BY ZenonT(60), <2>1, OnlyDurSets DEF OnlyDur
  <2>4. left > 0
    BY SMTT(60), <1>1, <1>4
  <2>5. Balanced(r, 0, 0)
    BY SMTT(60), <1>1, <1>2, <2>1, <2>3, <2>4 DEF Balanced, One
  <2>6. Timing(r)
    BY SMTT(60), <1>1, <2>1, <2>4 DEF Timing
  <2>7. QED
    BY SMTT(60), <2>1, <2>2, <2>4, <2>5, <2>6 DEF Rest, Balanced
<1>5. QED
  BY <1>3, <1>4

(* Requests end or go elsewhere, and nothing else that is counted changes. *)
Kept(r, s) ==
    /\ r \in State /\ r.dur = s.dur
    /\ \A i \in Items : r.item[i].entry = s.item[i].entry /\ r.item[i].done = s.item[i].done

(* The counters are exact but for the requests that ended.                 *)
LEMMA FewerRequests ==
  ASSUME NEW s \in State, NEW r, Kept(r, s), Balanced(s, 0, 0), Timing(s),
         NEW F \in SUBSET Requests(s), Requests(r) = Requests(s) \ F
  PROVE  /\ Balanced(r, Cardinality(F), 0) /\ Timing(r)
         /\ Todo(r) = Todo(s) /\ Entries(r) = Entries(s)
<1>1. Todo(r) = Todo(s) /\ Entries(r) = Entries(s)
  BY ZenonT(60) DEF Kept, Todo, Entries
<1>2. /\ Cardinality(F) \in Nat /\ Cardinality(Requests(s)) \in Nat
      /\ Cardinality(Requests(r)) = Cardinality(Requests(s)) - Cardinality(F)
  <2>1. IsFiniteSet(Requests(s))
    BY ZenonT(60), FiniteSets
  <2>2. /\ Cardinality(F) \in Nat /\ Cardinality(Requests(s)) \in Nat
        /\ Cardinality(Requests(s) \ F) = Cardinality(Requests(s)) - Cardinality(F)
    BY ZenonT(60), <2>1, Counting
  <2>3. QED
    BY ZenonT(60), <2>2
<1>3. /\ s.dur.waiting = Cardinality(Requests(s)) + 0
      /\ r.dur.waiting = s.dur.waiting
  BY ZenonT(60) DEF Balanced, Kept
<1>4. r.dur.waiting = Cardinality(Requests(r)) + Cardinality(F)
  BY SMTT(60), <1>2, <1>3
<1>5. \A q \in Requests(r) : r.item[q[1]].entry
  <2> SUFFICES ASSUME NEW q \in Requests(r) PROVE r.item[q[1]].entry
    OBVIOUS
  <2>1. q \in Requests(s) /\ q[1] \in Items
    BY ZenonT(60) DEF Requests
  <2>2. QED
    BY ZenonT(60), <2>1 DEF Balanced, Kept
<1>6. Balanced(r, Cardinality(F), 0)
  BY ZenonT(60), <1>1, <1>4, <1>5 DEF Balanced, Kept
<1>7. Timing(r)
  BY ZenonT(60) DEF Timing, Kept
<1>8. QED
  BY ZenonT(60), <1>1, <1>6, <1>7

(* Requests that go elsewhere leave a Durset as it rests.                  *)
LEMMA KeptRest ==
  ASSUME NEW s \in State, NEW r, Kept(r, s), Rest(s), s.dur.ph = "polling",
         Requests(r) = Requests(s)
  PROVE  Rest(r)
<1>1. Balanced(s, 0, 0) /\ Timing(s) /\ (Todo(s) # {} \/ s.dur.waiting > 0)
      /\ (s.dur.waiting = 0 => s.dur.timer >= 0)
  BY ZenonT(60) DEF Rest
<1>2. {} \in SUBSET Requests(s) /\ Requests(r) = Requests(s) \ {} /\ Cardinality({}) = 0
  BY FS_EmptySet
<1>3. Balanced(r, 0, 0) /\ Timing(r) /\ Todo(r) = Todo(s)
  <2>1. Balanced(r, Cardinality({}), 0) /\ Timing(r) /\ Todo(r) = Todo(s)
    BY ZenonT(60), <1>1, <1>2, FewerRequests
  <2>2. QED
    BY ZenonT(60), <1>2, <2>1
<1>4. QED
  BY ZenonT(60), <1>1, <1>3 DEF Rest, Kept

(* A poll that ended: the next one, or the deadline, is due.               *)
LEMMA SwitchRest ==
  ASSUME NEW s \in State, Balanced(s, 0, 1), Todo(s) # {}, NEW state \in {"OBSPOLL", "TIMEOUT"},
         s.dur.waiting > 0 => state = "TIMEOUT"
  PROVE  LET r == Decref(SwitchState(s, state))
         IN  OnlyDur(r, s) /\ Rest(r) /\ r.dur.left = s.dur.left /\ r.dur.ph # "destroyed"
<1> DEFINE u == SwitchState(s, state)
           r == Decref(u)
<1>1. /\ OnlyDur(u, s) /\ SameDur(u, s) /\ u.dur.refcnt = s.dur.refcnt /\ u.dur.ph = s.dur.ph
      /\ u.dur.timer >= 0 /\ u.dur.next # "IGNORE"
      /\ state = "TIMEOUT" => u.dur.next = "TIMEOUT"
      /\ u.dur.next = "TIMEOUT" => u.dur.left - u.dur.timer <= Interval
  <2>1. state \in {"INIT", "OBSPOLL", "TIMEOUT"}
    OBVIOUS
  <2>2. QED
    BY ZenonT(60), <2>1, SwitchIs
<1> HIDE DEF u
<1>2. s.dur.refcnt # 1 /\ s.dur.refcnt - 1 = 1 + One(s.dur.waiting > 0) /\ s.dur.waiting \in Int
  <2>1. s.dur.refcnt = 1 + One(s.dur.waiting > 0) + 1 /\ One(s.dur.waiting > 0) \in Nat
    BY ZenonT(60) DEF Balanced, One
  <2>2. s.dur.waiting \in Int
    BY DEF State, Durs
  <2>3. QED
    BY SMTT(60), <2>1, <2>2
<1>3. u \in State
  BY ZenonT(60), <1>1 DEF OnlyDur
<1>4. /\ OnlyDur(r, u) /\ SameDur(r, u) /\ r.dur.refcnt = u.dur.refcnt - 1 /\ r.dur.next = u.dur.next
      /\ r.dur.ph = u.dur.ph /\ r.dur.timer = u.dur.timer
  BY ZenonT(60), <1>1, <1>2, <1>3, DecrefIs
<1> HIDE DEF r
<1>5. OnlyDur(r, s) /\ Requests(r) = Requests(s) /\ Todo(r) = Todo(s) /\ r.item = s.item
  <2>1. OnlyDur(r, s)
    BY ZenonT(60), <1>1, <1>4, OnlyDurTransitive
  <2>2. Requests(r) = Requests(s) /\ Todo(r) = Todo(s)
    BY ZenonT(60), <2>1, OnlyDurSets
  <2>3. QED
    BY ZenonT(60), <2>1, <2>2 DEF OnlyDur
<1>6. /\ r.dur.waiting = s.dur.waiting /\ r.dur.nremaining = s.dur.nremaining
      /\ r.dur.fault = s.dur.fault /\ r.dur.left = s.dur.left /\ r.dur.left = u.dur.left
      /\ r.dur.ph = s.dur.ph /\ r.dur.refcnt = 1 + One(s.dur.waiting > 0)
  BY ZenonT(60), <1>1, <1>2, <1>4 DEF SameDur
<1>7. Balanced(r, 0, 0)
  <2>1. r.dur.refcnt = One(Todo(r) # {}) + One(r.dur.waiting > 0) + 0
    <3>1. One(s.dur.waiting > 0) \in Nat
      BY ZenonT(60) DEF One
    <3>2. One(Todo(r) # {}) = 1
      BY ZenonT(60), <1>5 DEF One
    <3>3. QED
      BY SMTT(60), <1>6, <3>1, <3>2
  <2>2. QED
    BY ZenonT(60), <1>5, <1>6, <2>1 DEF Balanced
<1>8. Timing(r) /\ r.dur.timer >= 0
  BY SMTT(60), <1>1, <1>4, <1>6 DEF Timing
<1>9. Rest(r)
  BY ZenonT(60), <1>5, <1>6, <1>7, <1>8 DEF Rest, Balanced
<1>10. QED
  BY ZenonT(60), <1>5, <1>6, <1>9, "polling" # "destroyed" DEF r, u, Balanced

-----------------------------------------------------------------------------
(* The vbucket of an item has a master and replicas among the servers of   *)
(* the map.                                                                *)
LEMMA SlotsAre ==
  /\ NSlots \in Nat \ {0} /\ 1 \in Slots /\ IsFiniteSet(Slots)
  /\ \A m \in Maps : m.servers \subseteq Nodes
  /\ \A m \in Maps, i \in Items, ii \in Slots : m.vb[i][ii] \in m.servers \cup {NoNode}
  /\ \A m \in Maps, i \in Items, ii \in Slots, jj \in Slots :
       m.vb[i][ii] = m.vb[i][jj] => ii = jj \/ m.vb[i][ii] = NoNode
<1>1. PICK m \in Maps, i \in Items : m.vb[i] \in Seq(Nodes \cup {NoNode}) /\ Len(m.vb[i]) = NSlots /\ NSlots > 0
  <2>1. PICK m \in Maps : TRUE
    BY DurabilityAssumption
  <2>2. PICK i \in Items : TRUE
    BY DurabilityAssumption
  <2>3. m \in [servers : SUBSET Nodes, vb : [Items -> Seq(Nodes \cup {NoNode})]]
    BY ZenonT(60), DurabilityAssumption
  <2>4. QED
    BY ZenonT(60), <2>3, DurabilityAssumption
<1>2. NSlots \in Nat \ {0}
  BY <1>1
<1>3. 1 \in Slots /\ IsFiniteSet(Slots)
  BY <1>2, FS_Interval DEF Slots
<1>4. \A u \in Maps : u.servers \subseteq Nodes
  BY ZenonT(60), DurabilityAssumption
<1>5. QED
  BY ZenonT(60), <1>2, <1>3, <1>4, DurabilityAssumption

(* Item::prepare: the entry is the same but for what is known of its       *)
(* servers, and the master counts only if it is known to have the item.    *)
LEMMA PrepareIs ==
  ASSUME NEW s \in State, NEW i \in Items
  PROVE  LET p == Prepare(s, i)
             x == s.item[i]
         IN  /\ p.entry \in Entry /\ p.ask \in SUBSET Nodes
             /\ p.entry.entry = x.entry /\ p.entry.done = x.done /\ p.entry.calls = x.calls
             /\ p.entry.token = x.token /\ p.entry.masters = x.masters
             /\ p.entry.exists_master => x.sinfo[1].exists
             /\ p.entry.persisted_master => x.sinfo[1].persisted
             /\ \A ii \in Slots : p.entry.sinfo[ii] = NoInfo \/ p.entry.sinfo[ii] = x.sinfo[ii]
<1> DEFINE vb == s.cfg.vb[i]
           x == s.item[i]
           asked == IF s.dur.persist_to = 1 /\ s.dur.replicate_to = 0 THEN {1} ELSE Slots
           Same(ii) == vb[ii] # NoNode /\ s.addr[vb[ii]] = x.sinfo[ii].server
           cached == {ii \in asked : Same(ii) /\ IsServerDone(s.dur, x.sinfo[ii], ii = 1)}
           disk == {ii \in cached : x.sinfo[ii].persisted}
           si == [ii \in Slots |-> IF ii \in asked /\ ~Same(ii) THEN NoInfo ELSE x.sinfo[ii]]
           ask == {vb[ii] : ii \in asked \ cached} \ {NoNode}
           y == Counted(x, cached, disk)
           z == [y EXCEPT !.sinfo = si]
<1>1. x \in Entry /\ s.cfg \in Maps
  BY ZenonT(60) DEF State
<1>2. asked \subseteq Slots /\ cached \subseteq Slots /\ disk \subseteq Slots /\ cached \ {1} \subseteq Slots
  BY ZenonT(60), SlotsAre
<1>3. ask \in SUBSET Nodes
  <2>1. \A ii \in Slots : vb[ii] \in Nodes \cup {NoNode}
    BY ZenonT(60), <1>1, SlotsAre
  <2>2. QED
    BY ZenonT(60), <1>2, <2>1
<1>4. Cardinality(disk) \in Nat /\ Cardinality(cached \ {1}) \in Nat
  <2>1. IsFiniteSet(Slots)
    BY ZenonT(60), SlotsAre
  <2>2. IsFiniteSet(disk) /\ IsFiniteSet(cached \ {1})
    BY ZenonT(60), <1>2, <2>1, FS_Subset
  <2>3. QED
    BY ZenonT(60), <2>2, FS_CardinalityType
<1>5. NoInfo \in Info /\ si \in [Slots -> Info] /\ \A ii \in Slots : si[ii] = NoInfo \/ si[ii] = x.sinfo[ii]
  <2>1. NoInfo \in Info
    BY ZenonT(60) DEF NoInfo, Info
  <2>2. \A ii \in Slots : x.sinfo[ii] \in Info
    BY ZenonT(60), <1>1 DEF Entry
  <2>3. QED
    BY ZenonT(60), <2>1, <2>2
<1>6. 1 \in cached => x.sinfo[1].exists
  BY ZenonT(60) DEF IsServerDone
<1>7. 1 \in disk => x.sinfo[1].persisted
  BY ZenonT(60)
<1>8. Prepare(s, i) = [entry |-> z, ask |-> ask]
  BY ZenonT(60) DEF Prepare
<1> HIDE DEF cached, disk, si, ask, x
<1>9. "SUCCESS" \in Codes
  BY DEF Codes
<1> DEFINE em == 1 \in cached
           pm == 1 \in disk
           np == Cardinality(disk)
           nr == Cardinality(cached \ {1})
<1>10. em \in BOOLEAN /\ pm \in BOOLEAN /\ np \in Nat /\ nr \in Nat
  <2>1. em \in BOOLEAN /\ pm \in BOOLEAN
    BY SMTT(60)
  <2>2. QED
    BY ZenonT(60), <1>4, <2>1
<1>11. y = [x EXCEPT !.rc = "SUCCESS", !.exists_master = em, !.persisted_master = pm,
                     !.npersisted = np, !.nreplicated = nr]
  BY ZenonT(60) DEF Counted
<1> HIDE DEF y, em, pm, np, nr
<1>12. /\ y \in Entry
       /\ y.entry = x.entry /\ y.done = x.done /\ y.calls = x.calls
       /\ y.token = x.token /\ y.masters = x.masters
       /\ y.exists_master = em /\ y.persisted_master = pm
  BY ZenonT(60), <1>1, <1>9, <1>10, <1>11 DEF Entry
<1>13. /\ z \in Entry
       /\ z.entry = y.entry /\ z.done = y.done /\ z.calls = y.calls
       /\ z.token = y.token /\ z.masters = y.masters /\ z.sinfo = si
       /\ z.exists_master = y.exists_master /\ z.persisted_master = y.persisted_master
  BY ZenonT(60), <1>5, <1>12 DEF Entry
<1> HIDE DEF z
<1>14. Prepare(s, i).entry = z /\ Prepare(s, i).ask = ask
  BY SMTT(60), <1>8
<1>15. QED
  BY ZenonT(60), <1>3, <1>5, <1>6, <1>7, <1>12, <1>13, <1>14 DEF x, em, pm

(* Durset::poll: the requests that were made are the ones that are         *)
(* awaited, and if there is none to make the next poll is due, or the      *)
(* deadline.                                                               *)
LEMMA PollRest ==
  ASSUME NEW s \in State, Balanced(s, 0, 0), s.dur.waiting = 0, Todo(s) # {}
  PROVE  LET r == Poll(s)
         IN  /\ r \in State /\ Rest(r) /\ r.dur.ph # "destroyed"
             /\ r.env = s.env /\ r.cfg = s.cfg /\ r.addr = s.addr /\ r.has = s.has /\ r.past = s.past
             /\ r.dur.persist_to = s.dur.persist_to /\ r.dur.replicate_to = s.dur.replicate_to
             /\ r.dur.left = s.dur.left
             /\ \A i \in Items : r.item[i] = IF i \in Todo(s) THEN Prepare(s, i).entry ELSE s.item[i]
             /\ \A i \in Items, n \in Nodes :
                  r.net[i][n] = IF i \in Todo(s) /\ n \in Prepare(s, i).ask THEN n ELSE NoNode
<1> DEFINE plan == [i \in Todo(s) |-> Prepare(s, i)]
           sent == {q \in Todo(s) \X Nodes : q[2] \in plan[q[1]].ask}
           a == Incref(s)
           it == [i \in Items |-> IF i \in Todo(s) THEN plan[i].entry ELSE a.item[i]]
           nt == [i \in Items |-> [n \in Nodes |-> IF <<i, n>> \in sent THEN n ELSE a.net[i][n]]]
           w == a.dur.waiting + Cardinality(sent)
           r == [a EXCEPT !.item = it, !.net = nt, !.dur.waiting = w]
           u == IF sent # {} THEN Incref(r) ELSE [r EXCEPT !.dur.lasterr = "TOO_MANY"]
           state == IF sent # {} THEN "TIMEOUT" ELSE "OBSPOLL"
<1>1. Poll(s) = Decref(SwitchState(u, state))
  <2>1. CASE sent # {}
    <3>1. Poll(s) = Decref(SwitchState(Incref(r), "TIMEOUT"))
      BY ZenonT(60), <2>1 DEF Poll, Todo
    <3>2. QED
      BY ZenonT(60), <2>1, <3>1
  <2>2. CASE sent = {}
    <3>1. Poll(s) = Decref(SwitchState([r EXCEPT !.dur.lasterr = "TOO_MANY"], "OBSPOLL"))
      BY ZenonT(60), <2>2 DEF Poll, Todo
    <3>2. QED
      BY ZenonT(60), <2>2, <3>1
  <2>3. QED
    BY ZenonT(60), <2>1, <2>2
<1>2. /\ OnlyDur(a, s) /\ SameDur(a, s) /\ a.dur.refcnt = s.dur.refcnt + 1
      /\ a.dur.ph = s.dur.ph /\ a.dur.timer = s.dur.timer /\ a.dur.next = s.dur.next
  BY ZenonT(60), IncrefIs
<1> HIDE DEF a
<1>3. a \in State /\ a.item = s.item /\ a.net = s.net /\ a.dur.waiting = 0
  BY ZenonT(60), <1>2 DEF OnlyDur, SameDur
<1>4. Todo(s) \subseteq Items /\ \A i \in Todo(s) : s.item[i].entry
  BY ZenonT(60) DEF Todo, Entries
<1>5. \A i \in Todo(s) : /\ plan[i] = Prepare(s, i) /\ plan[i].entry \in Entry /\ plan[i].ask \in SUBSET Nodes
                      /\ plan[i].entry.entry = s.item[i].entry /\ plan[i].entry.done = s.item[i].done
  BY ZenonT(60), <1>4, PrepareIs
<1> HIDE DEF plan
<1>6. IsFiniteSet(sent) /\ Cardinality(sent) \in Nat /\ (Cardinality(sent) = 0 <=> sent = {})
  <2>1. sent \in SUBSET (Items \X Nodes)
    BY ZenonT(60), <1>4
  <2>2. IsFiniteSet(sent)
    BY ZenonT(60), <2>1, FiniteSets, FS_Subset
  <2>3. QED
    BY ZenonT(60), <2>2, Counting
<1>7. w \in Int /\ w = Cardinality(sent) /\ (w > 0 <=> sent # {})
  BY SMTT(60), <1>3, <1>6
<1>8. /\ it \in [Items -> Entry]
      /\ \A i \in Items : /\ it[i] = IF i \in Todo(s) THEN plan[i].entry ELSE s.item[i]
                          /\ it[i].entry = s.item[i].entry /\ it[i].done = s.item[i].done
  <2>1. \A i \in Items : s.item[i] \in Entry
    BY ZenonT(60) DEF State
  <2>2. QED
    BY ZenonT(60), <1>3, <1>5, <2>1
<1>9. Requests(s) = {} /\ \A i \in Items, n \in Nodes : s.net[i][n] = NoNode
  <2>1. Cardinality(Requests(s)) \in Nat /\ (Cardinality(Requests(s)) = 0 <=> Requests(s) = {})
    BY ZenonT(60), Counting, FiniteSets
  <2>2. Requests(s) = {}
    BY SMTT(60), <2>1 DEF Balanced
  <2>3. ASSUME NEW i \in Items, NEW n \in Nodes, s.net[i][n] # NoNode PROVE FALSE
    <3>1. <<i, n>> \in Requests(s)
      BY SMTT(60), <2>3 DEF Requests
    <3>2. QED
      BY ZenonT(60), <2>2, <3>1
  <2>4. QED
    BY ZenonT(60), <2>2, <2>3
<1>10. nt \in [Items -> [Nodes -> Places]] /\ \A i \in Items, n \in Nodes : nt[i][n] = IF <<i, n>> \in sent THEN n ELSE NoNode
  BY ZenonT(60), <1>3, <1>9 DEF Places
<1> HIDE DEF it, nt, w
<1>11. /\ r \in State /\ r.item = it /\ r.net = nt /\ r.dur.waiting = w
       /\ r.env = a.env /\ r.cfg = a.cfg /\ r.addr = a.addr /\ r.has = a.has /\ r.past = a.past
       /\ \A f \in {"ph", "persist_to", "replicate_to", "nremaining", "refcnt", "left", "fault"} : r.dur[f] = a.dur[f]
  BY ZenonT(60), <1>3, <1>7, <1>8, <1>10 DEF State, Durs
<1> HIDE DEF r
<1>12. Requests(r) = sent
  <2>1. \A q \in Items \X Nodes : r.net[q[1]][q[2]] # NoNode <=> q \in sent
    <3> SUFFICES ASSUME NEW i \in Items, NEW n \in Nodes PROVE nt[i][n] # NoNode <=> <<i, n>> \in sent
      BY SMTT(60), <1>11
    <3>1. n # NoNode
      BY ZenonT(60), DurabilityAssumption
    <3>2. QED
      BY ZenonT(60), <1>10, <3>1
  <2>2. QED
    BY ZenonT(60), <1>4, <2>1 DEF Requests
<1>13. Todo(r) = Todo(s)
  BY ZenonT(60), <1>8, <1>11 DEF Todo, Entries
<1>14. \A q \in sent : r.item[q[1]].entry
  BY ZenonT(60), <1>4, <1>8, <1>11
<1>15. /\ r.dur.ph = "polling" /\ r.dur.fault = "none" /\ r.dur.waiting = Cardinality(Requests(r)) + 0
       /\ r.dur.nremaining = Cardinality(Todo(r)) /\ r.dur.refcnt = 2 /\ r.dur.left = s.dur.left
  <2>1. s.dur.refcnt = 1
    BY SMTT(60) DEF Balanced, One
  <2>2. /\ r.dur.ph = s.dur.ph /\ r.dur.fault = s.dur.fault /\ r.dur.nremaining = s.dur.nremaining
        /\ r.dur.refcnt = s.dur.refcnt + 1 /\ r.dur.left = s.dur.left
    BY ZenonT(60), <1>2, <1>11 DEF SameDur
  <2>3. r.dur.waiting = Cardinality(Requests(r)) + 0 /\ r.dur.refcnt = 2
    BY SMTT(60), <1>6, <1>7, <1>11, <1>12, <2>1, <2>2
  <2>4. QED
    BY ZenonT(60), <1>13, <2>2, <2>3 DEF Balanced
<1>16. OnlyDur(u, r) /\ u.dur.left = r.dur.left /\ u.dur.waiting = r.dur.waiting /\ Balanced(u, 0, 1)
  <2>1. CASE sent # {}
    <3>1. /\ u = Incref(r) /\ OnlyDur(u, r) /\ SameDur(u, r) /\ u.dur.refcnt = r.dur.refcnt + 1
          /\ u.dur.ph = r.dur.ph
      BY ZenonT(60), <1>11, <2>1, IncrefIs
    <3> HIDE DEF u
    <3>2. Requests(u) = Requests(r) /\ Todo(u) = Todo(r) /\ u.item = r.item
      BY ZenonT(60), <3>1, OnlyDurSets DEF OnlyDur
    <3>3. u.dur.refcnt = One(Todo(u) # {}) + One(u.dur.waiting > 0) + 1
      <4>1. u.dur.waiting > 0
        BY ZenonT(60), <1>7, <1>11, <2>1, <3>1 DEF SameDur
      <4>2. One(Todo(u) # {}) = 1 /\ One(u.dur.waiting > 0) = 1
        BY ZenonT(60), <1>13, <3>2, <4>1 DEF One
      <4>3. QED
        BY SMTT(60), <1>15, <3>1, <4>2
    <3>4. QED
      BY ZenonT(60), <1>12, <1>14, <1>15, <3>1, <3>2, <3>3 DEF Balanced, SameDur
  <2>2. CASE sent = {}
    <3>1. /\ OnlyDur(u, r) /\ u.dur.left = r.dur.left
          /\ \A f \in {"ph", "waiting", "nremaining", "refcnt", "left", "fault"} : u.dur[f] = r.dur[f]
      <4>1. "TOO_MANY" \in Codes
        BY DEF Codes
      <4>2. QED
        BY ZenonT(60), <1>11, <2>2, <4>1 DEF OnlyDur, State, Durs
    <3> HIDE DEF u
    <3>2. Requests(u) = Requests(r) /\ Todo(u) = Todo(r) /\ u.item = r.item
      BY ZenonT(60), <3>1, OnlyDurSets DEF OnlyDur
    <3>3. u.dur.refcnt = One(Todo(u) # {}) + One(u.dur.waiting > 0) + 1
      <4>1. ~(u.dur.waiting > 0)
        BY ZenonT(60), <1>7, <1>11, <2>2, <3>1
      <4>2. One(Todo(u) # {}) = 1 /\ One(u.dur.waiting > 0) = 0
        BY ZenonT(60), <1>13, <3>2, <4>1 DEF One
      <4>3. QED
        BY SMTT(60), <1>15, <3>1, <4>2
    <3>4. QED
      BY ZenonT(60), <1>12, <1>14, <1>15, <3>1, <3>2, <3>3 DEF Balanced
  <2>3. QED
    BY <2>1, <2>2
<1> HIDE DEF u
<1>17. u \in State /\ Todo(u) # {} /\ state \in {"OBSPOLL", "TIMEOUT"} /\ (u.dur.waiting > 0 => state = "TIMEOUT")
  <2>1. Todo(u) = Todo(r) /\ u \in State
    BY ZenonT(60), <1>16, OnlyDurSets DEF OnlyDur
  <2>2. QED
    BY ZenonT(60), <1>7, <1>11, <1>13, <1>16, <2>1
<1> HIDE DEF state
<1> DEFINE v == Decref(SwitchState(u, state))
<1>18. OnlyDur(v, u) /\ Rest(v) /\ v.dur.left = u.dur.left /\ v.dur.ph # "destroyed"
  BY ZenonT(60), <1>16, <1>17, SwitchRest
<1> HIDE DEF v
<1>19. OnlyDur(v, r)
  BY ZenonT(60), <1>16, <1>18, OnlyDurTransitive
<1>20. /\ v \in State /\ v.env = s.env /\ v.cfg = s.cfg /\ v.addr = s.addr /\ v.has = s.has /\ v.past = s.past
       /\ v.dur.persist_to = s.dur.persist_to /\ v.dur.replicate_to = s.dur.replicate_to
       /\ v.item = it /\ v.net = nt /\ v.dur.left = s.dur.left
  BY ZenonT(60), <1>2, <1>11, <1>15, <1>16, <1>18, <1>19 DEF OnlyDur
<1>21. \A i \in Items, n \in Nodes : v.net[i][n] = IF i \in Todo(s) /\ n \in Prepare(s, i).ask THEN n ELSE NoNode
  <2> SUFFICES ASSUME NEW i \in Items, NEW n \in Nodes
               PROVE  <<i, n>> \in sent <=> i \in Todo(s) /\ n \in Prepare(s, i).ask
    <3> HIDE DEF sent
    <3>1. QED
      BY ZenonT(60), <1>10, <1>20
  <2>1. CASE i \in Todo(s)
    <3>1. plan[i] = Prepare(s, i)
      BY ZenonT(60), <1>5, <2>1
    <3>2. QED
      BY SMTT(60), <2>1, <3>1
  <2>2. CASE i \notin Todo(s)
    BY SMTT(60), <2>2
  <2>3. QED
    BY <2>1, <2>2
<1>22. \A i \in Items : v.item[i] = IF i \in Todo(s) THEN Prepare(s, i).entry ELSE s.item[i]
  BY ZenonT(60), <1>5, <1>8, <1>20
<1>23. Poll(s) = v
  BY ZenonT(60), <1>1 DEF v
<1> HIDE DEF sent
<1>24. QED
  BY ZenonT(60), <1>18, <1>20, <1>21, <1>22, <1>23

(* The deadline: every entry that was not called back is, with an error,   *)
(* and the Durset is deleted unless it awaits requests.                    *)
LEMMA TimeOutRest ==
  ASSUME NEW s \in State, Balanced(s, 0, 0), s.dur.timer < 0
  PROVE  LET r == TimeOut(s)
         IN  /\ OnlyItems(r, s) /\ Rest(r) /\ r.dur.ph # "destroyed"
             /\ \A i \in Items : \/ r.item[i] = s.item[i]
                                 \/ /\ ~s.item[i].done
                                    /\ \E c \in Codes \ {"SUCCESS"} : r.item[i] = Called(s.item[i], c)
<1> DEFINE err == IF s.dur.lasterr # "SUCCESS" THEN s.dur.lasterr ELSE "TIMEOUT"
           Code(x) == IF x.rc = "SUCCESS" THEN err ELSE x.rc
           rc == [i \in Entries(s) |-> Code(s.item[i])]
           p == [s EXCEPT !.dur.left = NoTimeout, !.dur.next = "IGNORE"]
           a == Incref(p)
           u == Finish(a, rc)
           r == Decref(u)
<1>1. TimeOut(s) = r
  BY ZenonT(60) DEF TimeOut
<1>2. \A i \in Entries(s) : rc[i] \in Codes \ {"SUCCESS"}
  <2> SUFFICES ASSUME NEW i \in Entries(s) PROVE Code(s.item[i]) \in Codes \ {"SUCCESS"}
    BY ZenonT(60)
  <2>1. s.dur.lasterr \in Codes /\ s.item[i].rc \in Codes
    BY ZenonT(60) DEF State, Durs, Entry, Entries
  <2>2. "TIMEOUT" \in Codes \ {"SUCCESS"}
    BY DEF Codes
  <2>3. QED
    BY ZenonT(60), <2>1, <2>2
<1>3. rc \in [Entries(s) -> Codes]
  BY ZenonT(60), <1>2
<1> HIDE DEF rc
<1>4. /\ OnlyDur(p, s) /\ p.dur.next = "IGNORE"
      /\ \A f \in {"ph", "waiting", "nremaining", "refcnt", "timer", "fault"} : p.dur[f] = s.dur[f]
  <2>1. NoTimeout \in Int /\ "IGNORE" \in States
    BY DEF NoTimeout, States
  <2>2. QED
    BY ZenonT(60), <2>1 DEF OnlyDur, State, Durs
<1> HIDE DEF p
<1>5. /\ OnlyDur(a, p) /\ SameDur(a, p) /\ a.dur.refcnt = p.dur.refcnt + 1
      /\ a.dur.ph = p.dur.ph /\ a.dur.timer = p.dur.timer /\ a.dur.next = p.dur.next
  <2>1. p \in State
    BY ZenonT(60), <1>4 DEF OnlyDur
  <2>2. QED
    BY ZenonT(60), <2>1, IncrefIs
<1> HIDE DEF a
<1>6. OnlyDur(a, s)
  BY ZenonT(60), <1>4, <1>5, OnlyDurTransitive
<1>7. a \in State /\ a.item = s.item /\ Requests(a) = Requests(s) /\ Todo(a) = Todo(s) /\ Entries(a) = Entries(s)
  <2>1. Requests(a) = Requests(s) /\ Todo(a) = Todo(s) /\ Entries(a) = Entries(s)
    BY ZenonT(60), <1>6, OnlyDurSets
  <2>2. QED
    BY ZenonT(60), <1>6, <2>1 DEF OnlyDur
<1>8. a.dur.ph = s.dur.ph /\ a.dur.waiting = s.dur.waiting /\ a.dur.nremaining = s.dur.nremaining
      /\ a.dur.refcnt = s.dur.refcnt + 1 /\ a.dur.fault = s.dur.fault /\ a.dur.timer = s.dur.timer
      /\ a.dur.next = "IGNORE"
  BY ZenonT(60), <1>4, <1>5 DEF SameDur
<1>9. Balanced(a, 0, 1)
  <2>1. a.dur.refcnt = One(Todo(a) # {}) + One(a.dur.waiting > 0) + 1
    <3>1. s.dur.refcnt = One(Todo(s) # {}) + One(s.dur.waiting > 0) + 0
      BY ZenonT(60) DEF Balanced
    <3>2. One(Todo(s) # {}) \in Nat /\ One(s.dur.waiting > 0) \in Nat
      BY ZenonT(60) DEF One
    <3>3. QED
      BY SMTT(60), <1>7, <1>8, <3>1, <3>2
  <2>2. QED
    BY ZenonT(60), <1>7, <1>8, <2>1 DEF Balanced
<1>9b. Balanced(u, 0, 1) /\ Finished(u, a, Entries(s), rc)
  <2>1. 0 \in Nat /\ 1 \in Nat /\ 1 > 0
    OBVIOUS
  <2>2. Entries(s) \in SUBSET Entries(a)
    BY ZenonT(60), <1>7
  <2>3. QED
    BY ZenonT(60), <1>3, <1>7, <1>9, <2>1, <2>2, FinishIs
<1> HIDE DEF u
<1>10. /\ OnlyItems(u, a) /\ Balanced(u, 0, 1) /\ Todo(u) = Todo(a) \ Entries(s)
       /\ \A i \in Items : u.item[i] = IF i \in Entries(s) \cap Todo(a) THEN Called(a.item[i], rc[i]) ELSE a.item[i]
       /\ u.dur.waiting = a.dur.waiting /\ u.dur.next = a.dur.next /\ u.dur.timer = a.dur.timer
  BY ZenonT(60), <1>9b DEF Finished
<1>11. u \in State /\ Todo(u) = {}
  BY ZenonT(60), <1>7, <1>10 DEF OnlyItems, Todo
<1>12. /\ OnlyDur(r, u) /\ SameDur(r, u) /\ r.dur.refcnt = u.dur.refcnt - 1 /\ r.dur.next = u.dur.next
       /\ u.dur.refcnt # 1 => r.dur.ph = u.dur.ph /\ r.dur.timer = u.dur.timer
       /\ u.dur.refcnt = 1 => r.dur.ph = "deleted" /\ r.dur.timer = NotArmed
  BY ZenonT(60), <1>11, DecrefIs
<1> HIDE DEF r
<1>13. Requests(r) = Requests(u) /\ Todo(r) = Todo(u) /\ r.item = u.item
  BY ZenonT(60), <1>12, OnlyDurSets DEF OnlyDur
<1>14. OnlyItems(r, s)
  BY ZenonT(60), <1>6, <1>10, <1>12 DEF OnlyItems, OnlyDur
<1>15. \A i \in Items : \/ r.item[i] = s.item[i]
                        \/ /\ ~s.item[i].done
                           /\ \E c \in Codes \ {"SUCCESS"} : r.item[i] = Called(s.item[i], c)
  <2> SUFFICES ASSUME NEW i \in Items, i \in Entries(s) \cap Todo(a)
               PROVE  /\ ~s.item[i].done
                      /\ \E c \in Codes \ {"SUCCESS"} : r.item[i] = Called(s.item[i], c)
    BY ZenonT(60), <1>7, <1>10, <1>13
  <2>1. r.item[i] = Called(s.item[i], rc[i]) /\ ~s.item[i].done
    BY ZenonT(60), <1>7, <1>10, <1>13 DEF Todo
  <2>2. QED
    BY ZenonT(60), <1>2, <2>1
<1>16. Cardinality(Requests(u)) \in Nat /\ (Cardinality(Requests(u)) = 0 <=> Requests(u) = {})
  BY ZenonT(60), Counting, FiniteSets
<1>17. CASE u.dur.waiting > 0
  <2>1. u.dur.refcnt = 2
    BY SMTT(60), <1>10, <1>11, <1>17 DEF Balanced, One
  <2>2. r.dur.ph = u.dur.ph /\ r.dur.timer = u.dur.timer /\ r.dur.refcnt = 1
    BY SMTT(60), <1>12, <2>1
  <2>3. r.dur.waiting = u.dur.waiting /\ r.dur.nremaining = u.dur.nremaining /\ r.dur.fault = u.dur.fault
    BY ZenonT(60), <1>12 DEF SameDur
  <2>4. Balanced(r, 0, 0)
    <3>1. One(Todo(r) # {}) = 0 /\ One(r.dur.waiting > 0) = 1
      BY ZenonT(60), <1>11, <1>13, <1>17, <2>3 DEF One
    <3>2. r.dur.refcnt = One(Todo(r) # {}) + One(r.dur.waiting > 0) + 0
      BY SMTT(60), <2>2, <3>1
    <3>3. QED
      BY ZenonT(60), <1>10, <1>13, <2>2, <2>3, <3>2 DEF Balanced
  <2>5. r.dur.timer < 0 /\ r.dur.next = "IGNORE"
    BY ZenonT(60), <1>8, <1>10, <1>12, <2>2
  <2>6. Timing(r) /\ r.dur.waiting > 0
    BY SMTT(60), <1>17, <2>3, <2>5 DEF Timing
  <2>7. r.dur.waiting # 0
    BY SMTT(60), <2>6
  <2>8. Rest(r) /\ r.dur.ph # "destroyed"
    BY ZenonT(60), <2>4, <2>6, <2>7 DEF Rest, Balanced
  <2>9. QED
    BY ZenonT(60), <1>1, <1>14, <1>15, <2>8
<1>18. CASE ~(u.dur.waiting > 0)
  <2>1. u.dur.refcnt = 1 /\ Requests(u) = {} /\ u.dur.fault = "none"
    <3>1. One(Todo(u) # {}) = 0 /\ One(u.dur.waiting > 0) = 0
      BY ZenonT(60), <1>11, <1>18 DEF One
    <3>2. u.dur.waiting = Cardinality(Requests(u)) + 0 /\ u.dur.fault = "none"
          /\ u.dur.refcnt = One(Todo(u) # {}) + One(u.dur.waiting > 0) + 1
      BY ZenonT(60), <1>10 DEF Balanced
    <3>3. QED
      BY SMTT(60), <1>16, <1>18, <3>1, <3>2
  <2>2. r.dur.ph = "deleted" /\ r.dur.timer = NotArmed /\ r.dur.fault = "none" /\ Requests(r) = {}
    BY ZenonT(60), <1>12, <1>13, <2>1 DEF SameDur
  <2>3. Rest(r) /\ r.dur.ph # "destroyed"
    BY SMTT(60), <2>2 DEF Rest, NotArmed
  <2>4. QED
    BY ZenonT(60), <1>1, <1>14, <1>15, <2>3
<1>19. QED
  BY <1>17, <1>18

-----------------------------------------------------------------------------
(* What Item::update writes down of an answer of n, for x: y.              *)
Informed(y, x, server, n, slot, persisted) ==
    /\ x \in Entry /\ y \in Entry
    /\ y.entry = x.entry /\ y.token = x.token /\ y.done = x.done
    /\ y.calls = x.calls /\ y.rc = x.rc
    /\ y.sinfo[slot] = [server |-> server, persisted |-> persisted, exists |-> TRUE]
    /\ \A ii \in Slots \ {slot} : y.sinfo[ii] = x.sinfo[ii]
    /\ y.npersisted = x.npersisted + One(persisted)
    /\ y.nreplicated = x.nreplicated + One(slot # 1)
    /\ y.persisted_master = (x.persisted_master \/ (persisted /\ slot = 1))
    /\ y.exists_master = (x.exists_master \/ slot = 1)
    /\ y.masters = IF slot = 1 THEN x.masters \cup {n} ELSE x.masters

(* It is that.                                                             *)
LEMMA LearnedIs ==
  ASSUME NEW s \in State, NEW i \in Items, NEW n \in Nodes, NEW persisted \in BOOLEAN,
         NEW slot \in Slots, s.cfg.vb[i][slot] = n
  PROVE  Informed(Learned(s, i, n, persisted), s.item[i], s.addr[n], n, slot, persisted)
<1> DEFINE x == s.item[i]
           info == [server |-> s.addr[n], persisted |-> persisted, exists |-> TRUE]
           isMaster == s.cfg.vb[i][1] = n
           np == x.npersisted + (IF persisted THEN 1 ELSE 0)
           nr == x.nreplicated + (IF isMaster THEN 0 ELSE 1)
           ms == IF isMaster THEN x.masters \cup {n} ELSE x.masters
<1>1. x \in Entry /\ s.cfg \in Maps /\ s.addr[n] \in Addrs \cup {NoAddr}
  BY ZenonT(60) DEF State
<1>2. n # NoNode /\ 1 \in Slots
  BY ZenonT(60), SlotsAre, DurabilityAssumption
<1>3. \A ii \in Slots : s.cfg.vb[i][ii] = n => ii = slot
  BY ZenonT(60), <1>1, <1>2, SlotsAre
<1>4. slot = CHOOSE ii \in Slots : s.cfg.vb[i][ii] = n
  BY ZenonT(60), <1>3
<1>5. isMaster <=> slot = 1
  BY ZenonT(60), <1>2, <1>3
<1>6. np \in Nat /\ nr \in Nat /\ np = x.npersisted + One(persisted) /\ nr = x.nreplicated + One(slot # 1)
  <2>1. x.npersisted \in Nat /\ x.nreplicated \in Nat
    BY ZenonT(60), <1>1 DEF Entry
  <2>2. QED
    BY SMTT(60), <1>5, <2>1 DEF One
<1>7. info \in Info /\ ms \in SUBSET Nodes
  BY ZenonT(60), <1>1 DEF Info, Entry
<1> HIDE DEF info, np, nr, ms
<1> DEFINE y == [x EXCEPT !.sinfo[slot] = info, !.npersisted = np,
                          !.persisted_master = @ \/ (persisted /\ isMaster),
                          !.exists_master = @ \/ isMaster, !.nreplicated = nr, !.masters = ms]
<1>8. Learned(s, i, n, persisted) = y
  BY ZenonT(60), <1>4 DEF Learned, info, np, nr, ms
<1> HIDE DEF x, isMaster
<1>9. /\ y \in Entry
      /\ y.entry = x.entry /\ y.token = x.token /\ y.done = x.done
      /\ y.calls = x.calls /\ y.rc = x.rc
      /\ y.sinfo = [x.sinfo EXCEPT ![slot] = info]
      /\ y.npersisted = np /\ y.nreplicated = nr /\ y.masters = ms
      /\ y.persisted_master = (x.persisted_master \/ (persisted /\ isMaster))
      /\ y.exists_master = (x.exists_master \/ isMaster)
  BY ZenonT(60), <1>1, <1>6, <1>7 DEF Entry, isMaster
<1> HIDE DEF y
<1>10. y.sinfo[slot] = info /\ \A ii \in Slots \ {slot} : y.sinfo[ii] = x.sinfo[ii]
  BY ZenonT(60), <1>1, <1>9 DEF Entry
<1>11. QED
  BY ZenonT(60), <1>1, <1>5, <1>6, <1>8, <1>9, <1>10 DEF x, info, ms, Informed

(* What an answer of n does to the entry of item i: nothing, or the item   *)
(* is lost, or what n has is written down, which may complete it.          *)
Digested(z, s, i, n, report) ==
    LET x == s.item[i]
    IN  \/ z = x
        \/ ~x.done /\ z = Called(x, "MUTATION_LOST")
        \/ \E p \in BOOLEAN, slot \in Slots :
              /\ ~x.done /\ s.cfg.vb[i][slot] = n
              /\ x.token => report \in {"mem", "disk", "old"} /\ (p => report # "mem")
              /\ \/ z = Learned(s, i, n, p)
                 \/ /\ IsAllDone(s.dur, Learned(s, i, n, p))
                    /\ z = Called(Learned(s, i, n, p), "SUCCESS")

(* The counters while an answer is digested.                               *)
Settled(r, s, i) ==
    /\ OnlyItems(r, s) /\ Balanced(r, 1, 0) /\ Timing(r) /\ r.dur.left = s.dur.left
    /\ \A j \in Items \ {i} : r.item[j] = s.item[j]

(* Item::update.                                                           *)
LEMMA UpdateIs ==
  ASSUME NEW s \in State, Balanced(s, 1, 0), Timing(s), NEW i \in Items, s.item[i].entry,
         NEW n \in Nodes, NEW persisted \in BOOLEAN, NEW report,
         s.item[i].token => report \in {"mem", "disk", "old"} /\ (persisted => report # "mem")
  PROVE  LET r == Update(s, i, n, persisted)
         IN  Settled(r, s, i) /\ Digested(r.item[i], s, i, n, report)
<1> DEFINE y == Learned(s, i, n, persisted)
           t == [s EXCEPT !.item[i] = y]
<1>1. CASE s.item[i].done \/ n \notin {s.cfg.vb[i][ii] : ii \in Slots}
  <2>1. Update(s, i, n, persisted) = s
    BY ZenonT(60), <1>1 DEF Update
  <2>2. QED
    BY ZenonT(60), <2>1 DEF Settled, OnlyItems, Digested
<1>2. CASE ~s.item[i].done /\ n \in {s.cfg.vb[i][ii] : ii \in Slots}
  <2>1. Update(s, i, n, persisted) = IF IsAllDone(s.dur, y) THEN Finish(t, [j \in {i} |-> "SUCCESS"]) ELSE t
    BY ZenonT(60), <1>2 DEF Update
  <2>2. PICK slot \in Slots : s.cfg.vb[i][slot] = n
    BY ZenonT(60), <1>2
  <2>3. y \in Entry /\ y.entry = s.item[i].entry /\ y.done = s.item[i].done
    <3>1. Informed(y, s.item[i], s.addr[n], n, slot, persisted)
      BY ZenonT(60), <2>2, LearnedIs
    <3> HIDE DEF y
    <3>2. QED
      BY ZenonT(60), <3>1 DEF Informed
  <2> HIDE DEF y
  <2>4. /\ OnlyItems(t, s) /\ t.dur = s.dur /\ t.item[i] = y
        /\ \A j \in Items \ {i} : t.item[j] = s.item[j]
    BY ZenonT(60), <2>3 DEF OnlyItems, State
  <2> HIDE DEF t
  <2>5. t \in State /\ Requests(t) = Requests(s) /\ Todo(t) = Todo(s) /\ Entries(t) = Entries(s)
    <3>1. \A j \in Items : t.item[j].entry = s.item[j].entry /\ t.item[j].done = s.item[j].done
      BY ZenonT(60), <2>3, <2>4
    <3>2. QED
      BY ZenonT(60), <2>4, <3>1 DEF Requests, Todo, Entries, OnlyItems
  <2>6. Balanced(t, 1, 0) /\ Timing(t)
    <3>1. \A q \in Requests(t) : t.item[q[1]].entry
      <4> SUFFICES ASSUME NEW q \in Requests(t) PROVE t.item[q[1]].entry
        OBVIOUS
      <4>1. q \in Requests(s) /\ q[1] \in Items
        BY ZenonT(60), <2>5 DEF Requests
      <4>2. QED
        BY ZenonT(60), <2>3, <2>4, <4>1 DEF Balanced
    <3>2. QED
      BY ZenonT(60), <2>4, <2>5, <3>1 DEF Balanced, Timing
  <2>7. CASE ~IsAllDone(s.dur, y)
    <3>1. Update(s, i, n, persisted) = t
      BY ZenonT(60), <2>1, <2>7
    <3>2. Digested(y, s, i, n, report)
      BY ZenonT(60), <1>2, <2>2 DEF Digested, y
    <3>3. QED
      BY ZenonT(60), <2>4, <2>6, <3>1, <3>2 DEF Settled
  <2>8. CASE IsAllDone(s.dur, y)
    <3> DEFINE rc == [j \in {i} |-> "SUCCESS"]
               r == Finish(t, rc)
    <3>1. Update(s, i, n, persisted) = r
      BY ZenonT(60), <2>1, <2>8
    <3>2. {i} \in SUBSET Entries(t) /\ rc \in [{i} -> Codes] /\ rc[i] = "SUCCESS"
      <4>1. "SUCCESS" \in Codes
        BY DEF Codes
      <4>2. QED
        BY ZenonT(60), <2>5, <4>1 DEF Entries
    <3>3. t.dur.waiting > 0
      <4>1. Cardinality(Requests(t)) \in Nat
        BY ZenonT(60), Counting, FiniteSets
      <4>2. t.dur.waiting = Cardinality(Requests(t)) + 1
        BY ZenonT(60), <2>6 DEF Balanced
      <4>3. QED
        BY SMTT(60), <4>1, <4>2
    <3> HIDE DEF rc
    <3>4. /\ OnlyItems(r, t) /\ Balanced(r, 1, 0)
          /\ \A j \in Items : r.item[j] = IF j \in {i} \cap Todo(t) THEN Called(t.item[j], rc[j]) ELSE t.item[j]
          /\ r.dur.waiting = t.dur.waiting /\ r.dur.next = t.dur.next
          /\ r.dur.left = t.dur.left /\ r.dur.timer = t.dur.timer
      <4>1. 0 \in Nat /\ 1 \in Nat
        OBVIOUS
      <4>2. Balanced(r, 1, 0) /\ Finished(r, t, {i}, rc)
        BY ZenonT(60), <2>5, <2>6, <3>2, <3>3, <4>1, FinishIs
      <4>3. QED
        BY ZenonT(60), <4>2 DEF Finished
    <3> HIDE DEF r
    <3>5. Timing(r)
      BY ZenonT(60), <2>6, <3>4 DEF Timing
    <3>6. i \in Todo(t)
      BY ZenonT(60), <1>2, <2>3, <2>4 DEF Todo, Entries
    <3>7. r.item[i] = Called(y, "SUCCESS") /\ \A j \in Items \ {i} : r.item[j] = s.item[j]
      BY ZenonT(60), <2>4, <3>2, <3>4, <3>6
    <3>8. Digested(r.item[i], s, i, n, report)
      BY ZenonT(60), <1>2, <2>2, <2>8, <3>7 DEF Digested, y
    <3>9. QED
      BY ZenonT(60), <2>4, <3>1, <3>4, <3>5, <3>7, <3>8 DEF Settled, OnlyItems
  <2>9. QED
    BY <2>7, <2>8
<1>3. QED
  BY <1>1, <1>2

(* seqno_callback, up to the count of the answers.                         *)
LEMMA AnsweredIs ==
  ASSUME NEW s \in State, Balanced(s, 1, 0), Timing(s), NEW i \in Items, s.item[i].entry,
         NEW n \in Nodes, NEW report \in {"none", "mem", "disk", "lost", "old"}
  PROVE  LET r == Answered(s, i, n, report)
         IN  Settled(r, s, i) /\ Digested(r.item[i], s, i, n, report)
<1> DEFINE r == Answered(s, i, n, report)
<1>1. CASE ~s.item[i].token
  <2>1. r = Update(s, i, n, TRUE)
    BY ZenonT(60), <1>1 DEF Answered
  <2> HIDE DEF r
  <2>2. QED
    BY ZenonT(60), <1>1, <2>1, UpdateIs DEF r
<1>2. CASE s.item[i].token /\ report = "none"
  <2>1. r = s
    BY ZenonT(60), <1>2 DEF Answered
  <2> HIDE DEF r
  <2>2. QED
    BY ZenonT(60), <2>1 DEF Settled, OnlyItems, Digested, r
<1>3. CASE s.item[i].token /\ report = "mem"
  <2>1. r = Update(s, i, n, FALSE) /\ report \in {"mem", "disk", "old"}
    BY ZenonT(60), <1>3 DEF Answered
  <2> HIDE DEF r
  <2>2. QED
    BY ZenonT(60), <1>3, <2>1, UpdateIs DEF r
<1>4. CASE s.item[i].token /\ report \in {"disk", "old"}
  <2>1. r = Update(s, i, n, TRUE) /\ report \in {"mem", "disk", "old"} /\ report # "mem"
    <3>1. report # "lost" /\ report # "none" /\ report # "mem"
      BY <1>4
    <3>2. QED
      BY ZenonT(60), <1>4, <3>1 DEF Answered
  <2> HIDE DEF r
  <2>2. QED
    BY ZenonT(60), <1>4, <2>1, UpdateIs DEF r
<1>5. CASE s.item[i].token /\ report = "lost"
  <2> DEFINE rc == [j \in {i} |-> "MUTATION_LOST"]
  <2>1. r = Finish(s, rc)
    BY ZenonT(60), <1>5 DEF Answered
  <2>2. {i} \in SUBSET Entries(s) /\ rc \in [{i} -> Codes] /\ rc[i] = "MUTATION_LOST"
    <3>1. "MUTATION_LOST" \in Codes
      BY DEF Codes
    <3>2. QED
      BY ZenonT(60), <3>1 DEF Entries
  <2>3. s.dur.waiting > 0
    <3>1. Cardinality(Requests(s)) \in Nat
      BY ZenonT(60), Counting, FiniteSets
    <3>2. s.dur.waiting = Cardinality(Requests(s)) + 1
      BY ZenonT(60) DEF Balanced
    <3>3. QED
      BY SMTT(60), <3>1, <3>2
  <2> HIDE DEF rc, r
  <2>4. /\ OnlyItems(r, s) /\ Balanced(r, 1, 0)
        /\ \A j \in Items : r.item[j] = IF j \in {i} \cap Todo(s) THEN Called(s.item[j], rc[j]) ELSE s.item[j]
        /\ r.dur.waiting = s.dur.waiting /\ r.dur.next = s.dur.next
        /\ r.dur.left = s.dur.left /\ r.dur.timer = s.dur.timer
    <3>1. 0 \in Nat /\ 1 \in Nat
      OBVIOUS
    <3>2. Balanced(r, 1, 0) /\ Finished(r, s, {i}, rc)
      BY ZenonT(60), <2>1, <2>2, <2>3, <3>1, FinishIs
    <3>3. QED
      BY ZenonT(60), <3>2 DEF Finished
  <2>5. Timing(r)
    BY ZenonT(60), <2>4 DEF Timing
  <2>6. \A j \in Items \ {i} : r.item[j] = s.item[j]
    BY ZenonT(60), <2>4
  <2>7. Digested(r.item[i], s, i, n, report)
    BY ZenonT(60), <2>2, <2>4 DEF Digested, Todo
  <2>8. QED
    BY ZenonT(60), <2>4, <2>5, <2>6, <2>7 DEF Settled, r
<1>6. QED
  BY ZenonT(60), <1>1, <1>2, <1>3, <1>4, <1>5

(* The request of item i for n got to a place or ended.                    *)
Moved(r, s, i, n, place) ==
    /\ r \in State /\ Kept(r, s)
    /\ r.env = s.env /\ r.cfg = s.cfg /\ r.addr = s.addr /\ r.has = s.has
    /\ r.item = s.item /\ r.past = s.past
    /\ \A j \in Items, o \in Nodes : r.net[j][o] = IF j = i /\ o = n THEN place ELSE s.net[j][o]
    /\ s.net[i][n] # NoNode =>
          Requests(r) = Requests(s) \ (IF place = NoNode THEN {<<i, n>>} ELSE {})

(* Nothing else changes.                                                   *)
LEMMA PutIs ==
  ASSUME NEW s \in State, NEW i \in Items, NEW n \in Nodes, NEW place \in Places
  PROVE  Moved(Put(s, i, n, place), s, i, n, place)
<1> DEFINE r == Put(s, i, n, place)
<1>1. /\ r \in State /\ r.dur = s.dur
      /\ r.env = s.env /\ r.cfg = s.cfg /\ r.addr = s.addr /\ r.has = s.has
      /\ r.item = s.item /\ r.past = s.past
  BY ZenonT(60) DEF Put, State
<1>2. \A j \in Items, o \in Nodes : r.net[j][o] = IF j = i /\ o = n THEN place ELSE s.net[j][o]
  BY ZenonT(60) DEF Put, State
<1> HIDE DEF r
<1>3. ASSUME s.net[i][n] # NoNode
      PROVE  Requests(r) = Requests(s) \ (IF place = NoNode THEN {<<i, n>>} ELSE {})
  <2>1. ASSUME NEW j \in Items, NEW o \in Nodes
        PROVE  <<j, o>> \in Requests(r) <=> <<j, o>> \in Requests(s) \ (IF place = NoNode THEN {<<i, n>>} ELSE {})
    <3>1. (<<j, o>> \in Requests(r) <=> r.net[j][o] # NoNode) /\ (<<j, o>> \in Requests(s) <=> s.net[j][o] # NoNode)
      BY SMTT(60) DEF Requests
    <3>2. <<j, o>> = <<i, n>> <=> j = i /\ o = n
      OBVIOUS
    <3>3. QED
      BY ZenonT(60), <1>2, <1>3, <3>1, <3>2
  <2>2. Requests(r) \subseteq Items \X Nodes /\ Requests(s) \subseteq Items \X Nodes
    BY ZenonT(60) DEF Requests
  <2>3. QED
    BY SMTT(60), <2>1, <2>2
<1>4. QED
  BY ZenonT(60), <1>1, <1>2, <1>3 DEF r, Kept, Moved

(* A request that ended is still counted.                                  *)
LEMMA EndOfRequest ==
  ASSUME NEW s \in State, Rest(s), NEW i \in Items, NEW n \in Nodes, s.net[i][n] # NoNode
  PROVE  LET r == Put(s, i, n, NoNode)
         IN  r \in State /\ Balanced(r, 1, 0) /\ Timing(r) /\ r.item[i].entry /\ s.dur.ph = "polling"
<1> DEFINE r == Put(s, i, n, NoNode)
<1>1. <<i, n>> \in Requests(s)
  BY SMTT(60) DEF Requests
<1>2. s.dur.ph = "polling" /\ Balanced(s, 0, 0) /\ Timing(s)
  BY ZenonT(60), <1>1 DEF Rest
<1>3. r \in State /\ Kept(r, s) /\ r.item = s.item /\ Requests(r) = Requests(s) \ {<<i, n>>}
  <2>1. NoNode \in Places
    BY ZenonT(60) DEF Places
  <2>2. Moved(r, s, i, n, NoNode)
    BY ZenonT(60), <2>1, PutIs
  <2> HIDE DEF r
  <2>3. QED
    BY ZenonT(60), <2>2 DEF Moved
<1> HIDE DEF r
<1>4. {<<i, n>>} \in SUBSET Requests(s) /\ Cardinality({<<i, n>>}) = 1
  BY ZenonT(60), <1>1, FS_Singleton
<1>5. Balanced(r, Cardinality({<<i, n>>}), 0) /\ Timing(r)
  BY ZenonT(60), <1>2, <1>3, <1>4, FewerRequests
<1>6. s.item[i].entry
  <2>1. <<i, n>>[1] = i
    OBVIOUS
  <2>2. QED
    BY ZenonT(60), <1>1, <1>2, <2>1 DEF Balanced
<1>7. QED
  BY ZenonT(60), <1>2, <1>3, <1>4, <1>5, <1>6 DEF r

(* The state r after an answer of the node at, with the request gone in p. *)
Replied(r, p, s, i, at, report) ==
    /\ OnlyItems(r, p) /\ Rest(r) /\ r.dur.ph # "destroyed" /\ s.dur.ph = "polling"
    /\ \A j \in Items \ {i} : r.item[j] = s.item[j]
    /\ Digested(r.item[i], s, i, at, report)

(* seqno_callback for an answer: the counters are exact, and one entry was *)
(* given what the answer says.                                             *)
LEMMA SeqnoIs ==
  ASSUME NEW s \in State, Rest(s), NEW i \in Items, NEW n \in Nodes, s.net[i][n] # NoNode,
         NEW at \in Nodes, NEW report \in {"none", "mem", "disk", "lost", "old"}
  PROVE  LET p == Put(s, i, n, NoNode)
             r == SeqnoCallback(p, i, at, report)
         IN  Replied(r, p, s, i, at, report)
<1> DEFINE p == Put(s, i, n, NoNode)
           u == Answered(p, i, at, report)
           r == Tally(u, 1)
<1>1. p \in State /\ Balanced(p, 1, 0) /\ Timing(p) /\ p.item[i].entry /\ s.dur.ph = "polling"
  BY ZenonT(60), EndOfRequest
<1>2. Kept(p, s) /\ p.item = s.item /\ p.cfg = s.cfg /\ p.addr = s.addr
  <2>1. NoNode \in Places
    BY ZenonT(60) DEF Places
  <2>2. Moved(p, s, i, n, NoNode)
    BY ZenonT(60), <2>1, PutIs
  <2> HIDE DEF p
  <2>3. QED
    BY ZenonT(60), <2>2 DEF Moved
<1> HIDE DEF p
<1>3. SeqnoCallback(p, i, at, report) = r
  BY ZenonT(60), <1>1 DEF SeqnoCallback, Balanced
<1>4. Settled(u, p, i) /\ Digested(u.item[i], p, i, at, report)
  BY ZenonT(60), <1>1, AnsweredIs
<1> HIDE DEF u
<1>5. OnlyDur(r, u) /\ Rest(r) /\ r.dur.ph # "destroyed"
  <2>1. u \in State /\ Balanced(u, 1, 0) /\ Timing(u)
    BY ZenonT(60), <1>4 DEF Settled, OnlyItems
  <2>2. 1 \in Nat \ {0}
    OBVIOUS
  <2>3. QED
    BY ZenonT(60), <2>1, <2>2, TallyRest
<1> HIDE DEF r
<1>6. OnlyItems(r, p) /\ r.item = u.item
  BY ZenonT(60), <1>4, <1>5 DEF OnlyDur, OnlyItems, Settled
<1>7. p.dur = s.dur
  BY ZenonT(60), <1>2 DEF Kept
<1>8. Digested(u.item[i], s, i, at, report)
  <2>1. \A b \in BOOLEAN : Learned(p, i, at, b) = Learned(s, i, at, b)
    BY SMTT(60), <1>2 DEF Learned
  <2>2. QED
    BY ZenonT(60), <1>2, <1>4, <1>7, <2>1 DEF Digested
<1>9. QED
  BY ZenonT(60), <1>1, <1>2, <1>3, <1>4, <1>5, <1>6, <1>8 DEF Settled, Replied, p

(* A request failed, and no entry but its own is told.                     *)
LEMMA FailedIs ==
  ASSUME NEW s \in State, Rest(s), NEW i \in Items, NEW n \in Nodes, s.net[i][n] # NoNode
  PROVE  LET p == Put(s, i, n, NoNode)
             r == FailedCallback(p, i)
         IN  /\ OnlyItems(r, p) /\ Rest(r) /\ r.dur.ph # "destroyed" /\ s.dur.ph = "polling"
             /\ \A j \in Items : \/ r.item[j] = s.item[j]
                                 \/ ~s.item[j].done /\ r.item[j] = [s.item[j] EXCEPT !.rc = "REQUEST"]
<1> DEFINE p == Put(s, i, n, NoNode)
           x == IF p.item[i].done THEN p.item[i].rc ELSE "REQUEST"
           u == [p EXCEPT !.item[i].rc = x]
           r == Tally(u, 1)
<1>1. p \in State /\ Balanced(p, 1, 0) /\ Timing(p) /\ p.item[i].entry /\ s.dur.ph = "polling"
  BY ZenonT(60), EndOfRequest
<1>2. Kept(p, s) /\ p.item = s.item
  <2>1. NoNode \in Places
    BY ZenonT(60) DEF Places
  <2>2. Moved(p, s, i, n, NoNode)
    BY ZenonT(60), <2>1, PutIs
  <2> HIDE DEF p
  <2>3. QED
    BY ZenonT(60), <2>2 DEF Moved
<1> HIDE DEF p
<1>3. FailedCallback(p, i) = r
  BY ZenonT(60), <1>1 DEF FailedCallback, Balanced
<1>4. x \in Codes
  <2>1. "REQUEST" \in Codes /\ p.item[i].rc \in Codes
    BY <1>1 DEF Codes, State, Entry
  <2>2. QED
    BY ZenonT(60), <2>1
<1>5. /\ OnlyItems(u, p) /\ u.dur = p.dur
      /\ \A j \in Items \ {i} : u.item[j] = p.item[j]
      /\ u.item[i] = [p.item[i] EXCEPT !.rc = x]
      /\ u.item[i].entry = p.item[i].entry /\ u.item[i].done = p.item[i].done
  <2> DEFINE y == [p.item[i] EXCEPT !.rc = x]
  <2>1. y \in Entry /\ y.entry = p.item[i].entry /\ y.done = p.item[i].done
    <3>1. p.item[i] \in Entry
      BY ZenonT(60), <1>1 DEF State
    <3> HIDE DEF x
    <3>2. QED
      BY ZenonT(60), <1>4, <3>1 DEF Entry
  <2>2. u = [p EXCEPT !.item[i] = y]
    <3> HIDE DEF x
    <3>1. QED
      BY ZenonT(60), <1>1 DEF State
  <2> HIDE DEF x, y, u
  <2>3. /\ OnlyItems(u, p) /\ u.dur = p.dur
        /\ \A j \in Items \ {i} : u.item[j] = p.item[j]
        /\ u.item[i] = y
    BY ZenonT(60), <1>1, <2>1, <2>2 DEF OnlyItems, State
  <2>4. QED
    BY ZenonT(60), <2>1, <2>3 DEF y
<1>6. p.item[i].done => [p.item[i] EXCEPT !.rc = x] = p.item[i]
  BY ZenonT(60), <1>1 DEF State, Entry
<1>7. ~p.item[i].done => x = "REQUEST"
  BY ZenonT(60)
<1> HIDE DEF u, x
<1>8. u \in State /\ Requests(u) = Requests(p) /\ Todo(u) = Todo(p)
  <2>1. \A j \in Items : u.item[j].entry = p.item[j].entry /\ u.item[j].done = p.item[j].done
    BY ZenonT(60), <1>5
  <2>2. QED
    BY ZenonT(60), <1>5, <2>1 DEF OnlyItems, Requests, Todo, Entries
<1>9. Balanced(u, 1, 0) /\ Timing(u)
  <2>1. \A q \in Requests(u) : u.item[q[1]].entry
    <3> SUFFICES ASSUME NEW q \in Requests(u) PROVE u.item[q[1]].entry
      OBVIOUS
    <3>1. q \in Requests(p) /\ q[1] \in Items
      BY ZenonT(60), <1>8 DEF Requests
    <3>2. QED
      BY ZenonT(60), <1>1, <1>5, <3>1 DEF Balanced
  <2>2. QED
    BY ZenonT(60), <1>1, <1>5, <1>8, <2>1 DEF Balanced, Timing
<1>10. OnlyDur(r, u) /\ Rest(r) /\ r.dur.ph # "destroyed"
  <2>1. 1 \in Nat \ {0}
    OBVIOUS
  <2>2. QED
    BY ZenonT(60), <1>8, <1>9, <2>1, TallyRest
<1> HIDE DEF r
<1>11. OnlyItems(r, p) /\ r.item = u.item
  BY ZenonT(60), <1>5, <1>10 DEF OnlyDur, OnlyItems
<1>12. \A j \in Items : \/ r.item[j] = s.item[j]
                        \/ ~s.item[j].done /\ r.item[j] = [s.item[j] EXCEPT !.rc = "REQUEST"]
  <2>1. \A j \in Items \ {i} : r.item[j] = s.item[j]
    BY ZenonT(60), <1>2, <1>5, <1>11
  <2>2. r.item[i] = [s.item[i] EXCEPT !.rc = x]
    BY ZenonT(60), <1>2, <1>5, <1>11
  <2>3. s.item[i].done => r.item[i] = s.item[i]
    BY ZenonT(60), <1>2, <1>6, <2>2
  <2>4. ~s.item[i].done => r.item[i] = [s.item[i] EXCEPT !.rc = "REQUEST"]
    BY ZenonT(60), <1>2, <1>7, <2>2
  <2>5. QED
    BY ZenonT(60), <2>1, <2>3, <2>4
<1>13. QED
  BY ZenonT(60), <1>1, <1>3, <1>10, <1>11, <1>12 DEF p

-----------------------------------------------------------------------------
(* The effects of a step from s to r.  What most of them leave as it was:  *)
Cluster(r, s) ==
    /\ r.env = s.env /\ r.cfg = s.cfg /\ r.addr = s.addr /\ r.has = s.has /\ r.past = s.past
Options(r, s) == r.dur.persist_to = s.dur.persist_to /\ r.dur.replicate_to = s.dur.replicate_to

(* The Durset is made: no entry has been polled, and one that was called   *)
(* back has failed.                                                        *)
Fresh(x) ==
    /\ ~x.exists_master /\ ~x.persisted_master /\ x.npersisted = 0 /\ x.nreplicated = 0
    /\ x.sinfo = [ii \in Slots |-> NoInfo]
    /\ (~x.done /\ x.calls = 0) \/ (x.done /\ x.rc # "SUCCESS")
Sets(r, s) ==
    /\ Cluster(r, s) /\ r.net = s.net /\ s.dur.ph # "polling" /\ r.dur.ph # "destroyed"
    /\ \A i \in Items : Fresh(r.item[i])

(* A poll. *)
Polls(r, s) ==
    /\ Cluster(r, s) /\ Options(r, s) /\ r.dur.ph # "destroyed"
    /\ \A i \in Items : r.item[i] = IF i \in Todo(s) THEN Prepare(s, i).entry ELSE s.item[i]
    /\ \A i \in Items, n \in Nodes :
          r.net[i][n] = IF i \in Todo(s) /\ n \in Prepare(s, i).ask THEN n ELSE NoNode

(* The deadline. *)
TimesOut(r, s) ==
    /\ Cluster(r, s) /\ Options(r, s) /\ r.dur.ph # "destroyed"
    /\ r.net = s.net /\ s.dur.left <= Interval
    /\ \A i \in Items : \/ r.item[i] = s.item[i]
                        \/ /\ ~s.item[i].done
                           /\ \E c \in Codes \ {"SUCCESS"} : r.item[i] = Called(s.item[i], c)

(* A request ends, with an answer or without.                              *)
Ended(r, s, i, n) ==
    /\ Cluster(r, s) /\ Options(r, s) /\ r.dur.ph # "destroyed"
    /\ \A j \in Items, o \in Nodes : r.net[j][o] = IF j = i /\ o = n THEN NoNode ELSE s.net[j][o]
Answers(r, s, i, n) ==
    /\ Ended(r, s, i, n) /\ s.net[i][n] \in Nodes
    /\ \A j \in Items \ {i} : r.item[j] = s.item[j]
    /\ \E report \in Reports(s.has[s.net[i][n]][i]) : Digested(r.item[i], s, i, s.net[i][n], report)
Told(r, s) ==
    \A j \in Items : \/ r.item[j] = s.item[j]
                     \/ ~s.item[j].done /\ r.item[j] = [s.item[j] EXCEPT !.rc = "REQUEST"]
Fails(r, s, i, n) == Ended(r, s, i, n) /\ Told(r, s)

(* A request goes to the retry queue, or from there to the master.         *)
Resends(r, s, i, n) ==
    /\ r.env = s.env /\ r.cfg = s.cfg /\ r.addr = s.addr /\ r.has = s.has /\ r.item = s.item
    /\ r.dur = s.dur /\ s.net[i][n] # NoNode
    /\ \E place \in Nodes \cup {RetryQ} :
          /\ \A j \in Items, o \in Nodes : r.net[j][o] = IF j = i /\ o = n THEN place ELSE s.net[j][o]
          /\ IF place = RetryQ THEN r.past = [s.past EXCEPT !.retries = @ + 1] /\ r.past.retries <= s.env.retries
                               ELSE r.past = [s.past EXCEPT !.moved = @ \cup {i}]

(* A new map. *)
Remaps(r, s) ==
    /\ r.env = s.env /\ r.has = s.has /\ Options(r, s) /\ r.cfg \in Maps /\ r.dur.ph # "destroyed"
    /\ \A n \in Nodes : \/ n \notin r.cfg.servers /\ r.addr[n] = NoAddr
                        \/ n \in r.cfg.servers \cap s.cfg.servers /\ r.addr[n] = s.addr[n]
                        \/ n \in r.cfg.servers \ s.cfg.servers /\ r.addr[n] \in Addrs
    /\ Allocated(s.addr, s.cfg) => Allocated(r.addr, r.cfg)
    /\ r.past.retries = s.past.retries /\ s.past.moved \subseteq r.past.moved
    /\ \A j \in Items, o \in Nodes :
          \/ r.net[j][o] = s.net[j][o]
          \/ s.net[j][o] \in Nodes /\ r.net[j][o] # RetryQ /\ (r.net[j][o] = NoNode \/ j \in r.past.moved)
    /\ Told(r, s)

(* A node gets the mutation or writes it to its disk, or fails over.       *)
Gains(r, s) ==
    /\ r.env = s.env /\ r.cfg = s.cfg /\ r.addr = s.addr /\ r.net = s.net /\ r.dur = s.dur
    /\ r.item = s.item /\ r.past = s.past
    /\ \A n \in Nodes, i \in Items :
          /\ s.has[n][i] \in Holding => r.has[n][i] \in Holding
          /\ s.has[n][i] \in OnDisk => r.has[n][i] \in OnDisk
          /\ r.has[n][i] = "old mem" => s.has[n][i] = "old mem" \/ "mem" \in s.env.failover

(* The instance is destroyed. *)
Destroys(r, s) ==
    /\ Cluster(r, s) /\ Options(r, s) /\ r.item = s.item /\ r.dur.ph = "destroyed" /\ s.env.destroys
    /\ r.net = [i \in Items |-> [n \in Nodes |-> NoNode]]
    /\ r.dur.fault = IF \E i \in Items, n \in Nodes : s.net[i][n] = RetryQ THEN "deleted" ELSE s.dur.fault

(* Time passes, or the Durset is given up before it polls.                 *)
Waits(r, s) ==
    /\ Cluster(r, s) /\ Options(r, s) /\ r.item = s.item /\ r.net = s.net
    /\ r.dur.fault = s.dur.fault

(* One of these. *)
Effect(r, s) ==
    \/ Sets(r, s) \/ Polls(r, s) \/ TimesOut(r, s) \/ Remaps(r, s) \/ Gains(r, s)
    \/ Destroys(r, s) \/ Waits(r, s)
    \/ \E i \in Items, n \in Nodes : Answers(r, s, i, n) \/ Fails(r, s, i, n) \/ Resends(r, s, i, n)

(* A state that is taken on. *)
LEMMA BecomeIs ==
  ASSUME NEW r \in State, Become(r)
  PROVE  Now' = r
<1>1. r = [env |-> r.env, cfg |-> r.cfg, addr |-> r.addr, has |-> r.has, net |-> r.net, dur |-> r.dur,
           item |-> r.item, past |-> r.past]
  BY ZenonT(60) DEF State
<1>2. Now' = [env |-> r.env, cfg |-> r.cfg, addr |-> r.addr, has |-> r.has, net |-> r.net, dur |-> r.dur,
              item |-> r.item, past |-> r.past]
  BY ZenonT(60) DEF Now, Become
<1>3. QED
  BY ZenonT(60), <1>1, <1>2

(* Of the Durset, Item::prepare uses the options. *)
LEMMA PrepareSame ==
  ASSUME NEW s, NEW r, r.cfg = s.cfg, r.addr = s.addr, r.item = s.item, Options(r, s), NEW i
  PROVE  Prepare(r, i) = Prepare(s, i)
BY SMTT(60) DEF Prepare, Options, IsServerDone, Counted

(* The timer fires. *)
LEMMA TimerStep ==
  ASSUME Good(Now), TimerFires
  PROVE  Good(Now') /\ (Polls(Now', Now) \/ TimesOut(Now', Now))
<1> DEFINE s == Now
           p == [s EXCEPT !.dur.timer = NotArmed]
           next == IF p.dur.left # NoTimeout /\ p.dur.left < 0 THEN "TIMEOUT" ELSE p.dur.next
           q == [p EXCEPT !.dur.next = next]
           r == TickOf(p)
<1>1. s \in State /\ Rest(s) /\ s.dur.timer = 0 /\ Become(r)
  BY ZenonT(60) DEF TimerFires, Good, Now
<1> HIDE DEF s
<1>2. s.dur.ph = "polling" /\ Balanced(s, 0, 0) /\ Timing(s) /\ (Todo(s) # {} \/ s.dur.waiting > 0)
  BY SMTT(60), <1>1 DEF Rest
<1>3. next \in States /\ NotArmed \in Int /\ NotArmed < 0
  BY <1>1 DEF State, Durs, States, NotArmed
<1>4. p.dur.left = s.dur.left /\ p.dur.next = s.dur.next
  BY ZenonT(60), <1>1 DEF State, Durs
<1>5. r = CASE next \in {"OBSPOLL", "INIT"} -> Poll(q)
            [] next = "TIMEOUT" -> TimeOut(q)
            [] next = "IGNORE" -> q
  BY ZenonT(60) DEF TickOf
<1>6. next # "IGNORE" /\ (next \in {"OBSPOLL", "INIT"} => s.dur.waiting = 0)
      /\ (next = "TIMEOUT" => s.dur.left <= Interval)
  <2>1. s.dur.left \in Int /\ s.dur.waiting \in Int /\ Interval \in Nat
    BY ZenonT(60), <1>1, DurabilityAssumption DEF State, Durs
  <2>2. Cardinality(Requests(s)) \in Nat /\ s.dur.waiting = Cardinality(Requests(s)) + 0
    <3>1. Cardinality(Requests(s)) \in Nat
      BY ZenonT(60), Counting, FiniteSets
    <3>2. QED
      BY ZenonT(60), <1>2, <3>1 DEF Balanced
  <2>3. next = "TIMEOUT" \/ next = s.dur.next
    BY ZenonT(60), <1>4
  <2>4. next = "TIMEOUT" => s.dur.next = "TIMEOUT" \/ s.dur.left < 0
    BY ZenonT(60), <1>4
  <2> HIDE DEF next
  <2>5. QED
    BY SMTT(60), <1>1, <1>2, <2>1, <2>2, <2>3, <2>4 DEF Timing
<1> HIDE DEF next
<1>7. /\ OnlyDur(q, s) /\ q.dur.timer = NotArmed
      /\ \A f \in {"ph", "waiting", "nremaining", "refcnt", "left", "fault"} : q.dur[f] = s.dur[f]
  <2>1. /\ OnlyDur(p, s) /\ p.dur.timer = NotArmed
        /\ \A f \in {"ph", "waiting", "nremaining", "refcnt", "left", "fault"} : p.dur[f] = s.dur[f]
    BY ZenonT(60), <1>1, <1>3 DEF OnlyDur, State, Durs
  <2> HIDE DEF p
  <2>2. /\ OnlyDur(q, p) /\ q.dur.timer = p.dur.timer
        /\ \A f \in {"ph", "waiting", "nremaining", "refcnt", "left", "fault"} : q.dur[f] = p.dur[f]
    <3>1. p \in State
      BY ZenonT(60), <2>1 DEF OnlyDur
    <3>2. QED
      BY ZenonT(60), <1>3, <3>1 DEF OnlyDur, State, Durs
  <2> HIDE DEF q
  <2>3. OnlyDur(q, s)
    BY ZenonT(60), <2>1, <2>2, OnlyDurTransitive
  <2>4. QED
    BY ZenonT(60), <2>1, <2>2, <2>3
<1> HIDE DEF q, r
<1>8. q \in State /\ Requests(q) = Requests(s) /\ Todo(q) = Todo(s) /\ q.item = s.item
  <2>1. Requests(q) = Requests(s) /\ Todo(q) = Todo(s)
    BY ZenonT(60), <1>7, OnlyDurSets
  <2>2. QED
    BY ZenonT(60), <1>7, <2>1 DEF OnlyDur
<1>9. Balanced(q, 0, 0)
  BY ZenonT(60), <1>2, <1>7, <1>8 DEF Balanced
<1>10. CASE next = "TIMEOUT"
  <2>1. r = TimeOut(q)
    BY SMTT(60), <1>5, <1>10
  <2>2. q.dur.timer < 0
    BY ZenonT(60), <1>3, <1>7
  <2>3. OnlyItems(r, q) /\ Rest(r) /\ r.dur.ph # "destroyed"
        /\ \A i \in Items : \/ r.item[i] = q.item[i]
                            \/ /\ ~q.item[i].done
                               /\ \E c \in Codes \ {"SUCCESS"} : r.item[i] = Called(q.item[i], c)
    BY ZenonT(60), <1>8, <1>9, <2>1, <2>2, TimeOutRest
  <2>4. Good(r)
    BY ZenonT(60), <2>3 DEF Good, OnlyItems
  <2>5. TimesOut(r, s)
    <3>1. Cluster(r, s) /\ Options(r, s) /\ r.net = s.net
      BY ZenonT(60), <1>7, <2>3 DEF Cluster, Options, OnlyItems, OnlyDur
    <3>2. QED
      BY ZenonT(60), <1>6, <1>8, <1>10, <2>3, <3>1 DEF TimesOut
  <2>6. Now' = r
    BY ZenonT(60), <1>1, <2>4, BecomeIs DEF Good
  <2>7. QED
    BY ZenonT(60), <2>4, <2>5, <2>6 DEF s
<1>11. CASE next \in {"OBSPOLL", "INIT"}
  <2>1. r = Poll(q)
    BY SMTT(60), <1>5, <1>11
  <2>2. q.dur.waiting = 0 /\ Todo(q) # {}
    <3>1. s.dur.waiting = 0 /\ q.dur.waiting = 0
      BY ZenonT(60), <1>6, <1>7, <1>11
    <3>2. ~(s.dur.waiting > 0)
      BY SMTT(60), <3>1
    <3>3. QED
      BY ZenonT(60), <1>2, <1>8, <3>1, <3>2
  <2>3. /\ r \in State /\ Rest(r) /\ r.dur.ph # "destroyed"
        /\ r.env = q.env /\ r.cfg = q.cfg /\ r.addr = q.addr /\ r.has = q.has /\ r.past = q.past
        /\ r.dur.persist_to = q.dur.persist_to /\ r.dur.replicate_to = q.dur.replicate_to
        /\ \A i \in Items : r.item[i] = IF i \in Todo(q) THEN Prepare(q, i).entry ELSE q.item[i]
        /\ \A i \in Items, n \in Nodes :
             r.net[i][n] = IF i \in Todo(q) /\ n \in Prepare(q, i).ask THEN n ELSE NoNode
    BY ZenonT(60), <1>8, <1>9, <2>1, <2>2, PollRest
  <2>4. Good(r)
    BY ZenonT(60), <2>3 DEF Good
  <2>5. \A i \in Items : Prepare(q, i) = Prepare(s, i)
    <3>1. q.cfg = s.cfg /\ q.addr = s.addr /\ q.item = s.item /\ Options(q, s)
      BY ZenonT(60), <1>7 DEF OnlyDur, Options
    <3>2. QED
      BY ZenonT(60), <3>1, PrepareSame
  <2>6. Polls(r, s)
    <3>1. Cluster(r, s) /\ Options(r, s)
      BY ZenonT(60), <1>7, <2>3 DEF Cluster, Options, OnlyDur
    <3>2. QED
      BY ZenonT(60), <1>8, <2>3, <2>5, <3>1 DEF Polls
  <2>7. Now' = r
    BY ZenonT(60), <1>1, <2>3, BecomeIs
  <2>8. QED
    BY ZenonT(60), <2>4, <2>6, <2>7 DEF s
<1>12. QED
  BY SMTT(60), <1>3, <1>6, <1>10, <1>11 DEF States

(* What a node reports, of what it has. *)
LEMMA ReportsAre ==
  ASSUME NEW w \in What, NEW report \in Reports(w)
  PROVE  /\ report \in {"none", "mem", "disk", "lost", "old"}
         /\ report = "mem" => w \in Holding
         /\ report = "disk" => w \in OnDisk
         /\ report = "old" => w \in {"old mem", "old disk"}
<1>1. w \in {"none", "mem", "disk", "lost", "old mem", "old disk"}
  BY ZenonT(60) DEF What, Holding
<1>2. CASE w = "none"
  BY ZenonT(60), <1>2 DEF Reports
<1>3. CASE w = "mem"
  BY ZenonT(60), <1>3 DEF Reports, Holding
<1>4. CASE w = "disk"
  BY ZenonT(60), <1>4 DEF Reports, Holding, OnDisk
<1>5. CASE w = "lost"
  BY ZenonT(60), <1>5 DEF Reports
<1>6. CASE w \in {"old mem", "old disk"}
  BY ZenonT(60), <1>6 DEF Reports
<1>7. QED
  BY ZenonT(60), <1>1, <1>2, <1>3, <1>4, <1>5, <1>6

(* A node answers. *)
LEMMA AnswerStep ==
  ASSUME Good(Now), NEW i \in Items, NEW n \in Nodes, Answer(i, n)
  PROVE  Good(Now') /\ Answers(Now', Now, i, n)
<1> DEFINE s == Now
           at == s.net[i][n]
           p == Put(s, i, n, NoNode)
<1>1. s \in State /\ Rest(s) /\ at \in Nodes
  BY ZenonT(60) DEF Answer, Good, Now
<1>2. PICK report \in Reports(s.has[at][i]) : Become(SeqnoCallback(p, i, at, report))
  BY ZenonT(60) DEF Answer, Now
<1> HIDE DEF s
<1> DEFINE r == SeqnoCallback(p, i, at, report)
<1>3. at # NoNode
  BY ZenonT(60), <1>1, DurabilityAssumption
<1>4. report \in {"none", "mem", "disk", "lost", "old"}
  <2>1. s.has[at][i] \in What
    <3>1. s.has \in [Nodes -> [Items -> What]]
      BY ZenonT(60), <1>1 DEF State
    <3>2. s.has[at] \in [Items -> What]
      BY ZenonT(60), <1>1, <3>1
    <3>3. QED
      BY ZenonT(60), <3>2
  <2>2. QED
    BY ZenonT(60), <1>2, <2>1, ReportsAre
<1>5. Moved(p, s, i, n, NoNode)
  <2>1. NoNode \in Places
    BY ZenonT(60) DEF Places
  <2>2. QED
    BY ZenonT(60), <1>1, <2>1, PutIs
<1>6. Replied(r, p, s, i, at, report)
  BY ZenonT(60), <1>1, <1>3, <1>4, SeqnoIs
<1> HIDE DEF p, r
<1>7. Good(r)
  BY ZenonT(60), <1>6 DEF Good, OnlyItems, Replied
<1>8. Ended(r, s, i, n)
  <2>1. OnlyItems(r, p) /\ r.dur.ph # "destroyed"
    BY ZenonT(60), <1>6 DEF Replied
  <2>2. QED
    BY ZenonT(60), <1>5, <2>1 DEF Ended, Moved, OnlyItems, Cluster, Options, Kept
<1>9. Answers(r, s, i, n)
  BY ZenonT(60), <1>1, <1>2, <1>6, <1>8 DEF Answers, Replied
<1>10. Now' = r
  BY ZenonT(60), <1>2, <1>7, BecomeIs DEF Good, r
<1>11. QED
  BY ZenonT(60), <1>7, <1>9, <1>10 DEF s

(* A request fails. *)
LEMMA FailsStep ==
  ASSUME Good(Now), NEW i \in Items, NEW n \in Nodes, RequestFails(i, n) \/ RetryFails(i, n)
  PROVE  Good(Now') /\ Fails(Now', Now, i, n)
<1> DEFINE s == Now
           p == Put(s, i, n, NoNode)
           r == FailedCallback(p, i)
<1>1. s \in State /\ Rest(s) /\ s.net[i][n] \in Nodes \cup {RetryQ} /\ Become(r)
  BY ZenonT(60) DEF RequestFails, RetryFails, Good, Now
<1> HIDE DEF s
<1>2. s.net[i][n] # NoNode
  BY ZenonT(60), <1>1, DurabilityAssumption
<1>3. Moved(p, s, i, n, NoNode)
  <2>1. NoNode \in Places
    BY ZenonT(60) DEF Places
  <2>2. QED
    BY ZenonT(60), <1>1, <2>1, PutIs
<1>4. /\ OnlyItems(r, p) /\ Rest(r) /\ r.dur.ph # "destroyed"
      /\ \A j \in Items : \/ r.item[j] = s.item[j]
                          \/ ~s.item[j].done /\ r.item[j] = [s.item[j] EXCEPT !.rc = "REQUEST"]
  BY ZenonT(60), <1>1, <1>2, FailedIs
<1> HIDE DEF p, r
<1>5. Good(r)
  BY ZenonT(60), <1>4 DEF Good, OnlyItems
<1>6. Ended(r, s, i, n)
  <2>1. OnlyItems(r, p) /\ r.dur.ph # "destroyed"
    BY ZenonT(60), <1>4
  <2>2. QED
    BY ZenonT(60), <1>3, <2>1 DEF Ended, Moved, OnlyItems, Cluster, Options, Kept
<1>7. Fails(r, s, i, n)
  BY ZenonT(60), <1>4, <1>6 DEF Fails, Told
<1>8. Now' = r
  BY ZenonT(60), <1>1, <1>5, BecomeIs DEF Good
<1>9. QED
  BY ZenonT(60), <1>5, <1>7, <1>8 DEF s

(* A request goes to the retry queue, or from there to the master. *)
LEMMA ResendsStep ==
  ASSUME Good(Now), NEW i \in Items, NEW n \in Nodes, Retry(i, n) \/ RetryFlush(i, n)
  PROVE  Good(Now') /\ Resends(Now', Now, i, n)
<1> DEFINE s == Now
<1>1. s \in State /\ Rest(s) /\ s.net[i][n] \in Nodes \cup {RetryQ}
  BY ZenonT(60) DEF Retry, RetryFlush, Good, Now
<1>2. s.net[i][n] # NoNode /\ RetryQ \notin Nodes
  BY ZenonT(60), <1>1, DurabilityAssumption
<1>3. PICK place \in Nodes \cup {RetryQ}, past1 \in [maps : Nat, retries : Nat, moved : SUBSET Items] :
        /\ Become([Put(s, i, n, place) EXCEPT !.past = past1])
        /\ IF place = RetryQ THEN past1 = [s.past EXCEPT !.retries = @ + 1] /\ past1.retries <= s.env.retries
                             ELSE past1 = [s.past EXCEPT !.moved = @ \cup {i}]
  <2>1. s.past \in [maps : Nat, retries : Nat, moved : SUBSET Items]
    BY ZenonT(60), <1>1 DEF State
  <2>2. CASE Retry(i, n)
    <3> DEFINE p == Put(s, i, n, RetryQ)
               past1 == [s.past EXCEPT !.retries = @ + 1]
    <3>1. Become([p EXCEPT !.past.retries = @ + 1]) /\ s.past.retries < s.env.retries
      BY ZenonT(60), <2>2 DEF Retry, Now
    <3>2. RetryQ \in Places
      BY ZenonT(60) DEF Places
    <3>3. p \in State /\ p.past = s.past
      <4>1. Moved(p, s, i, n, RetryQ)
        BY ZenonT(60), <1>1, <3>2, PutIs
      <4> HIDE DEF p
      <4>2. QED
        BY ZenonT(60), <4>1 DEF Moved
    <3> HIDE DEF s, p
    <3>4. [p EXCEPT !.past.retries = @ + 1] = [p EXCEPT !.past = past1]
      BY ZenonT(60), <3>3 DEF State
    <3>5. s.env.retries \in Nat /\ s.past.retries \in Nat
      BY ZenonT(60), <1>1, <2>1 DEF State, EnvType
    <3>6. s.past.retries + 1 \in Nat /\ s.past.retries + 1 <= s.env.retries
      BY SMTT(60), <3>1, <3>5
    <3>7. past1 \in [maps : Nat, retries : Nat, moved : SUBSET Items] /\ past1.retries <= s.env.retries
      BY ZenonT(60), <2>1, <3>6
    <3> HIDE DEF past1
    <3>8. Become([p EXCEPT !.past = past1])
      BY ZenonT(60), <3>1, <3>4
    <3>9. RetryQ \in Nodes \cup {RetryQ} /\ past1 = [s.past EXCEPT !.retries = @ + 1]
      BY ZenonT(60) DEF past1
    <3>10. QED
      BY ZenonT(60), <3>7, <3>8, <3>9 DEF p
  <2>3. CASE RetryFlush(i, n)
    <3> DEFINE master == s.cfg.vb[i][1]
               p == Put(s, i, n, master)
               past1 == [s.past EXCEPT !.moved = @ \cup {i}]
    <3>1. Become([p EXCEPT !.past.moved = @ \cup {i}]) /\ master # NoNode
      BY ZenonT(60), <2>3 DEF RetryFlush, Now
    <3>2. master \in Nodes /\ master \in Places
      <4>1. s.cfg \in Maps
        BY ZenonT(60), <1>1 DEF State
      <4>2. master \in Nodes \cup {NoNode}
        BY ZenonT(60), <4>1, SlotsAre
      <4>3. QED
        BY ZenonT(60), <3>1, <4>2 DEF Places
    <3> HIDE DEF s, master
    <3>3. p \in State /\ p.past = s.past
      <4>1. Moved(p, s, i, n, master)
        BY ZenonT(60), <1>1, <3>2, PutIs
      <4> HIDE DEF p
      <4>2. QED
        BY ZenonT(60), <4>1 DEF Moved
    <3> HIDE DEF p
    <3>4. [p EXCEPT !.past.moved = @ \cup {i}] = [p EXCEPT !.past = past1]
      BY ZenonT(60), <3>3 DEF State
    <3>5. past1 \in [maps : Nat, retries : Nat, moved : SUBSET Items]
      BY ZenonT(60), <2>1
    <3>6. Become([p EXCEPT !.past = past1])
      BY ZenonT(60), <3>1, <3>4
    <3>7. master \in Nodes \cup {RetryQ} /\ master # RetryQ /\ past1 = [s.past EXCEPT !.moved = @ \cup {i}]
      BY ZenonT(60), <1>2, <3>2
    <3> HIDE DEF past1
    <3>8. QED
      BY ZenonT(60), <3>5, <3>6, <3>7 DEF p
  <2>4. QED
    BY ZenonT(60), <2>2, <2>3
<1> HIDE DEF s
<1> DEFINE p == Put(s, i, n, place)
           r == [p EXCEPT !.past = past1]
<1>4. place \in Places /\ place # NoNode
  BY ZenonT(60), <1>3, DurabilityAssumption DEF Places
<1>5. Moved(p, s, i, n, place)
  BY ZenonT(60), <1>1, <1>4, PutIs
<1> HIDE DEF p
<1>6. /\ r \in State /\ r.env = p.env /\ r.cfg = p.cfg /\ r.addr = p.addr /\ r.has = p.has
      /\ r.item = p.item /\ r.dur = p.dur /\ r.net = p.net /\ r.past = past1
  <2>1. p \in State
    BY ZenonT(60), <1>5 DEF Moved
  <2>2. QED
    BY ZenonT(60), <1>3, <2>1 DEF State
<1>7. Now' = r
  BY ZenonT(60), <1>3, <1>6, BecomeIs DEF p
<1> HIDE DEF r
<1>8. Kept(r, s) /\ Requests(r) = Requests(s)
  <2>1. Requests(p) = Requests(s)
    BY ZenonT(60), <1>2, <1>4, <1>5 DEF Moved
  <2>2. QED
    BY ZenonT(60), <1>5, <1>6, <2>1 DEF Moved, Kept, Requests
<1>9. s.dur.ph = "polling"
  BY ZenonT(60), <1>1, <1>2, EndOfRequest
<1>10. Good(r)
  BY ZenonT(60), <1>1, <1>6, <1>8, <1>9, KeptRest DEF Good
<1>11. Resends(r, s, i, n)
  <2>1. /\ r.env = s.env /\ r.cfg = s.cfg /\ r.addr = s.addr /\ r.has = s.has /\ r.item = s.item
        /\ r.dur = s.dur
    BY ZenonT(60), <1>5, <1>6 DEF Moved, Kept
  <2>2. \A j \in Items, o \in Nodes : r.net[j][o] = IF j = i /\ o = n THEN place ELSE s.net[j][o]
    BY ZenonT(60), <1>5, <1>6 DEF Moved
  <2>3. IF place = RetryQ THEN r.past = [s.past EXCEPT !.retries = @ + 1] /\ r.past.retries <= s.env.retries
                          ELSE r.past = [s.past EXCEPT !.moved = @ \cup {i}]
    <3>1. CASE place = RetryQ
      BY ZenonT(60), <1>3, <1>6, <3>1
    <3>2. CASE place # RetryQ
      BY ZenonT(60), <1>3, <1>6, <3>2
    <3>3. QED
      BY ZenonT(60), <3>1, <3>2
  <2>4. place \in Nodes \cup {RetryQ}
    BY ZenonT(60), <1>3
  <2>5. QED
    BY ZenonT(60), <1>2, <2>1, <2>2, <2>3, <2>4 DEF Resends
<1>12. QED
  BY ZenonT(60), <1>7, <1>10, <1>11 DEF s

(* The requests of the servers that a map lacks go to the master there, or *)
(* fail.                                                                   *)
Relocated(r, s, m) ==
    /\ r.env = s.env /\ r.addr = s.addr /\ r.has = s.has /\ Options(r, s) /\ r.cfg = m
    /\ r.dur.ph # "destroyed"
    /\ r.past.retries = s.past.retries /\ s.past.moved \subseteq r.past.moved
    /\ \A j \in Items, o \in Nodes :
          \/ r.net[j][o] = s.net[j][o]
          \/ s.net[j][o] \in Nodes /\ r.net[j][o] # RetryQ /\ (r.net[j][o] = NoNode \/ j \in r.past.moved)
    /\ Told(r, s)

(* iterwipe_cb and Server::purge do that, and the counters stay exact.     *)
LEMMA RelocateIs ==
  ASSUME NEW s \in State, Rest(s), s.dur.ph = "polling", NEW m \in Maps
  PROVE  Good(Relocate(s, m)) /\ Relocated(Relocate(s, m), s, m)
<1> DEFINE gone == s.cfg.servers \ m.servers
           Master(i) == m.vb[i][1]
           lost == {q \in Items \X Nodes : s.net[q[1]][q[2]] \in gone}
           failed == {q \in lost : Master(q[1]) = NoNode}
           Failed(i) == \E q \in failed : q[1] = i
           nt == [i \in Items |-> [n \in Nodes |-> IF <<i, n>> \in lost THEN Master(i) ELSE s.net[i][n]]]
           it == [i \in Items |-> IF Failed(i) /\ ~s.item[i].done THEN [s.item[i] EXCEPT !.rc = "REQUEST"]
                                                                  ELSE s.item[i]]
           past1 == [s.past EXCEPT !.maps = @ + 1, !.moved = @ \cup {q[1] : q \in lost \ failed}]
           t == [s EXCEPT !.cfg = m, !.net = nt, !.item = it, !.past = past1]
           k == Cardinality(failed)
           r == Tally(t, k)
<1>1. /\ s.cfg \in Maps /\ s.past \in [maps : Nat, retries : Nat, moved : SUBSET Items]
      /\ \A i \in Items : s.item[i] \in Entry
      /\ \A i \in Items, n \in Nodes : s.net[i][n] \in Places
  BY ZenonT(60) DEF State
<1>2. \A i \in Items : Master(i) \in Nodes \cup {NoNode}
  BY ZenonT(60), SlotsAre
<1>3. NoNode \notin Nodes /\ RetryQ \notin Nodes /\ RetryQ # NoNode
  BY ZenonT(60), DurabilityAssumption
<1>4. gone \subseteq Nodes
  BY ZenonT(60), <1>1, SlotsAre
<1>5. Relocate(s, m) = r
  <2>1. t = [s EXCEPT !.cfg = m, !.net = nt, !.item = it, !.past.maps = @ + 1,
                      !.past.moved = @ \cup {q[1] : q \in lost \ failed}]
    <3> HIDE DEF nt, it, lost, failed
    <3>1. QED
      BY ZenonT(60), <1>1 DEF State
  <2>2. QED
    BY ZenonT(60), <2>1 DEF Relocate
<1>6. \A i \in Items, n \in Nodes : /\ (<<i, n>> \in lost <=> s.net[i][n] \in gone)
                                   /\ (<<i, n>> \in failed <=> s.net[i][n] \in gone /\ Master(i) = NoNode)
                                   /\ (<<i, n>> \in Requests(s) <=> s.net[i][n] # NoNode)
  BY SMTT(60) DEF Requests
<1>7. failed \in SUBSET Requests(s) /\ lost \subseteq Items \X Nodes
  BY SMTT(60), <1>3, <1>4 DEF Requests
<1>8. past1 \in [maps : Nat, retries : Nat, moved : SUBSET Items]
      /\ past1.retries = s.past.retries /\ s.past.moved \subseteq past1.moved
      /\ \A i \in Items, n \in Nodes : <<i, n>> \in lost \ failed => i \in past1.moved
  <2>1. s.past.maps + 1 \in Nat
    BY SMTT(60), <1>1
  <2>2. {q[1] : q \in lost \ failed} \subseteq Items
    BY SMTT(60), <1>7
  <2>3. \A i \in Items, n \in Nodes : <<i, n>> \in lost \ failed => i \in {q[1] : q \in lost \ failed}
    <3> HIDE DEF lost, failed
    <3>1. QED
      BY SMTT(60)
  <2> DEFINE M == {q[1] : q \in lost \ failed}
  <2> HIDE DEF lost, failed, M
  <2>4. M \subseteq Items /\ \A i \in Items, n \in Nodes : <<i, n>> \in lost \ failed => i \in M
    BY ZenonT(60), <2>2, <2>3 DEF M
  <2>5. past1 = [s.past EXCEPT !.maps = s.past.maps + 1, !.moved = s.past.moved \cup M]
    BY ZenonT(60) DEF M
  <2> HIDE DEF past1
  <2>6. /\ past1 \in [maps : Nat, retries : Nat, moved : SUBSET Items]
        /\ past1.retries = s.past.retries /\ past1.moved = s.past.moved \cup M
    BY ZenonT(60), <1>1, <2>1, <2>4, <2>5
  <2>7. QED
    BY ZenonT(60), <2>4, <2>6
<1>9. \A i \in Items, n \in Nodes :
        nt[i][n] = IF s.net[i][n] \in gone THEN Master(i) ELSE s.net[i][n]
  BY ZenonT(60), <1>6
<1>10. nt \in [Items -> [Nodes -> Places]]
  <2>1. \A i \in Items : Master(i) \in Places
    BY ZenonT(60), <1>2 DEF Places
  <2> HIDE DEF lost
  <2>2. QED
    BY ZenonT(60), <1>1, <2>1
<1>11. \A i \in Items : /\ it[i] \in Entry /\ it[i].entry = s.item[i].entry /\ it[i].done = s.item[i].done
                        /\ \/ it[i] = s.item[i]
                           \/ ~s.item[i].done /\ it[i] = [s.item[i] EXCEPT !.rc = "REQUEST"]
  <2>1. "REQUEST" \in Codes
    BY DEF Codes
  <2> SUFFICES ASSUME NEW i \in Items
               PROVE  /\ it[i] \in Entry /\ it[i].entry = s.item[i].entry /\ it[i].done = s.item[i].done
                      /\ \/ it[i] = s.item[i]
                         \/ ~s.item[i].done /\ it[i] = [s.item[i] EXCEPT !.rc = "REQUEST"]
    BY ZenonT(60)
  <2> DEFINE x == s.item[i]
             y == [x EXCEPT !.rc = "REQUEST"]
  <2>2. y \in Entry /\ y.entry = x.entry /\ y.done = x.done /\ x \in Entry
    BY ZenonT(60), <1>1, <2>1 DEF Entry
  <2>3. it[i] = x \/ (it[i] = y /\ ~x.done)
    BY ZenonT(60)
  <2> HIDE DEF it, x, y
  <2>4. QED
    BY ZenonT(60), <2>2, <2>3 DEF x, y
<1> HIDE DEF nt, past1
<1>12. it \in [Items -> Entry]
  BY ZenonT(60), <1>11
<1> HIDE DEF it
<1>13. /\ t \in State /\ t.env = s.env /\ t.addr = s.addr /\ t.has = s.has /\ t.cfg = m /\ t.net = nt
       /\ t.item = it /\ t.dur = s.dur /\ t.past = past1
  BY ZenonT(60), <1>8, <1>10, <1>12 DEF State
<1> HIDE DEF t
<1>14. Kept(t, s)
  BY ZenonT(60), <1>11, <1>13 DEF Kept
<1>15. Requests(t) = Requests(s) \ failed
  <2>1. ASSUME NEW i \in Items, NEW n \in Nodes
        PROVE  <<i, n>> \in Requests(t) <=> <<i, n>> \in Requests(s) \ failed
    <3>1. <<i, n>> \in Requests(t) <=> t.net[i][n] # NoNode
      BY SMTT(60) DEF Requests
    <3>2. t.net[i][n] = IF s.net[i][n] \in gone THEN Master(i) ELSE s.net[i][n]
      BY ZenonT(60), <1>9, <1>13
    <3>3. s.net[i][n] \in gone => s.net[i][n] # NoNode
      BY ZenonT(60), <1>3, <1>4
    <3> HIDE DEF gone, failed, Master
    <3>4. QED
      BY ZenonT(60), <1>6, <3>1, <3>2, <3>3
  <2>2. Requests(t) \subseteq Items \X Nodes /\ Requests(s) \subseteq Items \X Nodes
    BY ZenonT(60) DEF Requests
  <2> HIDE DEF failed
  <2>3. QED
    BY SMTT(60), <2>1, <2>2
<1>16. \A j \in Items, o \in Nodes :
         \/ t.net[j][o] = s.net[j][o]
         \/ s.net[j][o] \in Nodes /\ t.net[j][o] # RetryQ /\ (t.net[j][o] = NoNode \/ j \in t.past.moved)
  <2> SUFFICES ASSUME NEW j \in Items, NEW o \in Nodes, s.net[j][o] \in gone
               PROVE  s.net[j][o] \in Nodes /\ t.net[j][o] # RetryQ /\ (t.net[j][o] = NoNode \/ j \in t.past.moved)
    <3> HIDE DEF gone, Master
    <3>1. QED
      BY ZenonT(60), <1>9, <1>13
  <2>1. t.net[j][o] = Master(j)
    BY ZenonT(60), <1>9, <1>13
  <2>2. Master(j) # RetryQ
    BY ZenonT(60), <1>2, <1>3
  <2>3. Master(j) = NoNode \/ <<j, o>> \in lost \ failed
    <3> HIDE DEF lost, failed, gone, Master
    <3>1. QED
      BY ZenonT(60), <1>6
  <2> HIDE DEF lost, failed, Master, gone
  <2>4. QED
    BY ZenonT(60), <1>4, <1>8, <1>13, <2>1, <2>2, <2>3
<1> HIDE DEF gone, lost, failed, Master
<1>17. Balanced(s, 0, 0) /\ Timing(s)
  BY ZenonT(60) DEF Rest
<1>18. Balanced(t, k, 0) /\ Timing(t)
  BY ZenonT(60), <1>7, <1>14, <1>15, <1>17, FewerRequests
<1>19. k \in Nat /\ (k = 0 <=> failed = {})
  <2>1. IsFiniteSet(failed)
    BY ZenonT(60), <1>7, FiniteSets, FS_Subset
  <2>2. QED
    BY ZenonT(60), <2>1, Counting
<1>20. r \in State /\ Rest(r) /\ OnlyDur(r, t) /\ r.dur.ph # "destroyed"
  <2>1. CASE k = 0
    <3>1. r = t
      BY ZenonT(60), <2>1 DEF Tally
    <3>2. Requests(t) = Requests(s)
      BY ZenonT(60), <1>15, <1>19, <2>1
    <3>3. Rest(t) /\ t.dur.ph # "destroyed"
      BY ZenonT(60), <1>13, <1>14, <3>2, KeptRest
    <3>4. OnlyDur(t, t)
      BY ZenonT(60), <1>13 DEF OnlyDur
    <3>5. QED
      BY ZenonT(60), <1>13, <3>1, <3>3, <3>4
  <2>2. CASE k # 0
    <3>1. k \in Nat \ {0}
      BY SMTT(60), <1>19, <2>2
    <3> HIDE DEF k
    <3>2. OnlyDur(r, t) /\ Rest(r) /\ r.dur.ph # "destroyed"
      BY ZenonT(60), <1>13, <1>18, <3>1, TallyRest
    <3>3. QED
      BY ZenonT(60), <3>2 DEF OnlyDur
  <2>3. QED
    BY ZenonT(60), <2>1, <2>2
<1> HIDE DEF r
<1>21. /\ r.env = s.env /\ r.addr = s.addr /\ r.has = s.has /\ r.cfg = m /\ Options(r, s)
       /\ r.net = t.net /\ r.item = it /\ r.past = past1
  BY ZenonT(60), <1>13, <1>20 DEF OnlyDur, Options
<1>22. Told(r, s)
  BY ZenonT(60), <1>11, <1>21 DEF Told
<1>23. Relocated(r, s, m)
  BY ZenonT(60), <1>8, <1>13, <1>16, <1>20, <1>21, <1>22 DEF Relocated
<1>24. QED
  BY ZenonT(60), <1>5, <1>20, <1>23 DEF Good

(* A new map. *)
LEMMA MapStep ==
  ASSUME Good(Now), NEW m \in Maps, MapChange(m)
  PROVE  Good(Now') /\ Remaps(Now', Now)
<1> DEFINE s == Now
           C == cfg.servers
           used == {addr[n] : n \in C}
           free == Addrs \ used
<1>1. s \in State /\ Rest(s) /\ s.dur.ph = "polling" /\ s.cfg = cfg /\ s.addr = addr
  BY ZenonT(60) DEF MapChange, Good, Now
<1>2. PICK new \in [m.servers \ C -> free] :
        /\ \A n, o \in DOMAIN new : new[n] = new[o] => n = o
        /\ Become(Relocate([s EXCEPT !.addr =
               [n \in Nodes |-> CASE n \in DOMAIN new -> new[n]
                                  [] n \in m.servers \cap C -> addr[n]
                                  [] OTHER -> NoAddr]], m))
  BY ZenonT(60) DEF MapChange
<1> HIDE DEF s
<1> DEFINE A == [n \in Nodes |-> CASE n \in DOMAIN new -> new[n]
                                   [] n \in m.servers \cap C -> addr[n]
                                   [] OTHER -> NoAddr]
           p == [s EXCEPT !.addr = A]
           r == Relocate(p, m)
<1>3. \A n \in Nodes : /\ n \in m.servers \ C => A[n] = new[n] /\ A[n] \in Addrs /\ A[n] \notin used
                       /\ n \in m.servers \cap C => A[n] = addr[n]
                       /\ n \notin m.servers => A[n] = NoAddr
  <2> SUFFICES ASSUME NEW n \in Nodes
               PROVE  /\ n \in m.servers \ C => A[n] = new[n] /\ A[n] \in Addrs /\ A[n] \notin used
                      /\ n \in m.servers \cap C => A[n] = addr[n]
                      /\ n \notin m.servers => A[n] = NoAddr
    BY ZenonT(60)
  <2>1. DOMAIN new = m.servers \ C /\ \A o \in m.servers \ C : new[o] \in free
    BY ZenonT(60), <1>2
  <2> HIDE DEF C, used
  <2>2. CASE n \in m.servers \ C
    BY ZenonT(60), <2>1, <2>2
  <2>3. CASE n \in m.servers \cap C
    BY ZenonT(60), <2>1, <2>3
  <2>4. CASE n \notin m.servers
    BY ZenonT(60), <2>1, <2>4
  <2>5. QED
    BY ZenonT(60), <2>2, <2>3, <2>4
<1>4. A \in [Nodes -> Addrs \cup {NoAddr}]
  <2>1. \A n \in Nodes : addr[n] \in Addrs \cup {NoAddr}
    BY ZenonT(60), <1>1 DEF State
  <2>2. \A n \in Nodes : A[n] \in Addrs \cup {NoAddr}
    <3> HIDE DEF A, C, used
    <3>1. QED
      BY ZenonT(60), <1>3, <2>1
  <2>3. QED
    BY ZenonT(60), <2>2
<1> HIDE DEF A
<1>5. /\ p \in State /\ p.addr = A /\ p.env = s.env /\ p.cfg = s.cfg /\ p.has = s.has /\ p.net = s.net
      /\ p.dur = s.dur /\ p.item = s.item /\ p.past = s.past
  BY ZenonT(60), <1>1, <1>4 DEF State
<1>6. Become(r)
  BY ZenonT(60), <1>2 DEF A
<1> HIDE DEF p
<1>7. Rest(p) /\ p.dur.ph = "polling"
  <2>1. Kept(p, s) /\ Requests(p) = Requests(s)
    BY ZenonT(60), <1>5 DEF Kept, Requests
  <2>2. QED
    BY ZenonT(60), <1>1, <1>5, <2>1, KeptRest
<1>8. Good(r) /\ Relocated(r, p, m)
  BY ZenonT(60), <1>5, <1>7, RelocateIs
<1> HIDE DEF r
<1>9. Now' = r
  BY ZenonT(60), <1>6, <1>8, BecomeIs DEF Good
<1>10. ASSUME Allocated(s.addr, s.cfg)
       PROVE  Allocated(A, m)
  <2>1. m.servers \subseteq Nodes /\ NoAddr \notin Addrs
    BY ZenonT(60), SlotsAre, DurabilityAssumption
  <2>2. /\ \A n \in Nodes : addr[n] = NoAddr <=> n \notin C
        /\ \A n, o \in C : addr[n] = addr[o] => n = o
    BY ZenonT(60), <1>1, <1>10 DEF Allocated
  <2>3. ASSUME NEW n \in Nodes
        PROVE  A[n] = NoAddr <=> n \notin m.servers
    <3> HIDE DEF C, used
    <3>1. QED
      BY ZenonT(60), <1>3, <2>1, <2>2
  <2>4. ASSUME NEW n \in m.servers, NEW o \in m.servers, A[n] = A[o]
        PROVE  n = o
    <3>1. n \in Nodes /\ o \in Nodes
      BY ZenonT(60), <2>1
    <3>2. \A u \in m.servers \cap C : A[u] \in used
      BY ZenonT(60), <1>3, <2>1
    <3>3. DOMAIN new = m.servers \ C
      BY ZenonT(60), <1>2
    <3> HIDE DEF C, used
    <3>4. CASE n \in C /\ o \in C
      BY ZenonT(60), <1>3, <2>2, <2>4, <3>1, <3>4
    <3>5. CASE n \in C /\ o \notin C
      BY ZenonT(60), <1>3, <2>4, <3>1, <3>2, <3>5
    <3>6. CASE n \notin C /\ o \in C
      BY ZenonT(60), <1>3, <2>4, <3>1, <3>2, <3>6
    <3>7. CASE n \notin C /\ o \notin C
      BY ZenonT(60), <1>2, <1>3, <2>4, <3>1, <3>3, <3>7
    <3>8. QED
      BY ZenonT(60), <3>4, <3>5, <3>6, <3>7
  <2>5. QED
    BY ZenonT(60), <2>3, <2>4 DEF Allocated
<1>11. Remaps(r, s)
  <2>1. r.addr = A /\ r.cfg = m
    BY ZenonT(60), <1>5, <1>8 DEF Relocated
  <2>2. \A n \in Nodes : \/ n \notin r.cfg.servers /\ r.addr[n] = NoAddr
                         \/ n \in r.cfg.servers \cap s.cfg.servers /\ r.addr[n] = s.addr[n]
                         \/ n \in r.cfg.servers \ s.cfg.servers /\ r.addr[n] \in Addrs
    <3> HIDE DEF used
    <3>1. QED
      BY ZenonT(60), <1>1, <1>3, <2>1
  <2>3. Told(r, s)
    BY ZenonT(60), <1>5, <1>8 DEF Relocated, Told
  <2>4. /\ r.env = s.env /\ r.has = s.has /\ Options(r, s) /\ r.dur.ph # "destroyed"
        /\ r.past.retries = s.past.retries /\ s.past.moved \subseteq r.past.moved
        /\ \A j \in Items, o \in Nodes :
             \/ r.net[j][o] = s.net[j][o]
             \/ s.net[j][o] \in Nodes /\ r.net[j][o] # RetryQ /\ (r.net[j][o] = NoNode \/ j \in r.past.moved)
    BY ZenonT(60), <1>5, <1>8 DEF Relocated, Options
  <2>5. QED
    BY ZenonT(60), <1>10, <2>1, <2>2, <2>3, <2>4 DEF Remaps
<1>12. QED
  BY ZenonT(60), <1>8, <1>9, <1>11 DEF s

-----------------------------------------------------------------------------
(* A Durset that is not made yet, or to which entries are added. *)
Making(s) ==
    /\ s \in State /\ s.dur.timer < 0 /\ s.dur.fault = "none" /\ Requests(s) = {}
    /\ s.dur.refcnt = 0 /\ s.dur.waiting = 0 /\ \A i \in Items : Blank(s.item[i])

(* It rests. *)
LEMMA MakingRest ==
  ASSUME NEW s
  PROVE  /\ Making(s) /\ s.dur.ph \in {"none", "open"} => Good(s)
         /\ Good(s) /\ (s.dur.ph = "open" \/ (s.dur.ph = "none" /\ s.dur.lasterr = "SUCCESS")) => Making(s)
BY SMTT(60) DEF Making, Good, Rest

(* Blank entries are fresh. *)
LEMMA BlankFresh == \A x : Blank(x) => Fresh(x)
BY ZenonT(60) DEF Blank, Fresh

(* lcb_durability_validate gives numbers or an error. *)
LEMMA ValidateIs ==
  ASSUME NEW m \in Maps, NEW persist \in Int, NEW replicate \in Int, NEW cap \in BOOLEAN
  PROVE  LET v == Validate(m, persist, replicate, cap)
         IN  v.rc \in {"SUCCESS", "REFUSED", "TOO_MANY"} /\ v.persist_to \in Int /\ v.replicate_to \in Int
<1> DEFINE a == NSlots - 1
           b == Cardinality(m.servers) - 1
           replicas == Min({a, b})
<1>1. a \in Int /\ b \in Int
  <2>1. NSlots \in Nat /\ m.servers \in SUBSET Nodes
    BY ZenonT(60), SlotsAre
  <2>2. IsFiniteSet(m.servers)
    BY ZenonT(60), <2>1, FiniteSets, FS_Subset
  <2>3. Cardinality(m.servers) \in Nat
    BY ZenonT(60), <2>2, FS_CardinalityType
  <2>4. QED
    BY SMTT(60), <2>1, <2>3
<1> HIDE DEF a, b
<1>2. replicas \in Int
  BY SMTT(60), <1>1 DEF Min
<1>3. Validate(m, persist, replicate, cap) =
        IF persist = 0 /\ replicate = 0
          THEN [rc |-> "REFUSED", persist_to |-> 0, replicate_to |-> 0]
        ELSE IF (persist > replicas + 1 /\ ~cap) \/ (replicate > replicas /\ ~cap)
          THEN [rc |-> "TOO_MANY", persist_to |-> 0, replicate_to |-> 0]
        ELSE [rc |-> "SUCCESS", persist_to |-> IF persist > replicas + 1 THEN replicas + 1 ELSE persist,
              replicate_to |-> IF replicate > replicas THEN replicas ELSE replicate]
  BY ZenonT(60) DEF Validate, a, b
<1> HIDE DEF replicas
<1>4. QED
  BY SMTT(60), <1>2, <1>3

(* lcb_endure3_ctxnew: a Durset, or an error. *)
Opened(r, s) ==
    /\ Making(r) /\ r.env = s.env /\ r.cfg = s.cfg /\ r.addr = s.addr /\ r.has = s.has /\ r.net = s.net
    /\ r.item = s.item /\ r.past = s.past
    /\ r.dur.ph = "open" \/ (r.dur.ph = "none" /\ r.dur.lasterr \in Codes \ {"SUCCESS"})

(* Nothing else changes. *)
LEMMA CreatedIs ==
  ASSUME NEW s, Making(s), s.dur.ph = "none", NEW refuse \in BOOLEAN
  PROVE  Opened(Created(s, refuse), s)
<1> DEFINE v == Validate(s.cfg, s.env.persist_to, s.env.replicate_to, s.env.cap)
           e == [s EXCEPT !.dur.lasterr = IF refuse THEN "REFUSED" ELSE v.rc]
           o == [s EXCEPT !.dur.ph = "open", !.dur.persist_to = v.persist_to,
                          !.dur.replicate_to = v.replicate_to]
<1>1. s \in State
  BY ZenonT(60) DEF Making
<1>2. v.rc \in {"SUCCESS", "REFUSED", "TOO_MANY"} /\ v.persist_to \in Int /\ v.replicate_to \in Int
  <2>1. s.cfg \in Maps /\ s.env \in EnvType
    BY ZenonT(60), <1>1 DEF State
  <2>2. s.env.persist_to \in 0..NSlots + 1 /\ s.env.replicate_to \in 0..NSlots + 1 /\ s.env.cap \in BOOLEAN
    BY ZenonT(60), <2>1 DEF EnvType
  <2>3. s.env.persist_to \in Int /\ s.env.replicate_to \in Int
    BY SMTT(60), <2>2
  <2>4. QED
    BY ZenonT(60), <2>1, <2>2, <2>3, ValidateIs
<1> HIDE DEF v
<1>3. CASE refuse \/ v.rc # "SUCCESS"
  <2> DEFINE c == IF refuse THEN "REFUSED" ELSE v.rc
  <2>1. c \in Codes \ {"SUCCESS"}
    BY <1>2, <1>3 DEF Codes
  <2>2. Created(s, refuse) = [s EXCEPT !.dur.lasterr = c]
    BY ZenonT(60), <1>3 DEF Created, v
  <2> HIDE DEF c
  <2> DEFINE r == [s EXCEPT !.dur.lasterr = c]
  <2>3. /\ r \in State /\ r.env = s.env /\ r.cfg = s.cfg /\ r.addr = s.addr /\ r.has = s.has /\ r.net = s.net
        /\ r.item = s.item /\ r.past = s.past /\ r.dur.lasterr = c
        /\ \A f \in {"ph", "timer", "fault", "refcnt", "waiting"} : r.dur[f] = s.dur[f]
    BY ZenonT(60), <1>1, <2>1 DEF State, Durs
  <2> HIDE DEF r
  <2>4. Making(r)
    BY ZenonT(60), <2>3 DEF Making, Requests
  <2>5. Opened(r, s)
    BY ZenonT(60), <2>1, <2>3, <2>4 DEF Opened
  <2>6. QED
    BY ZenonT(60), <2>2, <2>5 DEF r
<1>4. CASE ~refuse /\ v.rc = "SUCCESS"
  <2>1. Created(s, refuse) = o
    BY ZenonT(60), <1>4 DEF Created, v
  <2>2. /\ o \in State /\ o.env = s.env /\ o.cfg = s.cfg /\ o.addr = s.addr /\ o.has = s.has /\ o.net = s.net
        /\ o.item = s.item /\ o.past = s.past /\ o.dur.ph = "open"
        /\ \A f \in {"timer", "fault", "refcnt", "waiting"} : o.dur[f] = s.dur[f]
    BY ZenonT(60), <1>1, <1>2 DEF State, Durs
  <2> HIDE DEF o
  <2>3. Making(o)
    BY ZenonT(60), <2>2 DEF Making, Requests
  <2>4. QED
    BY ZenonT(60), <2>1, <2>2, <2>3 DEF Opened
<1>5. QED
  BY ZenonT(60), <1>3, <1>4

(* MCTX_add_endure: an entry is added. *)
LEMMA AddedIs ==
  ASSUME NEW s, Making(s), NEW i \in Items, NEW token \in BOOLEAN
  PROVE  LET r == Added(s, i, token)
         IN  /\ Making(r) /\ r.env = s.env /\ r.cfg = s.cfg /\ r.addr = s.addr /\ r.has = s.has
             /\ r.net = s.net /\ r.past = s.past /\ r.dur = s.dur /\ r.item[i].entry
<1> DEFINE x == s.item[i]
           y == [x EXCEPT !.entry = TRUE, !.token = token]
           r == Added(s, i, token)
           q == [s EXCEPT !.item[i] = y]
<1>1. s \in State /\ x \in Entry /\ Blank(x)
  BY ZenonT(60) DEF Making, State
<1>2. y \in Entry /\ y.entry = TRUE /\ Blank(y)
  <2>1. /\ y \in Entry /\ y.entry = TRUE
        /\ \A f \in {"done", "calls", "exists_master", "persisted_master", "npersisted", "nreplicated", "sinfo"} : y[f] = x[f]
    BY ZenonT(60), <1>1 DEF Entry
  <2> HIDE DEF x, y
  <2>2. QED
    BY ZenonT(60), <1>1, <2>1 DEF Blank
<1>3. r = q
  BY ZenonT(60), <1>1 DEF Added, State
<1> HIDE DEF y
<1>4. /\ q \in State /\ q.env = s.env /\ q.cfg = s.cfg /\ q.addr = s.addr /\ q.has = s.has
      /\ q.net = s.net /\ q.past = s.past /\ q.dur = s.dur /\ q.item[i] = y
      /\ \A j \in Items \ {i} : q.item[j] = s.item[j]
  BY ZenonT(60), <1>1, <1>2 DEF State
<1> HIDE DEF q, r
<1>5. Making(q)
  <2>1. \A j \in Items : Blank(q.item[j])
    BY ZenonT(60), <1>2, <1>4 DEF Making
  <2>2. QED
    BY ZenonT(60), <1>4, <2>1 DEF Making, Requests
<1>6. QED
  BY ZenonT(60), <1>2, <1>3, <1>4, <1>5 DEF r

(* MCTX_done: the first poll is due. *)
LEMMA StartIs ==
  ASSUME NEW s, Making(s), Entries(s) # {}
  PROVE  LET r == Start(s)
         IN  /\ Good(r) /\ r.dur.ph # "destroyed" /\ r.env = s.env /\ r.cfg = s.cfg /\ r.addr = s.addr /\ r.has = s.has
             /\ r.net = s.net /\ r.past = s.past /\ r.item = s.item
<1> DEFINE a == Incref(s)
           n == Cardinality(Entries(s))
           u == [a EXCEPT !.dur.ph = "polling", !.dur.left = Timeout, !.dur.nremaining = n]
           r == SwitchState(u, "INIT")
<1>1. s \in State
  BY ZenonT(60) DEF Making
<1>2. n \in Int /\ Timeout \in Int
  <2>1. n \in Nat
    BY ZenonT(60), FiniteSets, FS_CardinalityType
  <2>2. QED
    BY SMTT(60), <2>1, DurabilityAssumption
<1>3. Start(s) = r
  BY ZenonT(60) DEF Start
<1>4. OnlyDur(a, s) /\ SameDur(a, s) /\ a.dur.refcnt = s.dur.refcnt + 1
  BY ZenonT(60), <1>1, IncrefIs
<1> HIDE DEF a, n
<1>5. /\ OnlyDur(u, a) /\ u.dur.ph = "polling" /\ u.dur.nremaining = n
      /\ u.dur.waiting = a.dur.waiting /\ u.dur.refcnt = a.dur.refcnt /\ u.dur.fault = a.dur.fault
  <2>1. a \in State
    BY ZenonT(60), <1>4 DEF OnlyDur
  <2>2. QED
    BY ZenonT(60), <1>2, <2>1 DEF OnlyDur, State, Durs
<1> HIDE DEF u
<1>6. /\ OnlyDur(r, u) /\ SameDur(r, u) /\ r.dur.refcnt = u.dur.refcnt /\ r.dur.ph = u.dur.ph
      /\ r.dur.timer >= 0 /\ r.dur.next # "IGNORE"
      /\ r.dur.next = "TIMEOUT" => r.dur.left - r.dur.timer <= Interval
  <2>1. u \in State /\ "INIT" \in {"INIT", "OBSPOLL", "TIMEOUT"}
    BY ZenonT(60), <1>5 DEF OnlyDur
  <2>2. QED
    BY ZenonT(60), <2>1, SwitchIs
<1> HIDE DEF r
<1>7. OnlyDur(r, s)
  <2>1. OnlyDur(u, s)
    BY ZenonT(60), <1>4, <1>5, OnlyDurTransitive
  <2>2. QED
    BY ZenonT(60), <1>6, <2>1, OnlyDurTransitive
<1>8. Requests(r) = {} /\ Entries(r) = Entries(s) /\ Todo(r) = Entries(s) /\ r.item = s.item /\ r \in State
  <2>1. Requests(r) = Requests(s) /\ Entries(r) = Entries(s) /\ Todo(r) = Todo(s)
    BY ZenonT(60), <1>7, OnlyDurSets
  <2>2. Todo(s) = Entries(s)
    BY ZenonT(60) DEF Todo, Entries, Making, Blank
  <2>3. QED
    BY ZenonT(60), <1>7, <2>1, <2>2 DEF OnlyDur, Making
<1>9. /\ r.dur.waiting = 0 /\ r.dur.nremaining = Cardinality(Todo(r)) /\ r.dur.fault = "none"
      /\ r.dur.refcnt = s.dur.refcnt + 1 /\ s.dur.refcnt = 0 /\ r.dur.ph = "polling"
  BY ZenonT(60), <1>4, <1>5, <1>6, <1>8 DEF SameDur, Making, n
<1>10. Balanced(r, 0, 0)
  <2>1. Cardinality(Requests(r)) = 0
    BY ZenonT(60), <1>8, FS_EmptySet
  <2>2. Todo(r) # {}
    BY ZenonT(60), <1>8
  <2>3. QED
    BY SMTT(60), <1>8, <1>9, <2>1, <2>2 DEF Balanced, One
<1>11. Timing(r)
  BY SMTT(60), <1>6, <1>9 DEF Timing
<1>12. Good(r)
  BY ZenonT(60), <1>6, <1>8, <1>9, <1>10, <1>11 DEF Good, Rest
<1>13. QED
  BY ZenonT(60), <1>3, <1>7, <1>9, <1>12 DEF OnlyDur

(* ~Durset, of one that has made no request. *)
LEMMA DeleteIs ==
  ASSUME NEW s, Making(s)
  PROVE  LET r == Delete(s)
         IN  /\ OnlyDur(r, s) /\ Good(r) /\ r.dur.ph = "deleted"
             /\ \A f \in DOMAIN s.dur \ {"ph", "timer"} : r.dur[f] = s.dur[f]
<1> DEFINE r == Delete(s)
<1>1. s \in State /\ NotArmed \in Int /\ NotArmed < 0
  BY DEF Making, NotArmed
<1>2. /\ OnlyDur(r, s) /\ r.dur.ph = "deleted" /\ r.dur.timer = NotArmed /\ r.dur.fault = s.dur.fault
      /\ \A f \in DOMAIN s.dur \ {"ph", "timer"} : r.dur[f] = s.dur[f]
  BY ZenonT(60), <1>1 DEF OnlyDur, State, Durs, Delete
<1> HIDE DEF r
<1>3. Requests(r) = {} /\ r.dur.fault = "none" /\ r.dur.timer < 0
  <2>1. Requests(r) = Requests(s)
    BY ZenonT(60), <1>2, OnlyDurSets
  <2>2. QED
    BY ZenonT(60), <1>1, <1>2, <2>1 DEF Making
<1>4. Good(r)
  BY SMTT(60), <1>2, <1>3 DEF Good, Rest, OnlyDur
<1>5. QED
  BY ZenonT(60), <1>2, <1>4 DEF r

(* The calls that make a Durset, by themselves. *)
LEMMA SetStep ==
  ASSUME Good(Now), \/ \E refuse \in BOOLEAN : CtxNew(refuse)
                    \/ \E i \in Items, token \in BOOLEAN : AddEndure(i, token)
                    \/ MctxDone \/ MctxFail
  PROVE  Good(Now') /\ Sets(Now', Now)
<1> DEFINE s == Now
<1>1. Making(s) /\ (s.dur.ph = "open" \/ s.dur.ph = "none")
  <2>1. s.dur.ph = "open" \/ (s.dur.ph = "none" /\ s.dur.lasterr = "SUCCESS")
    BY ZenonT(60) DEF CtxNew, AddEndure, MctxDone, MctxFail, Now
  <2> HIDE DEF s
  <2>2. QED
    BY ZenonT(60), <2>1, MakingRest DEF s
<1>2. SUFFICES ASSUME NEW r, Become(r), Good(r), r.dur.ph # "destroyed", r.env = s.env, r.cfg = s.cfg, r.addr = s.addr, r.has = s.has,
                      r.net = s.net, r.past = s.past, \A i \in Items : Blank(r.item[i])
               PROVE  Good(Now') /\ Sets(Now', Now)
  <2>1. CASE \E refuse \in BOOLEAN : CtxNew(refuse)
    <3>1. PICK refuse \in BOOLEAN : CtxNew(refuse)
      BY ZenonT(60), <2>1
    <3> DEFINE r == Created(s, refuse)
    <3>2. Become(r) /\ s.dur.ph = "none"
      BY ZenonT(60), <3>1 DEF CtxNew, Now
    <3> HIDE DEF s
    <3>3. Opened(r, s)
      BY ZenonT(60), <1>1, <3>2, CreatedIs
    <3> HIDE DEF r
    <3>4. Good(r) /\ r.dur.ph # "destroyed" /\ \A i \in Items : Blank(r.item[i])
      <4>1. Making(r) /\ r.dur.ph \in {"none", "open"}
        BY ZenonT(60), <3>3 DEF Opened
      <4>2. QED
        BY ZenonT(60), <4>1, MakingRest DEF Making
    <3>5. QED
      BY ZenonT(60), <1>2, <3>2, <3>3, <3>4 DEF Opened
  <2>2. CASE \E i \in Items, token \in BOOLEAN : AddEndure(i, token)
    <3>1. PICK i \in Items, token \in BOOLEAN : AddEndure(i, token)
      BY ZenonT(60), <2>2
    <3> DEFINE r == Added(s, i, token)
    <3>2. Become(r)
      BY ZenonT(60), <3>1 DEF AddEndure
    <3> HIDE DEF s
    <3>3. /\ Making(r) /\ r.env = s.env /\ r.cfg = s.cfg /\ r.addr = s.addr /\ r.has = s.has
          /\ r.net = s.net /\ r.past = s.past /\ r.dur = s.dur
      BY ZenonT(60), <1>1, AddedIs
    <3> HIDE DEF r
    <3>4. Good(r) /\ r.dur.ph # "destroyed" /\ \A j \in Items : Blank(r.item[j])
      <4>1. Making(r) /\ r.dur.ph \in {"none", "open"}
        BY ZenonT(60), <1>1, <3>3
      <4>2. QED
        BY ZenonT(60), <4>1, MakingRest DEF Making
    <3>5. QED
      BY ZenonT(60), <1>2, <3>2, <3>3, <3>4
  <2>3. CASE MctxDone /\ Entries(s) # {}
    <3> DEFINE r == Start(s)
    <3>1. Become(r)
      BY ZenonT(60), <2>3 DEF MctxDone
    <3> HIDE DEF s
    <3>2. /\ Good(r) /\ r.dur.ph # "destroyed" /\ r.env = s.env /\ r.cfg = s.cfg /\ r.addr = s.addr /\ r.has = s.has
          /\ r.net = s.net /\ r.past = s.past /\ r.item = s.item
      BY ZenonT(60), <1>1, <2>3, StartIs
    <3> HIDE DEF r
    <3>3. QED
      BY ZenonT(60), <1>1, <1>2, <3>1, <3>2 DEF Making
  <2>4. CASE MctxFail \/ (MctxDone /\ Entries(s) = {})
    <3> DEFINE r == Delete(s)
    <3>1. Become(r)
      BY ZenonT(60), <2>4 DEF MctxDone, MctxFail
    <3> HIDE DEF s
    <3>2. OnlyDur(r, s) /\ Good(r) /\ r.dur.ph # "destroyed"
      BY ZenonT(60), <1>1, DeleteIs
    <3> HIDE DEF r
    <3>3. QED
      BY ZenonT(60), <1>1, <1>2, <3>1, <3>2 DEF Making, OnlyDur
  <2>5. QED
    BY ZenonT(60), <2>1, <2>2, <2>3, <2>4
<1> HIDE DEF s
<1>3. Sets(r, s)
  <2>1. \A i \in Items : Fresh(r.item[i])
    BY ZenonT(60), <1>2, BlankFresh
  <2>2. QED
    BY ZenonT(60), <1>1, <1>2, <2>1 DEF Sets, Cluster
<1>4. Now' = r
  BY ZenonT(60), <1>2, BecomeIs DEF Good
<1>5. QED
  BY ZenonT(60), <1>2, <1>3, <1>4 DEF s

(* The callback of a store whose durability cannot be checked. *)
LEMMA BailIs ==
  ASSUME NEW t \in State, \A i \in Items : Blank(t.item[i]), NEW err \in Codes \ {"SUCCESS"},
         Rest(t), t.dur.ph \in {"none", "deleted"}, t.dur.ph = "none" => t.dur.lasterr # "SUCCESS"
  PROVE  LET r == [t EXCEPT !.item[1].calls = @ + 1, !.item[1].done = TRUE, !.item[1].rc = err]
         IN  /\ Good(r) /\ r.dur.ph # "destroyed" /\ r.env = t.env /\ r.cfg = t.cfg /\ r.addr = t.addr /\ r.has = t.has
             /\ r.net = t.net /\ r.past = t.past /\ \A i \in Items : Fresh(r.item[i])
<1> DEFINE x == t.item[1]
           y == [x EXCEPT !.calls = x.calls + 1, !.done = TRUE, !.rc = err]
           r == [t EXCEPT !.item[1].calls = @ + 1, !.item[1].done = TRUE, !.item[1].rc = err]
           q == [t EXCEPT !.item[1] = y]
<1>1. 1 \in Items
  BY FS_EmptySet, FS_CardinalityType, DurabilityAssumption
<1>2. x \in Entry /\ Blank(x)
  BY ZenonT(60), <1>1 DEF State
<1>3. y \in Entry /\ Fresh(y)
  <2>1. x.calls + 1 \in Nat
    BY SMTT(60), <1>2 DEF Entry
  <2>2. /\ y \in Entry /\ y.done = TRUE /\ y.rc = err
        /\ \A f \in {"exists_master", "persisted_master", "npersisted", "nreplicated", "sinfo"} : y[f] = x[f]
    BY ZenonT(60), <1>2, <2>1 DEF Entry
  <2> HIDE DEF x, y
  <2>3. QED
    BY ZenonT(60), <1>2, <2>2 DEF Fresh, Blank
<1>4. r = q
  BY ZenonT(60), <1>1, <1>2 DEF State, Entry
<1> HIDE DEF y
<1>5. /\ q \in State /\ q.env = t.env /\ q.cfg = t.cfg /\ q.addr = t.addr /\ q.has = t.has
      /\ q.net = t.net /\ q.past = t.past /\ q.dur = t.dur /\ q.item[1] = y
      /\ \A j \in Items \ {1} : q.item[j] = t.item[j]
  BY ZenonT(60), <1>1, <1>3 DEF State
<1> HIDE DEF q, r
<1>6. \A i \in Items : Fresh(q.item[i])
  BY ZenonT(60), <1>3, <1>5, BlankFresh
<1>7. Good(q)
  <2>1. Requests(q) = Requests(t)
    BY ZenonT(60), <1>5 DEF Requests
  <2>2. QED
    BY SMTT(60), <1>5, <2>1 DEF Good, Rest
<1>8. QED
  BY ZenonT(60), <1>4, <1>5, <1>6, <1>7 DEF r

(* The callback of a store that is to be durable. *)
LEMMA StoreStep ==
  ASSUME Good(Now), NEW refuse \in BOOLEAN, NEW token \in BOOLEAN, DurStore(refuse, token)
  PROVE  Good(Now') /\ Sets(Now', Now)
<1> DEFINE s == Now
           o == Created(s, refuse)
           Bail(t, err) == [t EXCEPT !.item[1].calls = @ + 1, !.item[1].done = TRUE, !.item[1].rc = err]
           r == IF o.dur.ph # "open" THEN Bail(o, o.dur.lasterr)
                ELSE IF ~token THEN Bail(Delete(Added(o, 1, FALSE)), "REFUSED")
                ELSE Start(Added(o, 1, TRUE))
<1>1. Making(s) /\ s.dur.ph = "none"
  <2>1. s.dur.ph = "none" /\ s.dur.lasterr = "SUCCESS"
    BY ZenonT(60) DEF DurStore, Now
  <2> HIDE DEF s
  <2>2. QED
    BY ZenonT(60), <2>1, MakingRest DEF s
<1>2. Become(r)
  BY ZenonT(60) DEF DurStore
<1> HIDE DEF s
<1>3. Opened(o, s)
  BY ZenonT(60), <1>1, CreatedIs
<1>4. 1 \in Items
  BY FS_EmptySet, FS_CardinalityType, DurabilityAssumption
<1> HIDE DEF o
<1>5. /\ Good(r) /\ r.dur.ph # "destroyed" /\ r.env = s.env /\ r.cfg = s.cfg /\ r.addr = s.addr /\ r.has = s.has
      /\ r.net = s.net /\ r.past = s.past /\ \A i \in Items : Fresh(r.item[i])
  <2>1. CASE o.dur.ph # "open"
    <3>1. r = Bail(o, o.dur.lasterr)
      BY ZenonT(60), <2>1
    <3>2. o.dur.ph = "none" /\ o.dur.lasterr \in Codes \ {"SUCCESS"} /\ Making(o)
      BY ZenonT(60), <1>3, <2>1 DEF Opened
    <3>3. Rest(o) /\ o \in State /\ \A i \in Items : Blank(o.item[i])
      BY ZenonT(60), <3>2, MakingRest DEF Good, Making
    <3> HIDE DEF r
    <3>4. /\ Good(r) /\ r.dur.ph # "destroyed" /\ r.env = o.env /\ r.cfg = o.cfg /\ r.addr = o.addr /\ r.has = o.has
          /\ r.net = o.net /\ r.past = o.past /\ \A i \in Items : Fresh(r.item[i])
      BY ZenonT(60), <3>1, <3>2, <3>3, BailIs
    <3>5. QED
      BY ZenonT(60), <1>3, <3>4 DEF Opened
  <2>2. CASE o.dur.ph = "open" /\ ~token
    <3> DEFINE a == Added(o, 1, FALSE)
               d == Delete(a)
    <3>1. r = Bail(d, "REFUSED")
      BY ZenonT(60), <2>2
    <3>2. /\ Making(a) /\ a.env = o.env /\ a.cfg = o.cfg /\ a.addr = o.addr /\ a.has = o.has
          /\ a.net = o.net /\ a.past = o.past
      BY ZenonT(60), <1>3, <1>4, AddedIs DEF Opened
    <3> HIDE DEF a
    <3>3. OnlyDur(d, a) /\ Good(d) /\ d.dur.ph = "deleted"
      BY ZenonT(60), <3>2, DeleteIs
    <3> HIDE DEF d, r
    <3>4. Rest(d) /\ d \in State /\ \A i \in Items : Blank(d.item[i])
      BY ZenonT(60), <3>2, <3>3 DEF Good, Making, OnlyDur
    <3>5. "REFUSED" \in Codes \ {"SUCCESS"}
      BY DEF Codes
    <3>6. /\ Good(r) /\ r.dur.ph # "destroyed" /\ r.env = d.env /\ r.cfg = d.cfg /\ r.addr = d.addr /\ r.has = d.has
          /\ r.net = d.net /\ r.past = d.past /\ \A i \in Items : Fresh(r.item[i])
      <4>1. d.dur.ph \in {"none", "deleted"} /\ (d.dur.ph = "none" => d.dur.lasterr # "SUCCESS")
        BY <3>3
      <4>2. QED
        BY ZenonT(60), <3>1, <3>4, <3>5, <4>1, BailIs
    <3>7. QED
      BY ZenonT(60), <1>3, <3>2, <3>3, <3>6 DEF Opened, OnlyDur
  <2>3. CASE o.dur.ph = "open" /\ token
    <3> DEFINE a == Added(o, 1, TRUE)
    <3>1. r = Start(a)
      BY ZenonT(60), <2>3
    <3>2. /\ Making(a) /\ a.env = o.env /\ a.cfg = o.cfg /\ a.addr = o.addr /\ a.has = o.has
          /\ a.net = o.net /\ a.past = o.past /\ a.item[1].entry
      BY ZenonT(60), <1>3, <1>4, AddedIs DEF Opened
    <3> HIDE DEF a, r
    <3>3. Entries(a) # {}
      BY ZenonT(60), <1>4, <3>2 DEF Entries
    <3>4. /\ Good(r) /\ r.dur.ph # "destroyed" /\ r.env = a.env /\ r.cfg = a.cfg /\ r.addr = a.addr /\ r.has = a.has
          /\ r.net = a.net /\ r.past = a.past /\ r.item = a.item
      BY ZenonT(60), <3>1, <3>2, <3>3, StartIs
    <3>5. \A i \in Items : Fresh(r.item[i])
      BY ZenonT(60), <3>2, <3>4, BlankFresh DEF Making
    <3>6. QED
      BY ZenonT(60), <1>3, <3>2, <3>4, <3>5 DEF Opened
  <2>4. QED
    BY ZenonT(60), <2>1, <2>2, <2>3
<1> HIDE DEF r
<1>6. Sets(r, s)
  BY ZenonT(60), <1>1, <1>5 DEF Sets, Cluster
<1>7. Now' = r
  BY ZenonT(60), <1>2, <1>5, BecomeIs DEF Good
<1>8. QED
  BY ZenonT(60), <1>5, <1>6, <1>7 DEF s

-----------------------------------------------------------------------------
(* A node gets the mutation, writes it to its disk, or fails over. *)
LEMMA GainsStep ==
  ASSUME Good(Now), NEW n \in Nodes, NEW i \in Items, NodeStores(n, i) \/ Failover(n, i)
  PROVE  Good(Now') /\ Gains(Now', Now)
<1> DEFINE s == Now
           v == s.has[n][i]
<1>1. s \in State /\ Rest(s) /\ s.dur.ph = "polling" /\ v \in What
  <2>1. s \in State /\ Rest(s) /\ s.dur.ph = "polling"
    BY ZenonT(60) DEF NodeStores, Failover, Polled, Good, Now
  <2> HIDE DEF s
  <2>2. QED
    BY ZenonT(60), <2>1 DEF State
<1>2. PICK w \in What : /\ Become([s EXCEPT !.has[n][i] = w])
                        /\ v \in Holding => w \in Holding
                        /\ v \in OnDisk => w \in OnDisk
                        /\ w = "old mem" => "mem" \in s.env.failover
  <2>1. CASE NodeStores(n, i)
    <3>1. /\ v \in {"none", "mem", "old mem"}
          /\ Become([s EXCEPT !.has[n][i] = CASE @ = "none" -> "mem"
                                              [] @ = "mem" -> "disk"
                                              [] OTHER -> "old disk"])
      <4>1. v = has[n][i]
        BY ZenonT(60) DEF Now
      <4>2. QED
        BY ZenonT(60), <2>1, <4>1 DEF NodeStores
    <3> HIDE DEF s
    <3>2. CASE v = "none"
      <4>1. Become([s EXCEPT !.has[n][i] = "mem"])
        BY ZenonT(60), <3>1, <3>2
      <4>2. "mem" \in What /\ "none" \notin Holding /\ "none" \notin OnDisk /\ "mem" # "old mem"
        BY ZenonT(60) DEF What, Holding, OnDisk
      <4>3. QED
        BY ZenonT(60), <3>2, <4>1, <4>2
    <3>3. CASE v = "mem"
      <4>1. Become([s EXCEPT !.has[n][i] = "disk"])
        BY ZenonT(60), <3>1, <3>3
      <4>2. "disk" \in What /\ "disk" \in Holding /\ "disk" \in OnDisk /\ "disk" # "old mem"
        BY ZenonT(60) DEF What, Holding, OnDisk
      <4>3. QED
        BY ZenonT(60), <4>1, <4>2
    <3>4. CASE v = "old mem"
      <4>1. Become([s EXCEPT !.has[n][i] = "old disk"])
        BY ZenonT(60), <3>1, <3>4
      <4>2. "old disk" \in What /\ "old disk" \in Holding /\ "old disk" \in OnDisk /\ "old disk" # "old mem"
        BY ZenonT(60) DEF What, Holding, OnDisk
      <4>3. QED
        BY ZenonT(60), <4>1, <4>2
    <3>5. QED
      BY ZenonT(60), <3>1, <3>2, <3>3, <3>4
  <2>2. CASE Failover(n, i)
    <3>1. \/ /\ v = "none" /\ Become([s EXCEPT !.has[n][i] = "lost"])
          \/ /\ v \in s.env.failover
             /\ Become([s EXCEPT !.has[n][i] = IF @ = "mem" THEN "old mem" ELSE "old disk"])
      <4>1. v = has[n][i] /\ s.env = env
        BY ZenonT(60) DEF Now
      <4>2. QED
        BY ZenonT(60), <2>2, <4>1 DEF Failover
    <3> HIDE DEF s
    <3>2. CASE v = "none" /\ Become([s EXCEPT !.has[n][i] = "lost"])
      <4>1. "lost" \in What /\ "none" \notin Holding /\ "none" \notin OnDisk /\ "lost" # "old mem"
        BY ZenonT(60) DEF What, Holding, OnDisk
      <4>2. QED
        BY ZenonT(60), <3>2, <4>1
    <3>3. CASE v \in s.env.failover /\ Become([s EXCEPT !.has[n][i] = IF @ = "mem" THEN "old mem" ELSE "old disk"])
      <4>1. CASE v = "mem"
        <5>1. Become([s EXCEPT !.has[n][i] = "old mem"])
          BY ZenonT(60), <3>3, <4>1
        <5>2. "old mem" \in What /\ "old mem" \in Holding /\ "mem" \notin OnDisk
          BY ZenonT(60) DEF What, Holding, OnDisk
        <5>3. QED
          BY ZenonT(60), <3>3, <4>1, <5>1, <5>2
      <4>2. CASE v # "mem"
        <5>1. Become([s EXCEPT !.has[n][i] = "old disk"])
          BY ZenonT(60), <3>3, <4>2
        <5>2. "old disk" \in What /\ "old disk" \in Holding /\ "old disk" \in OnDisk /\ "old disk" # "old mem"
          BY ZenonT(60) DEF What, Holding, OnDisk
        <5>3. QED
          BY ZenonT(60), <5>1, <5>2
      <4>3. QED
        BY ZenonT(60), <4>1, <4>2
    <3>4. QED
      BY ZenonT(60), <3>1, <3>2, <3>3
  <2>3. QED
    BY ZenonT(60), <2>1, <2>2
<1> HIDE DEF s
<1> DEFINE r == [s EXCEPT !.has[n][i] = w]
<1>3. /\ r \in State /\ r.env = s.env /\ r.cfg = s.cfg /\ r.addr = s.addr /\ r.net = s.net /\ r.dur = s.dur
      /\ r.item = s.item /\ r.past = s.past
      /\ \A o \in Nodes, j \in Items : r.has[o][j] = IF o = n /\ j = i THEN w ELSE s.has[o][j]
  BY ZenonT(60), <1>1 DEF State
<1>4. Now' = r
  BY ZenonT(60), <1>2, <1>3, BecomeIs
<1> HIDE DEF r
<1>5. Good(r)
  <2>1. Kept(r, s) /\ Requests(r) = Requests(s)
    BY ZenonT(60), <1>3 DEF Kept, Requests
  <2>2. QED
    BY ZenonT(60), <1>1, <1>3, <2>1, KeptRest DEF Good
<1>6. Gains(r, s)
  <2>1. ASSUME NEW o \in Nodes, NEW j \in Items
        PROVE  /\ s.has[o][j] \in Holding => r.has[o][j] \in Holding
               /\ s.has[o][j] \in OnDisk => r.has[o][j] \in OnDisk
               /\ r.has[o][j] = "old mem" => s.has[o][j] = "old mem" \/ "mem" \in s.env.failover
    <3>1. CASE o = n /\ j = i
      BY ZenonT(60), <1>2, <1>3, <3>1
    <3>2. CASE ~(o = n /\ j = i)
      BY ZenonT(60), <1>3, <3>2
    <3>3. QED
      BY ZenonT(60), <3>1, <3>2
  <2>2. QED
    BY ZenonT(60), <1>3, <2>1 DEF Gains
<1>7. QED
  BY ZenonT(60), <1>4, <1>5, <1>6 DEF s

(* The instance is destroyed. *)
LEMMA DestroyStep ==
  ASSUME Good(Now), Destroy
  PROVE  Good(Now') /\ Destroys(Now', Now)
<1> DEFINE s == Now
           held == \E i \in Items, n \in Nodes : s.net[i][n] = RetryQ
           none == [i \in Items |-> [n \in Nodes |-> NoNode]]
           fault == IF held THEN "deleted" ELSE s.dur.fault
           d == Delete(s)
           r == [d EXCEPT !.dur.ph = "destroyed", !.dur.fault = IF held THEN "deleted" ELSE @, !.net = none]
<1>1. s \in State /\ Rest(s) /\ s.env.destroys /\ Become(r)
  BY ZenonT(60) DEF Destroy, Good, Now
<1> HIDE DEF s, held
<1>2. none \in [Items -> [Nodes -> Places]] /\ NotArmed \in Int
  BY DEF Places, NotArmed
<1>3. fault \in {"none", "assertion", "deleted"}
  BY ZenonT(60), <1>1 DEF State, Durs
<1>4. OnlyDur(d, s) /\ d.dur.timer = NotArmed /\ d.dur.fault = s.dur.fault
  BY ZenonT(60), <1>1, <1>2 DEF OnlyDur, State, Durs, Delete
<1> HIDE DEF d
<1>5. r = [d EXCEPT !.dur.ph = "destroyed", !.dur.fault = fault, !.net = none]
  <2>1. d \in State
    BY ZenonT(60), <1>4 DEF OnlyDur
  <2>2. QED
    BY ZenonT(60), <1>4, <2>1 DEF State, Durs
<1> HIDE DEF fault, none, r
<1>6. /\ r \in State /\ r.env = d.env /\ r.cfg = d.cfg /\ r.addr = d.addr /\ r.has = d.has /\ r.past = d.past
      /\ r.item = d.item /\ r.net = none /\ r.dur.ph = "destroyed" /\ r.dur.fault = fault
      /\ r.dur.persist_to = d.dur.persist_to /\ r.dur.replicate_to = d.dur.replicate_to
      /\ r.dur.timer = d.dur.timer
  <2>1. d \in State
    BY ZenonT(60), <1>4 DEF OnlyDur
  <2>2. QED
    BY ZenonT(60), <1>2, <1>3, <1>5, <2>1 DEF State, Durs
<1>7. Requests(r) = {}
  <2>1. \A q \in Items \X Nodes : none[q[1]][q[2]] = NoNode
    BY SMTT(60) DEF none
  <2>2. QED
    BY ZenonT(60), <1>6, <2>1 DEF Requests
<1>8. Good(r)
  <2>1. r.dur.timer < 0
    BY <1>4, <1>6 DEF NotArmed
  <2>2. QED
    BY SMTT(60), <1>6, <1>7, <2>1 DEF Good, Rest
<1>9. Destroys(r, s)
  BY ZenonT(60), <1>1, <1>4, <1>6 DEF Destroys, OnlyDur, Cluster, Options, none, fault, held
<1>10. Now' = r
  BY ZenonT(60), <1>1, <1>6, BecomeIs
<1>11. QED
  BY ZenonT(60), <1>8, <1>9, <1>10 DEF s

(* Time passes. *)
LEMMA PassStep ==
  ASSUME Good(Now), Pass
  PROVE  Good(Now') /\ Waits(Now', Now)
<1> DEFINE s == Now
           timer == Max({0, s.dur.timer - 1})
           left == IF s.dur.left >= 0 THEN s.dur.left - 1 ELSE s.dur.left
           r == [s EXCEPT !.dur.timer = timer, !.dur.left = left]
<1>1. s \in State /\ Rest(s) /\ s.dur.ph = "polling" /\ s.dur.timer >= 0 /\ s.dur = dur
  BY ZenonT(60) DEF Pass, Good, Now
<1>2. Become(r)
  <2>1. r = [s EXCEPT !.dur.timer = Max({0, @ - 1}), !.dur.left = IF @ >= 0 THEN @ - 1 ELSE @]
    <3> HIDE DEF s
    <3>1. QED
      BY ZenonT(60), <1>1 DEF State, Durs
  <2>2. QED
    BY ZenonT(60), <2>1 DEF Pass
<1> HIDE DEF s
<1>3. s.dur.timer \in Int /\ s.dur.left \in Int /\ Interval \in Nat
  BY ZenonT(60), <1>1, DurabilityAssumption DEF State, Durs
<1>4. timer \in Int /\ timer >= 0 /\ timer >= s.dur.timer - 1
  <2> DEFINE k == s.dur.timer - 1
  <2>1. k \in Int
    BY SMTT(60), <1>3
  <2> HIDE DEF k
  <2>2. Max({0, k}) \in Int /\ Max({0, k}) >= 0 /\ Max({0, k}) >= k
    BY SMTT(60), <2>1 DEF Max
  <2>3. QED
    BY ZenonT(60), <2>2 DEF k
<1> HIDE DEF timer
<1>5. left \in Int /\ (s.dur.left - s.dur.timer <= Interval => left - timer <= Interval)
  BY SMTT(60), <1>3, <1>4
<1> HIDE DEF left
<1>6. /\ OnlyDur(r, s) /\ r.dur.timer = timer /\ r.dur.left = left
      /\ \A f \in {"ph", "waiting", "nremaining", "refcnt", "next", "fault"} : r.dur[f] = s.dur[f]
  BY ZenonT(60), <1>1, <1>4, <1>5 DEF OnlyDur, State, Durs
<1> HIDE DEF r
<1>7. Requests(r) = Requests(s) /\ Todo(r) = Todo(s) /\ r.item = s.item /\ r \in State
  <2>1. Requests(r) = Requests(s) /\ Todo(r) = Todo(s)
    BY ZenonT(60), <1>6, OnlyDurSets
  <2>2. QED
    BY ZenonT(60), <1>6, <2>1 DEF OnlyDur
<1>8. Balanced(s, 0, 0) /\ Timing(s) /\ (Todo(s) # {} \/ s.dur.waiting > 0)
  BY ZenonT(60), <1>1 DEF Rest
<1>9. Balanced(r, 0, 0)
  BY ZenonT(60), <1>6, <1>7, <1>8 DEF Balanced
<1>10. Timing(r) /\ r.dur.timer >= 0
  <2>1. s.dur.next # "IGNORE" /\ s.dur.waiting \in Int
    BY SMTT(60), <1>1, <1>3, <1>8 DEF Timing, State, Durs
  <2>2. /\ s.dur.waiting > 0 => s.dur.next \in {"TIMEOUT", "IGNORE"}
        /\ s.dur.next = "TIMEOUT" => left - timer <= Interval
    BY ZenonT(60), <1>1, <1>5, <1>8 DEF Timing
  <2>3. r.dur.next = s.dur.next /\ r.dur.waiting = s.dur.waiting
    BY ZenonT(60), <1>6
  <2>4. QED
    BY SMTT(60), <1>4, <1>6, <2>1, <2>2, <2>3 DEF Timing
<1>11. Good(r)
  BY ZenonT(60), <1>1, <1>6, <1>7, <1>8, <1>9, <1>10 DEF Good, Rest
<1>12. Waits(r, s)
  BY ZenonT(60), <1>6 DEF Waits, OnlyDur, Cluster, Options
<1>13. Now' = r
  BY ZenonT(60), <1>2, <1>7, BecomeIs
<1>14. QED
  BY ZenonT(60), <1>11, <1>12, <1>13 DEF s

-----------------------------------------------------------------------------
(* Every step has one of the effects and leaves the counters exact.        *)
LEMMA Steps ==
  ASSUME Good(Now), [Next]_vars
  PROVE  Good(Now') /\ Effect(Now', Now)
<1>1. ASSUME UNCHANGED vars PROVE Good(Now') /\ Waits(Now', Now)
  <2>1. Now' = Now
    BY ZenonT(60), <1>1 DEF vars, Now
  <2>2. QED
    BY ZenonT(60), <2>1 DEF Waits, Cluster, Options
<1>2. ASSUME \/ \E refuse \in BOOLEAN : CtxNew(refuse)
             \/ \E i \in Items, token \in BOOLEAN : AddEndure(i, token)
             \/ MctxDone \/ MctxFail
      PROVE  Good(Now') /\ Sets(Now', Now)
  BY ZenonT(60), <1>2, SetStep
<1>3. ASSUME NEW refuse \in BOOLEAN, NEW token \in BOOLEAN, DurStore(refuse, token)
      PROVE  Good(Now') /\ Sets(Now', Now)
  BY ZenonT(60), <1>3, StoreStep
<1>4. ASSUME TimerFires PROVE Good(Now') /\ (Polls(Now', Now) \/ TimesOut(Now', Now))
  BY ZenonT(60), <1>4, TimerStep
<1>5. ASSUME NEW i \in Items, NEW n \in Nodes, Answer(i, n) PROVE Good(Now') /\ Answers(Now', Now, i, n)
  BY ZenonT(60), <1>5, AnswerStep
<1>6. ASSUME NEW i \in Items, NEW n \in Nodes, RequestFails(i, n) \/ RetryFails(i, n)
      PROVE  Good(Now') /\ Fails(Now', Now, i, n)
  BY ZenonT(60), <1>6, FailsStep
<1>7. ASSUME NEW i \in Items, NEW n \in Nodes, Retry(i, n) \/ RetryFlush(i, n)
      PROVE  Good(Now') /\ Resends(Now', Now, i, n)
  BY ZenonT(60), <1>7, ResendsStep
<1>8. ASSUME NEW m \in Maps, MapChange(m) PROVE Good(Now') /\ Remaps(Now', Now)
  BY ZenonT(60), <1>8, MapStep
<1>9. ASSUME NEW n \in Nodes, NEW i \in Items, NodeStores(n, i) \/ Failover(n, i)
      PROVE  Good(Now') /\ Gains(Now', Now)
  BY ZenonT(60), <1>9, GainsStep
<1>10. ASSUME Destroy PROVE Good(Now') /\ Destroys(Now', Now)
  BY ZenonT(60), <1>10, DestroyStep
<1>11. ASSUME Pass PROVE Good(Now') /\ Waits(Now', Now)
  BY ZenonT(60), <1>11, PassStep
<1>12. QED
  BY ZenonT(60), <1>1, <1>2, <1>3, <1>4, <1>5, <1>6, <1>7, <1>8, <1>9, <1>10, <1>11 DEF Next, Effect
=============================================================================
