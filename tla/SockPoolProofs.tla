--------------------------- MODULE SockPoolProofs ---------------------------
(***************************************************************************)
(* The invariant of SockPool is preserved by the loops that invoke         *)
(* handlers, by the shutdown and by get(); the safety theorems, for any    *)
(* number of requests, addresses and environments.                         *)
(***************************************************************************)
EXTENDS SockPoolInv

(* An iteration of connection_available preserves the invariant.           *)
LEMMA AvailableStep ==
  ASSUME IInv, ConnectionAvailable
  PROVE  IInv'
<1>1. PICK c, r : c = ll_idle[Len(ll_idle)] /\ r = Head(requests)
  BY ZenonT(60)
<1>2. /\ loop.kind = "available" /\ requests # <<>> /\ ll_idle # <<>>
      /\ requests' = Tail(requests) /\ ll_idle' = SubSeq(ll_idle, 1, Len(ll_idle) - 1)
      /\ info' = [info EXCEPT ![c] = "LEASED"] /\ idle_timer' = idle_timer \ {c}
      /\ req' = [req EXCEPT ![r] = [state |-> "called", sock |-> None]]
      /\ held' = (IF c = None THEN held ELSE held \cup {c})
      /\ loop' = [loop EXCEPT !.user = TRUE]
      /\ UNCHANGED <<env, cs, ll_pending, async, n_total, hostref, poolref, down>>
  BY ZenonT(60), <1>1 DEF ConnectionAvailable, Invoked, counters
<1>3. /\ requests \in Seq(Reqs) /\ NoDup(requests) /\ ll_idle \in Seq(Conns) /\ NoDup(ll_idle)
      /\ info \in [Conns -> {"none", "PENDING", "IDLE", "LEASED", "dead"}]
      /\ loop \in [kind : {"none", "available", "failed", "dangling"},
                   conn : Conns \cup {None}, nxt : Reqs \cup {None}, user : BOOLEAN]
      /\ held \subseteq Conns /\ idle_timer \subseteq Conns
  BY ZenonT(60) DEF IInv, TypeOK, Listed
<1>4. /\ c \in Conns /\ c \in Items(ll_idle) /\ ll_idle' \in Seq(Conns) /\ NoDup(ll_idle')
      /\ \A d \in Conns : d \in Items(ll_idle') <=> d \in Items(ll_idle) /\ d # c
  BY ZenonT(60), <1>1, <1>2, <1>3, PopListed
<1>5. r \in Reqs /\ r \in Items(requests) /\ requests' = Unlink(requests, r)
  BY ZenonT(60), <1>1, <1>2, <1>3, ShiftListed
<1>6. Answers(r, "called") /\ req[r].state = "PENDING"
  BY ZenonT(60), <1>2, <1>5 DEF Answers, IInv, Listed
<1>7. held' = held \cup {c}
  BY ZenonT(60), <1>2, <1>4, Numbers
<1>8. info[c] = "IDLE" /\ ~Taken(c)
  <2>1. "IDLE" # "LEASED"
    OBVIOUS
  <2>2. QED
    BY ZenonT(60), <1>4, <2>1 DEF IInv, Placed
<1>9. /\ Listed' /\ requests' \in Seq(Reqs) /\ Len(requests') = Len(requests) - 1
      /\ Len(requests) \in Nat
      /\ req' \in [Reqs -> [state : {"none", "PENDING", "ASSIGNED", "called", "cancelled"},
                            sock : Conns \cup {None}]]
      /\ \A d \in Conns : Taken(d)' <=> d \in held' \/ (Taken(d) /\ d \notin held)
      /\ \A q \in Reqs : req[q].state # "none" => req'[q].state # "none"
  <2>1. None \notin held'
    BY ZenonT(60), <1>3, <1>4, <1>7, Numbers
  <2>2. \A q \in Reqs : req[q].sock \notin held'
    BY ZenonT(60), <1>7, <1>8 DEF IInv, Listed, Taken
  <2>3. QED
    BY ZenonT(60), <1>5, <1>6, <2>1, <2>2, AnswersListed
<1>10. Taken(c)' /\ \A d \in Conns : d # c => (Taken(d)' <=> Taken(d))
  BY ZenonT(60), <1>4, <1>7, <1>9 DEF Taken
<1>11. /\ loop'.kind = "available" /\ loop'.conn = loop.conn /\ loop'.user = TRUE
       /\ loop' \in [kind : {"none", "available", "failed", "dangling"},
                     conn : Conns \cup {None}, nxt : Reqs \cup {None}, user : BOOLEAN]
  BY ZenonT(60), <1>2, <1>3
<1>12. ~Failing /\ ~Failing' /\ \A d \in Conns : InLoop(d)' <=> InLoop(d)
  BY ZenonT(60), <1>2, <1>11 DEF Failing, InLoop
<1>13. /\ info'[c] = "LEASED" /\ \A d \in Conns : d # c => info'[d] = info[d]
       /\ info' \in [Conns -> {"none", "PENDING", "IDLE", "LEASED", "dead"}]
       /\ held' \subseteq Conns /\ idle_timer' \subseteq Conns
  BY ZenonT(60), <1>2, <1>3, <1>4, <1>7
<1>14. ASSUME NEW d \in Conns, d # c PROVE Placed(d)' /\ Counted(d)'
  <2>1. Untouched(d)
    BY ZenonT(60), <1>2, <1>4, <1>9, <1>10, <1>12, <1>13, <1>14, Numbers DEF Untouched
  <2>2. QED
    BY ZenonT(60), <1>2, <2>1, UntouchedHolds DEF IInv
<1>15. "LEASED" # "none" /\ "LEASED" # "PENDING" /\ "LEASED" # "IDLE" /\ "LEASED" # "dead"
       /\ "IDLE" # "none" /\ "IDLE" # "PENDING"
  OBVIOUS
<1>16. Placed(c)'
  BY ZenonT(60), <1>2, <1>4, <1>8, <1>9, <1>10, <1>12, <1>13, <1>15, Numbers DEF IInv, Placed
<1>17. Counted(c)'
  <2>1. c \notin ll_pending'
    BY ZenonT(60), <1>4, <1>13, <1>15, <1>16 DEF Placed
  <2>2. QED
    BY ZenonT(60), <1>2, <1>4, <1>8, <1>10, <1>12, <1>13, <1>15, <2>1 DEF IInv, Counted
<1>18. Covered'
  <2>1. Cardinality(ll_pending) \in Nat
    BY ZenonT(60), ConnCard DEF IInv, TypeOK
  <2>2. Len(requests) <= Cardinality(ll_pending) \/ Len(requests) <= Cardinality(ll_pending) + 1
    BY ZenonT(60) DEF IInv, Covered
  <2>3. Len(requests') <= Cardinality(ll_pending)
    BY SMTT(60), <1>9, <2>1, <2>2
  <2>4. QED
    BY ZenonT(60), <1>2, <1>11, <2>3 DEF Covered
<1>19. Counters'
  <2>1. \A d \in Conns : info'[d] \in Alive <=> info[d] \in Alive
    BY ZenonT(60), <1>8, <1>13 DEF Alive
  <2>2. QED
    BY ZenonT(60), <1>2, <2>1, AgreeSame DEF IInv, Counters
<1>20. TypeOK'
  BY ZenonT(60), <1>2, <1>4, <1>9, <1>11, <1>13 DEF IInv, TypeOK
<1>21. Looping'
  BY ZenonT(60), <1>11, <1>12 DEF Looping
<1>22. QED
  BY ZenonT(60), <1>4, <1>9, <1>14, <1>16, <1>17, <1>18, <1>19, <1>20, <1>21 DEF IInv

(* A loop ends, with the handler of connection c if it runs in one; the    *)
(* other connections, requests and users are not concerned.                *)
LoopEnds(c) ==
  /\ loop.kind # "none" /\ loop' = NoLoop /\ loop.conn = c
  /\ UNCHANGED <<env, ll_pending, requests, req, held, async, down>>
  /\ \A d \in Conns : d # c => cs'[d] = cs[d] /\ info'[d] = info[d]
  /\ \A d \in Conns : d # c => (d \in Items(ll_idle') <=> d \in Items(ll_idle))
  /\ \A d \in Conns : d # c => (d \in idle_timer' <=> d \in idle_timer)

(* The parts of the invariant that the end of a loop leaves alone.         *)
LEMMA LoopEndsRest ==
  ASSUME IInv, NEW c, LoopEnds(c), Len(requests) <= Cardinality(ll_pending),
         cs' \in [Conns -> AttemptType], info' \in [Conns -> {"none", "PENDING", "IDLE", "LEASED", "dead"}],
         idle_timer' \subseteq Conns, ll_idle' \in Seq(Conns), NoDup(ll_idle'),
         c \in Conns => Placed(c)' /\ Counted(c)', Counters'
  PROVE  IInv'
<1>1. /\ loop' = NoLoop /\ loop'.kind = "none"
      /\ loop' \in [kind : {"none", "available", "failed", "dangling"},
                    conn : Conns \cup {None}, nxt : Reqs \cup {None}, user : BOOLEAN]
  BY ZenonT(60) DEF LoopEnds, NoLoop, Loop
<1>2. ~Failing' /\ (\A d \in Conns : ~InLoop(d)') /\ \A d \in Conns : d # c => ~InLoop(d)
  BY ZenonT(60), <1>1 DEF Failing, InLoop, LoopEnds
<1>3. \A d \in Conns : Taken(d)' <=> Taken(d)
  BY ZenonT(60) DEF LoopEnds, Taken
<1>4. ASSUME NEW d \in Conns, d # c PROVE Placed(d)' /\ Counted(d)'
  <2>1. Untouched(d)
    BY ZenonT(60), <1>2, <1>3, <1>4 DEF Untouched, LoopEnds
  <2>2. QED
    BY ZenonT(60), <2>1, UntouchedHolds DEF IInv, LoopEnds
<1>5. n_total' \in 0 .. Cardinality(Conns) /\ hostref' \in Nat /\ poolref' \in Nat
  <2>1. down' \in BOOLEAN
    BY ZenonT(60) DEF IInv, TypeOK, LoopEnds
  <2>2. QED
    BY ZenonT(60), <2>1, AgreeTypes DEF Counters
<1>6. TypeOK'
  BY ZenonT(60), <1>1, <1>5 DEF IInv, TypeOK, LoopEnds
<1>7. Listed'
  BY ZenonT(60) DEF IInv, Listed, LoopEnds
<1>8. Covered' /\ Looping'
  BY ZenonT(60), <1>1, <1>2 DEF Covered, Looping, LoopEnds
<1>9. QED
  BY ZenonT(60), <1>4, <1>6, <1>7, <1>8 DEF IInv

(* The end of connection_available preserves the invariant.                *)
LEMMA AvailableEndStep ==
  ASSUME IInv, ConnectionAvailableEnd
  PROVE  IInv'
<1>1. /\ loop.kind = "available" /\ (requests = <<>> \/ ll_idle = <<>>) /\ loop' = NoLoop
      /\ UNCHANGED <<env, ll_pending, requests, req, held, async, down>>
  BY ZenonT(60) DEF ConnectionAvailableEnd
<1>2. /\ requests \in Seq(Reqs) /\ ll_idle \in Seq(Conns) /\ NoDup(ll_idle)
      /\ info \in [Conns -> {"none", "PENDING", "IDLE", "LEASED", "dead"}]
      /\ loop.conn \in Conns \cup {None} /\ cs \in [Conns -> AttemptType]
      /\ idle_timer \subseteq Conns /\ down \in BOOLEAN
  BY ZenonT(60) DEF IInv, TypeOK
<1>3. Len(requests) <= Cardinality(ll_pending)
  <2>1. Cardinality(ll_pending) \in Nat
    BY ZenonT(60), ConnCard DEF IInv, TypeOK
  <2>2. CASE requests = <<>>
    BY SMTT(60), <2>1, <2>2
  <2>3. CASE requests # <<>>
    BY ZenonT(60), <1>1, <2>3 DEF IInv, Covered
  <2>4. QED
    BY ZenonT(60), <2>2, <2>3
<1>4. CASE loop.conn = None
  <2>1. UNCHANGED <<cs, info, idle_timer, ll_idle, n_total, hostref, poolref>>
    BY ZenonT(60), <1>4 DEF ConnectionAvailableEnd
  <2>2. LoopEnds(None) /\ None \notin Conns
    BY ZenonT(60), <1>1, <1>4, <2>1, Numbers DEF LoopEnds
  <2>3. Counters'
    BY ZenonT(60), <1>1, <2>1 DEF IInv, Counters
  <2>4. QED
    BY ZenonT(60), <1>2, <1>3, <2>1, <2>2, <2>3, LoopEndsRest
<1>5. CASE loop.conn # None
  <2>1. PICK c \in Conns : c = loop.conn
    BY ZenonT(60), <1>2, <1>5
  <2>2. PICK u : u = HandlerEnd(cs[c])
    BY ZenonT(60)
  <2>3. InLoop(c) /\ ~Failing /\ cs[c].st = "handler" /\ info[c] \in {"IDLE", "LEASED", "dead"}
    <3>1. InLoop(c) /\ ~Failing
      BY ZenonT(60), <1>1, <2>1 DEF InLoop, Failing
    <3>2. QED
      BY ZenonT(60), <3>1 DEF IInv, Placed
  <2>4. /\ cs[c].flight = FALSE /\ cs[c] \in AttemptType
        /\ cs[c].ref = IF info[c] = "IDLE" \/ Taken(c) THEN 2 ELSE 1
    <3>1. cs[c] \in AttemptType /\ cs[c].flight \in BOOLEAN
      BY ZenonT(60), <1>2 DEF AttemptType
    <3>2. "handler" # "abort" /\ "IDLE" # "dead" /\ "LEASED" # "dead"
      OBVIOUS
    <3>3. QED
      BY ZenonT(60), <2>3, <3>1, <3>2 DEF IInv, Counted, Placed
  <2>5. cs[c].ref >= 1
    BY SMTT(60), <2>4
  <2>6. /\ u \in AttemptType /\ u.st = "gone" /\ u.ref = cs[c].ref - 1
        /\ u.flight = FALSE /\ u.result = "none"
    <3>1. "gone" \in {"gone", "CS_CANCELLED"}
      BY ZenonT(60)
    <3>2. u = Deleted(cs[c], "gone")
      BY ZenonT(60), <2>2 DEF HandlerEnd
    <3>3. /\ Deleted(cs[c], "gone") \in AttemptType /\ Deleted(cs[c], "gone").st = "gone"
          /\ Deleted(cs[c], "gone").ref = cs[c].ref - 1
          /\ Deleted(cs[c], "gone").flight = cs[c].flight
          /\ Deleted(cs[c], "gone").result = "none"
      BY SMTT(60), <2>4, <2>5, <3>1, DeletedIs
    <3>4. QED
      BY ZenonT(60), <2>4, <3>2, <3>3
  <2>7. cs' = [cs EXCEPT ![c] = u]
    BY ZenonT(60), <1>5, <2>1, <2>2 DEF ConnectionAvailableEnd
  <2>8. /\ cs' \in [Conns -> AttemptType] /\ cs'[c] = u
        /\ \A d \in Conns : d # c => cs'[d] = cs[d]
    BY ZenonT(60), <1>2, <2>6, <2>7
  <2>9. ~Failing' /\ ~InLoop(c)' /\ (Taken(c)' <=> Taken(c))
    <3>1. loop'.kind = "none"
      BY ZenonT(60), <1>1 DEF NoLoop, Loop
    <3>2. QED
      BY ZenonT(60), <1>1, <3>1 DEF Failing, InLoop, Taken
  <2>10. "gone" # "handler" /\ "gone" # "abort" /\ "none" # "CONNECT_ERROR"
         /\ "dead" # "none" /\ "dead" # "PENDING" /\ "dead" # "IDLE" /\ "dead" # "LEASED"
         /\ "IDLE" # "LEASED" /\ "IDLE" # "PENDING" /\ "LEASED" # "PENDING"
         /\ "IDLE" # "none" /\ "LEASED" # "none"
    OBVIOUS
  <2>11. CASE info[c] = "LEASED" /\ ~Taken(c)
    <3>1. cs[c].ref = 1 /\ u.ref = 0
      BY SMTT(60), <2>4, <2>6, <2>11
    <3>2. DeleteInfos({c}, Unlink(ll_idle, c), 0)
      BY ZenonT(60), <1>5, <2>1, <2>10, <2>11, <3>1 DEF ConnectionAvailableEnd
    <3>3. /\ info' = [d \in Conns |-> IF d \in {c} THEN "dead" ELSE info[d]]
          /\ idle_timer' = idle_timer \ {c} /\ ll_idle' = Unlink(ll_idle, c)
      BY ZenonT(60), <3>2 DEF DeleteInfos
    <3>4. c \notin Items(ll_idle) /\ ll_idle' = ll_idle
      <4>1. c \notin Items(ll_idle)
        BY ZenonT(60), <2>10, <2>11 DEF IInv, Placed
      <4>2. QED
        BY ZenonT(60), <1>2, <3>3, <4>1, RemoveListed
    <3>5. /\ info'[c] = "dead" /\ (\A d \in Conns : d # c => info'[d] = info[d])
          /\ info' \in [Conns -> {"none", "PENDING", "IDLE", "LEASED", "dead"}]
          /\ c \notin idle_timer' /\ idle_timer' \subseteq Conns
          /\ \A d \in Conns : d # c => (d \in idle_timer' <=> d \in idle_timer)
      BY ZenonT(60), <1>2, <3>3
    <3>6. LoopEnds(c)
      BY ZenonT(60), <1>1, <2>1, <2>8, <3>4, <3>5 DEF LoopEnds
    <3>7. Counters'
      <4>1. info[c] \in {"PENDING", "IDLE", "LEASED"}
        BY ZenonT(60), <2>11
      <4>2. QED
        BY ZenonT(60), <1>1, <3>2, <4>1, DeleteOne
    <3>8. Placed(c)'
      BY ZenonT(60), <1>1, <2>3, <2>6, <2>8, <2>9, <2>10, <2>11, <3>4, <3>5 DEF IInv, Placed
    <3>9. c \notin ll_pending'
      BY ZenonT(60), <2>10, <3>5, <3>8 DEF Placed
    <3>10. Counted(c)'
      BY ZenonT(60), <2>6, <2>8, <2>9, <2>10, <2>11, <3>1, <3>5, <3>9 DEF Counted
    <3>11. QED
      BY ZenonT(60), <1>2, <1>3, <2>8, <3>4, <3>5, <3>6, <3>7, <3>8, <3>10, LoopEndsRest
  <2>12. CASE ~(info[c] = "LEASED" /\ ~Taken(c))
    <3>1. /\ info[c] = "dead" => cs[c].ref = 1 /\ u.ref = 0 /\ ~Taken(c)
          /\ info[c] # "dead" => cs[c].ref # 1 /\ u.ref = 1
      <4>1. Taken(c) => info[c] = "LEASED"
        BY ZenonT(60) DEF IInv, Placed
      <4>2. QED
        BY SMTT(60), <2>3, <2>4, <2>6, <2>12, <4>1
    <3>2. UNCHANGED <<info, idle_timer, ll_idle, n_total, hostref, poolref>>
      BY ZenonT(60), <1>5, <2>1, <3>1 DEF ConnectionAvailableEnd
    <3>3. LoopEnds(c)
      BY ZenonT(60), <1>1, <2>1, <2>8, <3>2 DEF LoopEnds
    <3>4. Counters'
      BY ZenonT(60), <1>1, <3>2 DEF IInv, Counters
    <3>5. Placed(c)'
      BY ZenonT(60), <1>1, <2>3, <2>6, <2>8, <2>9, <2>10, <2>12, <3>2 DEF IInv, Placed
    <3>6. c \notin ll_pending'
      BY ZenonT(60), <2>3, <2>10, <3>2, <3>5 DEF Placed
    <3>7. Counted(c)'
      BY ZenonT(60), <2>3, <2>6, <2>8, <2>9, <2>10, <2>12, <3>1, <3>2, <3>6 DEF Counted
    <3>8. QED
      BY ZenonT(60), <1>2, <1>3, <2>8, <3>2, <3>3, <3>4, <3>5, <3>7, LoopEndsRest
  <2>13. QED
    BY ZenonT(60), <2>11, <2>12
<1>6. QED
  BY ZenonT(60), <1>4, <1>5

(* An iteration of the loop of on_connected over the requests preserves    *)
(* the invariant.                                                          *)
LEMMA FailRequestStep ==
  ASSUME IInv, FailRequest
  PROVE  IInv'
<1>1. /\ loop.kind = "failed" /\ loop.nxt # None
      /\ UNCHANGED <<env, cs, info, idle_timer, ll_idle, ll_pending, async,
                     n_total, hostref, poolref, down>>
  BY ZenonT(60) DEF FailRequest, counters
<1>2. /\ requests \in Seq(Reqs) /\ held \subseteq Conns
      /\ loop \in [kind : {"none", "available", "failed", "dangling"},
                   conn : Conns \cup {None}, nxt : Reqs \cup {None}, user : BOOLEAN]
  BY ZenonT(60) DEF IInv, TypeOK
<1>3. "failed" # "none" /\ "dangling" # "none" /\ "dangling" # "available" /\ "dangling" # "failed"
      /\ "failed" # "available"
  OBVIOUS
<1>4. loop.conn \in Conns
  BY ZenonT(60), <1>1 DEF IInv, Looping, Failing
<1>5. CASE loop.nxt \notin Items(requests)
  <2>1. loop' = [loop EXCEPT !.kind = "dangling"] /\ UNCHANGED <<requests, req, held>>
    BY ZenonT(60), <1>5 DEF FailRequest
  <2>2. /\ loop'.kind = "dangling" /\ loop'.conn = loop.conn /\ loop'.user = loop.user
        /\ loop' \in [kind : {"none", "available", "failed", "dangling"},
                      conn : Conns \cup {None}, nxt : Reqs \cup {None}, user : BOOLEAN]
    BY ZenonT(60), <1>2, <2>1
  <2>3. Failing /\ Failing' /\ \A d \in Conns : InLoop(d)' <=> InLoop(d)
    BY ZenonT(60), <1>1, <1>3, <2>2 DEF Failing, InLoop
  <2>4. \A d \in Conns : Placed(d)' /\ Counted(d)'
    <3>1. \A d \in Conns : Untouched(d)
      BY ZenonT(60), <1>1, <2>1, <2>3 DEF Untouched, Taken
    <3>2. QED
      BY ZenonT(60), <1>1, <3>1, UntouchedHolds DEF IInv
  <2>5. Covered'
    BY ZenonT(60), <1>1, <1>3, <2>1, <2>2 DEF IInv, Covered
  <2>6. TypeOK' /\ Listed' /\ Looping' /\ Counters'
    <3>1. TypeOK'
      BY ZenonT(60), <1>1, <2>1, <2>2 DEF IInv, TypeOK
    <3>2. Listed' /\ Counters'
      BY ZenonT(60), <1>1, <2>1 DEF IInv, Listed, Counters
    <3>3. Looping'
      BY ZenonT(60), <1>3, <1>4, <2>2 DEF Looping
    <3>4. QED
      BY ZenonT(60), <3>1, <3>2, <3>3
  <2>7. QED
    BY ZenonT(60), <1>1, <2>4, <2>5, <2>6 DEF IInv
<1>6. CASE loop.nxt \in Items(requests)
  <2>1. PICK r \in Reqs : r = loop.nxt
    BY ZenonT(60), <1>1, <1>2
  <2>2. PICK n : /\ loop' = [loop EXCEPT !.user = TRUE, !.nxt = n]
                 /\ n \in Reqs \cup {None}
    <3> DEFINE i == CHOOSE j \in 1 .. Len(requests) : requests[j] = r
    <3>1. i \in 1 .. Len(requests)
      <4>1. \E j \in 1 .. Len(requests) : requests[j] = r
        <5>1. DOMAIN requests = 1 .. Len(requests)
          BY SMTT(60), <1>2
        <5>2. QED
          BY ZenonT(60), <1>6, <2>1, <5>1 DEF Items
      <4>2. QED
        BY ZenonT(60), <4>1
    <3> DEFINE n == IF i = Len(requests) THEN None ELSE requests[i + 1]
    <3>2. loop' = [loop EXCEPT !.user = TRUE, !.nxt = n]
      <4>1. ~(r \notin Items(requests))
        BY ZenonT(60), <1>6, <2>1
      <4>2. QED
        BY SMTT(60), <2>1, <4>1 DEF FailRequest
    <3>3. n \in Reqs \cup {None}
      <4> HIDE DEF i
      <4>1. QED
        BY SMTT(60), <1>2, <3>1
    <3> HIDE DEF n
    <3>4. QED
      BY ZenonT(60), <3>2, <3>3
  <2>3. requests' = Unlink(requests, r) /\ Invoked(r, None)
    BY ZenonT(60), <1>6, <2>1 DEF FailRequest
  <2>4. Answers(r, "called") /\ req[r].state = "PENDING" /\ held' = held
    BY ZenonT(60), <1>6, <2>1, <2>3 DEF Answers, Invoked, IInv, Listed
  <2>5. /\ Listed' /\ requests' \in Seq(Reqs) /\ Len(requests') = Len(requests) - 1
        /\ Len(requests) \in Nat
        /\ req' \in [Reqs -> [state : {"none", "PENDING", "ASSIGNED", "called", "cancelled"},
                              sock : Conns \cup {None}]]
        /\ \A c \in Conns : Taken(c)' <=> Taken(c)
        /\ \A q \in Reqs : req[q].state # "none" => req'[q].state # "none"
    <3>1. None \notin held' /\ \A q \in Reqs : req[q].sock \notin held'
      BY ZenonT(60), <1>2, <2>4, Numbers DEF IInv, Listed
    <3>2. \A c \in Conns : c \in held => Taken(c)
      BY ZenonT(60) DEF Taken
    <3>3. QED
      BY ZenonT(60), <2>4, <3>1, <3>2, AnswersListed
  <2>6. /\ loop'.kind = "failed" /\ loop'.conn = loop.conn /\ loop'.user = TRUE
        /\ loop' \in [kind : {"none", "available", "failed", "dangling"},
                      conn : Conns \cup {None}, nxt : Reqs \cup {None}, user : BOOLEAN]
    BY ZenonT(60), <1>1, <1>2, <2>2
  <2>7. Failing /\ Failing' /\ \A d \in Conns : InLoop(d)' <=> InLoop(d)
    BY ZenonT(60), <1>1, <2>6 DEF Failing, InLoop
  <2>8. \A d \in Conns : Placed(d)' /\ Counted(d)'
    <3>1. \A d \in Conns : Untouched(d)
      BY ZenonT(60), <1>1, <2>5, <2>7, Numbers DEF Untouched
    <3>2. QED
      BY ZenonT(60), <1>1, <3>1, UntouchedHolds DEF IInv
  <2>9. Covered'
    <3>1. Cardinality(ll_pending) \in Nat
      BY ZenonT(60), ConnCard DEF IInv, TypeOK
    <3>2. Len(requests) <= Cardinality(ll_pending) \/ Len(requests) <= Cardinality(ll_pending) + 1
      BY ZenonT(60) DEF IInv, Covered
    <3>3. Len(requests') <= Cardinality(ll_pending)
      BY SMTT(60), <2>5, <3>1, <3>2
    <3>4. QED
      BY ZenonT(60), <1>1, <2>6, <3>3 DEF Covered
  <2>10. TypeOK'
    BY ZenonT(60), <1>1, <2>4, <2>5, <2>6 DEF IInv, TypeOK
  <2>11. Looping' /\ Counters'
    BY ZenonT(60), <1>1, <1>3, <1>4, <2>6 DEF Looping, IInv, Counters
  <2>12. QED
    BY ZenonT(60), <1>1, <2>5, <2>8, <2>9, <2>10, <2>11 DEF IInv
<1>7. QED
  BY ZenonT(60), <1>5, <1>6

(* The end of that loop preserves the invariant.                           *)
LEMMA FailRequestsEndStep ==
  ASSUME IInv, FailRequestsEnd
  PROVE  IInv'
<1>1. /\ loop.kind = "failed" /\ loop.nxt = None /\ loop' = NoLoop
      /\ cs' = [cs EXCEPT ![loop.conn] = HandlerEnd(@)]
      /\ DeleteInfos({loop.conn}, ll_idle, 0)
      /\ UNCHANGED <<env, ll_pending, requests, req, held, async, down>>
  BY ZenonT(60) DEF FailRequestsEnd
<1>2. /\ requests \in Seq(Reqs) /\ ll_idle \in Seq(Conns) /\ NoDup(ll_idle)
      /\ info \in [Conns -> {"none", "PENDING", "IDLE", "LEASED", "dead"}]
      /\ cs \in [Conns -> AttemptType] /\ idle_timer \subseteq Conns
  BY ZenonT(60) DEF IInv, TypeOK
<1>3. PICK c \in Conns : c = loop.conn
  BY ZenonT(60), <1>1 DEF IInv, Looping, Failing
<1>4. Failing /\ InLoop(c)
  BY ZenonT(60), <1>1, <1>3 DEF Failing, InLoop
<1>5. "dead" # "none" /\ "dead" # "PENDING" /\ "dead" # "IDLE" /\ "dead" # "LEASED"
      /\ "PENDING" # "IDLE" /\ "PENDING" # "LEASED" /\ "PENDING" # "none"
      /\ "gone" # "handler" /\ "gone" # "abort" /\ "none" # "CONNECT_ERROR"
      /\ "failed" # "none"
  OBVIOUS
<1>6. /\ info[c] = "PENDING" /\ ~Taken(c) /\ c \notin Items(ll_idle) /\ c \notin ll_pending
      /\ c \notin idle_timer /\ req[c].state # "none"
  BY ZenonT(60), <1>4, <1>5 DEF IInv, Placed
<1>7. cs[c] \in AttemptType /\ cs[c].flight \in BOOLEAN /\ cs[c].ref = IF cs[c].flight THEN 2 ELSE 1
  BY ZenonT(60), <1>2, <1>4 DEF IInv, Counted, AttemptType
<1>8. Len(requests) <= Cardinality(ll_pending)
  <2>1. CASE loop.user
    BY ZenonT(60), <2>1 DEF IInv, Covered
  <2>2. CASE ~loop.user
    <3>1. loop.nxt = IF requests = <<>> THEN None ELSE Head(requests)
      BY ZenonT(60), <1>1, <1>3, <1>5, <2>2, Numbers DEF IInv, Covered
    <3>2. requests # <<>> => Head(requests) \in Reqs
      BY SMTT(60), <1>2
    <3>3. requests = <<>>
      BY ZenonT(60), <1>1, <3>1, <3>2, Numbers
    <3>4. Cardinality(ll_pending) \in Nat
      BY ZenonT(60), ConnCard DEF IInv, TypeOK
    <3>5. QED
      BY SMTT(60), <3>3, <3>4
  <2>3. QED
    BY ZenonT(60), <2>1, <2>2
<1>9. PICK u : u = HandlerEnd(cs[c])
  BY ZenonT(60)
<1>10. /\ u \in AttemptType /\ u.st = "gone" /\ u.ref = cs[c].ref - 1
       /\ u.flight = cs[c].flight /\ u.result = "none"
  <2>1. "gone" \in {"gone", "CS_CANCELLED"}
    BY ZenonT(60)
  <2>2. u = Deleted(cs[c], "gone")
    BY ZenonT(60), <1>9 DEF HandlerEnd
  <2>3. cs[c].ref >= 1
    BY SMTT(60), <1>7
  <2>4. /\ Deleted(cs[c], "gone") \in AttemptType /\ Deleted(cs[c], "gone").st = "gone"
        /\ Deleted(cs[c], "gone").ref = cs[c].ref - 1
        /\ Deleted(cs[c], "gone").flight = cs[c].flight
        /\ Deleted(cs[c], "gone").result = "none"
    BY SMTT(60), <1>7, <2>1, <2>3, DeletedIs
  <2>5. QED
    BY ZenonT(60), <2>2, <2>4
<1>11. u.ref = IF u.flight THEN 1 ELSE 0
  BY SMTT(60), <1>7, <1>10
<1>12. /\ cs' \in [Conns -> AttemptType] /\ cs'[c] = u
       /\ \A d \in Conns : d # c => cs'[d] = cs[d]
  <2>1. cs' = [cs EXCEPT ![c] = u]
    BY ZenonT(60), <1>1, <1>3, <1>9
  <2>2. QED
    BY ZenonT(60), <1>2, <1>10, <2>1
<1>13. DeleteInfos({c}, ll_idle, 0)
  BY ZenonT(60), <1>1, <1>3
<1>14. /\ info'[c] = "dead" /\ (\A d \in Conns : d # c => info'[d] = info[d])
       /\ info' \in [Conns -> {"none", "PENDING", "IDLE", "LEASED", "dead"}]
       /\ ll_idle' = ll_idle /\ c \notin idle_timer' /\ idle_timer' \subseteq Conns
       /\ \A d \in Conns : d # c => (d \in idle_timer' <=> d \in idle_timer)
  <2>1. /\ info' = [d \in Conns |-> IF d \in {c} THEN "dead" ELSE info[d]]
        /\ idle_timer' = idle_timer \ {c} /\ ll_idle' = ll_idle
    BY ZenonT(60), <1>13 DEF DeleteInfos
  <2>2. QED
    BY ZenonT(60), <1>2, <2>1
<1>15. LoopEnds(c)
  BY ZenonT(60), <1>1, <1>3, <1>5, <1>12, <1>14 DEF LoopEnds
<1>16. Counters'
  <2>1. info[c] \in {"PENDING", "IDLE", "LEASED"}
    BY ZenonT(60), <1>6
  <2>2. QED
    BY ZenonT(60), <1>1, <1>13, <2>1, DeleteOne
<1>17. ~Failing' /\ ~InLoop(c)' /\ (Taken(c)' <=> Taken(c))
  <2>1. loop'.kind = "none"
    BY ZenonT(60), <1>1 DEF NoLoop, Loop
  <2>2. QED
    BY ZenonT(60), <1>1, <2>1 DEF Failing, InLoop, Taken
<1>18. Placed(c)'
  BY ZenonT(60), <1>1, <1>5, <1>6, <1>10, <1>12, <1>14, <1>17 DEF Placed
<1>19. Counted(c)'
  BY ZenonT(60), <1>1, <1>5, <1>6, <1>10, <1>11, <1>12, <1>14, <1>17 DEF Counted
<1>20. QED
  BY ZenonT(60), <1>2, <1>8, <1>12, <1>14, <1>15, <1>16, <1>18, <1>19, LoopEndsRest

(* Pool::shutdown preserves the invariant.                                 *)
LEMMA ShutdownStep ==
  ASSUME IInv, Shutdown
  PROVE  IInv'
<1> DEFINE C == Items(ll_idle) \cup ll_pending
<1>1. /\ loop.kind = "none" /\ down = FALSE /\ down' = TRUE /\ async' = FALSE
      /\ \A r \in Reqs : ~Live(r)
      /\ \A c \in ll_pending : env.io = "C" /\ ~env.late_cancel => cs[c].flight
      /\ cs' = [c \in Conns |-> IF c \in Items(ll_idle) THEN Unref(cs[c]) ELSE
                                IF c \in ll_pending THEN CancelAttempt(cs[c], env.io)
                                ELSE cs[c]]
      /\ ll_pending' = {} /\ DeleteInfos(C, <<>>, 1)
      /\ UNCHANGED <<env, requests, req, held, loop>>
  BY ZenonT(60) DEF Shutdown, Idle, IInv, TypeOK
<1>2. /\ info' = [c \in Conns |-> IF c \in C THEN "dead" ELSE info[c]]
      /\ idle_timer' = idle_timer \ C /\ ll_idle' = <<>>
      /\ n_total' = n_total - Cardinality(C) /\ hostref' = hostref - Cardinality(C) - 1
      /\ poolref' = poolref - 1 - (IF hostref' = 0 THEN 1 ELSE 0)
  BY ZenonT(60), <1>1 DEF DeleteInfos
<1>3. /\ requests \in Seq(Reqs) /\ ll_idle \in Seq(Conns) /\ env \in Envs
      /\ info \in [Conns -> {"none", "PENDING", "IDLE", "LEASED", "dead"}]
      /\ cs \in [Conns -> AttemptType] /\ idle_timer \subseteq Conns /\ ll_pending \subseteq Conns
  BY ZenonT(60) DEF IInv, TypeOK
<1>4. C \in SUBSET Conns
  BY ZenonT(60), <1>3, Members
<1>5. ~Failing /\ ~Failing' /\ \A d \in Conns : ~InLoop(d) /\ ~InLoop(d)' /\ (Taken(d)' <=> Taken(d))
  BY ZenonT(60), <1>1 DEF Failing, InLoop, Taken
<1>6. /\ "PENDING" # "IDLE" /\ "PENDING" # "LEASED" /\ "IDLE" # "LEASED" /\ "PENDING" # "none"
      /\ "IDLE" # "none" /\ "dead" # "none" /\ "dead" # "PENDING" /\ "dead" # "IDLE"
      /\ "dead" # "LEASED" /\ "handler" # "gone" /\ "gone" # "abort" /\ "CS_CANCELLED" # "abort"
      /\ "CS_CANCELLED" # "handler" /\ "abort" # "handler" /\ "none" # "CONNECT_ERROR"
  OBVIOUS
<1>7. requests = <<>>
  <2>1. \A r \in Reqs : r \notin Items(requests)
    BY ZenonT(60), <1>1 DEF IInv, Listed, Live
  <2>2. requests # <<>> => Head(requests) \in Reqs /\ Head(requests) \in Items(requests)
    BY ZenonT(60), <1>3, ShiftListed DEF IInv, Listed
  <2>3. QED
    BY ZenonT(60), <2>1, <2>2
<1>8. ASSUME NEW d \in Items(ll_idle)
      PROVE  /\ d \in Conns /\ info[d] = "IDLE" /\ ~Taken(d) /\ d \notin ll_pending /\ req[d].state # "none"
             /\ cs'[d] \in AttemptType /\ cs'[d].st = "gone" /\ cs'[d].ref = 0 /\ cs'[d].flight = FALSE
             /\ cs'[d].result = cs[d].result /\ cs'[d].tried = cs[d].tried /\ cs'[d].n = cs[d].n
  <2>1. d \in Conns
    BY ZenonT(60), <1>4
  <2>2. info[d] = "IDLE" /\ ~Taken(d) /\ d \notin ll_pending /\ req[d].state # "none" /\ cs[d].st # "handler"
    BY ZenonT(60), <1>5, <1>6, <2>1 DEF IInv, Placed
  <2>3. /\ cs[d] \in AttemptType /\ cs[d].flight \in BOOLEAN /\ ~cs[d].flight
        /\ cs[d].ref = 1 /\ cs[d].st = "gone"
    BY ZenonT(60), <1>3, <1>5, <2>1, <2>2 DEF IInv, Counted, AttemptType
  <2>4. cs[d].ref >= 1 /\ cs[d].ref - 1 = 0
    BY SMTT(60), <2>3
  <2>5. cs'[d] = Unref(cs[d])
    BY ZenonT(60), <1>1, <2>1
  <2>6. QED
    BY ZenonT(60), <2>1, <2>2, <2>3, <2>4, <2>5, UnrefIs
<1>9. ASSUME NEW d \in ll_pending
      PROVE  /\ d \in Conns /\ info[d] = "PENDING" /\ ~Taken(d) /\ req[d].state # "none"
             /\ cs'[d] \in AttemptType
             /\ \/ /\ cs'[d].st = "CS_CANCELLED" /\ cs'[d].result = "none"
                   /\ cs'[d].ref = IF cs'[d].flight THEN 1 ELSE 0
                \/ /\ cs'[d].st = "abort" /\ env.io = "C" /\ env.late_cancel /\ ~cs'[d].flight
                   /\ cs'[d].result = "CONNECT_ERROR" /\ ~env.error_events
                        => cs'[d].tried = 1 .. cs'[d].n
  <2>1. d \in Conns /\ info[d] = "PENDING" /\ Trying(cs[d], env)
    BY ZenonT(60), <1>3, WaitingPending
  <2>2. ~Taken(d) /\ req[d].state # "none" /\ d \notin Items(ll_idle)
    BY ZenonT(60), <1>6, <2>1 DEF IInv, Placed
  <2>3. PICK t : t = CancelAttempt(cs[d], env.io)
    BY ZenonT(60)
  <2>4. cs'[d] = t
    BY ZenonT(60), <1>1, <2>1, <2>2, <2>3
  <2>5. /\ t \in AttemptType
        /\ \/ /\ t.st = "CS_CANCELLED" /\ t.result = "none"
              /\ t.ref = IF t.flight THEN 1 ELSE 0
           \/ /\ t.st = "abort" /\ env.io = "C" /\ ~cs[d].flight /\ ~t.flight
              /\ t.result = cs[d].result /\ t.tried = cs[d].tried /\ t.n = cs[d].n
    BY ZenonT(60), <1>3, <2>1, <2>3, CancelIs
  <2>6. cs[d].result = "CONNECT_ERROR" /\ ~env.error_events => cs[d].tried = 1 .. cs[d].n
    BY ZenonT(60), <2>1 DEF Trying
  <2>7. CASE t.st = "CS_CANCELLED" /\ t.result = "none" /\ t.ref = IF t.flight THEN 1 ELSE 0
    BY ZenonT(60), <2>1, <2>2, <2>4, <2>5, <2>7
  <2>8. CASE /\ t.st = "abort" /\ env.io = "C" /\ ~cs[d].flight /\ ~t.flight
             /\ t.result = cs[d].result /\ t.tried = cs[d].tried /\ t.n = cs[d].n
    BY ZenonT(60), <1>1, <2>1, <2>2, <2>4, <2>5, <2>6, <2>8
  <2>9. QED
    BY ZenonT(60), <2>5, <2>7, <2>8
<1>10. ASSUME NEW d \in Conns, d \notin C PROVE cs'[d] = cs[d] /\ info'[d] = info[d]
  BY ZenonT(60), <1>1, <1>2, <1>10
<1>11. \A d \in C : info'[d] = "dead" /\ d \notin idle_timer'
  BY ZenonT(60), <1>2, <1>4
<1>12. cs' \in [Conns -> AttemptType] /\ info' \in [Conns -> {"none", "PENDING", "IDLE", "LEASED", "dead"}]
  <2>1. \A d \in Conns : cs'[d] \in AttemptType
    <3>1. ASSUME NEW d \in Conns PROVE cs'[d] \in AttemptType
      BY ZenonT(60), <1>3, <1>8, <1>9, <1>10
    <3>2. QED
      BY ZenonT(60), <3>1
  <2>2. \E f : cs' = [c \in Conns |-> f[c]]
    <3>1. cs' = [c \in Conns |-> cs'[c]]
      BY ZenonT(60), <1>1
    <3>2. QED
      BY ZenonT(60), <3>1
  <2>3. cs' \in [Conns -> AttemptType]
    BY ZenonT(60), <2>1, <2>2
  <2>4. info' \in [Conns -> {"none", "PENDING", "IDLE", "LEASED", "dead"}]
    BY ZenonT(60), <1>2, <1>3
  <2>5. QED
    BY ZenonT(60), <2>3, <2>4
<1>13. \A x : x \notin Items(ll_idle')
  <2>1. ll_idle' = <<>> /\ DOMAIN <<>> = {}
    BY SMTT(60), <1>2
  <2>2. QED
    BY ZenonT(60), <2>1 DEF Items
<1> HIDE DEF C
<1>14. ASSUME NEW d \in Conns, d \notin C PROVE Placed(d)' /\ Counted(d)'
  <2>1. d \notin Items(ll_idle) /\ d \notin ll_pending
    BY ZenonT(60), <1>14 DEF C
  <2>2. Untouched(d)
    BY ZenonT(60), <1>1, <1>2, <1>5, <1>10, <1>13, <1>14, <2>1 DEF Untouched
  <2>3. QED
    BY ZenonT(60), <1>1, <2>2, UntouchedHolds DEF IInv
<1>15. ASSUME NEW d \in C PROVE Placed(d)' /\ Counted(d)'
  <2>0. d \in Conns /\ info'[d] = "dead" /\ d \notin idle_timer' /\ d \notin ll_pending' /\ d \notin Items(ll_idle')
    BY ZenonT(60), <1>1, <1>4, <1>11, <1>13
  <2>1. CASE d \in Items(ll_idle)
    <3>1. /\ ~Taken(d) /\ req[d].state # "none" /\ cs'[d].st = "gone" /\ cs'[d].ref = 0
          /\ cs'[d].flight = FALSE
          /\ cs'[d].result = cs[d].result /\ cs'[d].tried = cs[d].tried /\ cs'[d].n = cs[d].n
      BY ZenonT(60), <2>1, <1>8
    <3>2. Placed(d)'
      BY ZenonT(60), <1>1, <1>5, <1>6, <2>0, <3>1 DEF Placed
    <3>3. Counted(d)'
      BY ZenonT(60), <1>1, <1>5, <1>6, <2>0, <3>1 DEF Counted, IInv
    <3>4. QED
      BY ZenonT(60), <3>2, <3>3
  <2>2. CASE d \in ll_pending
    <3>1. /\ ~Taken(d) /\ req[d].state # "none"
          /\ \/ /\ cs'[d].st = "CS_CANCELLED" /\ cs'[d].result = "none"
                /\ cs'[d].ref = IF cs'[d].flight THEN 1 ELSE 0
             \/ /\ cs'[d].st = "abort" /\ env.io = "C" /\ env.late_cancel /\ ~cs'[d].flight
                /\ cs'[d].result = "CONNECT_ERROR" /\ ~env.error_events
                     => cs'[d].tried = 1 .. cs'[d].n
      BY ZenonT(60), <2>2, <1>9
    <3>2. Placed(d)'
      BY ZenonT(60), <1>1, <1>5, <1>6, <2>0, <3>1 DEF Placed
    <3>3. Counted(d)'
      BY ZenonT(60), <1>1, <1>5, <1>6, <2>0, <3>1 DEF Counted
    <3>4. QED
      BY ZenonT(60), <3>2, <3>3
  <2>3. QED
    BY ZenonT(60), <2>1, <2>2 DEF C
<1>16. Counters'
  <2>1. \A d \in C : info[d] \in Alive
    BY ZenonT(60), <1>8, <1>9 DEF C, Alive
  <2>2. \A d \in Conns : info'[d] = IF d \in C THEN "dead" ELSE info[d]
    BY ZenonT(60), <1>2
  <2>3. Agree(info', n_total - Cardinality(C), hostref - Cardinality(C) - 1,
              poolref - 1 - (IF hostref - Cardinality(C) - 1 = 0 THEN 1 ELSE 0), TRUE)
    <3>1. Agree(info, n_total, hostref, poolref, FALSE)
      BY ZenonT(60), <1>1 DEF IInv, Counters
    <3>2. QED
      BY ZenonT(60), <1>4, <2>1, <2>2, <3>1, AgreeDelete
  <2>4. QED
    BY ZenonT(60), <1>1, <1>2, <2>3 DEF Counters
<1>17. Covered'
  <2>1. Len(<<>>) <= Cardinality({})
    <3>1. Cardinality({}) = 0
      BY ZenonT(60), Sizes
    <3>2. QED
      BY SMTT(60), <3>1
  <2>2. QED
    BY ZenonT(60), <1>1, <1>7, <2>1 DEF Covered
<1>18. TypeOK'
  <2>1. n_total' \in 0 .. Cardinality(Conns) /\ hostref' \in Nat /\ poolref' \in Nat
    BY ZenonT(60), <1>1, <1>16, AgreeTypes DEF Counters
  <2>2. ll_idle' \in Seq(Conns)
    BY SMTT(60), <1>2
  <2>3. idle_timer' \subseteq Conns /\ ll_pending' \subseteq Conns
    BY ZenonT(60), <1>1, <1>2, <1>3
  <2>4. QED
    BY ZenonT(60), <1>1, <1>12, <2>1, <2>2, <2>3 DEF IInv, TypeOK
<1>19. Listed' /\ Looping'
  BY ZenonT(60), <1>1, <1>5 DEF IInv, Listed, Looping
<1>20. NoDup(ll_idle')
  BY SMTT(60), <1>2 DEF NoDup
<1>21. QED
  BY ZenonT(60), <1>14, <1>15, <1>16, <1>17, <1>18, <1>19, <1>20 DEF IInv

(* An idle connection that Pool::get finds closed.                         *)
LEMMA ClosedIdle ==
  ASSUME IInv, NEW d \in Conns, info[d] = "IDLE", cs'[d] = Unref(cs[d]), info'[d] = "dead",
         d \notin Items(ll_idle'), d \notin idle_timer', ll_pending' \subseteq ll_pending \cup {x \in Conns : x # d},
         Taken(d)' => Taken(d), InLoop(d)' <=> InLoop(d), Failing' <=> Failing, env' = env,
         req[d].state # "none" => req'[d].state # "none"
  PROVE  Placed(d)' /\ Counted(d)' /\ cs'[d] \in AttemptType
<1>1. /\ "PENDING" # "IDLE" /\ "IDLE" # "LEASED" /\ "IDLE" # "none"
      /\ "dead" # "none" /\ "dead" # "PENDING" /\ "dead" # "IDLE"
      /\ "dead" # "LEASED" /\ "handler" # "abort" /\ "gone" # "abort"
  OBVIOUS
<1>2. ~Taken(d) /\ d \notin ll_pending /\ req[d].state # "none" /\ (InLoop(d) => ~Failing)
      /\ (cs[d].st = "handler" <=> InLoop(d))
  BY ZenonT(60), <1>1 DEF IInv, Placed
<1>3. /\ cs[d] \in AttemptType /\ cs[d].flight = FALSE /\ cs[d].st \in {"handler", "gone"}
      /\ cs[d].ref = (IF InLoop(d) THEN 2 ELSE 1)
      /\ cs[d].result = "CONNECT_ERROR" /\ ~env.error_events => cs[d].tried = 1 .. cs[d].n
  <2>1. cs[d] \in AttemptType /\ cs[d].flight \in BOOLEAN
    BY ZenonT(60) DEF IInv, TypeOK, AttemptType
  <2>2. QED
    BY ZenonT(60), <1>1, <2>1 DEF IInv, Counted
<1>4. cs[d].ref >= 1 /\ cs[d].ref - 1 = (IF InLoop(d) THEN 1 ELSE 0)
  BY SMTT(60), <1>3
<1>5. PICK u : u = Unref(cs[d])
  BY ZenonT(60)
<1>6. /\ u \in AttemptType /\ u.ref = (IF InLoop(d) THEN 1 ELSE 0)
      /\ u.st = cs[d].st /\ u.flight = FALSE /\ u.n = cs[d].n
      /\ u.result = cs[d].result /\ u.tried = cs[d].tried
  BY ZenonT(60), <1>3, <1>4, <1>5, UnrefIs
<1>7. ~Taken(d)' /\ cs'[d] = u /\ d \notin ll_pending'
  BY ZenonT(60), <1>2, <1>5
<1>8. Placed(d)'
  BY ZenonT(60), <1>1, <1>2, <1>6, <1>7 DEF Placed
<1>9. Counted(d)'
  <2>1. u.st # "abort" /\ u.st \in {"handler", "gone", "CS_CANCELLED", "abort"}
    BY SMTT(60), <1>3, <1>6
  <2>2. QED
    BY ZenonT(60), <1>1, <1>2, <1>3, <1>6, <1>7, <2>1 DEF Counted
<1>10. QED
  BY ZenonT(60), <1>6, <1>7, <1>8, <1>9

(* The parts of the invariant that Pool::get leaves alone.                 *)
LEMMA GetRest ==
  ASSUME IInv, UserRuns, UNCHANGED <<env, held, async, poolref, down, loop>>,
         Listed', \A d \in Conns : Placed(d)' /\ Counted(d)', Counters',
         cs' \in [Conns -> AttemptType], info' \in [Conns -> {"none", "PENDING", "IDLE", "LEASED", "dead"}],
         req' \in [Reqs -> [state : {"none", "PENDING", "ASSIGNED", "called", "cancelled"},
                            sock : Conns \cup {None}]],
         idle_timer' \subseteq Conns, ll_pending' \subseteq Conns,
         ll_idle' \in Seq(Conns), NoDup(ll_idle'), requests' \in Seq(Reqs),
         Len(requests') <= Cardinality(ll_pending')
  PROVE  IInv'
<1>1. n_total' \in 0 .. Cardinality(Conns) /\ hostref' \in Nat
  <2>1. down' \in BOOLEAN
    BY ZenonT(60) DEF IInv, TypeOK
  <2>2. Agree(info', n_total', hostref', poolref', down')
    BY ZenonT(60) DEF Counters
  <2> HIDE DEF Agree
  <2>3. QED
    BY <2>1, <2>2, AgreeTypes
<1>2. TypeOK'
  BY ZenonT(60), <1>1 DEF IInv, TypeOK
<1>3. Covered'
  BY ZenonT(60) DEF Covered, UserRuns, Idle
<1>4. Looping'
  BY ZenonT(60) DEF IInv, Looping, Failing
<1>5. QED
  BY ZenonT(60), <1>2, <1>3, <1>4 DEF IInv

(* Pool::get that takes an idle connection preserves the invariant.        *)
LEMMA GetIdleStep ==
  ASSUME IInv, NEW r \in Reqs, UserRuns, ~down, req[r].state = "none",
         NEW k \in 1 .. Len(ll_idle), GetIdle(r, k),
         UNCHANGED <<env, held, async, poolref, down, loop>>
  PROVE  IInv'
<1> DEFINE dead == {ll_idle[i] : i \in (k + 1) .. Len(ll_idle)}
<1>1. PICK c : c = ll_idle[k]
  BY ZenonT(60)
<1>2. /\ cs' = [d \in Conns |-> IF d \in dead THEN Unref(cs[d]) ELSE cs[d]]
      /\ info' = [d \in Conns |-> IF d \in dead THEN "dead" ELSE
                                  IF d = c THEN "LEASED" ELSE info[d]]
      /\ idle_timer' = idle_timer \ (dead \cup {c})
      /\ ll_idle' = SubSeq(ll_idle, 1, k - 1)
      /\ n_total' = n_total - Cardinality(dead)
      /\ hostref' = hostref - Cardinality(dead)
      /\ req' = [req EXCEPT ![r] = [state |-> "ASSIGNED", sock |-> c]]
      /\ UNCHANGED <<ll_pending, requests>>
  BY ZenonT(60), <1>1 DEF GetIdle
<1>3. /\ ll_idle \in Seq(Conns) /\ NoDup(ll_idle) /\ requests \in Seq(Reqs)
      /\ info \in [Conns -> {"none", "PENDING", "IDLE", "LEASED", "dead"}]
      /\ cs \in [Conns -> AttemptType] /\ idle_timer \subseteq Conns /\ ll_pending \subseteq Conns
      /\ held \subseteq Conns /\ down = FALSE
      /\ req \in [Reqs -> [state : {"none", "PENDING", "ASSIGNED", "called", "cancelled"},
                           sock : Conns \cup {None}]]
  BY ZenonT(60) DEF IInv, TypeOK
<1>4. /\ ll_idle' \in Seq(Conns) /\ NoDup(ll_idle') /\ c \in Items(ll_idle)
      /\ dead \subseteq Items(ll_idle) /\ c \notin dead
      /\ \A d : d \in Items(ll_idle') <=> d \in Items(ll_idle) /\ d \notin dead /\ d # c
  <2>1. PICK j \in 0 .. Len(ll_idle) : j = k - 1 /\ (j + 1) .. Len(ll_idle) = {k} \cup ((k + 1) .. Len(ll_idle))
    <3>1. Len(ll_idle) \in Nat
      BY SMTT(60), <1>3
    <3>2. /\ k - 1 \in 0 .. Len(ll_idle)
          /\ ((k - 1) + 1) .. Len(ll_idle) = {k} \cup ((k + 1) .. Len(ll_idle))
      BY SMTT(60), <3>1
    <3>3. QED
      BY ZenonT(60), <3>2
  <2>2. /\ SubSeq(ll_idle, 1, j) \in Seq(Conns) /\ NoDup(SubSeq(ll_idle, 1, j))
        /\ \A x : x \in Items(SubSeq(ll_idle, 1, j)) <=>
                    x \in Items(ll_idle) /\ x \notin {ll_idle[i] : i \in (j + 1) .. Len(ll_idle)}
    BY <1>3, PrefixListed
  <2>3. \A x : x \in {ll_idle[i] : i \in (j + 1) .. Len(ll_idle)} <=> x \in dead \/ x = c
    BY ZenonT(60), <1>1, <2>1
  <2>4. DOMAIN ll_idle = 1 .. Len(ll_idle) /\ \A i \in (k + 1) .. Len(ll_idle) : i \in 1 .. Len(ll_idle)
    BY SMTT(60), <1>3
  <2>5. c \in Items(ll_idle) /\ dead \subseteq Items(ll_idle)
    BY ZenonT(60), <1>1, <2>4 DEF Items
  <2>6. c \notin dead
    <3>1. \A i \in (k + 1) .. Len(ll_idle) : ll_idle[i] # ll_idle[k]
      BY SMTT(60), <1>3 DEF NoDup
    <3>2. QED
      BY ZenonT(60), <1>1, <3>1
  <2> HIDE DEF dead
  <2>7. QED
    BY ZenonT(60), <1>2, <2>1, <2>2, <2>3, <2>5, <2>6
<1> HIDE DEF dead
<1>5. Items(ll_idle) \in SUBSET Conns
  BY ZenonT(60), <1>3, Members
<1>6. c \in Conns /\ dead \in SUBSET Conns
  BY ZenonT(60), <1>4, <1>5
<1>7. /\ "PENDING" # "IDLE" /\ "IDLE" # "LEASED" /\ "IDLE" # "none" /\ "LEASED" # "none"
      /\ "LEASED" # "PENDING" /\ "LEASED" # "dead" /\ "ASSIGNED" # "PENDING" /\ "ASSIGNED" # "none"
      /\ "none" # "PENDING" /\ "none" # "ASSIGNED"
  OBVIOUS
<1>8. \A d \in Items(ll_idle) : info[d] = "IDLE" /\ ~Taken(d)
  BY ZenonT(60), <1>5, <1>7 DEF IInv, Placed
<1>9. /\ req' \in [Reqs -> [state : {"none", "PENDING", "ASSIGNED", "called", "cancelled"},
                            sock : Conns \cup {None}]]
      /\ req'[r].state = "ASSIGNED" /\ req'[r].sock = c
      /\ \A q \in Reqs : q # r => req'[q] = req[q]
  BY ZenonT(60), <1>2, <1>3, <1>6
<1>10. req[r].sock = None /\ r \notin Items(requests)
  BY ZenonT(60), <1>7 DEF IInv, Listed
<1>11. c \notin held /\ (\A q \in Reqs : req[q].sock # c) /\ c # None
  BY ZenonT(60), <1>4, <1>6, <1>8, Numbers DEF Taken
<1>12. Taken(c)' /\ \A d \in Conns : d # c => (Taken(d)' <=> Taken(d))
  <2>1. Taken(c)'
    BY ZenonT(60), <1>9 DEF Taken
  <2>2. ASSUME NEW d \in Conns, d # c PROVE Taken(d)' <=> Taken(d)
    BY ZenonT(60), <1>9, <1>10, <2>2, Numbers DEF Taken
  <2>3. QED
    BY ZenonT(60), <2>1, <2>2
<1>13. \A d \in Conns : req[d].state # "none" => req'[d].state # "none"
  BY ZenonT(60), <1>7, <1>9, Numbers
<1>14. Listed'
  <2>1. \A q \in Reqs : req'[q].sock \notin held'
    BY ZenonT(60), <1>9, <1>11 DEF IInv, Listed
  <2>2. \A q, p \in Reqs : req'[q].sock = req'[p].sock /\ req'[q].sock # None => q = p
    <3>1. ASSUME NEW q \in Reqs, NEW p \in Reqs, req'[q].sock = req'[p].sock, req'[q].sock # None
          PROVE  q = p
      <4>1. CASE q # r /\ p # r
        <5>1. req'[q] = req[q] /\ req'[p] = req[p]
          BY ZenonT(60), <1>9, <4>1
        <5>2. req[q].sock = req[p].sock /\ req[q].sock # None
          BY ZenonT(60), <3>1, <5>1
        <5>3. QED
          BY ZenonT(60), <5>2 DEF IInv, Listed
      <4>2. CASE q = r \/ p = r
        <5>1. \A x \in Reqs : x # r => req'[x].sock # c
          BY ZenonT(60), <1>9, <1>11
        <5>2. QED
          BY ZenonT(60), <1>9, <3>1, <4>2, <5>1
      <4>3. QED
        BY ZenonT(60), <4>1, <4>2
    <3>2. QED
      BY ZenonT(60), <3>1
  <2>3. \A q \in Reqs : /\ q \in Items(requests') <=> req'[q].state = "PENDING"
                        /\ req'[q].sock # None <=> req'[q].state = "ASSIGNED"
    BY ZenonT(60), <1>2, <1>7, <1>9, <1>10, <1>11 DEF IInv, Listed
  <2>4. QED
    BY ZenonT(60), <1>2, <2>1, <2>2, <2>3 DEF IInv, Listed
<1>15. (Failing' <=> Failing) /\ \A d \in Conns : InLoop(d)' <=> InLoop(d)
  BY ZenonT(60) DEF Failing, InLoop
<1>16. ASSUME NEW d \in dead PROVE Placed(d)' /\ Counted(d)' /\ cs'[d] \in AttemptType
  <2>1. /\ d \in Conns /\ info[d] = "IDLE" /\ cs'[d] = Unref(cs[d]) /\ info'[d] = "dead"
        /\ d \notin Items(ll_idle') /\ d \notin idle_timer' /\ d # c
    BY ZenonT(60), <1>2, <1>4, <1>6, <1>8
  <2>2. ll_pending' \subseteq ll_pending \cup {x \in Conns : x # d}
    BY ZenonT(60), <1>2
  <2>3. Taken(d)' => Taken(d)
    BY ZenonT(60), <1>12, <2>1
  <2>4. QED
    BY ZenonT(60), <1>13, <1>15, <2>1, <2>2, <2>3, ClosedIdle
<1>17. ASSUME NEW d \in Conns, d \notin dead, d # c PROVE Placed(d)' /\ Counted(d)'
  <2>1. Untouched(d)
    BY ZenonT(60), <1>2, <1>4, <1>12, <1>13, <1>15, <1>17 DEF Untouched
  <2>2. QED
    BY ZenonT(60), <2>1, UntouchedHolds DEF IInv
<1>18. cs'[c] = cs[c] /\ info'[c] = "LEASED" /\ c \notin idle_timer' /\ c \notin Items(ll_idle')
       /\ info[c] = "IDLE"
  BY ZenonT(60), <1>2, <1>4, <1>6, <1>8
<1>19. Placed(c)'
  BY ZenonT(60), <1>2, <1>6, <1>7, <1>12, <1>13, <1>15, <1>18 DEF IInv, Placed
<1>20. Counted(c)'
  <2>1. c \notin ll_pending'
    BY ZenonT(60), <1>7, <1>18, <1>19 DEF Placed
  <2>2. InLoop(c) => ~Failing
    BY ZenonT(60), <1>6, <1>7, <1>18 DEF IInv, Placed
  <2>3. QED
    BY ZenonT(60), <1>6, <1>7, <1>15, <1>18, <2>1, <2>2 DEF IInv, Counted
<1>21. Counters'
  <2> DEFINE g == [d \in Conns |-> IF d \in dead THEN "dead" ELSE info[d]]
  <2>1. (\A d \in dead : info[d] \in Alive)
        /\ \A d \in Conns : g[d] = IF d \in dead THEN "dead" ELSE info[d]
    BY ZenonT(60), <1>4, <1>8 DEF Alive
  <2>2. \A d \in Conns : info'[d] \in Alive <=> g[d] \in Alive
    BY ZenonT(60), <1>2, <1>4, <1>18 DEF Alive
  <2> HIDE DEF g
  <2>3. Agree(info, n_total, hostref, poolref, FALSE)
    BY ZenonT(60), <1>3 DEF IInv, Counters
  <2>4. Agree(g, n_total - Cardinality(dead), hostref - Cardinality(dead), poolref, FALSE)
    BY ZenonT(60), <1>6, <2>1, <2>3, AgreeDelete
  <2>5. Agree(info', n_total - Cardinality(dead), hostref - Cardinality(dead), poolref, FALSE)
    BY ZenonT(60), <2>2, <2>4, AgreeSame
  <2>6. QED
    BY ZenonT(60), <1>2, <1>3, <2>5 DEF Counters
<1>22. /\ cs' \in [Conns -> AttemptType]
       /\ info' \in [Conns -> {"none", "PENDING", "IDLE", "LEASED", "dead"}]
  <2>1. \A d \in Conns : d \in dead => Unref(cs[d]) \in AttemptType
    BY ZenonT(60), <1>2, <1>16
  <2>2. QED
    BY ZenonT(60), <1>2, <1>3, <2>1
<1>23. idle_timer' \subseteq Conns
  BY ZenonT(60), <1>2, <1>3
<1>24. Len(requests') <= Cardinality(ll_pending')
  BY ZenonT(60), <1>2 DEF IInv, Covered, UserRuns, Idle
<1>25. \A d \in Conns : Placed(d)' /\ Counted(d)'
  BY ZenonT(60), <1>16, <1>17, <1>19, <1>20
<1>26. QED
  BY ZenonT(60), <1>2, <1>3, <1>4, <1>9, <1>14, <1>21, <1>22, <1>23, <1>24, <1>25, GetRest

(* Pool::get that makes its request wait preserves the invariant.          *)
LEMMA GetPendingStep ==
  ASSUME IInv, NEW r \in Reqs, UserRuns, ~down, req[r].state = "none", GetPending(r),
         UNCHANGED <<env, held, async, poolref, down, loop>>
  PROVE  IInv'
<1>1. PICK dead, gone, g : /\ dead = Items(ll_idle)
                           /\ gone = [d \in Conns |-> IF d \in dead THEN Unref(cs[d]) ELSE cs[d]]
                           /\ g = [d \in Conns |-> IF d \in dead THEN "dead" ELSE info[d]]
  BY ZenonT(60)
<1>2. /\ req' = [req EXCEPT ![r] = [state |-> "PENDING", sock |-> None]]
      /\ requests' = Append(requests, r)
      /\ ll_idle' = <<>> /\ idle_timer' = idle_timer \ dead
      /\ n_total' = n_total - Cardinality(dead) + (IF NeedsConnection THEN 1 ELSE 0)
      /\ hostref' = hostref - Cardinality(dead) + (IF NeedsConnection THEN 1 ELSE 0)
  BY ZenonT(60), <1>1 DEF GetPending
<1>3. /\ ll_idle \in Seq(Conns) /\ requests \in Seq(Reqs) /\ NoDup(requests) /\ env \in Envs
      /\ info \in [Conns -> {"none", "PENDING", "IDLE", "LEASED", "dead"}]
      /\ cs \in [Conns -> AttemptType] /\ idle_timer \subseteq Conns /\ ll_pending \subseteq Conns
      /\ held \subseteq Conns /\ down = FALSE
      /\ req \in [Reqs -> [state : {"none", "PENDING", "ASSIGNED", "called", "cancelled"},
                           sock : Conns \cup {None}]]
  BY ZenonT(60) DEF IInv, TypeOK, Listed
<1>4. /\ "PENDING" # "IDLE" /\ "IDLE" # "LEASED" /\ "IDLE" # "none" /\ "LEASED" # "none"
      /\ "LEASED" # "PENDING" /\ "dead" # "none" /\ "ASSIGNED" # "PENDING" /\ "PENDING" # "none"
      /\ "none" # "ASSIGNED" /\ "PENDING" # "dead"
  OBVIOUS
<1>5. r \in Conns /\ dead \in SUBSET Conns
  BY ZenonT(60), <1>1, <1>3, Members, Numbers
<1>6. /\ info[r] = "none" /\ ~Taken(r) /\ r \notin ll_pending /\ r \notin dead /\ r \notin idle_timer
      /\ ~InLoop(r)
  <2>1. Placed(r)
    BY ZenonT(60), <1>5 DEF IInv
  <2>2. info[r] = "none"
    BY ZenonT(60), <2>1 DEF Placed
  <2>3. ~InLoop(r)
    BY ZenonT(60), <1>4, <2>1, <2>2 DEF Placed
  <2>4. QED
    BY ZenonT(60), <1>1, <1>4, <2>1, <2>2, <2>3 DEF Placed
<1>7. \A d \in dead : info[d] = "IDLE"
  BY ZenonT(60), <1>1, <1>5 DEF IInv, Placed
<1>8. req[r].sock = None /\ r \notin Items(requests)
  BY ZenonT(60), <1>4 DEF IInv, Listed
<1>9. /\ req' \in [Reqs -> [state : {"none", "PENDING", "ASSIGNED", "called", "cancelled"},
                            sock : Conns \cup {None}]]
      /\ req'[r].state = "PENDING" /\ req'[r].sock = None
      /\ \A q \in Reqs : q # r => req'[q] = req[q]
  BY ZenonT(60), <1>2, <1>3
<1>10. \A q \in Reqs : req'[q].sock = req[q].sock
  BY ZenonT(60), <1>8, <1>9
<1>11. \A d \in Conns : Taken(d)' <=> Taken(d)
  BY ZenonT(60), <1>10 DEF Taken
<1>12. req'[r].state # "none" /\ \A d \in Conns : req[d].state # "none" => req'[d].state # "none"
  BY ZenonT(60), <1>4, <1>9, Numbers
<1>13. /\ requests' \in Seq(Reqs) /\ NoDup(requests') /\ Len(requests') = Len(requests) + 1
       /\ \A q : q \in Items(requests') <=> q \in Items(requests) \/ q = r
  BY ZenonT(60), <1>2, <1>3, <1>8, AppendListed
<1>14. Listed'
  <2>1. \A q \in Reqs : req'[q].sock \notin held'
    BY ZenonT(60), <1>10 DEF IInv, Listed
  <2>2. \A q, p \in Reqs : req'[q].sock = req'[p].sock /\ req'[q].sock # None => q = p
    BY ZenonT(60), <1>10 DEF IInv, Listed
  <2>3. \A q \in Reqs : q \in Items(requests') <=> req'[q].state = "PENDING"
    BY ZenonT(60), <1>9, <1>13 DEF IInv, Listed
  <2>4. \A q \in Reqs : req'[q].sock # None <=> req'[q].state = "ASSIGNED"
    BY ZenonT(60), <1>4, <1>9 DEF IInv, Listed
  <2>5. QED
    BY ZenonT(60), <1>13, <2>1, <2>2, <2>3, <2>4 DEF Listed
<1>15. (Failing' <=> Failing) /\ \A d \in Conns : InLoop(d)' <=> InLoop(d)
  BY ZenonT(60) DEF Failing, InLoop
<1>16. ll_idle' \in Seq(Conns) /\ NoDup(ll_idle') /\ (\A x : x \notin Items(ll_idle'))
       /\ idle_timer' \subseteq Conns
  <2>1. ll_idle' = <<>> /\ DOMAIN <<>> = {} /\ <<>> \in Seq(Conns) /\ Len(<<>>) = 0
    BY SMTT(60), <1>2
  <2>2. NoDup(<<>>)
    BY SMTT(60) DEF NoDup
  <2>3. QED
    BY ZenonT(60), <1>2, <1>3, <2>1, <2>2 DEF Items
<1>17. /\ Len(requests) <= Cardinality(ll_pending)
       /\ Len(requests) \in Nat /\ Cardinality(ll_pending) \in Nat
       /\ Cardinality(ll_pending \cup {r}) = Cardinality(ll_pending) + 1
  <2>1. Len(requests) <= Cardinality(ll_pending)
    BY ZenonT(60) DEF IInv, Covered, UserRuns, Idle
  <2>2. Len(requests) \in Nat
    BY SMTT(60), <1>3
  <2>3. QED
    BY ZenonT(60), <1>3, <1>5, <1>6, <2>1, <2>2, ConnCard
<1>18. Agree(g, n_total - Cardinality(dead), hostref - Cardinality(dead), poolref, FALSE)
  <2>1. (\A d \in dead : info[d] \in Alive)
        /\ \A d \in Conns : g[d] = IF d \in dead THEN "dead" ELSE info[d]
    BY ZenonT(60), <1>1, <1>7 DEF Alive
  <2>2. Agree(info, n_total, hostref, poolref, FALSE)
    BY ZenonT(60), <1>3 DEF IInv, Counters
  <2>3. QED
    BY ZenonT(60), <1>5, <2>1, <2>2, AgreeDelete
<1>19. Cardinality(dead) \in Nat /\ n_total \in Nat /\ hostref \in Nat
  <2>1. Cardinality(dead) \in Nat /\ Cardinality(Conns) \in Nat
    BY ZenonT(60), <1>5, ConnCard
  <2>2. n_total \in 0 .. Cardinality(Conns) /\ hostref \in Nat
    BY ZenonT(60) DEF IInv, TypeOK
  <2>3. QED
    BY SMTT(60), <2>1, <2>2
<1>20. g[r] = "none" /\ gone[r] = cs[r] /\ (\A d \in Conns : d \notin dead => gone[d] = cs[d] /\ g[d] = info[d])
       /\ \A d \in dead : gone[d] = Unref(cs[d]) /\ g[d] = "dead"
  BY ZenonT(60), <1>1, <1>5, <1>6
<1>21. ASSUME NEW d \in dead, cs'[d] = gone[d], info'[d] = g[d],
              ll_pending' \subseteq ll_pending \cup {x \in Conns : x # d}
       PROVE  Placed(d)' /\ Counted(d)' /\ cs'[d] \in AttemptType
  <2>1. d \in Conns /\ info[d] = "IDLE" /\ cs'[d] = Unref(cs[d]) /\ info'[d] = "dead"
        /\ d \notin Items(ll_idle') /\ d \notin idle_timer'
    BY ZenonT(60), <1>2, <1>5, <1>7, <1>16, <1>20, <1>21
  <2>2. QED
    BY ZenonT(60), <1>11, <1>12, <1>15, <1>21, <2>1, ClosedIdle
<1>22. ASSUME NEW d \in Conns, d \notin dead, cs'[d] = cs[d], info'[d] = info[d],
              d \in ll_pending' <=> d \in ll_pending
       PROVE  Placed(d)' /\ Counted(d)'
  <2>1. d \notin Items(ll_idle)
    BY ZenonT(60), <1>1, <1>22
  <2>2. Untouched(d)
    BY ZenonT(60), <1>2, <1>11, <1>12, <1>15, <1>16, <1>22, <2>1 DEF Untouched
  <2>3. QED
    BY ZenonT(60), <2>2, UntouchedHolds DEF IInv
<1>23. CASE NeedsConnection
  <2>1. PICK s \in Connstart(env.io, env.naddr) : cs' = [gone EXCEPT ![r] = s]
    BY ZenonT(60), <1>1, <1>23 DEF GetPending
  <2>2. /\ info' = [d \in Conns |-> IF d \in dead THEN "dead" ELSE
                                    IF d = r THEN "PENDING" ELSE info[d]]
        /\ ll_pending' = ll_pending \cup {r}
    BY ZenonT(60), <1>1, <1>23 DEF GetPending
  <2>3. Trying(s, env)
    BY ZenonT(60), <1>3, ConnstartTrying
  <2>4. s \in AttemptType /\ s.st \in Waiting
    BY ZenonT(60), <2>3 DEF Trying
  <2>5. s.st # "handler" /\ s.st # "abort"
    BY SMTT(60), <2>4 DEF Waiting
  <2>6. /\ cs'[r] = s /\ info'[r] = "PENDING"
        /\ \A d \in Conns : d # r => cs'[d] = gone[d] /\ info'[d] = g[d]
    <3>1. DOMAIN gone = Conns
      BY ZenonT(60), <1>1
    <3>2. QED
      BY ZenonT(60), <1>1, <1>5, <1>6, <2>1, <2>2, <3>1
  <2>7. ASSUME NEW d \in dead PROVE Placed(d)' /\ Counted(d)' /\ cs'[d] \in AttemptType
    <3>1. d \in Conns /\ d # r
      BY ZenonT(60), <1>5, <1>6
    <3>2. ll_pending' \subseteq ll_pending \cup {x \in Conns : x # d}
      BY ZenonT(60), <1>5, <2>2, <3>1
    <3>3. QED
      BY ZenonT(60), <1>21, <2>6, <3>1, <3>2
  <2>8. ASSUME NEW d \in Conns, d \notin dead, d # r PROVE Placed(d)' /\ Counted(d)'
    BY ZenonT(60), <1>20, <1>22, <2>2, <2>6, <2>8
  <2>9. Placed(r)'
    BY ZenonT(60), <1>2, <1>4, <1>5, <1>6, <1>11, <1>12, <1>15, <1>16, <2>2, <2>5, <2>6 DEF Placed
  <2>10. Counted(r)'
    <3>1. Trying(cs'[r], env')
      BY ZenonT(60), <2>3, <2>6
    <3>2. s.result = "CONNECT_ERROR" /\ ~env.error_events => s.tried = 1 .. s.n
      BY ZenonT(60), <2>3 DEF Trying
    <3>3. QED
      BY ZenonT(60), <1>4, <1>5, <1>6, <1>11, <1>15, <2>5, <2>6, <3>1, <3>2 DEF Counted, Trying
  <2>11. Counters'
    <3>1. g[r] \notin Alive /\ info'[r] \in Alive
      BY SMTT(60), <1>20, <2>6 DEF Alive
    <3>2. \A x \in Conns \ {r} : info'[x] = g[x]
      BY ZenonT(60), <2>6
    <3>3. Agree(info', n_total - Cardinality(dead) + 1, hostref - Cardinality(dead) + 1, poolref, FALSE)
      BY ZenonT(60), <1>5, <1>18, <3>1, <3>2, AgreeAdd
    <3>4. QED
      BY ZenonT(60), <1>2, <1>3, <1>23, <3>3 DEF Counters
  <2>12. /\ cs' \in [Conns -> AttemptType] /\ ll_pending' \subseteq Conns
         /\ info' \in [Conns -> {"none", "PENDING", "IDLE", "LEASED", "dead"}]
    <3>1. \A d \in Conns : gone[d] \in AttemptType
      <4>1. ASSUME NEW d \in Conns PROVE gone[d] \in AttemptType
        <5>1. CASE d \in dead
          BY ZenonT(60), <1>5, <1>6, <2>6, <2>7, <5>1
        <5>2. CASE d \notin dead
          BY ZenonT(60), <1>3, <1>20, <5>2
        <5>3. QED
          BY ZenonT(60), <5>1, <5>2
      <4>2. QED
        BY ZenonT(60), <4>1
    <3>2. gone \in [Conns -> AttemptType]
      BY ZenonT(60), <1>1, <3>1
    <3>3. QED
      BY ZenonT(60), <1>3, <1>5, <2>1, <2>2, <2>4, <3>2
  <2>13. Len(requests') <= Cardinality(ll_pending')
    BY SMTT(60), <1>13, <1>17, <2>2
  <2>14. \A d \in Conns : Placed(d)' /\ Counted(d)'
    BY ZenonT(60), <2>7, <2>8, <2>9, <2>10
  <2>15. QED
    BY ZenonT(60), <1>9, <1>13, <1>14, <1>16, <2>11, <2>12, <2>13, <2>14, GetRest
<1>24. CASE ~NeedsConnection
  <2>1. cs' = gone /\ info' = g /\ ll_pending' = ll_pending
    BY ZenonT(60), <1>1, <1>24 DEF GetPending
  <2>2. ASSUME NEW d \in dead PROVE Placed(d)' /\ Counted(d)' /\ cs'[d] \in AttemptType
    <3>1. ll_pending' \subseteq ll_pending \cup {x \in Conns : x # d}
      BY ZenonT(60), <2>1
    <3>2. QED
      BY ZenonT(60), <1>21, <2>1, <3>1
  <2>3. ASSUME NEW d \in Conns, d \notin dead PROVE Placed(d)' /\ Counted(d)'
    BY ZenonT(60), <1>20, <1>22, <2>1, <2>3
  <2>4. Counters'
    <3>1. /\ n_total - Cardinality(dead) + 0 = n_total - Cardinality(dead)
          /\ hostref - Cardinality(dead) + 0 = hostref - Cardinality(dead)
      BY SMTT(60), <1>19
    <3>2. n_total' = n_total - Cardinality(dead) /\ hostref' = hostref - Cardinality(dead)
      BY ZenonT(60), <1>2, <1>24, <3>1
    <3>3. QED
      BY ZenonT(60), <1>3, <1>18, <2>1, <3>2 DEF Counters
  <2>5. /\ cs' \in [Conns -> AttemptType] /\ ll_pending' \subseteq Conns
        /\ info' \in [Conns -> {"none", "PENDING", "IDLE", "LEASED", "dead"}]
    <3>1. \A d \in Conns : d \in dead => Unref(cs[d]) \in AttemptType
      BY ZenonT(60), <1>20, <2>1, <2>2
    <3>2. QED
      BY ZenonT(60), <1>1, <1>3, <2>1, <3>1
  <2>6. Len(requests') <= Cardinality(ll_pending')
    <3>1. ~(Cardinality(ll_pending) < Len(requests) + 1)
      BY ZenonT(60), <1>24 DEF NeedsConnection
    <3>2. QED
      BY SMTT(60), <1>13, <1>17, <2>1, <3>1
  <2>7. \A d \in Conns : Placed(d)' /\ Counted(d)'
    BY ZenonT(60), <2>2, <2>3
  <2>8. QED
    BY ZenonT(60), <1>9, <1>13, <1>14, <1>16, <2>4, <2>5, <2>6, <2>7, GetRest
<1>25. QED
  BY ZenonT(60), <1>23, <1>24

(* Pool::get preserves the invariant.                                      *)
LEMMA GetStep ==
  ASSUME IInv, NEW r \in Reqs, Get(r)
  PROVE  IInv'
<1>1. /\ UserRuns /\ ~down /\ req[r].state = "none"
      /\ GetPending(r) \/ \E k \in 1 .. Len(ll_idle) : GetIdle(r, k)
      /\ UNCHANGED <<env, held, async, poolref, down, loop>>
  BY ZenonT(60) DEF Get
<1>2. QED
  BY ZenonT(60), <1>1, GetPendingStep, GetIdleStep
-----------------------------------------------------------------------------
(* The invariant holds in a new pool.                                      *)
LEMMA InitInv ==
  ASSUME Init
  PROVE  IInv
<1>1. /\ env \in Envs /\ cs = [c \in Conns |-> NoAttempt] /\ info = [c \in Conns |-> "none"]
      /\ idle_timer = {} /\ ll_idle = <<>> /\ ll_pending = {} /\ requests = <<>>
      /\ req = [r \in Reqs |-> [state |-> "none", sock |-> None]]
      /\ held = {} /\ async = FALSE
      /\ n_total = 0 /\ hostref = 1 /\ poolref = 2 /\ down = FALSE /\ loop = NoLoop
  BY ZenonT(60) DEF Init
<1>2. /\ loop.kind = "none"
      /\ loop \in [kind : {"none", "available", "failed", "dangling"},
                   conn : Conns \cup {None}, nxt : Reqs \cup {None}, user : BOOLEAN]
  BY ZenonT(60), <1>1 DEF NoLoop, Loop
<1>3. NoAttempt \in AttemptType
  <2>1. 1 \in 1 .. MaxAddr /\ 1 \in 1 .. (MaxAddr + 1) /\ {} \in SUBSET (1 .. MaxAddr) /\ 0 \in 0 .. 3
    BY SMTT(60), ConnectAssumption
  <2>2. QED
    BY ZenonT(60), <2>1 DEF NoAttempt, AttemptType
<1>4. /\ DOMAIN <<>> = {} /\ <<>> \in Seq(Conns) /\ <<>> \in Seq(Reqs) /\ Len(<<>>) = 0
      /\ NoDup(<<>>)
  BY SMTT(60) DEF NoDup
<1>5. \A x : x \notin Items(<<>>)
  BY ZenonT(60), <1>4 DEF Items
<1>6. /\ "none" # "PENDING" /\ "none" # "IDLE" /\ "none" # "LEASED" /\ "none" # "dead"
      /\ "none" # "ASSIGNED" /\ "none" # "handler" /\ "none" # "abort" /\ "none" # "CONNECT_ERROR"
  OBVIOUS
<1>7. /\ NoAttempt.st = "none" /\ NoAttempt.flight = FALSE /\ NoAttempt.result = "none"
  BY ZenonT(60) DEF NoAttempt
<1>8. \A r \in Reqs : req[r].state = "none" /\ req[r].sock = None
  BY ZenonT(60), <1>1
<1>9. ~Failing /\ \A c \in Conns : ~InLoop(c) /\ ~Taken(c)
  BY ZenonT(60), <1>1, <1>2, <1>8, Numbers DEF Failing, InLoop, Taken
<1>10. \A c \in Conns : info[c] = "none" /\ cs[c] = NoAttempt
  BY ZenonT(60), <1>1
<1>11. \A c \in Conns : Placed(c)
  BY ZenonT(60), <1>1, <1>5, <1>6, <1>7, <1>9, <1>10 DEF Placed
<1>12. \A c \in Conns : Counted(c)
  BY ZenonT(60), <1>1, <1>6, <1>7, <1>9, <1>10 DEF Counted
<1>13. Listed
  BY ZenonT(60), <1>1, <1>4, <1>5, <1>6, <1>8 DEF Listed
<1>14. Cardinality({}) = 0
  BY ZenonT(60), Sizes
<1>15. Counters
  <2>1. AliveSet(info) = {}
    <3>1. "none" \notin Alive
      BY SMTT(60) DEF Alive
    <3>2. QED
      BY ZenonT(60), <1>10, <3>1 DEF AliveSet
  <2>2. Cardinality(AliveSet(info)) = 0
    BY ZenonT(60), <1>14, <2>1
  <2>3. 0 + 1 = 1 /\ 1 + 1 = 2 /\ 1 > 0
    OBVIOUS
  <2>4. QED
    BY ZenonT(60), <1>1, <2>2, <2>3 DEF Counters, Agree
<1>16. n_total \in 0 .. Cardinality(Conns) /\ hostref \in Nat /\ poolref \in Nat
  <2>1. down \in BOOLEAN
    BY ZenonT(60), <1>1
  <2>2. QED
    BY ZenonT(60), <1>15, <2>1, AgreeTypes DEF Counters
<1>17. TypeOK
  <2>1. cs \in [Conns -> AttemptType] /\ info \in [Conns -> {"none", "PENDING", "IDLE", "LEASED", "dead"}]
    BY ZenonT(60), <1>1, <1>3
  <2>2. req \in [Reqs -> [state : {"none", "PENDING", "ASSIGNED", "called", "cancelled"},
                          sock : Conns \cup {None}]]
    BY ZenonT(60), <1>1
  <2>3. QED
    BY ZenonT(60), <1>1, <1>2, <1>4, <1>16, <2>1, <2>2 DEF TypeOK
<1>18. Covered
  <2>1. Len(<<>>) <= Cardinality({})
    BY SMTT(60), <1>4, <1>14
  <2>2. QED
    BY ZenonT(60), <1>1, <1>2, <2>1 DEF Covered
<1>19. Looping
  BY ZenonT(60), <1>1, <1>9 DEF Looping
<1>20. QED
  BY ZenonT(60), <1>1, <1>4, <1>11, <1>12, <1>13, <1>15, <1>17, <1>18, <1>19 DEF IInv

(* Every step of the pool, its attempts and its users preserves it.        *)
LEMMA NextInv ==
  ASSUME IInv, [Next]_vars
  PROVE  IInv'
<1>1. CASE \E r \in Reqs : Get(r) \/ CancelRequest(r) \/ RequestTimer(r)
  BY ZenonT(60), <1>1, GetStep, CancelRequestStep, RequestTimerStep
<1>2. CASE \E c \in Conns : Put(c) \/ Discard(c) \/ IdleTimeout(c)
                            \/ ConnectProgress(c) \/ ConnectTimer(c) \/ ConnectCompleted(c)
  BY ZenonT(60), <1>2, UserStep, IdleTimeoutStep, ConnectProgressStep, ConnectEndStep
<1>3. CASE ConnectionAvailable \/ ConnectionAvailableEnd
  BY ZenonT(60), <1>3, AvailableStep, AvailableEndStep
<1>4. CASE FailRequest \/ FailRequestsEnd
  BY ZenonT(60), <1>4, FailRequestStep, FailRequestsEndStep
<1>5. CASE AsyncAvailable \/ Shutdown
  BY ZenonT(60), <1>5, AsyncStep, ShutdownStep
<1>6. CASE UNCHANGED vars
  <2>1. UNCHANGED <<env, cs, info, idle_timer, ll_idle, ll_pending, requests, req, held,
                    async, n_total, hostref, poolref, down, loop>>
    BY ZenonT(60), <1>6 DEF vars
  <2>2. TypeOK' /\ Listed' /\ Looping' /\ Covered' /\ Counters'
    <3>1. TypeOK'
      BY ZenonT(60), <2>1 DEF IInv, TypeOK
    <3>2. Listed' /\ Looping' /\ Counters'
      BY ZenonT(60), <2>1 DEF IInv, Listed, Looping, Failing, Counters
    <3>3. Covered'
      BY ZenonT(60), <2>1 DEF IInv, Covered
    <3>4. QED
      BY ZenonT(60), <3>1, <3>2, <3>3
  <2>3. \A c \in Conns : Placed(c)' /\ Counted(c)'
    <3>1. \A c \in Conns : Untouched(c)
      BY ZenonT(60), <2>1 DEF Untouched, Taken, InLoop, Failing
    <3>2. QED
      BY ZenonT(60), <2>1, <3>1, UntouchedHolds DEF IInv
  <2>4. QED
    BY ZenonT(60), <2>1, <2>2, <2>3 DEF IInv
<1>7. QED
  BY ZenonT(60), <1>1, <1>2, <1>3, <1>4, <1>5, <1>6 DEF Next

(* The inductive invariant holds in every reachable state.                 *)
THEOREM PoolInvariant == Spec => []IInv
<1>1. Init => IInv
  BY InitInv
<1>2. IInv /\ [Next]_vars => IInv'
  BY NextInv
<1>3. QED
  BY <1>1, <1>2, PTL DEF Spec

(* Whenever the event loop is in control, every waiting request has an     *)
(* attempt: the num_pending() < num_requests() test of Pool::get starts    *)
(* enough of them, for any number of requests and of addresses.            *)
THEOREM WaitersAlwaysCovered == Spec => []WaitersCovered
<1>1. IInv => WaitersCovered
  BY ZenonT(60) DEF IInv, Covered, WaitersCovered, Idle
<1>2. QED
  BY <1>1, PoolInvariant, PTL

(* LCB_ERR_CONNECT_ERROR is reported only after all addresses were tried,  *)
(* for any number of addresses: no clear_sock or GT_NEXTSOCK skips one.    *)
THEOREM AddressesAlwaysTried == Spec => []EveryAddressTried
<1>1. IInv => EveryAddressTried
  BY ZenonT(60) DEF IInv, Counted, EveryAddressTried
<1>2. QED
  BY <1>1, PoolInvariant, PTL

(* The owner of a connection is unique, and there is one exactly for the   *)
(* idle ones and for those that somebody has.                              *)
LEMMA OwnersCount ==
  ASSUME IInv, NEW c \in Conns
  PROVE  /\ Cardinality(Owners(c)) = IF Taken(c) \/ info[c] = "IDLE" THEN 1 ELSE 0
         /\ Taken(c) \/ info[c] = "IDLE" => Owners(c) # {}
<1>0. \A x : Cardinality({x}) = 1
  BY ZenonT(60), Sizes
<1>1. /\ c \in Items(ll_idle) <=> info[c] = "IDLE"
      /\ Taken(c) => info[c] # "IDLE"
  <2>1. "IDLE" # "LEASED"
    OBVIOUS
  <2>2. QED
    BY ZenonT(60), <2>1 DEF IInv, Placed
<1>2. \A q, p \in Reqs : req[q].sock = c /\ req[p].sock = c => q = p
  <2>1. ASSUME NEW q \in Reqs, NEW p \in Reqs, req[q].sock = c, req[p].sock = c
        PROVE  q = p
    <3>1. req[q].sock = req[p].sock /\ req[q].sock # None
      BY ZenonT(60), <2>1, Numbers
    <3>2. QED
      BY ZenonT(60), <3>1 DEF IInv, Listed
  <2>2. QED
    BY ZenonT(60), <2>1
<1>3. c \in held => \A q \in Reqs : req[q].sock # c
  BY ZenonT(60) DEF IInv, Listed
<1>4. CASE c \in held
  <2>1. c \notin Items(ll_idle) /\ Taken(c)
    BY ZenonT(60), <1>1, <1>4 DEF Taken
  <2>2. Owners(c) = {<<"user", c>>}
    BY ZenonT(60), <1>3, <1>4, <2>1 DEF Owners
  <2>3. QED
    BY ZenonT(60), <1>0, <2>1, <2>2
<1>5. CASE c \notin held /\ \E q \in Reqs : req[q].sock = c
  <2>1. PICK q \in Reqs : req[q].sock = c
    BY ZenonT(60), <1>5
  <2>2. c \notin Items(ll_idle) /\ Taken(c)
    BY ZenonT(60), <1>1, <2>1 DEF Taken
  <2>3. Owners(c) = {<<"request", q>>}
    BY ZenonT(60), <1>2, <1>5, <2>1, <2>2 DEF Owners
  <2>4. QED
    BY ZenonT(60), <1>0, <2>2, <2>3
<1>6. CASE ~Taken(c) /\ info[c] = "IDLE"
  <2>1. Owners(c) = {<<"pool", c>>}
    BY ZenonT(60), <1>1, <1>6 DEF Owners, Taken
  <2>2. QED
    BY ZenonT(60), <1>0, <1>6, <2>1
<1>7. CASE ~Taken(c) /\ info[c] # "IDLE"
  <2>1. Owners(c) = {}
    BY ZenonT(60), <1>1, <1>7 DEF Owners, Taken
  <2>2. Cardinality({}) = 0
    BY ZenonT(60), Sizes
  <2>3. QED
    BY ZenonT(60), <1>7, <2>1, <2>2
<1>8. QED
  BY ZenonT(60), <1>4, <1>5, <1>6, <1>7 DEF Taken

(* As long as the assertion of Connstart::cancel has not failed, nobody    *)
(* shares a connection, none is lost, and every reference is accounted for. *)
LEMMA InvOwnership ==
  ASSUME IInv, \A c \in Conns : cs[c].st # "abort"
  PROVE  Ownership
<1>1. NotShared
  <2>1. ASSUME NEW c \in Conns
        PROVE  /\ Cardinality(Owners(c)) <= 1
               /\ Idle /\ info[c] \in {"IDLE", "LEASED"} => Owners(c) # {}
    <3>1. Cardinality(Owners(c)) <= 1
      <4>1. Cardinality(Owners(c)) \in {0, 1}
        BY ZenonT(60), OwnersCount
      <4>2. QED
        BY SMTT(60), <4>1
    <3>2. Idle /\ info[c] \in {"IDLE", "LEASED"} => Taken(c) \/ info[c] = "IDLE"
      BY ZenonT(60) DEF IInv, Placed, Idle, InLoop
    <3>3. QED
      BY ZenonT(60), <3>1, <3>2, OwnersCount
  <2>2. QED
    BY ZenonT(60), <2>1 DEF NotShared
<1>2. ASSUME NEW c \in Conns
      PROVE  cs[c].ref = (IF cs[c].st \in {"CS_PENDING", "CS_CONNECTED", "CS_ERROR", "handler"}
                          THEN 1 ELSE 0)
                         + (IF cs[c].flight THEN 1 ELSE 0) + Cardinality(Owners(c))
  <2>1. Placed(c) /\ Counted(c) /\ cs[c].st # "abort"
    BY ZenonT(60) DEF IInv
  <2>2. PICK k : k = Cardinality(Owners(c))
    BY ZenonT(60)
  <2>3. k = IF Taken(c) \/ info[c] = "IDLE" THEN 1 ELSE 0
    BY ZenonT(60), <2>2, OwnersCount
  <2>4. info[c] \in {"none", "PENDING", "IDLE", "LEASED", "dead"} /\ cs[c].flight \in BOOLEAN
    BY ZenonT(60) DEF IInv, TypeOK, AttemptType
  <2>5. PICK e : e = IF cs[c].st \in {"CS_PENDING", "CS_CONNECTED", "CS_ERROR", "handler"}
                     THEN 1 ELSE 0
    BY ZenonT(60)
  <2>6. e = (IF cs[c].st \in Waiting \/ InLoop(c) THEN 1 ELSE 0)
    BY ZenonT(60), <2>1, <2>5 DEF Waiting, Placed
  <2>7. /\ "none" \notin Waiting /\ "gone" \notin Waiting /\ "handler" \notin Waiting
        /\ "CS_CANCELLED" \notin Waiting /\ "handler" # "none"
        /\ "PENDING" # "IDLE" /\ "PENDING" # "LEASED" /\ "IDLE" # "LEASED"
        /\ "none" # "IDLE" /\ "none" # "LEASED" /\ "dead" # "IDLE" /\ "dead" # "LEASED"
        /\ "dead" # "PENDING" /\ "none" # "PENDING" /\ "IDLE" # "PENDING" /\ "LEASED" # "PENDING"
    BY SMTT(60) DEF Waiting
  <2>8. \/ e = 0 /\ k = 0 /\ cs[c].flight = FALSE /\ cs[c].ref = 0
        \/ e = 0 /\ k = 0 /\ cs[c].flight = TRUE /\ cs[c].ref = 1
        \/ e = 1 /\ k = 0 /\ cs[c].ref = IF cs[c].flight THEN 2 ELSE 1
        \/ e = 1 /\ k = 1 /\ cs[c].flight = FALSE /\ cs[c].ref = 2
        \/ e = 0 /\ k = 1 /\ cs[c].flight = FALSE /\ cs[c].ref = 1
    <3>1. CASE info[c] = "none"
      <4>1. cs[c].st = "none" /\ cs[c].flight = FALSE /\ cs[c].ref = 0
        <5>1. cs[c] = NoAttempt
          BY ZenonT(60), <2>1, <3>1 DEF Counted
        <5>2. NoAttempt.st = "none" /\ NoAttempt.flight = FALSE /\ NoAttempt.ref = 0
          BY ZenonT(60) DEF NoAttempt
        <5>3. QED
          BY ZenonT(60), <5>1, <5>2
      <4>2. ~InLoop(c) /\ ~Taken(c)
        BY ZenonT(60), <2>1, <2>7, <3>1, <4>1 DEF Placed
      <4>3. QED
        BY ZenonT(60), <2>3, <2>6, <2>7, <3>1, <4>1, <4>2
    <3>2. CASE info[c] = "PENDING" /\ ~InLoop(c)
      <4>1. Trying(cs[c], env) /\ ~Taken(c)
        BY ZenonT(60), <2>1, <2>7, <3>2 DEF Placed, Counted
      <4>2. cs[c].st \in Waiting /\ cs[c].ref = IF cs[c].flight THEN 2 ELSE 1
        BY ZenonT(60), <4>1 DEF Trying
      <4>3. QED
        BY ZenonT(60), <2>3, <2>6, <2>7, <3>2, <4>1, <4>2
    <3>3. CASE info[c] = "PENDING" /\ InLoop(c)
      <4>1. Failing /\ ~Taken(c)
        BY ZenonT(60), <2>1, <2>7, <3>3 DEF Placed
      <4>2. cs[c].ref = IF cs[c].flight THEN 2 ELSE 1
        BY ZenonT(60), <2>1, <3>3, <4>1 DEF Counted
      <4>3. QED
        BY ZenonT(60), <2>3, <2>6, <2>7, <3>3, <4>1, <4>2
    <3>4. CASE info[c] = "IDLE" \/ Taken(c)
      <4>1. info[c] \in {"IDLE", "LEASED"}
        BY ZenonT(60), <2>1, <3>4 DEF Placed
      <4>2. /\ cs[c].flight = FALSE /\ cs[c].st \in {"handler", "gone"}
            /\ cs[c].ref = IF InLoop(c) THEN 2 ELSE 1
        BY ZenonT(60), <2>1, <2>4, <3>4, <4>1 DEF Counted
      <4>3. QED
        BY ZenonT(60), <2>3, <2>6, <2>7, <3>4, <4>2
    <3>5. CASE info[c] = "LEASED" /\ ~Taken(c)
      <4>1. InLoop(c) /\ cs[c].ref = 1 /\ cs[c].flight = FALSE
        BY ZenonT(60), <2>1, <2>4, <3>5 DEF Placed, Counted
      <4>2. QED
        BY ZenonT(60), <2>3, <2>6, <2>7, <3>5, <4>1
    <3>6. CASE info[c] = "dead"
      <4>1. ~Taken(c) /\ (InLoop(c) => ~cs[c].flight)
        BY ZenonT(60), <2>1, <2>7, <3>6 DEF Placed, Counted
      <4>2. /\ cs[c].ref = (IF InLoop(c) \/ cs[c].flight THEN 1 ELSE 0)
            /\ cs[c].st \in {"handler", "gone", "CS_CANCELLED"}
        BY ZenonT(60), <2>1, <3>6 DEF Counted
      <4>3. cs[c].st \notin Waiting
        BY ZenonT(60), <2>7, <4>2
      <4>4. QED
        BY ZenonT(60), <2>3, <2>4, <2>6, <2>7, <3>6, <4>1, <4>2, <4>3
    <3>7. QED
      BY ZenonT(60), <2>4, <3>1, <3>2, <3>3, <3>4, <3>5, <3>6
  <2>9. cs[c].ref = e + (IF cs[c].flight THEN 1 ELSE 0) + k
    BY SMTT(60), <2>4, <2>8
  <2>10. QED
    BY ZenonT(60), <2>2, <2>5, <2>9
<1>3. /\ n_total = Cardinality({c \in Conns : info[c] \in {"PENDING", "IDLE", "LEASED"}})
      /\ hostref = n_total + (IF down THEN 0 ELSE 1)
      /\ poolref = (IF down THEN 0 ELSE 1) + (IF hostref > 0 THEN 1 ELSE 0)
  BY ZenonT(60) DEF IInv, Counters, Agree, AliveSet, Alive
<1>4. References
  BY ZenonT(60), <1>2, <1>3 DEF References
<1>5. QED
  BY ZenonT(60), <1>1, <1>4 DEF Ownership

(* Until the assertion of Connstart::cancel fails, if it ever does: a      *)
(* connection has one owner or none, one that left the idle list is not    *)
(* lost, and the references to sockets, host and pool are those of their   *)
(* owners. It holds whatever the I/O plugin and the users of the pool do.  *)
THEOREM OwnershipUntilAbort ==
  Spec => []((\A c \in Conns : cs[c].st # "abort") => Ownership)
<1>1. IInv => ((\A c \in Conns : cs[c].st # "abort") => Ownership)
  BY InvOwnership
<1>2. QED
  BY <1>1, PoolInvariant, PTL

(* With event I/O, or when no completion-mode attempt whose result is due  *)
(* is cancelled by Pool::shutdown, the assertion does not fail and         *)
(* Ownership holds in every state.                                         *)
THEOREM OwnershipAlways ==
  ASSUME \A e \in Envs : e.io = "C" => ~e.late_cancel
  PROVE  Spec => []Ownership
<1>1. IInv => Ownership
  <2> SUFFICES ASSUME IInv PROVE Ownership
    OBVIOUS
  <2>1. env \in Envs
    BY ZenonT(60) DEF IInv, TypeOK
  <2>2. \A c \in Conns : cs[c].st # "abort"
    BY ZenonT(60), <2>1 DEF IInv, Counted
  <2>3. QED
    BY ZenonT(60), <2>2, InvOwnership
<1>2. QED
  BY <1>1, PoolInvariant, PTL
=============================================================================
