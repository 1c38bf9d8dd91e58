--------------------------- MODULE PacketsProofs ----------------------------
(***************************************************************************)
(* The inductive invariant of Packets, the steps that preserve it, the     *)
(* safety theorems that follow, and that Packets implements Completion,    *)
(* for any number of commands, servers and copies.                         *)
(***************************************************************************)
EXTENDS Packets, TLAPS

Cur(c) == <<c, copies[c]>>

(* Only the latest copy of a command waits anywhere *)
HeldAreCurrent ==
  /\ \A pl \in Pipelines : \A p \in ctxqueued[pl] : p[2] = copies[p[1]] /\ p[2] = 1
  /\ \A s \in Servers : \A p \in requests[s] : p[2] = copies[p[1]]
  /\ \A p \in retryq : p[2] = copies[p[1]]
  /\ \A p \in resolving : p[2] = copies[p[1]]

(* ... and in one place *)
HeldOnce ==
  /\ \A pl, ql \in Pipelines : pl # ql => ctxqueued[pl] \cap ctxqueued[ql] = {}
  /\ \A s, t \in Servers : s # t => requests[s] \cap requests[t] = {}
  /\ \A pl \in Pipelines : /\ ctxqueued[pl] \cap (retryq \cup resolving) = {}
                           /\ \A s \in Servers : ctxqueued[pl] \cap requests[s] = {}
  /\ \A s \in Servers : requests[s] \cap (retryq \cup resolving) = {}
  /\ retryq \cap resolving = {}

(* Nothing is known of a copy before it is made *)
NothingAhead ==
  /\ \A p \in flushed \cup invoked \cup freed : p[2] <= copies[p[1]]
  /\ \A s \in Servers : \A p \in sendq[s] : p[2] <= copies[p[1]]

(* What waits for a response was neither handled nor released *)
HeldNotDone ==
  LET done == invoked \cup freed
  IN /\ \A pl \in Pipelines : ctxqueued[pl] \cap (done \cup flushed) = {}
     /\ \A s \in Servers : requests[s] \cap done = {}
     /\ (retryq \cup resolving) \cap (done \cup flushed) = {}

(* What waits to be written is on the pipeline of its request, if that is  *)
(* still waiting, and on no other; it was neither flushed nor released.    *)
SendQueues ==
  /\ \A s \in Servers :
       /\ sendq[s] \cap (flushed \cup freed) = {}
       /\ sendq[s] \cap (retryq \cup resolving) = {}
       /\ \A pl \in Pipelines : sendq[s] \cap ctxqueued[pl] = {}
  /\ \A s, t \in Servers : s # t => /\ sendq[s] \cap sendq[t] = {}
                                    /\ sendq[s] \cap requests[t] = {}

(* RetryOp::pkt is the queued packet or an earlier one *)
RetryOps ==
  /\ \A c \in Cmds : oppkt[c] <= copies[c]
  /\ \A p \in resolving : oppkt[p[1]] < p[2]

(* A command is completed, discarded, or held as its latest copy *)
Accounted ==
  \A c \in Cmds :
    /\ calls[c] <= 1
    /\ calls[c] = 1 => c \notin dropped
    /\ copies[c] = 0 => calls[c] = 0 /\ c \notin dropped
    /\ copies[c] > 0 => (Cur(c) \in Held <=> calls[c] = 0 /\ c \notin dropped)

IInv ==
  /\ TypeOK
  /\ HeldAreCurrent /\ HeldOnce
  /\ NothingAhead /\ HeldNotDone /\ SendQueues
  /\ RetryOps
  /\ Accounted

(* Held, place by place *)
LEMMA HeldIs ==
  \A p : p \in Held <=> \/ \E pl \in Pipelines : p \in ctxqueued[pl]
                        \/ \E s \in Servers : p \in requests[s]
                        \/ p \in retryq
                        \/ p \in resolving
  BY ZenonT(60) DEF Held, Spooled, Requests

(* The same after a step *)
LEMMA HeldWillBe ==
  \A p : p \in Held' <=> \/ \E pl \in Pipelines : p \in ctxqueued'[pl]
                         \/ \E s \in Servers : p \in requests'[s]
                         \/ p \in retryq'
                         \/ p \in resolving'
  BY ZenonT(60) DEF Held, Spooled, Requests

(* A command whose latest copy some queue holds has been scheduled, has    *)
(* not been called back and was not discarded.                             *)
LEMMA HeldIsOpen ==
  ASSUME IInv, NEW c \in Cmds, Cur(c) \in Held
  PROVE  copies[c] > 0 /\ copies[c] # 0 /\ calls[c] = 0 /\ c \notin dropped
<1>1. Cur(c) \in Pkts
  BY ZenonT(60), HeldIs DEF IInv, TypeOK
<1>2. copies[c] > 0 /\ copies[c] # 0
  BY SMTT(60), <1>1 DEF Cur, Pkts, Copies, IInv, TypeOK
<1>3. QED
  BY ZenonT(60), <1>2 DEF IInv, Accounted

(* The commands of a set of latest copies *)
LEMMA CurrentCmds ==
  ASSUME TypeOK, NEW P \in SUBSET Pkts, \A p \in P : p[2] = copies[p[1]]
  PROVE  \A c \in Cmds : c \in CmdsOf(P) <=> Cur(c) \in P
  BY ZenonT(60) DEF TypeOK, CmdsOf, Cur, Pkts, Copies

(* The copies made of a set of latest copies *)
LEMMA RenewedPkts ==
  ASSUME TypeOK, NEW P \in SUBSET Pkts, \A p \in P : p[2] = copies[p[1]], Renewable(P)
  PROVE  {Renew(p) : p \in P}
           = {x \in Pkts : Cur(x[1]) \in P /\ x[2] = copies[x[1]] + 1}
<1>1. ASSUME NEW p \in P
      PROVE  Renew(p) \in Pkts /\ Cur(Renew(p)[1]) \in P
               /\ Renew(p)[2] = copies[Renew(p)[1]] + 1
  BY SMTT(60), <1>1, PacketsAssumption DEF TypeOK, Renew, Cur, Pkts, Copies, Renewable
<1>2. ASSUME NEW x \in Pkts, Cur(x[1]) \in P, x[2] = copies[x[1]] + 1
      PROVE  x = Renew(Cur(x[1]))
  BY SMTT(60), <1>2 DEF TypeOK, Renew, Cur, Pkts, Copies
<1>3. QED
  BY ZenonT(60), <1>1, <1>2

(* The requests P leave server s, answered, timed out or purged, those of R *)
(* into the retry queue (purge_single, RetryQueue::add): the invariant is  *)
(* preserved. The responses, timeouts and socket errors are instances.     *)
LEMMA LeaveStep ==
  ASSUME IInv, NEW s \in Servers, NEW P \in SUBSET requests[s], NEW R \in SUBSET P,
         NEW drain \in BOOLEAN, Renewable(R), Leave(s, P, R, drain),
         UNCHANGED <<ctxqueued, resolving, dropped>>,
         wire' \in [Servers -> SUBSET Pkts],
         conn' \in [Servers -> {"none", "idle", "connecting", "up"}],
         sent' \subseteq Pkts, refused' \subseteq Pkts
  PROVE  IInv'
<1> DEFINE C == CmdsOf(R)
           L == CmdsOf(P \ R)
           Old == OldPkts(C)
<1>1. /\ P \in SUBSET Pkts /\ R \in SUBSET Pkts
      /\ \A p \in P : p[2] = copies[p[1]]
  BY ZenonT(60) DEF IInv, TypeOK, HeldAreCurrent
<1>2. \A c \in Cmds : /\ c \in C <=> Cur(c) \in R
                      /\ c \in L <=> Cur(c) \in P /\ Cur(c) \notin R
  BY SMTT(60), <1>1, CurrentCmds DEF IInv
<1>3. retryq' = retryq \cup {x \in Pkts : Cur(x[1]) \in R /\ x[2] = copies[x[1]] + 1}
  BY ZenonT(60), <1>1, RenewedPkts DEF IInv, Leave
<1>4. /\ copies' = [c \in Cmds |-> IF Cur(c) \in R THEN copies[c] + 1 ELSE copies[c]]
      /\ oppkt' = [c \in Cmds |-> IF Cur(c) \in R THEN copies[c] + 1 ELSE oppkt[c]]
      /\ calls' = [c \in Cmds |-> IF Cur(c) \in P /\ Cur(c) \notin R THEN calls[c] + 1 ELSE calls[c]]
  <2>1. /\ copies' = Renewed(C) /\ oppkt' = Associated(C) /\ calls' = Invoke(L)
    BY ZenonT(60) DEF Leave
  <2>2. /\ copies \in [Cmds -> Nat] /\ calls \in [Cmds -> Nat]
    BY SMTT(60) DEF IInv, TypeOK
  <2> HIDE DEF C, L
  <2>3. copies' = [c \in Cmds |-> IF Cur(c) \in R THEN copies[c] + 1 ELSE copies[c]]
    BY SMTT(60), <2>1, <2>2, <1>2 DEF Renewed
  <2>4. calls' = [c \in Cmds |-> IF Cur(c) \in P /\ Cur(c) \notin R THEN calls[c] + 1 ELSE calls[c]]
    BY SMTT(60), <2>1, <2>2, <1>2 DEF Invoke
  <2>5. oppkt' = [c \in Cmds |-> IF Cur(c) \in R THEN copies[c] + 1 ELSE oppkt[c]]
    BY ZenonT(60), <2>1, <1>2 DEF Associated
  <2>6. QED
    BY ZenonT(60), <2>3, <2>4, <2>5
<1>5. Old = {p \in Pkts : Cur(p[1]) \in R /\ p[2] = oppkt[p[1]]}
  BY ZenonT(60), <1>2 DEF OldPkts, Pkts
<1>6. PICK D \in SUBSET sendq[s] :
        /\ sendq' = [t \in Servers |-> IF t = s THEN (sendq[t] \ Old) \ D ELSE sendq[t] \ Old]
        /\ flushed' = flushed \cup Old \cup D
        /\ freed' = freed \cup (P \cap (flushed \cup Old)) \cup (D \cap (invoked \cup P))
  <2> DEFINE D == IF drain THEN Unlinked(C)[s] ELSE {}
  <2>1. D \in SUBSET sendq[s]
    BY ZenonT(60) DEF Unlinked
  <2>2. /\ sendq' = [t \in Servers |-> IF t = s THEN (sendq[t] \ Old) \ D ELSE sendq[t] \ Old]
        /\ flushed' = flushed \cup Old \cup D
        /\ freed' = freed \cup (P \cap (flushed \cup Old)) \cup (D \cap (invoked \cup P))
    BY ZenonT(60) DEF Leave, Unlinked, Handled, Flushed
  <2> HIDE DEF D
  <2>3. QED
    BY ZenonT(60), <2>1, <2>2
<1>7. /\ requests' = [t \in Servers |-> IF t = s THEN requests[t] \ P ELSE requests[t]]
      /\ invoked' = invoked \cup P
  BY ZenonT(60) DEF Leave, IInv, TypeOK
<1>8. \A c \in Cmds : Cur(c) \in R => Cur(c) \in P /\ copies[c] < MaxCopies
  BY ZenonT(60), <1>1 DEF Renewable, Cur
<1> HIDE DEF Old, C
<1>9. TypeOK'
  <2>1. /\ copies' \in [Cmds -> 0..MaxCopies] /\ oppkt' \in [Cmds -> 0..MaxCopies]
        /\ calls' \in [Cmds -> Nat] /\ dropped' \subseteq Cmds
    BY SMTT(60), <1>4, <1>8, PacketsAssumption DEF IInv, TypeOK
  <2>2. /\ ctxqueued' \in [Pipelines -> SUBSET Pkts]
        /\ requests' \in [Servers -> SUBSET Pkts] /\ sendq' \in [Servers -> SUBSET Pkts]
        /\ retryq' \subseteq Pkts /\ resolving' \subseteq Pkts
    BY ZenonT(60), <1>3, <1>6, <1>7 DEF IInv, TypeOK
  <2>3. flushed' \subseteq Pkts /\ invoked' \subseteq Pkts /\ freed' \subseteq Pkts
    BY ZenonT(60), <1>1, <1>5, <1>6, <1>7 DEF IInv, TypeOK
  <2>4. \A p \in retryq' : oppkt'[p[1]] = p[2]
    BY SMTT(60), <1>1, <1>3, <1>4 DEF IInv, TypeOK, HeldAreCurrent, HeldOnce, Pkts, Copies, Cur
  <2>5. QED
    BY ZenonT(60), <2>1, <2>2, <2>3, <2>4 DEF TypeOK
<1>10. HeldAreCurrent'
  BY SMTT(60), <1>1, <1>3, <1>4, <1>7 DEF IInv, TypeOK, HeldAreCurrent, HeldOnce, Pkts, Copies, Cur
<1>11. HeldOnce'
  BY SMTT(60), <1>1, <1>3, <1>7 DEF IInv, TypeOK, HeldAreCurrent, HeldOnce, Pkts, Copies, Cur
<1>12. NothingAhead'
  <2>1. \A p \in Pkts : /\ p[1] \in Cmds /\ p[2] \in Nat /\ copies[p[1]] \in Nat
                        /\ oppkt[p[1]] \in Nat /\ copies[p[1]] <= copies'[p[1]]
    BY SMTT(60), <1>4 DEF IInv, TypeOK, Pkts, Copies
  <2>2. \A p \in Pkts : p[2] <= copies[p[1]] => p[2] <= copies'[p[1]]
    <3>1. copies' \in [Cmds -> Nat]
      BY SMTT(60), <1>4 DEF IInv, TypeOK
    <3>2. QED
      BY SMTT(60), <2>1, <3>1
  <2>3. \A p \in P \cup Old : p \in Pkts /\ p[2] <= copies[p[1]]
    BY SMTT(60), <2>1, <1>1, <1>5 DEF IInv, RetryOps
  <2>4. \A p \in flushed \cup invoked \cup freed : p \in Pkts /\ p[2] <= copies[p[1]]
    BY ZenonT(60) DEF IInv, TypeOK, NothingAhead
  <2>5. \A t \in Servers : \A p \in sendq[t] : p \in Pkts /\ p[2] <= copies[p[1]]
    BY ZenonT(60) DEF IInv, TypeOK, NothingAhead
  <2>6. \A p \in flushed' \cup invoked' \cup freed' : p[2] <= copies'[p[1]]
    BY ZenonT(60), <2>2, <2>3, <2>4, <2>5, <1>6, <1>7
  <2>7. \A t \in Servers : \A p \in sendq'[t] : p[2] <= copies'[p[1]]
    BY ZenonT(60), <2>2, <2>5, <1>6
  <2>8. QED
    BY ZenonT(60), <2>6, <2>7 DEF NothingAhead
<1>13. HeldNotDone'
  <2>1. \A p \in retryq' : p \in retryq \/ (p \in Pkts /\ p[2] = copies[p[1]] + 1)
    BY ZenonT(60), <1>3
  <2>2. \A p \in Pkts : p[2] = copies[p[1]] + 1 =>
          p \notin invoked \cup freed \cup flushed \cup P \cup Old \cup D
    BY SMTT(60), <1>1, <1>5 DEF IInv, TypeOK, NothingAhead, RetryOps, Pkts, Copies
  <2>3. \A p \in Old : p[1] \in Cmds /\ Cur(p[1]) \in P /\ p[2] = oppkt[p[1]]
    BY ZenonT(60), <1>5, <1>8 DEF Pkts
  <2>4. \A p \in retryq \cup resolving : p \notin Old /\ p \notin P
    BY SMTT(60), <1>1, <2>3 DEF IInv, TypeOK, HeldAreCurrent, HeldOnce, Pkts, Copies, Cur
  <2>5. \A pl \in Pipelines : \A p \in ctxqueued[pl] : p \notin Old /\ p \notin P
    BY SMTT(60), <1>1, <2>3 DEF IInv, TypeOK, HeldAreCurrent, HeldOnce, Pkts, Copies, Cur
  <2>6. \A pl \in Pipelines : ctxqueued'[pl] \cap (invoked' \cup freed' \cup flushed') = {}
    BY ZenonT(60), <2>5, <1>6, <1>7 DEF IInv, HeldNotDone, SendQueues
  <2>7. \A t \in Servers : requests'[t] \cap (invoked' \cup freed') = {}
    BY ZenonT(60), <1>6, <1>7 DEF IInv, HeldNotDone, HeldOnce
  <2>8. (retryq' \cup resolving') \cap (invoked' \cup freed' \cup flushed') = {}
    BY ZenonT(60), <2>1, <2>2, <2>4, <1>6, <1>7 DEF IInv, HeldNotDone, SendQueues
  <2>9. QED
    BY ZenonT(60), <2>6, <2>7, <2>8 DEF HeldNotDone
<1>14. SendQueues'
  <2>1. \A t \in Servers : \A p \in sendq'[t] :
          /\ p \in sendq[t] /\ p \notin Old /\ p \in Pkts
          /\ t = s => p \notin D
    BY ZenonT(60), <1>6 DEF IInv, TypeOK
  <2>2. \A t \in Servers : sendq'[t] \cap (flushed' \cup freed') = {}
    BY ZenonT(60), <2>1, <1>6 DEF IInv, SendQueues
  <2>3. \A t \in Servers : sendq'[t] \cap (retryq' \cup resolving') = {}
    <3>1. \A p \in Pkts : p[1] \in Cmds /\ copies[p[1]] \in Nat
      BY SMTT(60) DEF IInv, TypeOK, Pkts
    <3>2. \A t \in Servers : \A p \in sendq[t] : p[2] # copies[p[1]] + 1
      BY SMTT(60), <3>1 DEF IInv, TypeOK, NothingAhead
    <3>3. \A p \in retryq' : p \in retryq \/ p[2] = copies[p[1]] + 1
      BY ZenonT(60), <1>3
    <3>4. \A t \in Servers : sendq[t] \cap retryq = {} /\ sendq[t] \cap resolving' = {}
      BY ZenonT(60) DEF IInv, SendQueues
    <3>5. QED
      BY ZenonT(60), <2>1, <3>2, <3>3, <3>4
  <2>4. \A t \in Servers, pl \in Pipelines : sendq'[t] \cap ctxqueued'[pl] = {}
    BY ZenonT(60), <2>1 DEF IInv, SendQueues
  <2>5. \A t, u \in Servers : t # u => /\ sendq'[t] \cap sendq'[u] = {}
                                      /\ sendq'[t] \cap requests'[u] = {}
    BY ZenonT(60), <2>1, <1>7 DEF IInv, SendQueues
  <2>6. QED
    BY ZenonT(60), <2>2, <2>3, <2>4, <2>5 DEF SendQueues
<1>15. RetryOps'
  BY SMTT(60), <1>1, <1>3, <1>4
     DEF IInv, TypeOK, HeldAreCurrent, HeldOnce, RetryOps, Pkts, Copies, Cur
<1>16. Accounted'
  <2> SUFFICES ASSUME NEW c \in Cmds
               PROVE  /\ calls'[c] <= 1
                      /\ calls'[c] = 1 => c \notin dropped'
                      /\ copies'[c] = 0 => calls'[c] = 0 /\ c \notin dropped'
                      /\ copies'[c] > 0 =>
                           (Cur(c)' \in Held' <=> calls'[c] = 0 /\ c \notin dropped')
    BY ZenonT(60) DEF Accounted
  <2>1. CASE Cur(c) \in R
    <3>1. Cur(c)' \in Held'
      <4> DEFINE x == <<c, copies[c] + 1>>
      <4>1. x \in Pkts
        BY SMTT(60), <2>1, <1>8, PacketsAssumption DEF IInv, TypeOK, Pkts, Copies
      <4>2. x[1] = c /\ x[2] = copies[c] + 1
        BY ZenonT(60)
      <4>3. x \in retryq'
        BY ZenonT(60), <4>1, <4>2, <2>1, <1>3
      <4>4. Cur(c)' = x
        BY ZenonT(60), <2>1, <1>4 DEF Cur
      <4>5. QED
        BY ZenonT(60), <4>3, <4>4, HeldWillBe
    <3>2. calls[c] = 0 /\ c \notin dropped /\ calls'[c] = calls[c]
      BY SMTT(60), <2>1, <1>1, <1>4 DEF IInv, TypeOK, Accounted, Held, Requests, Cur, Pkts, Copies
    <3>3. QED
      BY SMTT(60), <3>1, <3>2, <2>1, <1>4 DEF IInv, TypeOK
  <2>2. CASE Cur(c) \in P \ R
    <3>1. Cur(c)' = Cur(c) /\ Cur(c) \notin Held'
      <4>1. copies'[c] = copies[c] /\ Cur(c) \in Pkts
        BY ZenonT(60), <2>2, <1>1, <1>4 DEF IInv, TypeOK
      <4>2. Cur(c) \notin retryq'
        BY ZenonT(60), <2>2, <1>3 DEF IInv, TypeOK, HeldOnce, Cur
      <4>3. QED
        BY ZenonT(60), <4>1, <4>2, <2>2, <1>7, HeldWillBe DEF IInv, HeldOnce, Cur
    <3>2. calls[c] = 0 /\ c \notin dropped /\ calls'[c] = 1 /\ copies'[c] > 0
      BY SMTT(60), <2>2, <1>1, <1>4 DEF IInv, TypeOK, Accounted, Held, Requests, Cur, Pkts, Copies
    <3>3. QED
      BY SMTT(60), <3>1, <3>2
  <2>3. CASE Cur(c) \notin P
    <3>1. copies'[c] = copies[c] /\ calls'[c] = calls[c]
      BY ZenonT(60), <2>3, <1>4 DEF IInv, TypeOK
    <3>2. Cur(c)' = Cur(c)
      BY ZenonT(60), <3>1 DEF Cur
    <3>3. Cur(c) \in Held' <=> Cur(c) \in Held
      BY ZenonT(60), <2>3, <1>3, <1>7, HeldIs, HeldWillBe DEF IInv, TypeOK, Cur
    <3>4. QED
      BY ZenonT(60), <3>1, <3>2, <3>3 DEF IInv, Accounted
  <2>4. QED
    BY ZenonT(60), <2>1, <2>2, <2>3
<1>17. QED
  BY ZenonT(60), <1>9, <1>10, <1>11, <1>12, <1>13, <1>14, <1>15, <1>16 DEF IInv

(* mcreq_sched_leave preserves the invariant: every spooled packet is      *)
(* queued once, and those of the fallback pipeline are in the retry queue  *)
(* as one copy each.                                                       *)
LEMMA SchedLeaveStep ==
  ASSUME IInv, SchedLeave
  PROVE  IInv'
<1> DEFINE F == ctxqueued[Fallback]
           C == CmdsOf(F)
<1>1. /\ F \in SUBSET Pkts
      /\ \A p \in F : p[2] = copies[p[1]]
      /\ Renewable(F)
  BY SMTT(60), PacketsAssumption DEF IInv, TypeOK, HeldAreCurrent, Pipelines, Renewable
<1>2. \A c \in Cmds : c \in C <=> Cur(c) \in F
  BY ZenonT(60), <1>1, CurrentCmds DEF IInv
<1>3. retryq' = retryq \cup {x \in Pkts : Cur(x[1]) \in F /\ x[2] = copies[x[1]] + 1}
  BY ZenonT(60), <1>1, RenewedPkts DEF IInv, SchedLeave
<1>4. /\ copies' = [c \in Cmds |-> IF Cur(c) \in F THEN copies[c] + 1 ELSE copies[c]]
      /\ oppkt' = [c \in Cmds |-> IF Cur(c) \in F THEN copies[c] + 1 ELSE oppkt[c]]
  <2>1. copies' = Renewed(C) /\ oppkt' = Associated(C)
    BY ZenonT(60) DEF SchedLeave
  <2>2. copies \in [Cmds -> Nat]
    BY SMTT(60) DEF IInv, TypeOK
  <2> HIDE DEF C
  <2>3. QED
    BY SMTT(60), <2>1, <2>2, <1>2 DEF Renewed, Associated
<1>5. /\ flushed' = flushed \cup F /\ invoked' = invoked \cup F /\ freed' = freed \cup F
      /\ ctxqueued' = [pl \in Pipelines |-> {}]
      /\ requests' = [s \in Servers |-> requests[s] \cup ctxqueued[s]]
      /\ sendq' = [s \in Servers |-> sendq[s] \cup ctxqueued[s]]
      /\ UNCHANGED <<resolving, dropped, calls, wire, sent, refused>>
      /\ conn' = FlushStart({s \in Servers : ctxqueued[s] # {}})
  BY ZenonT(60) DEF SchedLeave
<1>6. \A s \in Servers : s \in Pipelines /\ s # Fallback
  BY ZenonT(60), PacketsAssumption DEF Pipelines
<1>7. F = ctxqueued[Fallback] /\ Fallback \in Pipelines
  BY ZenonT(60) DEF Pipelines
<1>8. \A c \in Cmds : Cur(c) \in F => copies[c] < MaxCopies
  BY ZenonT(60), <1>1 DEF Renewable, Cur
<1> HIDE DEF F, C
<1>9. TypeOK'
  <2>1. copies' \in [Cmds -> 0..MaxCopies] /\ oppkt' \in [Cmds -> 0..MaxCopies]
    BY SMTT(60), <1>4, <1>8, PacketsAssumption DEF IInv, TypeOK
  <2>2. conn' \in [Servers -> {"none", "idle", "connecting", "up"}]
    BY ZenonT(60), <1>5 DEF IInv, TypeOK, FlushStart
  <2>3. /\ ctxqueued' \in [Pipelines -> SUBSET Pkts]
        /\ requests' \in [Servers -> SUBSET Pkts] /\ sendq' \in [Servers -> SUBSET Pkts]
        /\ retryq' \subseteq Pkts /\ resolving' \subseteq Pkts
    BY ZenonT(60), <1>3, <1>5, <1>6 DEF IInv, TypeOK
  <2>4. \A p \in retryq' : oppkt'[p[1]] = p[2]
    BY SMTT(60), <1>1, <1>3, <1>4, <1>7 DEF IInv, TypeOK, HeldAreCurrent, HeldOnce, Pkts, Copies, Cur
  <2>5. QED
    BY ZenonT(60), <2>1, <2>2, <2>3, <2>4, <1>1, <1>5 DEF IInv, TypeOK
<1>10. HeldAreCurrent'
  BY SMTT(60), <1>3, <1>4, <1>5, <1>6, <1>7
     DEF IInv, TypeOK, HeldAreCurrent, HeldOnce, Pkts, Copies, Cur
<1>11. HeldOnce'
  BY SMTT(60), <1>3, <1>5, <1>6, <1>7 DEF IInv, TypeOK, HeldAreCurrent, HeldOnce, Pkts, Copies, Cur
<1>12. NothingAhead'
  BY SMTT(60), <1>1, <1>4, <1>5, <1>6 DEF IInv, TypeOK, HeldAreCurrent, NothingAhead, Pkts, Copies, Cur
<1>13. HeldNotDone'
  BY SMTT(60), <1>1, <1>3, <1>5, <1>6, <1>7
     DEF IInv, TypeOK, HeldAreCurrent, HeldOnce, HeldNotDone, NothingAhead, Pkts, Copies, Cur
<1>14. SendQueues'
  BY SMTT(60), <1>1, <1>3, <1>5, <1>6, <1>7
     DEF IInv, TypeOK, HeldAreCurrent, HeldOnce, HeldNotDone, NothingAhead, SendQueues,
         Pkts, Copies, Cur
<1>15. RetryOps'
  BY SMTT(60), <1>4, <1>5, <1>7
     DEF IInv, TypeOK, HeldAreCurrent, HeldOnce, RetryOps, Pkts, Copies, Cur
<1>16. Accounted'
  <2> SUFFICES ASSUME NEW c \in Cmds
               PROVE  /\ calls'[c] <= 1
                      /\ calls'[c] = 1 => c \notin dropped'
                      /\ copies'[c] = 0 => calls'[c] = 0 /\ c \notin dropped'
                      /\ copies'[c] > 0 =>
                           (Cur(c)' \in Held' <=> calls'[c] = 0 /\ c \notin dropped')
    BY ZenonT(60) DEF Accounted
  <2>1. CASE Cur(c) \in F
    <3> DEFINE x == <<c, copies[c] + 1>>
    <3>1. x \in Pkts
      BY SMTT(60), <2>1, <1>8, PacketsAssumption DEF IInv, TypeOK, Pkts, Copies
    <3>2. x[1] = c /\ x[2] = copies[c] + 1
      OBVIOUS
    <3>3. x \in retryq'
      BY ZenonT(60), <3>1, <3>2, <2>1, <1>3
    <3>4. Cur(c)' = x
      BY ZenonT(60), <2>1, <1>4 DEF Cur
    <3>5. copies[c] > 0 /\ Cur(c) \in Held
      BY SMTT(60), <2>1, <1>1, <1>7, HeldIs DEF Cur, Pkts, Copies
    <3>6. QED
      BY ZenonT(60), <3>3, <3>4, <3>5, <1>4, <1>5, HeldWillBe DEF IInv, TypeOK, Accounted
  <2>2. CASE Cur(c) \notin F
    <3>1. copies'[c] = copies[c] /\ Cur(c)' = Cur(c)
      BY ZenonT(60), <2>2, <1>4 DEF Cur
    <3>2. Cur(c) \in retryq' <=> Cur(c) \in retryq
      BY ZenonT(60), <2>2, <1>3 DEF IInv, TypeOK, Cur
    <3>3. (\E pl \in Pipelines : Cur(c) \in ctxqueued[pl])
            <=> (\E s \in Servers : Cur(c) \in ctxqueued[s])
      BY ZenonT(60), <2>2, <1>7 DEF Pipelines
    <3>4. Cur(c) \in Held' <=> Cur(c) \in Held
      BY ZenonT(60), <3>2, <3>3, <1>5, HeldIs, HeldWillBe
    <3>5. QED
      BY ZenonT(60), <3>1, <3>4, <1>5 DEF IInv, Accounted
  <2>3. QED
    BY ZenonT(60), <2>1, <2>2
<1>17. QED
  BY ZenonT(60), <1>9, <1>10, <1>11, <1>12, <1>13, <1>14, <1>15, <1>16 DEF IInv

(* replace_config preserves the invariant when it removes a server: each of *)
(* its requests is on one other server, as a new copy, or has failed.      *)
LEMMA RemoveServerStep ==
  ASSUME IInv, NEW s \in Servers,
         NEW dest \in Destinations(requests[s], Servers \ {s}), RemoveServer(s, dest)
  PROVE  IInv'
<1> DEFINE P == requests[s]
           M == {p \in P : dest[p] # NoServer}
           moved(t) == {Renew(p) : p \in {q \in M : dest[q] = t}}
           copy(t) == {x \in Pkts : Cur(x[1]) \in M /\ dest[Cur(x[1])] = t
                                      /\ x[2] = copies[x[1]] + 1}
           C == CmdsOf(M)
           L == CmdsOf(P \ M)
<1>1. /\ P \in SUBSET Pkts
      /\ \A p \in P : p[2] = copies[p[1]]
      /\ Renewable(M)
  BY ZenonT(60) DEF IInv, TypeOK, HeldAreCurrent, RemoveServer
<1>2. \A c \in Cmds : /\ c \in C <=> Cur(c) \in M
                      /\ c \in L <=> Cur(c) \in P /\ Cur(c) \notin M
  BY SMTT(60), <1>1, CurrentCmds DEF IInv
<1>3. \A t \in Servers : moved(t) = copy(t)
  <2> SUFFICES ASSUME NEW t \in Servers PROVE moved(t) = copy(t)
    BY ZenonT(60)
  <2> DEFINE Q == {q \in M : dest[q] = t}
  <2>1. Q \in SUBSET Pkts /\ (\A p \in Q : p[2] = copies[p[1]]) /\ Renewable(Q)
    BY ZenonT(60), <1>1 DEF Renewable
  <2>2. {Renew(p) : p \in Q} = {x \in Pkts : Cur(x[1]) \in Q /\ x[2] = copies[x[1]] + 1}
    <3> HIDE DEF Q
    <3> QED BY ZenonT(60), <2>1, RenewedPkts DEF IInv
  <2>3. QED
    BY ZenonT(60), <2>2
<1>4. /\ copies' = [c \in Cmds |-> IF Cur(c) \in M THEN copies[c] + 1 ELSE copies[c]]
      /\ calls' = [c \in Cmds |-> IF Cur(c) \in P /\ Cur(c) \notin M
                                  THEN calls[c] + 1 ELSE calls[c]]
  <2>1. copies' = Renewed(C) /\ calls' = Invoke(L)
    BY ZenonT(60) DEF RemoveServer
  <2>2. copies \in [Cmds -> Nat] /\ calls \in [Cmds -> Nat]
    BY SMTT(60) DEF IInv, TypeOK
  <2> HIDE DEF C, L, M, P
  <2>3. QED
    BY SMTT(60), <2>1, <2>2, <1>2 DEF Renewed, Invoke
<1>5. /\ requests' = [t \in Servers |-> IF t = s THEN {} ELSE requests[t] \cup copy(t)]
      /\ sendq' = [t \in Servers |-> IF t = s THEN {} ELSE sendq[t] \cup copy(t)]
  <2>1. /\ requests' = [t \in Servers |-> IF t = s THEN {} ELSE requests[t] \cup moved(t)]
        /\ sendq' = [t \in Servers |-> IF t = s THEN {} ELSE sendq[t] \cup moved(t)]
    BY ZenonT(60) DEF RemoveServer
  <2> HIDE DEF moved, copy
  <2>2. QED
    BY ZenonT(60), <2>1, <1>3
<1>6. /\ invoked' = invoked \cup P
      /\ flushed \subseteq flushed' /\ flushed' \subseteq flushed \cup sendq[s]
      /\ freed' \subseteq freed \cup (P \cap flushed) \cup sendq[s]
      /\ UNCHANGED <<ctxqueued, retryq, resolving, oppkt, dropped, sent, refused>>
  BY ZenonT(60) DEF RemoveServer, Handled, Flushed
<1>7. /\ conn' \in [Servers -> {"none", "idle", "connecting", "up"}]
      /\ wire' \in [Servers -> SUBSET Pkts]
  BY ZenonT(60) DEF IInv, TypeOK, RemoveServer, FlushStart
<1>8. M \subseteq P /\ \A c \in Cmds : Cur(c) \in M => copies[c] < MaxCopies
  BY ZenonT(60), <1>1 DEF Renewable, Cur
<1>9. /\ \A t \in Servers : \A x \in copy(t) :
           x \in Pkts /\ Cur(x[1]) \in M /\ x[2] = copies[x[1]] + 1
      /\ \A t, u \in Servers : t # u => copy(t) \cap copy(u) = {}
  BY ZenonT(60)
<1>10. \A c \in Cmds : Cur(c) \in M =>
         \E t \in Servers : t # s /\ <<c, copies[c] + 1>> \in copy(t)
  <2> SUFFICES ASSUME NEW c \in Cmds, Cur(c) \in M
               PROVE  \E t \in Servers : t # s /\ <<c, copies[c] + 1>> \in copy(t)
    BY ZenonT(60)
  <2>1. dest[Cur(c)] \in Servers \ {s}
    BY ZenonT(60) DEF Destinations
  <2>2. <<c, copies[c] + 1>> \in Pkts
    BY SMTT(60), <1>8, PacketsAssumption DEF IInv, TypeOK, Pkts, Copies
  <2>3. QED
    BY ZenonT(60), <2>1, <2>2
<1> HIDE DEF M, P, C, L, copy, moved
<1>11. P = requests[s]
  BY ZenonT(60) DEF P
<1>12. TypeOK'
  <2>1. copies' \in [Cmds -> 0..MaxCopies] /\ calls' \in [Cmds -> Nat]
    BY SMTT(60), <1>4, <1>8, PacketsAssumption DEF IInv, TypeOK
  <2>2. requests' \in [Servers -> SUBSET Pkts] /\ sendq' \in [Servers -> SUBSET Pkts]
    BY ZenonT(60), <1>5, <1>9 DEF IInv, TypeOK
  <2>3. flushed' \subseteq Pkts /\ invoked' \subseteq Pkts /\ freed' \subseteq Pkts
    BY ZenonT(60), <1>1, <1>6 DEF IInv, TypeOK
  <2>4. QED
    BY ZenonT(60), <2>1, <2>2, <2>3, <1>6, <1>7 DEF IInv, TypeOK
<1>13. HeldAreCurrent'
  BY SMTT(60), <1>1, <1>4, <1>5, <1>6, <1>8, <1>9, <1>11
     DEF IInv, TypeOK, HeldAreCurrent, HeldOnce, Pkts, Copies, Cur
<1>14. HeldOnce'
  BY SMTT(60), <1>5, <1>6, <1>9 DEF IInv, TypeOK, HeldAreCurrent, HeldOnce, Pkts, Copies, Cur
<1>15. NothingAhead'
  BY SMTT(60), <1>1, <1>4, <1>5, <1>6, <1>9
     DEF IInv, TypeOK, NothingAhead, Pkts, Copies, Cur
<1>16. \A t \in Servers : \A x \in copy(t) :
         /\ x \notin flushed' \cup invoked' \cup freed'
         /\ x \notin retryq \cup resolving
         /\ \A u \in Servers : x \notin sendq[u] /\ x \notin requests[u]
         /\ \A pl \in Pipelines : x \notin ctxqueued[pl]
  <2> SUFFICES ASSUME NEW t \in Servers, NEW x \in copy(t)
               PROVE  /\ x \notin flushed' \cup invoked' \cup freed'
                      /\ x \notin retryq \cup resolving
                      /\ \A u \in Servers : x \notin sendq[u] /\ x \notin requests[u]
                      /\ \A pl \in Pipelines : x \notin ctxqueued[pl]
    BY ZenonT(60)
  <2>1. x[1] \in Cmds /\ copies[x[1]] \in Nat /\ x[2] = copies[x[1]] + 1
    BY SMTT(60), <1>9 DEF IInv, TypeOK, Pkts
  <2>2. ~(x[2] <= copies[x[1]]) /\ x[2] # copies[x[1]]
    BY SMTT(60), <2>1
  <2>3. /\ x \notin flushed \cup invoked \cup freed
        /\ x \notin retryq \cup resolving
        /\ \A u \in Servers : x \notin sendq[u] /\ x \notin requests[u]
        /\ \A pl \in Pipelines : x \notin ctxqueued[pl]
    BY ZenonT(60), <2>2 DEF IInv, HeldAreCurrent, NothingAhead
  <2>4. QED
    BY ZenonT(60), <2>3, <1>6, <1>11
<1>17. HeldNotDone' /\ SendQueues'
  <2>1. \A pl \in Pipelines : ctxqueued'[pl] \cap (flushed' \cup invoked' \cup freed') = {}
    BY SMTT(60), <1>6, <1>11 DEF IInv, HeldOnce, HeldNotDone, SendQueues
  <2>2. (retryq' \cup resolving') \cap (flushed' \cup invoked' \cup freed') = {}
    BY ZenonT(60), <1>6, <1>11 DEF IInv, HeldOnce, HeldNotDone, SendQueues
  <2>3. \A t \in Servers : requests'[t] \cap (invoked' \cup freed') = {}
    <3> SUFFICES ASSUME NEW t \in Servers, NEW x \in requests'[t]
                 PROVE  x \notin invoked' /\ x \notin freed'
      BY ZenonT(60)
    <3>1. t # s /\ (x \in requests[t] \/ x \in copy(t))
      BY ZenonT(60), <1>5
    <3>2. CASE x \in copy(t)
      BY ZenonT(60), <3>2, <1>16
    <3>3. CASE x \in requests[t]
      <4>1. x \notin requests[s] /\ x \notin sendq[s]
        BY ZenonT(60), <3>1, <3>3 DEF IInv, HeldOnce, SendQueues
      <4>2. x \notin invoked /\ x \notin freed
        BY ZenonT(60), <3>3 DEF IInv, HeldNotDone
      <4>3. QED
        BY ZenonT(60), <4>1, <4>2, <1>6, <1>11
    <3>4. QED
      BY ZenonT(60), <3>1, <3>2, <3>3
  <2>4. \A t \in Servers : sendq'[t] \cap (flushed' \cup freed') = {}
    BY ZenonT(60), <1>5, <1>6, <1>11, <1>16 DEF IInv, HeldNotDone, SendQueues
  <2>5. \A t \in Servers : /\ sendq'[t] \cap (retryq' \cup resolving') = {}
                           /\ \A pl \in Pipelines : sendq'[t] \cap ctxqueued'[pl] = {}
    BY ZenonT(60), <1>5, <1>6, <1>16 DEF IInv, SendQueues
  <2>6. \A t, u \in Servers : t # u => /\ sendq'[t] \cap sendq'[u] = {}
                                       /\ sendq'[t] \cap requests'[u] = {}
    BY SMTT(60), <1>5, <1>9, <1>16 DEF IInv, SendQueues
  <2>7. QED
    BY ZenonT(60), <2>1, <2>2, <2>3, <2>4, <2>5, <2>6 DEF HeldNotDone, SendQueues
<1>18. RetryOps'
  BY SMTT(60), <1>4, <1>6 DEF IInv, TypeOK, RetryOps
<1>19. Accounted'
  <2> SUFFICES ASSUME NEW c \in Cmds
               PROVE  /\ calls'[c] <= 1
                      /\ calls'[c] = 1 => c \notin dropped'
                      /\ copies'[c] = 0 => calls'[c] = 0 /\ c \notin dropped'
                      /\ copies'[c] > 0 =>
                           (Cur(c)' \in Held' <=> calls'[c] = 0 /\ c \notin dropped')
    BY ZenonT(60) DEF Accounted
  <2>1. Cur(c) \in P => copies[c] > 0 /\ Cur(c) \in Held
    BY SMTT(60), <1>1, <1>11, HeldIs DEF Cur, Pkts, Copies
  <2>2. CASE Cur(c) \in M
    <3>1. Cur(c)' = <<c, copies[c] + 1>>
      BY ZenonT(60), <2>2, <1>4 DEF Cur
    <3>2. Cur(c)' \in Held'
      BY ZenonT(60), <3>1, <2>2, <1>5, <1>10, HeldWillBe
    <3>3. QED
      BY ZenonT(60), <3>2, <2>1, <2>2, <1>4, <1>6, <1>8 DEF IInv, TypeOK, Accounted
  <2>3. CASE Cur(c) \in P /\ Cur(c) \notin M
    <3>1. copies'[c] = copies[c] /\ Cur(c)' = Cur(c)
      BY ZenonT(60), <2>3, <1>4 DEF Cur
    <3>2. \A t \in Servers : Cur(c) \notin copy(t)
      BY ZenonT(60), <2>3, <1>9 DEF IInv, TypeOK, Cur
    <3>3. Cur(c) \notin Held'
      BY ZenonT(60), <3>2, <2>3, <1>5, <1>6, <1>11, HeldWillBe DEF IInv, HeldOnce
    <3>4. QED
      BY SMTT(60), <3>1, <3>3, <2>1, <2>3, <1>4, <1>6 DEF IInv, TypeOK, Accounted
  <2>4. CASE Cur(c) \notin P
    <3>1. copies'[c] = copies[c] /\ calls'[c] = calls[c] /\ Cur(c)' = Cur(c)
      BY ZenonT(60), <2>4, <1>4, <1>8 DEF Cur
    <3>2. \A t \in Servers : Cur(c) \notin copy(t)
      BY SMTT(60), <1>9 DEF IInv, TypeOK, Cur
    <3>3. Cur(c) \in Held' <=> Cur(c) \in Held
      BY ZenonT(60), <3>2, <2>4, <1>5, <1>6, <1>11, HeldIs, HeldWillBe
    <3>4. QED
      BY ZenonT(60), <3>1, <3>3, <1>6 DEF IInv, Accounted
  <2>5. QED
    BY ZenonT(60), <2>2, <2>3, <2>4
<1>20. QED
  BY ZenonT(60), <1>12, <1>13, <1>14, <1>15, <1>17, <1>18, <1>19 DEF IInv

(* RetryQueue::flush preserves the invariant: an operation fails, goes to  *)
(* one server or stays.                                                    *)
LEMMA RetryFlushStep ==
  ASSUME IInv, NEW F \in SUBSET retryq,
         NEW dest \in Destinations(retryq \ F, Servers), RetryFlush(F, dest)
  PROVE  IInv'
<1> DEFINE due(s) == {p \in retryq \ F : dest[p] = s}
           D == UNION {due(s) : s \in Servers}
           L == CmdsOf(F)
<1>1. F \in SUBSET Pkts /\ \A p \in F : p[2] = copies[p[1]]
  BY ZenonT(60) DEF IInv, TypeOK, HeldAreCurrent
<1>2. calls' = [c \in Cmds |-> IF Cur(c) \in F THEN calls[c] + 1 ELSE calls[c]]
  <2>1. \A c \in Cmds : c \in L <=> Cur(c) \in F
    BY ZenonT(60), <1>1, CurrentCmds DEF IInv
  <2>2. calls' = Invoke(L) /\ calls \in [Cmds -> Nat]
    BY ZenonT(60) DEF RetryFlush, IInv, TypeOK
  <2> HIDE DEF L
  <2>3. QED
    BY SMTT(60), <2>1, <2>2 DEF Invoke
<1>3. /\ requests' = [s \in Servers |-> requests[s] \cup due(s)]
      /\ sendq' = [s \in Servers |-> sendq[s] \cup due(s)]
      /\ retryq' = retryq \ (F \cup D)
      /\ flushed' = flushed \cup F /\ invoked' = invoked \cup F /\ freed' = freed \cup F
      /\ UNCHANGED <<copies, ctxqueued, resolving, oppkt, dropped, wire, sent, refused>>
  BY ZenonT(60) DEF RetryFlush
<1>4. conn' \in [Servers -> {"none", "idle", "connecting", "up"}]
  BY ZenonT(60) DEF RetryFlush, FlushStart, IInv, TypeOK
<1>5. /\ \A s \in Servers : due(s) \subseteq retryq \ F /\ due(s) \subseteq D
      /\ \A s, t \in Servers : s # t => due(s) \cap due(t) = {}
      /\ \A p \in D : \E s \in Servers : p \in due(s)
  OBVIOUS
<1> HIDE DEF due, D, L
<1>6. TypeOK'
  BY SMTT(60), <1>1, <1>2, <1>3, <1>4, <1>5 DEF IInv, TypeOK
<1>7. HeldAreCurrent' /\ HeldOnce'
  <2>1. HeldAreCurrent'
    BY ZenonT(60), <1>3, <1>5 DEF IInv, HeldAreCurrent
  <2>2. /\ \A s \in Servers : requests'[s] = requests[s] \cup due(s)
        /\ retryq' \subseteq retryq \ D /\ ctxqueued' = ctxqueued /\ resolving' = resolving
    BY ZenonT(60), <1>3
  <2>3. \A s, t \in Servers : s # t => requests'[s] \cap requests'[t] = {}
    BY ZenonT(60), <2>2, <1>5 DEF IInv, HeldOnce
  <2>4. \A s \in Servers : requests'[s] \cap (retryq' \cup resolving') = {}
    BY ZenonT(60), <2>2, <1>5 DEF IInv, HeldOnce
  <2>5. \A pl \in Pipelines : /\ ctxqueued'[pl] \cap (retryq' \cup resolving') = {}
                              /\ \A s \in Servers : ctxqueued'[pl] \cap requests'[s] = {}
    BY ZenonT(60), <2>2, <1>5 DEF IInv, HeldOnce
  <2>6. retryq' \cap resolving' = {}
    BY ZenonT(60), <2>2 DEF IInv, HeldOnce
  <2>7. QED
    BY ZenonT(60), <2>1, <2>2, <2>3, <2>4, <2>5, <2>6 DEF IInv, HeldOnce
<1>8. NothingAhead'
  BY SMTT(60), <1>1, <1>3, <1>5 DEF IInv, TypeOK, HeldAreCurrent, NothingAhead, Pkts, Copies
<1>9. HeldNotDone'
  BY ZenonT(60), <1>3, <1>5 DEF IInv, HeldOnce, HeldNotDone
<1>10. SendQueues'
  BY SMTT(60), <1>3, <1>5 DEF IInv, HeldOnce, HeldNotDone, SendQueues
<1>11. RetryOps'
  BY ZenonT(60), <1>3 DEF IInv, RetryOps
<1>12. Accounted'
  <2> SUFFICES ASSUME NEW c \in Cmds
               PROVE  /\ calls'[c] <= 1
                      /\ calls'[c] = 1 => c \notin dropped
                      /\ copies[c] = 0 => calls'[c] = 0 /\ c \notin dropped
                      /\ copies[c] > 0 =>
                           (Cur(c) \in Held' <=> calls'[c] = 0 /\ c \notin dropped)
    BY ZenonT(60), <1>3 DEF Accounted, Cur
  <2>1. CASE Cur(c) \in F
    <3>1. copies[c] > 0 /\ Cur(c) \in Held
      BY SMTT(60), <2>1, <1>1, HeldIs DEF Cur, Pkts, Copies
    <3>2. Cur(c) \notin Held'
      BY ZenonT(60), <2>1, <1>3, <1>5, HeldWillBe DEF IInv, HeldOnce
    <3>3. QED
      BY SMTT(60), <3>1, <3>2, <2>1, <1>2 DEF IInv, TypeOK, Accounted
  <2>2. CASE Cur(c) \notin F
    <3>1. Cur(c) \in Held' <=> Cur(c) \in Held
      BY ZenonT(60), <2>2, <1>3, <1>5, HeldIs, HeldWillBe
    <3>2. QED
      BY ZenonT(60), <3>1, <2>2, <1>2 DEF IInv, Accounted
  <2>3. QED
    BY ZenonT(60), <2>1, <2>2
<1>13. QED
  BY ZenonT(60), <1>6, <1>7, <1>8, <1>9, <1>10, <1>11, <1>12 DEF IInv

(* mcreq_sched_fail preserves the invariant: the spooled packets are       *)
(* released and nothing else refers to them.                               *)
LEMMA SchedFailStep ==
  ASSUME IInv, SchedFail
  PROVE  IInv'
<1> DEFINE D == UNION {ctxqueued[pl] : pl \in Pipelines}
           C == CmdsOf(D)
<1>1. /\ D \in SUBSET Pkts
      /\ \A p \in D : p[2] = copies[p[1]] /\ \E pl \in Pipelines : p \in ctxqueued[pl]
  BY SMTT(60) DEF IInv, TypeOK, HeldAreCurrent
<1>2. \A c \in Cmds : c \in C <=> Cur(c) \in D
  BY ZenonT(60), <1>1, CurrentCmds DEF IInv
<1>3. /\ ctxqueued' = [pl \in Pipelines |-> {}]
      /\ freed' = freed \cup D /\ dropped' = dropped \cup C
      /\ UNCHANGED <<copies, requests, sendq, retryq, resolving, oppkt, flushed,
                     invoked, calls, conn, wire, sent, refused>>
  BY ZenonT(60) DEF SchedFail
<1>4. \A pl \in Pipelines : ctxqueued[pl] \subseteq D
  OBVIOUS
<1>5. C \subseteq Cmds
  BY ZenonT(60) DEF CmdsOf
<1> HIDE DEF D, C
<1>6. TypeOK' /\ HeldAreCurrent' /\ HeldOnce'
  BY ZenonT(60), <1>1, <1>3, <1>5 DEF IInv, TypeOK, HeldAreCurrent, HeldOnce
<1>7. NothingAhead' /\ HeldNotDone' /\ SendQueues' /\ RetryOps'
  BY SMTT(60), <1>1, <1>3
     DEF IInv, TypeOK, HeldOnce, NothingAhead, HeldNotDone, SendQueues, RetryOps, Pkts, Copies
<1>8. Accounted'
  <2> SUFFICES ASSUME NEW c \in Cmds
               PROVE  /\ calls[c] <= 1
                      /\ calls[c] = 1 => c \notin dropped'
                      /\ copies[c] = 0 => calls[c] = 0 /\ c \notin dropped'
                      /\ copies[c] > 0 =>
                           (Cur(c) \in Held' <=> calls[c] = 0 /\ c \notin dropped')
    BY ZenonT(60), <1>3 DEF Accounted, Cur
  <2>1. CASE Cur(c) \in D
    <3>1. copies[c] > 0 /\ Cur(c) \in Held
      BY SMTT(60), <2>1, <1>1, HeldIs DEF Cur, Pkts, Copies
    <3>2. Cur(c) \notin Held'
      BY ZenonT(60), <2>1, <1>1, <1>3, HeldWillBe DEF IInv, HeldOnce
    <3>3. QED
      BY SMTT(60), <3>1, <3>2, <2>1, <1>2, <1>3 DEF IInv, TypeOK, Accounted
  <2>2. CASE Cur(c) \notin D
    <3>1. Cur(c) \in Held' <=> Cur(c) \in Held
      BY ZenonT(60), <2>2, <1>3, <1>4, HeldIs, HeldWillBe
    <3>2. QED
      BY ZenonT(60), <3>1, <2>2, <1>2, <1>3 DEF IInv, Accounted
  <2>3. QED
    BY ZenonT(60), <2>1, <2>2
<1>9. QED
  BY ZenonT(60), <1>6, <1>7, <1>8 DEF IInv

(* handle_unknown_collection preserves the invariant: the copy set aside   *)
(* is the only packet of the command that waits, or the collection could   *)
(* not be asked for and the callback is invoked.                           *)
LEMMA CollectionStep ==
  ASSUME IInv, NEW s \in Servers, NEW q \in wire[s], NEW p \in requests[s],
         ReplyCollection(s, q, p) \/ ReplyUnresolved(s, q, p)
  PROVE  IInv'
<1> DEFINE c == p[1]
           n == Renew(p)
<1>1. /\ c \in Cmds /\ p \in Pkts /\ p = Cur(c) /\ p[2] = copies[c]
      /\ copies[c] \in 1..(MaxCopies - 1)
  BY SMTT(60), PacketsAssumption
     DEF IInv, TypeOK, HeldAreCurrent, ReplyCollection, ReplyUnresolved, Renewable,
         Pkts, Copies, Cur
<1>2. n = <<c, copies[c] + 1>> /\ n \in Pkts /\ n # p
  BY SMTT(60), <1>1, PacketsAssumption DEF Renew, Pkts, Copies
<1>3. copies' = [d \in Cmds |-> IF d = c THEN copies[d] + 1 ELSE copies[d]]
  BY SMTT(60) DEF ReplyCollection, ReplyUnresolved, Renewed, IInv, TypeOK
<1>4. /\ requests' = [t \in Servers |-> IF t = s THEN requests[t] \ {p} ELSE requests[t]]
      /\ invoked' = invoked \cup {p}
      /\ freed' = freed \cup ({p} \cap flushed)
      /\ UNCHANGED <<ctxqueued, sendq, retryq, oppkt, flushed, dropped>>
      /\ \A pl \in Pipelines : ctxqueued[pl] = {}
  BY ZenonT(60) DEF ReplyCollection, ReplyUnresolved, Answers, InLoop, Handled, IInv, TypeOK
<1>5. \/ resolving' = resolving \cup {n} /\ calls' = calls
      \/ /\ resolving' = resolving
         /\ calls' = [d \in Cmds |-> IF d = c THEN calls[d] + 1 ELSE calls[d]]
  BY SMTT(60) DEF ReplyCollection, ReplyUnresolved, Invoke, IInv, TypeOK
<1>6. /\ wire' \in [Servers -> SUBSET Pkts] /\ UNCHANGED <<conn, sent>>
      /\ refused' \subseteq Pkts
  BY SMTT(60) DEF ReplyCollection, ReplyUnresolved, IInv, TypeOK
<1> HIDE DEF c, n
<1>7. /\ n \notin flushed \cup invoked \cup freed \cup retryq \cup resolving
      /\ \A t \in Servers : n \notin sendq[t] /\ n \notin requests[t]
  <2>1. n[1] = c /\ n[2] # copies[c] /\ ~(n[2] <= copies[c])
    BY SMTT(60), <1>1, <1>2
  <2>2. QED
    BY ZenonT(60), <2>1 DEF IInv, HeldAreCurrent, NothingAhead
<1>8. TypeOK'
  <2>1. copies' \in [Cmds -> 0..MaxCopies] /\ calls' \in [Cmds -> Nat]
    BY SMTT(60), <1>1, <1>3, <1>5, PacketsAssumption DEF IInv, TypeOK
  <2>2. QED
    BY ZenonT(60), <2>1, <1>1, <1>2, <1>4, <1>5, <1>6 DEF IInv, TypeOK
<1>9. \A r \in Pkts : r # p /\ r[2] = copies[r[1]] => r[2] = copies'[r[1]] /\ r[1] # c
  <2>1. \A r \in Pkts : r[1] \in Cmds /\ r = <<r[1], r[2]>>
    BY SMTT(60) DEF Pkts
  <2>2. QED
    BY ZenonT(60), <2>1, <1>1, <1>3 DEF Cur
<1>10. HeldAreCurrent'
  <2>1. \A t \in Servers : \A r \in requests'[t] : r \in requests[t] /\ r # p
    BY ZenonT(60), <1>4 DEF IInv, HeldOnce
  <2>2. \A t \in Servers : \A r \in requests'[t] : r[2] = copies'[r[1]]
    BY ZenonT(60), <2>1, <1>9 DEF IInv, TypeOK, HeldAreCurrent
  <2>3. \A r \in retryq \cup resolving : r \in Pkts /\ r # p /\ r[2] = copies[r[1]]
    BY SMTT(60) DEF IInv, TypeOK, HeldAreCurrent, HeldOnce
  <2>4. n[2] = copies'[n[1]]
    BY ZenonT(60), <1>1, <1>2, <1>3
  <2>5. QED
    BY ZenonT(60), <2>2, <2>3, <2>4, <1>4, <1>5, <1>9 DEF HeldAreCurrent
<1>11. HeldOnce'
  BY SMTT(60), <1>4, <1>5, <1>7 DEF IInv, HeldOnce
<1>12. NothingAhead'
  <2>1. \A r \in Pkts : r[2] <= copies[r[1]] => r[2] <= copies'[r[1]]
    BY SMTT(60), <1>3 DEF IInv, TypeOK, Pkts, Copies
  <2>2. p[2] <= copies'[p[1]]
    <3>1. \A r \in Pkts : r[2] = copies[r[1]] => r[2] <= copies[r[1]]
      BY SMTT(60) DEF IInv, TypeOK, Pkts, Copies
    <3>2. QED
      BY ZenonT(60), <3>1, <2>1, <1>1 DEF c
  <2>3. QED
    BY ZenonT(60), <2>1, <2>2, <1>4 DEF IInv, TypeOK, NothingAhead
<1>13. HeldNotDone' /\ SendQueues'
  <2>1. \A t \in Servers : requests'[t] \cap (invoked' \cup freed') = {}
    BY SMTT(60), <1>4 DEF IInv, HeldOnce, HeldNotDone
  <2>2. (retryq' \cup resolving') \cap (invoked' \cup freed' \cup flushed') = {}
    <3>1. p \notin retryq \cup resolving
      BY ZenonT(60) DEF IInv, HeldOnce
    <3>2. QED
      BY SMTT(60), <3>1, <1>2, <1>4, <1>5, <1>7 DEF IInv, HeldNotDone
  <2>3. HeldNotDone'
    BY ZenonT(60), <2>1, <2>2, <1>4 DEF HeldNotDone
  <2>4. \A t \in Servers : /\ sendq[t] \cap (flushed' \cup freed') = {}
                           /\ sendq[t] \cap (retryq' \cup resolving') = {}
    BY ZenonT(60), <1>4, <1>5, <1>7 DEF IInv, SendQueues
  <2>5. \A t, u \in Servers : t # u => sendq[t] \cap requests'[u] = {}
    BY ZenonT(60), <1>4 DEF IInv, SendQueues
  <2>6. QED
    BY ZenonT(60), <2>3, <2>4, <2>5, <1>4 DEF IInv, SendQueues
<1>14. RetryOps'
  <2>1. \A d \in Cmds : oppkt[d] <= copies'[d]
    BY SMTT(60), <1>3 DEF IInv, TypeOK, RetryOps
  <2>2. oppkt[n[1]] < n[2]
    BY SMTT(60), <1>1, <1>2 DEF IInv, TypeOK, RetryOps
  <2>3. QED
    BY ZenonT(60), <2>1, <2>2, <1>4, <1>5 DEF IInv, RetryOps
<1>15. Accounted'
  <2> SUFFICES ASSUME NEW d \in Cmds
               PROVE  /\ calls'[d] <= 1
                      /\ calls'[d] = 1 => d \notin dropped
                      /\ copies'[d] = 0 => calls'[d] = 0 /\ d \notin dropped
                      /\ copies'[d] > 0 =>
                           (<<d, copies'[d]>> \in Held' <=> calls'[d] = 0 /\ d \notin dropped)
    BY ZenonT(60), <1>4 DEF Accounted, Cur
  <2>1. CASE d = c
    <3>1. calls[c] = 0 /\ c \notin dropped
      <4>1. Cur(c) \in Held
        BY ZenonT(60), <1>1, HeldIs
      <4>2. QED
        BY ZenonT(60), <4>1, <1>1, HeldIsOpen
    <3>2. copies'[c] = copies[c] + 1 /\ <<c, copies'[c]>> = n
      BY ZenonT(60), <1>1, <1>2, <1>3
    <3>3. n \in Held' <=> n \in resolving'
      BY ZenonT(60), <1>4, <1>7, HeldWillBe
    <3>4. QED
      BY SMTT(60), <2>1, <3>1, <3>2, <3>3, <1>1, <1>5, <1>7
  <2>2. CASE d # c
    <3>1. copies'[d] = copies[d] /\ calls'[d] = calls[d]
      BY ZenonT(60), <2>2, <1>3, <1>5
    <3>2. Cur(d) # p /\ Cur(d) # n
      BY ZenonT(60), <2>2, <1>1, <1>2 DEF Cur
    <3>3. Cur(d) \in Held' <=> Cur(d) \in Held
      BY ZenonT(60), <3>2, <1>4, <1>5, HeldIs, HeldWillBe
    <3>4. QED
      BY ZenonT(60), <3>1, <3>3 DEF IInv, Accounted, Cur
  <2>3. QED
    BY ZenonT(60), <2>1, <2>2
<1>16. QED
  BY ZenonT(60), <1>8, <1>10, <1>11, <1>12, <1>13, <1>14, <1>15 DEF IInv

(* mcreq_sched_add preserves the invariant: the first packet of a command  *)
(* is in no other queue.                                                   *)
LEMMA ScheduleStep ==
  ASSUME IInv, NEW c \in Cmds, NEW pl \in Pipelines, Schedule(c, pl)
  PROVE  IInv'
<1> DEFINE n == <<c, 1>>
<1>1. /\ copies[c] = 0 /\ n \in Pkts
      /\ copies' = [d \in Cmds |-> IF d = c THEN 1 ELSE copies[d]]
      /\ ctxqueued' = [ql \in Pipelines |-> IF ql = pl THEN ctxqueued[ql] \cup {n}
                                                       ELSE ctxqueued[ql]]
      /\ UNCHANGED <<requests, sendq, retryq, resolving, oppkt, flushed, invoked,
                     freed, dropped, calls, conn, wire, sent, refused>>
  <2>1. n \in Pkts
    BY SMTT(60), PacketsAssumption DEF Pkts, Copies
  <2>2. QED
    BY ZenonT(60), <2>1 DEF IInv, TypeOK, Schedule
<1>2. \A r \in Pkts : r[1] = c => ~(r[2] <= copies[c]) /\ r[2] # copies[c]
  BY SMTT(60), <1>1 DEF Pkts, Copies, IInv, TypeOK
<1>3. /\ n[1] = c /\ n[2] = 1
      /\ n \notin flushed \cup invoked \cup freed \cup retryq \cup resolving
      /\ \A t \in Servers : n \notin sendq[t] /\ n \notin requests[t]
      /\ \A ql \in Pipelines : n \notin ctxqueued[ql]
  BY ZenonT(60), <1>1, <1>2 DEF IInv, HeldAreCurrent, NothingAhead
<1>4. TypeOK'
  BY SMTT(60), <1>1, PacketsAssumption DEF IInv, TypeOK
<1>5. \A r \in Pkts : /\ r[2] = copies[r[1]] => r[2] = copies'[r[1]]
                      /\ r[2] <= copies[r[1]] => r[2] <= copies'[r[1]]
  BY ZenonT(60), <1>1, <1>2 DEF Pkts
<1> HIDE DEF n
<1>6. HeldAreCurrent' /\ NothingAhead'
  BY SMTT(60), <1>1, <1>3, <1>5 DEF IInv, TypeOK, HeldAreCurrent, NothingAhead
<1>7. HeldOnce' /\ HeldNotDone' /\ SendQueues'
  <2>1. HeldOnce'
    BY SMTT(60), <1>1, <1>3 DEF IInv, HeldOnce
  <2>2. HeldNotDone'
    BY ZenonT(60), <1>1, <1>3 DEF IInv, HeldNotDone
  <2>3. SendQueues'
    BY ZenonT(60), <1>1, <1>3 DEF IInv, SendQueues
  <2>4. QED
    BY ZenonT(60), <2>1, <2>2, <2>3
<1>8. RetryOps'
  BY SMTT(60), <1>1 DEF IInv, TypeOK, RetryOps
<1>9. Accounted'
  <2> SUFFICES ASSUME NEW d \in Cmds
               PROVE  /\ calls[d] <= 1
                      /\ calls[d] = 1 => d \notin dropped
                      /\ copies'[d] = 0 => calls[d] = 0 /\ d \notin dropped
                      /\ copies'[d] > 0 =>
                           (<<d, copies'[d]>> \in Held' <=> calls[d] = 0 /\ d \notin dropped)
    BY ZenonT(60), <1>1 DEF Accounted, Cur
  <2>1. CASE d = c
    <3>1. <<c, 1>> \in Held'
      BY ZenonT(60), <1>1, HeldWillBe DEF n
    <3>2. QED
      BY ZenonT(60), <2>1, <3>1, <1>1 DEF IInv, Accounted
  <2>2. CASE d # c
    <3>1. copies'[d] = copies[d] /\ Cur(d) # n
      BY ZenonT(60), <2>2, <1>1 DEF Cur, n
    <3>2. Cur(d) \in Held' <=> Cur(d) \in Held
      BY ZenonT(60), <3>1, <1>1, HeldIs, HeldWillBe
    <3>3. QED
      BY ZenonT(60), <3>1, <3>2 DEF IInv, Accounted, Cur
  <2>3. QED
    BY ZenonT(60), <2>1, <2>2
<1>10. QED
  BY ZenonT(60), <1>4, <1>6, <1>7, <1>8, <1>9 DEF IInv

-----------------------------------------------------------------------------
(* Writing a packet (mcreq__pktflush_callback) preserves the invariant: it *)
(* is released only if its response was handled.                           *)
LEMMA FlushStep ==
  ASSUME IInv, NEW s \in Servers, NEW p \in sendq[s], Flush(s, p)
  PROVE  IInv'
<1>1. /\ sendq' = [t \in Servers |-> IF t = s THEN sendq[t] \ {p} ELSE sendq[t]]
      /\ flushed' = flushed \cup {p}
      /\ freed' = freed \cup ({p} \cap invoked)
      /\ wire' \in [Servers -> SUBSET Pkts] /\ sent' = sent \cup {p} /\ p \in Pkts
      /\ UNCHANGED <<copies, ctxqueued, requests, retryq, resolving, oppkt, invoked,
                     dropped, calls, conn, refused>>
  BY ZenonT(60) DEF IInv, TypeOK, Flush, Flushed
<1>2. TypeOK'
  BY ZenonT(60), <1>1 DEF IInv, TypeOK
<1>3. HeldAreCurrent' /\ HeldOnce' /\ RetryOps'
  BY ZenonT(60), <1>1 DEF IInv, HeldAreCurrent, HeldOnce, RetryOps
<1>4. NothingAhead' /\ HeldNotDone' /\ SendQueues'
  BY SMTT(60), <1>1 DEF IInv, NothingAhead, HeldNotDone, SendQueues
<1>5. Accounted'
  <2>1. Held' = Held
    BY ZenonT(60), <1>1 DEF Held, Spooled, Requests
  <2>2. QED
    BY ZenonT(60), <2>1, <1>1 DEF IInv, Accounted, Cur
<1>6. QED
  BY ZenonT(60), <1>2, <1>3, <1>4, <1>5 DEF IInv

(* The end of a GET_CID request (ucadd) preserves the invariant. *)
LEMMA ResolvedStep ==
  ASSUME IInv, NEW p \in resolving, Resolved(p)
  PROVE  IInv'
<1> DEFINE c == p[1]
           Old == OldPkts({c})
<1>1. /\ c \in Cmds /\ p \in Pkts /\ p = <<c, copies[c]>> /\ p[2] = copies[c]
      /\ oppkt[c] < copies[c] /\ copies[c] \in 0..MaxCopies
  BY SMTT(60) DEF IInv, TypeOK, HeldAreCurrent, RetryOps, Pkts
<1>2. /\ resolving' = resolving \ {p} /\ retryq' = retryq \cup {p}
      /\ oppkt' = [d \in Cmds |-> IF d = c THEN p[2] ELSE oppkt[d]]
      /\ sendq' = [t \in Servers |-> sendq[t] \ Old]
      /\ flushed' = flushed \cup Old
      /\ UNCHANGED <<copies, ctxqueued, requests, invoked, freed, dropped, calls, conn,
                     wire, sent, refused>>
  BY ZenonT(60) DEF IInv, TypeOK, Resolved, Unlinked
<1>3. \A r \in Old : /\ r \in Pkts /\ r[1] = c
                     /\ r[2] <= copies[r[1]] /\ r[2] # copies[r[1]]
  BY SMTT(60), <1>1 DEF OldPkts, IInv, TypeOK, Pkts, Copies
<1> HIDE DEF c, Old
<1>4. \A r \in Pkts : r # p /\ r[2] = copies[r[1]] => r[1] # c
  BY SMTT(60), <1>1 DEF Pkts
<1>5. TypeOK'
  <2>1. \A r \in retryq : r[1] # c
    BY ZenonT(60), <1>4 DEF IInv, TypeOK, HeldAreCurrent, HeldOnce
  <2>2. \A r \in retryq' : oppkt'[r[1]] = r[2]
    BY SMTT(60), <2>1, <1>1, <1>2 DEF IInv, TypeOK, Pkts
  <2>3. QED
    BY ZenonT(60), <2>2, <1>1, <1>2, <1>3 DEF IInv, TypeOK
<1>6. HeldAreCurrent' /\ HeldOnce'
  BY SMTT(60), <1>1, <1>2 DEF IInv, HeldAreCurrent, HeldOnce
<1>7. RetryOps'
  <2>1. \A r \in resolving \ {p} : r[1] \in Cmds /\ r[1] # c
    BY ZenonT(60), <1>4 DEF IInv, TypeOK, HeldAreCurrent, Pkts
  <2>2. QED
    BY SMTT(60), <2>1, <1>1, <1>2 DEF IInv, TypeOK, RetryOps
<1>8. NothingAhead'
  BY ZenonT(60), <1>1, <1>2, <1>3 DEF IInv, NothingAhead
<1>9. HeldNotDone' /\ SendQueues'
  <2>1. /\ Old \cap (retryq \cup resolving) = {}
        /\ \A pl \in Pipelines : Old \cap ctxqueued[pl] = {}
    BY ZenonT(60), <1>3 DEF IInv, HeldAreCurrent
  <2>2. QED
    BY SMTT(60), <2>1, <1>2 DEF IInv, HeldNotDone, SendQueues
<1>10. Accounted'
  BY ZenonT(60), <1>2, HeldIs, HeldWillBe DEF IInv, Accounted, Cur
<1>11. QED
  BY ZenonT(60), <1>5, <1>6, <1>7, <1>8, <1>9, <1>10 DEF IInv

(* The invariant holds before anything is scheduled. *)
LEMMA InitIInv == Init => IInv
<1> SUFFICES ASSUME Init PROVE IInv
  BY ZenonT(60)
<1>1. TypeOK
  BY SMTT(60), PacketsAssumption DEF Init, TypeOK, Pkts, Copies
<1>2. /\ HeldAreCurrent /\ HeldOnce /\ NothingAhead /\ HeldNotDone
      /\ SendQueues /\ RetryOps
  BY SMTT(60) DEF Init, HeldAreCurrent, HeldOnce, NothingAhead, HeldNotDone, SendQueues, RetryOps
<1>3. Accounted
  BY SMTT(60) DEF Init, Accounted
<1>4. QED
  BY ZenonT(60), <1>1, <1>2, <1>3 DEF IInv

(* The steps that only touch connections and responses *)
LEMMA ConnectionStep ==
  ASSUME IInv,
         UNCHANGED <<copies, ctxqueued, requests, sendq, retryq, resolving, oppkt, flushed,
                     invoked, freed, dropped, calls, sent, refused>>,
         wire' \in [Servers -> SUBSET Pkts],
         conn' \in [Servers -> {"none", "idle", "connecting", "up"}]
  PROVE  IInv'
<1>1. TypeOK'
  BY ZenonT(60) DEF IInv, TypeOK
<1>2. /\ HeldAreCurrent' /\ HeldOnce' /\ NothingAhead' /\ HeldNotDone'
      /\ SendQueues' /\ RetryOps'
  BY ZenonT(60) DEF IInv, HeldAreCurrent, HeldOnce, NothingAhead, HeldNotDone, SendQueues, RetryOps
<1>3. Accounted'
  <2>1. Held' = Held
    BY ZenonT(60) DEF Held, Spooled, Requests
  <2>2. QED
    BY ZenonT(60), <2>1 DEF IInv, Accounted, Cur
<1>4. QED
  BY ZenonT(60), <1>1, <1>2, <1>3 DEF IInv

(* Every step preserves the inductive invariant. *)
LEMMA NextIInv == IInv /\ [Next]_vars => IInv'
<1> SUFFICES ASSUME IInv, [Next]_vars PROVE IInv'
  OBVIOUS
<1>1. ASSUME NEW c \in Cmds, NEW pl \in Pipelines, Schedule(c, pl) PROVE IInv'
  BY ZenonT(60), <1>1, ScheduleStep
<1>2. CASE SchedLeave
  BY ZenonT(60), <1>2, SchedLeaveStep
<1>3. CASE SchedFail
  BY ZenonT(60), <1>3, SchedFailStep
<1>4. ASSUME NEW s \in Servers, NEW q \in wire[s], NEW p \in requests[s], ReplyDone(s, q, p)
      PROVE  IInv'
  <2>1. {p} \in SUBSET requests[s] /\ {} \in SUBSET {p} /\ Renewable({}) /\ FALSE \in BOOLEAN
    BY ZenonT(60) DEF Renewable
  <2>2. /\ wire' \in [Servers -> SUBSET Pkts]
        /\ conn' \in [Servers -> {"none", "idle", "connecting", "up"}]
        /\ sent' \subseteq Pkts /\ refused' \subseteq Pkts
        /\ UNCHANGED <<ctxqueued, resolving, dropped>>
        /\ Leave(s, {p}, {}, FALSE)
    BY ZenonT(60), <1>4 DEF ReplyDone, IInv, TypeOK
  <2>3. QED
    BY ZenonT(60), <2>1, <2>2, LeaveStep
<1>5. ASSUME NEW s \in Servers, NEW q \in wire[s], NEW p \in requests[s], ReplyRetry(s, q, p)
      PROVE  IInv'
  <2>1. {p} \in SUBSET requests[s] /\ {p} \in SUBSET {p} /\ FALSE \in BOOLEAN
    OBVIOUS
  <2>2. /\ wire' \in [Servers -> SUBSET Pkts]
        /\ conn' \in [Servers -> {"none", "idle", "connecting", "up"}]
        /\ sent' \subseteq Pkts /\ refused' \subseteq Pkts
        /\ UNCHANGED <<ctxqueued, resolving, dropped>>
        /\ Renewable({p}) /\ Leave(s, {p}, {p}, FALSE)
    BY ZenonT(60), <1>5 DEF ReplyRetry, IInv, TypeOK
  <2>3. QED
    BY ZenonT(60), <2>1, <2>2, LeaveStep
<1>6. ASSUME NEW s \in Servers, NEW q \in wire[s], NEW p \in requests[s],
             ReplyCollection(s, q, p) \/ ReplyUnresolved(s, q, p)
      PROVE  IInv'
  BY ZenonT(60), <1>6, CollectionStep
<1>8. ASSUME NEW s \in Servers, NEW q \in wire[s], ReplyOwnerless(s, q) PROVE IInv'
  <2>1. /\ wire' \in [Servers -> SUBSET Pkts]
        /\ conn' \in [Servers -> {"none", "idle", "connecting", "up"}]
        /\ UNCHANGED <<copies, ctxqueued, requests, sendq, retryq, resolving, oppkt, flushed,
                       invoked, freed, dropped, calls, sent, refused>>
    BY ZenonT(60), <1>8 DEF ReplyOwnerless, IInv, TypeOK
  <2>2. QED
    BY ZenonT(60), <2>1, ConnectionStep
<1>9. ASSUME NEW s \in Servers, NEW T \in SUBSET requests[s], Timeout(s, T) PROVE IInv'
  <2>1. {} \in SUBSET T /\ Renewable({}) /\ FALSE \in BOOLEAN
    BY ZenonT(60) DEF Renewable
  <2>2. /\ wire' \in [Servers -> SUBSET Pkts]
        /\ conn' \in [Servers -> {"none", "idle", "connecting", "up"}]
        /\ sent' \subseteq Pkts /\ refused' \subseteq Pkts
        /\ UNCHANGED <<ctxqueued, resolving, dropped>>
        /\ Leave(s, T, {}, FALSE)
    BY ZenonT(60), <1>9 DEF Timeout, IInv, TypeOK
  <2>3. QED
    BY ZenonT(60), <2>1, <2>2, LeaveStep
<1>10. ASSUME NEW s \in Servers, NEW R \in SUBSET requests[s], ConnectFailed(s, R) PROVE IInv'
  <2>1. requests[s] \in SUBSET requests[s] /\ FALSE \in BOOLEAN
    OBVIOUS
  <2>2. /\ wire' \in [Servers -> SUBSET Pkts]
        /\ conn' \in [Servers -> {"none", "idle", "connecting", "up"}]
        /\ sent' \subseteq Pkts /\ refused' \subseteq Pkts
        /\ UNCHANGED <<ctxqueued, resolving, dropped>>
        /\ Renewable(R) /\ Leave(s, requests[s], R, FALSE)
    BY ZenonT(60), <1>10 DEF ConnectFailed, IInv, TypeOK
  <2>3. QED
    BY ZenonT(60), <2>1, <2>2, LeaveStep
<1>11. ASSUME NEW s \in Servers, NEW R \in SUBSET requests[s], SocketFailed(s, R) PROVE IInv'
  <2>1. requests[s] \in SUBSET requests[s] /\ TRUE \in BOOLEAN
    OBVIOUS
  <2>2. /\ wire' \in [Servers -> SUBSET Pkts]
        /\ conn' \in [Servers -> {"none", "idle", "connecting", "up"}]
        /\ sent' \subseteq Pkts /\ refused' \subseteq Pkts
        /\ UNCHANGED <<ctxqueued, resolving, dropped>>
        /\ Renewable(R) /\ Leave(s, requests[s], R, TRUE)
    BY ZenonT(60), <1>11 DEF SocketFailed, IInv, TypeOK
  <2>3. QED
    BY ZenonT(60), <2>1, <2>2, LeaveStep
<1>12. ASSUME NEW s \in Servers, Connected(s) \/ AddServer(s) PROVE IInv'
  <2>1. /\ wire' \in [Servers -> SUBSET Pkts]
        /\ conn' \in [Servers -> {"none", "idle", "connecting", "up"}]
        /\ UNCHANGED <<copies, ctxqueued, requests, sendq, retryq, resolving, oppkt, flushed,
                       invoked, freed, dropped, calls, sent, refused>>
    BY ZenonT(60), <1>12 DEF Connected, AddServer, IInv, TypeOK
  <2>2. QED
    BY ZenonT(60), <2>1, ConnectionStep
<1>13. ASSUME NEW s \in Servers, NEW p \in sendq[s], Flush(s, p) PROVE IInv'
  BY ZenonT(60), <1>13, FlushStep
<1>14. ASSUME NEW s \in Servers, NEW dest \in Destinations(requests[s], Servers \ {s}),
              RemoveServer(s, dest)
       PROVE  IInv'
  BY ZenonT(60), <1>14, RemoveServerStep
<1>15. ASSUME NEW F \in SUBSET retryq, NEW dest \in Destinations(retryq \ F, Servers),
              RetryFlush(F, dest)
       PROVE  IInv'
  BY ZenonT(60), <1>15, RetryFlushStep
<1>16. ASSUME NEW p \in resolving, Resolved(p) PROVE IInv'
  BY ZenonT(60), <1>16, ResolvedStep
<1>17. CASE UNCHANGED vars
  <2>1. wire' \in [Servers -> SUBSET Pkts]
        /\ conn' \in [Servers -> {"none", "idle", "connecting", "up"}]
    BY ZenonT(60), <1>17 DEF vars, IInv, TypeOK
  <2>2. UNCHANGED <<copies, ctxqueued, requests, sendq, retryq, resolving, oppkt, flushed,
                    invoked, freed, dropped, calls, sent, refused>>
    BY ZenonT(60), <1>17 DEF vars
  <2>3. QED
    BY ZenonT(60), <2>1, <2>2, ConnectionStep
<1>18. QED
  BY ZenonT(60), <1>1, <1>2, <1>3, <1>4, <1>5, <1>6, <1>8, <1>9, <1>10, <1>11, <1>12, <1>13,
     <1>14, <1>15, <1>16, <1>17 DEF Next

(* The inductive invariant holds in every reachable state. *)
THEOREM Inductive == Spec => []IInv
  BY InitIInv, NextIInv, PTL DEF Spec

(* Type correctness; with it, RetryOp::pkt of a command in the retry queue *)
(* is the packet that is queued there.                                     *)
THEOREM TypeCorrect == Spec => []TypeOK
<1>1. IInv => TypeOK
  BY ZenonT(60) DEF IInv
<1>2. QED
  BY <1>1, Inductive, PTL

(* The callback of a command is invoked at most once, and a command that is *)
(* neither completed nor discarded is held by a queue that will complete   *)
(* it: no order of responses, timeouts, socket errors, retries, collection *)
(* lookups and cluster maps loses a command or completes it twice.         *)
THEOREM CallbackExactlyOnce == Spec => []ExactlyOnce
<1>1. IInv => ExactlyOnce
  <2> SUFFICES ASSUME IInv, NEW c \in Cmds
               PROVE  /\ calls[c] <= 1
                      /\ (copies[c] > 0 /\ calls[c] = 0 /\ c \notin dropped) => c \in CmdsOf(Held)
                      /\ (calls[c] = 1 \/ c \in dropped) => c \notin CmdsOf(Held)
    BY ZenonT(60) DEF ExactlyOnce
  <2>1. Held \in SUBSET Pkts /\ \A p \in Held : p[2] = copies[p[1]]
    BY ZenonT(60), HeldIs DEF IInv, TypeOK, HeldAreCurrent
  <2>2. c \in CmdsOf(Held) <=> Cur(c) \in Held
    BY ZenonT(60), <2>1, CurrentCmds DEF IInv
  <2>3. Cur(c) \in Held => copies[c] > 0
    BY SMTT(60), <2>1 DEF Cur, Pkts, Copies
  <2>4. QED
    BY SMTT(60), <2>2, <2>3 DEF IInv, TypeOK, Accounted
<1>2. QED
  BY <1>1, Inductive, PTL

(* A command waits in one queue only, as its latest copy, whatever         *)
(* combination of mcreq_renew_packet, RetryQueue::add and iterwipe_cb moved *)
(* it there.                                                               *)
THEOREM HeldByOneQueue == Spec => []OneHolder
<1>1. IInv => OneHolder
  <2> SUFFICES ASSUME IInv PROVE OneHolder
    BY ZenonT(60)
  <2>1. \A p \in Held : p[2] = copies[p[1]]
    BY ZenonT(60), HeldIs DEF IInv, HeldAreCurrent
  <2>2. /\ Requests \cap (retryq \cup resolving) = {} /\ Requests \cap Spooled = {}
        /\ retryq \cap resolving = {} /\ Spooled \cap (retryq \cup resolving) = {}
    BY SMTT(60) DEF IInv, HeldOnce, Requests, Spooled
  <2>3. QED
    BY ZenonT(60), <2>1, <2>2 DEF IInv, HeldOnce, OneHolder
<1>2. QED
  BY <1>1, Inductive, PTL

(* No list of a pipeline and no queue refers to a packet that was released: *)
(* the two references of mcreq_packet_done, the flush and the response,    *)
(* suffice under retries, relocations and errors.                          *)
THEOREM NoDanglingPackets == Spec => []QueuedAreLive
<1>1. IInv => QueuedAreLive
  <2> SUFFICES ASSUME IInv, NEW p \in freed, p \in Held \/ p \in SendQueued PROVE FALSE
    BY ZenonT(60) DEF QueuedAreLive
  <2>1. p \notin Held
    BY ZenonT(60), HeldIs DEF IInv, HeldNotDone
  <2>2. p \notin SendQueued
    BY ZenonT(60) DEF IInv, SendQueues, SendQueued
  <2>3. QED
    BY ZenonT(60), <2>1, <2>2
<1>2. QED
  BY <1>1, Inductive, PTL
-----------------------------------------------------------------------------
(* The status of a command, as the inductive invariant determines it *)
StatusInv ==
  \A c \in Cmds :
    status[c] = IF copies[c] = 0 THEN "new"
                ELSE IF c \in dropped THEN "dropped"
                ELSE IF calls[c] = 1 THEN "done"
                ELSE IF Cur(c) \in Spooled THEN "spooled" ELSE "accepted"

(* Status is determined by the inductive invariant. *)
LEMMA StatusIs == IInv => StatusInv
<1> SUFFICES ASSUME IInv, NEW c \in Cmds
             PROVE  status[c] = IF copies[c] = 0 THEN "new"
                                ELSE IF c \in dropped THEN "dropped"
                                ELSE IF calls[c] = 1 THEN "done"
                                ELSE IF Cur(c) \in Spooled THEN "spooled" ELSE "accepted"
  BY ZenonT(60) DEF StatusInv
<1>1. Spooled \in SUBSET Pkts /\ \A p \in Spooled : p[2] = copies[p[1]]
  BY SMTT(60) DEF IInv, TypeOK, HeldAreCurrent, Spooled
<1>2. c \in CmdsOf(Spooled) <=> Cur(c) \in Spooled
  BY ZenonT(60), <1>1, CurrentCmds DEF IInv
<1>3. status[c] = Status(c) /\ copies[c] \in Nat /\ calls[c] \in {0, 1}
  BY SMTT(60) DEF status, IInv, TypeOK, Accounted
<1>4. Cur(c) \in Spooled => /\ copies[c] > 0 /\ copies[c] # 0
                            /\ calls[c] = 0 /\ c \notin dropped
  <2> SUFFICES ASSUME Cur(c) \in Spooled
               PROVE  copies[c] > 0 /\ copies[c] # 0 /\ calls[c] = 0 /\ c \notin dropped
    OBVIOUS
  <2>1. Cur(c) \in Held
    BY ZenonT(60) DEF Held
  <2>2. QED
    BY ZenonT(60), <2>1, HeldIsOpen
<1>5. calls[c] = 1 => copies[c] # 0 /\ c \notin dropped
  BY SMTT(60) DEF IInv, TypeOK, Accounted
<1>6. copies[c] = 0 => calls[c] = 0 /\ c \notin dropped
  BY ZenonT(60) DEF IInv, Accounted
<1>7. CASE copies[c] = 0
  <2>1. calls[c] = 0 /\ c \notin dropped /\ c \notin CmdsOf(Spooled)
    BY ZenonT(60), <1>7, <1>2, <1>4, <1>6
  <2>2. QED
    BY SMTT(60), <1>7, <1>3, <2>1 DEF Status
<1>8. CASE copies[c] > 0 /\ c \in dropped
  <2>1. calls[c] = 0 /\ c \notin CmdsOf(Spooled)
    BY ZenonT(60), <1>8, <1>2, <1>3, <1>4, <1>5
  <2>2. QED
    BY SMTT(60), <1>8, <1>3, <2>1 DEF Status
<1>9. CASE copies[c] > 0 /\ c \notin dropped /\ calls[c] = 1
  BY SMTT(60), <1>9, <1>2, <1>3, <1>4 DEF Status
<1>10. CASE copies[c] > 0 /\ c \notin dropped /\ calls[c] = 0
  BY SMTT(60), <1>10, <1>2, <1>3 DEF Status
<1>11. QED
  BY SMTT(60), <1>3, <1>7, <1>8, <1>9, <1>10

(* Only commands that exist are renewed (mcreq_renew_packet). *)
LEMMA RenewedIs ==
  ASSUME IInv, NEW P \in SUBSET Held
  PROVE  \A c \in Cmds : Renewed(CmdsOf(P))[c] = 0 <=> copies[c] = 0
<1>1. P \in SUBSET Pkts /\ \A p \in P : p[2] = copies[p[1]]
  BY ZenonT(60), HeldIs DEF IInv, TypeOK, HeldAreCurrent
<1>2. \A c \in Cmds : c \in CmdsOf(P) => copies[c] > 0
  <2>1. \A c \in Cmds : c \in CmdsOf(P) <=> Cur(c) \in P
    BY ZenonT(60), <1>1, CurrentCmds DEF IInv
  <2>2. \A c \in Cmds : Cur(c) \in Pkts => copies[c] \in Copies
    BY ZenonT(60) DEF Cur, Pkts
  <2>3. QED
    BY SMTT(60), <1>1, <2>1, <2>2 DEF Copies
<1>3. QED
  BY SMTT(60), <1>2 DEF Renewed, IInv, TypeOK

(* Callbacks are not taken back. *)
LEMMA InvokeIs ==
  ASSUME IInv, NEW D
  PROVE  \A c \in Cmds : calls[c] <= Invoke(D)[c]
  BY SMTT(60) DEF Invoke, IInv, TypeOK

(* A step of the event loop completes the commands whose callback it       *)
(* invokes.                                                                *)
LEMMA EventCompletes ==
  ASSUME IInv, IInv', StatusInv, StatusInv', InLoop, UNCHANGED <<ctxqueued, dropped>>,
         \A c \in Cmds : copies'[c] = 0 <=> copies[c] = 0,
         \A c \in Cmds : calls[c] <= calls'[c]
  PROVE  Abs!Next
<1> DEFINE D == {c \in Cmds : calls[c] = 0 /\ calls'[c] = 1}
<1>1. Spooled = {} /\ Spooled' = {}
  BY ZenonT(60) DEF InLoop, Spooled
<1>2. ASSUME NEW c \in Cmds
      PROVE  /\ copies[c] \in Nat /\ copies'[c] \in Nat
             /\ calls[c] \in {0, 1} /\ calls'[c] \in {0, 1}
             /\ calls'[c] = 1 => copies'[c] > 0 /\ c \notin dropped
             /\ copies[c] = 0 => calls'[c] = 0 /\ c \notin dropped
  <2>1. /\ copies[c] \in Nat /\ copies'[c] \in Nat
        /\ calls[c] \in Nat /\ calls'[c] \in Nat
    BY SMTT(60) DEF IInv, TypeOK
  <2>2. /\ calls[c] <= 1 /\ calls'[c] <= 1
        /\ calls'[c] = 1 => c \notin dropped'
        /\ copies'[c] = 0 => calls'[c] = 0 /\ c \notin dropped'
    BY ZenonT(60) DEF IInv, Accounted
  <2>3. QED
    BY SMTT(60), <2>1, <2>2
<1>3. ASSUME NEW c \in Cmds
      PROVE  /\ status[c] # "spooled"
             /\ c \in D => status[c] = "accepted"
             /\ status'[c] = IF c \in D THEN "done" ELSE status[c]
  <2>1. /\ status[c] = IF copies[c] = 0 THEN "new"
                       ELSE IF c \in dropped THEN "dropped"
                       ELSE IF calls[c] = 1 THEN "done" ELSE "accepted"
        /\ status'[c] = IF copies'[c] = 0 THEN "new"
                        ELSE IF c \in dropped' THEN "dropped"
                        ELSE IF calls'[c] = 1 THEN "done" ELSE "accepted"
    BY ZenonT(60), <1>1 DEF StatusInv
  <2>2. /\ calls[c] \in {0, 1} /\ calls'[c] \in {0, 1} /\ calls[c] <= calls'[c]
        /\ (copies'[c] = 0 <=> copies[c] = 0) /\ dropped' = dropped
        /\ calls'[c] = 1 => copies'[c] # 0 /\ c \notin dropped
    BY SMTT(60), <1>2
  <2>3. QED
    BY SMTT(60), <2>1, <2>2
<1>4. status' = [c \in Cmds |-> IF c \in D THEN "done" ELSE status[c]]
  BY ZenonT(60), <1>3 DEF status
<1>5. Abs!Complete(D)
  BY ZenonT(60), <1>3, <1>4 DEF Abs!Complete, Abs!In, Abs!Become
<1>6. QED
  BY ZenonT(60), <1>5 DEF Abs!Next

(* Putting a command on a pipeline (mcreq_sched_add) is a Submit step. *)
LEMMA SubmitStep ==
  ASSUME IInv, IInv', StatusInv, StatusInv', NEW c \in Cmds, NEW pl \in Pipelines,
         Schedule(c, pl)
  PROVE  Abs!Next
<1>1. /\ copies[c] = 0 /\ copies' = [copies EXCEPT ![c] = 1]
      /\ dropped' = dropped /\ calls' = calls
  BY ZenonT(60) DEF Schedule
<1>2. calls[c] = 0 /\ c \notin dropped /\ copies'[c] = 1
  BY ZenonT(60), <1>1 DEF IInv, TypeOK, Accounted
<1>3. \A p : p \in Spooled' <=> p \in Spooled \/ p = <<c, 1>>
  <2>1. ctxqueued' = [ql \in Pipelines |-> IF ql = pl THEN ctxqueued[ql] \cup {<<c, 1>>}
                                                     ELSE ctxqueued[ql]]
    BY ZenonT(60) DEF Schedule, IInv, TypeOK
  <2>2. QED
    BY SMTT(60), <2>1 DEF Spooled
<1>4. status[c] = "new" /\ status'[c] = "spooled"
  <2>1. Cur(c)' \in Spooled'
    BY ZenonT(60), <1>2, <1>3 DEF Cur
  <2>2. calls'[c] = 0 /\ c \notin dropped' /\ copies'[c] = 1
    BY ZenonT(60), <1>1, <1>2
  <2>3. QED
    BY SMTT(60), <1>1, <2>1, <2>2 DEF StatusInv
<1>5. ASSUME NEW d \in Cmds, d # c PROVE status'[d] = status[d]
  <2>1. copies'[d] = copies[d]
    BY ZenonT(60), <1>1, <1>5 DEF IInv, TypeOK
  <2>2. Cur(d)' = Cur(d) /\ (Cur(d) \in Spooled' <=> Cur(d) \in Spooled)
    BY ZenonT(60), <2>1, <1>3, <1>5 DEF Cur
  <2>3. QED
    BY ZenonT(60), <2>1, <2>2, <1>1 DEF StatusInv
<1>6. status' = [d \in Cmds |-> IF d \in {c} THEN "spooled" ELSE status[d]]
  BY ZenonT(60), <1>4, <1>5 DEF status
<1>7. Abs!Submit(c)
  BY ZenonT(60), <1>4, <1>6 DEF Abs!Submit, Abs!Become
<1>8. QED
  BY ZenonT(60), <1>7 DEF Abs!Next

(* Closing a scheduling context accepts or discards what it holds *)
LEMMA CloseStep ==
  ASSUME IInv, IInv', StatusInv, StatusInv', SchedLeave \/ SchedFail
  PROVE  Abs!Next
<1> DEFINE S == {c \in Cmds : Cur(c) \in Spooled}
<1>1. Spooled \subseteq Pkts /\ Spooled' = {} /\ S # {}
  <2>1. Spooled \subseteq Pkts /\ \A p \in Spooled : p[2] = copies[p[1]]
    BY SMTT(60) DEF IInv, TypeOK, HeldAreCurrent, Spooled
  <2>2. Spooled' = {} /\ Spooled # {}
    BY ZenonT(60) DEF SchedLeave, SchedFail, InLoop, Spooled
  <2>3. \A p \in Spooled : p[1] \in S
    BY SMTT(60), <2>1 DEF Cur, Pkts
  <2>4. QED
    BY ZenonT(60), <2>1, <2>2, <2>3
<1>2. ASSUME NEW c \in Cmds
      PROVE  /\ c \in S => copies[c] # 0 /\ calls[c] = 0 /\ c \notin dropped
             /\ status[c] = "spooled" <=> c \in S
             /\ calls'[c] = calls[c]
  <2>1. ASSUME c \in S PROVE copies[c] # 0 /\ calls[c] = 0 /\ c \notin dropped
    <3>1. Cur(c) \in Held
      BY ZenonT(60), <2>1 DEF Held
    <3>2. QED
      BY ZenonT(60), <3>1, HeldIsOpen
  <2>2. calls'[c] = calls[c]
    BY ZenonT(60) DEF SchedLeave, SchedFail
  <2>3. QED
    BY SMTT(60), <2>1, <2>2 DEF StatusInv
<1>3. Abs!In("spooled") = S
  BY ZenonT(60), <1>2 DEF Abs!In
<1>4. CASE SchedLeave
  <2>1. ASSUME NEW c \in Cmds
        PROVE  (copies'[c] = 0 <=> copies[c] = 0) /\ dropped' = dropped
    <3>1. copies' = Renewed(CmdsOf(ctxqueued[Fallback])) /\ dropped' = dropped
      BY ZenonT(60), <1>4 DEF SchedLeave
    <3>2. ctxqueued[Fallback] \subseteq Held
      BY ZenonT(60), HeldIs DEF Pipelines
    <3>3. QED
      BY ZenonT(60), <3>1, <3>2, RenewedIs
  <2>2. ASSUME NEW c \in Cmds
        PROVE  status'[c] = IF c \in S THEN "accepted" ELSE status[c]
    <3>1. /\ status[c] = IF copies[c] = 0 THEN "new"
                         ELSE IF c \in dropped THEN "dropped"
                         ELSE IF calls[c] = 1 THEN "done"
                         ELSE IF c \in S THEN "spooled" ELSE "accepted"
          /\ status'[c] = IF copies'[c] = 0 THEN "new"
                          ELSE IF c \in dropped' THEN "dropped"
                          ELSE IF calls'[c] = 1 THEN "done" ELSE "accepted"
      BY ZenonT(60), <1>1 DEF StatusInv
    <3>2. QED
      BY ZenonT(60), <3>1, <1>2, <2>1
  <2>3. status' = [c \in Cmds |-> IF c \in S THEN "accepted" ELSE status[c]]
    BY ZenonT(60), <2>2 DEF status
  <2>4. QED
    BY ZenonT(60), <1>1, <1>3, <2>3 DEF Abs!Next, Abs!Accept, Abs!Become
<1>5. CASE SchedFail
  <2>1. copies' = copies /\ \A c \in Cmds : c \in dropped' <=> c \in dropped \/ c \in S
    <3>1. \A c \in Cmds : c \in CmdsOf(Spooled) <=> c \in S
      <4>1. \A p \in Spooled : p[2] = copies[p[1]]
        BY ZenonT(60) DEF IInv, HeldAreCurrent, Spooled
      <4>2. QED
        BY ZenonT(60), <4>1, <1>1, CurrentCmds DEF IInv
    <3>2. QED
      BY ZenonT(60), <1>5, <3>1 DEF SchedFail, Spooled
  <2>2. ASSUME NEW c \in Cmds
        PROVE  status'[c] = IF c \in S THEN "dropped" ELSE status[c]
    <3>1. /\ status[c] = IF copies[c] = 0 THEN "new"
                         ELSE IF c \in dropped THEN "dropped"
                         ELSE IF calls[c] = 1 THEN "done"
                         ELSE IF c \in S THEN "spooled" ELSE "accepted"
          /\ status'[c] = IF copies'[c] = 0 THEN "new"
                          ELSE IF c \in dropped' THEN "dropped"
                          ELSE IF calls'[c] = 1 THEN "done" ELSE "accepted"
      BY ZenonT(60), <1>1 DEF StatusInv
    <3>2. QED
      BY ZenonT(60), <3>1, <1>2, <2>1
  <2>3. status' = [c \in Cmds |-> IF c \in S THEN "dropped" ELSE status[c]]
    BY ZenonT(60), <2>2 DEF status
  <2>4. QED
    BY ZenonT(60), <1>1, <1>3, <2>3 DEF Abs!Next, Abs!Discard, Abs!Become
<1>6. QED
  BY ZenonT(60), <1>4, <1>5

(* Every step is a step of Completion or leaves the statuses as they are. *)
LEMMA NextCompletion ==
  ASSUME IInv, IInv', StatusInv, StatusInv', [Next]_vars
  PROVE  [Abs!Next]_status
<1>1. ASSUME NEW c \in Cmds, NEW pl \in Pipelines, Schedule(c, pl) PROVE Abs!Next
  BY ZenonT(60), <1>1, SubmitStep
<1>2. CASE SchedLeave \/ SchedFail
  BY ZenonT(60), <1>2, CloseStep
<1>3. ASSUME NEW s \in Servers, NEW P \in SUBSET requests[s], NEW R \in SUBSET P,
             NEW drain \in BOOLEAN, InLoop, Leave(s, P, R, drain),
             UNCHANGED <<ctxqueued, dropped>>
      PROVE  Abs!Next
  <2>1. R \in SUBSET Held
    BY ZenonT(60), HeldIs
  <2>2. copies' = Renewed(CmdsOf(R)) /\ calls' = Invoke(CmdsOf(P \ R))
    BY ZenonT(60), <1>3 DEF Leave
  <2>3. QED
    BY ZenonT(60), <1>3, <2>1, <2>2, RenewedIs, InvokeIs, EventCompletes
<1>4. ASSUME NEW s \in Servers, NEW q \in wire[s], NEW p \in requests[s],
             ReplyDone(s, q, p) \/ ReplyRetry(s, q, p)
      PROVE  Abs!Next
  BY ZenonT(60), <1>3, <1>4 DEF ReplyDone, ReplyRetry, Answers
<1>5. ASSUME NEW s \in Servers, NEW q \in wire[s], NEW p \in requests[s],
             ReplyCollection(s, q, p) \/ ReplyUnresolved(s, q, p)
      PROVE  Abs!Next
  <2>1. {p} \in SUBSET Held /\ CmdsOf({p}) = {p[1]}
    BY SMTT(60), HeldIs DEF CmdsOf, IInv, TypeOK, Pkts
  <2>2. /\ InLoop /\ UNCHANGED <<ctxqueued, dropped>>
        /\ copies' = Renewed({p[1]}) /\ (calls' = calls \/ calls' = Invoke({p[1]}))
    BY ZenonT(60), <1>5 DEF ReplyCollection, ReplyUnresolved, Answers
  <2>3. /\ \A c \in Cmds : copies'[c] = 0 <=> copies[c] = 0
        /\ \A c \in Cmds : calls[c] <= calls'[c]
    <3>1. \A c \in Cmds : Renewed({p[1]})[c] = 0 <=> copies[c] = 0
      BY ZenonT(60), <2>1, RenewedIs
    <3>2. \A c \in Cmds : calls[c] <= Invoke({p[1]})[c] /\ calls[c] <= calls[c]
      BY SMTT(60), InvokeIs DEF IInv, TypeOK
    <3>3. QED
      BY ZenonT(60), <2>2, <3>1, <3>2
  <2>4. QED
    BY ZenonT(60), <2>2, <2>3, EventCompletes
<1>6. ASSUME NEW s \in Servers, NEW T \in SUBSET requests[s], Timeout(s, T) PROVE Abs!Next
  BY ZenonT(60), <1>3, <1>6 DEF Timeout
<1>7. ASSUME NEW s \in Servers, NEW R \in SUBSET requests[s],
             ConnectFailed(s, R) \/ SocketFailed(s, R)
      PROVE  Abs!Next
  BY ZenonT(60), <1>3, <1>7 DEF ConnectFailed, SocketFailed
<1>8. ASSUME NEW s \in Servers, NEW dest \in Destinations(requests[s], Servers \ {s}),
             RemoveServer(s, dest)
      PROVE  Abs!Next
  <2> DEFINE M == {p \in requests[s] : dest[p] # NoServer}
  <2>1. M \in SUBSET Held
    BY ZenonT(60), HeldIs
  <2>2. /\ InLoop /\ UNCHANGED <<ctxqueued, dropped>>
        /\ copies' = Renewed(CmdsOf(M)) /\ calls' = Invoke(CmdsOf(requests[s] \ M))
    BY ZenonT(60), <1>8 DEF RemoveServer
  <2>3. QED
    BY ZenonT(60), <2>1, <2>2, RenewedIs, InvokeIs, EventCompletes
<1>9. ASSUME NEW F \in SUBSET retryq, NEW dest \in Destinations(retryq \ F, Servers),
             RetryFlush(F, dest)
      PROVE  Abs!Next
  <2>1. InLoop /\ UNCHANGED <<ctxqueued, dropped, copies>> /\ calls' = Invoke(CmdsOf(F))
    BY ZenonT(60), <1>9 DEF RetryFlush
  <2>2. QED
    BY ZenonT(60), <2>1, InvokeIs, EventCompletes
<1>10. ASSUME InLoop, UNCHANGED <<ctxqueued, dropped, copies, calls>> PROVE Abs!Next
  <2>1. \A c \in Cmds : calls[c] <= calls'[c]
    BY SMTT(60), <1>10 DEF IInv, TypeOK
  <2>2. QED
    BY ZenonT(60), <1>10, <2>1, EventCompletes
<1>11. ASSUME NEW s \in Servers,
              \/ \E q \in wire[s] : ReplyOwnerless(s, q)
              \/ Connected(s) \/ AddServer(s)
              \/ \E p \in sendq[s] : Flush(s, p)
       PROVE  Abs!Next
  BY ZenonT(60), <1>10, <1>11 DEF ReplyOwnerless, Connected, AddServer, Flush
<1>12. ASSUME NEW p \in resolving, Resolved(p) PROVE Abs!Next
  BY ZenonT(60), <1>10, <1>12 DEF Resolved
<1>13. CASE UNCHANGED vars
  BY SMTT(60), <1>13 DEF vars, status, Status, Spooled
<1>14. QED
  BY ZenonT(60), <1>1, <1>2, <1>4, <1>5, <1>6, <1>7, <1>8, <1>9, <1>11, <1>12, <1>13 DEF Next

(* Pipelines, retries, collection lookups and new cluster maps together    *)
(* implement Completion: a context is accepted or discarded as a whole, and *)
(* an accepted command is completed once and outside of any context.       *)
THEOREM Refinement == Spec => ImplementsCompletion
<1>1. Init => Abs!Init
  <2> SUFFICES ASSUME Init PROVE Abs!Init
    OBVIOUS
  <2>1. \A c \in Cmds : status[c] = "new"
    BY ZenonT(60), InitIInv, StatusIs DEF Init, StatusInv
  <2>2. QED
    BY ZenonT(60), <2>1 DEF status, Abs!Init
<1>2. IInv /\ StatusInv /\ IInv' /\ StatusInv' /\ [Next]_vars => [Abs!Next]_status
  BY ZenonT(60), NextCompletion
<1>3. QED
  BY <1>1, <1>2, Inductive, StatusIs, PTL DEF Spec, ImplementsCompletion, Abs!Spec
-----------------------------------------------------------------------------
(* Without collections and without servers that go away, RetryOp::pkt is   *)
(* the latest copy, a detached copy that is still to be written is the     *)
(* latest one, and packets are released exactly when they are done.        *)
RInv ==
  /\ resolving = {}
  /\ \A c \in Cmds : /\ oppkt[c] # 0 => oppkt[c] = copies[c]
                     /\ copies[c] > 1 => oppkt[c] = copies[c]
  /\ \A s \in Servers : \A q \in sendq[s] : q[2] = 1 \/ q[2] = copies[q[1]]
  /\ ReleasedWhenDone

(* The requests P leave server s, those of R into the retry queue: what is *)
(* left of them is released, and no detached copy stays to be written.     *)
LEMMA LeaveReleases ==
  ASSUME IInv, RInv, NEW s \in Servers, NEW P \in SUBSET requests[s], NEW R \in SUBSET P,
         NEW drain \in BOOLEAN, Leave(s, P, R, drain), UNCHANGED <<resolving, dropped>>
  PROVE  RInv'
<1> DEFINE C == CmdsOf(R)
           Old == OldPkts(C)
<1>1. /\ P \in SUBSET Pkts /\ R \in SUBSET Pkts /\ P \cap invoked = {}
      /\ \A p \in P : p[2] = copies[p[1]]
  BY ZenonT(60) DEF IInv, TypeOK, HeldAreCurrent, HeldNotDone
<1>2. \A c \in Cmds : c \in C <=> Cur(c) \in R
  BY ZenonT(60), <1>1, CurrentCmds DEF IInv
<1>3. Old \in SUBSET R
  <2> SUFFICES ASSUME NEW p \in Old PROVE p \in R
    OBVIOUS
  <2>1. p \in Pkts /\ p[1] \in C /\ p[2] = oppkt[p[1]]
    BY ZenonT(60) DEF OldPkts
  <2>2. p[1] \in Cmds /\ p[2] # 0 /\ p = <<p[1], p[2]>>
    BY SMTT(60), <2>1 DEF Pkts, Copies
  <2>3. p[2] = copies[p[1]]
    BY ZenonT(60), <2>1, <2>2 DEF RInv
  <2>4. QED
    BY ZenonT(60), <1>2, <2>1, <2>2, <2>3 DEF Cur
<1>4. PICK D \in SUBSET sendq[s] :
        /\ \A t \in Servers : sendq'[t] \subseteq sendq[t] \ Old
        /\ flushed' = flushed \cup Old \cup D
        /\ freed' = freed \cup (P \cap (flushed \cup Old)) \cup (D \cap (invoked \cup P))
  <2> DEFINE D == IF drain THEN Unlinked(C)[s] ELSE {}
  <2>1. D \in SUBSET sendq[s]
    BY ZenonT(60) DEF Unlinked
  <2>2. /\ \A t \in Servers : sendq'[t] \subseteq sendq[t] \ Old
        /\ flushed' = flushed \cup Old \cup D
        /\ freed' = freed \cup (P \cap (flushed \cup Old)) \cup (D \cap (invoked \cup P))
    BY ZenonT(60) DEF Leave, Unlinked, Handled, Flushed
  <2> HIDE DEF D
  <2>3. QED
    BY ZenonT(60), <2>1, <2>2
<1>5. /\ invoked' = invoked \cup P
      /\ copies' = Renewed(C) /\ oppkt' = Associated(C)
  BY ZenonT(60) DEF Leave
<1>6. ReleasedWhenDone'
  <2>1. flushed' \cap invoked' \subseteq freed'
    BY ZenonT(60), <1>1, <1>3, <1>4, <1>5 DEF RInv, ReleasedWhenDone
  <2>2. \A p \in freed' : p \in flushed' \cap invoked' \/ p[1] \in dropped'
    BY ZenonT(60), <1>4, <1>5 DEF RInv, ReleasedWhenDone
  <2>3. QED
    BY ZenonT(60), <2>1, <2>2 DEF ReleasedWhenDone
<1> HIDE DEF C
<1>7. \A c \in Cmds : /\ c \in C => copies'[c] = copies[c] + 1 /\ oppkt'[c] = copies[c] + 1
                      /\ c \notin C => copies'[c] = copies[c] /\ oppkt'[c] = oppkt[c]
  BY SMTT(60), <1>5 DEF Renewed, Associated, IInv, TypeOK
<1>8. \A c \in Cmds : /\ oppkt'[c] # 0 => oppkt'[c] = copies'[c]
                      /\ copies'[c] > 1 => oppkt'[c] = copies'[c]
  BY ZenonT(60), <1>7 DEF RInv
<1>9. ASSUME NEW t \in Servers, NEW q \in sendq'[t] PROVE q[2] = 1 \/ q[2] = copies'[q[1]]
  <2>1. q \in sendq[t] /\ q \notin Old /\ q \in Pkts /\ (q[2] = 1 \/ q[2] = copies[q[1]])
    BY ZenonT(60), <1>4, <1>9 DEF IInv, TypeOK, RInv
  <2>2. q[1] \in Cmds /\ q[2] \in Nat \ {0}
    BY SMTT(60), <2>1 DEF Pkts, Copies
  <2>3. CASE q[1] \in C /\ q[2] # 1
    <3>1. q[2] = oppkt[q[1]]
      BY SMTT(60), <2>1, <2>2, <2>3 DEF RInv
    <3>2. QED
      BY ZenonT(60), <2>1, <2>3, <3>1 DEF OldPkts
  <2>4. QED
    BY ZenonT(60), <2>1, <2>2, <2>3, <1>7
<1>10. QED
  BY ZenonT(60), <1>6, <1>8, <1>9 DEF RInv

(* Scheduling: what is spooled is a first copy.                            *)
LEMMA ScheduleReleases ==
  ASSUME IInv, RInv,
         SchedLeave \/ SchedFail \/ \E c \in Cmds, pl \in Pipelines : Schedule(c, pl)
  PROVE  RInv'
<1>1. CASE SchedLeave
  <2> DEFINE F == ctxqueued[Fallback]
             C == CmdsOf(F)
  <2>1. /\ flushed' = flushed \cup F /\ invoked' = invoked \cup F /\ freed' = freed \cup F
        /\ UNCHANGED <<resolving, dropped>>
        /\ copies' = Renewed(C) /\ oppkt' = Associated(C)
        /\ sendq' = [s \in Servers |-> sendq[s] \cup ctxqueued[s]]
    BY ZenonT(60), <1>1 DEF SchedLeave
  <2>2. /\ \A pl \in Pipelines : \A p \in ctxqueued[pl] : p[2] = 1 /\ p[2] = copies[p[1]]
        /\ \A pl \in Pipelines : ctxqueued[pl] \cap (invoked \cup flushed) = {}
        /\ Fallback \in Pipelines /\ Servers \subseteq Pipelines
    BY ZenonT(60) DEF IInv, HeldAreCurrent, HeldNotDone, Pipelines
  <2>3. ReleasedWhenDone'
    BY ZenonT(60), <2>1, <2>2 DEF RInv, ReleasedWhenDone
  <2>4. \A c \in C : copies[c] = 1
    BY ZenonT(60), <2>2 DEF CmdsOf
  <2> HIDE DEF C
  <2>5. \A c \in Cmds : /\ c \in C => copies'[c] = copies[c] + 1 /\ oppkt'[c] = copies[c] + 1
                        /\ c \notin C => copies'[c] = copies[c] /\ oppkt'[c] = oppkt[c]
    BY SMTT(60), <2>1 DEF Renewed, Associated, IInv, TypeOK
  <2>6. \A c \in Cmds : /\ oppkt'[c] # 0 => oppkt'[c] = copies'[c]
                        /\ copies'[c] > 1 => oppkt'[c] = copies'[c]
    BY ZenonT(60), <2>5 DEF RInv
  <2>7. ASSUME NEW t \in Servers, NEW q \in sendq'[t] PROVE q[2] = 1 \/ q[2] = copies'[q[1]]
    <3>1. CASE q \in ctxqueued[t]
      BY ZenonT(60), <2>2, <3>1
    <3>2. CASE q \in sendq[t]
      <4>0. q \in Pkts /\ (q[2] = 1 \/ q[2] = copies[q[1]])
        BY ZenonT(60), <3>2 DEF IInv, TypeOK, RInv
      <4>1. q[1] \in Cmds /\ (q[2] = 1 \/ q[2] = copies[q[1]])
        BY ZenonT(60), <4>0 DEF Pkts
      <4>2. QED
        BY ZenonT(60), <4>1, <2>4, <2>5
    <3>3. QED
      BY ZenonT(60), <2>1, <2>7, <3>1, <3>2
  <2>8. QED
    BY ZenonT(60), <2>1, <2>3, <2>6, <2>7 DEF RInv
<1>2. CASE SchedFail
  <2> DEFINE D == UNION {ctxqueued[pl] : pl \in Pipelines}
  <2>1. /\ freed' = freed \cup D /\ dropped' = dropped \cup CmdsOf(D)
        /\ UNCHANGED <<copies, sendq, resolving, oppkt, flushed, invoked>>
    BY ZenonT(60), <1>2 DEF SchedFail
  <2>2. D \in SUBSET Pkts
    BY SMTT(60) DEF IInv, TypeOK
  <2> HIDE DEF D
  <2>3. \A p \in D : p[1] \in CmdsOf(D)
    <3> SUFFICES ASSUME NEW p \in D PROVE p[1] \in CmdsOf(D)
      OBVIOUS
    <3>1. p[1] \in Cmds /\ p[2] \in Copies /\ p = <<p[1], p[2]>>
      BY SMTT(60), <2>2 DEF Pkts
    <3>2. QED
      BY ZenonT(60), <3>1 DEF CmdsOf
  <2>4. QED
    BY ZenonT(60), <2>1, <2>3 DEF RInv, ReleasedWhenDone
<1>3. ASSUME NEW c \in Cmds, NEW pl \in Pipelines, Schedule(c, pl) PROVE RInv'
  <2>1. /\ copies[c] = 0 /\ copies' = [copies EXCEPT ![c] = 1]
        /\ UNCHANGED <<sendq, resolving, oppkt, flushed, invoked, freed, dropped>>
    BY ZenonT(60), <1>3 DEF Schedule
  <2>2. \A d \in Cmds : d # c => copies'[d] = copies[d]
    BY ZenonT(60), <2>1 DEF IInv, TypeOK
  <2>3. copies'[c] = 1 /\ oppkt[c] = 0
    BY SMTT(60), <2>1 DEF IInv, TypeOK, RetryOps
  <2>4. \A d \in Cmds : /\ oppkt[d] # 0 => oppkt[d] = copies'[d]
                        /\ copies'[d] > 1 => oppkt[d] = copies'[d]
    BY SMTT(60), <2>2, <2>3 DEF RInv
  <2>5. ASSUME NEW t \in Servers, NEW q \in sendq[t] PROVE q[2] = 1 \/ q[2] = copies'[q[1]]
    <3>1. q[1] \in Cmds /\ q[2] \in Nat \ {0} /\ q[2] <= copies[q[1]]
      BY SMTT(60) DEF IInv, TypeOK, NothingAhead, Pkts, Copies
    <3>2. q[1] # c
      BY SMTT(60), <3>1, <2>1
    <3>3. QED
      BY ZenonT(60), <2>2, <3>1, <3>2 DEF RInv
  <2>6. QED
    BY ZenonT(60), <2>1, <2>4, <2>5 DEF RInv, ReleasedWhenDone
<1>4. QED
  BY ZenonT(60), <1>1, <1>2, <1>3

(* Every step preserves this part of the invariant.                        *)
LEMMA NextReleases ==
  ASSUME ~Collections, Removable = {}, IInv, RInv, [Next]_vars
  PROVE  RInv'
<1>1. ASSUME NEW s \in Servers, NEW P \in SUBSET requests[s], NEW R \in SUBSET P,
             NEW drain \in BOOLEAN, Leave(s, P, R, drain), UNCHANGED <<resolving, dropped>>
      PROVE  RInv'
  BY ZenonT(60), <1>1, LeaveReleases
<1>2. ASSUME NEW s \in Servers, NEW q \in wire[s], NEW p \in requests[s],
             ReplyDone(s, q, p) \/ ReplyRetry(s, q, p)
      PROVE  RInv'
  <2>1. /\ Leave(s, {p}, {}, FALSE) \/ Leave(s, {p}, {p}, FALSE)
        /\ UNCHANGED <<resolving, dropped>>
    BY ZenonT(60), <1>2 DEF ReplyDone, ReplyRetry
  <2>2. /\ {p} \in SUBSET requests[s] /\ {} \in SUBSET {p} /\ {p} \in SUBSET {p}
        /\ FALSE \in BOOLEAN
    OBVIOUS
  <2>3. QED
    BY ZenonT(60), <1>1, <2>1, <2>2
<1>3. ASSUME NEW s \in Servers, NEW T \in SUBSET requests[s], Timeout(s, T) PROVE RInv'
  <2>1. Leave(s, T, {}, FALSE) /\ UNCHANGED <<resolving, dropped>>
    BY ZenonT(60), <1>3 DEF Timeout
  <2>2. {} \in SUBSET T /\ FALSE \in BOOLEAN
    OBVIOUS
  <2>3. QED
    BY ZenonT(60), <1>1, <2>1, <2>2
<1>4. ASSUME NEW s \in Servers, NEW R \in SUBSET requests[s],
             ConnectFailed(s, R) \/ SocketFailed(s, R)
      PROVE  RInv'
  <2>1. \E drain \in BOOLEAN : /\ Leave(s, requests[s], R, drain)
                               /\ UNCHANGED <<resolving, dropped>>
    BY ZenonT(60), <1>4 DEF ConnectFailed, SocketFailed
  <2>2. requests[s] \in SUBSET requests[s]
    OBVIOUS
  <2>3. QED
    BY ZenonT(60), <1>1, <2>1, <2>2
<1>5. ASSUME NEW s \in Servers, NEW p \in sendq[s], Flush(s, p) PROVE RInv'
  <2>1. /\ \A t \in Servers : sendq'[t] \subseteq sendq[t]
        /\ flushed' = flushed \cup {p} /\ freed' = freed \cup ({p} \cap invoked)
        /\ UNCHANGED <<copies, resolving, oppkt, invoked, dropped>>
    BY ZenonT(60), <1>5 DEF Flush, Flushed, IInv, TypeOK
  <2>2. QED
    BY ZenonT(60), <2>1 DEF RInv, ReleasedWhenDone
<1>6. ASSUME NEW F \in SUBSET retryq, NEW dest, RetryFlush(F, dest) PROVE RInv'
  <2>1. /\ \A t \in Servers : sendq'[t] \subseteq sendq[t] \cup retryq
        /\ flushed' = flushed \cup F /\ invoked' = invoked \cup F /\ freed' = freed \cup F
        /\ UNCHANGED <<copies, resolving, oppkt, dropped>>
    BY ZenonT(60), <1>6 DEF RetryFlush
  <2>2. /\ \A p \in retryq : p[2] = copies[p[1]]
        /\ F \cap (flushed \cup invoked) = {}
    BY ZenonT(60) DEF IInv, HeldAreCurrent, HeldNotDone
  <2>3. ReleasedWhenDone'
    BY ZenonT(60), <2>1, <2>2 DEF RInv, ReleasedWhenDone
  <2>4. \A s \in Servers : \A q \in sendq'[s] : q[2] = 1 \/ q[2] = copies'[q[1]]
    BY ZenonT(60), <2>1, <2>2 DEF RInv
  <2>5. QED
    BY ZenonT(60), <2>1, <2>3, <2>4 DEF RInv
<1>7. CASE UNCHANGED <<copies, resolving, oppkt, sendq, flushed, invoked, freed, dropped>>
  BY ZenonT(60), <1>7 DEF RInv, ReleasedWhenDone
<1>8. ASSUME NEW s \in Servers,
             Connected(s) \/ AddServer(s) \/ \E q \in wire[s] : ReplyOwnerless(s, q)
      PROVE  RInv'
  BY ZenonT(60), <1>7, <1>8 DEF Connected, AddServer, ReplyOwnerless
<1>9. ASSUME NEW s \in Servers, NEW q, NEW p,
             ReplyCollection(s, q, p) \/ ReplyUnresolved(s, q, p)
      PROVE  RInv'
  BY ZenonT(60), <1>9 DEF ReplyCollection, ReplyUnresolved
<1>10. ASSUME NEW s \in Servers, NEW dest, RemoveServer(s, dest) PROVE RInv'
  BY ZenonT(60), <1>10 DEF RemoveServer
<1>11. resolving = {}
  BY ZenonT(60) DEF RInv
<1>12. CASE UNCHANGED vars
  BY ZenonT(60), <1>7, <1>12 DEF vars
<1>13. CASE Next
  BY ZenonT(60), <1>2, <1>3, <1>4, <1>5, <1>6, <1>8, <1>9, <1>10, <1>11, <1>13,
     ScheduleReleases DEF Next
<1>14. QED
  BY ZenonT(60), <1>12, <1>13

(* However often a command is retried, by responses, timeouts and errors   *)
(* of connections in any order: mcreq_packet_done releases its copies when *)
(* they are written and handled, not before and not never; RetryOp::pkt    *)
(* exists when RetryQueue::add uses it; and a command in the retry queue   *)
(* has no detached copy left to be written.                                *)
THEOREM RetriesAreSafe ==
  ASSUME ~Collections, Removable = {}
  PROVE  Spec => []RetrySafe
<1>1. Init => RInv
  BY SMTT(60) DEF Init, RInv, ReleasedWhenDone
<1>2. IInv /\ RInv /\ [Next]_vars => RInv'
  BY NextReleases
<1>3. ASSUME IInv, RInv PROVE RetrySafe
  <2>1. OpPktValid
    <3> SUFFICES ASSUME NEW p \in Held, oppkt[p[1]] # 0, <<p[1], oppkt[p[1]]>> \in freed
                 PROVE  FALSE
      BY ZenonT(60) DEF OpPktValid
    <3>1. p \in Pkts /\ p[2] = copies[p[1]] /\ p \notin freed
      BY ZenonT(60), <1>3, HeldIs DEF IInv, TypeOK, HeldAreCurrent, HeldNotDone
    <3>2. p[1] \in Cmds /\ p = <<p[1], p[2]>>
      BY SMTT(60), <3>1 DEF Pkts
    <3>3. QED
      BY ZenonT(60), <1>3, <3>1, <3>2 DEF RInv
  <2>2. RetriedNotQueued
    <3> SUFFICES ASSUME NEW p \in retryq, NEW q \in SendQueued, q[1] = p[1], q[2] # 1
                 PROVE  FALSE
      BY ZenonT(60) DEF RetriedNotQueued
    <3>1. PICK s \in Servers : q \in sendq[s]
      BY ZenonT(60) DEF SendQueued
    <3>2. q \in Pkts /\ p \in Pkts /\ p[2] = copies[p[1]] /\ q[2] = copies[q[1]] /\ q # p
      BY ZenonT(60), <1>3, <3>1 DEF IInv, TypeOK, HeldAreCurrent, SendQueues, RInv
    <3>3. QED
      BY SMTT(60), <3>2 DEF Pkts
  <2>3. QED
    BY ZenonT(60), <1>3, <2>1, <2>2 DEF RetrySafe, RInv
<1>4. QED
  BY <1>1, <1>2, <1>3, Inductive, PTL DEF Spec
=============================================================================
