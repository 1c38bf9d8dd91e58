---------------------------- MODULE SockPoolInv ----------------------------
(***************************************************************************)
(* The inductive invariant of SockPool, lemmas about its lists, its        *)
(* counters and the attempts of Connect, and the steps of its users, its   *)
(* timers and its connection attempts, which preserve the invariant.       *)
(***************************************************************************)
EXTENDS SockPool, TLAPS, FiniteSetTheorems

(* A list has each of its members once.                                    *)
NoDup(s) == \A i, j \in 1 .. Len(s) : s[i] = s[j] => i = j

(* A failed loop owns its connection: it is pending, in no list.           *)
Failing == loop.kind \in {"failed", "dangling"}
InLoop(c) == loop.kind # "none" /\ loop.conn = c

Waiting == {"CS_PENDING", "CS_CONNECTED", "CS_ERROR"}
Alive == {"PENDING", "IDLE", "LEASED"}

(* A connection is in the hands of a user or of an assigned request.       *)
Taken(c) == c \in held \/ \E r \in Reqs : req[r].sock = c

(* The requests that wait are those in the list, each once. A request has  *)
(* a socket when it is ASSIGNED, and no other request and no user has it.  *)
Listed ==
  /\ NoDup(requests)
  /\ \A r \in Reqs : r \in Items(requests) <=> req[r].state = "PENDING"
  /\ \A r \in Reqs : req[r].sock # None <=> req[r].state = "ASSIGNED"
  /\ \A r, q \in Reqs : req[r].sock = req[q].sock /\ req[r].sock # None => r = q
  /\ \A r \in Reqs : req[r].sock \notin held

(* The state of a connection says which list it is in and who has it; one  *)
(* that nobody has any more lives until the handler it was made in is left. *)
(* The get() of the request of its number has made it.                     *)
Placed(c) ==
  /\ c \in Items(ll_idle) <=> info[c] = "IDLE"
  /\ c \in idle_timer <=> info[c] = "IDLE"
  /\ c \in ll_pending <=> info[c] = "PENDING" /\ ~InLoop(c)
  /\ Taken(c) => info[c] = "LEASED"
  /\ info[c] = "LEASED" /\ ~Taken(c) => InLoop(c) /\ cs[c].ref = 1
  /\ InLoop(c) /\ Failing => info[c] = "PENDING"
  /\ InLoop(c) /\ ~Failing => info[c] \in {"IDLE", "LEASED", "dead"}
  /\ cs[c].st = "handler" <=> InLoop(c)
  /\ info[c] # "none" => req[c].state # "none"

(* Outside a loop, and in the loop of a failure.                           *)
Looping ==
  /\ loop.kind = "none" => loop = NoLoop
  /\ Failing => loop.conn \in Conns

(* An attempt whose handler has not been entered: its references, and how  *)
(* far it has come; e is the environment.                                  *)
Trying(s, e) ==
  /\ s \in AttemptType /\ s.st \in Waiting
  /\ s.ref = IF s.flight THEN 2 ELSE 1
  /\ s.flight => s.st = "CS_PENDING" /\ e.io = "C"
  /\ s.watched => e.io = "E"
  /\ s.st = "CS_PENDING" =>
       s.result = "none" /\ s.ai \in 1 .. s.n /\ s.tried = 1 .. s.ai
  /\ s.result = "CONNECT_ERROR" /\ ~e.error_events => s.tried = 1 .. s.n

(* The references to the socket of each connection, by its state.          *)
Counted(c) ==
  /\ info[c] = "none" => cs[c] = NoAttempt
  /\ c \in ll_pending => Trying(cs[c], env)
  /\ Failing /\ InLoop(c) => cs[c].ref = IF cs[c].flight THEN 2 ELSE 1
  /\ info[c] = "IDLE" \/ Taken(c) => cs[c].ref = IF InLoop(c) THEN 2 ELSE 1
  /\ info[c] = "dead" /\ cs[c].st # "abort" =>
       cs[c].ref = IF InLoop(c) \/ cs[c].flight THEN 1 ELSE 0
  /\ info[c] = "dead" /\ InLoop(c) => ~cs[c].flight
  /\ info[c] \in {"IDLE", "LEASED"} => ~cs[c].flight /\ cs[c].st \in {"handler", "gone"}
  /\ info[c] = "dead" => cs[c].st \in {"handler", "gone", "CS_CANCELLED", "abort"}
  /\ cs[c].st = "abort" => ~cs[c].flight /\ env.io = "C" /\ env.late_cancel
  /\ cs[c].result = "CONNECT_ERROR" /\ ~env.error_events => cs[c].tried = 1 .. cs[c].n

(* The waiting requests and the attempts: before a loop has invoked its    *)
(* first handler, the attempt that ended is missing.                       *)
Covered ==
  IF loop.kind = "none" \/ loop.user \/ loop.conn = None
  THEN Len(requests) <= Cardinality(ll_pending)
  ELSE /\ Len(requests) <= Cardinality(ll_pending) + 1
       /\ loop.kind = "available" => ll_idle # <<>>
       /\ loop.kind = "failed" => loop.nxt = IF requests = <<>> THEN None ELSE Head(requests)

(* The counters of the host and the references of host and pool.           *)
AliveSet(f) == {c \in Conns : f[c] \in Alive}
Agree(f, n, h, p, d) ==
  /\ n = Cardinality(AliveSet(f))
  /\ h = n + (IF d THEN 0 ELSE 1)
  /\ p = (IF d THEN 0 ELSE 1) + (IF h > 0 THEN 1 ELSE 0)
Counters == Agree(info, n_total, hostref, poolref, down)

IInv ==
  /\ TypeOK /\ Listed /\ Looping /\ NoDup(ll_idle)
  /\ \A c \in Conns : Placed(c) /\ Counted(c)
  /\ Covered /\ Counters
-----------------------------------------------------------------------------
(* What lcb_clist_delete leaves of a list: the others, in their order.     *)
LEMMA RemoveOne ==
  ASSUME NEW S, NEW s \in Seq(S), NEW i \in 1 .. Len(s), NoDup(s)
  PROVE  /\ UnlinkAt(s, i) \in Seq(S)
         /\ Len(UnlinkAt(s, i)) = Len(s) - 1
         /\ \A j \in 1 .. Len(UnlinkAt(s, i)) :
              UnlinkAt(s, i)[j] = IF j < i THEN s[j] ELSE s[j + 1]
         /\ NoDup(UnlinkAt(s, i))
         /\ \A x : x \in Items(UnlinkAt(s, i)) <=> x \in Items(s) /\ x # s[i]
<1> DEFINE t == UnlinkAt(s, i)
           a == SubSeq(s, 1, i - 1)
           b == SubSeq(s, i + 1, Len(s))
<1>a. /\ a \in Seq(S) /\ Len(a) = i - 1 /\ \A j \in 1 .. (i - 1) : a[j] = s[j]
      /\ b \in Seq(S) /\ Len(b) = Len(s) - i /\ \A j \in 1 .. (Len(s) - i) : b[j] = s[j + i]
  <2>1. \A j \in 1 .. Len(s) : s[j] \in S
    BY SMTT(60)
  <2>2. Len(s) \in Nat
    BY SMTT(60)
  <2>3. /\ a \in Seq(S) /\ Len(a) = IF 1 <= i - 1 THEN (i - 1) - 1 + 1 ELSE 0
        /\ \A j \in 1 .. ((i - 1) - 1 + 1) : a[j] = s[1 + j - 1]
    BY SMTT(60), <2>1, <2>2
  <2>4. /\ b \in Seq(S) /\ Len(b) = IF i + 1 <= Len(s) THEN Len(s) - (i + 1) + 1 ELSE 0
        /\ \A j \in 1 .. (Len(s) - (i + 1) + 1) : b[j] = s[(i + 1) + j - 1]
    BY SMTT(60), <2>1, <2>2
  <2> HIDE DEF a, b
  <2>5. QED
    BY SMTT(60), <2>2, <2>3, <2>4
<1>b. t = a \o b
  BY ZenonT(60) DEF UnlinkAt
<1> HIDE DEF a, b, t
<1>1. /\ t \in Seq(S) /\ Len(t) = Len(s) - 1
      /\ \A j \in 1 .. Len(t) : t[j] = IF j < i THEN s[j] ELSE s[j + 1]
  <2>1. /\ t \in Seq(S) /\ Len(t) = Len(a) + Len(b)
        /\ \A j \in 1 .. Len(a) + Len(b) : t[j] = IF j <= Len(a) THEN a[j] ELSE b[j - Len(a)]
    <3>1. a \in Seq(S) /\ b \in Seq(S)
      BY ZenonT(60), <1>a
    <3>2. t \in Seq(S) /\ Len(t) = Len(a) + Len(b)
      BY SMTT(60), <1>b, <3>1
    <3>3. \A j \in 1 .. Len(a) + Len(b) : t[j] = IF j <= Len(a) THEN a[j] ELSE b[j - Len(a)]
      BY SMTT(60), <1>b, <3>1
    <3>4. QED
      BY ZenonT(60), <3>2, <3>3
  <2>2. Len(s) \in Nat
    BY SMTT(60)
  <2>3. Len(t) = Len(s) - 1 /\ i \in Int
    BY SMTT(60), <1>a, <2>1, <2>2
  <2>4. ASSUME NEW j \in 1 .. Len(t) PROVE t[j] = IF j < i THEN s[j] ELSE s[j + 1]
    <3>1. CASE j < i
      <4>1. j \in 1 .. (i - 1) /\ j <= Len(a) /\ j \in 1 .. Len(a) + Len(b)
        BY SMTT(60), <1>a, <2>2, <2>3, <3>1
      <4>2. QED
        BY ZenonT(60), <4>1, <2>1, <1>a, <3>1
    <3>2. CASE ~(j < i)
      <4>1. /\ j - Len(a) \in 1 .. (Len(s) - i) /\ ~(j <= Len(a)) /\ j \in 1 .. Len(a) + Len(b)
            /\ (j - Len(a)) + i = j + 1
        BY SMTT(60), <1>a, <2>2, <2>3, <3>2
      <4>2. QED
        BY ZenonT(60), <4>1, <2>1, <1>a, <3>2
    <3>3. QED
      BY ZenonT(60), <3>1, <3>2
  <2>5. QED
    BY ZenonT(60), <2>1, <2>3, <2>4
<1>2. NoDup(t)
  BY SMTT(60), <1>1 DEF NoDup
<1>3. ASSUME NEW x PROVE x \in Items(t) <=> x \in Items(s) /\ x # s[i]
  <2>1. DOMAIN t = 1 .. Len(t) /\ DOMAIN s = 1 .. Len(s)
    BY SMTT(60), <1>1
  <2>2. ASSUME NEW j \in 1 .. Len(s), s[j] = x, x # s[i] PROVE \E k \in 1 .. Len(t) : t[k] = x
    <3>1. CASE j < i
      BY SMTT(60), <1>1, <2>2, <3>1
    <3>2. CASE j > i
      <4>1. j - 1 \in 1 .. Len(t) /\ ~(j - 1 < i) /\ (j - 1) + 1 = j
        BY SMTT(60), <1>1, <3>2
      <4>2. QED
        BY ZenonT(60), <4>1, <1>1, <2>2
    <3>3. QED
      BY SMTT(60), <2>2, <3>1, <3>2
  <2>3. ASSUME NEW k \in 1 .. Len(t) PROVE t[k] # s[i] /\ \E j \in 1 .. Len(s) : s[j] = t[k]
    BY SMTT(60), <1>1 DEF NoDup
  <2>4. QED
    BY ZenonT(60), <2>1, <2>2, <2>3 DEF Items
<1>4. QED
  BY ZenonT(60), <1>1, <1>2, <1>3 DEF t

(* An item that is in the list once leaves from its place.                 *)
LEMMA UnlinkIsAt ==
  ASSUME NEW S, NEW s \in Seq(S), NoDup(s), NEW i \in 1 .. Len(s)
  PROVE  Unlink(s, s[i]) = UnlinkAt(s, i)
<1>1. DOMAIN s = 1 .. Len(s)
  BY SMTT(60)
<1>2. PICK k : k = CHOOSE j \in DOMAIN s : s[j] = s[i]
  BY ZenonT(60)
<1>3. k \in 1 .. Len(s) /\ s[k] = s[i]
  BY ZenonT(60), <1>1, <1>2
<1>4. k = i
  BY SMTT(60), <1>3 DEF NoDup
<1>5. s[i] \in Items(s)
  BY ZenonT(60), <1>1 DEF Items
<1>6. QED
  BY ZenonT(60), <1>2, <1>4, <1>5 DEF Unlink

(* lcb_clist_delete: one item leaves, the others stay.                     *)
LEMMA RemoveListed ==
  ASSUME NEW S, NEW s \in Seq(S), NEW x, NoDup(s)
  PROVE  /\ Unlink(s, x) \in Seq(S) /\ NoDup(Unlink(s, x))
         /\ x \notin Items(s) => Unlink(s, x) = s
         /\ x \in Items(s) => Len(Unlink(s, x)) = Len(s) - 1
         /\ Len(Unlink(s, x)) <= Len(s)
         /\ \A y : y \in Items(Unlink(s, x)) <=> y \in Items(s) /\ y # x
<1>0. Items(s) = {s[i] : i \in 1 .. Len(s)}
  BY SMTT(60) DEF Items
<1>1. CASE x \in Items(s)
  <2>1. PICK i \in 1 .. Len(s) : s[i] = x
    BY ZenonT(60), <1>0, <1>1
  <2>5. Unlink(s, x) = UnlinkAt(s, i)
    BY ZenonT(60), <2>1, UnlinkIsAt
  <2>6. QED
    BY SMTT(60), <2>1, <2>5, <1>1, RemoveOne
<1>2. CASE x \notin Items(s)
  <2>1. Unlink(s, x) = s
    BY SMTT(60), <1>2 DEF Unlink
  <2>2. QED
    BY SMTT(60), <2>1, <1>2
<1>3. QED
  BY ZenonT(60), <1>1, <1>2

(* lcb_clist_append of something that is not in the list.                  *)
LEMMA AppendListed ==
  ASSUME NEW S, NEW s \in Seq(S), NEW x \in S, NoDup(s), x \notin Items(s)
  PROVE  /\ Append(s, x) \in Seq(S) /\ NoDup(Append(s, x))
         /\ Len(Append(s, x)) = Len(s) + 1
         /\ \A y : y \in Items(Append(s, x)) <=> y \in Items(s) \/ y = x
<1> DEFINE t == Append(s, x)
<1>1. /\ t \in Seq(S) /\ Len(t) = Len(s) + 1
      /\ \A i \in 1 .. Len(s) : t[i] = s[i]
      /\ t[Len(s) + 1] = x
      /\ DOMAIN s = 1 .. Len(s) /\ DOMAIN t = 1 .. (Len(s) + 1) /\ Len(s) \in Nat
  BY SMTT(60)
<1> HIDE DEF t
<1>2. \A i \in 1 .. Len(s) : s[i] # x
  BY ZenonT(60), <1>1 DEF Items
<1>3. NoDup(t)
  BY SMTT(60), <1>1, <1>2 DEF NoDup
<1>4. \A y : y \in Items(t) <=> y \in Items(s) \/ y = x
  BY SMTT(60), <1>1 DEF Items
<1>5. QED
  BY ZenonT(60), <1>1, <1>3, <1>4 DEF t

(* lcb_clist_pop, once or several times: the last members leave the list.  *)
LEMMA PrefixListed ==
  ASSUME NEW S, NEW s \in Seq(S), NoDup(s), NEW k \in 0 .. Len(s)
  PROVE  /\ SubSeq(s, 1, k) \in Seq(S) /\ NoDup(SubSeq(s, 1, k)) /\ Len(SubSeq(s, 1, k)) = k
         /\ \A x : x \in Items(SubSeq(s, 1, k)) <=>
                     x \in Items(s) /\ x \notin {s[i] : i \in (k + 1) .. Len(s)}
<1> DEFINE t == SubSeq(s, 1, k)
<1>1. /\ t \in Seq(S) /\ Len(t) = k /\ \A i \in 1 .. k : t[i] = s[i]
      /\ DOMAIN s = 1 .. Len(s) /\ DOMAIN t = 1 .. k /\ Len(s) \in Nat
  <2>1. \A j \in 1 .. Len(s) : s[j] \in S
    BY SMTT(60)
  <2>2. Len(s) \in Nat /\ DOMAIN s = 1 .. Len(s)
    BY SMTT(60)
  <2>3. /\ t \in Seq(S) /\ Len(t) = IF 1 <= k THEN k - 1 + 1 ELSE 0
        /\ \A j \in 1 .. (k - 1 + 1) : t[j] = s[1 + j - 1]
    BY SMTT(60), <2>1, <2>2
  <2> HIDE DEF t
  <2>4. QED
    BY SMTT(60), <2>2, <2>3
<1> HIDE DEF t
<1>2. NoDup(t)
  BY SMTT(60), <1>1 DEF NoDup
<1>3. ASSUME NEW x PROVE x \in Items(t) <=> x \in Items(s) /\ x \notin {s[i] : i \in (k + 1) .. Len(s)}
  <2>1. ASSUME x \in Items(t) PROVE x \in Items(s) /\ x \notin {s[i] : i \in (k + 1) .. Len(s)}
    <3>1. PICK i \in 1 .. k : t[i] = x
      BY ZenonT(60), <1>1, <2>1 DEF Items
    <3>2. i \in 1 .. Len(s) /\ s[i] = x
      BY SMTT(60), <1>1, <3>1
    <3>3. \A j \in (k + 1) .. Len(s) : s[j] # x
      BY SMTT(60), <1>1, <3>1, <3>2 DEF NoDup
    <3>4. QED
      BY ZenonT(60), <1>1, <3>2, <3>3 DEF Items
  <2>2. ASSUME x \in Items(s), x \notin {s[i] : i \in (k + 1) .. Len(s)} PROVE x \in Items(t)
    <3>1. PICK i \in 1 .. Len(s) : s[i] = x
      BY ZenonT(60), <1>1, <2>2 DEF Items
    <3>2. i \notin (k + 1) .. Len(s)
      BY ZenonT(60), <2>2, <3>1
    <3>3. i \in 1 .. k
      BY SMTT(60), <1>1, <3>1, <3>2
    <3>4. QED
      BY ZenonT(60), <1>1, <3>1, <3>3 DEF Items
  <2>3. QED
    BY ZenonT(60), <2>1, <2>2
<1>4. QED
  BY ZenonT(60), <1>1, <1>2, <1>3 DEF t

(* lcb_clist_pop: the last member leaves the list.                         *)
LEMMA PopListed ==
  ASSUME NEW S, NEW s \in Seq(S), NoDup(s), s # <<>>
  PROVE  /\ SubSeq(s, 1, Len(s) - 1) \in Seq(S) /\ NoDup(SubSeq(s, 1, Len(s) - 1))
         /\ s[Len(s)] \in S /\ s[Len(s)] \in Items(s)
         /\ \A x : x \in Items(SubSeq(s, 1, Len(s) - 1)) <=> x \in Items(s) /\ x # s[Len(s)]
<1>1. PICK k \in 0 .. Len(s) : k = Len(s) - 1
  <2>1. Len(s) \in Nat \ {0}
    BY SMTT(60)
  <2>2. Len(s) - 1 \in 0 .. Len(s)
    BY SMTT(60), <2>1
  <2>3. QED
    BY ZenonT(60), <2>2
<1>2. /\ Len(s) \in Nat /\ DOMAIN s = 1 .. Len(s) /\ Len(s) \in 1 .. Len(s)
      /\ s[Len(s)] \in S /\ (k + 1) .. Len(s) = {Len(s)}
  BY SMTT(60), <1>1
<1>3. SubSeq(s, 1, Len(s) - 1) = SubSeq(s, 1, k) /\ s[Len(s)] = s[Len(s)]
  BY ZenonT(60), <1>1
<1>4. /\ SubSeq(s, 1, k) \in Seq(S) /\ NoDup(SubSeq(s, 1, k))
      /\ \A x : x \in Items(SubSeq(s, 1, k)) <=>
                  x \in Items(s) /\ x \notin {s[i] : i \in (k + 1) .. Len(s)}
  BY PrefixListed
<1>5. s[Len(s)] \in Items(s)
  BY ZenonT(60), <1>2, <1>3 DEF Items
<1>6. ASSUME NEW x PROVE x \notin {s[i] : i \in (k + 1) .. Len(s)} <=> x # s[Len(s)]
  BY ZenonT(60), <1>2, <1>3
<1>7. QED
  BY ZenonT(60), <1>2, <1>3, <1>4, <1>5, <1>6

(* lcb_clist_shift is lcb_clist_delete of the first member.                *)
LEMMA ShiftListed ==
  ASSUME NEW S, NEW s \in Seq(S), NoDup(s), s # <<>>
  PROVE  /\ Tail(s) = Unlink(s, Head(s)) /\ Head(s) \in S /\ Head(s) \in Items(s)
<1>1. /\ Len(s) \in Nat /\ Len(s) >= 1 /\ DOMAIN s = 1 .. Len(s) /\ 1 \in 1 .. Len(s)
      /\ Head(s) = s[1] /\ Head(s) \in S
      /\ Tail(s) \in Seq(S) /\ Len(Tail(s)) = Len(s) - 1
      /\ \A j \in 1 .. (Len(s) - 1) : Tail(s)[j] = s[j + 1]
  BY SMTT(60)
<1>2. Head(s) \in Items(s)
  BY ZenonT(60), <1>1 DEF Items
<1>3. Unlink(s, Head(s)) = UnlinkAt(s, 1)
  BY ZenonT(60), <1>1, UnlinkIsAt
<1>4. UnlinkAt(s, 1) = Tail(s)
  <2> DEFINE t == UnlinkAt(s, 1)
  <2>1. /\ t \in Seq(S) /\ Len(t) = Len(s) - 1
        /\ \A j \in 1 .. Len(t) : t[j] = IF j < 1 THEN s[j] ELSE s[j + 1]
    BY ZenonT(60), <1>1, RemoveOne
  <2> HIDE DEF t
  <2>2. \A j \in 1 .. Len(t) : t[j] = Tail(s)[j]
    BY SMTT(60), <1>1, <2>1
  <2>3. t = Tail(s)
    BY SMTT(60), <1>1, <2>1, <2>2
  <2>4. QED
    BY ZenonT(60), <2>3 DEF t
<1>5. QED
  BY ZenonT(60), <1>1, <1>2, <1>3, <1>4

(* Sets of connections are finite; how their number changes.               *)
LEMMA ConnCard ==
  ASSUME NEW A \in SUBSET Conns
  PROVE  /\ IsFiniteSet(A) /\ Cardinality(A) \in Nat
         /\ \A c \in Conns : c \notin A => Cardinality(A \cup {c}) = Cardinality(A) + 1
         /\ \A c \in A : Cardinality(A \ {c}) = Cardinality(A) - 1
         /\ \A B \in SUBSET A : Cardinality(A \ B) = Cardinality(A) - Cardinality(B)
         /\ \A B \in SUBSET A : Cardinality(B) <= Cardinality(A)
         /\ Cardinality(A) = 0 <=> A = {}
<1>1. IsFiniteSet(Conns)
  <2>1. 1 \in Int /\ NReq \in Int
    BY SMTT(60), PoolAssumption
  <2>2. QED
    BY ZenonT(60), <2>1, FS_Interval DEF Conns
<1>2. IsFiniteSet(A) /\ Cardinality(A) \in Nat
  BY ZenonT(60), <1>1, FS_Subset, FS_CardinalityType
<1>3. \A c \in Conns : c \notin A => Cardinality(A \cup {c}) = Cardinality(A) + 1
  BY ZenonT(60), <1>2, FS_AddElement
<1>4. \A c \in A : Cardinality(A \ {c}) = Cardinality(A) - 1
  BY ZenonT(60), <1>2, FS_RemoveElement
<1>5. ASSUME NEW B \in SUBSET A PROVE Cardinality(A \ B) = Cardinality(A) - Cardinality(B)
  <2>1. A \cap B = B
    BY ZenonT(60)
  <2>2. Cardinality(A \ B) = Cardinality(A) - Cardinality(A \cap B)
    BY ZenonT(60), <1>2, FS_Difference
  <2>3. QED
    BY ZenonT(60), <2>1, <2>2
<1>6. Cardinality(A) = 0 <=> A = {}
  BY ZenonT(60), <1>2, FS_EmptySet
<1>7. \A B \in SUBSET A : Cardinality(B) <= Cardinality(A)
  BY ZenonT(60), <1>2, FS_Subset
<1>8. QED
  BY ZenonT(60), <1>2, <1>3, <1>4, <1>5, <1>6, <1>7

(* The smallest cardinalities.                                             *)
LEMMA Sizes == Cardinality({}) = 0 /\ \A x : Cardinality({x}) = 1
  BY ZenonT(60), FS_EmptySet, FS_Singleton

(* The members of a list.                                                  *)
LEMMA Members ==
  ASSUME NEW S, NEW s \in Seq(S)
  PROVE  Items(s) \in SUBSET S
  BY SMTT(60) DEF Items
-----------------------------------------------------------------------------
(* The fields of an attempt.                                               *)
Is(t, n, st, ai, tried, watched, flight, ref, result) ==
  /\ t \in AttemptType
  /\ t.n = n /\ t.st = st /\ t.ai = ai /\ t.tried = tried
  /\ t.watched = watched /\ t.flight = flight /\ t.ref = ref /\ t.result = result

(* An attempt about to try the address ai, those before it having failed.  *)
Advancing(s, e) ==
  /\ Is(s, s.n, "CS_PENDING", s.ai, 1 .. (s.ai - 1), s.watched, FALSE, 1, "none")
  /\ s.ai \in 1 .. (s.n + 1)
  /\ s.watched => e.io = "E"

(* The number of addresses is within the bound.                            *)
LEMMA AddressBounds ==
  ASSUME NEW s \in AttemptType
  PROVE  /\ s.n \in Nat /\ s.ai \in Nat /\ s.n + 1 \in 1 .. (MaxAddr + 1)
         /\ 1 .. s.n \in SUBSET (1 .. MaxAddr)
         /\ \A b \in 1 .. s.n : b \in 1 .. (MaxAddr + 1) /\ 1 .. b \in SUBSET (1 .. MaxAddr)
<1>1. s.n \in 1 .. MaxAddr /\ s.ai \in 1 .. (MaxAddr + 1)
  BY ZenonT(60) DEF AttemptType
<1>2. QED
  BY SMTT(60), <1>1, ConnectAssumption

(* The same for an attempt whose fields are known.                         *)
LEMMA IsTrying ==
  ASSUME NEW t, NEW e, NEW n, NEW ai, NEW tried, NEW watched, NEW flight, NEW ref,
         watched => e.io = "E"
  PROVE  /\ \A result : Is(t, n, "CS_CONNECTED", ai, tried, watched, FALSE, 1, result)
                          /\ result # "CONNECT_ERROR" => Trying(t, e)
         /\ \A result : /\ Is(t, n, "CS_ERROR", ai, tried, watched, FALSE, 1, result)
                        /\ result = "CONNECT_ERROR" /\ ~e.error_events => tried = 1 .. n
                        => Trying(t, e)
         /\ /\ Is(t, n, "CS_PENDING", ai, tried, watched, flight, ref, "none")
            /\ ai \in 1 .. n /\ tried = 1 .. ai
            /\ ref = IF flight THEN 2 ELSE 1
            /\ flight => e.io = "C"
            => Trying(t, e)
  BY SMTT(60) DEF Is, Trying, Waiting

(* GT_NEXTSOCK from the next address on leaves a valid attempt.            *)
LEMMA NextSock ==
  ASSUME NEW e, NEW s, Advancing(s, e)
  PROVE  /\ e.io = "E" => \A t \in NextSockE(s) : Trying(t, e)
         /\ e.io = "C" => \A t \in NextSockC(s) : Trying(t, e)
<1>0. /\ s \in AttemptType /\ s.st = "CS_PENDING" /\ s.result = "none"
      /\ s.ref = 1 /\ s.flight = FALSE /\ s.tried = 1 .. (s.ai - 1)
      /\ s.ai \in 1 .. (s.n + 1) /\ (s.watched => e.io = "E")
      /\ s.n \in Nat /\ s.ai \in Nat
  BY ZenonT(60), AddressBounds DEF Advancing, Is
<1>1. \A t \in Exhausted(s) : Trying(t, e)
  <2> SUFFICES ASSUME NEW sd \in BOOLEAN
               PROVE  Trying(Signal([s EXCEPT !.ai = s.n + 1, !.sd = sd,
                                              !.tried = @ \cup (s.ai .. s.n)],
                                    "CS_ERROR", "CONNECT_ERROR"), e)
    <3>1. s.sd \in BOOLEAN
      BY ZenonT(60), <1>0 DEF AttemptType
    <3>2. QED
      BY ZenonT(60), <3>1 DEF Exhausted
  <2>1. s.tried \cup (s.ai .. s.n) = 1 .. s.n
    BY SMTT(60), <1>0
  <2> DEFINE t == Signal([s EXCEPT !.ai = s.n + 1, !.sd = sd, !.tried = 1 .. s.n],
                         "CS_ERROR", "CONNECT_ERROR")
  <2>2. Is(t, s.n, "CS_ERROR", s.n + 1, 1 .. s.n, s.watched, FALSE, 1, "CONNECT_ERROR")
    BY ZenonT(60), <1>0, AddressBounds DEF Is, Signal, AttemptType
  <2>3. t = Signal([s EXCEPT !.ai = s.n + 1, !.sd = sd, !.tried = @ \cup (s.ai .. s.n)],
                   "CS_ERROR", "CONNECT_ERROR")
    BY ZenonT(60), <2>1
  <2> HIDE DEF t
  <2>4. Trying(t, e)
    BY ZenonT(60), <2>2, <1>0, IsTrying
  <2>5. QED
    BY ZenonT(60), <2>3, <2>4
<1>2. ASSUME NEW b \in s.ai .. s.n
      PROVE  /\ Is(AtAddress(s, b), s.n, "CS_PENDING", b, 1 .. b, s.watched, FALSE, 1, "none")
             /\ b \in 1 .. s.n
  <2>1. s.tried \cup (s.ai .. b) = 1 .. b /\ b \in 1 .. s.n
    BY SMTT(60), <1>0
  <2>2. AtAddress(s, b) = [s EXCEPT !.ai = b, !.sd = TRUE, !.tried = 1 .. b]
    BY ZenonT(60), <2>1 DEF AtAddress
  <2>3. Is([s EXCEPT !.ai = b, !.sd = TRUE, !.tried = 1 .. b],
           s.n, "CS_PENDING", b, 1 .. b, s.watched, FALSE, 1, "none")
    BY ZenonT(60), <1>0, <2>1, AddressBounds DEF Is, AttemptType
  <2>4. QED
    BY ZenonT(60), <2>1, <2>2, <2>3
<1>3. ASSUME NEW b \in s.ai .. s.n
      PROVE  /\ Trying(Signal(AtAddress(s, b), "CS_CONNECTED", "SUCCESS"), e)
             /\ e.io = "E" => Trying([AtAddress(s, b) EXCEPT !.watched = TRUE], e)
             /\ e.io = "C" => Trying([AtAddress(s, b) EXCEPT !.flight = TRUE, !.ref = @ + 1], e)
             /\ Trying(AtAddress(s, b), e)
  <2>1. PICK a : a = AtAddress(s, b)
    BY ZenonT(60)
  <2>2. /\ Is(a, s.n, "CS_PENDING", b, 1 .. b, s.watched, FALSE, 1, "none") /\ b \in 1 .. s.n
        /\ a \in AttemptType /\ a.ref = 1
    BY ZenonT(60), <1>2, <2>1 DEF Is
  <2>3. Is(Signal(a, "CS_CONNECTED", "SUCCESS"),
           s.n, "CS_CONNECTED", b, 1 .. b, s.watched, FALSE, 1, "SUCCESS")
    BY ZenonT(60), <2>2 DEF Is, Signal, AttemptType
  <2>4. Is([a EXCEPT !.watched = TRUE], s.n, "CS_PENDING", b, 1 .. b, TRUE, FALSE, 1, "none")
    BY ZenonT(60), <2>2 DEF Is, AttemptType
  <2>5. Is([a EXCEPT !.flight = TRUE, !.ref = 2],
           s.n, "CS_PENDING", b, 1 .. b, s.watched, TRUE, 2, "none")
    <3>1. 2 \in 0 .. 3
      BY SMTT(60)
    <3>2. QED
      BY ZenonT(60), <2>2, <3>1 DEF Is, AttemptType
  <2>6. [a EXCEPT !.flight = TRUE, !.ref = @ + 1] = [a EXCEPT !.flight = TRUE, !.ref = 2]
    <3>1. a.ref + 1 = 2
      BY SMTT(60), <2>2
    <3>2. QED
      BY ZenonT(60), <3>1
  <2>7. "SUCCESS" # "CONNECT_ERROR"
    OBVIOUS
  <2>8. /\ Trying(Signal(a, "CS_CONNECTED", "SUCCESS"), e) /\ Trying(a, e)
        /\ e.io = "E" => Trying([a EXCEPT !.watched = TRUE], e)
    BY ZenonT(60), <1>0, <2>2, <2>3, <2>4, <2>7, IsTrying
  <2>9. e.io = "C" => Trying([a EXCEPT !.flight = TRUE, !.ref = 2], e)
    BY ZenonT(60), <1>0, <2>2, <2>5, IsTrying
  <2>10. QED
    BY ZenonT(60), <2>1, <2>6, <2>8, <2>9
<1>4. QED
  BY ZenonT(60), <1>1, <1>3 DEF NextSockE, NextSockC

(* Connstart::Connstart gives a valid attempt.                             *)
LEMMA ConnstartTrying ==
  ASSUME NEW e \in Envs, NEW t \in Connstart(e.io, e.naddr)
  PROVE  Trying(t, e)
<1> DEFINE n == e.naddr
           s == [NoAttempt EXCEPT !.st = "CS_PENDING", !.n = e.naddr, !.ref = 1]
           u == Signal([s EXCEPT !.ai = s.n + 1], "CS_ERROR", "UNKNOWN_HOST")
<1>1. n \in 1 .. MaxAddr /\ e.io \in {"E", "C"}
  BY ZenonT(60), PoolAssumption
<1>2. /\ n + 1 \in 1 .. (MaxAddr + 1) /\ 1 \in 1 .. (MaxAddr + 1) /\ 1 \in 0 .. 3
      /\ {} = 1 .. (1 - 1) /\ 1 \in 1 .. (n + 1) /\ {} \in SUBSET (1 .. MaxAddr)
  BY SMTT(60), <1>1, ConnectAssumption
<1> HIDE DEF n
<1>3. /\ NoAttempt \in AttemptType /\ NoAttempt.ai = 1 /\ NoAttempt.tried = {}
      /\ NoAttempt.watched = FALSE /\ NoAttempt.flight = FALSE /\ NoAttempt.result = "none"
  <2>1. 1 \in 1 .. MaxAddr /\ 0 \in 0 .. 3
    BY SMTT(60), ConnectAssumption
  <2>2. QED
    BY ZenonT(60), <1>2, <2>1 DEF NoAttempt, AttemptType
<1>4. /\ s \in AttemptType /\ s.n = n /\ s.ai = 1
      /\ Is(s, n, "CS_PENDING", 1, {}, FALSE, FALSE, 1, "none")
  BY ZenonT(60), <1>1, <1>2, <1>3 DEF Is, AttemptType, n
<1> HIDE DEF s
<1>5. Advancing(s, e)
  BY ZenonT(60), <1>2, <1>4 DEF Advancing, Is
<1>6. Is(u, n, "CS_ERROR", n + 1, {}, FALSE, FALSE, 1, "UNKNOWN_HOST")
  BY ZenonT(60), <1>2, <1>4 DEF Is, Signal, AttemptType
<1>7. t = u \/ t \in (IF e.io = "E" THEN NextSockE(s) ELSE NextSockC(s))
  BY ZenonT(60) DEF Connstart, s
<1> HIDE DEF u
<1>8. "UNKNOWN_HOST" # "CONNECT_ERROR"
  OBVIOUS
<1>9. Trying(u, e)
  BY ZenonT(60), <1>6, <1>8, IsTrying
<1>10. QED
  BY ZenonT(60), <1>1, <1>5, <1>7, <1>9, NextSock

(* clear_sock moves on to the next address.                                *)
LEMMA ClearSockAdvances ==
  ASSUME NEW e, NEW s,
         Is(s, s.n, "CS_PENDING", s.ai, 1 .. s.ai, s.watched, FALSE, 1, "none"),
         s.ai \in 1 .. s.n, s.watched => e.io = "E"
  PROVE  Advancing(ClearSock(s), e)
<1>1. s \in AttemptType /\ s.n \in Nat /\ s.ai \in Nat /\ s.n + 1 \in 1 .. (MaxAddr + 1)
  BY ZenonT(60), AddressBounds DEF Is
<1>2. CASE s.ai >= s.n
  <2>1. s.ai = s.n /\ (s.n + 1) - 1 = s.n /\ s.n + 1 \in 1 .. (s.n + 1)
    BY SMTT(60), <1>1, <1>2
  <2> DEFINE u == [s EXCEPT !.ai = s.n + 1]
  <2>2. /\ Is(u, s.n, "CS_PENDING", s.n + 1, 1 .. s.n, s.watched, FALSE, 1, "none")
    BY ZenonT(60), <1>1, <2>1 DEF Is, AttemptType
  <2>3. ClearSock(s) = u
    BY ZenonT(60), <1>2 DEF ClearSock
  <2> HIDE DEF u
  <2>4. Advancing(u, e)
    BY ZenonT(60), <2>1, <2>2 DEF Advancing, Is
  <2>5. QED
    BY ZenonT(60), <2>3, <2>4
<1>3. CASE ~(s.ai >= s.n)
  <2>1. (s.ai + 1) - 1 = s.ai /\ s.ai + 1 \in 1 .. (s.n + 1) /\ s.ai + 1 \in 1 .. (MaxAddr + 1)
    BY SMTT(60), <1>1, <1>3, ConnectAssumption
  <2> DEFINE u == [s EXCEPT !.ai = @ + 1, !.sd = FALSE, !.watched = FALSE]
  <2>2. Is(u, s.n, "CS_PENDING", s.ai + 1, 1 .. s.ai, FALSE, FALSE, 1, "none")
    BY ZenonT(60), <1>1, <2>1 DEF Is, AttemptType
  <2>3. ClearSock(s) = u
    BY ZenonT(60), <1>3 DEF ClearSock
  <2> HIDE DEF u
  <2>4. Advancing(u, e)
    BY ZenonT(60), <2>1, <2>2 DEF Advancing, Is
  <2>5. QED
    BY ZenonT(60), <2>3, <2>4
<1>4. QED
  BY ZenonT(60), <1>2, <1>3

(* An event leaves a valid attempt.                                        *)
LEMMA EventTrying ==
  ASSUME NEW e \in Envs, NEW s, Trying(s, e), s.st = "CS_PENDING", s.watched
  PROVE  /\ \A t \in WriteEvent(s) : Trying(t, e)
         /\ e.error_events => \A t \in ErrorEvent(s) : Trying(t, e)
<1>1. /\ e.io = "E" /\ s.flight = FALSE /\ s.ref = 1 /\ s.ai \in 1 .. s.n
      /\ s \in AttemptType /\ s.tried = 1 .. s.ai /\ s.result = "none" /\ s.watched = TRUE
  <2>1. s.flight \in BOOLEAN /\ s.watched \in BOOLEAN
    BY ZenonT(60) DEF Trying, AttemptType
  <2>2. "E" # "C"
    OBVIOUS
  <2>3. QED
    BY ZenonT(60), <2>1, <2>2 DEF Trying
<1>2. Is(s, s.n, "CS_PENDING", s.ai, 1 .. s.ai, s.watched, FALSE, 1, "none")
  BY ZenonT(60), <1>1 DEF Is
<1>3. Advancing(ClearSock(s), e)
  BY ZenonT(60), <1>1, <1>2, ClearSockAdvances
<1>4. \A t \in NextSockE(ClearSock(s)) : Trying(t, e)
  BY ZenonT(60), <1>1, <1>3, NextSock
<1>5. Trying(Signal([s EXCEPT !.watched = FALSE], "CS_CONNECTED", "SUCCESS"), e)
  <2> DEFINE u == Signal([s EXCEPT !.watched = FALSE], "CS_CONNECTED", "SUCCESS")
  <2>1. Is(u, s.n, "CS_CONNECTED", s.ai, 1 .. s.ai, FALSE, FALSE, 1, "SUCCESS")
    BY ZenonT(60), <1>1 DEF Is, Signal, AttemptType
  <2>2. "SUCCESS" # "CONNECT_ERROR"
    OBVIOUS
  <2> HIDE DEF u
  <2>3. Trying(u, e)
    BY ZenonT(60), <2>1, <2>2, IsTrying
  <2>4. QED
    BY ZenonT(60), <2>3 DEF u
<1>6. \A t \in WriteEvent(s) : Trying(t, e)
  BY ZenonT(60), <1>4, <1>5 DEF WriteEvent
<1>7. ASSUME e.error_events, NEW sd \in BOOLEAN
      PROVE  Trying(Signal([ClearSock(s) EXCEPT !.ai = s.n + 1, !.sd = sd],
                           "CS_ERROR", "CONNECT_ERROR"), e)
  <2>1. PICK u : u = ClearSock(s)
    BY ZenonT(60)
  <2>2. /\ Is(u, u.n, "CS_PENDING", u.ai, 1 .. (u.ai - 1), u.watched, FALSE, 1, "none")
        /\ u \in AttemptType /\ (u.watched => e.io = "E")
    BY ZenonT(60), <1>3, <2>1 DEF Advancing, Is
  <2>3. s.n + 1 \in 1 .. (MaxAddr + 1)
    BY ZenonT(60), <1>1, AddressBounds
  <2> DEFINE v == Signal([u EXCEPT !.ai = s.n + 1, !.sd = sd], "CS_ERROR", "CONNECT_ERROR")
  <2>4. Is(v, u.n, "CS_ERROR", s.n + 1, 1 .. (u.ai - 1), u.watched, FALSE, 1, "CONNECT_ERROR")
    BY ZenonT(60), <2>2, <2>3 DEF Is, Signal, AttemptType
  <2> HIDE DEF v
  <2>5. Trying(v, e)
    BY ZenonT(60), <1>7, <2>2, <2>4, IsTrying
  <2>6. QED
    BY ZenonT(60), <2>1, <2>5 DEF v
<1>8. e.error_events => \A t \in ErrorEvent(s) : Trying(t, e)
  <2>1. s.sd \in BOOLEAN
    BY ZenonT(60), <1>1 DEF AttemptType
  <2>2. QED
    BY ZenonT(60), <1>7, <2>1 DEF ErrorEvent
<1>9. QED
  BY ZenonT(60), <1>6, <1>8

(* C_conncb after a failure: a valid attempt, or the end of a socket that  *)
(* only the connect() in flight kept.                                      *)
LEMMA ConncbFailedTrying ==
  ASSUME NEW e, NEW s
  PROVE  /\ Trying(s, e) /\ s.flight => \A t \in ConncbFailed(s) : Trying(t, e)
         /\ s \in AttemptType /\ s.ref = 1 =>
              \A t \in ConncbFailed(s) :
                t \in AttemptType /\ t.st = s.st /\ t.ref = 0 /\ t.flight = FALSE
                  /\ t.n = s.n /\ t.result = s.result /\ t.tried = s.tried
<1> DEFINE t == [Unref(s) EXCEPT !.flight = FALSE]
<1>1. ASSUME Trying(s, e), s.flight PROVE \A u \in ConncbFailed(s) : Trying(u, e)
  <2>1. /\ e.io = "C" /\ s.flight = TRUE /\ s.ref = 2 /\ s.st = "CS_PENDING"
        /\ s.ai \in 1 .. s.n /\ s \in AttemptType /\ s.tried = 1 .. s.ai
        /\ s.result = "none" /\ s.watched = FALSE
    <3>1. s.flight \in BOOLEAN /\ s.watched \in BOOLEAN
      BY ZenonT(60), <1>1 DEF Trying, AttemptType
    <3>2. "E" # "C"
      OBVIOUS
    <3>3. QED
      BY ZenonT(60), <1>1, <3>1, <3>2 DEF Trying
  <2>2. s.ref - 1 = 1 /\ s.ref > 1 /\ 1 \in 0 .. 3 /\ 1 # 0
    BY SMTT(60), <2>1
  <2>3. /\ Is(t, s.n, "CS_PENDING", s.ai, 1 .. s.ai, FALSE, FALSE, 1, "none")
        /\ t.n = s.n /\ t.ai = s.ai /\ t.watched = FALSE /\ t.ref = 1
    BY ZenonT(60), <2>1, <2>2 DEF Is, Unref, AttemptType
  <2>4. ConncbFailed(s) = NextSockC(ClearSock(t))
    BY ZenonT(60), <2>2, <2>3 DEF ConncbFailed
  <2> HIDE DEF t
  <2>5. Advancing(ClearSock(t), e)
    BY ZenonT(60), <2>1, <2>3, ClearSockAdvances
  <2>6. QED
    BY ZenonT(60), <2>1, <2>4, <2>5, NextSock
<1>2. ASSUME s \in AttemptType, s.ref = 1
      PROVE  \A u \in ConncbFailed(s) :
               u \in AttemptType /\ u.st = s.st /\ u.ref = 0 /\ u.flight = FALSE
                 /\ u.n = s.n /\ u.result = s.result /\ u.tried = s.tried
  <2>1. s.ref - 1 = 0 /\ 0 \in 0 .. 3 /\ (s.sd /\ s.ref > 1) \in BOOLEAN
    BY SMTT(60), <1>2
  <2>2. /\ t \in AttemptType /\ t.st = s.st /\ t.ref = 0 /\ t.flight = FALSE
        /\ t.n = s.n /\ t.result = s.result /\ t.tried = s.tried
    BY ZenonT(60), <1>2, <2>1 DEF Unref, AttemptType
  <2>3. ConncbFailed(s) = {t}
    BY ZenonT(60), <2>2 DEF ConncbFailed
  <2> HIDE DEF t
  <2>4. QED
    BY ZenonT(60), <2>2, <2>3
<1>3. QED
  BY ZenonT(60), <1>1, <1>2

(* Connstart::handler enters the user's handler: an attempt that succeeded *)
(* has no connect() in flight.                                             *)
Entered(t, e) ==
  /\ t \in AttemptType /\ t.st = "handler"
  /\ t.ref = IF t.flight THEN 2 ELSE 1
  /\ t.result = "SUCCESS" => ~t.flight
  /\ t.result = "CONNECT_ERROR" /\ ~e.error_events => t.tried = 1 .. t.n

(* Where an attempt is when its handler is entered.                        *)
LEMMA HandlerBeginEntered ==
  ASSUME NEW e, NEW s, Trying(s, e)
  PROVE  /\ Entered(HandlerBegin(s), e)
         /\ s.flight => Entered(HandlerBegin(ConncbConnected(s)), e)
<1>1. ASSUME NEW u, Trying(u, e) PROVE Entered(HandlerBegin(u), e)
  <2> DEFINE t == HandlerBegin(u)
  <2>0. u \in AttemptType
    BY ZenonT(60), <1>1 DEF Trying
  <2>1. CASE u.st = "CS_PENDING"
    <3>1. /\ t \in AttemptType /\ t.st = "handler" /\ t.ref = u.ref /\ t.flight = u.flight
          /\ t.result = "TIMEOUT"
      BY ZenonT(60), <2>0, <2>1 DEF HandlerBegin, Signal, AttemptType
    <3> HIDE DEF t
    <3>2. "TIMEOUT" # "SUCCESS" /\ "TIMEOUT" # "CONNECT_ERROR"
      OBVIOUS
    <3>3. QED
      BY ZenonT(60), <1>1, <3>1, <3>2 DEF Entered, Trying, t
  <2>2. CASE u.st # "CS_PENDING"
    <3>1. /\ t \in AttemptType /\ t.st = "handler" /\ t.ref = u.ref /\ t.flight = u.flight
          /\ t.result = u.result /\ t.tried = u.tried /\ t.n = u.n
      BY ZenonT(60), <2>0, <2>2 DEF HandlerBegin, Signal, AttemptType
    <3> HIDE DEF t
    <3>2. Entered(t, e)
      BY ZenonT(60), <1>1, <2>2, <3>1 DEF Entered, Trying
    <3>3. QED
      BY ZenonT(60), <3>2 DEF t
  <2>3. QED
    BY ZenonT(60), <2>1, <2>2
<1>2. ASSUME s.flight PROVE Trying(ConncbConnected(s), e)
  <2>1. /\ s.flight = TRUE /\ s.ref = 2 /\ s.st = "CS_PENDING" /\ s \in AttemptType
        /\ s.watched => e.io = "E"
    BY ZenonT(60), <1>2 DEF Trying, AttemptType
  <2>2. s.ref - 1 = 1 /\ s.ref > 1 /\ 1 \in 0 .. 3
    BY SMTT(60), <2>1
  <2> DEFINE t == ConncbConnected(s)
  <2>3. Is(t, s.n, "CS_CONNECTED", s.ai, s.tried, s.watched, FALSE, 1, "SUCCESS")
    BY ZenonT(60), <2>1, <2>2 DEF Is, ConncbConnected, Signal, Unref, AttemptType
  <2> HIDE DEF t
  <2>4. "SUCCESS" # "CONNECT_ERROR"
    OBVIOUS
  <2>5. Trying(t, e)
    BY ZenonT(60), <2>1, <2>3, <2>4, IsTrying
  <2>6. QED
    BY ZenonT(60), <2>5 DEF t
<1>3. QED
  BY ZenonT(60), <1>1, <1>2

(* ~Connstart leaves the references that others have.                      *)
LEMMA DeletedIs ==
  ASSUME NEW s \in AttemptType, s.ref >= 1, NEW st \in {"gone", "CS_CANCELLED"}
  PROVE  /\ Deleted(s, st) \in AttemptType /\ Deleted(s, st).st = st
         /\ Deleted(s, st).ref = s.ref - 1 /\ Deleted(s, st).flight = s.flight
         /\ Deleted(s, st).result = "none"
<1>1. /\ s.ref - 1 \in 0 .. 3 /\ (s.sd /\ s.ref > 1) \in BOOLEAN /\ s.flight \in BOOLEAN
      /\ 1 \in 1 .. MaxAddr /\ 1 \in 1 .. (MaxAddr + 1) /\ {} \in SUBSET (1 .. MaxAddr)
      /\ 0 \in 0 .. 3
  <2>1. s.ref \in 0 .. 3 /\ s.flight \in BOOLEAN
    BY ZenonT(60) DEF AttemptType
  <2>2. QED
    BY SMTT(60), <2>1, ConnectAssumption
<1>2. NoAttempt \in AttemptType /\ NoAttempt.result = "none"
  BY ZenonT(60), <1>1 DEF NoAttempt, AttemptType
<1>3. QED
  BY ZenonT(60), <1>1, <1>2 DEF Deleted, AttemptType

(* lcbio_unref drops one reference and nothing else.                       *)
LEMMA UnrefIs ==
  ASSUME NEW s \in AttemptType, s.ref >= 1
  PROVE  /\ Unref(s) \in AttemptType /\ Unref(s).ref = s.ref - 1
         /\ Unref(s).st = s.st /\ Unref(s).flight = s.flight /\ Unref(s).n = s.n
         /\ Unref(s).result = s.result /\ Unref(s).tried = s.tried
<1>1. s.ref - 1 \in 0 .. 3 /\ (s.sd /\ s.ref > 1) \in BOOLEAN
  <2>1. s.ref \in 0 .. 3 /\ s.sd \in BOOLEAN
    BY ZenonT(60) DEF AttemptType
  <2>2. QED
    BY SMTT(60), <2>1
<1>2. QED
  BY ZenonT(60), <1>1 DEF Unref, AttemptType

(* Connstart::cancel leaves what a connect() in flight still has, or fails *)
(* its assertion when the result of a completion-mode attempt is due.      *)
LEMMA CancelIs ==
  ASSUME NEW e \in Envs, NEW s, Trying(s, e)
  PROVE  LET t == CancelAttempt(s, e.io) IN
         /\ t \in AttemptType
         /\ \/ /\ t.st = "CS_CANCELLED" /\ t.result = "none"
               /\ t.ref = IF t.flight THEN 1 ELSE 0
            \/ /\ t.st = "abort" /\ e.io = "C" /\ ~s.flight /\ ~t.flight
               /\ t.result = s.result /\ t.tried = s.tried /\ t.n = s.n
<1> DEFINE t == CancelAttempt(s, e.io)
<1>0. s \in AttemptType /\ s.ref = (IF s.flight THEN 2 ELSE 1) /\ s.flight \in BOOLEAN
  BY ZenonT(60) DEF Trying, AttemptType
<1>a. "CS_CANCELLED" \in {"gone", "CS_CANCELLED"}
  BY ZenonT(60)
<1>1. CASE ~(e.io = "C" /\ s.sd)
  <2>1. t = Deleted(s, "CS_CANCELLED")
    BY ZenonT(60), <1>1 DEF CancelAttempt
  <2>2. s.ref >= 1
    BY SMTT(60), <1>0
  <2>a. /\ Deleted(s, "CS_CANCELLED") \in AttemptType
        /\ Deleted(s, "CS_CANCELLED").st = "CS_CANCELLED"
        /\ Deleted(s, "CS_CANCELLED").ref = s.ref - 1
        /\ Deleted(s, "CS_CANCELLED").flight = s.flight
        /\ Deleted(s, "CS_CANCELLED").result = "none"
    BY SMTT(60), <1>0, <1>a, <2>2, DeletedIs
  <2>3. /\ t \in AttemptType /\ t.st = "CS_CANCELLED" /\ t.ref = s.ref - 1
        /\ t.flight = s.flight /\ t.result = "none"
    BY ZenonT(60), <1>0, <1>a, <2>1, <2>a
  <2> HIDE DEF t
  <2>4. t.ref = IF t.flight THEN 1 ELSE 0
    BY SMTT(60), <1>0, <2>3
  <2>5. QED
    BY ZenonT(60), <2>3, <2>4 DEF t
<1>2. CASE e.io = "C" /\ s.sd /\ s.ref > 1
  <2> DEFINE u == [Unref(s) EXCEPT !.flight = FALSE]
  <2>1. s.ref = 2 /\ s.ref >= 1 /\ s.ref - 1 = 1 /\ 1 >= 1 /\ 1 - 1 = 0
    BY SMTT(60), <1>0, <1>2
  <2>2. Unref(s) \in AttemptType /\ Unref(s).ref = 1
    BY ZenonT(60), <1>0, <2>1, UnrefIs
  <2>3. u \in AttemptType /\ u.ref = 1 /\ u.flight = FALSE
    BY ZenonT(60), <2>2 DEF AttemptType
  <2>4. t = Deleted(u, "CS_CANCELLED")
    BY ZenonT(60), <1>2 DEF CancelAttempt
  <2> HIDE DEF u, t
  <2>a. /\ Deleted(u, "CS_CANCELLED") \in AttemptType
        /\ Deleted(u, "CS_CANCELLED").st = "CS_CANCELLED"
        /\ Deleted(u, "CS_CANCELLED").ref = u.ref - 1
        /\ Deleted(u, "CS_CANCELLED").flight = u.flight
        /\ Deleted(u, "CS_CANCELLED").result = "none"
    BY SMTT(60), <1>a, <2>1, <2>3, DeletedIs
  <2>5. /\ t \in AttemptType /\ t.st = "CS_CANCELLED" /\ t.ref = 0
        /\ t.flight = FALSE /\ t.result = "none"
    BY ZenonT(60), <1>a, <2>1, <2>3, <2>4, <2>a
  <2>6. QED
    BY ZenonT(60), <2>5 DEF t
<1>3. CASE e.io = "C" /\ s.sd /\ ~(s.ref > 1)
  <2>1. ~s.flight
    BY SMTT(60), <1>0, <1>3
  <2>2. t = [s EXCEPT !.st = "abort"]
    BY ZenonT(60), <1>3 DEF CancelAttempt
  <2>3. /\ t \in AttemptType /\ t.st = "abort" /\ t.flight = s.flight
        /\ t.result = s.result /\ t.tried = s.tried /\ t.n = s.n
    BY ZenonT(60), <1>0, <2>2 DEF AttemptType
  <2> HIDE DEF t
  <2>4. QED
    BY ZenonT(60), <1>3, <2>1, <2>3 DEF t
<1>4. QED
  BY ZenonT(60), <1>1, <1>2, <1>3

(* A connection that a step does not concern.                              *)
Untouched(c) ==
  /\ cs'[c] = cs[c] /\ info'[c] = info[c]
  /\ c \in Items(ll_idle') <=> c \in Items(ll_idle)
  /\ c \in idle_timer' <=> c \in idle_timer
  /\ c \in ll_pending' <=> c \in ll_pending
  /\ Taken(c)' <=> Taken(c)
  /\ InLoop(c)' <=> InLoop(c)
  /\ InLoop(c) => (Failing' <=> Failing)
  /\ req[c].state # "none" => req'[c].state # "none"

(* What the invariant says of a connection holds if a step does not        *)
(* concern it.                                                             *)
LEMMA UntouchedHolds ==
  ASSUME NEW c \in Conns, Placed(c), Counted(c), Untouched(c), env' = env
  PROVE  Placed(c)' /\ Counted(c)'
<1>1. Placed(c)'
  BY ZenonT(60) DEF Placed, Untouched
<1>2. Counted(c)'
  BY ZenonT(60) DEF Counted, Untouched, Trying
<1>3. QED
  BY ZenonT(60), <1>1, <1>2

(* The counters have the types they should have.                           *)
LEMMA AgreeTypes ==
  ASSUME NEW f, NEW n, NEW h, NEW p, NEW d \in BOOLEAN, Agree(f, n, h, p, d)
  PROVE  n \in 0 .. Cardinality(Conns) /\ h \in Nat /\ p \in Nat
<1>1. AliveSet(f) \in SUBSET Conns
  BY ZenonT(60) DEF AliveSet
<1>2. /\ Cardinality(AliveSet(f)) \in Nat /\ Cardinality(Conns) \in Nat
      /\ IsFiniteSet(Conns)
  BY ZenonT(60), <1>1, ConnCard
<1>3. Cardinality(AliveSet(f)) <= Cardinality(Conns)
  BY ZenonT(60), <1>1, ConnCard
<1>4. QED
  BY SMTT(60), <1>2, <1>3 DEF Agree

(* ~PoolConnInfo keeps the counters right.                                 *)
LEMMA AgreeDelete ==
  ASSUME NEW f, NEW n, NEW h, NEW p, NEW d \in BOOLEAN, Agree(f, n, h, p, d),
         NEW C \in SUBSET Conns, \A c \in C : f[c] \in Alive,
         NEW g, \A c \in Conns : g[c] = IF c \in C THEN "dead" ELSE f[c]
  PROVE  LET k == Cardinality(C) IN
         /\ C # {} => Agree(g, n - k, h - k, p - (IF h - k = 0 THEN 1 ELSE 0), d)
         /\ ~d => Agree(g, n - k, h - k - 1, p - 1 - (IF h - k - 1 = 0 THEN 1 ELSE 0), TRUE)
         /\ ~d => Agree(g, n - k, h - k, p, FALSE)
<1>1. AliveSet(f) \in SUBSET Conns /\ C \in SUBSET AliveSet(f)
  BY ZenonT(60) DEF AliveSet
<1>2. AliveSet(g) = AliveSet(f) \ C
  <2>1. "dead" \notin Alive
    BY SMTT(60) DEF Alive
  <2>2. QED
    BY ZenonT(60), <2>1 DEF AliveSet
<1>3. /\ Cardinality(AliveSet(g)) = Cardinality(AliveSet(f)) - Cardinality(C)
      /\ Cardinality(AliveSet(f)) \in Nat /\ Cardinality(C) \in Nat
      /\ Cardinality(C) = 0 <=> C = {}
  BY ZenonT(60), <1>1, <1>2, ConnCard
<1>4. Cardinality(AliveSet(g)) \in Nat
  <2>1. AliveSet(g) \in SUBSET Conns
    BY ZenonT(60) DEF AliveSet
  <2>2. QED
    BY ZenonT(60), <2>1, ConnCard
<1>5. QED
  BY SMTT(60), <1>3, <1>4 DEF Agree

(* A connection is made.                                                   *)
LEMMA AgreeAdd ==
  ASSUME NEW f, NEW n, NEW h, NEW p, Agree(f, n, h, p, FALSE),
         NEW c \in Conns, f[c] \notin Alive,
         NEW g, g[c] \in Alive, \A x \in Conns \ {c} : g[x] = f[x]
  PROVE  Agree(g, n + 1, h + 1, p, FALSE)
<1>1. AliveSet(f) \in SUBSET Conns /\ c \notin AliveSet(f)
  BY ZenonT(60) DEF AliveSet
<1>2. AliveSet(g) = AliveSet(f) \cup {c}
  <2>1. \A x \in Conns : g[x] \in Alive <=> f[x] \in Alive \/ x = c
    BY ZenonT(60)
  <2> HIDE DEF Alive
  <2>2. QED
    BY SMTT(60), <2>1 DEF AliveSet
<1>3. /\ Cardinality(AliveSet(g)) = Cardinality(AliveSet(f)) + 1
      /\ Cardinality(AliveSet(f)) \in Nat
  BY ZenonT(60), <1>1, <1>2, ConnCard
<1>4. QED
  BY SMTT(60), <1>3 DEF Agree

(* The same connections are alive.                                         *)
LEMMA AgreeSame ==
  ASSUME NEW f, NEW n, NEW h, NEW p, NEW d, Agree(f, n, h, p, d),
         NEW g, \A x \in Conns : g[x] \in Alive <=> f[x] \in Alive
  PROVE  Agree(g, n, h, p, d)
<1>1. AliveSet(g) = AliveSet(f)
  BY ZenonT(60) DEF AliveSet
<1>2. QED
  BY ZenonT(60), <1>1 DEF Agree

(* A connection is not None.                                               *)
LEMMA Numbers == Reqs = Conns /\ None \notin Conns
  BY SMTT(60), PoolAssumption DEF Reqs, Conns, None

(* PoolHost::async preserves the invariant.                                *)
LEMMA AsyncStep ==
  ASSUME IInv, AsyncAvailable
  PROVE  IInv'
<1>1. /\ loop.kind = "none" /\ loop' = Loop("available", None, None) /\ async' = FALSE
      /\ UNCHANGED <<env, cs, info, idle_timer, ll_idle, ll_pending, requests, req, held,
                     n_total, hostref, poolref, down>>
  BY ZenonT(60) DEF AsyncAvailable, Idle, counters
<1>2. loop'.kind = "available" /\ loop'.conn = None /\ loop'.user = FALSE /\ loop'.nxt = None
  BY ZenonT(60), <1>1 DEF Loop
<1>3. TypeOK'
  BY ZenonT(60), <1>1, <1>2 DEF IInv, TypeOK, Loop
<1>4. Listed'
  BY ZenonT(60), <1>1 DEF IInv, Listed
<1>5. ~Failing /\ ~Failing' /\ \A c \in Conns : ~InLoop(c) /\ ~InLoop(c)'
  BY ZenonT(60), <1>1, <1>2, Numbers DEF Failing, InLoop
<1>6. Looping'
  BY ZenonT(60), <1>2, <1>5 DEF Looping
<1>7. \A c \in Conns : Placed(c)' /\ Counted(c)'
  <2>1. \A c \in Conns : Untouched(c)
    BY ZenonT(60), <1>1, <1>5 DEF Untouched, Taken
  <2>2. QED
    BY ZenonT(60), <2>1, <1>1, UntouchedHolds DEF IInv
<1>8. Covered'
  BY ZenonT(60), <1>1, <1>2 DEF IInv, Covered
<1>9. QED
  BY ZenonT(60), <1>1, <1>3, <1>4, <1>6, <1>7, <1>8 DEF IInv, Counters

(* ~PoolConnInfo of one connection keeps the counters right.               *)
LEMMA DeleteOne ==
  ASSUME IInv, NEW c \in Conns, info[c] \in {"PENDING", "IDLE", "LEASED"},
         NEW STATE idle, DeleteInfos({c}, idle, 0), down' = down
  PROVE  Counters'
<1>1. /\ info' = [d \in Conns |-> IF d \in {c} THEN "dead" ELSE info[d]]
      /\ n_total' = n_total - Cardinality({c})
      /\ hostref' = hostref - Cardinality({c}) - 0
      /\ poolref' = poolref - 0 - (IF hostref' = 0 THEN 1 ELSE 0)
  BY ZenonT(60) DEF DeleteInfos
<1>2. /\ Cardinality({c}) \in Nat /\ hostref \in Nat /\ poolref \in Nat /\ down \in BOOLEAN
  <2>1. {c} \in SUBSET Conns
    BY ZenonT(60)
  <2>2. QED
    BY ZenonT(60), <2>1, ConnCard DEF IInv, TypeOK
<1>3. info[c] \in Alive
  BY ZenonT(60) DEF Alive
<1>4. Agree(info', n_total - Cardinality({c}), hostref - Cardinality({c}),
            poolref - (IF hostref - Cardinality({c}) = 0 THEN 1 ELSE 0), down)
  <2>1. \A d \in Conns : info'[d] = IF d \in {c} THEN "dead" ELSE info[d]
    BY ZenonT(60), <1>1
  <2>2. QED
    BY ZenonT(60), <1>2, <1>3, <2>1, AgreeDelete DEF IInv, Counters
<1>5. /\ hostref' = hostref - Cardinality({c})
      /\ poolref' = poolref - (IF hostref - Cardinality({c}) = 0 THEN 1 ELSE 0)
  BY SMTT(60), <1>1, <1>2
<1>6. QED
  BY ZenonT(60), <1>1, <1>4, <1>5 DEF Counters

(* Whoever has connection c gives it up, in the event loop or in a handler; *)
(* what else is known of the step is up to the caller.                     *)
GivesUp(c) ==
  /\ (UserRuns /\ Taken(c)) \/ (Idle /\ info[c] = "IDLE")
  /\ UNCHANGED <<env, ll_pending, requests, down, loop>>
  /\ held' \subseteq Conns /\ async' \in BOOLEAN
  /\ req' \in [Reqs -> [state : {"none", "PENDING", "ASSIGNED", "called", "cancelled"},
                        sock : Conns \cup {None}]]
  /\ Listed'
  /\ \A d \in Conns : Taken(d)' <=> Taken(d) /\ d # c
  /\ \A r \in Reqs : req[r].state # "none" => req'[r].state # "none"

(* What giving up a connection leaves as it was.                           *)
LEMMA GivesUpFacts ==
  ASSUME IInv, NEW c \in Conns, GivesUp(c)
  PROVE  /\ cs[c] \in AttemptType /\ cs[c].ref = (IF InLoop(c) THEN 2 ELSE 1)
         /\ cs[c].flight = FALSE /\ info[c] \in {"IDLE", "LEASED"}
         /\ info[c] = "IDLE" => ~InLoop(c)
         /\ \A d \in Conns : InLoop(d)' <=> InLoop(d)
         /\ Failing' <=> Failing
         /\ Len(requests) <= Cardinality(ll_pending)
<1>1. cs[c] \in AttemptType /\ cs[c].flight \in BOOLEAN
  BY ZenonT(60) DEF IInv, TypeOK, AttemptType
<1>2. info[c] \in {"IDLE", "LEASED"} /\ (info[c] = "IDLE" => ~InLoop(c))
  <2>1. Taken(c) => info[c] = "LEASED"
    BY ZenonT(60) DEF IInv, Placed
  <2>2. Idle => ~InLoop(c)
    BY ZenonT(60) DEF Idle, InLoop
  <2>3. "IDLE" # "LEASED"
    OBVIOUS
  <2>4. QED
    BY ZenonT(60), <2>1, <2>2, <2>3 DEF GivesUp
<1>3. cs[c].ref = (IF InLoop(c) THEN 2 ELSE 1) /\ cs[c].flight = FALSE
  BY ZenonT(60), <1>1, <1>2 DEF IInv, Counted, GivesUp
<1>4. Len(requests) <= Cardinality(ll_pending)
  BY ZenonT(60) DEF IInv, Covered, GivesUp, UserRuns, Idle
<1>5. (\A d \in Conns : InLoop(d)' <=> InLoop(d)) /\ (Failing' <=> Failing)
  BY ZenonT(60) DEF GivesUp, InLoop, Failing
<1>6. QED
  BY ZenonT(60), <1>1, <1>2, <1>3, <1>4, <1>5

(* The parts of the invariant that giving up a connection leaves alone.    *)
LEMMA GivesUpRest ==
  ASSUME IInv, NEW c \in Conns, GivesUp(c),
         cs' \in [Conns -> AttemptType], info' \in [Conns -> {"none", "PENDING", "IDLE", "LEASED", "dead"}],
         idle_timer' \subseteq Conns, ll_idle' \in Seq(Conns), NoDup(ll_idle'),
         \A d \in Conns : Placed(d)' /\ Counted(d)', Counters'
  PROVE  IInv'
<1>1. UserRuns /\ UNCHANGED <<env, ll_pending, requests, down, loop>>
  BY ZenonT(60) DEF GivesUp, UserRuns
<1>2. n_total' \in 0 .. Cardinality(Conns) /\ hostref' \in Nat /\ poolref' \in Nat
  <2>1. down' \in BOOLEAN
    BY ZenonT(60), <1>1 DEF IInv, TypeOK
  <2>2. QED
    BY ZenonT(60), <2>1, AgreeTypes DEF Counters
<1>3. TypeOK'
  BY ZenonT(60), <1>1, <1>2 DEF IInv, TypeOK, GivesUp
<1>4. Covered'
  BY ZenonT(60), <1>1 DEF IInv, Covered, UserRuns, Idle
<1>5. Looping'
  BY ZenonT(60), <1>1 DEF IInv, Looping, Failing
<1>6. QED
  BY ZenonT(60), <1>3, <1>4, <1>5 DEF IInv, GivesUp

(* lcbio_unref by the owner of a connection preserves the invariant.       *)
LEMMA UnrefStep ==
  ASSUME IInv, NEW c \in Conns, GivesUp(c), UnrefSock(c)
  PROVE  IInv'
<1>1. /\ cs[c] \in AttemptType /\ cs[c].ref = (IF InLoop(c) THEN 2 ELSE 1)
      /\ cs[c].flight = FALSE /\ info[c] \in {"IDLE", "LEASED"}
      /\ info[c] = "IDLE" => ~InLoop(c)
      /\ \A d \in Conns : InLoop(d)' <=> InLoop(d)
      /\ Failing' <=> Failing
  BY ZenonT(60), GivesUpFacts
<1>2. cs[c].ref >= 1 /\ cs[c].ref \in Nat
  BY SMTT(60), <1>1
<1>3. PICK u : u = Unref(cs[c])
  BY ZenonT(60)
<1>4. /\ u \in AttemptType /\ u.ref = cs[c].ref - 1
      /\ u.st = cs[c].st /\ u.flight = FALSE /\ u.n = cs[c].n
      /\ u.result = cs[c].result /\ u.tried = cs[c].tried
  BY ZenonT(60), <1>1, <1>2, <1>3, UnrefIs
<1>5. /\ cs' = [cs EXCEPT ![c] = u] /\ cs \in [Conns -> AttemptType]
      /\ info \in [Conns -> {"none", "PENDING", "IDLE", "LEASED", "dead"}]
      /\ ll_idle \in Seq(Conns) /\ idle_timer \subseteq Conns /\ NoDup(ll_idle) /\ down \in BOOLEAN
  BY ZenonT(60), <1>3 DEF UnrefSock, IInv, TypeOK
<1>6. /\ cs' \in [Conns -> AttemptType] /\ cs'[c] = u
      /\ \A d \in Conns : d # c => cs'[d] = cs[d]
  BY ZenonT(60), <1>4, <1>5
<1>7. /\ UNCHANGED <<env, ll_pending, requests, down, loop>>
      /\ \A d \in Conns : Taken(d)' <=> Taken(d) /\ d # c
      /\ \A d \in Conns : req[d].state # "none" => req'[d].state # "none"
  BY ZenonT(60), Numbers DEF GivesUp
<1>8. CASE ~InLoop(c)
  <2>1. cs[c].ref = 1 /\ u.ref = 0
    BY SMTT(60), <1>1, <1>4, <1>8
  <2>2. DeleteInfos({c}, Unlink(ll_idle, c), 0)
    BY ZenonT(60), <2>1 DEF UnrefSock
  <2>3. /\ info' = [d \in Conns |-> IF d \in {c} THEN "dead" ELSE info[d]]
        /\ idle_timer' = idle_timer \ {c} /\ ll_idle' = Unlink(ll_idle, c)
    BY ZenonT(60), <2>2 DEF DeleteInfos
  <2>4. /\ ll_idle' \in Seq(Conns) /\ NoDup(ll_idle')
        /\ \A d \in Conns : d \in Items(ll_idle') <=> d \in Items(ll_idle) /\ d # c
    BY ZenonT(60), <1>5, <2>3, RemoveListed
  <2>5. /\ info' \in [Conns -> {"none", "PENDING", "IDLE", "LEASED", "dead"}]
        /\ info'[c] = "dead" /\ \A d \in Conns : d # c => info'[d] = info[d]
    BY ZenonT(60), <1>5, <2>3
  <2>6. Counters'
    <3>1. info[c] \in {"PENDING", "IDLE", "LEASED"}
      BY ZenonT(60), <1>1
    <3>2. QED
      BY ZenonT(60), <1>7, <2>2, <3>1, DeleteOne
  <2>7. ASSUME NEW d \in Conns, d # c PROVE Placed(d)' /\ Counted(d)'
    <3>1. Untouched(d)
      BY ZenonT(60), <1>1, <1>6, <1>7, <2>3, <2>4, <2>5, <2>7 DEF Untouched
    <3>2. QED
      BY ZenonT(60), <1>7, <3>1, UntouchedHolds DEF IInv
  <2>8. Placed(c)'
    BY ZenonT(60), <1>1, <1>4, <1>6, <1>7, <1>8, <2>3, <2>4, <2>5 DEF IInv, Placed
  <2>9. Counted(c)'
    <3>1. c \notin ll_pending'
      BY ZenonT(60), <2>5, <2>8 DEF Placed
    <3>2. ~Taken(c)'
      BY ZenonT(60), <1>7
    <3>3. QED
      BY ZenonT(60), <1>1, <1>4, <1>6, <1>7, <1>8, <2>1, <2>5, <3>1, <3>2 DEF IInv, Counted
  <2>10. idle_timer' \subseteq Conns
    BY ZenonT(60), <1>5, <2>3
  <2>11. QED
    BY ZenonT(60), <1>6, <2>4, <2>5, <2>6, <2>7, <2>8, <2>9, <2>10, GivesUpRest
<1>9. CASE InLoop(c)
  <2>1. cs[c].ref = 2 /\ u.ref = 1 /\ cs[c].ref # 1
    BY SMTT(60), <1>1, <1>4, <1>9
  <2>2. UNCHANGED <<info, idle_timer, ll_idle, n_total, hostref, poolref>>
    BY ZenonT(60), <2>1 DEF UnrefSock
  <2>3. info[c] = "LEASED"
    BY ZenonT(60), <1>1, <1>9
  <2>4. ASSUME NEW d \in Conns, d # c PROVE Placed(d)' /\ Counted(d)'
    <3>1. Untouched(d)
      BY ZenonT(60), <1>1, <1>6, <1>7, <2>2, <2>4 DEF Untouched
    <3>2. QED
      BY ZenonT(60), <1>7, <3>1, UntouchedHolds DEF IInv
  <2>5. Placed(c)'
    BY ZenonT(60), <1>1, <1>4, <1>6, <1>7, <1>9, <2>1, <2>2, <2>3 DEF IInv, Placed
  <2>6. Counted(c)'
    <3>1. c \notin ll_pending' /\ ~Failing'
      BY ZenonT(60), <1>1, <1>9, <2>2, <2>3, <2>5 DEF Placed
    <3>2. ~Taken(c)'
      BY ZenonT(60), <1>7
    <3>3. QED
      BY ZenonT(60), <1>4, <1>6, <1>7, <2>2, <2>3, <3>1, <3>2 DEF IInv, Counted
  <2>7. Counters'
    BY ZenonT(60), <1>7, <2>2 DEF IInv, Counters
  <2>8. QED
    BY ZenonT(60), <1>5, <1>6, <2>2, <2>4, <2>5, <2>6, <2>7, GivesUpRest
<1>10. QED
  BY ZenonT(60), <1>8, <1>9

(* Pool::put of a connection that its owner gives up preserves the         *)
(* invariant.                                                              *)
LEMMA PutSockStep ==
  ASSUME IInv, NEW c \in Conns, GivesUp(c), Taken(c), PutSock(c)
  PROVE  IInv'
<1>1. CASE Len(ll_idle) >= env.maxidle
  <2>1. UnrefSock(c)
    BY ZenonT(60), <1>1 DEF PutSock
  <2>2. QED
    BY ZenonT(60), <2>1, UnrefStep
<1>2. CASE ~(Len(ll_idle) >= env.maxidle)
  <2>1. /\ idle_timer' = idle_timer \cup {c} /\ ll_idle' = Append(ll_idle, c)
        /\ info' = [info EXCEPT ![c] = "IDLE"]
        /\ UNCHANGED <<cs, n_total, hostref, poolref>>
    BY ZenonT(60), <1>2 DEF PutSock
  <2>2. /\ cs[c].ref = (IF InLoop(c) THEN 2 ELSE 1) /\ cs[c].flight = FALSE
        /\ \A d \in Conns : InLoop(d)' <=> InLoop(d)
        /\ Failing' <=> Failing
    BY ZenonT(60), GivesUpFacts
  <2>3. /\ info[c] = "LEASED" /\ c \notin Items(ll_idle)
        /\ info \in [Conns -> {"none", "PENDING", "IDLE", "LEASED", "dead"}]
        /\ ll_idle \in Seq(Conns) /\ idle_timer \subseteq Conns /\ NoDup(ll_idle)
        /\ cs \in [Conns -> AttemptType]
    <3>1. "IDLE" # "LEASED"
      OBVIOUS
    <3>2. QED
      BY ZenonT(60), <3>1 DEF IInv, TypeOK, Placed
  <2>4. /\ ll_idle' \in Seq(Conns) /\ NoDup(ll_idle')
        /\ \A d \in Conns : d \in Items(ll_idle') <=> d \in Items(ll_idle) \/ d = c
    BY ZenonT(60), <2>1, <2>3, AppendListed
  <2>5. /\ info' \in [Conns -> {"none", "PENDING", "IDLE", "LEASED", "dead"}]
        /\ info'[c] = "IDLE" /\ \A d \in Conns : d # c => info'[d] = info[d]
        /\ idle_timer' \subseteq Conns /\ cs' \in [Conns -> AttemptType]
    BY ZenonT(60), <2>1, <2>3
  <2>6. /\ UNCHANGED <<env, ll_pending, requests, down, loop>>
        /\ \A d \in Conns : Taken(d)' <=> Taken(d) /\ d # c
        /\ \A d \in Conns : req[d].state # "none" => req'[d].state # "none"
    BY ZenonT(60), Numbers DEF GivesUp
  <2>7. Counters'
    <3>1. \A d \in Conns : info'[d] \in Alive <=> info[d] \in Alive
      BY ZenonT(60), <2>3, <2>5 DEF Alive
    <3>2. QED
      BY ZenonT(60), <2>1, <2>6, <3>1, AgreeSame DEF IInv, Counters
  <2>8. ASSUME NEW d \in Conns, d # c PROVE Placed(d)' /\ Counted(d)'
    <3>1. Untouched(d)
      BY ZenonT(60), <2>1, <2>2, <2>4, <2>5, <2>6, <2>8 DEF Untouched
    <3>2. QED
      BY ZenonT(60), <2>6, <3>1, UntouchedHolds DEF IInv
  <2>9. Placed(c)'
    BY ZenonT(60), <2>1, <2>2, <2>3, <2>4, <2>5, <2>6 DEF IInv, Placed
  <2>10. Counted(c)'
    <3>1. c \notin ll_pending'
      BY ZenonT(60), <2>5, <2>9 DEF Placed
    <3>2. InLoop(c) => ~Failing
      BY ZenonT(60), <2>3 DEF IInv, Placed
    <3>3. QED
      BY ZenonT(60), <2>1, <2>2, <2>3, <2>5, <2>6, <3>1, <3>2 DEF IInv, Counted
  <2>11. QED
    BY ZenonT(60), <2>4, <2>5, <2>7, <2>8, <2>9, <2>10, GivesUpRest
<1>3. QED
  BY ZenonT(60), <1>1, <1>2

(* Pool::put and Pool::discard by a user preserve the invariant.           *)
LEMMA UserStep ==
  ASSUME IInv, NEW c \in Conns, Put(c) \/ Discard(c)
  PROVE  IInv'
<1>1. /\ UserRuns /\ c \in held /\ held' = held \ {c}
      /\ UNCHANGED <<env, ll_pending, requests, req, async, down, loop>>
      /\ PutSock(c) \/ UnrefSock(c)
  BY ZenonT(60) DEF Put, Discard
<1>2. Taken(c)
  BY ZenonT(60), <1>1 DEF Taken
<1>3. \A d \in Conns : Taken(d)' <=> Taken(d) /\ d # c
  <2>1. \A r \in Reqs : req[r].sock # c
    BY ZenonT(60), <1>1 DEF IInv, Listed
  <2>2. QED
    BY ZenonT(60), <1>1, <2>1 DEF Taken
<1>4. Listed'
  BY ZenonT(60), <1>1 DEF IInv, Listed
<1>5. GivesUp(c)
  BY ZenonT(60), <1>1, <1>2, <1>3, <1>4 DEF GivesUp, IInv, TypeOK
<1>6. QED
  BY ZenonT(60), <1>1, <1>2, <1>5, PutSockStep, UnrefStep

(* PoolConnInfo::on_idle_timeout preserves the invariant.                  *)
LEMMA IdleTimeoutStep ==
  ASSUME IInv, NEW c \in Conns, IdleTimeout(c)
  PROVE  IInv'
<1>1. /\ Idle /\ c \in idle_timer /\ UnrefSock(c)
      /\ UNCHANGED <<env, ll_pending, requests, req, held, async, down, loop>>
  BY ZenonT(60) DEF IdleTimeout
<1>2. info[c] = "IDLE" /\ ~Taken(c)
  <2>1. "IDLE" # "LEASED"
    OBVIOUS
  <2>2. QED
    BY ZenonT(60), <1>1, <2>1 DEF IInv, Placed
<1>3. \A d \in Conns : Taken(d)' <=> Taken(d) /\ d # c
  BY ZenonT(60), <1>1, <1>2 DEF Taken
<1>4. Listed'
  BY ZenonT(60), <1>1 DEF IInv, Listed
<1>5. GivesUp(c)
  BY ZenonT(60), <1>1, <1>2, <1>3, <1>4 DEF GivesUp, IInv, TypeOK
<1>6. QED
  BY ZenonT(60), <1>1, <1>5, UnrefStep

(* A request of the list is answered or cancelled: it leaves the list.     *)
Answers(r, x) ==
  /\ x \in {"called", "cancelled"}
  /\ req' = [req EXCEPT ![r] = [state |-> x, sock |-> None]]
  /\ requests' = Unlink(requests, r)

(* The requests after one of them has its answer.                          *)
LEMMA AnswersListed ==
  ASSUME IInv, NEW r \in Reqs, NEW x, Answers(r, x), req[r].state = "PENDING",
         None \notin held', \A q \in Reqs : req[q].sock \notin held'
  PROVE  /\ Listed' /\ requests' \in Seq(Reqs) /\ Len(requests') = Len(requests) - 1
         /\ Len(requests) \in Nat
         /\ req' \in [Reqs -> [state : {"none", "PENDING", "ASSIGNED", "called", "cancelled"},
                               sock : Conns \cup {None}]]
         /\ \A c \in Conns : Taken(c)' <=> c \in held' \/ (Taken(c) /\ c \notin held)
         /\ \A q \in Reqs : req[q].state # "none" => req'[q].state # "none"
<1>1. /\ requests \in Seq(Reqs) /\ NoDup(requests) /\ r \in Items(requests)
      /\ req \in [Reqs -> [state : {"none", "PENDING", "ASSIGNED", "called", "cancelled"},
                           sock : Conns \cup {None}]]
  BY ZenonT(60) DEF IInv, TypeOK, Listed
<1>2. /\ requests' \in Seq(Reqs) /\ NoDup(requests') /\ Len(requests') = Len(requests) - 1
      /\ \A q \in Reqs : q \in Items(requests') <=> q \in Items(requests) /\ q # r
  BY ZenonT(60), <1>1, RemoveListed DEF Answers
<1>3. /\ req' \in [Reqs -> [state : {"none", "PENDING", "ASSIGNED", "called", "cancelled"},
                            sock : Conns \cup {None}]]
      /\ req'[r].state = x /\ req'[r].sock = None
      /\ \A q \in Reqs : q # r => req'[q] = req[q]
  BY ZenonT(60), <1>1 DEF Answers
<1>4. x # "PENDING" /\ x # "ASSIGNED" /\ x # "none" /\ "PENDING" # "ASSIGNED"
  BY SMTT(60) DEF Answers
<1>5. req[r].sock = None
  BY ZenonT(60), <1>4 DEF IInv, Listed
<1>6. Listed'
  <2>1. \A q \in Reqs : req'[q].sock \notin held'
    BY ZenonT(60), <1>3
  <2>2. \A q, p \in Reqs : req'[q].sock = req'[p].sock /\ req'[q].sock # None => q = p
    BY ZenonT(60), <1>3 DEF IInv, Listed
  <2>3. \A q \in Reqs : /\ q \in Items(requests') <=> req'[q].state = "PENDING"
                        /\ req'[q].sock # None <=> req'[q].state = "ASSIGNED"
    BY ZenonT(60), <1>2, <1>3, <1>4 DEF IInv, Listed
  <2>4. QED
    BY ZenonT(60), <1>2, <2>1, <2>2, <2>3 DEF Listed
<1>7. \A c \in Conns : Taken(c)' <=> c \in held' \/ (Taken(c) /\ c \notin held)
  <2>1. \A c \in Conns : (\E q \in Reqs : req'[q].sock = c) <=> \E q \in Reqs : req[q].sock = c
    BY ZenonT(60), <1>3, <1>5, Numbers
  <2>2. \A q \in Reqs : req[q].sock \notin held
    BY ZenonT(60) DEF IInv, Listed
  <2>3. QED
    BY ZenonT(60), <2>1, <2>2 DEF Taken
<1>8. \A q \in Reqs : req[q].state # "none" => req'[q].state # "none"
  BY ZenonT(60), <1>3, <1>4
<1>9. Len(requests) \in Nat
  BY SMTT(60), <1>1
<1>10. QED
  BY ZenonT(60), <1>2, <1>3, <1>6, <1>7, <1>8, <1>9

(* The same outside loops and in handlers of users.                        *)
LEMMA PendingGone ==
  ASSUME IInv, NEW r \in Reqs, NEW x, Answers(r, x), req[r].state = "PENDING", UserRuns,
         UNCHANGED <<env, cs, info, idle_timer, ll_idle, ll_pending, held, async,
                     n_total, hostref, poolref, down, loop>>
  PROVE  IInv'
<1>1. /\ Listed' /\ requests' \in Seq(Reqs) /\ Len(requests') = Len(requests) - 1
      /\ Len(requests) \in Nat
      /\ req' \in [Reqs -> [state : {"none", "PENDING", "ASSIGNED", "called", "cancelled"},
                            sock : Conns \cup {None}]]
      /\ \A c \in Conns : Taken(c)' <=> Taken(c)
      /\ \A q \in Reqs : req[q].state # "none" => req'[q].state # "none"
  <2>1. None \notin held' /\ \A q \in Reqs : req[q].sock \notin held'
    BY ZenonT(60), Numbers DEF IInv, TypeOK, Listed
  <2>2. \A c \in Conns : c \in held => Taken(c)
    BY ZenonT(60) DEF Taken
  <2>3. QED
    BY ZenonT(60), <2>1, <2>2, AnswersListed
<1>2. TypeOK'
  BY ZenonT(60), <1>1 DEF IInv, TypeOK
<1>3. \A c \in Conns : Placed(c)' /\ Counted(c)'
  <2>1. \A c \in Conns : Untouched(c)
    BY ZenonT(60), <1>1, Numbers DEF Untouched, InLoop, Failing
  <2>2. QED
    BY ZenonT(60), <2>1, UntouchedHolds DEF IInv
<1>4. Covered'
  <2>1. Len(requests) <= Cardinality(ll_pending)
    BY ZenonT(60) DEF IInv, Covered, UserRuns, Idle
  <2>2. Cardinality(ll_pending) \in Nat
    BY ZenonT(60), ConnCard DEF IInv, TypeOK
  <2>3. Len(requests') <= Cardinality(ll_pending)
    BY SMTT(60), <1>1, <2>1, <2>2
  <2>4. QED
    BY ZenonT(60), <2>3 DEF Covered, UserRuns, Idle
<1>5. Looping'
  BY ZenonT(60) DEF IInv, Looping, Failing
<1>6. QED
  BY ZenonT(60), <1>1, <1>2, <1>3, <1>4, <1>5 DEF IInv, Counters

(* PoolRequest::cancel preserves the invariant.                            *)
LEMMA CancelRequestStep ==
  ASSUME IInv, NEW r \in Reqs, CancelRequest(r)
  PROVE  IInv'
<1>1. /\ UserRuns /\ req[r].state \in {"ASSIGNED", "PENDING"}
      /\ req' = [req EXCEPT ![r] = [state |-> "cancelled", sock |-> None]]
      /\ UNCHANGED <<env, ll_pending, held, down, loop>>
      /\ req \in [Reqs -> [state : {"none", "PENDING", "ASSIGNED", "called", "cancelled"},
                           sock : Conns \cup {None}]]
  BY ZenonT(60) DEF CancelRequest, Live, IInv, TypeOK
<1>2. CASE req[r].sock # None
  <2> DEFINE c == req[r].sock
  <2>1. c \in Conns /\ PutSock(c) /\ async' = TRUE /\ requests' = requests
    BY ZenonT(60), <1>1, <1>2 DEF CancelRequest
  <2>2. req[r].state = "ASSIGNED" /\ Taken(c) /\ c \notin held
    BY ZenonT(60), <1>2 DEF IInv, Listed, Taken
  <2>3. /\ req' \in [Reqs -> [state : {"none", "PENDING", "ASSIGNED", "called", "cancelled"},
                              sock : Conns \cup {None}]]
        /\ req'[r].state = "cancelled" /\ req'[r].sock = None
        /\ \A q \in Reqs : q # r => req'[q] = req[q]
    BY ZenonT(60), <1>1
  <2>4. \A q \in Reqs : q # r => req[q].sock # c
    BY ZenonT(60), <1>2 DEF IInv, Listed
  <2>5. \A d \in Conns : Taken(d)' <=> Taken(d) /\ d # c
    <3>1. ASSUME NEW d \in Conns, Taken(d)' PROVE Taken(d) /\ d # c
      BY ZenonT(60), <1>1, <2>2, <2>3, <2>4, <3>1, Numbers DEF Taken
    <3>2. ASSUME NEW d \in Conns, Taken(d), d # c PROVE Taken(d)'
      BY ZenonT(60), <1>1, <2>3, <3>2 DEF Taken
    <3>3. QED
      BY ZenonT(60), <3>1, <3>2
  <2>6. None \notin held
    BY ZenonT(60), Numbers DEF IInv, TypeOK
  <2>7. "cancelled" # "PENDING" /\ "cancelled" # "ASSIGNED" /\ "cancelled" # "none" /\ "ASSIGNED" # "PENDING"
    OBVIOUS
  <2>8. Listed'
    BY ZenonT(60), <1>1, <2>1, <2>2, <2>3, <2>6, <2>7 DEF IInv, Listed
  <2>9. GivesUp(c)
    BY ZenonT(60), <1>1, <2>1, <2>2, <2>3, <2>5, <2>7, <2>8 DEF GivesUp, IInv, TypeOK
  <2> HIDE DEF c
  <2>10. QED
    BY ZenonT(60), <2>1, <2>2, <2>9, PutSockStep
<1>3. CASE req[r].sock = None
  <2>1. req[r].state = "PENDING"
    BY ZenonT(60), <1>1, <1>3 DEF IInv, Listed
  <2>2. /\ requests' = Unlink(requests, r)
        /\ UNCHANGED <<cs, info, idle_timer, ll_idle, n_total, hostref, poolref, async>>
    BY ZenonT(60), <1>3 DEF CancelRequest
  <2>3. Answers(r, "cancelled")
    BY ZenonT(60), <1>1, <2>2 DEF Answers
  <2>4. QED
    BY ZenonT(60), <1>1, <2>1, <2>2, <2>3, PendingGone
<1>4. QED
  BY ZenonT(60), <1>2, <1>3

(* PoolRequest::timer_handler preserves the invariant.                     *)
LEMMA RequestTimerStep ==
  ASSUME IInv, NEW r \in Reqs, RequestTimer(r)
  PROVE  IInv'
<1>1. /\ loop.kind = "none" /\ req[r].state \in {"ASSIGNED", "PENDING"}
      /\ req' = [req EXCEPT ![r] = [state |-> "called", sock |-> None]]
      /\ held' = IF req[r].sock = None THEN held ELSE held \cup {req[r].sock}
      /\ requests' = Unlink(requests, r)
      /\ UNCHANGED <<env, cs, info, idle_timer, ll_idle, ll_pending, async,
                     n_total, hostref, poolref, down, loop>>
      /\ req \in [Reqs -> [state : {"none", "PENDING", "ASSIGNED", "called", "cancelled"},
                           sock : Conns \cup {None}]]
  BY ZenonT(60) DEF RequestTimer, Idle, Live, Invoked, counters, IInv, TypeOK
<1>2. CASE req[r].state = "PENDING"
  <2>1. req[r].sock = None
    <3>1. "ASSIGNED" # "PENDING"
      OBVIOUS
    <3>2. QED
      BY ZenonT(60), <1>2, <3>1 DEF IInv, Listed
  <2>2. Answers(r, "called")
    BY ZenonT(60), <1>1 DEF Answers
  <2>3. UserRuns /\ held' = held
    BY ZenonT(60), <1>1, <2>1 DEF UserRuns, Idle
  <2>4. QED
    BY ZenonT(60), <1>1, <1>2, <2>2, <2>3, PendingGone
<1>3. CASE req[r].state = "ASSIGNED"
  <2> DEFINE c == req[r].sock
  <2>0. "called" # "PENDING" /\ "called" # "ASSIGNED" /\ "called" # "none" /\ "ASSIGNED" # "PENDING"
    OBVIOUS
  <2>1. c # None /\ c \in Conns /\ r \notin Items(requests) /\ requests \in Seq(Reqs) /\ NoDup(requests)
    BY ZenonT(60), <1>1, <1>3, <2>0 DEF IInv, Listed, TypeOK
  <2>2. requests' = requests /\ held' = held \cup {c}
    BY ZenonT(60), <1>1, <2>1, RemoveListed
  <2>3. /\ req' \in [Reqs -> [state : {"none", "PENDING", "ASSIGNED", "called", "cancelled"},
                              sock : Conns \cup {None}]]
        /\ req'[r].state = "called" /\ req'[r].sock = None
        /\ \A q \in Reqs : q # r => req'[q] = req[q]
    BY ZenonT(60), <1>1
  <2>4. \A q \in Reqs : q # r => req[q].sock # c
    BY ZenonT(60), <2>1 DEF IInv, Listed
  <2>5. \A d \in Conns : Taken(d)' <=> Taken(d)
    BY ZenonT(60), <2>1, <2>2, <2>3, Numbers DEF Taken
  <2>6. None \notin held'
    BY ZenonT(60), <2>1, <2>2, Numbers DEF IInv, TypeOK
  <2>7. Listed'
    <3>1. \A q \in Reqs : req'[q].sock \notin held'
      BY ZenonT(60), <2>2, <2>3, <2>4, <2>6 DEF IInv, Listed
    <3>2. \A q, p \in Reqs : req'[q].sock = req'[p].sock /\ req'[q].sock # None => q = p
      BY ZenonT(60), <2>3 DEF IInv, Listed
    <3>3. \A q \in Reqs : /\ q \in Items(requests') <=> req'[q].state = "PENDING"
                          /\ req'[q].sock # None <=> req'[q].state = "ASSIGNED"
      BY ZenonT(60), <1>3, <2>0, <2>2, <2>3 DEF IInv, Listed
    <3>4. QED
      BY ZenonT(60), <2>2, <3>1, <3>2, <3>3 DEF IInv, Listed
  <2>8. TypeOK'
    BY ZenonT(60), <1>1, <2>1, <2>2, <2>3 DEF IInv, TypeOK
  <2>9. \A d \in Conns : Placed(d)' /\ Counted(d)'
    <3>1. \A d \in Conns : Untouched(d)
      BY ZenonT(60), <1>1, <2>0, <2>3, <2>5, Numbers DEF Untouched, InLoop, Failing
    <3>2. QED
      BY ZenonT(60), <1>1, <3>1, UntouchedHolds DEF IInv
  <2>10. Covered' /\ Looping'
    BY ZenonT(60), <1>1, <2>2 DEF IInv, Covered, Looping, Failing
  <2>11. QED
    BY ZenonT(60), <1>1, <2>7, <2>8, <2>9, <2>10 DEF IInv, Counters
<1>4. QED
  BY ZenonT(60), <1>1, <1>2, <1>3

(* In which states of an attempt its connection is in ll_pending.          *)
LEMMA WaitingPending ==
  ASSUME IInv, NEW c \in Conns
  PROVE  /\ cs[c].st \in Waiting => c \in ll_pending
         /\ cs[c].flight /\ Idle =>
              c \in ll_pending \/ (info[c] = "dead" /\ cs[c].ref = 1 /\ cs[c].st # "abort")
         /\ c \in ll_pending => info[c] = "PENDING" /\ ~InLoop(c) /\ Trying(cs[c], env)
<1>1. Placed(c) /\ Counted(c)
  BY ZenonT(60) DEF IInv
<1>2. info[c] \in {"none", "PENDING", "IDLE", "LEASED", "dead"}
  BY ZenonT(60) DEF IInv, TypeOK
<1>3. /\ NoAttempt.st = "none" /\ NoAttempt.flight = FALSE
  BY SMTT(60) DEF NoAttempt
<1>4. /\ "none" \notin Waiting /\ "handler" \notin Waiting /\ "gone" \notin Waiting
      /\ "CS_CANCELLED" \notin Waiting /\ "abort" \notin Waiting
  BY SMTT(60) DEF Waiting
<1>5. cs[c].st \in Waiting => c \in ll_pending
  BY ZenonT(60), <1>1, <1>2, <1>3, <1>4 DEF Placed, Counted
<1>6. cs[c].flight /\ Idle =>
        c \in ll_pending \/ (info[c] = "dead" /\ cs[c].ref = 1 /\ cs[c].st # "abort")
  <2>1. Idle => ~InLoop(c)
    BY ZenonT(60) DEF Idle, InLoop
  <2>2. QED
    BY ZenonT(60), <1>1, <1>2, <1>3, <2>1 DEF Placed, Counted
<1>7. c \in ll_pending => info[c] = "PENDING" /\ ~InLoop(c) /\ Trying(cs[c], env)
  BY ZenonT(60), <1>1 DEF Placed, Counted
<1>8. QED
  BY ZenonT(60), <1>5, <1>6, <1>7

(* The progress of an attempt preserves the invariant.                     *)
LEMMA ConnectProgressStep ==
  ASSUME IInv, NEW c \in Conns, ConnectProgress(c)
  PROVE  IInv'
<1>1. /\ Idle /\ ~InLoop(c) /\ ~Failing /\ env \in Envs /\ cs \in [Conns -> AttemptType]
      /\ UNCHANGED <<env, info, idle_timer, ll_idle, ll_pending, requests, req, held,
                     async, n_total, hostref, poolref, down, loop>>
  BY ZenonT(60) DEF ConnectProgress, Idle, InLoop, Failing, counters, IInv, TypeOK
<1>2. PICK s : /\ cs' = [cs EXCEPT ![c] = s]
               /\ \/ /\ cs[c].watched /\ cs[c].st = "CS_PENDING"
                     /\ s \in WriteEvent(cs[c]) \/ (env.error_events /\ s \in ErrorEvent(cs[c]))
                  \/ cs[c].flight /\ s \in ConncbFailed(cs[c])
  BY ZenonT(60) DEF ConnectProgress
<1>3. \/ c \in ll_pending /\ Trying(s, env)
      \/ /\ c \notin ll_pending /\ info[c] = "dead" /\ cs[c].st # "abort"
         /\ s \in AttemptType /\ s.st = cs[c].st /\ s.ref = 0 /\ s.flight = FALSE
         /\ s.n = cs[c].n /\ s.result = cs[c].result /\ s.tried = cs[c].tried
  <2>1. CASE cs[c].watched /\ cs[c].st = "CS_PENDING" /\ ~(cs[c].flight /\ s \in ConncbFailed(cs[c]))
    <3>1. c \in ll_pending /\ Trying(cs[c], env)
      BY ZenonT(60), <2>1, WaitingPending DEF Waiting
    <3>2. QED
      BY ZenonT(60), <1>1, <1>2, <2>1, <3>1, EventTrying
  <2>2. CASE cs[c].flight /\ s \in ConncbFailed(cs[c])
    <3>1. CASE c \in ll_pending
      <4>1. Trying(cs[c], env)
        BY ZenonT(60), <3>1, WaitingPending
      <4>2. Trying(s, env)
        BY ZenonT(60), <2>2, <4>1, ConncbFailedTrying
      <4>3. QED
        BY ZenonT(60), <3>1, <4>2
    <3>2. CASE c \notin ll_pending
      <4>1. info[c] = "dead" /\ cs[c].ref = 1 /\ cs[c].st # "abort"
        BY ZenonT(60), <1>1, <2>2, <3>2, WaitingPending
      <4>2. cs[c] \in AttemptType
        BY ZenonT(60), <1>1
      <4>3. QED
        BY ZenonT(60), <2>2, <3>2, <4>1, <4>2, ConncbFailedTrying
    <3>3. QED
      BY ZenonT(60), <3>1, <3>2
  <2>3. QED
    BY ZenonT(60), <1>2, <2>1, <2>2
<1>4. /\ cs' \in [Conns -> AttemptType] /\ cs'[c] = s
      /\ \A d \in Conns : d # c => cs'[d] = cs[d]
  <2>1. s \in AttemptType
    BY ZenonT(60), <1>3 DEF Trying
  <2>2. QED
    BY ZenonT(60), <1>1, <1>2, <2>1
<1>5. /\ \A d \in Conns : (Taken(d)' <=> Taken(d)) /\ (InLoop(d)' <=> InLoop(d))
      /\ Failing' <=> Failing
  BY ZenonT(60), <1>1 DEF Taken, InLoop, Failing
<1>6. ASSUME NEW d \in Conns, d # c PROVE Placed(d)' /\ Counted(d)'
  <2>1. Untouched(d)
    BY ZenonT(60), <1>1, <1>4, <1>5, <1>6 DEF Untouched
  <2>2. QED
    BY ZenonT(60), <1>1, <2>1, UntouchedHolds DEF IInv
<1>7. Placed(c)' /\ Counted(c)'
  <2>1. CASE c \in ll_pending /\ Trying(s, env)
    <3>1. info[c] = "PENDING" /\ ~Taken(c)
      <4>1. "PENDING" # "LEASED"
        OBVIOUS
      <4>2. QED
        BY ZenonT(60), <2>1, <4>1 DEF IInv, Placed
    <3>2. s.st # "handler" /\ s.st # "abort"
      <4>1. s.st \in Waiting
        BY ZenonT(60), <2>1 DEF Trying
      <4>2. QED
        BY SMTT(60), <4>1 DEF Waiting
    <3>3. "PENDING" # "none" /\ "PENDING" # "IDLE" /\ "PENDING" # "LEASED" /\ "PENDING" # "dead"
      OBVIOUS
    <3>4. Placed(c)'
      BY ZenonT(60), <1>1, <1>4, <1>5, <3>1, <3>2, <3>3 DEF IInv, Placed
    <3>5. s.result = "CONNECT_ERROR" /\ ~env.error_events => s.tried = 1 .. s.n
      BY ZenonT(60), <2>1 DEF Trying
    <3>6. Trying(cs'[c], env')
      BY ZenonT(60), <1>1, <1>4, <2>1
    <3>7. Counted(c)'
      BY ZenonT(60), <1>1, <1>4, <1>5, <3>1, <3>2, <3>3, <3>5, <3>6 DEF Counted, Trying
    <3>8. QED
      BY ZenonT(60), <3>4, <3>7
  <2>2. CASE /\ c \notin ll_pending /\ info[c] = "dead" /\ cs[c].st # "abort"
             /\ s \in AttemptType /\ s.st = cs[c].st /\ s.ref = 0 /\ s.flight = FALSE
             /\ s.n = cs[c].n /\ s.result = cs[c].result /\ s.tried = cs[c].tried
    <3>1. "dead" # "none" /\ "dead" # "IDLE" /\ "dead" # "LEASED" /\ "dead" # "PENDING"
      OBVIOUS
    <3>2. Placed(c)'
      BY ZenonT(60), <1>1, <1>4, <1>5, <2>2, <3>1 DEF IInv, Placed
    <3>3. ~Taken(c)
      BY ZenonT(60), <2>2, <3>1 DEF IInv, Placed
    <3>4. Counted(c)'
      BY ZenonT(60), <1>1, <1>4, <1>5, <2>2, <3>1, <3>3 DEF IInv, Counted
    <3>5. QED
      BY ZenonT(60), <3>2, <3>4
  <2>3. QED
    BY ZenonT(60), <1>3, <2>1, <2>2
<1>8. TypeOK' /\ Listed' /\ Looping' /\ Covered' /\ Counters'
  <2>1. TypeOK'
    BY ZenonT(60), <1>1, <1>4 DEF IInv, TypeOK
  <2>2. Listed' /\ Looping' /\ Counters'
    BY ZenonT(60), <1>1, <1>5 DEF IInv, Listed, Looping, Counters
  <2>3. Covered'
    BY ZenonT(60), <1>1 DEF IInv, Covered
  <2>4. QED
    BY ZenonT(60), <2>1, <2>2, <2>3
<1>9. QED
  BY ZenonT(60), <1>1, <1>6, <1>7, <1>8 DEF IInv

(* PoolConnInfo::on_connected, up to its loop, preserves the invariant.    *)
LEMMA OnConnectedStep ==
  ASSUME IInv, Idle, NEW c \in ll_pending, NEW s, Entered(s, env), OnConnected(c, s)
  PROVE  IInv'
<1>1. /\ c \in Conns /\ ll_pending' = ll_pending \ {c} /\ ll_pending \subseteq Conns
      /\ UNCHANGED <<env, requests, req, held, async, n_total, hostref, poolref, down>>
      /\ cs \in [Conns -> AttemptType] /\ ll_idle \in Seq(Conns) /\ NoDup(ll_idle)
      /\ info \in [Conns -> {"none", "PENDING", "IDLE", "LEASED", "dead"}]
      /\ idle_timer \subseteq Conns
  BY ZenonT(60) DEF OnConnected, counters, IInv, TypeOK
<1>2. /\ loop.kind = "none" /\ ~Failing /\ \A d \in Conns : ~InLoop(d)
  BY ZenonT(60) DEF Idle, Failing, InLoop
<1>3. info[c] = "PENDING" /\ ~Taken(c) /\ c \notin Items(ll_idle) /\ c \notin idle_timer
      /\ req[c].state # "none"
  <2>1. "PENDING" # "LEASED" /\ "PENDING" # "IDLE" /\ "PENDING" # "none"
    OBVIOUS
  <2>2. QED
    BY ZenonT(60), <1>1, <2>1 DEF IInv, Placed
<1>4. \A d \in Conns : Taken(d)' <=> Taken(d)
  BY ZenonT(60), <1>1 DEF Taken
<1>5. /\ s \in AttemptType /\ s.st = "handler" /\ s.ref = (IF s.flight THEN 2 ELSE 1)
      /\ s.result = "SUCCESS" => s.flight = FALSE
      /\ s.result = "CONNECT_ERROR" /\ ~env.error_events => s.tried = 1 .. s.n
  BY ZenonT(60) DEF Entered, AttemptType
<1>6. Listed'
  BY ZenonT(60), <1>1 DEF IInv, Listed
<1>7. /\ Len(requests) <= Cardinality(ll_pending') + 1
      /\ Cardinality(ll_pending') \in Nat /\ Len(requests) \in Nat
  <2>1. Len(requests) <= Cardinality(ll_pending)
    BY ZenonT(60), <1>2 DEF IInv, Covered
  <2>2. /\ Cardinality(ll_pending') = Cardinality(ll_pending) - 1
        /\ Cardinality(ll_pending) \in Nat
    BY ZenonT(60), <1>1, ConnCard
  <2>3. Cardinality(ll_pending') \in Nat
    BY ZenonT(60), <1>1, ConnCard
  <2>4. Len(requests) \in Nat
    BY SMTT(60) DEF IInv, TypeOK
  <2>5. QED
    BY SMTT(60), <2>1, <2>2, <2>3, <2>4
<1>8. \A k, r : /\ Loop(k, c, r).kind = k /\ Loop(k, c, r).conn = c
                /\ Loop(k, c, r).nxt = r /\ Loop(k, c, r).user = FALSE
  BY ZenonT(60) DEF Loop
<1>9. c # None
  BY ZenonT(60), <1>1, Numbers
<1>10. CASE s.result = "SUCCESS"
  <2> DEFINE u == [s EXCEPT !.ref = @ + 1]
  <2>1. /\ cs' = [cs EXCEPT ![c] = u] /\ info' = [info EXCEPT ![c] = "IDLE"]
        /\ ll_idle' = Append(ll_idle, c) /\ idle_timer' = idle_timer \cup {c}
        /\ loop' = Loop("available", c, None)
    BY ZenonT(60), <1>10 DEF OnConnected
  <2>2. s.ref = 1 /\ s.ref + 1 = 2 /\ 2 \in 0 .. 3
    BY SMTT(60), <1>5, <1>10
  <2>3. /\ u \in AttemptType /\ u.st = "handler" /\ u.ref = 2 /\ u.flight = FALSE
        /\ u.result = "SUCCESS"
    BY ZenonT(60), <1>5, <1>10, <2>2 DEF AttemptType
  <2> HIDE DEF u
  <2>4. /\ cs' \in [Conns -> AttemptType] /\ cs'[c] = u
        /\ \A d \in Conns : d # c => cs'[d] = cs[d]
        /\ info' \in [Conns -> {"none", "PENDING", "IDLE", "LEASED", "dead"}]
        /\ info'[c] = "IDLE" /\ \A d \in Conns : d # c => info'[d] = info[d]
        /\ idle_timer' \subseteq Conns
    BY ZenonT(60), <1>1, <2>1, <2>3
  <2>5. /\ ll_idle' \in Seq(Conns) /\ NoDup(ll_idle')
        /\ Len(ll_idle') = Len(ll_idle) + 1
        /\ \A d \in Conns : d \in Items(ll_idle') <=> d \in Items(ll_idle) \/ d = c
    BY ZenonT(60), <1>1, <1>3, <2>1, AppendListed
  <2>6. /\ loop'.kind = "available" /\ loop'.conn = c /\ loop'.user = FALSE
        /\ loop' \in [kind : {"none", "available", "failed", "dangling"},
                      conn : Conns \cup {None}, nxt : Reqs \cup {None}, user : BOOLEAN]
    BY ZenonT(60), <1>1, <2>1 DEF Loop
  <2>7. /\ ~Failing' /\ InLoop(c)' /\ \A d \in Conns : d # c => ~InLoop(d)'
    BY ZenonT(60), <2>6 DEF Failing, InLoop
  <2>8. ASSUME NEW d \in Conns, d # c PROVE Placed(d)' /\ Counted(d)'
    <3>1. Untouched(d)
      BY ZenonT(60), <1>1, <1>2, <1>4, <2>1, <2>4, <2>5, <2>7, <2>8 DEF Untouched
    <3>2. QED
      BY ZenonT(60), <1>1, <3>1, UntouchedHolds DEF IInv
  <2>9. "IDLE" # "none" /\ "IDLE" # "PENDING" /\ "IDLE" # "LEASED" /\ "IDLE" # "dead"
        /\ "SUCCESS" # "CONNECT_ERROR" /\ "handler" # "abort"
    OBVIOUS
  <2>10. Placed(c)'
    BY ZenonT(60), <1>1, <1>3, <1>4, <2>1, <2>3, <2>4, <2>5, <2>7, <2>9 DEF Placed
  <2>11. Counted(c)'
    BY ZenonT(60), <1>1, <1>3, <1>4, <2>3, <2>4, <2>7, <2>9 DEF Counted
  <2>12. Covered'
    <3>1. ll_idle' # <<>>
      BY SMTT(60), <1>1, <2>5
    <3>2. "available" # "failed"
      OBVIOUS
    <3>3. QED
      BY ZenonT(60), <1>1, <1>7, <1>9, <2>6, <3>1, <3>2 DEF Covered
  <2>13. Counters'
    <3>1. \A d \in Conns : info'[d] \in Alive <=> info[d] \in Alive
      BY ZenonT(60), <1>3, <2>4 DEF Alive
    <3>2. QED
      BY ZenonT(60), <1>1, <3>1, AgreeSame DEF IInv, Counters
  <2>14. TypeOK'
    BY ZenonT(60), <1>1, <2>4, <2>5, <2>6 DEF IInv, TypeOK
  <2>15. Looping'
    BY ZenonT(60), <2>6, <2>7 DEF Looping
  <2>16. QED
    BY ZenonT(60), <1>6, <2>5, <2>8, <2>10, <2>11, <2>12, <2>13, <2>14, <2>15 DEF IInv
<1>11. CASE s.result # "SUCCESS"
  <2> DEFINE r == IF requests = <<>> THEN None ELSE Head(requests)
  <2>1. /\ cs' = [cs EXCEPT ![c] = s] /\ loop' = Loop("failed", c, r)
        /\ UNCHANGED <<info, ll_idle, idle_timer>>
    BY ZenonT(60), <1>11 DEF OnConnected
  <2>2. r \in Reqs \cup {None}
    BY SMTT(60) DEF IInv, TypeOK
  <2>3. /\ loop'.kind = "failed" /\ loop'.conn = c /\ loop'.user = FALSE /\ loop'.nxt = r
        /\ loop' \in [kind : {"none", "available", "failed", "dangling"},
                      conn : Conns \cup {None}, nxt : Reqs \cup {None}, user : BOOLEAN]
    <3> HIDE DEF r
    <3>1. QED
      BY ZenonT(60), <1>1, <2>1, <2>2 DEF Loop
  <2>4. /\ cs' \in [Conns -> AttemptType] /\ cs'[c] = s
        /\ \A d \in Conns : d # c => cs'[d] = cs[d]
    BY ZenonT(60), <1>1, <1>5, <2>1
  <2>5. /\ Failing' /\ InLoop(c)' /\ \A d \in Conns : d # c => ~InLoop(d)'
    BY ZenonT(60), <2>3 DEF Failing, InLoop
  <2>6. ASSUME NEW d \in Conns, d # c PROVE Placed(d)' /\ Counted(d)'
    <3>1. Untouched(d)
      BY ZenonT(60), <1>1, <1>2, <1>4, <2>1, <2>4, <2>5, <2>6 DEF Untouched
    <3>2. QED
      BY ZenonT(60), <1>1, <3>1, UntouchedHolds DEF IInv
  <2>7. "PENDING" # "none" /\ "IDLE" # "PENDING" /\ "PENDING" # "LEASED" /\ "PENDING" # "dead"
        /\ "handler" # "abort"
    OBVIOUS
  <2>8. Placed(c)'
    BY ZenonT(60), <1>1, <1>3, <1>4, <1>5, <2>1, <2>4, <2>5, <2>7 DEF Placed
  <2>9. Counted(c)'
    BY ZenonT(60), <1>1, <1>3, <1>4, <1>5, <2>1, <2>4, <2>5, <2>7 DEF Counted
  <2>10. Covered'
    <3>1. "available" # "failed"
      OBVIOUS
    <3>2. QED
      BY ZenonT(60), <1>1, <1>7, <1>9, <2>3, <3>1 DEF Covered
  <2>11. Counters'
    BY ZenonT(60), <1>1, <2>1 DEF IInv, Counters
  <2>12. TypeOK'
    BY ZenonT(60), <1>1, <2>1, <2>3, <2>4 DEF IInv, TypeOK
  <2>13. Looping'
    BY ZenonT(60), <1>1, <2>3 DEF Looping
  <2>14. QED
    BY ZenonT(60), <1>1, <1>6, <2>1, <2>6, <2>8, <2>9, <2>10, <2>11, <2>12, <2>13 DEF IInv
<1>12. QED
  BY ZenonT(60), <1>10, <1>11

(* The end of an attempt, by its timer or by C_conncb, preserves the       *)
(* invariant.                                                              *)
LEMMA ConnectEndStep ==
  ASSUME IInv, NEW c \in Conns, ConnectTimer(c) \/ ConnectCompleted(c)
  PROVE  IInv'
<1>1. CASE ConnectTimer(c)
  <2>1. Idle /\ cs[c].st \in Waiting /\ OnConnected(c, HandlerBegin(cs[c]))
    BY ZenonT(60), <1>1 DEF ConnectTimer, Waiting
  <2>2. c \in ll_pending /\ Trying(cs[c], env)
    BY ZenonT(60), <2>1, WaitingPending
  <2>3. Entered(HandlerBegin(cs[c]), env)
    BY ZenonT(60), <2>2, HandlerBeginEntered
  <2>4. QED
    BY ZenonT(60), <2>1, <2>2, <2>3, OnConnectedStep
<1>2. CASE ConnectCompleted(c)
  <2>1. /\ Idle /\ cs[c].flight /\ cs[c].ref > 1
        /\ OnConnected(c, HandlerBegin(ConncbConnected(cs[c])))
    BY ZenonT(60), <1>2 DEF ConnectCompleted
  <2>2. cs[c].ref # 1
    BY SMTT(60), <2>1
  <2>3. c \in ll_pending /\ Trying(cs[c], env)
    BY ZenonT(60), <2>1, <2>2, WaitingPending
  <2>4. Entered(HandlerBegin(ConncbConnected(cs[c])), env)
    BY ZenonT(60), <2>1, <2>3, HandlerBeginEntered
  <2>5. QED
    BY ZenonT(60), <2>1, <2>3, <2>4, OnConnectedStep
<1>3. QED
  BY ZenonT(60), <1>1, <1>2
=============================================================================
