------------------------------ MODULE Connect ------------------------------
(***************************************************************************)
(* Connstart (lcbio/connect.cc): one attempt to connect to a host at each  *)
(* of its addresses in turn, with event I/O (E_conncb) or with completion  *)
(* I/O (C_connect, C_conncb), its timer, its cancellation, and the         *)
(* references to its socket.                                               *)
(*                                                                         *)
(* The operators take and return the record of one attempt; the state      *)
(* machine is SockPool, the pool that starts the attempts, receives their  *)
(* results and cancels them. An operator returns a set where the outcome   *)
(* depends on the operating system.                                        *)
(***************************************************************************)
EXTENDS Naturals

CONSTANT MaxAddr        \* bound: addresses that a lookup returns

ASSUME ConnectAssumption == MaxAddr \in Nat \ {0}

(* st: "none", CS_PENDING, CS_CONNECTED and CS_ERROR (signalled to the     *)
(*     timer, not delivered yet), "handler" inside user_handler, "gone"    *)
(*     after it, CS_CANCELLED, and "abort" when the assertion              *)
(*     lcb_assert(sock->refcount > 1) has failed.                          *)
(* n: the number of addresses. ai: the current one, n + 1 for NULL. tried: the addresses whose *)
(*     socket() or connect() was called. sd: sock->u holds a handle.       *)
(* watched: ev_active. flight: a C_connect whose C_conncb is to come.      *)
(* ref: sock->refcount; the socket is destroyed when it becomes 0.         *)
(* result: what user_handler is told.                                      *)
NoAttempt ==
  [st |-> "none", n |-> 1, ai |-> 1, tried |-> {}, sd |-> FALSE, watched |-> FALSE,
   flight |-> FALSE, ref |-> 0, result |-> "none"]

AttemptType ==
  [st : {"none", "CS_PENDING", "CS_CONNECTED", "CS_ERROR", "handler", "gone",
         "CS_CANCELLED", "abort"},
   n : 1..MaxAddr, ai : 1..(MaxAddr + 1), tried : SUBSET (1..MaxAddr), sd : BOOLEAN, watched : BOOLEAN,
   flight : BOOLEAN, ref : 0..3,
   result : {"none", "SUCCESS", "TIMEOUT", "CONNECT_ERROR", "UNKNOWN_HOST"}]

\* state_signal: only the first signal counts.
Signal(s, st, err) ==
  IF s.st = "CS_PENDING" THEN [s EXCEPT !.st = st, !.result = err] ELSE s

\* clear_sock: on to the next address; the handle of the last one stays open.
ClearSock(s) ==
  IF s.ai >= s.n THEN [s EXCEPT !.ai = s.n + 1]
  ELSE [s EXCEPT !.ai = @ + 1, !.sd = FALSE, !.watched = FALSE]

\* GT_NEXTSOCK up to the first address, b, whose connect() does not fail.
AtAddress(s, b) ==
  [s EXCEPT !.ai = b, !.sd = TRUE, !.tried = @ \cup (s.ai .. b)]

\* ... and when there is none: the handle is that of the last connect().
Exhausted(s) ==
  {Signal([s EXCEPT !.ai = s.n + 1, !.sd = sd, !.tried = @ \cup (s.ai .. s.n)],
          "CS_ERROR", "CONNECT_ERROR") :
     sd \in IF s.ai > s.n THEN {s.sd} ELSE BOOLEAN}

\* E_conncb at GT_NEXTSOCK: connected at once, or waiting for an event.
NextSockE(s) ==
  Exhausted(s) \cup
  {Signal(AtAddress(s, b), "CS_CONNECTED", "SUCCESS") : b \in s.ai .. s.n} \cup
  {[AtAddress(s, b) EXCEPT !.watched = TRUE] : b \in s.ai .. s.n}

\* C_connect: connected at once, scheduled (with a reference for C_conncb), or
\* LCBIO_CSERR_BUSY, which leaves the attempt to its timer.
NextSockC(s) ==
  Exhausted(s) \cup
  {Signal(AtAddress(s, b), "CS_CONNECTED", "SUCCESS") : b \in s.ai .. s.n} \cup
  {[AtAddress(s, b) EXCEPT !.flight = TRUE, !.ref = @ + 1] : b \in s.ai .. s.n} \cup
  {AtAddress(s, b) : b \in s.ai .. s.n}

\* Connstart::Connstart: the lookup fails, or the first connect() is made.
Connstart(io, n) ==
  LET s == [NoAttempt EXCEPT !.st = "CS_PENDING", !.n = n, !.ref = 1]
  IN {Signal([s EXCEPT !.ai = s.n + 1], "CS_ERROR", "UNKNOWN_HOST")} \cup
     (IF io = "E" THEN NextSockE(s) ELSE NextSockC(s))

\* Mutant: a failed connect() gives up.
WriteEvent_GivesUp(s) ==
  {Signal(s, "CS_CONNECTED", "SUCCESS"), Signal(s, "CS_ERROR", "CONNECT_ERROR")}

\* E_conncb for a writable socket: connected, not yet, or failed.
WriteEvent(s) ==
  {Signal([s EXCEPT !.watched = FALSE], "CS_CONNECTED", "SUCCESS"), s}
    \cup NextSockE(ClearSock(s))

\* E_conncb for LCB_ERROR_EVENT: `events` is not reset at GT_NEXTSOCK, so every
\* further address only has its socket made and cleared again.
ErrorEvent(s) ==
  {Signal([ClearSock(s) EXCEPT !.ai = s.n + 1, !.sd = sd], "CS_ERROR", "CONNECT_ERROR") :
     sd \in IF s.ai >= s.n THEN {s.sd} ELSE BOOLEAN}

\* lcbio_unref
Unref(s) ==
  [s EXCEPT !.ref = @ - 1, !.sd = @ /\ s.ref > 1]

\* Mutant: C_conncb keeps the reference of its connect().
ConncbFailed_Kept(s) ==
  NextSockC(ClearSock([s EXCEPT !.flight = FALSE]))

\* C_conncb when connect() has failed, or when only its own reference is left.
ConncbFailed(s) ==
  LET t == [Unref(s) EXCEPT !.flight = FALSE]
  IN IF t.ref = 0 THEN {t} ELSE NextSockC(ClearSock(t))

\* C_conncb when connect() has succeeded: the handler runs at once.
ConncbConnected(s) ==
  Signal([Unref(s) EXCEPT !.flight = FALSE], "CS_CONNECTED", "SUCCESS")

\* Connstart::handler up to user_handler; a state still pending is a timeout.
HandlerBegin(s) ==
  [Signal(s, "CS_ERROR", "TIMEOUT") EXCEPT !.st = "handler", !.watched = FALSE]

\* ~Connstart: what is left is the socket, if someone has a reference to it.
Deleted(s, st) ==
  [NoAttempt EXCEPT !.st = st, !.ref = s.ref - 1, !.sd = s.sd /\ s.ref > 1,
                    !.flight = s.flight]

\* Connstart::handler after user_handler.
HandlerEnd(s) == Deleted(s, "gone")

\* Connstart::cancel outside user_handler. In completion mode C_conncb is muted
\* and its reference dropped.
CancelAttempt(s, io) ==
  IF io = "C" /\ s.sd
  THEN IF s.ref > 1
       THEN Deleted([Unref(s) EXCEPT !.flight = FALSE], "CS_CANCELLED")
       ELSE [s EXCEPT !.st = "abort"]
  ELSE Deleted(s, "CS_CANCELLED")
=============================================================================
