------------------------------ MODULE MCSendq ------------------------------
(* Instances of Sendq for TLC: three packets, of two, one and two bytes. *)
EXTENDS Sendq, TLC

CONSTANTS p1, p2, p3

MCPkts == {p1, p2, p3}
MCSize == p1 :> 2 @@ p2 :> 1 @@ p3 :> 2

Env(mode, partial, writefail, detached, retriable, reentrant) ==
  [mode |-> mode, partial |-> partial, writefail |-> writefail,
   detached |-> detached, retriable |-> retriable, reentrant |-> reentrant]

(* Short and failing writes under event I/O, several writes outstanding    *)
(* under completion I/O, and retried copies with whole-window writes.      *)
MCEnvs == {Env("E", TRUE, TRUE, {p3}, {}, {}), Env("C", FALSE, FALSE, {p3}, {}, {}),
           Env("E", FALSE, FALSE, {p2, p3}, {p2, p3}, {})}
MCRetryWrite == {Env("C", FALSE, FALSE, {p3}, {p3}, {})}
MCRetryPartial == {Env("E", TRUE, FALSE, {p3}, {p3}, {})}
MCWriteError == {Env("C", FALSE, TRUE, {}, {}, {})}
MCReentrant == {Env("E", TRUE, FALSE, {}, {}, {p2})}
=============================================================================
