------------------------------ MODULE MCRetryq ------------------------------
(* Instances of Retryq for TLC: commands with different timeouts, and      *)
(* retry specifications of each strategy, with a limit of the duration.    *)
EXTENDS Retryq, TLC

CONSTANTS o1, o2

MCOps == {o1, o2}
MCTimeout == o1 :> 3 @@ o2 :> 5

RetrySpec(s, i, a, c, m) ==
  [strategy |-> s, interval |-> i, after |-> a, ceil |-> c, max_duration |-> m]
Env(ops, specs, neterrors, imm, reset) ==
  [ops |-> ops, specs |-> specs, neterrors |-> neterrors, nmv_retry_imm |-> imm,
   reset |-> reset]

(* Two commands with retry specifications; one command with every kind of  *)
(* error and with more of them; one command whose timeout is reset.        *)
MCEnvs ==
  {Env({o1, o2}, {RetrySpec("LINEAR", 1, 0, 1, 1)}, {}, FALSE, FALSE),
   Env({o2}, {RetrySpec("EXPONENTIAL", 1, 1, 0, 2), RetrySpec("EXPONENTIAL", 4, 0, 3, 0),
              RetrySpec("CONSTANT", 0, 0, 0, 1)},
       {"NETWORK", "CONNECT_ERROR", "BUCKET_NOT_FOUND"}, TRUE, FALSE),
   Env({o1}, {}, {"NETWORK"}, FALSE, TRUE)}
MCReset == {Env({o1, o2}, {}, {}, FALSE, TRUE)}
=============================================================================
