----------------------------- MODULE MCMcServer -----------------------------
EXTENDS McServer

MCBase(mode) ==
    [mode |-> mode, short |-> FALSE, calls |-> FALSE, removes |-> FALSE, moves |-> FALSE, adjust |-> FALSE,
     kinds |-> {"ok", "retry"}]

MCModes == {"E", "C"}
MCEnvs ==
    UNION {{[MCBase(m) EXCEPT !.short = TRUE, !.moves = TRUE, !.adjust = TRUE],
            [MCBase(m) EXCEPT !.calls = TRUE, !.removes = TRUE],
            [MCBase(m) EXCEPT !.removes = TRUE, !.kinds = Kinds \ {"gone"}]} : m \in MCModes}

(* During lcb_open the node answers with a map it is not part of. *)
MCGone == {[MCBase(m) EXCEPT !.kinds = {"ok", "gone"}] : m \in MCModes}
=============================================================================
