---------------------------- MODULE MCDurability ----------------------------
(* Instances of Durability for TLC. *)
EXTENDS Durability

CONSTANTS a, b, c

(* A bucket with one replica. *)
MCMap(servers, master, replica) ==
    [servers |-> servers, vb |-> [i \in Items |-> <<master, replica>>]]

MCMaps ==
    {MCMap({a, b}, a, b), MCMap({a, b}, b, a), MCMap({a, b}, NoNode, NoNode),
     MCMap({a}, a, NoNode), MCMap({a, c}, a, c)}

MCBase ==
    [persist_to |-> 2, replicate_to |-> 0, cap |-> FALSE, store |-> FALSE,
     first |-> MCMap({a, b}, a, b), items |-> 1, maps |-> 0, retries |-> 0,
     failover |-> {}, destroys |-> FALSE]

(* Persistence on both copies while the map changes and a request is       *)
(* retried; replication alone, with two changes; the master's disk; two    *)
(* items; a store, with failover and the end of the instance; and options  *)
(* the map does not allow.                                                 *)
MCEnvs ==
    {[MCBase EXCEPT !.maps = 1, !.retries = 1],
     [MCBase EXCEPT !.persist_to = 0, !.replicate_to = 1, !.maps = 2],
     [MCBase EXCEPT !.persist_to = 1, !.retries = 1, !.maps = 1],
     [MCBase EXCEPT !.persist_to = 0, !.replicate_to = 1, !.items = 2],
     [MCBase EXCEPT !.persist_to = 1, !.replicate_to = 1, !.store = TRUE, !.maps = 1,
                    !.failover = {"lost", "disk"}, !.destroys = TRUE],
     [MCBase EXCEPT !.persist_to = 3],
     [MCBase EXCEPT !.persist_to = 0],
     [MCBase EXCEPT !.persist_to = 3, !.replicate_to = 2, !.cap = TRUE]}

(* Persistence on both copies, with one retried request. *)
MCRetried == {[MCBase EXCEPT !.retries = 1]}

(* A node fails over with the mutation in memory only. *)
MCPromoted == {[MCBase EXCEPT !.persist_to = 1, !.failover = {"mem"}]}

(* The instance is destroyed while a request waits to be retried. *)
MCDestroyed == {[MCBase EXCEPT !.retries = 1, !.destroys = TRUE]}

(* The replica's Server is deleted, and its address is used for another    *)
(* node when the replica returns as the master.                            *)
MCReusedMaps == MCMaps \cup {MCMap({b, c}, b, c)}
MCReused == {[MCBase EXCEPT !.maps = 2]}
=============================================================================
