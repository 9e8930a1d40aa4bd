----------------------------- MODULE FiniteMap -----------------------------
(***************************************************************************)
(* What liba2ps/pair_ht.c, liba2ps/str_ht.c and the tables of psstat.c     *)
(* promise: a finite map with one value for each key, and the answer of    *)
(* the latest call.                                                        *)
(***************************************************************************)
CONSTANTS Keys, Values, NoItem

VARIABLES
  map,    (* the value of each key, or NoItem                              *)
  answer  (* the key that the latest call looked for, and what it found    *)

MapInit == map = [k \in Keys |-> NoItem] /\ answer = << >>

Put(k, v) == map' = [map EXCEPT ![k] = v] /\ answer' = << >>

Get(k) == answer' = <<k, map[k]>> /\ UNCHANGED map

Remove(k) == answer' = <<k, map[k]>> /\ map' = [map EXCEPT ![k] = NoItem]

Clear == map' = [k \in Keys |-> NoItem] /\ answer' = << >>

MapNext ==
  \/ \E k \in Keys : Get(k) \/ Remove(k) \/ \E v \in Values : Put(k, v)
  \/ Clear

MapSpec == MapInit /\ [][MapNext]_<<map, answer>>
=============================================================================
