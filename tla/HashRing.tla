------------------------------ MODULE HashRing ------------------------------
(***************************************************************************)
(* hash_ring (include/ten/consistent_hash.hh).  The hash of a node's       *)
(* replica, a string put together from both, is any number of Points; so   *)
(* is the hash of a datum, and a datum is its hash here.                   *)
(***************************************************************************)
EXTENDS Naturals, FiniteSets, Functions

CONSTANTS Nodes, Replicas, None,
          MaxPoint,   \* hashes are 1..MaxPoint
          Collisions  \* whether two replicas may have the same hash

VARIABLES hash,     \* <<node, replica>> -> point; never changes
          _ring,    \* a partial function from points to nodes
          members   \* history: the nodes added and not removed

vars == <<hash, _ring, members>>

Points == 1..MaxPoint

Init == /\ hash \in [Nodes \X (0..Replicas - 1) -> Points]
        /\ Collisions \/ IsInjective(hash)
        /\ _ring = [p \in {} |-> None]
        /\ members = {}

PointsOf(node) == {hash[node, r] : r \in 0..Replicas - 1}

add(node) ==
  /\ _ring' = [p \in DOMAIN _ring \cup PointsOf(node) |->
                 IF p \in PointsOf(node) THEN node ELSE _ring[p]]
  /\ members' = members \cup {node}
  /\ UNCHANGED hash

removeFirst(node) ==  \* mutant: the last replica is left
  /\ _ring' = Restrict(_ring, DOMAIN _ring \ {hash[node, r] : r \in 0..Replicas - 2})
  /\ members' = members \ {node}
  /\ UNCHANGED hash


remove(node) ==
  /\ _ring' = Restrict(_ring, DOMAIN _ring \ PointsOf(node))
  /\ members' = members \ {node}
  /\ UNCHANGED hash

(* get: the first point at or after the hash, or else the first one; None  *)
(* where the code throws.                                                  *)
get(ring, data) ==
  LET after == {p \in DOMAIN ring : p >= data}
      from == IF after = {} THEN DOMAIN ring ELSE after
  IN IF from = {} THEN None ELSE ring[CHOOSE p \in from : \A q \in from : p <= q]

Next == \E node \in Nodes : add(node) \/ remove(node)

Spec == Init /\ [][Next]_vars

-----------------------------------------------------------------------------
(* What makes the hashing consistent: to add a node moves data to it only, *)
(* and to remove it moves only the data that was on it.                    *)
Moves ==
  \A d \in Points : get(_ring, d) # get(_ring', d) =>
     \/ members' \ members = {get(_ring', d)}
     \/ members \ members' = {get(_ring, d)}

MovesLittle == [][Moves]_vars

(* Data is found on members only: a removed node is never named again,     *)
(* whichever hashes collided; and while there are members there is one.    *)
OnMembers == \A d \in Points : get(_ring, d) \in members \cup {None}
=============================================================================
