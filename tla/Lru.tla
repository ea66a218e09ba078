--------------------------------- MODULE Lru ---------------------------------
(***************************************************************************)
(* lru of lru.hh: a list of entries, the most recently used first, and a   *)
(* map from keys to places in the list.  A place is a node that is made    *)
(* once and never again, so that a map entry for an erased node dangles.   *)
(***************************************************************************)
EXTENDS Integers, Sequences, FiniteSets, SequencesExt

CONSTANTS Keys, Values, Limit, MaxSteps,
          MayErase    \* whether the program calls erase

VARIABLES list,     \* _list: [node, key, val]
          map,      \* _map: key -> node, or 0
          entries,  \* _entries
          made,     \* nodes made so far, and steps taken
          used,     \* history: the keys, last used first
          bound     \* history: the value last inserted for a key

vars == <<list, map, entries, made, used, bound>>

Init == /\ list = <<>> /\ map = [k \in Keys |-> 0] /\ entries = 0 /\ made = 0
        /\ used = <<>> /\ bound = [k \in Keys |-> 0]

Without(node) == SelectSeq(list, LAMBDA e : e.node # node)
At(node) == list[CHOOSE i \in DOMAIN list : list[i].node = node]
Touch(k) == used' = <<k>> \o SelectSeq(used, LAMBDA j : j # k)


(* find: a copy of the entry goes to the front and the old one is erased. *)
find(k) ==
  /\ made < MaxSteps /\ made' = made + 1
  /\ map[k] # 0
  /\ list' = <<[At(map[k]) EXCEPT !.node = made']>> \o Without(map[k])
  /\ map' = [map EXCEPT ![k] = made']
  /\ Touch(k)
  /\ UNCHANGED <<entries, bound>>

(* insert of a new key: the last of the list makes room when the count is  *)
(* at the limit.                                                           *)
insertNew(k, v) ==
  LET pushed == <<[node |-> made', key |-> k, val |-> v]>> \o list
      mapped == [map EXCEPT ![k] = made']
      expired == pushed[Len(pushed)].key
  IN /\ made < MaxSteps /\ made' = made + 1
     /\ map[k] = 0
     /\ IF entries >= Limit
        THEN /\ map' = [mapped EXCEPT ![expired] = 0]
             /\ list' = Front(pushed)
             /\ UNCHANGED entries
        ELSE map' = mapped /\ list' = pushed /\ entries' = entries + 1
     /\ Touch(k)
     /\ bound' = [bound EXCEPT ![k] = v]

insertKnown(k, v) ==
  /\ made < MaxSteps /\ made' = made + 1
  /\ map[k] # 0
  /\ list' = <<[node |-> made', key |-> k, val |-> v]>> \o Without(map[k])
  /\ map' = [map EXCEPT ![k] = made']
  /\ Touch(k)
  /\ bound' = [bound EXCEPT ![k] = v]
  /\ UNCHANGED entries

eraseDrops(k) ==  \* mutant: the map keeps the erased place
  /\ MayErase /\ made < MaxSteps /\ made' = made + 1
  /\ map[k] # 0
  /\ list' = Without(map[k])
  /\ used' = SelectSeq(used, LAMBDA j : j # k)
  /\ UNCHANGED <<map, entries, bound>>

erase(k) ==
  /\ MayErase /\ made < MaxSteps /\ made' = made + 1
  /\ map[k] # 0
  /\ list' = Without(map[k])
  /\ map' = [map EXCEPT ![k] = 0]
  /\ used' = SelectSeq(used, LAMBDA j : j # k)
  /\ UNCHANGED <<entries, bound>>

Next == \E k \in Keys : \/ find(k) \/ erase(k)
                        \/ \E v \in Values : insertNew(k, v) \/ insertKnown(k, v)

Spec == Init /\ [][Next]_vars

-----------------------------------------------------------------------------
(* The map and the list name the same entries: every place in the map is   *)
(* in the list under its key with the value that was inserted last, and    *)
(* every entry of the list is in the map.                                  *)
MapIsList ==
  /\ \A k \in Keys : map[k] # 0 =>
       \E i \in DOMAIN list : list[i].node = map[k] /\ list[i].key = k /\ list[i].val = bound[k]
  /\ \A i \in DOMAIN list : map[list[i].key] = list[i].node

(* "stores items sorted by MRU -> LRU", and as many as it may: the list is *)
(* the keys that were used last and not erased, Limit of them.             *)
KeepsRecent ==
  [i \in DOMAIN list |-> list[i].key]
    = SubSeq(used, 1, IF Len(used) < Limit THEN Len(used) ELSE Limit)

=============================================================================
