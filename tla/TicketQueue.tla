---------------------------- MODULE TicketQueue ----------------------------
(***************************************************************************)
(* What BoundedMpmcQueue promises the event loops and the partition        *)
(* workers: a bounded queue in ticket order.  A push claims the next place *)
(* in the queue and fills it afterwards, so the queue may hold a place     *)
(* that is not ready yet; a pop takes the place at the head, and only when *)
(* it is ready.  A popper holds the slot of the item it took until it has  *)
(* moved the item out, and a slot that is held is not free for a push.     *)
(***************************************************************************)
EXTENDS Naturals, Sequences, FiniteSets

CONSTANTS Producers, Consumers, Values, Capacity, None

VARIABLES
  items,    \* the places, oldest first: [value, by], by = None once ready
  got       \* what a consumer took and has not handed its caller yet

vars == <<items, got>>

Ready(place) == place.by = None

Filling(p) == {i \in DOMAIN items : items[i].by = p}

Holding == {c \in Consumers : got[c] # None}

Init ==
  /\ items = <<>>
  /\ got = [c \in Consumers |-> None]

Claim(p, v) ==
  /\ Filling(p) = {}
  /\ Len(items) + Cardinality(Holding) < Capacity
  /\ items' = Append(items, [value |-> v, by |-> p])
  /\ UNCHANGED got

Fill(p) ==
  /\ \E i \in Filling(p) : items' = [items EXCEPT ![i].by = None]
  /\ UNCHANGED got

Take(c) ==
  /\ got[c] = None
  /\ items # <<>>
  /\ Ready(Head(items))
  /\ got' = [got EXCEPT ![c] = Head(items).value]
  /\ items' = Tail(items)

Release(c) ==
  /\ got[c] # None
  /\ got' = [got EXCEPT ![c] = None]
  /\ UNCHANGED items

Next ==
  \/ \E p \in Producers, v \in Values : Claim(p, v)
  \/ \E p \in Producers : Fill(p)
  \/ \E c \in Consumers : Take(c) \/ Release(c)

Spec == Init /\ [][Next]_vars
=============================================================================
