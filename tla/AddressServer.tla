--------------------------- MODULE AddressServer ---------------------------
(***************************************************************************)
(* What the network promises its nodes: each is leased one address for     *)
(* good, no two the same and none the router's, and what a node holds is   *)
(* its lease, also after it has forgotten and asked again.                 *)
(***************************************************************************)
CONSTANTS Node, Addr

VARIABLES lease,    \* the address leased to each node, or NoAddr
          held      \* the address each node goes by, or NoAddr

vars == << lease, held >>

NoAddr == 0

Init ==
  /\ lease = [n \in Node |-> NoAddr]
  /\ held = [n \in Node |-> NoAddr]

Grant(n) ==
  /\ lease[n] = NoAddr
  /\ \E a \in Addr \ {NoAddr} :
       /\ \A m \in Node : lease[m] # a
       /\ lease' = [lease EXCEPT ![n] = a]
  /\ UNCHANGED held

Take(n) ==
  /\ held[n] = NoAddr /\ lease[n] # NoAddr
  /\ held' = [held EXCEPT ![n] = lease[n]]
  /\ UNCHANGED lease

Forget(n) ==
  /\ held' = [held EXCEPT ![n] = NoAddr]
  /\ UNCHANGED lease

Next == \E n \in Node : Grant(n) \/ Take(n) \/ Forget(n)

Spec == Init /\ [][Next]_vars
=============================================================================
