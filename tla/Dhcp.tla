-------------------------------- MODULE Dhcp --------------------------------
(***************************************************************************)
(* The router's address pool (dhcp.c): a list of ids with their addresses, *)
(* searched and appended to by get_addr, never shortened.                  *)
(***************************************************************************)
EXTENDS Sequences, Naturals

CONSTANTS Ids,          \* what the twelve bytes of an id can be
          AddrSpace     \* addresses a byte can hold, 256

Entry == [id: Ids, addr: 0 .. AddrSpace - 1]

\* dhcp_init: the router itself, at ROUTER_ADDRESS.
dhcp_init(router) == << [id |-> router, addr |-> 0] >>

Found(pool, id) == \E i \in 1 .. Len(pool) : pool[i].id = id

AddrOf(pool, id) ==
  pool[CHOOSE i \in 1 .. Len(pool) : pool[i].id = id].addr

\* Mutant of Grown: nobody is looked up.
GrownBlindly(pool, id) ==
  Append(pool, [id |-> id, addr |-> Len(pool) % AddrSpace])

\* The list after get_addr: addr counts its nodes in a byte.
Grown(pool, id) ==
  IF Found(pool, id) THEN pool
  ELSE Append(pool, [id |-> id, addr |-> Len(pool) % AddrSpace])

get_addr(pool, id) == AddrOf(Grown(pool, id), id)

-----------------------------------------------------------------------------
(* What makes a pool correct *)

\* As long as the byte does not overflow, no id is listed twice and no address
\* is given out twice.
PoolSound(pool) ==
  Len(pool) <= AddrSpace =>
    \A i, j \in 1 .. Len(pool) :
      i # j => pool[i].id # pool[j].id /\ pool[i].addr # pool[j].addr
=============================================================================
