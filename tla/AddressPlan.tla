----------------------------- MODULE AddressPlan -----------------------------
(***************************************************************************)
(* What the relay promises about addresses, with no rooms, tables or locks: *)
(* a peer that joins under a name gets an address that nobody has, in a /24 *)
(* that it shares with exactly the peers of the same name, and keeps it     *)
(* until it leaves.  Relay is shown to implement this specification.        *)
(***************************************************************************)
EXTENDS Integers

CONSTANTS Peers, Names, Addresses, Nobody

VARIABLE lease   \* what each peer has been given, or Nobody

\* The /24 of an address, by its first address.
Subnet(a) == a - (a % 256)

Leased == {p \in Peers : lease[p] # Nobody}

PlanInit == lease = [p \in Peers |-> Nobody]

\* Peer p joins under name n and is given address a.
Take(p, n, a) ==
  /\ lease[p] = Nobody
  /\ \A q \in Leased :
       /\ lease[q].addr # a
       /\ lease[q].name = n <=> Subnet(lease[q].addr) = Subnet(a)
  /\ lease' = [lease EXCEPT ![p] = [name |-> n, addr |-> a]]

\* Peer p leaves.
Release(p) ==
  /\ lease[p] # Nobody
  /\ lease' = [lease EXCEPT ![p] = Nobody]

PlanNext ==
  \E p \in Peers :
    \/ \E n \in Names, a \in Addresses : Take(p, n, a)
    \/ Release(p)

PlanSpec == PlanInit /\ [][PlanNext]_lease
=============================================================================
