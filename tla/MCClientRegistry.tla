-------------------------- MODULE MCClientRegistry --------------------------
(* Small instances of ClientRegistry.  The table has one slot more than ids*)
(* are handed out.  With three connections and two usable slots ids run out*)
(* and are used again.                                                     *)
EXTENDS ClientRegistry, TLC

CONSTANTS c1, c2, c3

TwoClients == {c1, c2}
ThreeClients == {c1, c2, c3}
ThreeSlots == 3
AllPriorities == {0, 1, 2, 3}
DisconnectOnly == {0}

Symmetric == Permutations(ThreeClients)
=============================================================================
