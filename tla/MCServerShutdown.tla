-------------------------- MODULE MCServerShutdown --------------------------
(* Two connections while the server goes down.                             *)
EXTENDS ServerShutdown, TLC

CONSTANTS c1, c2

TwoClients == {c1, c2}
ThreeSlots == 3
OneSetting == {1}
EveryOutcome == {"ignored", "frees", "jams"}
Ignored == {"ignored"}

Symmetric == Permutations(TwoClients)
=============================================================================
