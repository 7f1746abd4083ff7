-------------------------- MODULE MCOmniCondition --------------------------
(* Three threads, so that a thread leaves the middle of the list.          *)
EXTENDS OmniCondition, TLC

CONSTANTS t1, t2, t3

TwoThreads == {t1, t2}
ThreeThreads == {t1, t2, t3}
TimedKind == {"timed"}
MsKind == {"ms"}

Symmetric == Permutations(ThreeThreads)
=============================================================================
