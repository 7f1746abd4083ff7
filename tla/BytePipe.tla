------------------------------ MODULE BytePipe ------------------------------
(***************************************************************************)
(* What the callers of VSocket rely on: the bytes they hand over arrive at *)
(* the viewer once each, in the order of the calls, until the connection   *)
(* fails; and they do arrive.  Nothing is promised after a failed write.   *)
(***************************************************************************)
EXTENDS Sequences, SequencesExt

VARIABLES
    sent,    \* the bytes handed over
    got,     \* the bytes on their way to the viewer
    failed   \* a write failed, or messages mixed

vars == <<sent, got, failed>>

Init == sent = <<>> /\ got = <<>> /\ failed = FALSE

Accept ==
    /\ IsStrictPrefix(sent, sent')
    /\ UNCHANGED <<got, failed>>

Deliver ==
    /\ IsStrictPrefix(got, got') /\ IsPrefix(got', sent)
    /\ UNCHANGED <<sent, failed>>

Break ==
    /\ failed' = TRUE
    /\ UNCHANGED <<sent, got>>

Next == failed \/ Accept \/ Deliver \/ Break

Spec ==
    /\ Init /\ [][Next]_vars
    /\ []<>(failed \/ got = sent)

=============================================================================
