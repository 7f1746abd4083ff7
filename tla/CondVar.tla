------------------------------ MODULE CondVar ------------------------------
(***************************************************************************)
(* What omnithread.h promises of a condition variable: the mutex is        *)
(* implicitly released before waiting and locked again after waking up; a  *)
(* signal wakes at least one of the threads that have called wait, if any; *)
(* a timed wait gives up when its time expired and it was not woken.       *)
(***************************************************************************)
CONSTANTS Threads, Free

VARIABLES
    owner,    \* the owner of the mutex
    state,    \* what each thread does with the mutex and the condition
    waiting   \* the threads that have called wait and were not woken yet

vars == <<owner, state, waiting>>

Init ==
    /\ owner = Free
    /\ state = [t \in Threads |-> "out"]
    /\ waiting = {}

Lock(t) ==
    /\ state[t] = "out" /\ owner = Free
    /\ owner' = t
    /\ state' = [state EXCEPT ![t] = "holds"]
    /\ UNCHANGED waiting

Unlock(t) ==
    /\ state[t] = "holds"
    /\ owner' = Free
    /\ state' = [state EXCEPT ![t] = "out"]
    /\ UNCHANGED waiting

(* From here on a signal can wake t, although it still has the mutex.      *)
BeginWait(t) ==
    /\ state[t] = "holds"
    /\ state' = [state EXCEPT ![t] = "entering"]
    /\ waiting' = waiting \cup {t}
    /\ UNCHANGED owner

Sleep(t) ==
    /\ state[t] = "entering"
    /\ owner' = Free
    /\ state' = [state EXCEPT ![t] = "asleep"]
    /\ UNCHANGED waiting

(* A signal, or a part of a broadcast.                                     *)
Wake(ts) ==
    /\ ts # {} /\ ts \subseteq waiting
    /\ waiting' = waiting \ ts
    /\ UNCHANGED <<owner, state>>

TimeOut(t) ==
    /\ state[t] = "asleep" /\ t \in waiting
    /\ waiting' = waiting \ {t}
    /\ UNCHANGED <<owner, state>>

Return(t) ==
    /\ state[t] = "asleep" /\ t \notin waiting
    /\ owner = Free
    /\ owner' = t
    /\ state' = [state EXCEPT ![t] = "holds"]
    /\ UNCHANGED waiting

Next ==
    \/ \E t \in Threads : \/ Lock(t) \/ Unlock(t) \/ BeginWait(t) \/ Sleep(t)
                          \/ TimeOut(t) \/ Return(t)
    \/ \E ts \in SUBSET Threads : Wake(ts)

Behaviour == Init /\ [][Next]_vars

(* A thread that was woken gets the mutex back.                            *)
Spec == Behaviour /\ \A t \in Threads : SF_vars(Return(t))
=============================================================================
