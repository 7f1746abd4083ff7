--------------------------- MODULE OmniCondition ---------------------------
(***************************************************************************)
(* omni_condition on Windows (winvnc/omnithread/nt.cpp): a condition       *)
(* variable made of a doubly linked list of waiting threads, a critical    *)
(* section for the list, and one semaphore per thread.                     *)
(*                                                                         *)
(* The links are fields of the threads.  A critical section that nobody    *)
(* can look into is one step; broadcast, which kicks semaphores one after  *)
(* the other with the critical section held, is a step per thread.         *)
(***************************************************************************)
EXTENDS Naturals, Sequences

CONSTANTS
    Threads,  \* the threads that use the condition
    Null,     \* the NULL pointer
    Free,     \* the owner of a lock nobody holds
    Kinds     \* the waits that are used: "untimed" is wait(), "ms" is
              \* wait(DWORD) with a finite timeout, "timed" is timedwait()

ASSUME ThreadsAssumption == Null \notin Threads /\ Free \notin Threads
ASSUME KindsAssumption == Kinds \subseteq {"untimed", "ms", "timed"}

VARIABLES
    owner,   \* the owner of the mutex of the condition
    crit,    \* the thread inside broadcast, which holds crit
    head,    \* waiting_head
    tail,    \* waiting_tail
    next,    \* cond_next of each thread
    prev,    \* cond_prev of each thread
    flag,    \* the threads whose cond_waiting is TRUE
    sem,     \* cond_semaphore of each thread
    pc,      \* where each thread is
    kind,    \* the wait each thread is in
    queue    \* history: the list as it should be

listVars == <<head, tail, next, prev, flag, queue>>
threadVars == <<pc, kind>>
vars == <<owner, crit, listVars, sem, threadVars>>

States == {"out",      \* does not hold the mutex
           "locked",   \* holds the mutex
           "listed",   \* in wait, on the list, about to unlock the mutex
           "blocked",  \* waits for its semaphore
           "expired",  \* timedwait: its time is up
           "drain",    \* timedwait: signalled after all, takes the semaphore
           "relock"}   \* about to lock the mutex and return

TypeOK ==
    /\ owner \in Threads \cup {Free}
    /\ crit \in Threads \cup {Free}
    /\ head \in Threads \cup {Null}
    /\ tail \in Threads \cup {Null}
    /\ next \in [Threads -> Threads \cup {Null}]
    /\ prev \in [Threads -> Threads \cup {Null}]
    /\ flag \subseteq Threads
    /\ sem \in [Threads -> Nat]
    /\ pc \in [Threads -> States]
    /\ kind \in [Threads -> {"untimed", "ms", "timed"}]
    /\ queue \in Seq(Threads)

Init ==
    /\ owner = Free /\ crit = Free
    /\ head = Null /\ tail = Null
    /\ next = [t \in Threads |-> Null]
    /\ prev = [t \in Threads |-> Null]
    /\ flag = {}
    /\ sem = [t \in Threads |-> 0]
    /\ pc = [t \in Threads |-> "out"]
    /\ kind = [t \in Threads |-> "untimed"]
    /\ queue = << >>

Goto(t, state) == pc' = [pc EXCEPT ![t] = state] /\ UNCHANGED kind

-----------------------------------------------------------------------------
(* The callers of the condition lock and unlock its mutex.                 *)
Lock(t) ==
    /\ pc[t] = "out" /\ crit # t /\ owner = Free
    /\ owner' = t
    /\ Goto(t, "locked")
    /\ UNCHANGED <<crit, listVars, sem>>

Unlock(t) ==
    /\ pc[t] = "locked" /\ crit # t
    /\ owner' = Free
    /\ Goto(t, "out")
    /\ UNCHANGED <<crit, listVars, sem>>

-----------------------------------------------------------------------------
(* wait() and timedwait().                                                 *)

(* The assignments that link t in at the tail, in their order.             *)
AppendToList(t) ==
    /\ next' = IF head = Null THEN [next EXCEPT ![t] = Null]
               ELSE [next EXCEPT ![t] = Null, ![tail] = t]
    /\ prev' = [prev EXCEPT ![t] = tail]
    /\ head' = IF head = Null THEN t ELSE head
    /\ tail' = t

Enqueue(t, k) ==
    /\ pc[t] = "locked" /\ crit = Free
    /\ AppendToList(t)
    /\ flag' = flag \cup {t}
    /\ queue' = Append(queue, t)
    /\ pc' = [pc EXCEPT ![t] = "listed"]
    /\ kind' = [kind EXCEPT ![t] = k]
    /\ UNCHANGED <<owner, crit, sem>>

ReleaseMutex(t) ==
    /\ pc[t] = "listed"
    /\ owner' = Free
    /\ Goto(t, "blocked")
    /\ UNCHANGED <<crit, listVars, sem>>

(* A wait that goes on whether the semaphore was kicked or not.            *)
MutantNoBlock(t) == sem' = [sem EXCEPT ![t] = sem[t] - 1]

TakeSemaphore(t) ==
    /\ sem[t] > 0
    /\ sem' = [sem EXCEPT ![t] = sem[t] - 1]

Wake(t) ==
    /\ pc[t] = "blocked"
    /\ TakeSemaphore(t)
    /\ Goto(t, "relock")
    /\ UNCHANGED <<owner, crit, listVars>>

(* wait(DWORD) only notes that it timed out; timedwait looks again.        *)
TimeOut(t) ==
    /\ pc[t] = "blocked" /\ sem[t] = 0
    /\ \/ kind[t] = "ms" /\ Goto(t, "relock")
       \/ kind[t] = "timed" /\ Goto(t, "expired")
    /\ UNCHANGED <<owner, crit, listVars, sem>>

(* The sequence q without its element at k.                                *)
Without(q, k) ==
    [i \in 1 .. Len(q) - 1 |-> IF i < k THEN q[i] ELSE q[i + 1]]

Unlink(t) ==
    /\ IF prev[t] # Null
         THEN next' = [next EXCEPT ![prev[t]] = next[t]] /\ UNCHANGED head
         ELSE head' = next[t] /\ UNCHANGED next
    /\ IF next[t] # Null
         THEN prev' = [prev EXCEPT ![next[t]] = prev[t]] /\ UNCHANGED tail
         ELSE tail' = prev[t] /\ UNCHANGED prev
    /\ flag' = flag \ {t}
    /\ \E k \in DOMAIN queue : queue[k] = t /\ queue' = Without(queue, k)

LeaveList(t) ==
    /\ pc[t] = "expired" /\ crit = Free
    /\ t \in flag
    /\ Unlink(t)
    /\ Goto(t, "relock")
    /\ UNCHANGED <<owner, crit, sem>>

(* Another thread signalled in between: the semaphore must be taken.       *)
Resync(t) ==
    /\ pc[t] = "expired" /\ crit = Free
    /\ t \notin flag
    /\ Goto(t, "drain")
    /\ UNCHANGED <<owner, crit, listVars, sem>>

Drain(t) ==
    /\ pc[t] = "drain"
    /\ TakeSemaphore(t)
    /\ Goto(t, "relock")
    /\ UNCHANGED <<owner, crit, listVars>>

Relock(t) ==
    /\ pc[t] = "relock" /\ owner = Free
    /\ owner' = t
    /\ Goto(t, "locked")
    /\ UNCHANGED <<crit, listVars, sem>>

-----------------------------------------------------------------------------
(* signal() and broadcast(), which need not hold the mutex.                *)

(* KickHead that forgets to reset the tail of an emptied list.             *)
MutantKeepTail ==
    /\ head # Null
    /\ head' = next[head]
    /\ UNCHANGED tail
    /\ prev' = IF next[head] = Null THEN prev
               ELSE [prev EXCEPT ![next[head]] = Null]
    /\ flag' = flag \ {head}
    /\ sem' = [sem EXCEPT ![head] = sem[head] + 1]
    /\ queue' = Without(queue, 1)
    /\ UNCHANGED next

(* KickHead that forgets cond_waiting.                                     *)
MutantKeepFlag ==
    /\ head # Null
    /\ head' = next[head]
    /\ tail' = IF next[head] = Null THEN Null ELSE tail
    /\ prev' = IF next[head] = Null THEN prev
               ELSE [prev EXCEPT ![next[head]] = Null]
    /\ UNCHANGED flag
    /\ sem' = [sem EXCEPT ![head] = sem[head] + 1]
    /\ queue' = Without(queue, 1)
    /\ UNCHANGED next

(* Take the head off the list and kick its semaphore.                      *)
KickHead ==
    /\ head # Null
    /\ head' = next[head]
    /\ tail' = IF next[head] = Null THEN Null ELSE tail
    /\ prev' = IF next[head] = Null THEN prev
               ELSE [prev EXCEPT ![next[head]] = Null]
    /\ flag' = flag \ {head}
    /\ sem' = [sem EXCEPT ![head] = sem[head] + 1]
    /\ queue' = Without(queue, 1)
    /\ UNCHANGED next

(* A thread that is not inside wait or broadcast may call them.            *)
MaySignal(t) == pc[t] \in {"out", "locked"} /\ crit = Free

(* With an empty list signal() does nothing.                               *)
Signal(t) ==
    /\ MaySignal(t)
    /\ KickHead
    /\ UNCHANGED <<owner, crit, threadVars>>

BeginBroadcast(t) ==
    /\ MaySignal(t)
    /\ crit' = t
    /\ UNCHANGED <<owner, listVars, sem, threadVars>>

BroadcastKick(t) ==
    /\ crit = t
    /\ KickHead
    /\ UNCHANGED <<owner, crit, threadVars>>

(* A broadcast that takes the mutex of the condition before it returns.    *)
MutantEndWithMutex(t) ==
    /\ crit = t
    /\ head = Null
    /\ owner = Free
    /\ crit' = Free
    /\ UNCHANGED <<owner, listVars, sem, threadVars>>

EndBroadcast(t) ==
    /\ crit = t
    /\ head = Null
    /\ crit' = Free
    /\ UNCHANGED <<owner, listVars, sem, threadVars>>

-----------------------------------------------------------------------------
Next ==
    \E t \in Threads :
        \/ Lock(t) \/ Unlock(t)
        \/ \E k \in Kinds : Enqueue(t, k)
        \/ ReleaseMutex(t) \/ Wake(t) \/ TimeOut(t)
        \/ LeaveList(t) \/ Resync(t) \/ Drain(t) \/ Relock(t)
        \/ Signal(t) \/ BeginBroadcast(t) \/ BroadcastKick(t)
        \/ EndBroadcast(t)

Spec == Init /\ [][Next]_vars

(* A thread inside wait or broadcast keeps running; one that holds the     *)
(* mutex gives it back; a thread that waits for the mutex or for crit gets *)
(* it if it is free again and again.                                       *)
Fairness ==
    \A t \in Threads :
        /\ WF_vars(ReleaseMutex(t) \/ Wake(t) \/ Drain(t))
        /\ WF_vars(BroadcastKick(t) \/ EndBroadcast(t))
        /\ WF_vars(Unlock(t))
        /\ SF_vars(LeaveList(t) \/ Resync(t))
        /\ SF_vars(Relock(t))

FairSpec == Spec /\ Fairness

-----------------------------------------------------------------------------
(* The links of the threads on the list are those of the queue of waiting  *)
(* threads, in both directions, and cond_waiting marks exactly these.      *)
ListIsQueue ==
    /\ head = IF queue = << >> THEN Null ELSE queue[1]
    /\ tail = IF queue = << >> THEN Null ELSE queue[Len(queue)]
    /\ \A i \in 1 .. Len(queue) :
         /\ next[queue[i]] = IF i = Len(queue) THEN Null ELSE queue[i + 1]
         /\ prev[queue[i]] = IF i = 1 THEN Null ELSE queue[i - 1]
    /\ \A i, j \in 1 .. Len(queue) : queue[i] = queue[j] => i = j
    /\ flag = {queue[i] : i \in 1 .. Len(queue)}

(* "the waiting thread's semaphore is now out of step so it needs          *)
(* resetting": a thread inside wait is on the list or its semaphore has    *)
(* been kicked, once and not both, and outside wait neither is true.  So no*)
(* wakeup is lost and none is left over for the next wait.                 *)
SemaphoreInStep ==
    \A t \in Threads :
        IF pc[t] \in {"listed", "blocked", "expired", "drain"}
          THEN sem[t] = IF t \in flag THEN 0 ELSE 1
          ELSE sem[t] = 0 /\ t \notin flag

(* The threads that have called wait and nobody has woken yet.             *)
Waiting == {t \in Threads : pc[t] \in {"listed", "blocked", "expired"} /\ sem[t] = 0}

(* "if one or more threads have called wait(), signal wakes up at least one*)
(* of them": a signal kicks the semaphore of a thread that waits.          *)
SignalWakesOne ==
    [][(\E t \in Threads : Signal(t)) /\ Waiting # {}
         => \E t \in Waiting : sem'[t] = 1]_vars

(* A broadcast empties the list and ends.                                  *)
BroadcastEnds == \A t \in Threads : crit = t ~> crit # t

(* A condition variable as its header describes it.                        *)
AbstractState(s) ==
    CASE s = "out"    -> "out"
      [] s = "locked" -> "holds"
      [] s = "listed" -> "entering"
      [] OTHER        -> "asleep"

Abstract == INSTANCE CondVar WITH
                state <- [t \in Threads |-> AbstractState(pc[t])],
                waiting <- flag

CondVarSpec == Abstract!Spec
=============================================================================
