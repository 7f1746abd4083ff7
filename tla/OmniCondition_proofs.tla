------------------------ MODULE OmniCondition_proofs ------------------------
(***************************************************************************)
(* Proofs about OmniCondition for any number of threads: its linked list,  *)
(* its semaphores and its mutex are right after every step, and it         *)
(* implements CondVar, as long as wait(DWORD) is not used with a finite    *)
(* timeout.                                                                *)
(***************************************************************************)
EXTENDS OmniCondition, SequenceTheorems, TLAPS

(* The mutex is held by one thread: the one that thinks so.                *)
MutexHeldByOne ==
    \A t \in Threads : owner = t <=> pc[t] \in {"locked", "listed"}

NoFiniteWait == \A t \in Threads : kind[t] # "ms"

IInv ==
    TypeOK /\ NoFiniteWait /\ MutexHeldByOne /\ SemaphoreInStep /\ ListIsQueue

USE ThreadsAssumption, KindsAssumption

-----------------------------------------------------------------------------
(* The history sequence.                                                   *)

(* Removing an element moves the later ones down by one.                   *)
LEMMA WithoutElement ==
    ASSUME NEW S, NEW q \in Seq(S), NEW k \in 1 .. Len(q)
    PROVE  /\ Without(q, k) \in Seq(S)
           /\ Len(Without(q, k)) = Len(q) - 1
           /\ \A i \in 1 .. Len(q) - 1 :
                Without(q, k)[i] = IF i < k THEN q[i] ELSE q[i + 1]
<1> DEFINE n == Len(q) - 1
<1>1. n \in Nat /\ q \in [1 .. Len(q) -> S]
  OBVIOUS
<1>2. Without(q, k) \in [1 .. n -> S]
  BY <1>1 DEF Without
<1>3. Without(q, k) \in Seq(S)
  BY <1>1, <1>2, SeqDef
<1>4. Len(Without(q, k)) = n
  <2> DEFINE m == Len(Without(q, k))
  <2>1. m \in Nat /\ DOMAIN Without(q, k) = 1 .. m
    BY <1>3, LenProperties
  <2>2. 1 .. m = 1 .. n
    BY <1>2, <2>1
  <2> HIDE DEF m, n
  <2>3. ~(m > n) /\ ~(n > m)
    <3>1. m > n => m \in 1 .. m /\ m \notin 1 .. n
      BY <1>1, <2>1
    <3>2. n > m => n \in 1 .. n /\ n \notin 1 .. m
      BY <1>1, <2>1
    <3>3. QED
      BY <2>2, <3>1, <3>2
  <2>4. m = n
    BY <1>1, <2>1, <2>3
  <2>5. QED
    BY <2>4 DEF m, n
<1>5. QED
  BY <1>3, <1>4 DEF Without

(* What ListIsQueue says of one thread on the list.                        *)
LEMMA Links ==
    ASSUME TypeOK, ListIsQueue, NEW i \in 1 .. Len(queue)
    PROVE  /\ queue[i] \in Threads /\ queue[i] # Null /\ queue[i] \in flag
           /\ i = Len(queue) => next[queue[i]] = Null
           /\ i # Len(queue) => /\ i + 1 \in 1 .. Len(queue)
                                /\ next[queue[i]] = queue[i + 1]
                                /\ queue[i + 1] \in Threads
           /\ i = 1 => prev[queue[i]] = Null
           /\ i # 1 => /\ i - 1 \in 1 .. Len(queue)
                       /\ prev[queue[i]] = queue[i - 1]
                       /\ queue[i - 1] \in Threads
<1>1. Len(queue) \in Nat /\ \A j \in 1 .. Len(queue) : queue[j] \in Threads
  BY DEF TypeOK
<1>2. /\ next[queue[i]] = IF i = Len(queue) THEN Null ELSE queue[i + 1]
      /\ prev[queue[i]] = IF i = 1 THEN Null ELSE queue[i - 1]
      /\ queue[i] \in flag
  BY DEF ListIsQueue
<1>3. QED
  BY <1>1, <1>2

-----------------------------------------------------------------------------
(* The three operations on the list.                                       *)

LEMMA AppendKeepsList ==
    ASSUME TypeOK, ListIsQueue, NEW t \in Threads, t \notin flag,
           AppendToList(t), flag' = flag \cup {t}, queue' = Append(queue, t)
    PROVE  ListIsQueue' /\ queue' \in Seq(Threads)
<1> DEFINE n == Len(queue)
<1>1. /\ n \in Nat
      /\ queue' \in Seq(Threads) /\ Len(queue') = n + 1 /\ queue' # << >>
      /\ \A i \in 1 .. n : queue'[i] = queue[i] /\ queue[i] \in Threads
      /\ queue'[n + 1] = t
  BY DEF TypeOK
<1>2. \A i \in 1 .. n : queue[i] # t
  <2>1. flag = {queue[i] : i \in 1 .. n} /\ t \notin flag
    BY DEF ListIsQueue
  <2>2. QED
    BY <2>1
<1>3. head = Null <=> n = 0
  BY <1>1 DEF ListIsQueue, TypeOK
<1>4. (head = IF queue = << >> THEN Null ELSE queue[1])'
  BY <1>1, <1>3 DEF AppendToList, ListIsQueue, TypeOK
<1>5. (tail = IF queue = << >> THEN Null ELSE queue[Len(queue)])'
  BY <1>1 DEF AppendToList
<1>6. ASSUME NEW i \in 1 .. n + 1
      PROVE  /\ next'[queue'[i]] = IF i = n + 1 THEN Null ELSE queue'[i + 1]
             /\ prev'[queue'[i]] = IF i = 1 THEN Null ELSE queue'[i - 1]
  <2>1. CASE i = n + 1
    BY <1>1, <1>2, <1>3, <2>1 DEF AppendToList, ListIsQueue, TypeOK
  <2>2. CASE i \in 1 .. n - 1
    <3>1. /\ queue'[i] = queue[i] /\ queue[i] # t /\ queue[i] # tail
          /\ queue'[i + 1] = queue[i + 1]
          /\ i # 1 => queue'[i - 1] = queue[i - 1]
      BY <1>1, <1>2, <2>2 DEF ListIsQueue
    <3>2. /\ next'[queue[i]] = next[queue[i]]
          /\ prev'[queue[i]] = prev[queue[i]]
      BY <1>1, <3>1, <2>2 DEF AppendToList, TypeOK
    <3>3. QED
      BY <1>1, <2>2, <3>1, <3>2 DEF ListIsQueue
  <2>3. CASE i = n
    <3>1. /\ queue'[i] = queue[i] /\ queue[i] # t /\ queue[i] = tail
          /\ i # 1 => queue'[i - 1] = queue[i - 1]
      BY <1>1, <1>2, <2>3 DEF ListIsQueue
    <3>2. /\ next'[queue[i]] = t
          /\ prev'[queue[i]] = prev[queue[i]]
      BY <1>1, <1>3, <3>1, <2>3 DEF AppendToList, TypeOK
    <3>3. QED
      BY <1>1, <2>3, <3>1, <3>2 DEF ListIsQueue
  <2>4. QED
    BY <1>1, <2>1, <2>2, <2>3
<1>7. (\A i \in 1 .. Len(queue) :
         /\ next[queue[i]] = IF i = Len(queue) THEN Null ELSE queue[i + 1]
         /\ prev[queue[i]] = IF i = 1 THEN Null ELSE queue[i - 1])'
  BY <1>1, <1>6
<1>8. (\A i, j \in 1 .. Len(queue) : queue[i] = queue[j] => i = j)'
  BY <1>1, <1>2 DEF ListIsQueue
<1>9. (flag = {queue[i] : i \in 1 .. Len(queue)})'
  <2>1. flag = {queue[i] : i \in 1 .. n}
    BY DEF ListIsQueue
  <2>2. QED
    BY <1>1, <2>1
<1>10. QED
  BY <1>1, <1>4, <1>5, <1>7, <1>8, <1>9 DEF ListIsQueue

(* Taking the head off leaves the rest of the list as it is.               *)
LEMMA KickKeepsList ==
    ASSUME TypeOK, ListIsQueue, KickHead
    PROVE  /\ ListIsQueue' /\ queue' \in Seq(Threads)
           /\ head \in flag
<1> DEFINE n == Len(queue)
<1>1. n \in Nat /\ queue # << >> /\ n > 0 /\ head = queue[1]
  BY DEF TypeOK, ListIsQueue, KickHead
<1>2. /\ queue' \in Seq(Threads) /\ Len(queue') = n - 1
      /\ \A i \in 1 .. n - 1 : queue'[i] = queue[i + 1]
  <2>1. queue \in Seq(Threads) /\ 1 \in 1 .. Len(queue)
    BY <1>1 DEF TypeOK
  <2>2. queue' = Without(queue, 1)
    BY DEF KickHead
  <2>3. \A i \in 1 .. n - 1 : i >= 1 /\ ~(i < 1)
    BY <1>1
  <2>4. QED
    BY <1>1, <2>1, <2>2, <2>3, WithoutElement
<1>3. queue' = << >> <=> n = 1
  BY <1>1, <1>2, EmptySeq
<1>4. /\ next[head] = IF n = 1 THEN Null ELSE queue[2]
      /\ \A i \in 1 .. n : queue[i] \in Threads /\ queue[i] # Null
  <2>1. \A i \in 1 .. n : queue[i] \in Threads /\ queue[i] # Null
    BY Links
  <2>2. 1 \in 1 .. n
    BY <1>1
  <2>3. next[head] = IF n = 1 THEN Null ELSE queue[1 + 1]
    BY <1>1, <2>2 DEF ListIsQueue
  <2>4. QED
    BY <2>1, <2>3
<1>5. (head = IF queue = << >> THEN Null ELSE queue[1])'
  <2>1. head' = next[head]
    BY DEF KickHead
  <2>2. n # 1 => queue'[1] = queue[2]
    BY <1>1, <1>2
  <2>3. QED
    BY <1>3, <1>4, <2>1, <2>2
<1>6. (tail = IF queue = << >> THEN Null ELSE queue[Len(queue)])'
  <2>1. tail' = IF n = 1 THEN Null ELSE queue[n]
    <3>1. tail = queue[n]
      BY <1>1 DEF ListIsQueue
    <3>2. n # 1 => queue[2] # Null
      <4>1. n # 1 => 2 \in 1 .. n
        <5> HIDE DEF n
        <5>1. n \in Nat /\ n > 0
          BY <1>1
        <5>2. QED
          BY <5>1
      <4>2. QED
        BY <1>4, <4>1
    <3>3. QED
      BY <1>1, <1>4, <3>1, <3>2 DEF KickHead
  <2>2. n # 1 => queue'[n - 1] = queue[n]
    BY <1>1, <1>2
  <2>3. QED
    BY <1>2, <1>3, <2>1, <2>2
<1>7. (\A i \in 1 .. Len(queue) :
         /\ next[queue[i]] = IF i = Len(queue) THEN Null ELSE queue[i + 1]
         /\ prev[queue[i]] = IF i = 1 THEN Null ELSE queue[i - 1])'
  <2>1. ASSUME NEW i \in 1 .. n - 1
        PROVE  /\ next'[queue'[i]] = IF i = n - 1 THEN Null ELSE queue'[i + 1]
               /\ prev'[queue'[i]] = IF i = 1 THEN Null ELSE queue'[i - 1]
    <3>0. next' = next /\ queue'[i] = queue[i + 1] /\ i + 1 \in 1 .. n
      BY <1>1, <1>2 DEF KickHead
    <3>1. next'[queue'[i]] = IF i = n - 1 THEN Null ELSE queue'[i + 1]
      <4>1. next[queue[i + 1]] = IF i + 1 = n THEN Null ELSE queue[i + 2]
        BY <1>1, <3>0 DEF ListIsQueue
      <4>2. i # n - 1 => queue'[i + 1] = queue[i + 2]
        BY <1>1, <1>2
      <4>3. QED
        BY <1>1, <3>0, <4>1, <4>2
    <3>2. CASE i = 1
      <4>1. next[head] = queue[2] /\ queue[2] \in Threads
        BY <1>1, <1>4, <3>0, <3>2
      <4>2. prev'[queue[2]] = Null
        BY <4>1, ThreadsAssumption DEF KickHead, TypeOK
      <4>3. QED
        BY <1>1, <3>0, <3>1, <3>2, <4>2
    <3>3. CASE i # 1
      <4>1. queue[i + 1] # queue[2] /\ next[head] = queue[2]
        BY <1>1, <1>4, <3>3 DEF ListIsQueue
      <4>2. prev'[queue[i + 1]] = queue[i]
        BY <1>1, <1>4, <4>1, <3>3 DEF KickHead, ListIsQueue, TypeOK
      <4>3. queue'[i - 1] = queue[i]
        <5>1. i - 1 \in 1 .. n - 1 /\ i - 1 + 1 = i
          BY <1>1, <3>3
        <5>2. QED
          BY <1>2, <5>1
      <4>4. QED
        BY <3>0, <3>1, <3>3, <4>2, <4>3
    <3>4. QED
      BY <3>2, <3>3
  <2>2. QED
    BY <1>2, <2>1
<1>8. (\A i, j \in 1 .. Len(queue) : queue[i] = queue[j] => i = j)'
  BY <1>1, <1>2 DEF ListIsQueue
<1>9. (flag = {queue[i] : i \in 1 .. Len(queue)})'
  <2>1. flag = {queue[i] : i \in 1 .. n} /\ flag' = flag \ {queue[1]}
    BY <1>1 DEF ListIsQueue, KickHead
  <2>2. ASSUME NEW i \in 1 .. n - 1
        PROVE  queue'[i] \in flag'
    BY <1>1, <1>2, <2>1 DEF ListIsQueue
  <2>3. ASSUME NEW u \in flag'
        PROVE  \E i \in 1 .. n - 1 : queue'[i] = u
    <3>1. PICK j \in 1 .. n : queue[j] = u /\ j # 1
      BY <2>1
    <3>2. j - 1 \in 1 .. n - 1 /\ queue'[j - 1] = u
      BY <1>1, <1>2, <3>1
    <3>3. QED
      BY <3>2
  <2>4. QED
    BY <1>2, <2>2, <2>3
<1>10. head \in flag
  BY <1>1 DEF ListIsQueue
<1>11. QED
  BY <1>2, <1>5, <1>6, <1>7, <1>8, <1>9, <1>10 DEF ListIsQueue

(* A thread that gives up may leave from anywhere.                         *)
LEMMA UnlinkKeepsList ==
    ASSUME TypeOK, ListIsQueue, NEW t \in Threads, Unlink(t)
    PROVE  ListIsQueue' /\ queue' \in Seq(Threads)
<1> DEFINE n == Len(queue)
<1>1. PICK k \in 1 .. n : queue[k] = t /\ queue' = Without(queue, k)
  BY DEF Unlink, TypeOK
<1>2. /\ n \in Nat /\ n > 0
      /\ queue' \in Seq(Threads) /\ Len(queue') = n - 1
      /\ \A i \in 1 .. n - 1 :
           queue'[i] = IF i < k THEN queue[i] ELSE queue[i + 1]
  <2>1. queue \in Seq(Threads) /\ n \in Nat /\ n > 0
    BY <1>1 DEF TypeOK
  <2>2. QED
    BY <1>1, <2>1, WithoutElement
<1>3. queue' = << >> <=> n = 1
  BY <1>2, EmptySeq
<1>4. /\ k = n => next[t] = Null
      /\ k # n => next[t] = queue[k + 1] /\ next[t] # Null /\ k + 1 \in 1 .. n
      /\ k = 1 => prev[t] = Null
      /\ k # 1 => prev[t] = queue[k - 1] /\ prev[t] # Null /\ k - 1 \in 1 .. n
      /\ \A i \in 1 .. n : queue[i] \in Threads
      /\ \A i, j \in 1 .. n : queue[i] = queue[j] => i = j
  <2>1. \A i, j \in 1 .. n : queue[i] = queue[j] => i = j
    BY DEF ListIsQueue
  <2>2. \A i \in 1 .. n : queue[i] \in Threads /\ queue[i] # Null
    BY Links
  <2>3. QED
    BY <1>1, <2>1, <2>2, Links
<1>5. (head = IF queue = << >> THEN Null ELSE queue[1])'
  <2>1. head = queue[1]
    BY <1>2, <1>1 DEF ListIsQueue
  <2>2. CASE k = 1
    <3>1. head' = next[t]
      BY <1>4, <2>2 DEF Unlink
    <3>2. QED
      BY <1>2, <1>3, <1>4, <2>2, <3>1
  <2>3. CASE k # 1
    <3>1. head' = head /\ n # 1 /\ queue'[1] = queue[1]
      BY <1>1, <1>2, <1>4, <2>3 DEF Unlink
    <3>2. QED
      BY <1>3, <2>1, <3>1
  <2>4. QED
    BY <2>2, <2>3
<1>6. (tail = IF queue = << >> THEN Null ELSE queue[Len(queue)])'
  <2>1. tail = queue[n]
    BY <1>2, <1>1 DEF ListIsQueue
  <2>2. CASE k = n
    <3>1. tail' = prev[t]
      BY <1>4, <2>2 DEF Unlink
    <3>2. QED
      BY <1>2, <1>3, <1>4, <2>2, <3>1
  <2>3. CASE k # n
    <3>1. tail' = tail /\ n # 1 /\ queue'[n - 1] = queue[n]
      BY <1>1, <1>2, <1>4, <2>3 DEF Unlink
    <3>2. QED
      BY <1>2, <1>3, <2>1, <3>1
  <2>4. QED
    BY <2>2, <2>3
<1>7. ASSUME NEW i \in 1 .. n, i # k
      PROVE  /\ next'[queue[i]] = IF i + 1 = k THEN next[t] ELSE next[queue[i]]
             /\ prev'[queue[i]] = IF i - 1 = k THEN prev[t] ELSE prev[queue[i]]
  <2>1. next'[queue[i]] = IF i + 1 = k THEN next[t] ELSE next[queue[i]]
    <3>1. CASE k = 1
      BY <1>1, <1>2, <1>4, <1>7, <3>1 DEF Unlink
    <3>2. CASE k # 1
      <4>1. next' = [next EXCEPT ![queue[k - 1]] = next[t]]
        BY <1>4, <3>2 DEF Unlink
      <4>2. queue[i] = queue[k - 1] <=> i + 1 = k
        BY <1>2, <1>4, <1>7, <3>2
      <4>3. QED
        BY <1>4, <4>1, <4>2 DEF TypeOK
    <3>3. QED
      BY <3>1, <3>2
  <2>2. prev'[queue[i]] = IF i - 1 = k THEN prev[t] ELSE prev[queue[i]]
    <3>1. CASE k = n
      BY <1>1, <1>2, <1>4, <1>7, <3>1 DEF Unlink
    <3>2. CASE k # n
      <4>1. prev' = [prev EXCEPT ![queue[k + 1]] = prev[t]]
        BY <1>4, <3>2 DEF Unlink
      <4>2. queue[i] = queue[k + 1] <=> i - 1 = k
        BY <1>2, <1>4, <1>7, <3>2
      <4>3. QED
        BY <1>4, <4>1, <4>2 DEF TypeOK
    <3>3. QED
      BY <3>1, <3>2
  <2>3. QED
    BY <2>1, <2>2
<1>8. (\A i \in 1 .. Len(queue) :
         /\ next[queue[i]] = IF i = Len(queue) THEN Null ELSE queue[i + 1]
         /\ prev[queue[i]] = IF i = 1 THEN Null ELSE queue[i - 1])'
  <2>1. ASSUME NEW i \in 1 .. n - 1, i < k
        PROVE  /\ next'[queue'[i]] = IF i = n - 1 THEN Null ELSE queue'[i + 1]
               /\ prev'[queue'[i]] = IF i = 1 THEN Null ELSE queue'[i - 1]
    <3>1. /\ i \in 1 .. n /\ i # k /\ queue'[i] = queue[i] /\ i # n
          /\ i # 1 => queue'[i - 1] = queue[i - 1]
          /\ i + 1 = k /\ i # n - 1 => k # n /\ queue'[i + 1] = queue[k + 1]
          /\ i + 1 = k /\ i = n - 1 => k = n
          /\ i + 1 # k => i # n - 1 /\ queue'[i + 1] = queue[i + 1]
      <4>1. i \in 1 .. n /\ i # k /\ i # n
        BY <1>1, <1>2, <2>1
      <4>2. queue'[i] = queue[i]
        BY <1>2, <2>1
      <4>3. i # 1 => queue'[i - 1] = queue[i - 1]
        <5>1. i # 1 => i - 1 \in 1 .. n - 1 /\ i - 1 < k
          BY <1>1, <1>2, <2>1
        <5>2. QED
          BY <1>2, <5>1
      <4>4. i # n - 1 => i + 1 \in 1 .. n - 1
        BY <1>1, <1>2, <2>1
      <4>5. i + 1 = k /\ i # n - 1 => k # n /\ queue'[i + 1] = queue[k + 1]
        BY <1>1, <1>2, <2>1, <4>4
      <4>6. i + 1 # k => i # n - 1 /\ i + 1 < k
        BY <1>1, <1>2, <2>1
      <4>7. i + 1 # k => queue'[i + 1] = queue[i + 1]
        BY <1>2, <4>4, <4>6
      <4>8. QED
        BY <1>1, <1>2, <4>1, <4>2, <4>3, <4>5, <4>6, <4>7
    <3>2. /\ next'[queue[i]] = IF i + 1 = k THEN next[t] ELSE next[queue[i]]
          /\ prev'[queue[i]] = prev[queue[i]]
      BY <1>1, <1>7, <2>1, <3>1
    <3>3. QED
      BY <1>4, <3>1, <3>2, Links
  <2>2. ASSUME NEW i \in 1 .. n - 1, ~(i < k)
        PROVE  /\ next'[queue'[i]] = IF i = n - 1 THEN Null ELSE queue'[i + 1]
               /\ prev'[queue'[i]] = IF i = 1 THEN Null ELSE queue'[i - 1]
    <3>1. /\ i + 1 \in 1 .. n /\ i + 1 # k /\ queue'[i] = queue[i + 1] /\ i + 1 # 1
          /\ i # n - 1 => queue'[i + 1] = queue[i + 2]
          /\ i = k /\ i # 1 => queue'[i - 1] = queue[k - 1]
          /\ i # k => i # 1 /\ queue'[i - 1] = queue[i]
      <4>1. i + 1 \in 1 .. n /\ i + 1 # k /\ i + 1 # 1
        BY <1>1, <1>2, <2>2
      <4>2. queue'[i] = queue[i + 1]
        BY <1>2, <2>2
      <4>3. i # n - 1 => i + 1 \in 1 .. n - 1 /\ ~(i + 1 < k)
                         /\ i + 1 + 1 = i + 2
        BY <1>1, <1>2, <2>2
      <4>4. i # n - 1 => queue'[i + 1] = queue[i + 2]
        BY <1>2, <4>3
      <4>5. i # 1 => i - 1 \in 1 .. n - 1 /\ i - 1 + 1 = i
        BY <1>2, <2>2
      <4>6. i = k /\ i # 1 => queue'[i - 1] = queue[k - 1]
        <5>1. i = k => i - 1 < k
          BY <1>1
        <5>2. QED
          BY <1>2, <4>5, <5>1
      <4>7. i # k => i # 1 /\ ~(i - 1 < k)
        BY <1>1, <1>2, <2>2
      <4>8. i # k => queue'[i - 1] = queue[i]
        BY <1>2, <4>5, <4>7
      <4>9. QED
        BY <4>1, <4>2, <4>4, <4>6, <4>7, <4>8
    <3>2. /\ next'[queue[i + 1]] = next[queue[i + 1]]
          /\ prev'[queue[i + 1]] = IF i = k THEN prev[t] ELSE prev[queue[i + 1]]
      <4>1. i + 1 + 1 # k /\ (i + 1 - 1 = k <=> i = k)
        BY <1>1, <2>2
      <4>2. QED
        BY <1>7, <3>1, <4>1
    <3>3. /\ i = n - 1 => next[queue[i + 1]] = Null
          /\ i # n - 1 => next[queue[i + 1]] = queue[i + 2]
          /\ prev[queue[i + 1]] = queue[i]
      <4>1. i + 1 + 1 = i + 2 /\ i + 1 - 1 = i /\ (i + 1 = n <=> i = n - 1)
        BY <1>2
      <4>2. QED
        BY <3>1, <4>1, Links
    <3>4. QED
      BY <1>4, <3>1, <3>2, <3>3
  <2>3. QED
    BY <1>2, <2>1, <2>2
<1>9. (\A i, j \in 1 .. Len(queue) : queue[i] = queue[j] => i = j)'
  <2>1. ASSUME NEW i \in 1 .. n - 1, NEW j \in 1 .. n - 1, queue'[i] = queue'[j]
        PROVE  i = j
    <3> DEFINE old(h) == IF h < k THEN h ELSE h + 1
    <3>1. \A h \in 1 .. n - 1 : old(h) \in 1 .. n /\ queue'[h] = queue[old(h)]
      BY <1>1, <1>2
    <3>2. old(i) = old(j)
      BY <1>4, <2>1, <3>1
    <3>3. QED
      BY <1>1, <1>2, <3>2
  <2>2. QED
    BY <1>2, <2>1
<1>10. (flag = {queue[i] : i \in 1 .. Len(queue)})'
  <2>1. flag = {queue[i] : i \in 1 .. n} /\ flag' = flag \ {t}
    BY <1>1 DEF ListIsQueue, Unlink
  <2>2. ASSUME NEW i \in 1 .. n - 1
        PROVE  queue'[i] \in flag'
    <3>1. CASE i < k
      <4>1. queue'[i] = queue[i] /\ i \in 1 .. n /\ i # k
        BY <1>1, <1>2, <3>1
      <4>2. QED
        BY <1>1, <1>4, <2>1, <4>1
    <3>2. CASE ~(i < k)
      <4>1. queue'[i] = queue[i + 1] /\ i + 1 \in 1 .. n /\ i + 1 # k
        BY <1>1, <1>2, <3>2
      <4>2. QED
        BY <1>1, <1>4, <2>1, <4>1
    <3>3. QED
      BY <3>1, <3>2
  <2>3. ASSUME NEW u \in flag'
        PROVE  \E i \in 1 .. n - 1 : queue'[i] = u
    <3>1. PICK j \in 1 .. n : queue[j] = u /\ j # k
      BY <1>1, <2>1
    <3>2. CASE j < k
      BY <1>2, <3>1, <3>2
    <3>3. CASE j > k
      <4>1. j - 1 \in 1 .. n - 1 /\ queue'[j - 1] = u
        BY <1>2, <3>1, <3>3
      <4>2. QED
        BY <4>1
    <3>4. QED
      BY <3>1, <3>2, <3>3
  <2>4. QED
    BY <1>2, <2>2, <2>3
<1>11. QED
  BY <1>2, <1>5, <1>6, <1>8, <1>9, <1>10 DEF ListIsQueue
-----------------------------------------------------------------------------
(* The inductive invariant.                                                *)

(* What the actions of the threads do to pc and kind.                      *)
LEMMA GotoType ==
    ASSUME TypeOK, NoFiniteWait, NEW t \in Threads, NEW s \in States, Goto(t, s)
    PROVE  /\ pc' \in [Threads -> States] /\ kind' \in [Threads -> {"untimed", "ms", "timed"}]
           /\ NoFiniteWait'
           /\ pc'[t] = s
           /\ \A u \in Threads : u # t => pc'[u] = pc[u]
BY DEF TypeOK, NoFiniteWait, Goto

(* The conjuncts of the invariant that speak of the list stay true when    *)
(* the list does not change.                                               *)
LEMMA ListUnchanged ==
    ASSUME TypeOK, ListIsQueue, UNCHANGED listVars
    PROVE  /\ ListIsQueue'
           /\ head' \in Threads \cup {Null} /\ tail' \in Threads \cup {Null}
           /\ next' \in [Threads -> Threads \cup {Null}]
           /\ prev' \in [Threads -> Threads \cup {Null}]
           /\ flag' \subseteq Threads /\ flag' = flag
           /\ queue' \in Seq(Threads)
BY DEF TypeOK, ListIsQueue, listVars

LEMMA KickType ==
    ASSUME TypeOK, KickHead
    PROVE  /\ head \in Threads
           /\ head' \in Threads \cup {Null} /\ tail' \in Threads \cup {Null}
           /\ next' \in [Threads -> Threads \cup {Null}]
           /\ prev' \in [Threads -> Threads \cup {Null}]
           /\ flag' \subseteq Threads
           /\ sem' \in [Threads -> Nat]
BY DEF TypeOK, KickHead

(* A kick: the thread at the head leaves the list and its semaphore goes   *)
(* from 0 to 1.                                                            *)
LEMMA KickInStep ==
    ASSUME IInv, KickHead, UNCHANGED <<owner, threadVars>>,
           crit' \in Threads \cup {Free}
    PROVE  IInv'
<1>1. /\ TypeOK /\ NoFiniteWait /\ MutexHeldByOne /\ SemaphoreInStep
      /\ ListIsQueue
  BY DEF IInv
<1>2. ListIsQueue' /\ queue' \in Seq(Threads) /\ head \in flag
  BY <1>1, KickKeepsList
<1>3. TypeOK'
  BY <1>1, <1>2, KickType DEF TypeOK, threadVars
<1>4. NoFiniteWait' /\ MutexHeldByOne'
  BY <1>1 DEF NoFiniteWait, MutexHeldByOne, threadVars
<1>5. SemaphoreInStep'
  <2>1. ASSUME NEW u \in Threads
        PROVE  IF pc[u] \in {"listed", "blocked", "expired", "drain"}
                 THEN sem'[u] = IF u \in flag' THEN 0 ELSE 1
                 ELSE sem'[u] = 0 /\ u \notin flag'
    <3>1. CASE u = head
      <4>1. pc[u] \in {"listed", "blocked", "expired", "drain"} /\ sem[u] = 0
        BY <1>1, <1>2, <3>1 DEF SemaphoreInStep
      <4>2. u \notin flag' /\ sem'[u] = 1
        BY <1>1, <3>1, <4>1 DEF KickHead, TypeOK
      <4>3. QED
        BY <4>1, <4>2
    <3>2. CASE u # head
      <4>1. (u \in flag' <=> u \in flag) /\ sem'[u] = sem[u]
        BY <1>1, <3>2 DEF KickHead, TypeOK
      <4>2. QED
        BY <1>1, <4>1 DEF SemaphoreInStep
    <3>3. QED
      BY <3>1, <3>2
  <2>2. pc' = pc
    BY DEF threadVars
  <2>3. QED
    BY <2>1, <2>2 DEF SemaphoreInStep
<1>6. QED
  BY <1>2, <1>3, <1>4, <1>5 DEF IInv

(* A step of one thread that touches neither the list nor a semaphore.     *)
LEMMA QuietStep ==
    ASSUME IInv, NEW t \in Threads, NEW s \in States, Goto(t, s),
           UNCHANGED <<crit, listVars, sem>>,
           owner' \in Threads \cup {Free}, MutexHeldByOne',
           pc[t] \in {"listed", "blocked", "expired", "drain"}
             <=> s \in {"listed", "blocked", "expired", "drain"}
    PROVE  IInv'
<1>1. /\ TypeOK /\ NoFiniteWait /\ SemaphoreInStep /\ ListIsQueue
  BY DEF IInv
<1>2. TypeOK'
  BY <1>1, GotoType, ListUnchanged DEF TypeOK
<1>3. NoFiniteWait'
  BY <1>1, GotoType
<1>4. ListIsQueue' /\ flag' = flag
  BY <1>1, ListUnchanged
<1>5. SemaphoreInStep'
  BY <1>1, <1>4, GotoType DEF SemaphoreInStep
<1>6. QED
  BY <1>2, <1>3, <1>4, <1>5 DEF IInv

(* A thread takes its semaphore, which was kicked, and leaves wait.        *)
LEMMA TakeStep ==
    ASSUME IInv, NEW t \in Threads, TakeSemaphore(t), Goto(t, "relock"),
           pc[t] \in {"blocked", "drain"},
           UNCHANGED <<owner, crit, listVars>>
    PROVE  IInv'
<1>1. /\ TypeOK /\ NoFiniteWait /\ SemaphoreInStep /\ ListIsQueue
      /\ MutexHeldByOne /\ "relock" \in States
  BY DEF IInv, States
<1>2. sem[t] = 1 /\ t \notin flag
  BY <1>1 DEF SemaphoreInStep, TakeSemaphore
<1>3. /\ sem' \in [Threads -> Nat] /\ sem'[t] = 0
      /\ \A u \in Threads : u # t => sem'[u] = sem[u]
  BY <1>1, <1>2 DEF TakeSemaphore, TypeOK
<1>4. TypeOK'
  BY <1>1, <1>3, GotoType, ListUnchanged DEF TypeOK
<1>5. NoFiniteWait' /\ ListIsQueue' /\ flag' = flag
  BY <1>1, GotoType, ListUnchanged
<1>6. MutexHeldByOne'
  BY <1>1, GotoType DEF MutexHeldByOne
<1>7. SemaphoreInStep'
  BY <1>1, <1>2, <1>3, <1>5, GotoType DEF SemaphoreInStep
<1>8. QED
  BY <1>4, <1>5, <1>6, <1>7 DEF IInv

LEMMA EnqueueStep ==
    ASSUME IInv, NEW t \in Threads, NEW k \in Kinds, k # "ms", Enqueue(t, k)
    PROVE  IInv'
<1>1. /\ TypeOK /\ NoFiniteWait /\ SemaphoreInStep /\ ListIsQueue
      /\ MutexHeldByOne
  BY DEF IInv
<1>2. /\ pc[t] = "locked" /\ AppendToList(t) /\ flag' = flag \cup {t}
      /\ queue' = Append(queue, t)
      /\ pc' = [pc EXCEPT ![t] = "listed"] /\ kind' = [kind EXCEPT ![t] = k]
      /\ UNCHANGED <<owner, crit, sem>>
  BY DEF Enqueue
<1>3. t \notin flag /\ sem[t] = 0
  BY <1>1, <1>2 DEF SemaphoreInStep
<1>4. ListIsQueue' /\ queue' \in Seq(Threads)
  BY <1>1, <1>2, <1>3, AppendKeepsList
<1>5. TypeOK'
  <2>1. /\ head' \in Threads \cup {Null} /\ tail' \in Threads \cup {Null}
        /\ next' \in [Threads -> Threads \cup {Null}]
        /\ prev' \in [Threads -> Threads \cup {Null}]
    BY <1>1, <1>2 DEF AppendToList, TypeOK
  <2>2. /\ pc' \in [Threads -> States]
        /\ kind' \in [Threads -> {"untimed", "ms", "timed"}]
    BY <1>1, <1>2 DEF TypeOK, States
  <2>3. QED
    BY <1>1, <1>2, <1>4, <2>1, <2>2 DEF TypeOK
<1>6. NoFiniteWait'
  BY <1>1, <1>2 DEF NoFiniteWait, TypeOK
<1>7. MutexHeldByOne'
  BY <1>1, <1>2 DEF MutexHeldByOne, TypeOK
<1>8. SemaphoreInStep'
  BY <1>1, <1>2, <1>3 DEF SemaphoreInStep, TypeOK
<1>9. QED
  BY <1>4, <1>5, <1>6, <1>7, <1>8 DEF IInv

LEMMA LeaveListStep ==
    ASSUME IInv, NEW t \in Threads, LeaveList(t)
    PROVE  IInv'
<1>1. /\ TypeOK /\ NoFiniteWait /\ SemaphoreInStep /\ ListIsQueue
      /\ MutexHeldByOne /\ "relock" \in States
  BY DEF IInv, States
<1>2. /\ pc[t] = "expired" /\ t \in flag /\ Unlink(t) /\ Goto(t, "relock")
      /\ UNCHANGED <<owner, crit, sem>>
  BY DEF LeaveList
<1>3. flag' = flag \ {t}
  BY <1>2 DEF Unlink
<1>4. ListIsQueue' /\ queue' \in Seq(Threads)
  BY <1>1, <1>2, UnlinkKeepsList
<1>5. sem[t] = 0
  BY <1>1, <1>2 DEF SemaphoreInStep
<1>6. TypeOK'
  <2>1. /\ head' \in Threads \cup {Null} /\ tail' \in Threads \cup {Null}
        /\ next' \in [Threads -> Threads \cup {Null}]
        /\ prev' \in [Threads -> Threads \cup {Null}]
    BY <1>1, <1>2 DEF Unlink, TypeOK
  <2>2. QED
    BY <1>1, <1>2, <1>3, <1>4, <2>1, GotoType DEF TypeOK
<1>7. NoFiniteWait'
  BY <1>1, <1>2, GotoType
<1>8. MutexHeldByOne'
  BY <1>1, <1>2, GotoType DEF MutexHeldByOne
<1>9. SemaphoreInStep'
  BY <1>1, <1>2, <1>3, <1>5, GotoType DEF SemaphoreInStep
<1>10. QED
  BY <1>4, <1>6, <1>7, <1>8, <1>9 DEF IInv
LEMMA IInvInit == Init => IInv
<1> SUFFICES ASSUME Init PROVE IInv
  OBVIOUS
<1>1. TypeOK
  BY DEF Init, TypeOK, States
<1>2. NoFiniteWait /\ MutexHeldByOne /\ SemaphoreInStep
  BY DEF Init, NoFiniteWait, MutexHeldByOne, SemaphoreInStep
<1>3. ListIsQueue
  BY DEF Init, ListIsQueue
<1>4. QED
  BY <1>1, <1>2, <1>3 DEF IInv

LEMMA IInvStep ==
    ASSUME "ms" \notin Kinds
    PROVE  IInv /\ [Next]_vars => IInv'
<1> SUFFICES ASSUME IInv, [Next]_vars PROVE IInv'
  OBVIOUS
<1> USE DEF States
<1>0. TypeOK /\ MutexHeldByOne /\ NoFiniteWait
  BY DEF IInv
<1>1. ASSUME NEW t \in Threads, Lock(t)
      PROVE  IInv'
  <2>1. Goto(t, "locked") /\ owner' = t /\ owner = Free /\ pc[t] = "out"
        /\ UNCHANGED <<crit, listVars, sem>>
    BY <1>1 DEF Lock
  <2>2. MutexHeldByOne'
    BY <1>0, <2>1, GotoType DEF MutexHeldByOne
  <2>3. QED
    BY <2>1, <2>2, QuietStep
<1>2. ASSUME NEW t \in Threads, Unlock(t)
      PROVE  IInv'
  <2>1. Goto(t, "out") /\ owner' = Free /\ pc[t] = "locked"
        /\ UNCHANGED <<crit, listVars, sem>>
    BY <1>2 DEF Unlock
  <2>2. MutexHeldByOne'
    BY <1>0, <2>1, GotoType DEF MutexHeldByOne
  <2>3. QED
    BY <2>1, <2>2, QuietStep
<1>3. ASSUME NEW t \in Threads, NEW k \in Kinds, Enqueue(t, k)
      PROVE  IInv'
  BY <1>3, EnqueueStep
<1>4. ASSUME NEW t \in Threads, ReleaseMutex(t)
      PROVE  IInv'
  <2>1. Goto(t, "blocked") /\ owner' = Free /\ pc[t] = "listed"
        /\ UNCHANGED <<crit, listVars, sem>>
    BY <1>4 DEF ReleaseMutex
  <2>2. MutexHeldByOne'
    BY <1>0, <2>1, GotoType DEF MutexHeldByOne
  <2>3. QED
    BY <2>1, <2>2, QuietStep
<1>5. ASSUME NEW t \in Threads, Wake(t)
      PROVE  IInv'
  BY <1>5, TakeStep DEF Wake
<1>6. ASSUME NEW t \in Threads, TimeOut(t)
      PROVE  IInv'
  <2>1. Goto(t, "expired") /\ pc[t] = "blocked"
        /\ UNCHANGED <<owner, crit, listVars, sem>>
    BY <1>0, <1>6 DEF TimeOut, NoFiniteWait
  <2>2. MutexHeldByOne' /\ owner' \in Threads \cup {Free}
    BY <1>0, <2>1, GotoType DEF MutexHeldByOne, TypeOK
  <2>3. QED
    BY <2>1, <2>2, QuietStep
<1>7. ASSUME NEW t \in Threads, LeaveList(t)
      PROVE  IInv'
  BY <1>7, LeaveListStep
<1>8. ASSUME NEW t \in Threads, Resync(t)
      PROVE  IInv'
  <2>1. Goto(t, "drain") /\ pc[t] = "expired"
        /\ UNCHANGED <<owner, crit, listVars, sem>>
    BY <1>8 DEF Resync
  <2>2. MutexHeldByOne' /\ owner' \in Threads \cup {Free}
    BY <1>0, <2>1, GotoType DEF MutexHeldByOne, TypeOK
  <2>3. QED
    BY <2>1, <2>2, QuietStep
<1>9. ASSUME NEW t \in Threads, Drain(t)
      PROVE  IInv'
  BY <1>9, TakeStep DEF Drain
<1>10. ASSUME NEW t \in Threads, Relock(t)
       PROVE  IInv'
  <2>1. Goto(t, "locked") /\ owner' = t /\ owner = Free /\ pc[t] = "relock"
        /\ UNCHANGED <<crit, listVars, sem>>
    BY <1>10 DEF Relock
  <2>2. MutexHeldByOne'
    BY <1>0, <2>1, GotoType DEF MutexHeldByOne
  <2>3. QED
    BY <2>1, <2>2, QuietStep
<1>11. ASSUME NEW t \in Threads, Signal(t)
       PROVE  IInv'
  BY <1>0, <1>11, KickInStep DEF Signal, TypeOK
<1>12. ASSUME NEW t \in Threads, BroadcastKick(t)
       PROVE  IInv'
  BY <1>0, <1>12, KickInStep DEF BroadcastKick, TypeOK
<1>13. ASSUME UNCHANGED <<owner, listVars, sem, threadVars>>,
              crit' \in Threads \cup {Free}
       PROVE  IInv'
  <2>1. ListIsQueue' /\ TypeOK'
    BY <1>0, <1>13, ListUnchanged DEF IInv, TypeOK, threadVars
  <2>2. NoFiniteWait' /\ MutexHeldByOne' /\ SemaphoreInStep'
    BY <1>13 DEF IInv, NoFiniteWait, MutexHeldByOne, SemaphoreInStep,
                 threadVars, listVars
  <2>3. QED
    BY <2>1, <2>2 DEF IInv
<1>14. ASSUME NEW t \in Threads, BeginBroadcast(t) \/ EndBroadcast(t)
       PROVE  IInv'
  BY <1>13, <1>14 DEF BeginBroadcast, EndBroadcast
<1>15. CASE UNCHANGED vars
  BY <1>0, <1>13, <1>15 DEF vars, TypeOK
<1>16. QED
  BY <1>1, <1>2, <1>3, <1>4, <1>5, <1>6, <1>7, <1>8, <1>9, <1>10, <1>11,
     <1>12, <1>14, <1>15 DEF Next

(* If no thread uses wait(DWORD) with a finite timeout, the types, the     *)
(* mutex, the semaphores and the links of the list are always right.       *)
THEOREM Invariance ==
    ASSUME "ms" \notin Kinds
    PROVE  Spec => []IInv
<1>1. IInv /\ [Next]_vars => IInv'
  BY IInvStep
<1>2. QED
  BY <1>1, IInvInit, PTL DEF Spec

THEOREM TypeCorrect ==
    ASSUME "ms" \notin Kinds
    PROVE  Spec => []TypeOK
<1>1. IInv => TypeOK
  BY DEF IInv
<1>2. QED
  BY <1>1, Invariance, PTL

(* The doubly linked list is the queue of the waiting threads.             *)
THEOREM ListIsTheQueue ==
    ASSUME "ms" \notin Kinds
    PROVE  Spec => []ListIsQueue
<1>1. IInv => ListIsQueue
  BY DEF IInv
<1>2. QED
  BY <1>1, Invariance, PTL

(* No wakeup is lost and none is left over.                                *)
THEOREM SemaphoresInStep ==
    ASSUME "ms" \notin Kinds
    PROVE  Spec => []SemaphoreInStep
<1>1. IInv => SemaphoreInStep
  BY DEF IInv
<1>2. QED
  BY <1>1, Invariance, PTL
-----------------------------------------------------------------------------
(* A signal wakes a thread that waits.                                     *)

(* A thread that takes its semaphore after its time ran out was kicked.    *)
DrainIsKicked == \A t \in Threads : pc[t] = "drain" => t \notin flag

LEMMA DrainStep ==
    IInv /\ DrainIsKicked /\ [Next]_vars => DrainIsKicked'
<1> SUFFICES ASSUME IInv, DrainIsKicked, [Next]_vars, NEW u \in Threads,
                    pc'[u] = "drain"
             PROVE  u \notin flag'
  BY DEF DrainIsKicked
<1>0. TypeOK /\ NoFiniteWait
  BY DEF IInv
<1>1. CASE UNCHANGED vars
  BY <1>1 DEF DrainIsKicked, vars, listVars, threadVars
<1>2. ASSUME NEW t \in Threads, UNCHANGED listVars,
             \E s \in States \ {"drain"} : Goto(t, s)
      PROVE  u \notin flag'
  BY <1>0, <1>2, GotoType DEF DrainIsKicked, listVars
<1>3. ASSUME NEW t \in Threads, Resync(t)
      PROVE  u \notin flag'
  BY <1>0, <1>3 DEF Resync, Goto, TypeOK, DrainIsKicked, listVars
<1>4. ASSUME NEW t \in Threads, NEW k \in Kinds, Enqueue(t, k)
      PROVE  u \notin flag'
  BY <1>0, <1>4 DEF Enqueue, TypeOK, DrainIsKicked
<1>5. ASSUME NEW t \in Threads, LeaveList(t)
      PROVE  u \notin flag'
  BY <1>0, <1>5 DEF LeaveList, Unlink, Goto, TypeOK, DrainIsKicked
<1>6. ASSUME NEW t \in Threads, Signal(t) \/ BroadcastKick(t)
      PROVE  u \notin flag'
  BY <1>6 DEF Signal, BroadcastKick, KickHead, threadVars, DrainIsKicked
<1>7. ASSUME NEW t \in Threads, BeginBroadcast(t) \/ EndBroadcast(t)
      PROVE  u \notin flag'
  BY <1>7 DEF BeginBroadcast, EndBroadcast, threadVars, listVars, DrainIsKicked
<1>8. ASSUME NEW t \in Threads,
             \/ Lock(t) \/ Unlock(t) \/ ReleaseMutex(t) \/ Wake(t)
             \/ TimeOut(t) \/ Drain(t) \/ Relock(t)
      PROVE  u \notin flag'
  BY <1>2, <1>8 DEF Lock, Unlock, ReleaseMutex, Wake, TimeOut, Drain, Relock,
                    States
<1>9. QED
  BY <1>1, <1>3, <1>4, <1>5, <1>6, <1>7, <1>8 DEF Next

(* While a thread waits, signal() kicks the semaphore of one that does.    *)
THEOREM SignalWakes ==
    ASSUME "ms" \notin Kinds
    PROVE  Spec => SignalWakesOne
<1> DEFINE WakesOne ==
             (\E t \in Threads : Signal(t)) /\ Waiting # {}
               => \E t \in Waiting : sem'[t] = 1
<1>1. Init => DrainIsKicked
  BY DEF Init, DrainIsKicked
<1>2. IInv /\ DrainIsKicked /\ [Next]_vars => [WakesOne]_vars
  <2> SUFFICES ASSUME IInv, DrainIsKicked, NEW t \in Threads, Signal(t)
               PROVE  \E u \in Waiting : sem'[u] = 1
    OBVIOUS
  <2>1. TypeOK /\ SemaphoreInStep /\ ListIsQueue /\ KickHead
    BY DEF IInv, Signal
  <2>2. head \in Threads /\ head \in flag
    BY <2>1, KickType, KickKeepsList
  <2>3. sem[head] = 0 /\ pc[head] \in {"listed", "blocked", "expired"}
    BY <2>1, <2>2 DEF SemaphoreInStep, DrainIsKicked
  <2>4. sem'[head] = 1
    BY <2>1, <2>2, <2>3 DEF KickHead, TypeOK
  <2>5. QED
    BY <2>2, <2>3, <2>4 DEF Waiting
<1>3. IInv /\ [Next]_vars => IInv'
  BY IInvStep
<1>4. QED
  BY <1>1, <1>2, <1>3, IInvInit, DrainStep, PTL DEF Spec, SignalWakesOne

-----------------------------------------------------------------------------
(* The condition variable of the header.                                   *)

(* What a step of one thread is to CondVar.                                *)
LEMMA GotoState ==
    ASSUME TypeOK, NEW t \in Threads, NEW s \in States, Goto(t, s)
    PROVE  [u \in Threads |-> AbstractState(pc[u])]'
             = [[u \in Threads |-> AbstractState(pc[u])]
                  EXCEPT ![t] = AbstractState(s)]
BY DEF TypeOK, Goto

(* A step of a thread that was asleep and still is, and wakes nobody.      *)
LEMMA QuietMap ==
    ASSUME TypeOK, NEW t \in Threads, NEW s \in States, Goto(t, s),
           AbstractState(pc[t]) = AbstractState(s), UNCHANGED <<owner, flag>>
    PROVE  UNCHANGED Abstract!vars
<1> DEFINE st == [u \in Threads |-> AbstractState(pc[u])]
<1>1. st' = [st EXCEPT ![t] = AbstractState(s)]
  BY GotoState
<1>2. [st EXCEPT ![t] = AbstractState(s)] = st
  OBVIOUS
<1>3. QED
  BY <1>1, <1>2 DEF Abstract!vars

LEMMA StepSimulation ==
    ASSUME IInv, [Next]_vars
    PROVE  [Abstract!Next]_(Abstract!vars)
<1> USE DEF States
<1> DEFINE st == [u \in Threads |-> AbstractState(pc[u])]
<1>0. TypeOK /\ NoFiniteWait /\ SemaphoreInStep /\ ListIsQueue
  BY DEF IInv
<1>1. ASSUME NEW t \in Threads, Lock(t)
      PROVE  Abstract!Next
  <2>1. Abstract!Lock(t)
    <3>1. /\ pc[t] = "out" /\ owner = Free /\ owner' = t /\ flag' = flag
          /\ Goto(t, "locked")
      BY <1>1 DEF Lock, listVars
    <3>2. st[t] = "out" /\ st' = [st EXCEPT ![t] = "holds"]
      BY <1>0, <3>1, GotoState DEF AbstractState
    <3>3. QED
      BY <3>1, <3>2 DEF Abstract!Lock
  <2>2. QED
    BY <2>1 DEF Abstract!Next
<1>2. ASSUME NEW t \in Threads, Unlock(t)
      PROVE  Abstract!Next
  <2>1. Abstract!Unlock(t)
    <3>1. pc[t] = "locked" /\ owner' = Free /\ flag' = flag /\ Goto(t, "out")
      BY <1>2 DEF Unlock, listVars
    <3>2. st[t] = "holds" /\ st' = [st EXCEPT ![t] = "out"]
      BY <1>0, <3>1, GotoState DEF AbstractState
    <3>3. QED
      BY <3>1, <3>2 DEF Abstract!Unlock
  <2>2. QED
    BY <2>1 DEF Abstract!Next
<1>3. ASSUME NEW t \in Threads, NEW k \in Kinds, Enqueue(t, k)
      PROVE  Abstract!Next
  <2>1. Abstract!BeginWait(t)
    <3>1. /\ pc[t] = "locked" /\ pc' = [pc EXCEPT ![t] = "listed"]
          /\ flag' = flag \cup {t} /\ owner' = owner
      BY <1>3 DEF Enqueue
    <3>2. st[t] = "holds" /\ st' = [st EXCEPT ![t] = "entering"]
      BY <1>0, <3>1 DEF AbstractState, TypeOK
    <3>3. QED
      BY <3>1, <3>2 DEF Abstract!BeginWait
  <2>2. QED
    BY <2>1 DEF Abstract!Next
<1>4. ASSUME NEW t \in Threads, ReleaseMutex(t)
      PROVE  Abstract!Next
  <2>1. Abstract!Sleep(t)
    <3>1. pc[t] = "listed" /\ owner' = Free /\ flag' = flag /\ Goto(t, "blocked")
      BY <1>4 DEF ReleaseMutex, listVars
    <3>2. st[t] = "entering" /\ st' = [st EXCEPT ![t] = "asleep"]
      BY <1>0, <3>1, GotoState DEF AbstractState
    <3>3. QED
      BY <3>1, <3>2 DEF Abstract!Sleep
  <2>2. QED
    BY <2>1 DEF Abstract!Next
<1>5. ASSUME NEW t \in Threads, Wake(t) \/ TimeOut(t) \/ Resync(t) \/ Drain(t)
      PROVE  UNCHANGED Abstract!vars
  <2>1. /\ UNCHANGED <<owner, flag>>
        /\ \E s \in {"relock", "expired", "drain"} : Goto(t, s)
        /\ pc[t] \in {"blocked", "expired", "drain"}
    BY <1>5 DEF Wake, TimeOut, Resync, Drain, listVars
  <2>2. PICK s \in {"relock", "expired", "drain"} : Goto(t, s)
    BY <2>1
  <2>3. AbstractState(pc[t]) = AbstractState(s)
    BY <2>1 DEF AbstractState
  <2>4. QED
    BY <1>0, <2>1, <2>2, <2>3, QuietMap
<1>6. ASSUME NEW t \in Threads, LeaveList(t)
      PROVE  Abstract!Next
  <2>1. Abstract!TimeOut(t)
    <3>1. /\ pc[t] = "expired" /\ t \in flag /\ flag' = flag \ {t}
          /\ owner' = owner /\ Goto(t, "relock")
      BY <1>6 DEF LeaveList, Unlink
    <3>2. st[t] = "asleep" /\ st' = [st EXCEPT ![t] = "asleep"]
      BY <1>0, <3>1, GotoState DEF AbstractState
    <3>3. st' = st
      BY <3>2
    <3>4. QED
      BY <3>1, <3>2, <3>3 DEF Abstract!TimeOut
  <2>2. QED
    BY <2>1 DEF Abstract!Next
<1>7. ASSUME NEW t \in Threads, Relock(t)
      PROVE  Abstract!Next
  <2>1. Abstract!Return(t)
    <3>1. /\ pc[t] = "relock" /\ owner = Free /\ owner' = t /\ flag' = flag
          /\ Goto(t, "locked")
      BY <1>7 DEF Relock, listVars
    <3>2. st[t] = "asleep" /\ st' = [st EXCEPT ![t] = "holds"]
      BY <1>0, <3>1, GotoState DEF AbstractState
    <3>3. t \notin flag
      BY <1>0, <3>1 DEF SemaphoreInStep
    <3>4. QED
      BY <3>1, <3>2, <3>3 DEF Abstract!Return
  <2>2. QED
    BY <2>1 DEF Abstract!Next
<1>8. ASSUME NEW t \in Threads, Signal(t) \/ BroadcastKick(t)
      PROVE  Abstract!Next
  <2>1. KickHead /\ UNCHANGED <<owner, threadVars>>
    BY <1>8 DEF Signal, BroadcastKick
  <2>2. head \in flag /\ head \in Threads /\ flag' = flag \ {head}
    BY <1>0, <2>1, KickType, KickKeepsList DEF KickHead
  <2>3. st' = st /\ owner' = owner
    BY <2>1 DEF threadVars
  <2>4. Abstract!Wake({head}) /\ {head} \in SUBSET Threads
    BY <2>2, <2>3 DEF Abstract!Wake
  <2>5. QED
    BY <2>4 DEF Abstract!Next
<1>9. ASSUME \/ UNCHANGED vars
             \/ \E t \in Threads : BeginBroadcast(t) \/ EndBroadcast(t)
      PROVE  UNCHANGED Abstract!vars
  <2>1. UNCHANGED <<owner, flag, pc>>
    BY <1>9 DEF vars, listVars, threadVars, BeginBroadcast, EndBroadcast
  <2>2. QED
    BY <2>1 DEF Abstract!vars
<1>10. QED
  BY <1>1, <1>2, <1>3, <1>4, <1>5, <1>6, <1>7, <1>8, <1>9 DEF Next

(* The lists, semaphores and critical sections of nt.cpp implement the     *)
(* condition variable omnithread.h describes.                              *)
THEOREM ImplementsCondVar ==
    ASSUME "ms" \notin Kinds
    PROVE  Spec => Abstract!Behaviour
<1>1. Init => Abstract!Init
  BY DEF Init, Abstract!Init, AbstractState
<1>2. IInv /\ [Next]_vars => [Abstract!Next]_(Abstract!vars)
  BY StepSimulation
<1>3. IInv /\ [Next]_vars => IInv'
  BY IInvStep
<1>4. QED
  BY <1>1, <1>2, <1>3, IInvInit, PTL DEF Spec, Abstract!Behaviour
=============================================================================
