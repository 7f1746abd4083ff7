------------------------- MODULE ClientSocket_proofs -------------------------
(***************************************************************************)
(* Proofs about ClientSocket, for any threads, messages, sizes of the      *)
(* buffer, and any of the messages sent under the update lock.             *)
(*                                                                         *)
(* Until a message sent without the lock meets another one, at most one    *)
(* sender is between the first and the last call of a message (OneAtWork). *)
(* What it has not given to the system yet is, in order, the rest of what  *)
(* sendall is to write or the queue, and then the rest of its data         *)
(* (Unsent): with the bytes on the wire these are all the bytes that were  *)
(* handed over.  That the queue never fills the buffer (Room) is what      *)
(* keeps the server from copying a length below zero (Overrun).            *)
(***************************************************************************)
EXTENDS ClientSocket, SequenceTheorems, TLAPS

-----------------------------------------------------------------------------
\* The parts of the invariant.

\* Who is sending holds the update lock or does without it, and is alone.
OneAtWork ==
    ~ mixed =>
        /\ \A t \in Sender : pc[t] # "idle" /\ t \notin loose => owner = t
        /\ \A t, u \in Sender : pc[t] # "idle" /\ pc[u] # "idle" => t = u

\* A sender inside a call has that call still to do.
InACall ==
    \A t \in Sender :
        /\ pc[t] \in {"fill", "chunk", "tail"} =>
              todo[t] # <<>> /\ Op(t) \in {"exact", "queue"}
        /\ pc[t] = "flush" => todo[t] # <<>> /\ Op(t) \in {"exact", "clear"}

\* There is room in the buffer, also for a rest that is about to be queued.
Room ==
    ~ mixed =>
        /\ Len(queue) < limit
        /\ \A t \in Sender : pc[t] = "tail" => Len(queue) + Len(rest[t]) < limit

\* The bytes that were handed over and not taken by the system, if t alone is
\* sending.
Unsent(t) ==
    CASE pc[t] \in {"fill", "chunk"} -> out[t] \o rest[t]
      [] pc[t] = "tail" -> queue \o rest[t]
      [] pc[t] = "flush" -> out[t]
      [] OTHER -> queue
Accounted ==
    ~ broken /\ ~ mixed =>
        /\ (\A t \in Sender : pc[t] = "idle") => wire \o queue = accepted
        /\ \A t \in Sender : pc[t] # "idle" => wire \o Unsent(t) = accepted

\* The bytes of a message were handed over one after the other, and those of
\* the message in work are the last.
Numbered == \A i \in 1 .. Len(accepted) : accepted[i].msg <= sent[accepted[i].by]
Grouped ==
    ~ mixed =>
        \A i, j \in 1 .. Len(accepted) :
            i < j /\ SameMessage(accepted[i], accepted[j]) =>
                \A k \in i .. j : SameMessage(accepted[i], accepted[k])
LastInWork ==
    ~ mixed =>
        \A t \in Sender : pc[t] # "idle" =>
            \A i, j \in 1 .. Len(accepted) :
                i < j /\ accepted[i].by = t /\ accepted[i].msg = sent[t] =>
                    SameMessage(accepted[i], accepted[j])

TInv == SocketTypeOK /\ OneAtWork /\ InACall /\ Room
SInv == TInv /\ Accounted
MInv == TInv /\ Numbered /\ Grouped /\ LastInWork

-----------------------------------------------------------------------------
\* Sequences.

\* A sequence is what is taken from it and what is left.
LEMMA TakeDrop ==
    ASSUME NEW S, NEW s \in Seq(S), NEW n \in 0 .. Len(s)
    PROVE  /\ Take(s, n) \in Seq(S) /\ Len(Take(s, n)) = n
           /\ Drop(s, n) \in Seq(S) /\ Len(Drop(s, n)) = Len(s) - n
           /\ Take(s, n) \o Drop(s, n) = s
<1>0. Len(s) \in Nat /\ \A i \in 1 .. Len(s) : s[i] \in S
  BY LenProperties, ElementOfSeq
<1>1. Take(s, n) \in Seq(S) /\ Len(Take(s, n)) = n
  <2>1. \A i \in 1 .. n : s[i] \in S
    BY <1>0
  <2> QED
    BY <1>0, <2>1, SubSeqProperties DEF Take
<1>2. Drop(s, n) \in Seq(S) /\ Len(Drop(s, n)) = Len(s) - n
  <2>1. \A i \in n + 1 .. Len(s) : s[i] \in S
    BY <1>0
  <2>2. n + 1 \in Int /\ Len(s) \in Int
    BY <1>0
  <2> QED
    BY <1>0, <2>1, <2>2, SubSeqProperties DEF Drop
<1>3. Take(s, n) \o Drop(s, n) = SubSeq(s, 1, Len(s))
  <2>1. /\ 1 \in 1 .. Len(s) + 1 /\ n \in 1 - 1 .. Len(s)
        /\ Len(s) \in n .. Len(s)
    BY <1>0
  <2> QED
    BY <2>1, ConcatAdjacentSubSeq DEF Take, Drop
<1> QED
  BY <1>1, <1>2, <1>3, SubSeqFull

\* A sequence is a prefix of itself with something appended.
LEMMA PrefixOfConcat ==
    ASSUME NEW S, NEW s \in Seq(S), NEW t \in Seq(S)
    PROVE  IsPrefix(s, s \o t) /\ (t # <<>> => IsStrictPrefix(s, s \o t))
<1>1. Len(s) \in Nat /\ Len(t) \in Nat /\ Len(s \o t) = Len(s) + Len(t)
  BY LenProperties, ConcatProperties
<1>2. SubSeq(s, 1, Len(s)) = SubSeq(s \o t, 1, Len(s))
  <2>1. CASE Len(s) = 0
    <3>1. SubSeq(s, 1, Len(s)) = <<>> /\ SubSeq(s \o t, 1, Len(s)) = <<>>
      BY <2>1, SubSeqEmpty
    <3> QED
      BY <3>1
  <2>2. CASE Len(s) # 0
    <3>1. 1 \in 1 .. Len(s) /\ Len(s) \in 1 .. Len(s)
      BY <1>1, <2>2
    <3> QED
      BY <3>1, SubSeqOfConcat1
  <2> QED
    BY <2>1, <2>2
<1>3. t # <<>> => s # s \o t
  BY ConcatEqualIffEmpty
<1> QED
  BY <1>1, <1>2, <1>3 DEF IsPrefix, IsStrictPrefix

\* A prefix has the elements of the sequence.
LEMMA PrefixElements ==
    ASSUME NEW S, NEW s \in Seq(S), NEW t \in Seq(S), IsPrefix(s, t)
    PROVE  Len(s) <= Len(t) /\ \A i \in 1 .. Len(s) : s[i] = t[i]
<1>1. /\ Len(s) \in Nat /\ Len(t) \in Nat /\ Len(s) <= Len(t)
      /\ \A i \in 1 .. Len(s) : s[i] \in S /\ t[i] \in S
  BY LenProperties, ElementOfSeq DEF IsPrefix
<1>2. \A i \in 1 .. Len(s) - 1 + 1 :
          /\ SubSeq(s, 1, Len(s))[i] = s[1 + i - 1]
          /\ SubSeq(t, 1, Len(s))[i] = t[1 + i - 1]
  BY <1>1, SubSeqProperties
<1> QED
  BY <1>1, <1>2 DEF IsPrefix

\* The bytes of a call.
LEMMA BytesFacts ==
    ASSUME SocketTypeOK, NEW t \in Sender, NEW n \in Nat
    PROVE  /\ Bytes(t, n) \in Seq(Byte) /\ Len(Bytes(t, n)) = n
           /\ \A i \in 1 .. n : Bytes(t, n)[i].by = t /\ Bytes(t, n)[i].msg = sent[t]
<1>1. sent[t] \in Nat /\ place[t] \in Nat
  BY DEF SocketTypeOK
<1>2. Bytes(t, n) \in [1 .. n -> Byte]
  BY <1>1 DEF Bytes, Byte
<1>3. Bytes(t, n) \in Seq(Byte) /\ Len(Bytes(t, n)) = n
  BY <1>2
<1> QED
  BY <1>3 DEF Bytes

-----------------------------------------------------------------------------
\* Types, the lock and the room in the buffer.

\* What the invariant gives for the sender that acts.
LEMMA Lengths ==
    ASSUME TInv, NEW t \in Sender
    PROVE  /\ Len(queue) \in Nat /\ limit \in Nat /\ limit # 0
           /\ Len(rest[t]) \in Nat /\ Len(out[t]) \in Nat
BY SocketAssumption, LenProperties DEF TInv, SocketTypeOK

LEMMA Acting ==
    ASSUME TInv, ~ mixed, NEW t \in Sender, pc[t] # "idle"
    PROVE  /\ \A u \in Sender : u # t => pc[u] = "idle"
           /\ Len(queue) < limit
BY DEF TInv, OneAtWork, Room

\* A step of the sender that is at work leaves the others alone.
LEMMA StillOne ==
    ASSUME TInv, NEW t \in Sender, pc[t] # "idle",
           UNCHANGED <<owner, loose, mixed>>,
           \A u \in Sender : u # t => pc'[u] = pc[u]
    PROVE  OneAtWork'
<1> SUFFICES ASSUME ~ mixed
             PROVE  /\ \A u \in Sender : pc'[u] # "idle" /\ u \notin loose => owner = u
                    /\ \A u, v \in Sender : pc'[u] # "idle" /\ pc'[v] # "idle" => u = v
  BY DEF OneAtWork
<1>1. \A u \in Sender : u # t => pc'[u] = "idle"
  BY Acting
<1>2. t \notin loose => owner = t
  BY DEF TInv, OneAtWork
<1> QED
  BY <1>1, <1>2

LEMMA CallTypes ==
    ASSUME TInv, NEW t \in Sender, pc[t] = "next", todo[t] # <<>>
    PROVE  /\ Head(todo[t]) \in Calls /\ Length(t) \in Nat
           /\ Tail(todo[t]) \in Seq(Calls)
           /\ Op(t) \in {"exact", "queue", "clear"}
<1>1. todo[t] \in Seq(Calls)
  BY DEF TInv, SocketTypeOK
<1>2. Head(todo[t]) \in Calls /\ Tail(todo[t]) \in Seq(Calls)
  BY <1>1, HeadTailProperties
<1> QED
  BY <1>2 DEF Calls, Length, Op

\* What a call that fills the buffer takes of its data.
LEMMA FillFacts ==
    ASSUME TInv, NEW t \in Sender, pc[t] = "next", todo[t] # <<>>,
           Fills(t), Len(queue) <= limit,
           NEW data, data = Bytes(t, Length(t)),
           NEW room, room = limit - Len(queue)
    PROVE  /\ data \in Seq(Byte) /\ room \in 0 .. Len(data)
           /\ Take(data, room) \in Seq(Byte) /\ Drop(data, room) \in Seq(Byte)
           /\ Take(data, room) \o Drop(data, room) = data
<1>1. Length(t) \in Nat
  BY CallTypes
<1>2. data \in Seq(Byte) /\ Len(data) = Length(t)
  BY <1>1, BytesFacts DEF TInv
<1>3. room \in 0 .. Len(data)
  BY <1>1, <1>2, Lengths DEF Fills
<1> QED
  BY <1>2, <1>3, TakeDrop

LEMMA TInit == ASSUME Init PROVE TInv
<1> USE SocketAssumption DEF Init
<1>1. SocketTypeOK
  BY EmptySeq DEF SocketTypeOK
<1>2. OneAtWork
  BY DEF OneAtWork
<1>3. InACall
  BY DEF InACall
<1>4. Room
  BY EmptySeq DEF Room
<1> QED
  BY <1>1, <1>2, <1>3, <1>4 DEF TInv

LEMMA TStep == ASSUME TInv, [Next]_vars PROVE TInv'
<1>1. ASSUME NEW t \in Sender, Begin(t) PROVE TInv'
  <2> USE DEF TInv, Goto
  <2>1. PICK m \in Sends[t] :
            /\ m \in Locked => owner = Free
            /\ owner' = IF m \in Locked THEN t ELSE owner
            /\ loose' = IF m \in Locked THEN loose ELSE loose \cup {t}
            /\ mixed' = (mixed \/ \E u \in Sender \ {t} :
                            pc[u] # "idle" /\ (m \notin Locked \/ u \in loose))
            /\ todo' = [todo EXCEPT ![t] = m]
    BY <1>1 DEF Begin
  <2>2. /\ pc[t] = "idle" /\ pc' = [pc EXCEPT ![t] = "next"]
        /\ sent' = [sent EXCEPT ![t] = @ + 1]
        /\ place' = [place EXCEPT ![t] = 0]
        /\ UNCHANGED <<queue, limit, wire, broken, rest, out, accepted>>
    BY <1>1 DEF Begin, socketVars
  <2>3. m \in Seq(Calls)
    BY SocketAssumption
  <2>4. SocketTypeOK'
    <3>1. /\ owner' \in Sender \cup {Free} /\ loose' \subseteq Sender
          /\ mixed' \in BOOLEAN /\ todo' \in [Sender -> Seq(Calls)]
      BY <2>1, <2>3 DEF SocketTypeOK
    <3>2. /\ sent' \in [Sender -> Nat] /\ place' \in [Sender -> Nat]
          /\ pc' \in [Sender ->
                       {"idle", "next", "tail", "fill", "chunk", "flush", "crashed"}]
      BY <2>2 DEF SocketTypeOK
    <3> QED
      BY <2>2, <3>1, <3>2 DEF SocketTypeOK
  <2>5. OneAtWork'
    <3> SUFFICES ASSUME ~ mixed'
                 PROVE  /\ \A u \in Sender : pc'[u] # "idle" /\ u \notin loose' => owner' = u
                        /\ \A u, v \in Sender : pc'[u] # "idle" /\ pc'[v] # "idle" => u = v
      BY DEF OneAtWork
    <3>1. ~ mixed /\ \A u \in Sender \ {t} :
              pc[u] # "idle" => m \in Locked /\ u \notin loose
      BY <2>1
    <3>2. \A u \in Sender \ {t} : pc[u] = "idle" /\ pc'[u] = "idle"
      BY <2>1, <2>2, <3>1, SocketAssumption DEF OneAtWork, SocketTypeOK
    <3> QED
      BY <2>1, <3>2
  <2>6. InACall'
    BY <2>1, <2>2 DEF InACall, SocketTypeOK, Op
  <2>7. Room'
    BY <2>1, <2>2 DEF Room, SocketTypeOK
  <2> QED
    BY <2>4, <2>5, <2>6, <2>7
<1>2. ASSUME NEW t \in Sender, End(t) PROVE TInv'
  <2> USE <1>2 DEF End, TInv, Goto, socketVars
  <2>1. SocketTypeOK'
    BY DEF SocketTypeOK
  <2>2. OneAtWork'
    BY DEF OneAtWork, SocketTypeOK
  <2>3. InACall'
    BY DEF InACall, SocketTypeOK, Op
  <2>4. Room'
    BY DEF Room, SocketTypeOK
  <2> QED
    BY <2>1, <2>2, <2>3, <2>4
<1>3. ASSUME NEW t \in Sender, Call(t) PROVE TInv'
  <2> DEFINE data == Bytes(t, Length(t))
             room == limit - Len(queue)
  <2>a. /\ pc[t] = "next" /\ todo[t] # <<>> /\ Op(t) \in {"exact", "queue"}
        /\ Len(queue) <= limit
        /\ accepted' = accepted \o data
        /\ place' = [place EXCEPT ![t] = @ + Length(t)]
        /\ UNCHANGED <<queue, limit, wire, broken, owner, todo, sent, loose, mixed>>
        /\ \/ /\ Fills(t) /\ Goto(t, "fill")
              /\ out' = [out EXCEPT ![t] = queue \o Take(data, room)]
              /\ rest' = [rest EXCEPT ![t] = Drop(data, room)]
           \/ /\ ~ Fills(t) /\ Goto(t, "tail")
              /\ rest' = [rest EXCEPT ![t] = data]
              /\ UNCHANGED out
    BY <1>3 DEF Call, historyVars
  <2>b. Length(t) \in Nat /\ data \in Seq(Byte) /\ Len(data) = Length(t)
    BY <2>a, CallTypes, BytesFacts DEF TInv
  <2>c. Fills(t) => Take(data, room) \in Seq(Byte) /\ Drop(data, room) \in Seq(Byte)
    BY <2>a, FillFacts
  <2> HIDE DEF data, room
  <2> USE DEF TInv, Goto
  <2>1. SocketTypeOK'
    <3>1. accepted' \in Seq(Byte) /\ place' \in [Sender -> Nat]
      <4>1. accepted \o data \in Seq(Byte)
        BY <2>b, ConcatProperties DEF SocketTypeOK
      <4>2. place' \in [Sender -> Nat]
        BY <2>a, <2>b DEF SocketTypeOK
      <4> QED
        BY <2>a, <4>1, <4>2
    <3>2. Fills(t) => queue \o Take(data, room) \in Seq(Byte)
      BY <2>c, ConcatProperties DEF SocketTypeOK
    <3>3. /\ out' \in [Sender -> Seq(Byte)] /\ rest' \in [Sender -> Seq(Byte)]
          /\ pc' \in [Sender ->
                       {"idle", "next", "tail", "fill", "chunk", "flush", "crashed"}]
      BY <2>a, <2>b, <2>c, <3>2, ZenonT(40) DEF SocketTypeOK
    <3> QED
      BY <2>a, <3>1, <3>3 DEF SocketTypeOK
  <2>2. OneAtWork'
    BY <2>a, StillOne DEF SocketTypeOK
  <2>3. InACall'
    BY <2>a DEF InACall, SocketTypeOK, Op
  <2>4. Room'
    <3>1. ~ mixed => \A u \in Sender : pc'[u] = "tail" =>
              u = t /\ ~ Fills(t) /\ rest'[u] = data
      <4>1. ~ mixed => \A u \in Sender : u # t => pc[u] = "idle"
        BY <2>a, Acting
      <4> QED
        BY <2>a, <4>1 DEF SocketTypeOK
    <3> QED
      BY <2>a, <2>b, <3>1, Lengths DEF Room, Fills
  <2> QED
    BY <2>1, <2>2, <2>3, <2>4
<1>4. ASSUME NEW t \in Sender, Clear(t) PROVE TInv'
  <2> USE <1>4 DEF Clear, TInv, Goto, historyVars
  <2>1. SocketTypeOK'
    BY CallTypes DEF SocketTypeOK, GetOptimalSndBuf
  <2>2. OneAtWork'
    BY DEF OneAtWork, SocketTypeOK
  <2>3. InACall'
    BY DEF InACall, SocketTypeOK, Op
  <2>4. Room'
    <3>1. limit' \in Nat \ {0}
      BY SocketAssumption DEF SocketTypeOK, GetOptimalSndBuf
    <3>2. ~ mixed => \A u \in Sender : pc'[u] # "tail"
      BY Acting DEF SocketTypeOK
    <3>3. ~ mixed => Len(queue') < limit'
      BY <3>1, EmptySeq DEF Room
    <3> QED
      BY <3>2, <3>3 DEF Room
  <2> QED
    BY <2>1, <2>2, <2>3, <2>4
<1>5. ASSUME NEW t \in Sender, Write(t) PROVE TInv'
  <2>1. PICK n \in 1 .. Len(out[t]) :
            /\ wire' = wire \o Take(out[t], n)
            /\ out' = [out EXCEPT ![t] = Drop(@, n)]
    BY <1>5 DEF Write
  <2>2. /\ Take(out[t], n) \in Seq(Byte) /\ Drop(out[t], n) \in Seq(Byte)
    <3>1. out[t] \in Seq(Byte) /\ n \in 0 .. Len(out[t])
      BY LenProperties DEF TInv, SocketTypeOK
    <3> QED
      BY <3>1, TakeDrop
  <2>3. UNCHANGED <<queue, limit, broken, rest, pc, owner, todo, sent, place,
                    accepted, loose, mixed>>
    BY <1>5 DEF Write, senderVars, historyVars
  <2>4. SocketTypeOK'
    <3>1. wire' \in Seq(Byte)
      BY <2>1, <2>2, ConcatProperties DEF TInv, SocketTypeOK
    <3> QED
      BY <2>1, <2>2, <2>3, <3>1 DEF TInv, SocketTypeOK
  <2> QED
    BY <2>3, <2>4 DEF TInv, OneAtWork, InACall, Room, Op
<1>6. ASSUME NEW t \in Sender, Sent(t) PROVE TInv'
  <2> USE DEF TInv, Goto
  <2>a. /\ pc[t] \in {"fill", "chunk"} /\ queue' = <<>>
        /\ UNCHANGED <<limit, wire, broken, owner, todo, sent, place, accepted,
                        loose, mixed>>
        /\ \/ /\ Len(rest[t]) >= limit /\ Goto(t, "chunk")
              /\ out' = [out EXCEPT ![t] = Take(rest[t], limit)]
              /\ rest' = [rest EXCEPT ![t] = Drop(@, limit)]
           \/ /\ Len(rest[t]) < limit /\ Goto(t, "tail")
              /\ UNCHANGED <<out, rest>>
    BY <1>6, Lengths DEF Sent, senderVars, historyVars
  <2>b. Len(rest[t]) >= limit =>
            Take(rest[t], limit) \in Seq(Byte) /\ Drop(rest[t], limit) \in Seq(Byte)
    <3> SUFFICES ASSUME Len(rest[t]) >= limit
                 PROVE  Take(rest[t], limit) \in Seq(Byte) /\ Drop(rest[t], limit) \in Seq(Byte)
      OBVIOUS
    <3>1. rest[t] \in Seq(Byte) /\ limit \in 0 .. Len(rest[t])
      BY <2>a, Lengths DEF SocketTypeOK
    <3> QED
      BY <3>1, TakeDrop
  <2>1. SocketTypeOK'
    BY <2>a, <2>b, EmptySeq, ZenonT(40) DEF SocketTypeOK
  <2>2. OneAtWork'
    BY <2>a, StillOne DEF SocketTypeOK
  <2>3. InACall'
    BY <2>a DEF InACall, SocketTypeOK, Op
  <2>4. Room'
    <3>1. ~ mixed => \A u \in Sender : pc'[u] = "tail" =>
              u = t /\ Len(rest[t]) < limit /\ rest'[u] = rest[t]
      <4>1. ~ mixed => \A u \in Sender : u # t => pc[u] = "idle"
        BY <2>a, Acting
      <4> QED
        BY <2>a, <4>1 DEF SocketTypeOK
    <3>2. Len(queue') = 0 /\ 0 < limit
      BY <2>a, EmptySeq, Lengths
    <3> QED
      BY <2>a, <3>1, <3>2, Lengths DEF Room
  <2> QED
    BY <2>1, <2>2, <2>3, <2>4
<1>7. ASSUME NEW t \in Sender, QueueRest(t) PROVE TInv'
  <2> USE DEF TInv, Goto
  <2>a. /\ pc[t] = "tail" /\ queue' = queue \o rest[t]
        /\ rest' = [rest EXCEPT ![t] = <<>>]
        /\ UNCHANGED <<limit, wire, broken, owner, sent, place, accepted, loose, mixed>>
        /\ \/ /\ Op(t) = "exact" /\ Goto(t, "flush")
              /\ out' = [out EXCEPT ![t] = queue']
              /\ UNCHANGED todo
           \/ /\ todo' = [todo EXCEPT ![t] = Tail(@)]
              /\ Goto(t, "next")
              /\ UNCHANGED out
    BY <1>7 DEF QueueRest, historyVars
  <2>b. /\ queue' \in Seq(Byte) /\ Len(queue') = Len(queue) + Len(rest[t])
        /\ Tail(todo[t]) \in Seq(Calls)
    BY <2>a, ConcatProperties, HeadTailProperties DEF SocketTypeOK, InACall
  <2>1. SocketTypeOK'
    BY <2>a, <2>b, EmptySeq, ZenonT(40) DEF SocketTypeOK
  <2>2. OneAtWork'
    BY <2>a, StillOne DEF SocketTypeOK
  <2>3. InACall'
    BY <2>a DEF InACall, SocketTypeOK, Op
  <2>4. Room'
    <3>1. ~ mixed => \A u \in Sender : pc'[u] # "tail"
      BY <2>a, Acting DEF SocketTypeOK
    <3> QED
      BY <2>a, <2>b, <3>1 DEF Room
  <2> QED
    BY <2>1, <2>2, <2>3, <2>4
<1>8. ASSUME NEW t \in Sender, Flushed(t) PROVE TInv'
  <2> USE DEF TInv, Goto
  <2>a. /\ pc[t] = "flush" /\ queue' = <<>>
        /\ limit' \in Windows \cup {limit, SendBuffer}
        /\ todo' = [todo EXCEPT ![t] = Tail(@)]
        /\ Goto(t, "next")
        /\ UNCHANGED <<wire, broken, owner, rest, out, sent, place, accepted,
                        loose, mixed>>
    BY <1>8 DEF Flushed, GetOptimalSndBuf, historyVars
  <2>b. Tail(todo[t]) \in Seq(Calls)
    BY <2>a, HeadTailProperties DEF SocketTypeOK, InACall
  <2>1. SocketTypeOK'
    BY <2>a, <2>b, EmptySeq DEF SocketTypeOK
  <2>2. OneAtWork'
    BY <2>a, StillOne DEF SocketTypeOK
  <2>3. InACall'
    BY <2>a DEF InACall, SocketTypeOK, Op
  <2>4. Room'
    <3>1. ~ mixed => \A u \in Sender : pc'[u] # "tail"
      BY <2>a, Acting DEF SocketTypeOK
    <3>2. Len(queue') = 0 /\ limit' \in Nat \ {0}
      BY <2>a, EmptySeq, SocketAssumption DEF SocketTypeOK
    <3> QED
      BY <2>a, <3>1, <3>2 DEF Room
  <2> QED
    BY <2>1, <2>2, <2>3, <2>4
<1>9. ASSUME NEW t \in Sender, WriteFails(t) PROVE TInv'
  <2> USE DEF TInv, Goto
  <2>a. /\ pc[t] \in {"fill", "chunk", "flush"}
        /\ broken' = TRUE
        /\ out' = [out EXCEPT ![t] = <<>>]
        /\ rest' = [rest EXCEPT ![t] = <<>>]
        /\ \/ todo' = [todo EXCEPT ![t] = Tail(@)]
           \/ todo' = [todo EXCEPT ![t] = <<>>]
        /\ Goto(t, "next")
        /\ UNCHANGED <<queue, limit, wire, owner, sent, place, accepted, loose, mixed>>
    BY <1>9 DEF WriteFails, historyVars
  <2>b. Tail(todo[t]) \in Seq(Calls) /\ <<>> \in Seq(Calls)
    BY <2>a, EmptySeq, HeadTailProperties DEF SocketTypeOK, InACall
  <2>1. SocketTypeOK'
    BY <2>a, <2>b, EmptySeq DEF SocketTypeOK
  <2>2. OneAtWork'
    BY <2>a, StillOne DEF SocketTypeOK
  <2>3. InACall'
    BY <2>a DEF InACall, SocketTypeOK, Op
  <2>4. Room'
    BY <2>a DEF Room, SocketTypeOK
  <2> QED
    BY <2>1, <2>2, <2>3, <2>4
<1>10. ASSUME NEW t \in Sender, Overrun(t) PROVE TInv'
  <2> USE DEF TInv
  <2>1. /\ pc[t] = "next" /\ Len(queue) > limit /\ broken' = TRUE
        /\ pc' = [u \in Sender |-> "crashed"]
        /\ UNCHANGED <<queue, limit, wire, rest, out, owner, todo, sent, place,
                        accepted, loose, mixed>>
    BY <1>10 DEF Overrun, senderVars, historyVars
  <2>2. mixed' = TRUE
    <3>1. CASE ~ mixed
      <4>1. Len(queue) < limit /\ Len(queue) \in Nat /\ limit \in Nat
        BY <2>1, <3>1, Acting, Lengths
      <4> QED
        BY <2>1, <4>1
    <3> QED
      BY <2>1, <3>1 DEF SocketTypeOK
  <2>3. SocketTypeOK'
    BY <2>1 DEF SocketTypeOK
  <2>4. InACall'
    BY <2>1 DEF InACall
  <2> QED
    BY <2>2, <2>3, <2>4 DEF OneAtWork, Room
<1>11. CASE UNCHANGED vars
  BY <1>11 DEF vars, TInv, SocketTypeOK, OneAtWork, InACall, Room, Op
<1> QED
  BY <1>1, <1>2, <1>3, <1>4, <1>5, <1>6, <1>7, <1>8, <1>9, <1>10, <1>11
  DEF Next, Step

-----------------------------------------------------------------------------
\* No byte is lost, repeated or out of order.

LEMMA UnsentType == ASSUME TInv, NEW t \in Sender PROVE Unsent(t) \in Seq(Byte)
<1>1. out[t] \in Seq(Byte) /\ rest[t] \in Seq(Byte) /\ queue \in Seq(Byte)
  BY DEF TInv, SocketTypeOK
<1>2. out[t] \o rest[t] \in Seq(Byte) /\ queue \o rest[t] \in Seq(Byte)
  BY <1>1, ConcatProperties
<1> QED
  BY <1>1, <1>2 DEF Unsent

\* Appending sequences of bytes is associative.
LEMMA Associative ==
    ASSUME NEW a \in Seq(Byte), NEW b \in Seq(Byte), NEW c \in Seq(Byte)
    PROVE  b \o c \in Seq(Byte) /\ (a \o b) \o c = a \o (b \o c)
<1>1. b \o c \in Seq(Byte)
  BY ConcatProperties
<1>2. (a \o b) \o c = a \o (b \o c)
  BY ConcatAssociative
<1> QED
  BY <1>1, <1>2

LEMMA AccountedStep ==
    ASSUME TInv, Accounted, [Next]_vars PROVE Accounted'
<1> SUFFICES ASSUME ~ broken', ~ mixed' PROVE Accounted'
  BY DEF Accounted
<1>t. /\ queue \in Seq(Byte) /\ wire \in Seq(Byte) /\ accepted \in Seq(Byte)
      /\ \A t \in Sender : out[t] \in Seq(Byte) /\ rest[t] \in Seq(Byte)
      /\ pc \in [Sender ->
                   {"idle", "next", "tail", "fill", "chunk", "flush", "crashed"}]
      /\ out \in [Sender -> Seq(Byte)] /\ rest \in [Sender -> Seq(Byte)]
  BY DEF TInv, SocketTypeOK
<1>m. ASSUME NEW t \in Sender, Begin(t) \/ Step(t) \/ WriteFails(t)
      PROVE  ~ broken /\ ~ mixed
  <2>1. CASE Begin(t)
    BY <2>1 DEF Begin, socketVars
  <2>2. CASE Call(t)
    BY <2>2 DEF Call, historyVars
  <2>3. CASE Overrun(t) \/ WriteFails(t)
    BY <2>3 DEF Overrun, WriteFails
  <2>4. CASE Clear(t) \/ QueueRest(t) \/ Flushed(t) \/ End(t)
    BY <2>4 DEF Clear, QueueRest, Flushed, End, socketVars, historyVars
  <2>5. CASE Write(t) \/ Sent(t)
    BY <2>5 DEF Write, Sent, senderVars, historyVars
  <2> QED
    BY <1>m, <2>1, <2>2, <2>3, <2>4, <2>5 DEF Step
<1>q. ASSUME NEW t \in Sender, ~ broken, ~ mixed, pc[t] # "idle",
             \A u \in Sender : u # t => pc'[u] = pc[u],
             wire' \o Unsent(t)' = accepted'
      PROVE  Accounted'
  <2>1. \A u \in Sender : u # t => pc'[u] = "idle"
    BY <1>q, Acting
  <2>2. pc'[t] = "idle" => Unsent(t)' = queue'
    BY DEF Unsent
  <2> QED
    BY <1>q, <2>1, <2>2 DEF Accounted
<1>a. ASSUME NEW t \in Sender, Step(t), pc[t] # "idle" PROVE wire \o Unsent(t) = accepted
  BY <1>a, <1>m DEF Accounted
<1>1. ASSUME NEW t \in Sender, Begin(t) PROVE Accounted'
  <2>1. /\ pc[t] = "idle" /\ pc' = [pc EXCEPT ![t] = "next"]
        /\ UNCHANGED <<queue, wire, accepted>>
    BY <1>1 DEF Begin, Goto, socketVars
  <2>2. \A u \in Sender : u # t => pc[u] = "idle"
    <3>1. TInv'
      BY TStep
    <3>2. \A u \in Sender : u # t => pc'[u] = "idle"
      BY <1>t, <2>1, <3>1 DEF TInv, OneAtWork
    <3> QED
      BY <1>t, <2>1, <3>2
  <2>3. wire \o queue = accepted
    BY <1>1, <1>m, <2>1, <2>2 DEF Accounted
  <2>4. \A u \in Sender : pc'[u] # "idle" => u = t /\ Unsent(u)' = queue'
    BY <1>t, <2>1, <2>2 DEF Unsent
  <2> QED
    BY <2>1, <2>3, <2>4 DEF Accounted
<1>2. ASSUME NEW t \in Sender, End(t) PROVE Accounted'
  <2>1. pc[t] = "next" /\ pc' = [pc EXCEPT ![t] = "idle"]
    BY <1>2 DEF End, Goto
  <2>2. Unsent(t) = queue /\ Unsent(t)' = queue'
    BY <1>t, <2>1 DEF Unsent
  <2>3. wire' \o Unsent(t)' = accepted'
    BY <1>2, <1>a, <2>1, <2>2 DEF Step, End, socketVars
  <2> QED
    BY <1>2, <1>m, <1>q, <1>t, <2>1, <2>3 DEF Step
<1>3. ASSUME NEW t \in Sender, Call(t) PROVE Accounted'
  <2> DEFINE data == Bytes(t, Length(t))
             room == limit - Len(queue)
  <2>1. pc[t] = "next" /\ Unsent(t) = queue
    BY <1>3 DEF Call, Unsent
  <2>2. data \in Seq(Byte)
    BY <1>3, CallTypes, BytesFacts DEF Call, TInv
  <2>3. wire \o (queue \o data) = accepted \o data
    <3>1. wire \o queue = accepted
      BY <1>3, <1>a, <2>1 DEF Step
    <3> HIDE DEF data
    <3>2. wire \in Seq(Byte) /\ queue \in Seq(Byte) /\ data \in Seq(Byte)
      BY <1>t, <2>2
    <3>3. (wire \o queue) \o data = wire \o (queue \o data)
      BY ONLY <3>2, Associative
    <3> QED
      BY <3>1, <3>3
  <2>4. Unsent(t)' = queue \o data
    <3>1. CASE Fills(t)
      <4>1. /\ Take(data, room) \in Seq(Byte) /\ Drop(data, room) \in Seq(Byte)
            /\ Take(data, room) \o Drop(data, room) = data
        BY <1>3, <3>1, FillFacts DEF Call
      <4>2. /\ out' = [out EXCEPT ![t] = queue \o Take(data, room)]
            /\ rest' = [rest EXCEPT ![t] = Drop(data, room)]
            /\ pc' = [pc EXCEPT ![t] = "fill"]
        BY <1>3, <3>1 DEF Call, Goto
      <4> HIDE DEF data, room
      <4>3. Unsent(t)' = (queue \o Take(data, room)) \o Drop(data, room)
        BY <1>t, <4>2 DEF Unsent
      <4>4. queue \in Seq(Byte)
        BY <1>t
      <4>5. (queue \o Take(data, room)) \o Drop(data, room)
              = queue \o (Take(data, room) \o Drop(data, room))
        BY ONLY <4>1, <4>4, Associative
      <4> QED
        BY <4>1, <4>3, <4>5
    <3>2. CASE ~ Fills(t)
      <4>1. /\ rest' = [rest EXCEPT ![t] = data]
            /\ pc' = [pc EXCEPT ![t] = "tail"] /\ queue' = queue
        BY <1>3, <3>2 DEF Call, Goto
      <4> HIDE DEF data, room
      <4> QED
        BY <1>t, <4>1 DEF Unsent
    <3> QED
      BY <3>1, <3>2
  <2>5. wire' = wire /\ accepted' = accepted \o data
    BY <1>3 DEF Call
  <2>6. \A u \in Sender : u # t => pc'[u] = pc[u]
    BY <1>3, <1>t DEF Call, Goto
  <2>7. wire' \o Unsent(t)' = accepted'
    BY <2>3, <2>4, <2>5
  <2>8. ~ broken /\ ~ mixed
    BY <1>3, <1>m DEF Step
  <2> QED
    BY <1>q, <2>1, <2>6, <2>7, <2>8
<1>4. ASSUME NEW t \in Sender, Clear(t) PROVE Accounted'
  <2>1. pc[t] = "next" /\ Unsent(t) = queue
    BY <1>4 DEF Clear, Unsent
  <2>2. Unsent(t)' = queue /\ \A u \in Sender : u # t => pc'[u] = pc[u]
    BY <1>4, <1>t, <2>1 DEF Clear, Goto, Unsent
  <2>3. wire' \o Unsent(t)' = accepted'
    BY <1>4, <1>a, <2>1, <2>2 DEF Step, Clear
  <2> QED
    BY <1>4, <1>m, <1>q, <2>1, <2>2, <2>3 DEF Step
<1>5. ASSUME NEW t \in Sender, Write(t) PROVE Accounted'
  <2>1. PICK n \in 1 .. Len(out[t]) :
            /\ wire' = wire \o Take(out[t], n)
            /\ out' = [out EXCEPT ![t] = Drop(@, n)]
    BY <1>5 DEF Write
  <2>2. UNCHANGED <<queue, limit, broken, rest, pc, accepted>>
    BY <1>5 DEF Write, senderVars
  <2>3. /\ Take(out[t], n) \in Seq(Byte) /\ Drop(out[t], n) \in Seq(Byte)
        /\ Take(out[t], n) \o Drop(out[t], n) = out[t]
    <3>1. out[t] \in Seq(Byte) /\ n \in 0 .. Len(out[t])
      BY <1>t, LenProperties
    <3> QED
      BY <3>1, TakeDrop
  <2>r. wire \in Seq(Byte) /\ rest[t] \in Seq(Byte)
    BY <1>t
  <2>4. pc[t] \in {"fill", "chunk", "flush"}
    BY <1>5 DEF Write
  <2>5. wire \o Unsent(t) = accepted
    BY <1>5, <1>a, <2>4 DEF Step
  <2>8. ~ broken /\ ~ mixed
    BY <1>5, <1>m DEF Step
  <2>6. CASE pc[t] = "flush"
    <3>1. Unsent(t) = out[t] /\ Unsent(t)' = Drop(out[t], n)
      BY <1>t, <2>1, <2>2, <2>4, <2>6 DEF Unsent
    <3>2. (wire \o Take(out[t], n)) \o Drop(out[t], n)
            = wire \o (Take(out[t], n) \o Drop(out[t], n))
      BY ONLY <2>3, <2>r, Associative
    <3>3. wire' \o Unsent(t)' = accepted'
      BY <2>1, <2>2, <2>3, <2>5, <3>1, <3>2
    <3> QED
      BY <1>q, <2>2, <2>4, <2>8, <3>3
  <2>7. CASE pc[t] \in {"fill", "chunk"}
    <3>1. Unsent(t) = out[t] \o rest[t] /\ Unsent(t)' = Drop(out[t], n) \o rest[t]
      BY <1>t, <2>1, <2>2, <2>4, <2>7 DEF Unsent
    <3>2. (wire \o Take(out[t], n)) \o (Drop(out[t], n) \o rest[t])
            = wire \o ((Take(out[t], n) \o Drop(out[t], n)) \o rest[t])
      <4> DEFINE first == Take(out[t], n)
             left == Drop(out[t], n)
      <4>1. first \in Seq(Byte) /\ left \in Seq(Byte)
        BY <2>3
      <4> HIDE DEF first, left
      <4>2. (wire \o first) \o (left \o rest[t]) = wire \o ((first \o left) \o rest[t])
        <5> DEFINE both == left \o rest[t]
        <5>1. both \in Seq(Byte)
          BY ONLY <4>1, <2>r, Associative
        <5> HIDE DEF both
        <5>2. (wire \o first) \o both = wire \o (first \o both)
          <6>1. wire \in Seq(Byte) /\ first \in Seq(Byte) /\ both \in Seq(Byte)
            BY <4>1, <2>r, <5>1
          <6> QED
            BY ONLY <6>1, Associative
        <5>3. (first \o left) \o rest[t] = first \o (left \o rest[t])
          BY ONLY <4>1, <2>r, Associative
        <5> QED
          BY <5>2, <5>3 DEF both
      <4> QED
        BY <4>2 DEF first, left
    <3>3. wire' \o Unsent(t)' = (wire \o Take(out[t], n)) \o (Drop(out[t], n) \o rest[t])
      BY <2>1, <3>1
    <3>4. wire \o ((Take(out[t], n) \o Drop(out[t], n)) \o rest[t]) = wire \o Unsent(t)
      BY <2>3, <3>1
    <3>5. wire' \o Unsent(t)' = accepted'
      BY <2>2, <2>5, <3>2, <3>3, <3>4
    <3> QED
      BY <1>q, <2>2, <2>4, <2>8, <3>5
  <2> QED
    BY <2>4, <2>6, <2>7
<1>6. ASSUME NEW t \in Sender, Sent(t) PROVE Accounted'
  <2>1. /\ pc[t] \in {"fill", "chunk"} /\ Unsent(t) = out[t] \o rest[t] /\ out[t] = <<>>
        /\ wire' = wire /\ accepted' = accepted /\ queue' = <<>>
    BY <1>6 DEF Sent, senderVars, Unsent
  <2>2. Unsent(t) = rest[t]
    BY <1>t, <2>1, ConcatEmptySeq
  <2>3. ASSUME Len(rest[t]) >= limit PROVE Unsent(t)' = rest[t]
    <3>1. Unsent(t)' = Take(rest[t], limit) \o Drop(rest[t], limit)
      <4>1. /\ pc'[t] = "chunk" /\ out'[t] = Take(rest[t], limit)
            /\ rest'[t] = Drop(rest[t], limit)
        BY <1>6, <1>t, <2>3 DEF Sent, Goto
      <4> QED
        BY <4>1 DEF Unsent
    <3>2. rest[t] \in Seq(Byte) /\ limit \in 0 .. Len(rest[t])
      BY <1>t, <2>3, Lengths
    <3> QED
      BY <3>1, <3>2, TakeDrop
  <2>4. ASSUME ~ (Len(rest[t]) >= limit) PROVE Unsent(t)' = rest[t]
    <3>1. Unsent(t)' = <<>> \o rest[t]
      <4>1. pc'[t] = "tail" /\ rest'[t] = rest[t] /\ queue' = <<>>
        BY <1>6, <1>t, <2>4 DEF Sent, Goto
      <4> QED
        BY <4>1 DEF Unsent
    <3> QED
      BY <1>t, <3>1, ConcatEmptySeq
  <2>5. Unsent(t)' = rest[t]
    BY <2>3, <2>4
  <2>6. wire' \o Unsent(t)' = accepted'
    BY <1>6, <1>a, <2>1, <2>2, <2>5 DEF Step
  <2>7. \A u \in Sender : u # t => pc'[u] = pc[u]
    BY <1>6, <1>t DEF Sent, Goto
  <2>8. ~ broken /\ ~ mixed
    BY <1>6, <1>m DEF Step
  <2> QED
    BY <1>q, <2>1, <2>6, <2>7, <2>8
<1>7. ASSUME NEW t \in Sender, QueueRest(t) PROVE Accounted'
  <2>1. pc[t] = "tail" /\ Unsent(t) = queue \o rest[t]
    BY <1>7 DEF QueueRest, Unsent
  <2>2. /\ Unsent(t)' = queue \o rest[t]
        /\ \A u \in Sender : u # t => pc'[u] = pc[u]
    BY <1>7, <1>t, <2>1 DEF QueueRest, Goto, Unsent
  <2>3. wire' \o Unsent(t)' = accepted'
    BY <1>7, <1>a, <2>1, <2>2 DEF Step, QueueRest
  <2> QED
    BY <1>7, <1>m, <1>q, <2>1, <2>2, <2>3 DEF Step
<1>8. ASSUME NEW t \in Sender, Flushed(t) PROVE Accounted'
  <2>1. pc[t] = "flush" /\ Unsent(t) = out[t] /\ out[t] = <<>>
    BY <1>8 DEF Flushed, Unsent
  <2>2. Unsent(t)' = <<>> /\ \A u \in Sender : u # t => pc'[u] = pc[u]
    BY <1>8, <1>t, <2>1 DEF Flushed, Goto, Unsent
  <2>3. wire' \o Unsent(t)' = accepted'
    BY <1>8, <1>a, <2>1, <2>2 DEF Step, Flushed
  <2> QED
    BY <1>8, <1>m, <1>q, <2>1, <2>2, <2>3 DEF Step
<1>9. ASSUME NEW t \in Sender, WriteFails(t) \/ Overrun(t) PROVE Accounted'
  BY <1>9 DEF WriteFails, Overrun
<1>10. CASE UNCHANGED vars
  BY <1>10 DEF vars, Accounted, Unsent
<1> QED
  BY <1>1, <1>2, <1>3, <1>4, <1>5, <1>6, <1>7, <1>8, <1>9, <1>10 DEF Next, Step

-----------------------------------------------------------------------------
\* Messages stay whole.

LEMMA GroupedStep ==
    ASSUME MInv, [Next]_vars
    PROVE  Numbered' /\ Grouped' /\ LastInWork'
<1> USE DEF MInv
<1>t. /\ accepted \in Seq(Byte) /\ sent \in [Sender -> Nat] /\ Len(accepted) \in Nat
      /\ \A i \in 1 .. Len(accepted) :
            /\ accepted[i].by \in Sender /\ accepted[i].msg \in Nat
  <2>1. accepted \in Seq(Byte) /\ sent \in [Sender -> Nat]
    BY DEF TInv, SocketTypeOK
  <2>2. \A i \in 1 .. Len(accepted) : accepted[i] \in Byte
    BY <2>1, ElementOfSeq
  <2> QED
    BY <2>1, <2>2, LenProperties DEF Byte
<1>p. pc \in [Sender -> {"idle", "next", "tail", "fill", "chunk", "flush", "crashed"}]
  BY DEF TInv, SocketTypeOK
<1>1. ASSUME NEW t \in Sender, Begin(t) PROVE Numbered' /\ Grouped' /\ LastInWork'
  <2>1. /\ accepted' = accepted /\ sent' = [sent EXCEPT ![t] = @ + 1]
        /\ pc' = [pc EXCEPT ![t] = "next"] /\ (~ mixed' => ~ mixed)
    BY <1>1 DEF Begin, Goto
  <2>2. Numbered'
    BY <1>t, <2>1 DEF Numbered
  <2>3. LastInWork'
    <3>1. ~ mixed' => \A u \in Sender : pc'[u] # "idle" => u = t
      <4>1. TInv'
        BY TStep
      <4> QED
        BY <1>p, <2>1, <4>1 DEF TInv, OneAtWork
    <3> QED
      BY <1>t, <2>1, <3>1 DEF Numbered, LastInWork
  <2> QED
    BY <2>1, <2>2, <2>3 DEF Grouped, SameMessage
<1>2. ASSUME UNCHANGED <<accepted, sent>>, ~ mixed' => ~ mixed,
             \A u \in Sender : pc[u] = "idle" => pc'[u] = "idle"
      PROVE  Numbered' /\ Grouped' /\ LastInWork'
  BY <1>2 DEF Numbered, Grouped, LastInWork, SameMessage
<1>3. ASSUME NEW t \in Sender, Call(t) PROVE Numbered' /\ Grouped' /\ LastInWork'
  <2> DEFINE data == Bytes(t, Length(t))
             n == Len(accepted)
             new == accepted'
  <2>1. /\ sent' = sent /\ new = accepted \o data /\ mixed' = mixed
        /\ pc[t] = "next"
        /\ \A u \in Sender : u # t => pc'[u] = pc[u]
    BY <1>3, <1>p DEF Call, Goto, historyVars
  <2>a. ~ mixed => \A u \in Sender : u # t => pc[u] = "idle"
    BY <2>1, Acting
  <2>2. /\ data \in Seq(Byte)
        /\ \A i \in 1 .. Len(data) : data[i].by = t /\ data[i].msg = sent[t]
    <3>1. Length(t) \in Nat /\ SocketTypeOK
      BY <1>3, CallTypes DEF Call, TInv
    <3>2. /\ data \in Seq(Byte) /\ Len(data) = Length(t)
          /\ \A i \in 1 .. Length(t) : data[i].by = t /\ data[i].msg = sent[t]
      BY <3>1, BytesFacts
    <3> QED
      BY <3>2
  <2> HIDE DEF data
  <2>3. Len(data) \in Nat /\ Len(new) = n + Len(data)
    BY <1>t, <2>1, <2>2, LenProperties, ConcatProperties
  <2>4. \A i \in 1 .. Len(new) :
            \/ i \in 1 .. n /\ new[i] = accepted[i]
            \/ i > n /\ new[i].by = t /\ new[i].msg = sent[t]
    <3> TAKE i \in 1 .. Len(new)
    <3>1. new[i] = IF i <= n THEN accepted[i] ELSE data[i - n]
      BY <1>t, <2>1, <2>2, <2>3, ConcatProperties
    <3>2. i > n => i - n \in 1 .. Len(data)
      BY <1>t, <2>3
    <3> QED
      BY <1>t, <2>2, <2>3, <3>1, <3>2
  <2>5. Len(new) \in Nat /\ n \in Nat /\ sent[t] \in Nat
    BY <1>t, <2>3
  <2> HIDE DEF n, new
  <2>6. ASSUME NEW i \in 1 .. Len(new) PROVE new[i].msg <= sent[new[i].by]
    BY <2>4, <2>5, <2>6 DEF Numbered, n
  <2>7. ASSUME ~ mixed, NEW i \in 1 .. Len(new), NEW j \in 1 .. Len(new), i < j,
               new[i].by = t, new[i].msg = sent[t]
        PROVE  new[j].by = t /\ new[j].msg = sent[t]
    <3>1. CASE j > n
      BY <2>4, <2>5, <2>7, <3>1
    <3>2. CASE ~ (j > n)
      <4>1. /\ i \in 1 .. n /\ j \in 1 .. n
            /\ new[i] = accepted[i] /\ new[j] = accepted[j]
        BY <2>4, <2>5, <2>7, <3>2
      <4>2. SameMessage(accepted[i], accepted[j])
        BY <2>1, <2>7, <4>1 DEF LastInWork, n
      <4> QED
        BY <2>7, <4>1, <4>2 DEF SameMessage
    <3> QED
      BY <3>1, <3>2
  <2>8. ASSUME ~ mixed, NEW i \in 1 .. Len(new), NEW j \in 1 .. Len(new), i < j,
               SameMessage(new[i], new[j]), NEW k \in i .. j
        PROVE  SameMessage(new[i], new[k])
    <3>0. k \in 1 .. Len(new)
      BY <2>5, <2>8
    <3>1. CASE j > n
      <4>1. new[i].by = t /\ new[i].msg = sent[t]
        BY <2>4, <2>5, <2>8, <3>1 DEF SameMessage
      <4>2. k = i \/ i < k
        BY <2>5, <2>8
      <4> QED
        BY <2>7, <2>8, <3>0, <4>1, <4>2 DEF SameMessage
    <3>2. CASE ~ (j > n)
      <4>1. /\ i \in 1 .. n /\ j \in 1 .. n /\ k \in 1 .. n
            /\ new[i] = accepted[i] /\ new[j] = accepted[j] /\ new[k] = accepted[k]
        BY <2>4, <2>5, <2>8, <3>0, <3>2
      <4> QED
        BY <2>8, <4>1 DEF Grouped, n
    <3> QED
      BY <3>1, <3>2
  <2>9. Numbered'
    BY <2>1, <2>6 DEF Numbered, new
  <2>10. Grouped'
    BY <2>1, <2>8 DEF Grouped, SameMessage, new
  <2>11. LastInWork'
    BY <2>1, <2>7, <2>a DEF LastInWork, SameMessage, new
  <2> QED
    BY <2>9, <2>10, <2>11
<1>4. ASSUME NEW t \in Sender,
             \/ Clear(t) \/ Write(t) \/ Sent(t) \/ QueueRest(t) \/ Flushed(t)
             \/ WriteFails(t) \/ End(t)
      PROVE  /\ UNCHANGED <<accepted, sent, mixed>>
             /\ \A u \in Sender : pc[u] = "idle" => pc'[u] = "idle"
  <2>1. UNCHANGED <<accepted, sent, mixed>>
    BY <1>4 DEF Clear, Write, Sent, QueueRest, Flushed, WriteFails, End,
       senderVars, historyVars
  <2>2. pc[t] # "idle" /\ \A u \in Sender : u # t => pc'[u] = pc[u]
    BY <1>4, <1>p DEF Clear, Write, Sent, QueueRest, Flushed, WriteFails, End, Goto
  <2> QED
    BY <2>1, <2>2
<1>5. ASSUME NEW t \in Sender, Overrun(t) PROVE Numbered' /\ Grouped' /\ LastInWork'
  <2>1. mixed
    <3> SUFFICES ASSUME ~ mixed PROVE FALSE
      OBVIOUS
    <3>1. pc[t] # "idle" /\ Len(queue) > limit
      BY <1>5 DEF Overrun
    <3>2. Len(queue) < limit /\ Len(queue) \in Nat /\ limit \in Nat
      BY <3>1, Acting, Lengths
    <3> QED
      BY <3>1, <3>2
  <2>2. UNCHANGED <<accepted, sent, mixed>>
    BY <1>5 DEF Overrun, senderVars, historyVars
  <2> QED
    BY <2>1, <2>2 DEF Numbered, Grouped, LastInWork
<1>6. CASE UNCHANGED vars
  BY <1>2, <1>6 DEF vars
<1>7. ASSUME NEW t \in Sender, Begin(t) \/ Step(t) \/ WriteFails(t)
      PROVE  Numbered' /\ Grouped' /\ LastInWork'
  BY <1>1, <1>2, <1>3, <1>4, <1>5, <1>7 DEF Step
<1> QED
  BY <1>6, <1>7 DEF Next

-----------------------------------------------------------------------------
\* The theorems.

LEMMA SInit == ASSUME Init PROVE Accounted
<1>1. /\ wire = <<>> /\ queue = <<>> /\ accepted = <<>>
      /\ \A t \in Sender : pc[t] = "idle"
  BY DEF Init
<1>2. <<>> \o <<>> = <<>>
  BY EmptySeq, ConcatEmptySeq
<1> QED
  BY <1>1, <1>2 DEF Accounted

LEMMA MInit == ASSUME Init PROVE Numbered /\ Grouped /\ LastInWork
BY EmptySeq DEF Init, Numbered, Grouped, LastInWork

\* The invariant.
THEOREM Invariance == Spec => [](SInv /\ MInv)
<1>1. Init => SInv /\ MInv
  BY TInit, SInit, MInit DEF SInv, MInv
<1>2. SInv /\ MInv /\ [Next]_vars => (SInv /\ MInv)'
  BY TStep, AccountedStep, GroupedStep DEF SInv, MInv
<1> QED
  BY <1>1, <1>2, PTL DEF Spec

\* Every variable keeps its type, also after messages have mixed: in particular
\* Send never takes more of the caller's data than there is, whatever fills the
\* buffer.
THEOREM TypeCorrect == Spec => []SocketTypeOK
<1>1. SInv => SocketTypeOK
  BY DEF SInv, TInv
<1> QED
  BY <1>1, Invariance, PTL

\* There is room in the buffer when a call begins, whatever window was read
\* last and whatever failed (the unsigned difference in Send), until a message
\* sent without the lock meets another one.
THEOREM RoomLeft == Spec => []RoomInBuffer
<1>1. SInv => RoomInBuffer
  BY DEF SInv, TInv, Room, RoomInBuffer
<1> QED
  BY <1>1, Invariance, PTL

\* Filling, splitting and flushing the buffer loses, repeats and reorders
\* nothing (Send, SendQueued, ClearQueue), until a write fails or messages mix.
THEOREM StreamKept == Spec => []StreamIntact
<1>1. SInv => StreamIntact
  <2> SUFFICES ASSUME SInv, ~ broken, ~ mixed
               PROVE  /\ IsPrefix(wire, accepted)
                      /\ (\A t \in Sender : pc[t] = "idle") => wire \o queue = accepted
    BY DEF StreamIntact
  <2>1. wire \in Seq(Byte) /\ queue \in Seq(Byte)
    BY DEF SInv, TInv, SocketTypeOK
  <2>2. CASE \A t \in Sender : pc[t] = "idle"
    <3>1. wire \o queue = accepted
      BY <2>2 DEF SInv, Accounted
    <3> QED
      BY <2>1, <3>1, PrefixOfConcat
  <2>3. ASSUME NEW t \in Sender, pc[t] # "idle" PROVE IsPrefix(wire, accepted)
    <3>1. wire \o Unsent(t) = accepted /\ Unsent(t) \in Seq(Byte)
      BY <2>3, UnsentType DEF SInv, Accounted
    <3> QED
      BY <2>1, <3>1, PrefixOfConcat
  <2> QED
    BY <2>2, <2>3
<1> QED
  BY <1>1, Invariance, PTL

\* On the wire the bytes of a message are not interleaved with those of another
\* one (the update lock in SendUpdate, SendFileChunk, ...), until a write fails
\* or a message sent without the lock meets another one.
THEOREM MessagesWhole == Spec => []WholeMessages
<1>1. SInv /\ MInv /\ StreamIntact => WholeMessages
  <2> SUFFICES ASSUME SInv, MInv, StreamIntact, ~ broken, ~ mixed,
                      NEW i \in 1 .. Len(wire), NEW j \in 1 .. Len(wire),
                      i < j, SameMessage(wire[i], wire[j]), NEW k \in i .. j
               PROVE  SameMessage(wire[i], wire[k])
    BY DEF WholeMessages, Whole
  <2>1. wire \in Seq(Byte) /\ accepted \in Seq(Byte)
    BY DEF SInv, TInv, SocketTypeOK
  <2>2. IsPrefix(wire, accepted)
    BY DEF StreamIntact
  <2>3. /\ Len(wire) <= Len(accepted) /\ Len(wire) \in Nat /\ Len(accepted) \in Nat
        /\ \A x \in 1 .. Len(wire) : wire[x] = accepted[x]
    BY <2>1, <2>2, PrefixElements, LenProperties
  <2>4. /\ i \in 1 .. Len(accepted) /\ j \in 1 .. Len(accepted)
        /\ wire[i] = accepted[i] /\ wire[j] = accepted[j]
        /\ k \in 1 .. Len(wire) /\ wire[k] = accepted[k]
    BY <2>3
  <2> QED
    BY <2>4 DEF MInv, Grouped
<1> QED
  BY <1>1, Invariance, StreamKept, PTL

\* What the lock would give if every message were sent under it: none is ever
\* sent in the middle of another one (vncclient.cpp:6163).
THEOREM UnderTheLock ==
    ASSUME Locked = Message
    PROVE  Spec => [](NeverInTheMiddle /\ (broken \/ IsPrefix(wire, accepted)))
<1> DEFINE Held == loose = {} /\ mixed = FALSE
<1>1. Init => Held
  BY DEF Init
<1>2. Held /\ [Next]_vars => Held'
  <2> SUFFICES ASSUME Held, [Next]_vars PROVE Held'
    OBVIOUS
  <2>1. ASSUME NEW t \in Sender, Begin(t) PROVE Held'
    <3>1. PICK m \in Sends[t] :
              /\ loose' = IF m \in Locked THEN loose ELSE loose \cup {t}
              /\ mixed' = (mixed \/ \E u \in Sender \ {t} :
                              pc[u] # "idle" /\ (m \notin Locked \/ u \in loose))
      BY <2>1 DEF Begin
    <3>2. m \in Locked
      BY SocketAssumption
    <3> QED
      BY <3>1, <3>2
  <2>2. ASSUME NEW t \in Sender, Step(t) \/ WriteFails(t) PROVE Held'
    BY <2>2 DEF Step, WriteFails, Call, Overrun, Clear, Write, Sent, QueueRest,
       Flushed, End, senderVars, historyVars
  <2> QED
    BY <2>1, <2>2 DEF Next, vars
<1>3. /\ Held /\ WholeMessages => NeverInTheMiddle
      /\ Held /\ StreamIntact => broken \/ IsPrefix(wire, accepted)
  BY DEF WholeMessages, NeverInTheMiddle, StreamIntact
<1> QED
  BY <1>1, <1>2, <1>3, StreamKept, MessagesWhole, PTL DEF Spec

\* BytePipe takes the prefixes of sequences from the same module.
LEMMA SamePrefix ==
    \A s, t : /\ PipeSpec!IsPrefix(s, t) = IsPrefix(s, t)
              /\ PipeSpec!IsStrictPrefix(s, t) = IsStrictPrefix(s, t)
BY DEF IsPrefix, IsStrictPrefix, PipeSpec!IsPrefix, PipeSpec!IsStrictPrefix

\* Every step of the queue and its senders is a step of a pipe of bytes, or
\* none that it shows; the pipe breaks when a write fails or messages mix (the
\* safety half of PipeImplemented).
THEOREM ImplementsBytePipe == Spec => PipeSpec!Init /\ [][PipeSpec!Next]_(PipeSpec!vars)
<1>1. Init => PipeSpec!Init
  BY DEF Init, PipeSpec!Init
<1>2. ASSUME SInv, StreamIntact', [Next]_vars PROVE [PipeSpec!Next]_(PipeSpec!vars)
  <2>0. SUFFICES ASSUME ~ broken, ~ mixed PROVE [PipeSpec!Next]_(PipeSpec!vars)
    BY DEF PipeSpec!Next
  <2>1. ASSUME NEW t \in Sender, Call(t) PROVE PipeSpec!Accept \/ UNCHANGED PipeSpec!vars
    <3> DEFINE data == Bytes(t, Length(t))
    <3>1. /\ accepted' = accepted \o data /\ wire' = wire
          /\ broken' = broken /\ mixed' = mixed
      BY <2>1 DEF Call, historyVars
    <3>2. data \in Seq(Byte) /\ accepted \in Seq(Byte)
      BY <2>1, <1>2, CallTypes, BytesFacts DEF Call, SInv, TInv, SocketTypeOK
    <3> HIDE DEF data
    <3>3. CASE data = <<>>
      BY <3>1, <3>2, <3>3, ConcatEmptySeq DEF PipeSpec!vars
    <3>4. CASE data # <<>>
      BY <3>1, <3>2, <3>4, PrefixOfConcat, SamePrefix DEF PipeSpec!Accept
    <3> QED
      BY <3>3, <3>4
  <2>2. ASSUME NEW t \in Sender, Write(t) PROVE PipeSpec!Deliver
    <3>1. PICK n \in 1 .. Len(out[t]) : wire' = wire \o Take(out[t], n)
      BY <2>2 DEF Write
    <3>2. out[t] \in Seq(Byte) /\ n \in 0 .. Len(out[t]) /\ wire \in Seq(Byte)
      BY <1>2, LenProperties DEF SInv, TInv, SocketTypeOK
    <3>3. Take(out[t], n) \in Seq(Byte) /\ Len(Take(out[t], n)) = n
      BY <3>2, TakeDrop
    <3>4. Take(out[t], n) # <<>>
      BY <3>3, EmptySeq
    <3>5. IsStrictPrefix(wire, wire')
      BY <3>1, <3>2, <3>3, <3>4, PrefixOfConcat
    <3>6. accepted' = accepted /\ broken' = broken /\ mixed' = mixed
      BY <2>2 DEF Write, senderVars, historyVars
    <3>7. IsPrefix(wire', accepted')
      BY <1>2, <2>0, <3>6 DEF StreamIntact
    <3> QED
      BY <3>5, <3>6, <3>7, SamePrefix DEF PipeSpec!Deliver
  <2>3. ASSUME NEW t \in Sender, WriteFails(t) \/ Overrun(t) PROVE PipeSpec!Break
    BY <2>3 DEF WriteFails, Overrun, senderVars, PipeSpec!Break
  <2>4. ASSUME NEW t \in Sender,
               \/ Clear(t) \/ Sent(t) \/ QueueRest(t) \/ Flushed(t) \/ End(t)
        PROVE  UNCHANGED PipeSpec!vars
    BY <2>4 DEF Clear, Sent, QueueRest, Flushed, End, senderVars, historyVars,
       socketVars, PipeSpec!vars
  <2>6. ASSUME NEW t \in Sender, Begin(t)
        PROVE  PipeSpec!Break \/ UNCHANGED PipeSpec!vars
    <3>1. UNCHANGED <<accepted, wire, broken>> /\ mixed' \in BOOLEAN
      BY <2>6 DEF Begin, socketVars
    <3> QED
      BY <2>0, <3>1 DEF PipeSpec!Break, PipeSpec!vars
  <2>5. CASE UNCHANGED vars
    BY <2>5 DEF vars, PipeSpec!vars
  <2> QED
    BY <1>2, <2>1, <2>2, <2>3, <2>4, <2>5, <2>6 DEF Next, Step, PipeSpec!Next
<1> QED
  BY <1>1, <1>2, Invariance, StreamKept, PTL DEF Spec

=============================================================================
