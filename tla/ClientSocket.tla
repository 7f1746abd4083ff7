---------------------------- MODULE ClientSocket ----------------------------
(***************************************************************************)
(* The outgoing side of a client's connection: VSocket's queue of bytes    *)
(* (vsocket.cpp: Send, SendQueued, SendExact, SendExactQueue, ClearQueue,  *)
(* sendall) and the threads that send through it (vncclient.cpp,           *)
(* TextChat.cpp).  VSocket has no mutex of its own.  Updates and file      *)
(* chunks are sent under the client's update lock; keepalives, the state of*)
(* the server, a new size and text chat are not.  A message is a sequence  *)
(* of calls; a byte is known by its sender, the number of its message and  *)
(* its place in it.                                                        *)
(*                                                                         *)
(* A call is a few steps: what it reads and computes, each write, what it  *)
(* leaves in the queue.  Calls of two senders at once race in finer grain  *)
(* in the code; nothing is stated of what follows (mixed).                 *)
(***************************************************************************)
EXTENDS Naturals, Sequences, SequencesExt

CONSTANTS
    Sender,      \* threads that send to this client
    Free,        \* nobody holds the update lock
    Message,     \* the messages, as sequences of calls [op, len]
    Locked,      \* those that are sent under the update lock
    Sends,       \* the messages that each thread sends
    SendBuffer,  \* G_SENDBUFFER_EX, the setting "sendbuffer"
    Windows,     \* congestion windows GetOptimalSndBuf may read
    MaxMessages  \* messages per sender

\* A call of VSocket: bytes to be sent or queued, or ClearQueue.
Calls == [op : {"exact", "queue"}, len : Nat \ {0}] \cup [op : {"clear"}, len : {0}]

ASSUME SocketAssumption ==
    /\ Free \notin Sender
    /\ Message \subseteq Seq(Calls)
    /\ Locked \subseteq Message
    /\ Sends \in [Sender -> SUBSET Message]
    /\ SendBuffer \in Nat \ {0}
    /\ Windows \subseteq Nat \ {0}
    /\ MaxMessages \in Nat

VARIABLES
    queue,     \* queuebuffer[0 .. queuebuffersize)
    limit,     \* G_SENDBUFFER
    wire,      \* the bytes that the system has taken
    broken,    \* a call of sendall has failed
    owner,     \* the owner of the update lock
    pc,        \* what each sender is doing
    todo,      \* the calls its message still needs
    rest,      \* bytes of the call that are not queued yet
    out,       \* bytes sendall has not written yet
    sent,      \* messages each sender has begun
    place,     \* bytes of the message handed over so far
    accepted,  \* all bytes handed over, in the order of the calls
    loose,     \* who is sending a message without the lock
    mixed      \* history: of two messages sent at once one was without it

socketVars == <<queue, limit, wire, broken, rest, out>>
historyVars == <<loose, mixed>>
senderVars == <<owner, todo, sent, place, accepted, historyVars>>
vars == <<queue, limit, wire, broken, owner, pc, todo, rest, out, sent,
          place, accepted, loose, mixed>>

Byte == [by : Sender, msg : Nat, at : Nat]

SocketTypeOK ==
    /\ queue \in Seq(Byte) /\ wire \in Seq(Byte) /\ accepted \in Seq(Byte)
    /\ limit \in Windows \cup {SendBuffer}
    /\ broken \in BOOLEAN
    /\ owner \in Sender \cup {Free}
    /\ pc \in [Sender ->
               {"idle", "next", "tail", "fill", "chunk", "flush", "crashed"}]
    /\ todo \in [Sender -> Seq(Calls)]
    /\ rest \in [Sender -> Seq(Byte)]
    /\ out \in [Sender -> Seq(Byte)]
    /\ sent \in [Sender -> Nat]
    /\ place \in [Sender -> Nat]
    /\ loose \subseteq Sender
    /\ mixed \in BOOLEAN

Init ==
    /\ queue = <<>> /\ wire = <<>> /\ accepted = <<>>
    /\ limit = SendBuffer
    /\ broken = FALSE
    /\ owner = Free
    /\ pc = [t \in Sender |-> "idle"]
    /\ todo = [t \in Sender |-> <<>>]
    /\ rest = [t \in Sender |-> <<>>]
    /\ out = [t \in Sender |-> <<>>]
    /\ sent = [t \in Sender |-> 0]
    /\ place = [t \in Sender |-> 0]
    /\ loose = {} /\ mixed = FALSE

-----------------------------------------------------------------------------
Goto(t, where) == pc' = [pc EXCEPT ![t] = where]

Take(s, n) == SubSeq(s, 1, n)
Drop(s, n) == SubSeq(s, n + 1, Len(s))

\* The bytes of the next call of t.
Bytes(t, n) ==
    [i \in 1 .. n |-> [by |-> t, msg |-> sent[t], at |-> place[t] + i]]

\* t begins a message: SendUpdate, SendFileChunk, SendServerStateUpdate, ...
Begin(t) ==
    /\ pc[t] = "idle"
    /\ sent[t] < MaxMessages
    /\ \E m \in Sends[t] :
        /\ m \in Locked => owner = Free
        /\ owner' = IF m \in Locked THEN t ELSE owner
        /\ loose' = IF m \in Locked THEN loose ELSE loose \cup {t}
        /\ mixed' = (mixed \/ \E u \in Sender \ {t} :
                        pc[u] # "idle" /\ (m \notin Locked \/ u \in loose))
        /\ todo' = [todo EXCEPT ![t] = m]
    /\ sent' = [sent EXCEPT ![t] = @ + 1]
    /\ place' = [place EXCEPT ![t] = 0]
    /\ Goto(t, "next")
    /\ UNCHANGED <<socketVars, accepted>>

\* The message is complete, or was given up; the lock's scope ends.
End(t) ==
    /\ pc[t] = "next" /\ todo[t] = <<>>
    /\ owner' = IF owner = t THEN Free ELSE owner
    /\ loose' = loose \ {t}
    /\ Goto(t, "idle")
    /\ UNCHANGED <<socketVars, todo, sent, place, accepted, mixed>>

Op(t) == Head(todo[t]).op
Length(t) == Head(todo[t]).len

\* Does the call of t fill the buffer?  (Mutant: only if it overfills it, as
\* it was before "flush as soon as we have a full buffer".)
MutantFills(t) == Len(queue) + Length(t) > limit
Fills(t) == Len(queue) + Length(t) >= limit

\* Mutant: the lock is held for a call instead of a message.
MutantCall(t) ==
    /\ pc[t] = "next" /\ todo[t] # <<>>
    /\ Op(t) \in {"exact", "queue"} /\ Len(queue) <= limit
    /\ \A u \in Sender : pc[u] \in {"idle", "next"}
    /\ LET data == Bytes(t, Length(t))
           room == limit - Len(queue)
       IN  /\ accepted' = accepted \o data
           /\ IF Fills(t)
              THEN /\ out' = [out EXCEPT ![t] = queue \o Take(data, room)]
                   /\ rest' = [rest EXCEPT ![t] = Drop(data, room)]
                   /\ Goto(t, "fill")
              ELSE /\ rest' = [rest EXCEPT ![t] = data]
                   /\ Goto(t, "tail")
                   /\ UNCHANGED out
    /\ owner' = Free
    /\ place' = [place EXCEPT ![t] = @ + Length(t)]
    /\ UNCHANGED <<queue, limit, wire, broken, todo, sent, historyVars>>

\* SendExact, SendExactQueue and what Send and SendQueued begin with: if the
\* buffer gets full it is filled up and sent.  queuebuffersize stays as it is
\* until sendall has returned.
Call(t) ==
    /\ pc[t] = "next" /\ todo[t] # <<>>
    /\ Op(t) \in {"exact", "queue"} /\ Len(queue) <= limit
    /\ LET data == Bytes(t, Length(t))
           room == limit - Len(queue)
       IN  /\ accepted' = accepted \o data
           /\ IF Fills(t)
              THEN /\ out' = [out EXCEPT ![t] = queue \o Take(data, room)]
                   /\ rest' = [rest EXCEPT ![t] = Drop(data, room)]
                   /\ Goto(t, "fill")
              ELSE /\ rest' = [rest EXCEPT ![t] = data]
                   /\ Goto(t, "tail")
                   /\ UNCHANGED out
    /\ place' = [place EXCEPT ![t] = @ + Length(t)]
    /\ UNCHANGED <<queue, limit, wire, broken, owner, todo, sent, historyVars>>

\* With more than the buffer takes in the queue, the length that is copied
\* wraps around: the server ends.
Overrun(t) ==
    /\ pc[t] = "next" /\ todo[t] # <<>>
    /\ Op(t) \in {"exact", "queue"} /\ Len(queue) > limit
    /\ pc' = [u \in Sender |-> "crashed"]
    /\ broken' = TRUE
    /\ UNCHANGED <<queue, limit, wire, rest, out, senderVars>>

\* GetOptimalSndBuf: the congestion window if it is known, greater than 0
\* and below 9000, else the setting.  (Mutant: a window of 0 is taken.)
MutantOptimalSndBuf == limit' \in Windows \cup {0, limit, SendBuffer}
GetOptimalSndBuf == limit' \in Windows \cup {limit, SendBuffer}

\* ClearQueue.  With an empty queue only the buffer size is set anew.
Clear(t) ==
    /\ pc[t] = "next" /\ todo[t] # <<>>
    /\ Op(t) = "clear"
    /\ IF queue # <<>>
       THEN /\ out' = [out EXCEPT ![t] = queue]
            /\ Goto(t, "flush")
            /\ UNCHANGED <<limit, todo>>
       ELSE /\ GetOptimalSndBuf
            /\ todo' = [todo EXCEPT ![t] = Tail(@)]
            /\ UNCHANGED <<out, pc>>
    /\ UNCHANGED <<queue, wire, broken, owner, rest, sent, place, accepted,
                  historyVars>>

\* One call of send in sendall: the system takes some of the bytes.
Write(t) ==
    /\ pc[t] \in {"fill", "chunk", "flush"}
    /\ \E n \in 1 .. Len(out[t]) :
        /\ wire' = wire \o Take(out[t], n)
        /\ out' = [out EXCEPT ![t] = Drop(@, n)]
    /\ UNCHANGED <<queue, limit, broken, rest, pc, senderVars>>

\* sendall has written a full buffer, or a full piece of the caller's data:
\* the next piece follows, or what is left.
Sent(t) ==
    /\ pc[t] \in {"fill", "chunk"} /\ out[t] = <<>>
    /\ queue' = <<>>
    /\ IF Len(rest[t]) >= limit
       THEN /\ out' = [out EXCEPT ![t] = Take(rest[t], limit)]
            /\ rest' = [rest EXCEPT ![t] = Drop(@, limit)]
            /\ Goto(t, "chunk")
       ELSE /\ Goto(t, "tail")
            /\ UNCHANGED <<out, rest>>
    /\ UNCHANGED <<limit, wire, broken, senderVars>>

\* Mutant: Send leaves the rest in the queue, as SendQueued does.
MutantQueueRest(t) ==
    /\ pc[t] = "tail"
    /\ queue' = queue \o rest[t]
    /\ rest' = [rest EXCEPT ![t] = <<>>]
    /\ todo' = [todo EXCEPT ![t] = Tail(@)]
    /\ Goto(t, "next")
    /\ UNCHANGED <<limit, wire, broken, owner, out, sent, place, accepted,
                  historyVars>>

\* The end of Send and SendQueued: the rest is queued; Send sends the queue.
QueueRest(t) ==
    /\ pc[t] = "tail"
    /\ queue' = queue \o rest[t]
    /\ rest' = [rest EXCEPT ![t] = <<>>]
    /\ IF Op(t) = "exact" /\ queue' # <<>>
       THEN /\ out' = [out EXCEPT ![t] = queue']
            /\ Goto(t, "flush")
            /\ UNCHANGED todo
       ELSE /\ todo' = [todo EXCEPT ![t] = Tail(@)]
            /\ Goto(t, "next")
            /\ UNCHANGED out
    /\ UNCHANGED <<limit, wire, broken, owner, sent, place, accepted,
                  historyVars>>

\* sendall has written the queue, for Send or for ClearQueue, which then reads
\* the congestion window (GetOptimalSndBuf).
Flushed(t) ==
    /\ pc[t] = "flush" /\ out[t] = <<>>
    /\ queue' = <<>>
    /\ IF Op(t) = "clear"
       THEN GetOptimalSndBuf
       ELSE limit' = limit
    /\ todo' = [todo EXCEPT ![t] = Tail(@)]
    /\ Goto(t, "next")
    /\ UNCHANGED <<wire, broken, owner, rest, out, sent, place, accepted,
                  historyVars>>

\* sendall fails: an error, a shutdown, or 20 s without room for more.  The
\* queue is not reset.  Some callers ignore the result (the calls that take a
\* message type always return true), others give the message up.
WriteFails(t) ==
    /\ pc[t] \in {"fill", "chunk", "flush"} /\ out[t] # <<>>
    /\ broken' = TRUE
    /\ out' = [out EXCEPT ![t] = <<>>]
    /\ rest' = [rest EXCEPT ![t] = <<>>]
    /\ \/ todo' = [todo EXCEPT ![t] = Tail(@)]
       \/ todo' = [todo EXCEPT ![t] = <<>>]
    /\ Goto(t, "next")
    /\ UNCHANGED <<queue, limit, wire, owner, sent, place, accepted,
                  historyVars>>

-----------------------------------------------------------------------------
Step(t) ==
    \/ Call(t) \/ Overrun(t) \/ Clear(t) \/ Write(t) \/ Sent(t)
    \/ QueueRest(t) \/ Flushed(t) \/ End(t)

Next == \E t \in Sender : Begin(t) \/ Step(t) \/ WriteFails(t)

\* Threads run on, and the viewer reads or the write fails in the end.
Spec == Init /\ [][Next]_vars /\ \A t \in Sender : WF_vars(Step(t))

-----------------------------------------------------------------------------
\* Properties.  Each is stated until a write fails or a message sent without
\* the lock meets another one (RoomInBuffer also after failed writes).

\* The viewer has got a prefix of what the senders handed over, in the order
\* of their calls, and when nobody is sending the only bytes it has not got
\* are those in the queue: nothing is lost, repeated or reordered by filling,
\* splitting and flushing the buffer.
StreamIntact ==
    ~ broken /\ ~ mixed =>
        /\ IsPrefix(wire, accepted)
        /\ (\A t \in Sender : pc[t] = "idle") => wire \o queue = accepted

\* The bytes of a message are not interleaved with those of another one.
SameMessage(a, b) == a.by = b.by /\ a.msg = b.msg
Whole ==
    \A i, j \in 1 .. Len(wire) :
        i < j /\ SameMessage(wire[i], wire[j]) =>
            \A k \in i .. j : SameMessage(wire[i], wire[k])

\* The update lock keeps the messages sent under it whole, and those sent
\* without it as long as they meet no other (SendUpdate, SendFileChunk).
WholeMessages == ~ broken /\ ~ mixed => Whole

\* No message is sent in the middle of an update, "as we can not send middle
\* in an update" (vncclient.cpp:6163): what the senders without the lock break.
NeverInTheMiddle == ~ broken => Whole

\* The queue never fills the buffer, so that the room left in it, which Send
\* computes as an unsigned difference, is positive, also when the window that
\* GetOptimalSndBuf reads is smaller than the one before, and also after
\* writes that failed.
RoomInBuffer ==
    ~ mixed /\ (\A t \in Sender : pc[t] \in {"idle", "next"}) =>
        Len(queue) < limit

\* The queue, the buffer and the threads together are a pipe of bytes, which
\* breaks by a failed write or by messages that mix.
PipeSpec ==
    INSTANCE BytePipe WITH sent <- accepted, got <- wire,
                           failed <- broken \/ mixed
PipeImplemented == PipeSpec!Spec

=============================================================================
