--------------------------- MODULE MCClientSocket ---------------------------
(* Messages for ClientSocket and who sends them: an update (header and      *)
(* rectangle queued, then ClearQueue), a new size of the screen, a file     *)
(* chunk (header queued, data sent), a keepalive and a line of text chat.   *)
EXTENDS ClientSocket

Q(n) == [op |-> "queue", len |-> n]
E(n) == [op |-> "exact", len |-> n]
C == [op |-> "clear", len |-> 0]

Update == <<Q(1), Q(6), C>>
NewSize == <<C, Q(1), E(2)>>
Chunk == <<Q(2), E(3)>>
KeepAlive == <<E(1)>>
Chat == <<Q(1), E(2)>>

MCSender == {"update", "transfer", "client"}
MCMessages == {Update, NewSize, Chunk, KeepAlive, Chat}
MCLocked == {Update, Chunk}
MCSends == [update |-> {Update, NewSize}, transfer |-> {Chunk},
            client |-> {KeepAlive, Chat, Chunk}]

\* The least that mixes: an update and a keepalive.
MCUnlocked == [update |-> {Update}, transfer |-> {}, client |-> {KeepAlive}]

\* Bound: of messages that have mixed only the first bytes are followed.
MixedBytes == 1
Followed == mixed => Len(wire) <= MixedBytes
=============================================================================
