------------------------ MODULE FileTransfer_proofs ------------------------
(***************************************************************************)
(* Proofs about FileTransfer: for all files, lists of files, transfers and *)
(* broken connections, file transfer stays in step, and only whole files   *)
(* get their real names.                                                   *)
(*                                                                         *)
(* The hypothesis is that no write fails: a failed write refutes InSync and*)
(* WholeFile.  What is proved holds until the user starts a transfer over  *)
(* one that is under way, or a file cannot be reopened (strayed); from then*)
(* on it is model-checked only.                                            *)
(*                                                                         *)
(* The inductive invariant IInv says in which phase a transfer is, and in  *)
(* each phase what is under way in either direction, who believes to send  *)
(* or to receive, and what the two sides' states have to do with each      *)
(* other.  A download is Requested, Answered, Accepted, Downloading and    *)
(* DownloadEnds; an upload is Offered, Allowed, Uploading and UploadEnds;  *)
(* between transfers all is Idle; the server is Stuck on a payload when    *)
(* file transfer was forbidden in the middle of an upload.  While packets  *)
(* flow, Arriving relates them to both ends: what the receiver has written *)
(* is a beginning of the file sent, and every packet on the way either     *)
(* carries the block at its place or stands for one that the temporary     *)
(* file has there, by the checksums that were exchanged.  There is one     *)
(* lemma per action, ...Step.                                              *)
(***************************************************************************)
EXTENDS FileTransfer, SequenceTheorems, TLAPS

(* Contents of files there are, and versions of a file.                    *)
Data == Seq(Block \cup {None})
Versions(f) == {Real0[t][f] : t \in Side}

(* Packets of a file.                                                     *)
Chunks ==
    [type : {"packet"}, size : {"data"}, body : Block \cup {None}]
        \cup [type : {"packet"}, size : {"same"}, body : {None}]
Chunked == Seq(Chunks)

(* What the packet for place n may be.                                     *)
Stands(c, data, sums, n) ==
    IF c.size = "same" THEN sums # None /\ n <= Len(sums) /\ sums[n] = data[n]
                       ELSE c.body = data[n]

(* Receiver r, its temporary file tmp, the file sent, the checksums in use *)
(* and the packets p under way fit: the file will be complete when all of  *)
(* it has arrived.                                                         *)
Arriving(r, tmp, data, sums, p) ==
    /\ tmp \in Data /\ data \in Data /\ data \in Versions(r.file)
    /\ r.pos <= Len(tmp)
    /\ r.pos + Len(p) <= Len(data)
    /\ \A i \in 1 .. r.pos : tmp[i] = data[i]
    /\ sums # None => /\ sums \in Data /\ Len(sums) <= Len(tmp)
                      /\ \A i \in r.pos + 1 .. Len(sums) : tmp[i] = sums[i]
    /\ \A k \in 1 .. Len(p) : Stands(p[k], data, sums, r.pos + k)

(* The sender state d is at its place, in the checksums too.               *)
Reading(d) ==
    /\ d.data \in Data /\ d.pos <= Len(d.data)
    /\ d.sums # None => \/ d.offset = d.pos /\ d.pos <= Len(d.sums)
                        \/ d.offset = Len(d.sums) /\ d.pos >= Len(d.sums)
    /\ d.eof => d.pos = Len(d.data)

(* It waits for packets.                                                   *)
ReceiverOn(r) == r.on /\ ~ r.error /\ r.file \in File

-----------------------------------------------------------------------------
(* The phases of a transfer.                                               *)

HeaderFailed == Packet("header", "fail", None)
Request(f) == Packet("request", "ok", f)
Offer(f) == Packet("offer", "ok", f)

ServerSilent == ~ snd["server"].on /\ posted = 0
ServerFree == rcv["server"].on => ~ enabled
ViewerFree == ~ snd["viewer"].on /\ ~ rcv["viewer"].on
Uploads == ServerSilent /\ ~ rcv["viewer"].on /\ chan["viewer"] = <<>>
Downloads == pending /\ ~ rcv["server"].on /\ ~ snd["viewer"].on

(* No transfer.  The viewer may still tell that it gave up the last one,   *)
(* ask for the server's listing, or get it or an answer to an abort that   *)
(* came late.                                                              *)
Idle ==
    /\ ServerSilent /\ ServerFree /\ ViewerFree
    /\ pending => ~ enabled
    /\ \/ /\ chan["viewer"] = <<>>
          /\ chan["server"] \in {<<>>, Bare("abort"), Bare("listRequest"),
                                 HeaderFailed}
       \/ /\ chan["server"] = <<>>
          /\ chan["viewer"] \in {Bare("listing"), Packet("access", "ok", None),
                                 Packet("access", "fail", None)}

(* The viewer has requested f.                                             *)
Requested(f) ==
    /\ ServerSilent /\ ServerFree /\ ViewerFree /\ pending
    /\ chan["viewer"] = <<>>
    /\ chan["server"] \in {Request(f), HeaderFailed \o Request(f)}

(* Sender d is at the beginning of f.                                      *)
Fresh(d, f) ==
    /\ d.data \in Data /\ d.data \in Versions(f)
    /\ d.pos = 0 /\ d.offset = 0

(* The server has answered, and has opened f if it can send it.            *)
Answered(f) ==
    /\ Downloads /\ ServerSilent /\ ViewerFree
    /\ chan["server"] = <<>>
    /\ \/ chan["viewer"] = Packet("header", "fail", f)
       \/ /\ chan["viewer"] = Packet("header", "ok", f)
          /\ Fresh(snd["server"], f) /\ snd["server"].sums = None

(* The viewer has made its temporary file and sent the checksums of what   *)
(* was there.                                                              *)
Accepted(f) ==
    /\ Downloads /\ ServerSilent
    /\ rcv["viewer"] = Receiving(f) /\ temp["viewer"][f] \in Data
    /\ Fresh(snd["server"], f)
    /\ chan["viewer"] = <<>>
    /\ \/ /\ chan["server"] = Bare("header")
          /\ snd["server"].sums \in {None, temp["viewer"][f]}
       \/ /\ chan["server"] = Packet("checksums", "ok", temp["viewer"][f])
                                \o Bare("header")
          /\ snd["server"].sums = None

(* The server sends a packet for every message it posts.                   *)
Downloading ==
    /\ Downloads /\ snd["server"].on /\ posted = 1
    /\ ReceiverOn(rcv["viewer"])
    /\ chan["viewer"] \in Chunked
    /\ Reading(snd["server"])
    /\ Arriving(rcv["viewer"], temp["viewer"][rcv["viewer"].file],
                snd["server"].data, snd["server"].sums, chan["viewer"])
    /\ snd["server"].pos = rcv["viewer"].pos + Len(chan["viewer"])
    /\ \/ chan["server"] = <<>> /\ (snd["server"].error => aborted)
       \/ chan["server"] = Bare("abort") /\ aborted /\ ~ snd["server"].error

(* The server has sent all, or has stopped; packets p are still under way. *)
DownloadEnds(p) ==
    /\ Downloads /\ ServerSilent
    /\ ReceiverOn(rcv["viewer"])
    /\ Arriving(rcv["viewer"], temp["viewer"][rcv["viewer"].file],
                snd["server"].data, snd["server"].sums, p)
    /\ \/ /\ chan["server"] = <<>> /\ aborted
          /\ chan["viewer"] = p \o Bare("abort")
       \/ /\ rcv["viewer"].pos + Len(p) = Len(snd["server"].data)
          /\ \/ chan["server"] = <<>> /\ chan["viewer"] = p \o Bare("endOfFile")
             \/ /\ chan["server"] = Bare("abort") /\ aborted
                /\ chan["viewer"] = p \o Bare("endOfFile")
             \/ /\ chan["server"] = <<>> /\ aborted
                /\ \E size \in {"ok", "fail"} :
                     chan["viewer"] = p \o (Bare("endOfFile")
                                              \o Packet("access", size, None))

(* The viewer has the next file to send open.                              *)
Offers(f) ==
    /\ real["viewer"][f] \in Data
    /\ snd["viewer"].sums = None /\ snd["viewer"].offset = 0

(* It has offered f.                                                       *)
Offered(f) ==
    /\ Uploads /\ ServerFree /\ ~ snd["viewer"].on /\ pending
    /\ Offers(f) /\ chan["server"] = Offer(f)

(* The server has accepted f and sent the checksums of what it had.        *)
Allowed(f) ==
    /\ ServerSilent /\ ViewerFree /\ pending /\ chan["server"] = <<>>
    /\ \/ chan["viewer"] = Packet("accept", "fail", f) /\ ServerFree
       \/ /\ rcv["server"] = Receiving(f) /\ temp["server"][f] \in Data
          /\ real["viewer"][f] \in Data /\ snd["viewer"].offset = 0
          /\ \/ /\ chan["viewer"] = Packet("accept", "ok", f)
                /\ snd["viewer"].sums \in {None, temp["server"][f]}
             \/ /\ chan["viewer"] = Packet("checksums", "ok", temp["server"][f])
                                      \o Packet("accept", "ok", f)
                /\ snd["viewer"].sums = None

(* The viewer sends a packet whenever its timer fires.                     *)
Uploading ==
    /\ Uploads /\ snd["viewer"].on /\ pending
    /\ ReceiverOn(rcv["server"])
    /\ chan["server"] \in Chunked
    /\ Reading(snd["viewer"])
    /\ enabled =>
         /\ Arriving(rcv["server"], temp["server"][rcv["server"].file],
                     snd["viewer"].data, snd["viewer"].sums, chan["server"])
         /\ snd["viewer"].pos = rcv["server"].pos + Len(chan["server"])

(* It has sent all and goes on with what is next: packets p and the end e  *)
(* are still under way.                                                    *)
UploadEnds(p, e) ==
    /\ Uploads /\ ~ snd["viewer"].on
    /\ ReceiverOn(rcv["server"])
    /\ enabled =>
         \E data, sums \in Data \cup {None} :
            /\ Arriving(rcv["server"], temp["server"][rcv["server"].file],
                        data, sums, p)
            /\ e = "endOfFile" => rcv["server"].pos + Len(p) = Len(data)
    /\ \/ /\ ~ pending
          /\ chan["server"] = p \o (Bare(e) \o Bare("listRequest"))
       \/ /\ pending
          /\ \E f \in File :
                Offers(f) /\ chan["server"] = p \o (Bare(e) \o Offer(f))

(* The server forbids file transfer and takes payloads for messages.       *)
Stuck ==
    /\ Uploads /\ ~ enabled /\ Gets("server", "payload")
    /\ snd["viewer"].on => Reading(snd["viewer"])

Phase ==
    \/ Idle \/ Downloading \/ Uploading \/ Stuck
    \/ \E f \in File : Requested(f) \/ Answered(f) \/ Accepted(f)
                         \/ Offered(f) \/ Allowed(f)
    \/ \E p \in Chunked : DownloadEnds(p)
    \/ \E p \in Chunked : \E e \in {"endOfFile", "abort"} : UploadEnds(p, e)

(* What holds in every phase.                                              *)
Kept == TransferTypeOK /\ WholeFile /\ ~ old /\ (aborted => abort)
IInv == Kept /\ Phase

-----------------------------------------------------------------------------
(* Messages.                                                               *)

LEMMA Fields ==
    ASSUME NEW t, NEW n, NEW x
    PROVE  Msg(t, n, x).type = t /\ Msg(t, n, x).size = n /\ Msg(t, n, x).body = x
  BY DEF Msg

LEMMA Messages ==
    /\ \A f \in File : /\ Msg("request", "ok", f) \in Item
                       /\ Msg("offer", "ok", f) \in Item
                       /\ Msg("header", "ok", f) \in Item
                       /\ Msg("header", "fail", f) \in Item
                       /\ Msg("accept", "ok", f) \in Item
                       /\ Msg("accept", "fail", f) \in Item
                       /\ Msg("payload", "ok", f) \in Item
    /\ \A c \in Data : Msg("checksums", "ok", c) \in Item
    /\ Msg("header", "fail", None) \in Item /\ Msg("header", "ok", None) \in Item
    /\ Msg("endOfFile", "ok", None) \in Item /\ Msg("abort", "ok", None) \in Item
    /\ Msg("listRequest", "ok", None) \in Item /\ Msg("listing", "ok", None) \in Item
    /\ Msg("access", "ok", None) \in Item /\ Msg("access", "fail", None) \in Item
    /\ \A b \in Block \cup {None} : Msg("payload", "ok", b) \in Item
    /\ Chunks \subseteq Item
  BY DEF Msg, Item, Data, Content, Chunks

(* A message and what follows it.                                          *)
LEMMA FirstMessage ==
    ASSUME NEW m \in Item, NEW q \in Seq(Item)
    PROVE  /\ <<m>> \in Seq(Item) /\ <<m>> # <<>>
           /\ Head(<<m>>) = m /\ Tail(<<m>>) = <<>>
           /\ <<m>> \o q \in Seq(Item) /\ <<m>> \o q # <<>>
           /\ Head(<<m>> \o q) = m /\ Tail(<<m>> \o q) = q
           /\ <<>> \o q = q /\ q \o <<>> = q
<1>1. <<m>> \in Seq(Item) /\ <<m>> # <<>> /\ Head(<<m>>) = m /\ Tail(<<m>>) = <<>>
  OBVIOUS
<1>2. /\ <<m>> \o q \in Seq(Item) /\ Len(<<m>> \o q) = 1 + Len(q)
      /\ \A i \in 1 .. 1 + Len(q) :
           (<<m>> \o q)[i] = IF i <= 1 THEN m ELSE q[i - 1]
  BY <1>1, ConcatProperties
<1>3. PICK c : c = <<m>> \o q
  OBVIOUS
<1>4. c \in Seq(Item) /\ Len(c) = 1 + Len(q) /\ Len(q) \in Nat /\ c # <<>>
  BY <1>2, <1>3
<1>5. Head(c) = m
  <2>1. c[1] = m
    BY <1>2, <1>3, <1>4
  <2> QED
    BY <2>1, <1>4
<1>6. Tail(c) = q
  <2>1. /\ Tail(c) \in Seq(Item) /\ Len(Tail(c)) = Len(q)
        /\ \A i \in 1 .. Len(q) : Tail(c)[i] = c[i + 1]
    BY <1>4, HeadTailProperties
  <2>2. \A i \in 1 .. Len(q) : c[i + 1] = q[i]
    BY <1>2, <1>3, <1>4
  <2> QED
    BY <2>1, <2>2, SeqEqual
<1> QED
  BY <1>1, <1>3, <1>4, <1>5, <1>6, ConcatEmptySeq

(* A stream of packets and what follows it.                                *)
LEMMA NextPacket ==
    ASSUME NEW p \in Chunked, NEW t \in Seq(Item), p # <<>>
    PROVE  /\ p \o t # <<>> /\ Head(p \o t) = Head(p) /\ Tail(p \o t) = Tail(p) \o t
           /\ Head(p) \in Chunks /\ Tail(p) \in Chunked
<1>1. p \in Seq(Item) /\ Head(p) \in Chunks /\ Tail(p) \in Chunked
  BY SeqMonotonic, Messages, HeadTailProperties DEF Chunked
<1>2. PICK m, q : m = Head(p) /\ q = Tail(p)
  OBVIOUS
<1>3. m \in Item /\ q \in Seq(Item)
  BY <1>1, <1>2, SeqMonotonic, Messages DEF Chunked
<1>4. p = <<m>> \o q
  <2>1. /\ <<m>> \in Seq(Item) /\ <<m>> \o q \in Seq(Item)
        /\ Len(<<m>> \o q) = 1 + Len(q)
        /\ \A i \in 1 .. 1 + Len(q) :
             (<<m>> \o q)[i] = IF i <= 1 THEN m ELSE q[i - 1]
    <3>1. <<m>> \in Seq(Item) /\ Len(<<m>>) = 1 /\ <<m>>[1] = m
      BY <1>3
    <3> QED
      BY <3>1, <1>3, ConcatProperties
  <2>2. PICK c : c = <<m>> \o q
    OBVIOUS
  <2>3. /\ Len(p) = 1 + Len(q) /\ Len(q) \in Nat /\ p[1] = m
        /\ \A i \in 1 .. Len(q) : q[i] = p[i + 1]
    BY <1>1, <1>2, HeadTailProperties
  <2>4. ASSUME NEW i \in 1 .. Len(p) PROVE c[i] = p[i]
    <3>1. CASE i = 1
      BY <2>1, <2>2, <2>3, <3>1
    <3>2. CASE i # 1
      <4>1. i - 1 \in 1 .. Len(q) /\ i \in 1 .. 1 + Len(q) /\ ~ i <= 1
        BY <2>3, <3>2
      <4>2. q[i - 1] = p[i - 1 + 1] /\ i - 1 + 1 = i
        BY <2>3, <4>1
      <4> QED
        BY <2>1, <2>2, <4>1, <4>2
    <3> QED
      BY <3>1, <3>2
  <2> QED
    BY <1>1, <2>1, <2>2, <2>3, <2>4, SeqEqual
<1>5. p \o t = <<m>> \o (q \o t)
  <2>1. <<m>> \in Seq(Item)
    BY <1>3
  <2> QED
    BY <2>1, <1>3, <1>4, ConcatAssociative
<1>6. q \o t \in Seq(Item)
  BY <1>3, ConcatProperties
<1>7. p \o t # <<>> /\ Head(p \o t) = m /\ Tail(p \o t) = q \o t
  BY <1>3, <1>5, <1>6, FirstMessage
<1> QED
  BY <1>1, <1>2, <1>7

(* What is sent behind a stream.                                           *)
LEMMA Behind ==
    ASSUME NEW p \in Chunked, NEW t \in Seq(Item), NEW u \in Seq(Item)
    PROVE  /\ (p \o t) \o u = p \o (t \o u)
           /\ p \in Seq(Item) /\ p \o t \in Seq(Item) /\ t \o u \in Seq(Item)
           /\ p \o <<>> = p /\ <<>> \o t = t /\ t \o <<>> = t
<1>1. p \in Seq(Item)
  BY SeqMonotonic, Messages DEF Chunked
<1> QED
  BY <1>1, ConcatAssociative, ConcatProperties, ConcatEmptySeq

LEMMA MorePackets ==
    ASSUME NEW p \in Chunked, NEW c \in Chunks
    PROVE  /\ p \o <<c>> \in Chunked /\ Len(p \o <<c>>) = Len(p) + 1
           /\ \A k \in 1 .. Len(p) : (p \o <<c>>)[k] = p[k]
           /\ (p \o <<c>>)[Len(p) + 1] = c
<1>1. Append(p, c) = p \o <<c>>
  BY AppendIsConcat DEF Chunked
<1> QED
  BY <1>1, AppendProperties DEF Chunked

(* One side reads and writes.                                              *)
LEMMA ServerReplies ==
    ASSUME chan \in [Side -> Seq(Item)], NEW left \in Seq(Item),
           NEW out \in Seq(Item), Reply("server", left, out)
    PROVE  /\ chan' \in [Side -> Seq(Item)]
           /\ chan'["server"] = left /\ chan'["viewer"] = chan["viewer"] \o out
<1>1. chan["viewer"] \o out \in Seq(Item)
  BY ConcatProperties DEF Side
<1> QED
  BY <1>1 DEF Reply, Peer, Side

LEMMA ViewerReplies ==
    ASSUME chan \in [Side -> Seq(Item)], NEW left \in Seq(Item),
           NEW out \in Seq(Item), Reply("viewer", left, out)
    PROVE  /\ chan' \in [Side -> Seq(Item)]
           /\ chan'["viewer"] = left /\ chan'["server"] = chan["server"] \o out
<1>1. chan["server"] \o out \in Seq(Item)
  BY ConcatProperties DEF Side
<1> QED
  BY <1>1 DEF Reply, Peer, Side
-----------------------------------------------------------------------------
(* Contents.                                                               *)

(* What SetEndOfFile and WriteFile do.                                     *)
LEMMA UptoFact ==
    ASSUME NEW content \in Data, NEW n \in Nat
    PROVE  /\ Upto(content, n) \in Data /\ Len(Upto(content, n)) = n
           /\ \A i \in 1 .. n : Upto(content, n)[i] =
                 IF i <= Len(content) THEN content[i] ELSE None
<1>1. PICK c : c = Upto(content, n)
  OBVIOUS
<1>2. \A i \in 1 .. n : (IF i <= Len(content) THEN content[i] ELSE None)
                          \in Block \cup {None}
  BY DEF Data
<1>3. /\ c \in [1 .. n -> Block \cup {None}]
      /\ \A i \in 1 .. n : c[i] = IF i <= Len(content) THEN content[i] ELSE None
  BY <1>1, <1>2 DEF Upto
<1>4. c \in Seq(Block \cup {None}) /\ Len(c) = n
  BY <1>3
<1> QED
  BY <1>1, <1>3, <1>4 DEF Data

LEMMA WrittenFact ==
    ASSUME NEW content \in Data, NEW n \in Nat, NEW b \in Block \cup {None},
           n <= Len(content), NEW w, w = Written(content, n, b)
    PROVE  /\ w \in Data /\ Len(w) >= n + 1 /\ Len(w) >= Len(content)
           /\ \A i \in 1 .. Len(w) : w[i] = IF i = n + 1 THEN b ELSE content[i]
<1>2. Len(content) \in Nat
  BY DEF Data
<1>3. CASE n >= Len(content)
  <2>1. PICK c : c = Upto(content, n)
    OBVIOUS
  <2>2. /\ c \in Data /\ Len(c) = n
        /\ \A i \in 1 .. n : c[i] = IF i <= Len(content) THEN content[i] ELSE None
    BY <2>1, UptoFact
  <2>3. w = Append(c, b)
    BY <1>3, <2>1 DEF Written
  <2>4. /\ w \in Data /\ Len(w) = n + 1 /\ w[n + 1] = b
        /\ \A i \in 1 .. n : w[i] = c[i]
    BY <2>2, <2>3, AppendProperties DEF Data
  <2>5. ASSUME NEW i \in 1 .. n + 1
        PROVE  w[i] = IF i = n + 1 THEN b ELSE content[i]
    <3>1. CASE i = n + 1
      BY <2>4, <3>1
    <3>2. CASE i # n + 1
      <4>1. i \in 1 .. n /\ i <= Len(content)
        BY <1>2, <3>2
      <4> QED
        BY <2>2, <2>4, <3>2, <4>1
    <3> QED
      BY <3>1, <3>2
  <2> QED
    BY <1>2, <1>3, <2>4, <2>5
<1>4. CASE n < Len(content)
  <2>1. w = [content EXCEPT ![n + 1] = b]
    BY <1>2, <1>4 DEF Written
  <2>2. n + 1 \in 1 .. Len(content)
    BY <1>2, <1>4
  <2>3. /\ w \in Data /\ Len(w) = Len(content)
        /\ \A i \in 1 .. Len(content) : w[i] = IF i = n + 1 THEN b ELSE content[i]
    BY <2>1, <2>2, ExceptSeq DEF Data
  <2> QED
    BY <1>2, <1>4, <2>3
<1> QED
  BY <1>2, <1>3, <1>4

LEMMA ArrivingStarts ==
    ASSUME NEW r, NEW tmp \in Data, NEW data \in Data, NEW sums,
           r.pos = 0, data \in Versions(r.file), sums \in {None, tmp}
    PROVE  Arriving(r, tmp, data, sums, <<>>)
<1>1. /\ Len(tmp) \in Nat /\ Len(data) \in Nat /\ Len(<<>>) = 0
      /\ 1 .. 0 = {}
  BY DEF Data
<1> QED
  BY <1>1 DEF Arriving

(* The receiver's place moves with what it reads; what it has not reached  *)
(* is as the checksums say.                                                *)
LEMMA PacketSent ==
    ASSUME NEW r, r.pos \in Nat, NEW tmp, NEW data, NEW sums,
           NEW p \in Chunked, NEW c \in Chunks,
           Arriving(r, tmp, data, sums, p),
           r.pos + Len(p) < Len(data),
           Stands(c, data, sums, r.pos + Len(p) + 1)
    PROVE  Arriving(r, tmp, data, sums, p \o <<c>>)
<1>1. PICK q : q = p \o <<c>>
  OBVIOUS
<1>2. /\ Len(q) = Len(p) + 1 /\ Len(p) \in Nat /\ q[Len(p) + 1] = c
      /\ \A k \in 1 .. Len(p) : q[k] = p[k]
  BY <1>1, MorePackets DEF Chunked
<1>3. Len(data) \in Nat
  BY DEF Arriving, Data
<1>4. r.pos + Len(q) <= Len(data)
  BY <1>2, <1>3
<1>5. ASSUME NEW k \in 1 .. Len(q) PROVE Stands(q[k], data, sums, r.pos + k)
  <2>1. CASE k = Len(p) + 1
    <3>1. r.pos + Len(p) + 1 = r.pos + k
      BY <1>2, <2>1
    <3> QED
      BY <1>2, <2>1, <3>1
  <2>2. CASE k # Len(p) + 1
    <3>1. k \in 1 .. Len(p)
      BY <1>2, <2>2
    <3>2. Stands(p[k], data, sums, r.pos + k)
      BY <3>1 DEF Arriving
    <3> QED
      BY <1>2, <3>1, <3>2
  <2> QED
    BY <2>1, <2>2
<1> QED
  BY <1>1, <1>4, <1>5 DEF Arriving

LEMMA PacketTaken ==
    ASSUME NEW r \in Receiver, NEW tmp, NEW data, NEW sums,
           NEW p \in Chunked, p # <<>>,
           Arriving(r, tmp, data, sums, p),
           NEW r1 \in Receiver, r1.pos = r.pos + 1, r1.file = r.file,
           NEW tmp1, tmp1 = IF Head(p).size = "same" THEN tmp
                            ELSE Written(tmp, r.pos, Head(p).body)
    PROVE  /\ Arriving(r1, tmp1, data, sums, Tail(p))
           /\ r1.pos + Len(Tail(p)) = r.pos + Len(p)
<1>1. /\ r.pos \in Nat /\ r1.pos = r.pos + 1
      /\ tmp \in Data /\ data \in Data /\ data \in Versions(r.file)
      /\ Len(tmp) \in Nat /\ Len(data) \in Nat
      /\ r.pos <= Len(tmp) /\ r.pos + Len(p) <= Len(data)
      /\ \A i \in 1 .. r.pos : tmp[i] = data[i]
  BY DEF Arriving, Receiver, Data
<1>2. PICK q : q = Tail(p)
  OBVIOUS
<1>3. /\ Len(p) \in Nat \ {0} /\ Len(q) = Len(p) - 1 /\ q \in Chunked
      /\ \A k \in 1 .. Len(q) : q[k] = p[k + 1]
      /\ Head(p) = p[1] /\ p[1] \in Chunks
  BY <1>2, HeadTailProperties, EmptySeq DEF Chunked
<1>4. Stands(p[1], data, sums, r1.pos)
  <2>1. 1 \in 1 .. Len(p)
    BY <1>3
  <2> QED
    BY <1>1, <2>1 DEF Arriving
<1>5. r1.pos + Len(q) = r.pos + Len(p) /\ r1.pos + Len(q) <= Len(data)
  BY <1>1, <1>3
<1>6. ASSUME NEW k \in 1 .. Len(q) PROVE Stands(q[k], data, sums, r1.pos + k)
  <2>1. k + 1 \in 1 .. Len(p) /\ r.pos + (k + 1) = r1.pos + k
    <3>1. PICK n \in Nat : r.pos = n /\ r1.pos = n + 1
      BY <1>1
    <3>2. PICK l \in Nat : Len(p) = l + 1 /\ Len(q) = l
      <4>1. Len(q) \in Nat /\ Len(p) = Len(q) + 1
        BY <1>3
      <4> QED
        BY <4>1
    <3> QED
      BY <3>1, <3>2
  <2>2. Stands(p[k + 1], data, sums, r.pos + (k + 1))
    BY <2>1 DEF Arriving
  <2> QED
    BY <1>3, <2>1, <2>2
<1>7. sums # None => /\ sums \in Data /\ Len(sums) \in Nat /\ Len(sums) <= Len(tmp)
                     /\ \A i \in r.pos + 1 .. Len(sums) : tmp[i] = sums[i]
  BY DEF Arriving, Data
<1>8. CASE p[1].size = "same"
  <2>1. tmp1 = tmp
    BY <1>3, <1>8
  <2>2. /\ sums # None /\ r1.pos <= Len(sums) /\ sums[r1.pos] = data[r1.pos]
    BY <1>4, <1>8 DEF Stands
  <2>3. tmp[r1.pos] = data[r1.pos]
    <3>1. r1.pos \in r.pos + 1 .. Len(sums)
      BY <1>1, <1>7, <2>2
    <3> QED
      BY <1>7, <2>2, <3>1
  <2>4. r1.pos <= Len(tmp)
    BY <1>1, <1>7, <2>2
  <2>5. \A i \in 1 .. r1.pos : tmp[i] = data[i]
    <3>1. \A i \in 1 .. r1.pos : i \in 1 .. r.pos \/ i = r1.pos
      BY <1>1
    <3> QED
      BY <1>1, <2>3, <3>1
  <2>6. \A i \in r1.pos + 1 .. Len(sums) : tmp[i] = sums[i]
    <3>1. \A i \in r1.pos + 1 .. Len(sums) : i \in r.pos + 1 .. Len(sums)
      BY <1>1, <1>7, <2>2
    <3> QED
      BY <1>7, <2>2, <3>1
  <2> QED
    BY <1>1, <1>2, <1>5, <1>6, <1>7, <2>1, <2>4, <2>5, <2>6 DEF Arriving
<1>9. CASE p[1].size # "same"
  <2>1. PICK b : b = p[1].body
    OBVIOUS
  <2>2. b = data[r1.pos]
    BY <1>4, <1>9, <2>1 DEF Stands
  <2>3. b \in Block \cup {None}
    BY <1>3, <2>1 DEF Chunks
  <2>4. tmp1 = Written(tmp, r.pos, b)
    BY <1>3, <1>9, <2>1
  <2>5. /\ tmp1 \in Data /\ Len(tmp1) >= r1.pos /\ Len(tmp1) >= Len(tmp)
        /\ \A i \in 1 .. Len(tmp1) : tmp1[i] = IF i = r1.pos THEN b ELSE tmp[i]
    <3>1. /\ tmp1 \in Data /\ Len(tmp1) >= r.pos + 1 /\ Len(tmp1) >= Len(tmp)
          /\ \A i \in 1 .. Len(tmp1) :
               tmp1[i] = IF i = r.pos + 1 THEN b ELSE tmp[i]
      <4>1. PICK n \in Nat : n = r.pos
        BY <1>1
      <4>2. tmp1 = Written(tmp, n, b) /\ n <= Len(tmp) /\ tmp \in Data
        BY <1>1, <2>4, <4>1
      <4>3. /\ tmp1 \in Data /\ Len(tmp1) >= n + 1 /\ Len(tmp1) >= Len(tmp)
            /\ \A i \in 1 .. Len(tmp1) : tmp1[i] = IF i = n + 1 THEN b ELSE tmp[i]
        BY ONLY <2>3, <4>2, n \in Nat, WrittenFact, SMTT(60)
      <4> QED
        BY <4>1, <4>3
    <3> QED
      BY <1>1, <3>1
  <2>6. Len(tmp1) \in Nat
    BY <2>5 DEF Data
  <2>7. \A i \in 1 .. r1.pos : tmp1[i] = data[i]
    <3>1. \A i \in 1 .. r1.pos :
            i \in 1 .. Len(tmp1) /\ (i \in 1 .. r.pos \/ i = r1.pos)
      BY <1>1, <2>5, <2>6, SMTT(30)
    <3>2. \A i \in 1 .. r.pos : i # r1.pos
      BY <1>1
    <3> QED
      BY <1>1, <2>2, <2>5, <3>1, <3>2
  <2>8. sums # None => /\ Len(sums) <= Len(tmp1)
                       /\ \A i \in r1.pos + 1 .. Len(sums) : tmp1[i] = sums[i]
    <3> SUFFICES ASSUME sums # None
                 PROVE  /\ Len(sums) <= Len(tmp1)
                        /\ \A i \in r1.pos + 1 .. Len(sums) : tmp1[i] = sums[i]
      OBVIOUS
    <3>1. Len(sums) <= Len(tmp1)
      BY <1>1, <1>7, <2>5, <2>6
    <3>2. \A i \in r1.pos + 1 .. Len(sums) :
            /\ i \in r.pos + 1 .. Len(sums) /\ i # r1.pos
            /\ i \in 1 .. Len(tmp1)
      BY <1>1, <1>7, <2>6, <3>1
    <3> QED
      BY <1>7, <2>5, <3>1, <3>2
  <2> QED
    BY <1>1, <1>2, <1>5, <1>6, <1>7, <2>5, <2>7, <2>8 DEF Arriving
<1> QED
  BY <1>8, <1>9

(* What has arrived when nothing more is under way is the file.            *)
LEMMA Whole ==
    ASSUME NEW r \in Receiver, NEW tmp, NEW data, NEW sums,
           Arriving(r, tmp, data, sums, <<>>), r.pos = Len(data)
    PROVE  Upto(tmp, r.pos) = data /\ data \in Versions(r.file)
<1>1. /\ tmp \in Data /\ data \in Data /\ r.pos <= Len(tmp) /\ r.pos \in Nat
      /\ \A i \in 1 .. r.pos : tmp[i] = data[i]
      /\ data \in Versions(r.file) /\ Len(tmp) \in Nat
  BY DEF Arriving, Receiver, Data
<1>2. PICK c : c = Upto(tmp, r.pos)
  OBVIOUS
<1>3. /\ c \in Data /\ Len(c) = r.pos
      /\ \A i \in 1 .. r.pos : c[i] = IF i <= Len(tmp) THEN tmp[i] ELSE None
  BY <1>1, <1>2, UptoFact
<1>4. \A i \in 1 .. Len(c) : c[i] = data[i]
  BY <1>1, <1>3
<1> QED
  BY <1>1, <1>2, <1>3, <1>4, SeqEqual DEF Data

(* What the sender reads is what stands at its place.                      *)
LEMMA ChunkRead ==
    ASSUME NEW d \in Sender, Reading(d), ~ AtEnd(d), ~ d.eof
    PROVE  /\ \E c \in Chunks : /\ Chunk(d) = <<c>>
                                /\ Stands(c, d.data, d.sums, d.pos + 1)
           /\ Reading(HasRead(d)) /\ HasRead(d) \in Sender
           /\ HasRead(d).pos = d.pos + 1 /\ HasRead(d).data = d.data
           /\ HasRead(d).sums = d.sums /\ HasRead(d).on = d.on
           /\ HasRead(d).error = d.error /\ HasRead(d).eof = d.eof
<1>1. /\ d.data \in Data /\ d.pos \in Nat /\ Len(d.data) \in Nat
      /\ d.pos < Len(d.data) /\ d.offset \in Nat /\ d.sums \in Content
  BY DEF Reading, AtEnd, Sender, Data
<1>2. d.sums # None => d.sums \in Data /\ Len(d.sums) \in Nat
  BY <1>1 DEF Content, Data
<1>3. \E c \in Chunks : Chunk(d) = <<c>> /\ Stands(c, d.data, d.sums, d.pos + 1)
  <2>1. CASE AlreadyThere(d)
    <3>1. PICK c : c = Msg("packet", "same", None)
      OBVIOUS
    <3>2. c \in Chunks /\ c.size = "same" /\ Chunk(d) = <<c>>
      BY <2>1, <3>1 DEF Msg, Chunks, Chunk, Packet
    <3>3. d.sums # None /\ d.offset = d.pos
      BY <2>1, <1>1, <1>2 DEF AlreadyThere, Reading
    <3>4. d.pos + 1 <= Len(d.sums) /\ d.sums[d.pos + 1] = d.data[d.pos + 1]
      BY <2>1, <1>1, <1>2, <3>3 DEF AlreadyThere
    <3> QED
      BY <3>2, <3>3, <3>4 DEF Stands
  <2>2. CASE ~ AlreadyThere(d)
    <3>1. d.data[d.pos + 1] \in Block \cup {None}
      <4>1. d.pos + 1 \in 1 .. Len(d.data)
        BY <1>1
      <4> QED
        BY <1>1, <4>1, ElementOfSeq DEF Data
    <3>2. PICK c : c = Msg("packet", "data", d.data[d.pos + 1])
      OBVIOUS
    <3>3. /\ c \in Chunks /\ c.size # "same" /\ c.body = d.data[d.pos + 1]
          /\ Chunk(d) = <<c>>
      BY <2>2, <3>1, <3>2 DEF Msg, Chunks, Chunk, Packet
    <3> QED
      BY <3>3 DEF Stands
  <2> QED
    BY <2>1, <2>2
<1>4. PICK n : n = IF d.sums # None /\ d.offset < Len(d.sums)
                   THEN d.offset + 1 ELSE d.offset
  OBVIOUS
<1>5. HasRead(d) = [d EXCEPT !.pos = d.pos + 1, !.offset = n]
  BY <1>4 DEF HasRead
<1>6. n \in Nat
  BY <1>1, <1>4
<1>7. HasRead(d) \in Sender
  <2>1. d.pos + 1 \in Nat
    BY <1>1
  <2> QED
    BY <1>5, <1>6, <2>1 DEF Sender
<1>8. PICK e : e = HasRead(d)
  OBVIOUS
<1>9. /\ e.pos = d.pos + 1 /\ e.offset = n /\ e.data = d.data /\ e.sums = d.sums
      /\ e.eof = d.eof /\ e.on = d.on /\ e.error = d.error
  BY <1>5, <1>8 DEF Sender
<1>10. d.sums # None => \/ n = d.pos + 1 /\ d.pos + 1 <= Len(d.sums)
                        \/ n = Len(d.sums) /\ d.pos + 1 >= Len(d.sums)
  BY <1>1, <1>2, <1>4 DEF Reading
<1>11. Reading(e)
  BY <1>1, <1>9, <1>10 DEF Reading
<1> QED
  BY <1>3, <1>7, <1>8, <1>9, <1>11
-----------------------------------------------------------------------------
(* What a side finds when it reads.                                        *)
At(s, m, q) == chan[s] # <<>> /\ Head(chan[s]) = m /\ Tail(chan[s]) = q

LEMMA Here ==
    ASSUME IInv
    PROVE  /\ chan["server"] \in Seq(Item) /\ chan["viewer"] \in Seq(Item)
           /\ chan \in [Side -> Seq(Item)]
           /\ snd \in [Side -> Sender] /\ rcv \in [Side -> Receiver]
           /\ real \in [Side -> [File -> Content]]
           /\ temp \in [Side -> [File -> Content]]
           /\ snd["server"] \in Sender /\ snd["viewer"] \in Sender
           /\ rcv["server"] \in Receiver /\ rcv["viewer"] \in Receiver
           /\ "server" \in Side /\ "viewer" \in Side
           /\ TransferTypeOK /\ WholeFile /\ ~ old /\ (aborted => abort)
           /\ Phase /\ Kept
  BY DEF IInv, Kept, TransferTypeOK, Side

LEMMA OneMessage ==
    ASSUME NEW s, NEW t, NEW n, NEW x, Msg(t, n, x) \in Item,
           chan[s] = Packet(t, n, x)
    PROVE  At(s, Msg(t, n, x), <<>>)
<1>1. PICK m \in Item : m = Msg(t, n, x) /\ chan[s] = <<m>>
  BY DEF Packet
<1> QED
  BY <1>1, FirstMessage, EmptySeq DEF At

LEMMA TwoMessages ==
    ASSUME NEW s, NEW t, NEW n, NEW x, Msg(t, n, x) \in Item,
           NEW q \in Seq(Item), chan[s] = Packet(t, n, x) \o q
    PROVE  At(s, Msg(t, n, x), q)
<1>1. PICK m \in Item : m = Msg(t, n, x) /\ chan[s] = <<m>> \o q
  BY DEF Packet
<1> QED
  BY <1>1, FirstMessage DEF At

LEMMA Packets ==
    ASSUME NEW t, NEW n, NEW x, Msg(t, n, x) \in Item
    PROVE  Packet(t, n, x) \in Seq(Item) /\ Packet(t, n, x) # <<>>
  BY DEF Packet

LEMMA ServerHeads ==
    ASSUME IInv, chan["server"] # <<>>
    PROVE  \/ /\ Idle
              /\ \E t \in {"abort", "listRequest"} : At("server", Msg(t, "ok", None), <<>>)
           \/ Idle /\ At("server", Msg("header", "fail", None), <<>>)
           \/ \E f \in File : \/ /\ Requested(f)
                                 /\ At("server", Msg("request", "ok", f), <<>>)
                              \/ /\ Requested(f)
                                 /\ At("server", Msg("header", "fail", None), Request(f))
           \/ \E f \in File : \/ /\ Accepted(f)
                                 /\ At("server", Msg("header", "ok", None), <<>>)
                              \/ /\ Accepted(f)
                                 /\ At("server", Msg("checksums", "ok", temp["viewer"][f]),
                                       Bare("header"))
           \/ Downloading /\ At("server", Msg("abort", "ok", None), <<>>)
           \/ \E p \in Chunked : /\ DownloadEnds(p)
                                 /\ At("server", Msg("abort", "ok", None), <<>>)
           \/ \E f \in File : Offered(f) /\ At("server", Msg("offer", "ok", f), <<>>)
           \/ Uploading /\ Head(chan["server"]) \in Chunks
           \/ \E p \in Chunked, e \in {"endOfFile", "abort"} :
                 UploadEnds(p, e) /\ Head(chan["server"]) \in Chunks /\ p # <<>>
           \/ \E e \in {"endOfFile", "abort"} :
                 /\ UploadEnds(<<>>, e)
                 /\ \/ ~ pending /\ At("server", Msg(e, "ok", None), Bare("listRequest"))
                    \/ /\ pending
                       /\ \E f \in File : /\ Offers(f)
                                          /\ At("server", Msg(e, "ok", None), Offer(f))
           \/ Stuck /\ Head(chan["server"]).type = "payload"
<1> USE DEF Bare
<1>1. CASE Idle
  BY <1>1, OneMessage, Messages DEF Idle, HeaderFailed
<1>2. CASE Downloading
  BY <1>2, OneMessage, Messages DEF Downloading
<1>3. CASE Uploading
  <2>1. Head(chan["server"]) \in Chunks
    BY <1>3, HeadTailProperties DEF Uploading, Chunked
  <2> QED
    BY <1>3, <2>1
<1>4. CASE Stuck
  BY <1>4 DEF Stuck, Gets
<1>5. CASE \E f \in File : Requested(f)
  <2>1. PICK f \in File : Requested(f)
    BY <1>5
  <2>2. CASE chan["server"] = Request(f)
    BY <2>1, <2>2, OneMessage, Messages DEF Request
  <2>3. CASE chan["server"] = HeaderFailed \o Request(f)
    <3>1. Request(f) \in Seq(Item)
      BY Messages, Packets DEF Request
    <3> QED
      BY <2>1, <2>3, <3>1, TwoMessages, Messages DEF HeaderFailed
  <2> QED
    BY <2>1, <2>2, <2>3 DEF Requested
<1>6. CASE \E f \in File : Answered(f)
  BY <1>6 DEF Answered
<1>7. CASE \E f \in File : Accepted(f)
  <2>1. PICK f \in File : Accepted(f)
    BY <1>7
  <2>2. CASE chan["server"] = Bare("header")
    BY <2>1, <2>2, OneMessage, Messages
  <2>3. CASE chan["server"] = Packet("checksums", "ok", temp["viewer"][f])
                                \o Bare("header")
    <3>1. Bare("header") \in Seq(Item)
      BY Messages, Packets
    <3>2. temp["viewer"][f] \in Data
      BY <2>1 DEF Accepted
    <3>3. At("server", Msg("checksums", "ok", temp["viewer"][f]), Bare("header"))
      BY <2>3, <3>1, <3>2, TwoMessages, Messages
    <3> QED
      BY <2>1, <3>3
  <2> QED
    BY <2>1, <2>2, <2>3 DEF Accepted
<1>8. CASE \E f \in File : Offered(f)
  BY <1>8, OneMessage, Messages DEF Offered, Offer
<1>9. CASE \E f \in File : Allowed(f)
  BY <1>9 DEF Allowed
<1>10. CASE \E p \in Chunked : DownloadEnds(p)
  BY <1>10, OneMessage, Messages DEF DownloadEnds
<1>11. CASE \E p \in Chunked : \E e \in {"endOfFile", "abort"} : UploadEnds(p, e)
  <2>1. PICK p \in Chunked, e \in {"endOfFile", "abort"} : UploadEnds(p, e)
    BY <1>11
  <2>2. PICK q \in Seq(Item) :
          /\ chan["server"] = p \o (Bare(e) \o q)
          /\ \/ ~ pending /\ q = Bare("listRequest")
             \/ pending /\ \E f \in File : Offers(f) /\ q = Offer(f)
    <3>1. Bare("listRequest") \in Seq(Item) /\ \A f \in File : Offer(f) \in Seq(Item)
      BY Messages, Packets DEF Offer
    <3> QED
      BY <2>1, <3>1 DEF UploadEnds
  <2>3. Msg(e, "ok", None) \in Item /\ Bare(e) \in Seq(Item)
    BY Messages, Packets
  <2>4. Bare(e) \o q \in Seq(Item)
    BY <2>3, ConcatProperties
  <2>5. CASE p = <<>>
    <3>1. chan["server"] = Bare(e) \o q
      BY <2>2, <2>4, <2>5, Behind
    <3>2. At("server", Msg(e, "ok", None), q)
      BY <2>3, <3>1, TwoMessages
    <3> QED
      BY <2>1, <2>2, <2>5, <3>2
  <2>6. CASE p # <<>>
    <3>1. Head(chan["server"]) \in Chunks
      BY <2>2, <2>4, <2>6, NextPacket
    <3> QED
      BY <2>1, <2>6, <3>1
  <2> QED
    BY <2>5, <2>6
<1> QED
  BY <1>1, <1>2, <1>3, <1>4, <1>5, <1>6, <1>7, <1>8, <1>9, <1>10, <1>11, Here
  DEF Phase

LEMMA ViewerHeads ==
    ASSUME IInv, chan["viewer"] # <<>>
    PROVE  \/ Idle /\ At("viewer", Msg("listing", "ok", None), <<>>)
           \/ \E n \in {"ok", "fail"} : Idle /\ At("viewer", Msg("access", n, None), <<>>)
           \/ \E f \in File, n \in {"ok", "fail"} :
                 Answered(f) /\ At("viewer", Msg("header", n, f), <<>>)
           \/ Downloading /\ Head(chan["viewer"]) \in Chunks
           \/ \E p \in Chunked :
                 DownloadEnds(p) /\ Head(chan["viewer"]) \in Chunks /\ p # <<>>
           \/ /\ DownloadEnds(<<>>)
              /\ \/ At("viewer", Msg("endOfFile", "ok", None), <<>>)
                 \/ \E n \in {"ok", "fail"} :
                      At("viewer", Msg("endOfFile", "ok", None), Packet("access", n, None))
                 \/ At("viewer", Msg("abort", "ok", None), <<>>)
           \/ \E f \in File, n \in {"ok", "fail"} :
                 Allowed(f) /\ At("viewer", Msg("accept", n, f), <<>>)
           \/ \E f \in File :
                 /\ Allowed(f)
                 /\ At("viewer", Msg("checksums", "ok", temp["server"][f]),
                       Packet("accept", "ok", f))
<1> USE DEF Bare
<1>1. CASE Idle
  BY <1>1, OneMessage, Messages DEF Idle
<1>2. CASE Downloading
  <2>1. Head(chan["viewer"]) \in Chunks
    BY <1>2, HeadTailProperties DEF Downloading, Chunked
  <2> QED
    BY <1>2, <2>1
<1>3. CASE Uploading \/ Stuck \/ \E f \in File : Offered(f)
  BY <1>3 DEF Uploading, Stuck, Offered, Uploads
<1>4. CASE \E f \in File : Requested(f) \/ Accepted(f)
  BY <1>4 DEF Requested, Accepted
<1>5. CASE \E f \in File : Answered(f)
  BY <1>5, OneMessage, Messages DEF Answered
<1>6. CASE \E f \in File : Allowed(f)
  <2>1. PICK f \in File : Allowed(f)
    BY <1>6
  <2>2. CASE \E n \in {"ok", "fail"} : chan["viewer"] = Packet("accept", n, f)
    BY <2>1, <2>2, OneMessage, Messages
  <2>3. CASE /\ chan["viewer"] = Packet("checksums", "ok", temp["server"][f])
                                   \o Packet("accept", "ok", f)
             /\ temp["server"][f] \in Data
    <3>1. Packet("accept", "ok", f) \in Seq(Item)
      BY Messages, Packets
    <3>2. At("viewer", Msg("checksums", "ok", temp["server"][f]),
             Packet("accept", "ok", f))
      BY <2>3, <3>1, TwoMessages, Messages
    <3> QED
      BY <2>1, <3>2
  <2> QED
    BY <2>1, <2>2, <2>3 DEF Allowed
<1>7. CASE \E p \in Chunked : \E e \in {"endOfFile", "abort"} : UploadEnds(p, e)
  BY <1>7 DEF UploadEnds, Uploads
<1>8. CASE \E p \in Chunked : DownloadEnds(p)
  <2>1. PICK p \in Chunked : DownloadEnds(p)
    BY <1>8
  <2>2. PICK e \in {"endOfFile", "abort"}, q \in Seq(Item) :
          /\ chan["viewer"] = p \o (Bare(e) \o q)
          /\ \/ q = <<>>
             \/ e = "endOfFile" /\ \E n \in {"ok", "fail"} : q = Packet("access", n, None)
    <3>1. /\ \A n \in {"ok", "fail"} : Packet("access", n, None) \in Seq(Item)
          /\ \A e \in {"endOfFile", "abort"} : /\ Bare(e) \in Seq(Item)
                                               /\ Bare(e) \o <<>> = Bare(e)
      BY Messages, Packets, ConcatEmptySeq
    <3>2. <<>> \in Seq(Item)
      OBVIOUS
    <3> QED
      BY <2>1, <3>1, <3>2 DEF DownloadEnds
  <2>3. Msg(e, "ok", None) \in Item /\ Bare(e) \in Seq(Item)
    BY Messages, Packets
  <2>4. Bare(e) \o q \in Seq(Item)
    BY <2>3, ConcatProperties
  <2>5. CASE p = <<>>
    <3>1. chan["viewer"] = Bare(e) \o q
      BY <2>2, <2>4, <2>5, Behind
    <3>2. At("viewer", Msg(e, "ok", None), q)
      BY <2>3, <3>1, TwoMessages
    <3> QED
      BY <2>1, <2>2, <2>5, <3>2
  <2>6. CASE p # <<>>
    <3>1. Head(chan["viewer"]) \in Chunks
      BY <2>2, <2>4, <2>6, NextPacket
    <3> QED
      BY <2>1, <2>6, <3>1
  <2> QED
    BY <2>5, <2>6
<1> QED
  BY <1>1, <1>2, <1>3, <1>4, <1>5, <1>6, <1>7, <1>8, Here DEF Phase
-----------------------------------------------------------------------------
(* The same by the type of what is read.                                   *)
LEMMA AtFacts ==
    ASSUME NEW s, NEW t, NEW n, NEW x, NEW q, At(s, Msg(t, n, x), q)
    PROVE  /\ \A u : Gets(s, u) <=> u = t
           /\ Size(s) = n /\ Body(s) = x /\ Rest(s) = q
  BY Fields DEF At, Gets, Size, Body, Rest

LEMMA ReadsOne ==
    ASSUME NEW s, NEW t, NEW n, NEW x, Msg(t, n, x) \in Item,
           chan[s] = Packet(t, n, x)
    PROVE  /\ \A u : Gets(s, u) <=> u = t
           /\ Size(s) = n /\ Body(s) = x /\ Rest(s) = <<>>
<1>1. At(s, Msg(t, n, x), <<>>)
  BY OneMessage
<1> QED
  BY <1>1, AtFacts

LEMMA ReadsFirst ==
    ASSUME NEW s, NEW t, NEW n, NEW x, Msg(t, n, x) \in Item,
           NEW q \in Seq(Item), chan[s] = Packet(t, n, x) \o q
    PROVE  /\ \A u : Gets(s, u) <=> u = t
           /\ Size(s) = n /\ Body(s) = x /\ Rest(s) = q
<1>1. At(s, Msg(t, n, x), q)
  BY TwoMessages
<1> QED
  BY <1>1, AtFacts

LEMMA NothingThere ==
    ASSUME NEW p \in Chunked, NEW e \in {"endOfFile", "abort"}, NEW q \in Seq(Item)
    PROVE  p \o (Bare(e) \o q) # <<>>
<1>1. Msg(e, "ok", None) \in Item /\ Bare(e) = <<Msg(e, "ok", None)>>
  BY Messages DEF Bare, Packet
<1>2. Bare(e) \o q \in Seq(Item) /\ Bare(e) \o q # <<>>
  BY <1>1, FirstMessage
<1>3. CASE p = <<>>
  BY <1>2, <1>3, Behind
<1>4. CASE p # <<>>
  BY <1>2, <1>4, NextPacket
<1> QED
  BY <1>3, <1>4

LEMMA ServerGets ==
    ASSUME IInv, NEW t, Gets("server", t)
    PROVE  \/ /\ t = "offer"
              /\ \E f \in File : /\ Offered(f) /\ Body("server") = f
                                 /\ Rest("server") = <<>>
           \/ /\ t = "request"
              /\ \E f \in File : /\ Requested(f) /\ Body("server") = f
                                 /\ Rest("server") = <<>>
           \/ /\ t = "checksums"
              /\ \E f \in File : /\ Accepted(f) /\ Body("server") = temp["viewer"][f]
                                 /\ Rest("server") = Bare("header")
           \/ /\ t = "header" /\ Size("server") = "ok"
              /\ \E f \in File : Accepted(f) /\ Rest("server") = <<>>
           \/ /\ t = "header" /\ Size("server") = "fail"
              /\ \/ Idle /\ Rest("server") = <<>>
                 \/ \E f \in File : Requested(f) /\ Rest("server") = Request(f)
           \/ /\ t = "packet" /\ Head(chan["server"]) \in Chunks
              /\ \/ Uploading
                 \/ \E p \in Chunked, e \in {"endOfFile", "abort"} :
                       UploadEnds(p, e) /\ p # <<>>
           \/ /\ t \in {"endOfFile", "abort"} /\ UploadEnds(<<>>, t)
              /\ \/ ~ pending /\ Rest("server") = Bare("listRequest")
                 \/ /\ pending
                    /\ \E f \in File : Offers(f) /\ Rest("server") = Offer(f)
           \/ /\ t = "abort" /\ Rest("server") = <<>>
              /\ \/ Idle \/ Downloading
                 \/ \E p \in Chunked : DownloadEnds(p)
           \/ t = "listRequest" /\ Idle /\ Rest("server") = <<>>
           \/ t = "payload" /\ Stuck
<1>0. chan["server"] # <<>> /\ Head(chan["server"]).type = t
  BY DEF Gets
<1>1. ASSUME NEW u \in {"abort", "listRequest"}, Idle,
             At("server", Msg(u, "ok", None), <<>>)
      PROVE  t = u /\ Rest("server") = <<>>
  BY <1>1, AtFacts
<1>2. CASE Idle /\ At("server", Msg("header", "fail", None), <<>>)
  BY <1>2, AtFacts
<1>3. ASSUME NEW f \in File, Requested(f),
             \/ At("server", Msg("request", "ok", f), <<>>)
             \/ At("server", Msg("header", "fail", None), Request(f))
      PROVE  \/ t = "request" /\ Body("server") = f /\ Rest("server") = <<>>
             \/ t = "header" /\ Size("server") = "fail" /\ Rest("server") = Request(f)
  BY <1>3, AtFacts
<1>4. ASSUME NEW f \in File, Accepted(f),
             \/ At("server", Msg("header", "ok", None), <<>>)
             \/ At("server", Msg("checksums", "ok", temp["viewer"][f]), Bare("header"))
      PROVE  \/ t = "header" /\ Size("server") = "ok" /\ Rest("server") = <<>>
             \/ /\ t = "checksums" /\ Body("server") = temp["viewer"][f]
                /\ Rest("server") = Bare("header")
  BY <1>4, AtFacts
<1>5. ASSUME At("server", Msg("abort", "ok", None), <<>>)
      PROVE  t = "abort" /\ Rest("server") = <<>>
  BY <1>5, AtFacts
<1>6. ASSUME NEW f \in File, At("server", Msg("offer", "ok", f), <<>>)
      PROVE  t = "offer" /\ Body("server") = f /\ Rest("server") = <<>>
  BY <1>6, AtFacts
<1>7. ASSUME Head(chan["server"]) \in Chunks PROVE t = "packet"
  BY <1>0, <1>7 DEF Chunks
<1>8. ASSUME NEW e \in {"endOfFile", "abort"}, NEW q,
             At("server", Msg(e, "ok", None), q)
      PROVE  t = e /\ Rest("server") = q
  BY <1>8, AtFacts
<1> QED
  BY <1>0, <1>1, <1>2, <1>3, <1>4, <1>5, <1>6, <1>7, <1>8, ServerHeads

LEMMA ViewerGets ==
    ASSUME IInv, NEW t, Gets("viewer", t)
    PROVE  \/ t = "listing" /\ Idle /\ Rest("viewer") = <<>>
           \/ /\ t = "access" /\ Size("viewer") \in {"ok", "fail"} /\ Idle
              /\ Rest("viewer") = <<>>
           \/ /\ t = "header" /\ Size("viewer") \in {"ok", "fail"}
              /\ \E f \in File : /\ Answered(f) /\ Body("viewer") = f
                                 /\ Rest("viewer") = <<>>
                                 /\ Size("viewer") = "ok" =>
                                      /\ Fresh(snd["server"], f)
                                      /\ snd["server"].sums = None
           \/ /\ t = "packet" /\ Head(chan["viewer"]) \in Chunks
              /\ \/ Downloading
                 \/ \E p \in Chunked : DownloadEnds(p) /\ p # <<>>
           \/ /\ t = "endOfFile" /\ DownloadEnds(<<>>)
              /\ rcv["viewer"].pos = Len(snd["server"].data)
              /\ \/ Rest("viewer") = <<>> /\ chan["server"] = <<>>
                 \/ Rest("viewer") = <<>> /\ chan["server"] = Bare("abort") /\ aborted
                 \/ /\ chan["server"] = <<>> /\ aborted
                    /\ \E n \in {"ok", "fail"} :
                          Rest("viewer") = Packet("access", n, None)
           \/ /\ t = "abort" /\ DownloadEnds(<<>>) /\ aborted
              /\ chan["server"] = <<>> /\ Rest("viewer") = <<>>
           \/ /\ t = "checksums"
              /\ \E f \in File : /\ Allowed(f) /\ Body("viewer") = temp["server"][f]
                                 /\ Rest("viewer") = Packet("accept", "ok", f)
           \/ /\ t = "accept"
              /\ \E f \in File :
                   /\ Allowed(f) /\ Body("viewer") = f /\ Rest("viewer") = <<>>
                   /\ \/ Size("viewer") = "fail" /\ ServerFree
                      \/ /\ Size("viewer") = "ok"
                         /\ rcv["server"] = Receiving(f) /\ temp["server"][f] \in Data
                         /\ real["viewer"][f] \in Data /\ snd["viewer"].offset = 0
                         /\ snd["viewer"].sums \in {None, temp["server"][f]}
<1>0. chan["viewer"] # <<>> /\ Head(chan["viewer"]).type = t
  BY DEF Gets
<1>1. CASE Idle /\ At("viewer", Msg("listing", "ok", None), <<>>)
  BY <1>1, AtFacts
<1>2. CASE \E n \in {"ok", "fail"} : Idle /\ At("viewer", Msg("access", n, None), <<>>)
  BY <1>2, AtFacts
<1>3. ASSUME NEW f \in File, NEW n \in {"ok", "fail"}, Answered(f),
             At("viewer", Msg("header", n, f), <<>>)
      PROVE  /\ t = "header" /\ Size("viewer") = n /\ Body("viewer") = f
             /\ Rest("viewer") = <<>>
             /\ n = "ok" => Fresh(snd["server"], f) /\ snd["server"].sums = None
  <2>1. /\ t = "header" /\ Size("viewer") = n /\ Body("viewer") = f
        /\ Rest("viewer") = <<>>
    BY <1>3, AtFacts
  <2>2. CASE chan["viewer"] = Packet("header", "fail", f)
    <3>1. Size("viewer") = "fail"
      BY <2>2, ReadsOne, Messages
    <3> QED
      BY <2>1, <3>1
  <2>3. CASE chan["viewer"] # Packet("header", "fail", f)
    BY <1>3, <2>1, <2>3 DEF Answered
  <2> QED
    BY <2>2, <2>3
<1>4. ASSUME Head(chan["viewer"]) \in Chunks PROVE t = "packet"
  BY <1>0, <1>4 DEF Chunks
<1>5. ASSUME DownloadEnds(<<>>)
      PROVE  \/ /\ t = "endOfFile"
                /\ rcv["viewer"].pos = Len(snd["server"].data)
                /\ \/ Rest("viewer") = <<>> /\ chan["server"] = <<>>
                   \/ /\ Rest("viewer") = <<>> /\ chan["server"] = Bare("abort")
                      /\ aborted
                   \/ /\ chan["server"] = <<>> /\ aborted
                      /\ \E n \in {"ok", "fail"} :
                            Rest("viewer") = Packet("access", n, None)
             \/ /\ t = "abort" /\ aborted
                /\ chan["server"] = <<>> /\ Rest("viewer") = <<>>
  <2>1. /\ Bare("abort") \in Seq(Item) /\ Bare("endOfFile") \in Seq(Item)
        /\ <<>> \in Chunked
        /\ \A n \in {"ok", "fail"} : /\ Packet("access", n, None) \in Seq(Item)
                                     /\ Bare("endOfFile") \o Packet("access", n, None)
                                          \in Seq(Item)
    BY Messages, Packets, ConcatProperties DEF Bare, Chunked
  <2>2. ASSUME chan["viewer"] = <<>> \o Bare("abort")
        PROVE  t = "abort" /\ Rest("viewer") = <<>>
    <3>1. chan["viewer"] = Packet("abort", "ok", None)
      BY <2>1, <2>2, Behind DEF Bare
    <3> QED
      BY <3>1, ReadsOne, Messages
  <2>3. ASSUME chan["viewer"] = <<>> \o Bare("endOfFile")
        PROVE  t = "endOfFile" /\ Rest("viewer") = <<>>
    <3>1. chan["viewer"] = Packet("endOfFile", "ok", None)
      BY <2>1, <2>3, Behind DEF Bare
    <3> QED
      BY <3>1, ReadsOne, Messages
  <2>4. ASSUME NEW n \in {"ok", "fail"},
               chan["viewer"] = <<>> \o (Bare("endOfFile") \o Packet("access", n, None))
        PROVE  t = "endOfFile" /\ Rest("viewer") = Packet("access", n, None)
    <3>1. chan["viewer"] = Packet("endOfFile", "ok", None) \o Packet("access", n, None)
      BY <2>1, <2>4, Behind DEF Bare
    <3>2. PICK q \in Seq(Item) : q = Packet("access", n, None)
      BY <2>1, <2>4
    <3>3. chan["viewer"] = Packet("endOfFile", "ok", None) \o q
      BY <3>1, <3>2
    <3>4. Msg("endOfFile", "ok", None) \in Item
      BY Messages
    <3>5. Gets("viewer", "endOfFile") /\ Rest("viewer") = q
          /\ (\A u : Gets("viewer", u) <=> u = "endOfFile")
      BY ONLY <3>3, <3>4, q \in Seq(Item), ReadsFirst
    <3> QED
      BY <3>2, <3>5
  <2>5. Len(<<>>) = 0 /\ rcv["viewer"].pos \in Nat
    BY Here DEF Receiver
  <2> QED
    BY <1>5, <2>2, <2>3, <2>4, <2>5 DEF DownloadEnds
<1>6. ASSUME NEW f \in File, Allowed(f)
      PROVE  \/ /\ t = "checksums" /\ Body("viewer") = temp["server"][f]
                /\ Rest("viewer") = Packet("accept", "ok", f)
             \/ /\ t = "accept"
                /\ Allowed(f) /\ Body("viewer") = f /\ Rest("viewer") = <<>>
                /\ \/ Size("viewer") = "fail" /\ ServerFree
                   \/ /\ Size("viewer") = "ok"
                      /\ rcv["server"] = Receiving(f) /\ temp["server"][f] \in Data
                      /\ real["viewer"][f] \in Data /\ snd["viewer"].offset = 0
                      /\ snd["viewer"].sums \in {None, temp["server"][f]}
  <2>1. ASSUME NEW n \in {"ok", "fail"}, chan["viewer"] = Packet("accept", n, f)
        PROVE  /\ t = "accept" /\ Body("viewer") = f /\ Rest("viewer") = <<>>
               /\ Size("viewer") = n
    BY <2>1, ReadsOne, Messages
  <2>2. ASSUME chan["viewer"] = Packet("checksums", "ok", temp["server"][f])
                                  \o Packet("accept", "ok", f),
               temp["server"][f] \in Data
        PROVE  /\ t = "checksums" /\ Body("viewer") = temp["server"][f]
               /\ Rest("viewer") = Packet("accept", "ok", f)
    <3>1. Packet("accept", "ok", f) \in Seq(Item)
      BY Messages, Packets
    <3>2. Msg("checksums", "ok", temp["server"][f]) \in Item
      BY <2>2, Messages
    <3>3. PICK q, c : /\ q \in Seq(Item) /\ q = Packet("accept", "ok", f)
                      /\ c = temp["server"][f]
      BY <3>1
    <3>4. Msg("checksums", "ok", c) \in Item /\ chan["viewer"] = Packet("checksums", "ok", c) \o q
      BY <2>2, <3>2, <3>3
    <3>5. /\ \A u : Gets("viewer", u) <=> u = "checksums"
          /\ Body("viewer") = c /\ Rest("viewer") = q
      BY ONLY <3>3, <3>4, ReadsFirst, ZenonT(40)
    <3> QED
      BY <3>3, <3>5
  <2> QED
    BY <1>6, <2>1, <2>2 DEF Allowed
<1> QED
  BY <1>0, <1>1, <1>2, <1>3, <1>4, <1>5, <1>6, ViewerHeads
-----------------------------------------------------------------------------
(* What several actions do.                                                *)

LEMMA RealKept ==
    ASSUME WholeFile, UNCHANGED real
    PROVE  WholeFile'
  BY DEF WholeFile

(* The user stops the transfer, the administrator forbids it, or nothing   *)
(* happens.                                                                *)
LEMMA Steady ==
    ASSUME Phase, UNCHANGED <<real, temp, chan, snd, rcv, posted, pending, aborted>>,
           enabled' => enabled
    PROVE  Phase'
<1>1. UNCHANGED real /\ UNCHANGED temp /\ UNCHANGED chan /\ UNCHANGED snd
      /\ UNCHANGED rcv /\ UNCHANGED posted /\ UNCHANGED pending
      /\ UNCHANGED aborted /\ (~ enabled => ~ enabled')
  OBVIOUS
<1> HIDE DEF Phase
<1>2. CASE Idle
  <2>1. Idle'
    BY <1>1, <1>2 DEF Idle, ServerSilent, ServerFree, ViewerFree
  <2> QED
    BY <2>1 DEF Phase
<1>3. CASE Downloading
  <2>1. Downloading'
    BY <1>1, <1>3 DEF Downloading, Downloads, ReceiverOn
  <2> QED
    BY <2>1 DEF Phase
<1>4. CASE Uploading
  <2>1. Uploading'
    BY <1>1, <1>4 DEF Uploading, Uploads, ServerSilent, ReceiverOn
  <2> QED
    BY <2>1 DEF Phase
<1>5. CASE Stuck
  <2>1. Stuck'
    BY <1>1, <1>5 DEF Stuck, Uploads, ServerSilent, Gets
  <2> QED
    BY <2>1 DEF Phase
<1>6. ASSUME NEW f \in File, Requested(f) PROVE Requested(f)'
  BY <1>1, <1>6 DEF Requested, ServerSilent, ServerFree, ViewerFree
<1>7. ASSUME NEW f \in File, Answered(f) PROVE Answered(f)'
  BY <1>1, <1>7 DEF Answered, Downloads, ServerSilent, ViewerFree
<1>8. ASSUME NEW f \in File, Accepted(f) PROVE Accepted(f)'
  BY <1>1, <1>8 DEF Accepted, Downloads, ServerSilent
<1>9. ASSUME NEW f \in File, Offered(f) PROVE Offered(f)'
  BY <1>1, <1>9 DEF Offered, Uploads, ServerSilent, ServerFree, Offers
<1>10. ASSUME NEW f \in File, Allowed(f) PROVE Allowed(f)'
  BY <1>1, <1>10 DEF Allowed, ServerSilent, ServerFree, ViewerFree
<1>11. ASSUME NEW p \in Chunked, DownloadEnds(p) PROVE DownloadEnds(p)'
  <2>1. /\ rcv'["viewer"] = rcv["viewer"] /\ temp'["viewer"] = temp["viewer"]
        /\ rcv'["server"] = rcv["server"] /\ snd'["viewer"] = snd["viewer"]
        /\ snd'["server"] = snd["server"] /\ chan'["server"] = chan["server"]
        /\ chan'["viewer"] = chan["viewer"] /\ posted' = posted
        /\ pending' = pending /\ aborted' = aborted
    BY <1>1
  <2> QED
    BY ONLY <2>1, <1>11, Zenon DEF DownloadEnds, Downloads, ServerSilent, ReceiverOn
<1>12. ASSUME NEW p \in Chunked, NEW e \in {"endOfFile", "abort"}, UploadEnds(p, e)
       PROVE  UploadEnds(p, e)'
  <2>1. /\ Uploads' /\ ~ snd'["viewer"].on /\ ReceiverOn(rcv'["server"])
        /\ rcv'["server"] = rcv["server"] /\ temp'["server"] = temp["server"]
    BY <1>1, <1>12 DEF UploadEnds, Uploads, ServerSilent
  <2>2. \/ /\ ~ pending'
           /\ chan'["server"] = p \o (Bare(e) \o Bare("listRequest"))
        \/ /\ pending'
           /\ \E f \in File :
                 Offers(f)' /\ chan'["server"] = p \o (Bare(e) \o Offer(f))
    <3>1. CASE ~ pending
      BY <1>1, <1>12, <3>1 DEF UploadEnds
    <3>2. CASE pending
      <4>1. PICK f \in File :
              Offers(f) /\ chan["server"] = p \o (Bare(e) \o Offer(f))
        BY <1>12, <3>2 DEF UploadEnds
      <4>2. Offers(f)'
        BY <1>1, <4>1 DEF Offers
      <4>3. chan'["server"] = p \o (Bare(e) \o Offer(f))
        BY <1>1, <4>1
      <4> QED
        BY <1>1, <3>2, <4>2, <4>3
    <3> QED
      BY <3>1, <3>2
  <2>3. enabled' =>
          \E data, sums \in Data \cup {None} :
             /\ Arriving(rcv'["server"], temp'["server"][rcv'["server"].file],
                         data, sums, p)
             /\ e = "endOfFile" => rcv'["server"].pos + Len(p) = Len(data)
    BY <1>1, <1>12, <2>1 DEF UploadEnds
  <2> QED
    BY <2>1, <2>2, <2>3 DEF UploadEnds
<1> QED
  BY <1>2, <1>3, <1>4, <1>5, <1>6, <1>7, <1>8, <1>9, <1>10, <1>11, <1>12 DEF Phase

(* A side has finished the file it received.                               *)
LEMMA Finished ==
    ASSUME NEW s \in Side, NEW r \in Receiver, TransferTypeOK, WholeFile,
           r.file \in File, temp[s][r.file] \in Data,
           ~ r.error => Upto(temp[s][r.file], r.pos) \in Versions(r.file),
           FinishFiles(s, r)
    PROVE  /\ real' \in [Side -> [File -> Content]]
           /\ temp' \in [Side -> [File -> Content]]
           /\ rcv' \in [Side -> Receiver]
           /\ WholeFile'
           /\ ~ rcv'[s].on
           /\ \A t \in Side \ {s} : /\ real'[t] = real[t] /\ rcv'[t] = rcv[t]
                                    /\ temp'[t] = temp[t]
<1>1. PICK f, c : f = r.file /\ c = Cut(s, r)
  OBVIOUS
<1>2. /\ f \in File /\ c \in Content /\ None \in Content
      /\ c = Upto(temp[s][f], r.pos)
      /\ ~ r.error => c \in Versions(f)
  <2>1. r.pos \in Nat
    BY DEF Receiver
  <2>2. Upto(temp[s][r.file], r.pos) \in Data
    BY <2>1, UptoFact
  <2> QED
    BY <1>1, <2>2 DEF Cut, Data, Content
<1>3. /\ real \in [Side -> [File -> Content]] /\ temp \in [Side -> [File -> Content]]
      /\ rcv \in [Side -> Receiver]
  BY DEF TransferTypeOK
<1>4. PICK b \in BOOLEAN : rcv' = [rcv EXCEPT ![s] = [r EXCEPT !.on = FALSE, !.error = b]]
  <2>1. r.error \in BOOLEAN /\ (s = "server") \in BOOLEAN
    BY DEF Receiver
  <2>2. [r EXCEPT !.on = FALSE] = [r EXCEPT !.on = FALSE, !.error = r.error]
    BY DEF Receiver
  <2>3. \/ rcv' = [rcv EXCEPT ![s] = [r EXCEPT !.on = FALSE]]
        \/ rcv' = [rcv EXCEPT ![s] = [r EXCEPT !.on = FALSE,
                                               !.error = (s = "server")]]
    BY DEF FinishFiles
  <2> QED
    BY <2>1, <2>2, <2>3
<1>5. /\ rcv' \in [Side -> Receiver] /\ ~ rcv'[s].on
      /\ \A t \in Side \ {s} : rcv'[t] = rcv[t]
  <2>1. /\ [r EXCEPT !.on = FALSE, !.error = b] \in Receiver
        /\ ~ [r EXCEPT !.on = FALSE, !.error = b].on
    BY DEF Receiver
  <2> QED
    BY <1>3, <1>4, <2>1
<1>6. PICK x \in {None, c} : temp' = [temp EXCEPT ![s][f] = x]
  BY <1>1 DEF FinishFiles
<1>7. /\ temp' \in [Side -> [File -> Content]]
      /\ \A t \in Side \ {s} : temp'[t] = temp[t]
  BY <1>2, <1>3, <1>6
<1>8. \/ real' = real
      \/ ~ r.error /\ real' = [real EXCEPT ![s][f] = c]
  BY <1>1 DEF FinishFiles
<1>9. /\ real' \in [Side -> [File -> Content]]
      /\ \A t \in Side \ {s} : real'[t] = real[t]
  <2>1. CASE real' = real
    BY <1>3, <2>1
  <2>2. CASE real' = [real EXCEPT ![s][f] = c]
    BY <1>2, <1>3, <2>2
  <2> QED
    BY <1>8, <2>1, <2>2
<1>10. WholeFile'
  <2>1. CASE real' = real
    BY <2>1, RealKept
  <2>2. CASE ~ r.error /\ real' = [real EXCEPT ![s][f] = c]
    <3>1. \A t \in Side : \A g \in File :
             real'[t][g] = IF t = s /\ g = f THEN c ELSE real[t][g]
      BY <1>2, <1>3, <2>2
    <3>2. c \in {Real0[t][f] : t \in Side}
      BY <1>2, <2>2 DEF Versions
    <3> QED
      BY <3>1, <3>2 DEF WholeFile
  <2> QED
    BY <1>8, <2>1, <2>2
<1> QED
  BY <1>5, <1>7, <1>9, <1>10

(* The viewer goes on to the next file it wants.                           *)
LEMMA Advanced ==
    ASSUME TransferTypeOK, AdvanceFiles, pending
    PROVE  /\ files' \in Seq(File) /\ pending' \in BOOLEAN
           /\ \/ /\ ~ abort /\ pending'
                 /\ \E f \in File : NextRequest = Request(f)
              \/ ~ pending' /\ NextRequest = <<>>
<1>1. files \in Seq(File) /\ pending \in BOOLEAN /\ Len(files) \in Nat
  BY DEF TransferTypeOK
<1>2. CASE MoreFiles
  <2>1. files[2] \in File
    <3>1. 2 \in 1 .. Len(files)
      BY <1>1, <1>2 DEF MoreFiles
    <3> QED
      BY <1>1, <3>1, ElementOfSeq
  <2>2. files' = Tail(files) /\ Tail(files) \in Seq(File) /\ pending' = TRUE
    <3>1. files # <<>>
      BY <1>1, <1>2 DEF MoreFiles
    <3> QED
      BY <1>1, <1>2, <3>1, HeadTailProperties DEF AdvanceFiles
  <2>3. NextRequest = Request(files[2]) /\ ~ abort
    BY <1>2 DEF NextRequest, Request, MoreFiles
  <2> QED
    BY <2>1, <2>2, <2>3
<1>3. CASE ~ MoreFiles
  <2>1. files' = <<>> /\ NextRequest = <<>>
    BY <1>3 DEF NextRequest, AdvanceFiles
  <2>2. pending' = FALSE
    BY <1>3, Zenon DEF AdvanceFiles
  <2>3. pending' \in BOOLEAN /\ ~ pending'
    BY <2>2
  <2>4. <<>> \in Seq(File)
    OBVIOUS
  <2> QED
    BY <2>1, <2>3, <2>4
<1> QED
  BY <1>2, <1>3

(* The viewer goes on to the next file it offers.                          *)
LEMMA Skipped ==
    ASSUME TransferTypeOK, NEW fs \in Seq(File), NEW k \in Skipping(fs)
    PROVE  /\ k \in 0 .. Len(fs) /\ Len(fs) \in Nat
           /\ SubSeq(fs, k + 1, Len(fs)) \in Seq(File)
           /\ k < Len(fs) => fs[k + 1] \in File /\ real["viewer"][fs[k + 1]] \in Data
<1>1. Len(fs) \in Nat /\ k \in 0 .. Len(fs)
  BY DEF Skipping
<1>2. SubSeq(fs, k + 1, Len(fs)) \in Seq(File)
  <2>1. k + 1 \in 1 .. Len(fs) + 1
    BY <1>1
  <2> QED
    BY <1>1, <2>1, SubSeqProperties
<1>3. ASSUME k < Len(fs)
      PROVE  fs[k + 1] \in File /\ real["viewer"][fs[k + 1]] \in Data
  <2>1. k + 1 \in 1 .. Len(fs)
    BY <1>1, <1>3
  <2>2. fs[k + 1] \in File
    BY <2>1, ElementOfSeq
  <2>3. real["viewer"][fs[k + 1]] # None
    BY <1>3 DEF Skipping
  <2>4. real["viewer"][fs[k + 1]] \in Content
    BY <2>2 DEF TransferTypeOK, Side
  <2> QED
    BY <2>2, <2>3, <2>4 DEF Content, Data
<1> QED
  BY <1>1, <1>2, <1>3

LEMMA OpenedFact ==
    ASSUME NEW d \in Sender, NEW c \in Content
    PROVE  /\ Opened(d, c) \in Sender /\ Opened(d, c).on = d.on
           /\ Opened(d, c).data = c /\ Opened(d, c).pos = 0
           /\ Opened(d, c).sums = None /\ Opened(d, c).offset = 0
  BY DEF Opened, Sender, Content

LEMMA OfferedNext ==
    ASSUME TransferTypeOK, NEW left, NEW out, NEW d \in Sender,
           OfferNextFile(left, out, d)
    PROVE  /\ files' \in Seq(File) /\ pending' \in BOOLEAN /\ timer' \in BOOLEAN
           /\ snd' \in [Side -> Sender] /\ snd'["server"] = snd["server"]
           /\ snd'["viewer"].on = d.on
           /\ \/ /\ pending' = pending
                 /\ snd'["viewer"].sums = None /\ snd'["viewer"].offset = 0
                 /\ \E f \in File : /\ real["viewer"][f] \in Data
                                    /\ Reply("viewer", left, out \o Offer(f))
              \/ ~ pending' /\ Reply("viewer", left, out \o Bare("listRequest"))
<1>1. /\ snd \in [Side -> Sender] /\ "viewer" \in Side /\ "server" \in Side
      /\ files \in Seq(File) /\ pending \in BOOLEAN
  BY DEF TransferTypeOK, Side
<1>2. CASE AllOffered(left, out, d)
  <2>1. /\ files' = <<>> /\ timer' = FALSE /\ pending' = FALSE
        /\ snd' = [snd EXCEPT !["viewer"] = d]
        /\ Reply("viewer", left, out \o Bare("listRequest"))
    BY <1>2 DEF AllOffered
  <2>2. /\ snd' \in [Side -> Sender] /\ snd'["server"] = snd["server"]
        /\ snd'["viewer"] = d
    BY <1>1, <2>1
  <2>3. <<>> \in Seq(File)
    OBVIOUS
  <2> QED
    BY <2>1, <2>2, <2>3
<1>3. ASSUME MoreFiles, NEW k \in Skipping(Tail(files)), k < Len(files) - 1,
             OfferFirst(Tail(files), left, out, d, k), timer' = TRUE
      PROVE  /\ files' \in Seq(File) /\ pending' \in BOOLEAN /\ timer' \in BOOLEAN
             /\ snd' \in [Side -> Sender] /\ snd'["server"] = snd["server"]
             /\ snd'["viewer"].on = d.on
             /\ pending' = pending
             /\ snd'["viewer"].sums = None /\ snd'["viewer"].offset = 0
             /\ \E f \in File : /\ real["viewer"][f] \in Data
                                /\ Reply("viewer", left, out \o Offer(f))
  <2>1. PICK fs \in Seq(File) : fs = Tail(files) /\ Len(fs) = Len(files) - 1
    <3>1. files # <<>>
      BY <1>1, <1>3 DEF MoreFiles
    <3> QED
      BY <1>1, <3>1, HeadTailProperties
  <2>2. /\ SubSeq(fs, k + 1, Len(fs)) \in Seq(File)
        /\ fs[k + 1] \in File /\ real["viewer"][fs[k + 1]] \in Data
    BY <1>3, <2>1, Skipped
  <2>3. PICK e \in Sender : e = Opened(d, None) /\ e.on = d.on /\ e.sums = None
                            /\ e.offset = 0
    <3>1. None \in Content
      BY DEF Content
    <3> QED
      BY <3>1, OpenedFact
  <2> QED
    BY <1>1, <1>3, <2>1, <2>2, <2>3 DEF OfferFirst, Offer
<1> QED
  BY <1>2, <1>3 DEF OfferNextFile
(* A sender sends what it sent already, and a packet, or the end.          *)
LEMMA StillReading ==
    ASSUME NEW d \in Sender, Reading(d), AtEnd(d)
    PROVE  /\ [d EXCEPT !.eof = TRUE] \in Sender /\ Reading([d EXCEPT !.eof = TRUE])
           /\ [d EXCEPT !.eof = TRUE].data = d.data
           /\ [d EXCEPT !.eof = TRUE].sums = d.sums
           /\ [d EXCEPT !.eof = TRUE].pos = d.pos
           /\ [d EXCEPT !.eof = TRUE].on = d.on
           /\ [d EXCEPT !.eof = TRUE].error = d.error
<1>1. PICK e : e = [d EXCEPT !.eof = TRUE]
  OBVIOUS
<1>2. /\ e \in Sender /\ e.data = d.data /\ e.sums = d.sums /\ e.pos = d.pos
      /\ e.on = d.on /\ e.error = d.error /\ e.offset = d.offset
  BY <1>1 DEF Sender
<1>3. Reading(e)
  BY <1>2 DEF Reading, AtEnd
<1> QED
  BY <1>1, <1>2, <1>3

LEMMA EndedFact ==
    ASSUME NEW d \in Sender
    PROVE  /\ Ended(d) \in Sender /\ ~ Ended(d).on /\ Ended(d).data = d.data
           /\ Ended(d).sums = d.sums /\ Ended(d).pos = d.pos
           /\ Ended(d).eof = d.eof /\ Ended(d).error = d.error
  BY DEF Ended, Sender

LEMMA ServerSends ==
    ASSUME chan \in [Side -> Seq(Item)], snd \in [Side -> Sender],
           NEW r, r.pos \in Nat, NEW tmp, NEW left \in Seq(Item), NEW d \in Sender,
           chan["viewer"] \in Chunked, d.on, Reading(d),
           Arriving(r, tmp, d.data, d.sums, chan["viewer"]),
           d.pos = r.pos + Len(chan["viewer"]),
           ServerChunk(d, left, 0)
    PROVE  /\ chan' \in [Side -> Seq(Item)] /\ chan'["server"] = left
           /\ snd' \in [Side -> Sender] /\ snd'["viewer"] = snd["viewer"]
           /\ posted' \in 0 .. 1
           /\ \/ /\ d.error /\ posted' = 0
                 /\ snd'["server"] = Ended(d)
                 /\ chan'["viewer"] = chan["viewer"] \o Bare("abort")
              \/ /\ d.eof /\ ~ d.error /\ posted' = 0
                 /\ snd'["server"] = Ended(d)
                 /\ chan'["viewer"] = chan["viewer"] \o Bare("endOfFile")
              \/ /\ ~ d.error /\ posted' = 1
                 /\ snd'["server"].on /\ ~ snd'["server"].error
                 /\ chan'["viewer"] \in Chunked
                 /\ Reading(snd'["server"])
                 /\ Arriving(r, tmp, snd'["server"].data, snd'["server"].sums,
                             chan'["viewer"])
                 /\ snd'["server"].pos = r.pos + Len(chan'["viewer"])
<1>1. PICK p \in Chunked : p = chan["viewer"]
  OBVIOUS
<1>2. /\ \A e \in {"abort", "endOfFile"} : Bare(e) \in Seq(Item)
      /\ <<>> \in Seq(Item) /\ p \o <<>> = p /\ Len(p) \in Nat
  BY Messages, Packets, Behind DEF Bare, Chunked
<1>3. ASSUME NEW e \in Sender, snd' = [snd EXCEPT !["server"] = e]
      PROVE  /\ snd' \in [Side -> Sender] /\ snd'["viewer"] = snd["viewer"]
             /\ snd'["server"] = e
  BY <1>3 DEF Side
<1>4. CASE d.eof \/ d.error
  <2>1. PICK e \in {"abort", "endOfFile"} :
          /\ e = IF d.error THEN "abort" ELSE "endOfFile"
          /\ Reply("server", left, Bare(e))
          /\ snd' = [snd EXCEPT !["server"] = Ended(d)] /\ posted' = 0
    BY <1>4 DEF ServerChunk
  <2>2. /\ chan' \in [Side -> Seq(Item)]
        /\ chan'["server"] = left /\ chan'["viewer"] = chan["viewer"] \o Bare(e)
    BY <1>2, <2>1, ServerReplies
  <2>3. /\ snd' \in [Side -> Sender] /\ snd'["viewer"] = snd["viewer"]
        /\ snd'["server"] = Ended(d)
    BY <1>3, <2>1, EndedFact
  <2>4. CASE d.error
    <3>1. e = "abort"
      BY <2>1, <2>4
    <3> QED
      BY <2>1, <2>2, <2>3, <2>4, <3>1
  <2>5. CASE ~ d.error
    <3>1. e = "endOfFile" /\ d.eof
      BY <1>4, <2>1, <2>5
    <3> QED
      BY <2>1, <2>2, <2>3, <2>5, <3>1
  <2> QED
    BY <2>4, <2>5
<1>5. CASE ~ (d.eof \/ d.error) /\ AtEnd(d)
  <2>1. PICK e : e = [d EXCEPT !.eof = TRUE]
    OBVIOUS
  <2>2. /\ e \in Sender /\ Reading(e) /\ e.data = d.data /\ e.sums = d.sums
        /\ e.pos = d.pos /\ e.on /\ ~ e.error
    BY <1>5, <2>1, StillReading
  <2>3. /\ Reply("server", left, <<>>) /\ posted' = 1
        /\ snd' = [snd EXCEPT !["server"] = e]
    BY <1>5, <2>1 DEF ServerChunk
  <2>4. /\ chan' \in [Side -> Seq(Item)]
        /\ chan'["server"] = left /\ chan'["viewer"] = p
    BY <1>1, <1>2, <2>3, ServerReplies
  <2>5. /\ snd' \in [Side -> Sender] /\ snd'["viewer"] = snd["viewer"]
        /\ snd'["server"] = e
    BY <1>3, <2>2, <2>3
  <2> QED
    BY <1>1, <1>5, <2>2, <2>3, <2>4, <2>5
<1>6. CASE ~ (d.eof \/ d.error) /\ ~ AtEnd(d)
  <2>1. PICK c \in Chunks : /\ Chunk(d) = <<c>>
                            /\ Stands(c, d.data, d.sums, d.pos + 1)
    BY <1>6, ChunkRead
  <2>2. PICK e \in Sender :
          /\ e = HasRead(d) /\ Reading(e) /\ e.pos = d.pos + 1 /\ e.data = d.data
          /\ e.sums = d.sums /\ e.on /\ ~ e.error
    BY <1>6, ChunkRead
  <2>3. /\ Reply("server", left, <<c>>) /\ posted' = 1
        /\ snd' = [snd EXCEPT !["server"] = e]
    BY <1>6, <2>1, <2>2 DEF ServerChunk
  <2>4. /\ p \o <<c>> \in Chunked /\ Len(p \o <<c>>) = Len(p) + 1
        /\ <<c>> \in Seq(Item)
    <3>1. c \in Item
      BY Messages
    <3> QED
      BY <3>1, MorePackets
  <2>5. /\ chan' \in [Side -> Seq(Item)]
        /\ chan'["server"] = left /\ chan'["viewer"] = p \o <<c>>
    BY <1>1, <2>3, <2>4, ServerReplies
  <2>6. /\ snd' \in [Side -> Sender] /\ snd'["viewer"] = snd["viewer"]
        /\ snd'["server"] = e
    BY <1>3, <2>3
  <2>7. Arriving(r, tmp, d.data, d.sums, p \o <<c>>)
    <3>1. d.pos < Len(d.data)
      BY <1>6 DEF AtEnd, Reading, Sender, Data
    <3>2. d.pos = r.pos + Len(p)
      BY <1>1
    <3> QED
      BY <1>1, <2>1, <3>1, <3>2, PacketSent
  <2>8. e.pos = r.pos + Len(p \o <<c>>)
    <3>1. PICK m \in Nat, n \in Nat : m = r.pos /\ n = Len(p)
      BY <1>2
    <3>2. e.pos = m + n + 1
      BY <1>1, <2>2, <3>1
    <3>3. PICK l \in Nat : l = Len(p \o <<c>>) /\ l = n + 1
      BY <2>4, <3>1
    <3>4. m + n + 1 = m + l
      BY ONLY <3>3, m \in Nat, n \in Nat
    <3> QED
      BY <3>1, <3>2, <3>3, <3>4
  <2> QED
    BY <1>6, <2>2, <2>3, <2>4, <2>5, <2>6, <2>7, <2>8
<1> QED
  BY <1>4, <1>5, <1>6
-----------------------------------------------------------------------------
(* One step at a time: what the user does, and what may happen.            *)

(* The user starts a transfer when nothing is under way.                   *)
LEMMA NothingUnderWay ==
    ASSUME IInv, ~ pending, posted = 0, \A s \in Side : chan[s] = <<>>
    PROVE  Idle
<1>1. chan["viewer"] = <<>> /\ chan["server"] = <<>>
  BY DEF Side
<1>2. \A p \in Chunked, e \in {"endOfFile", "abort"} : ~ UploadEnds(p, e)
  <2>1. ASSUME NEW p \in Chunked, NEW e \in {"endOfFile", "abort"}, UploadEnds(p, e)
        PROVE  FALSE
    <3>1. PICK q \in Seq(Item) : chan["server"] = p \o (Bare(e) \o q)
      <4>1. Bare("listRequest") \in Seq(Item)
        BY Messages, Packets DEF Bare
      <4> QED
        BY <2>1, <4>1 DEF UploadEnds
    <3> QED
      BY <1>1, <3>1, NothingThere
  <2> QED
    BY <2>1
<1>3. ~ Stuck
  BY <1>1 DEF Stuck, Gets
<1>4. ~ Downloading /\ ~ Uploading
  BY DEF Downloading, Downloads, Uploading
<1>5. \A f \in File : /\ ~ Requested(f) /\ ~ Answered(f) /\ ~ Accepted(f)
                      /\ ~ Offered(f) /\ ~ Allowed(f)
  BY DEF Requested, Answered, Accepted, Offered, Allowed, Downloads
<1>6. \A p \in Chunked : ~ DownloadEnds(p)
  BY DEF DownloadEnds, Downloads
<1> QED
  BY <1>2, <1>3, <1>4, <1>5, <1>6, Here DEF Phase

LEMMA Typed ==
    ASSUME TransferTypeOK
    PROVE  /\ real \in [Side -> [File -> Content]] /\ temp \in [Side -> [File -> Content]]
           /\ chan \in [Side -> Seq(Item)]
           /\ snd \in [Side -> Sender] /\ rcv \in [Side -> Receiver]
           /\ userAborted \in [Side -> BOOLEAN]
           /\ posted \in 0 .. 1
           /\ timer \in BOOLEAN /\ pending \in BOOLEAN /\ abort \in BOOLEAN
           /\ aborted \in BOOLEAN /\ old \in BOOLEAN /\ enabled \in BOOLEAN
           /\ strayed \in BOOLEAN
           /\ files \in Seq(File)
           /\ jobs \in 0 .. MaxJobs /\ breaks \in 0 .. MaxBreaks
           /\ "server" \in Side /\ "viewer" \in Side
  BY DEF TransferTypeOK, Side

LEMMA DownloadStep ==
    ASSUME TransferAssumption, IInv, Download, ~ strayed'
    PROVE  IInv'
<1>12. /\ posted = 0 /\ chan["viewer"] = <<>> /\ chan["server"] = <<>>
       /\ strayed' \in BOOLEAN
  <2>1. /\ posted \in 0 .. 1 /\ strayed \in BOOLEAN
        /\ strayed' = (strayed \/ UnderWay)
    BY Here, Typed DEF Download
  <2>2. ~ UnderWay /\ strayed' \in BOOLEAN
    BY <2>1
  <2>3. ~ (posted > 0)
    BY <2>2 DEF UnderWay
  <2>4. chan["viewer"] = <<>> /\ chan["server"] = <<>>
    BY <2>2 DEF UnderWay, Side
  <2> QED
    BY <2>1, <2>2, <2>3, <2>4
<1>1. Idle
  BY <1>12, NothingUnderWay DEF Download, Side
<1>2. PICK fs \in Lists :
        /\ files' = fs
        /\ Reply("viewer", chan["viewer"], Packet("request", "ok", fs[1]))
  BY DEF Download
<1>3. fs \in Seq(File) /\ fs[1] \in File
  <2>1. fs \in Seq(File) /\ fs # <<>>
    BY DEF TransferAssumption
  <2> QED
    BY <2>1, EmptySeq, ElementOfSeq
<1>4. PICK f \in File : f = fs[1]
  BY <1>3
<1>5. Request(f) \in Seq(Item)
  BY Messages, Packets DEF Request
<1>6. /\ chan' \in [Side -> Seq(Item)]
      /\ chan'["viewer"] = chan["viewer"]
      /\ chan'["server"] = chan["server"] \o Request(f)
  BY <1>2, <1>4, <1>5, Here, ViewerReplies DEF Request
<1>8. chan'["server"] = Request(f) /\ chan'["viewer"] = <<>>
  BY <1>5, <1>6, <1>12, Behind, EmptySeq DEF Chunked
<1>9. TransferTypeOK'
  <2>1. /\ userAborted' \in [Side -> BOOLEAN] /\ jobs' \in 0 .. MaxJobs
    BY Here, Typed DEF Download, TransferAssumption
  <2>2. /\ pending' \in BOOLEAN /\ abort' \in BOOLEAN /\ aborted' \in BOOLEAN
        /\ UNCHANGED <<real, temp, snd, rcv, posted, timer, old, enabled, breaks>>
    BY DEF Download, disk
  <2> QED
    BY <1>2, <1>3, <1>6, <1>12, <2>1, <2>2, Here, Typed DEF TransferTypeOK
<1>10. Requested(f)'
  BY <1>1, <1>8 DEF Download, Idle, Requested, ServerSilent, ServerFree, ViewerFree, disk
<1>11. WholeFile' /\ ~ old' /\ (aborted' => abort')
  BY Here, RealKept DEF Download, disk
<1> QED
  BY <1>9, <1>10, <1>11 DEF IInv, Kept, Phase

LEMMA UploadStep ==
    ASSUME TransferAssumption, IInv, Upload, ~ strayed'
    PROVE  IInv'
<1>2. /\ posted = 0 /\ chan["viewer"] = <<>> /\ chan["server"] = <<>>
      /\ strayed' \in BOOLEAN
  <2>1. /\ posted \in 0 .. 1 /\ strayed \in BOOLEAN
        /\ strayed' = (strayed \/ UnderWay)
    BY Here, Typed DEF Upload
  <2>2. ~ UnderWay /\ strayed' \in BOOLEAN
    BY <2>1
  <2>3. ~ (posted > 0)
    BY <2>2 DEF UnderWay
  <2>4. chan["viewer"] = <<>> /\ chan["server"] = <<>>
    BY <2>2 DEF UnderWay, Side
  <2> QED
    BY <2>1, <2>2, <2>3, <2>4
<1>1. Idle
  BY <1>2, NothingUnderWay DEF Upload, Side
<1>3. PICK fs \in Lists : \E k \in Skipping(fs) :
        IF k < Len(fs)
        THEN /\ files' = SubSeq(fs, k + 1, Len(fs))
             /\ Reply("viewer", chan["viewer"], Packet("offer", "ok", fs[k + 1]))
             /\ snd' = [snd EXCEPT !["viewer"] = Opened(@, None)]
             /\ timer' = (timer \/ k > 0)
             /\ pending' = TRUE
        ELSE AllOffered(chan["viewer"], <<>>, snd["viewer"])
  BY DEF Upload
<1>10. PICK k \in Skipping(fs) :
        IF k < Len(fs)
        THEN /\ files' = SubSeq(fs, k + 1, Len(fs))
             /\ Reply("viewer", chan["viewer"], Packet("offer", "ok", fs[k + 1]))
             /\ snd' = [snd EXCEPT !["viewer"] = Opened(@, None)]
             /\ timer' = (timer \/ k > 0)
             /\ pending' = TRUE
        ELSE AllOffered(chan["viewer"], <<>>, snd["viewer"])
  BY <1>3
<1>4. fs \in Seq(File)
  BY DEF TransferAssumption
<1>5. /\ userAborted' \in [Side -> BOOLEAN] /\ jobs' \in 0 .. MaxJobs
      /\ abort' \in BOOLEAN /\ aborted' \in BOOLEAN /\ ~ aborted'
      /\ UNCHANGED real /\ UNCHANGED temp /\ UNCHANGED rcv /\ UNCHANGED posted
      /\ UNCHANGED old /\ UNCHANGED enabled /\ UNCHANGED breaks
  <2>1. userAborted' \in [Side -> BOOLEAN] /\ jobs' \in 0 .. MaxJobs
    BY Here, Typed, SMTT(30) DEF Upload, TransferAssumption
  <2> QED
    BY <2>1 DEF Upload, disk
<1>6. WholeFile' /\ ~ old' /\ (aborted' => abort')
  BY <1>5, Here, RealKept
<1>7. ASSUME files' \in Seq(File), chan' \in [Side -> Seq(Item)],
             snd' \in [Side -> Sender], timer' \in BOOLEAN, pending' \in BOOLEAN
      PROVE  Kept'
  BY <1>2, <1>5, <1>6, <1>7, Here, Typed DEF TransferTypeOK, Kept
<1>8. CASE k < Len(fs)
  <2>1. PICK f \in File : f = fs[k + 1] /\ real["viewer"][f] \in Data
    BY <1>4, <1>8, Here, Skipped
  <2>2. files' \in Seq(File)
    <3>1. files' = SubSeq(fs, k + 1, Len(fs))
      BY <1>10, <1>8
    <3> QED
      BY <1>4, <3>1, Here, Skipped
  <2>3. Offer(f) \in Seq(Item)
    BY Messages, Packets DEF Offer
  <2>4. Reply("viewer", chan["viewer"], Offer(f))
    BY <1>10, <1>8, <2>1 DEF Offer
  <2>5. /\ chan' \in [Side -> Seq(Item)]
        /\ chan'["viewer"] = <<>> /\ chan'["server"] = Offer(f)
    <3>1. /\ chan' \in [Side -> Seq(Item)] /\ chan'["viewer"] = chan["viewer"]
          /\ chan'["server"] = chan["server"] \o Offer(f)
      BY <2>3, <2>4, Here, ViewerReplies
    <3> QED
      BY <1>2, <2>3, <3>1, ConcatEmptySeq
  <2>6. PICK d \in Sender :
          /\ d = Opened(snd["viewer"], None) /\ d.on = snd["viewer"].on
          /\ d.sums = None /\ d.offset = 0
    <3>1. None \in Content
      BY DEF Content
    <3> QED
      BY <3>1, Here, OpenedFact
  <2>7. snd' = [snd EXCEPT !["viewer"] = d]
    BY <1>10, <1>8, <2>6
  <2>8. /\ snd' \in [Side -> Sender] /\ snd'["viewer"] = d
        /\ snd'["server"] = snd["server"]
    BY <2>7, Here
  <2>9. timer' \in BOOLEAN
    <3>1. timer' = (timer \/ k > 0)
      BY <1>10, <1>8
    <3> QED
      BY <3>1, Zenon
  <2>10. pending' \in BOOLEAN /\ pending'
    BY <1>10, <1>8
  <2>11. Kept'
    BY <1>7, <2>2, <2>5, <2>8, <2>9, <2>10
  <2>12. Offered(f)'
    BY <1>1, <1>5, <2>1, <2>5, <2>6, <2>8, <2>10
    DEF Idle, Offered, Uploads, ServerSilent, ServerFree, ViewerFree, Offers
  <2> QED
    BY <2>11, <2>12 DEF IInv, Phase
<1>9. CASE ~ k < Len(fs)
  <2>1. AllOffered(chan["viewer"], <<>>, snd["viewer"])
    BY <1>10, <1>9
  <2>2. Bare("listRequest") \in Seq(Item)
    BY Messages, Packets DEF Bare
  <2>3. <<>> \o Bare("listRequest") = Bare("listRequest")
    BY <2>2, ConcatEmptySeq
  <2>4. /\ chan' \in [Side -> Seq(Item)]
        /\ chan'["viewer"] = <<>> /\ chan'["server"] = Bare("listRequest")
    <3>1. Reply("viewer", chan["viewer"], Bare("listRequest"))
      BY <2>1, <2>3 DEF AllOffered
    <3>2. /\ chan' \in [Side -> Seq(Item)] /\ chan'["viewer"] = chan["viewer"]
          /\ chan'["server"] = chan["server"] \o Bare("listRequest")
      BY <2>2, <3>1, Here, ViewerReplies
    <3> QED
      BY <1>2, <2>3, <3>2
  <2>5. snd' \in [Side -> Sender] /\ snd' = snd
    BY <2>1, Here DEF AllOffered
  <2>6. /\ files' \in Seq(File) /\ timer' \in BOOLEAN /\ pending' \in BOOLEAN
        /\ ~ pending'
    <3>1. files' = <<>> /\ timer' = FALSE /\ pending' = FALSE
      BY <2>1 DEF AllOffered
    <3>2. timer' \in BOOLEAN /\ pending' \in BOOLEAN /\ ~ pending'
      BY <3>1
    <3>3. <<>> \in Seq(File)
      OBVIOUS
    <3> QED
      BY <3>1, <3>2, <3>3
  <2>7. Kept'
    BY <1>7, <2>4, <2>5, <2>6
  <2>8. Idle'
    BY <1>1, <1>5, <2>4, <2>5, <2>6
    DEF Idle, ServerSilent, ServerFree, ViewerFree
  <2> QED
    BY <2>7, <2>8 DEF IInv, Phase
<1> QED
  BY <1>8, <1>9

LEMMA AbortStep ==
    ASSUME IInv, Abort
    PROVE  IInv'
<1>1. /\ UNCHANGED real /\ UNCHANGED temp /\ UNCHANGED chan /\ UNCHANGED snd
      /\ UNCHANGED rcv /\ UNCHANGED posted /\ UNCHANGED timer /\ UNCHANGED pending
      /\ UNCHANGED files /\ UNCHANGED aborted /\ UNCHANGED old
      /\ UNCHANGED enabled /\ UNCHANGED jobs /\ UNCHANGED breaks
      /\ UNCHANGED strayed /\ abort' \in BOOLEAN /\ abort'
      /\ userAborted' = [userAborted EXCEPT !["viewer"] = TRUE]
  BY DEF Abort, disk, counters
<1>2. TransferTypeOK'
  <2>1. userAborted' \in [Side -> BOOLEAN]
    BY <1>1, Here, Typed
  <2> QED
    BY <1>1, <2>1, Here, Typed DEF TransferTypeOK
<1>3. Phase'
  BY <1>1, Here, Steady
<1>4. WholeFile'
  BY <1>1, Here, RealKept
<1> QED
  BY <1>1, <1>2, <1>3, <1>4, Here DEF IInv, Kept

LEMMA DisableStep ==
    ASSUME IInv, Disable
    PROVE  IInv'
<1>1. /\ UNCHANGED real /\ UNCHANGED temp /\ UNCHANGED chan /\ UNCHANGED snd
      /\ UNCHANGED rcv /\ UNCHANGED posted /\ UNCHANGED timer /\ UNCHANGED pending
      /\ UNCHANGED files /\ UNCHANGED abort /\ UNCHANGED aborted /\ UNCHANGED old
      /\ UNCHANGED jobs /\ UNCHANGED breaks /\ UNCHANGED userAborted
      /\ UNCHANGED strayed
      /\ enabled' \in BOOLEAN /\ ~ enabled'
  BY DEF Disable, disk, viewerVars
<1>2. TransferTypeOK'
  BY <1>1, Here, Typed DEF TransferTypeOK
<1>3. Phase'
  BY <1>1, Here, Steady
<1>4. WholeFile'
  BY <1>1, Here, RealKept
<1> QED
  BY <1>1, <1>2, <1>3, <1>4, Here DEF IInv, Kept

LEMMA StutterStep ==
    ASSUME IInv, UNCHANGED vars
    PROVE  IInv'
<1>1. /\ UNCHANGED real /\ UNCHANGED temp /\ UNCHANGED chan /\ UNCHANGED snd
      /\ UNCHANGED rcv /\ UNCHANGED posted /\ UNCHANGED timer /\ UNCHANGED pending
      /\ UNCHANGED files /\ UNCHANGED abort /\ UNCHANGED aborted /\ UNCHANGED old
      /\ UNCHANGED jobs /\ UNCHANGED breaks /\ UNCHANGED userAborted
      /\ UNCHANGED strayed
      /\ UNCHANGED enabled
  BY DEF vars
<1>2. TransferTypeOK'
  BY <1>1, Here, Typed DEF TransferTypeOK
<1>3. Phase'
  BY <1>1, Here, Steady
<1>4. WholeFile'
  BY <1>1, Here, RealKept
<1> QED
  BY <1>1, <1>2, <1>3, <1>4, Here DEF IInv, Kept

(* The connection breaks.                                                  *)
LEMMA Idles ==
    IdleSender \in Sender /\ IdleReceiver \in Receiver
  BY DEF IdleSender, IdleReceiver, Sender, Receiver, Content

LEMMA BreakStep ==
    ASSUME TransferAssumption, IInv, Break
    PROVE  IInv'
<1>1. /\ chan' \in [Side -> Seq(Item)] /\ chan'["server"] = <<>>
      /\ chan'["viewer"] = <<>>
      /\ snd' \in [Side -> Sender] /\ ~ snd'["server"].on /\ ~ snd'["viewer"].on
      /\ rcv' \in [Side -> Receiver] /\ ~ rcv'["server"].on /\ ~ rcv'["viewer"].on
  <2>1. <<>> \in Seq(Item) /\ ~ IdleSender.on /\ ~ IdleReceiver.on
    BY DEF IdleSender, IdleReceiver
  <2> QED
    BY <2>1, Idles, Here DEF Break
<1>2. /\ userAborted' \in [Side -> BOOLEAN] /\ breaks' \in 0 .. MaxBreaks
      /\ posted' \in 0 .. 1 /\ files' \in Seq(File)
      /\ posted' = 0
  BY Here, Typed DEF Break, TransferAssumption
<1>3. /\ timer' \in BOOLEAN /\ pending' \in BOOLEAN /\ abort' \in BOOLEAN
      /\ aborted' \in BOOLEAN /\ old' \in BOOLEAN
      /\ ~ pending' /\ ~ aborted' /\ ~ old'
      /\ UNCHANGED real /\ UNCHANGED temp /\ UNCHANGED enabled /\ UNCHANGED jobs
      /\ UNCHANGED strayed
  BY DEF Break, disk
<1>4. TransferTypeOK'
  BY <1>1, <1>2, <1>3, Here, Typed DEF TransferTypeOK
<1>5. Idle'
  BY <1>1, <1>2, <1>3 DEF Idle, ServerSilent, ServerFree, ViewerFree
<1>6. WholeFile'
  BY <1>3, Here, RealKept
<1> QED
  BY <1>3, <1>4, <1>5, <1>6 DEF IInv, Kept, Phase
-----------------------------------------------------------------------------
(* The steps of the server.                                                *)

LEMMA KeptByServer ==
    ASSUME IInv, UNCHANGED viewerVars, UNCHANGED counters, WholeFile',
           real' \in [Side -> [File -> Content]],
           temp' \in [Side -> [File -> Content]],
           chan' \in [Side -> Seq(Item)], snd' \in [Side -> Sender],
           rcv' \in [Side -> Receiver], userAborted' \in [Side -> BOOLEAN],
           posted' \in 0 .. 1
    PROVE  Kept' /\ pending' = pending /\ aborted' = aborted /\ enabled' = enabled
<1>1. /\ UNCHANGED timer /\ UNCHANGED pending
      /\ UNCHANGED files /\ UNCHANGED abort /\ UNCHANGED aborted /\ UNCHANGED old
      /\ UNCHANGED jobs /\ UNCHANGED breaks /\ UNCHANGED enabled
      /\ UNCHANGED strayed
  BY DEF viewerVars, counters
<1>2. TransferTypeOK'
  BY <1>1, Here, Typed DEF TransferTypeOK
<1> QED
  BY <1>1, <1>2, Here DEF Kept

LEMMA Payload ==
    ASSUME NEW x \in File \cup Block \cup {None}, NEW q \in Seq(Item)
    PROVE  /\ Packet("payload", "ok", x) \o q \in Seq(Item)
           /\ Packet("payload", "ok", x) \o q # <<>>
           /\ Head(Packet("payload", "ok", x) \o q).type = "payload"
<1>1. PICK m \in Item : m = Msg("payload", "ok", x) /\ m.type = "payload"
  BY Messages, Fields
<1> QED
  BY <1>1, FirstMessage DEF Packet

LEMMA Empties ==
    /\ <<>> \in Seq(Item) /\ <<>> \in Chunked
    /\ \A q \in Seq(Item) : <<>> \o q = q /\ q \o <<>> = q
  BY ConcatEmptySeq DEF Chunked

LEMMA ServeOfferStep ==
    ASSUME TransferAssumption, IInv, ServeOffer
    PROVE  IInv'
<1>1. PICK f \in File : /\ Offered(f) /\ Body("server") = f
                        /\ Rest("server") = <<>>
  BY ServerGets DEF ServeOffer
<1>2. /\ UNCHANGED real /\ UNCHANGED snd /\ UNCHANGED posted
      /\ UNCHANGED viewerVars /\ UNCHANGED counters
  BY DEF ServeOffer
<1>3. WholeFile'
  BY <1>2, Here, RealKept
<1>4. chan["viewer"] = <<>>
  BY <1>1 DEF Offered, Uploads
<1>5. CASE /\ ~ enabled
           /\ Reply("server", PayloadLeft("server"), <<>>)
           /\ UNCHANGED <<temp, rcv, userAborted>>
  <2>1. PICK q : q = Packet("payload", "ok", f) \o <<>>
    OBVIOUS
  <2>2. q \in Seq(Item) /\ q # <<>> /\ Head(q).type = "payload"
    BY <2>1, Empties, Payload
  <2>3. /\ chan' \in [Side -> Seq(Item)] /\ chan'["server"] = q
        /\ chan'["viewer"] = <<>>
    <3>1. PayloadLeft("server") = q
      BY <1>1, <2>1 DEF PayloadLeft
    <3> QED
      BY <1>4, <1>5, <2>2, <3>1, Empties, Here, ServerReplies
  <2>4. Kept' /\ pending' = pending /\ aborted' = aborted /\ enabled' = enabled
    BY <1>2, <1>3, <1>5, <2>3, Here, Typed, KeptByServer
  <2>5. Stuck'
    BY <1>1, <1>2, <1>5, <2>2, <2>3, <2>4
    DEF Stuck, Offered, Uploads, ServerSilent, Gets
  <2> QED
    BY <2>4, <2>5 DEF IInv, Phase
<1>6. CASE /\ enabled
           /\ Reply("server", Rest("server"), Packet("accept", "fail", f))
           /\ UNCHANGED <<temp, rcv, userAborted>>
  <2>1. Packet("accept", "fail", f) \in Seq(Item)
    BY Messages, Packets
  <2>2. /\ chan' \in [Side -> Seq(Item)] /\ chan'["server"] = <<>>
        /\ chan'["viewer"] = Packet("accept", "fail", f)
    BY <1>1, <1>4, <1>6, <2>1, Empties, Here, ServerReplies
  <2>3. Kept' /\ pending' = pending /\ aborted' = aborted /\ enabled' = enabled
    BY <1>2, <1>3, <1>6, <2>2, Here, Typed, KeptByServer
  <2>4. Allowed(f)'
    BY <1>1, <1>2, <1>6, <2>2, <2>3
    DEF Offered, Uploads, Allowed, ServerSilent, ServerFree, ViewerFree
  <2> QED
    BY <2>3, <2>4 DEF IInv, Phase
<1>7. CASE /\ enabled
           /\ OpenTemp("server", f)
           /\ Reply("server", Rest("server"), Sums("server", f) \o Packet("accept", "ok", f))
           /\ rcv' = [rcv EXCEPT !["server"] = Receiving(f)]
           /\ userAborted' = [userAborted EXCEPT !["server"] = FALSE]
  <2>1. PICK a \in Seq(Item) : a = Packet("accept", "ok", f)
    BY Messages, Packets
  <2>2. Receiving(f) \in Receiver
    BY DEF Receiving, Receiver
  <2>3. PICK c : c = IF temp["server"][f] = None THEN <<>> ELSE temp["server"][f]
    OBVIOUS
  <2>4. c \in Data /\ c \in Content
    BY <2>3, Here DEF Content, Data
  <2>5. /\ temp' \in [Side -> [File -> Content]] /\ temp'["server"][f] = c
    BY <1>7, <2>3, <2>4, Here DEF OpenTemp
  <2>6. /\ rcv' \in [Side -> Receiver] /\ rcv'["server"] = Receiving(f)
        /\ rcv'["viewer"] = rcv["viewer"]
    BY <1>7, <2>2, Here
  <2>7. userAborted' \in [Side -> BOOLEAN]
    BY <1>7, Here, Typed
  <2>8. CASE temp["server"][f] = None
    <3>1. Sums("server", f) \o a = a
      BY <2>8, Empties DEF Sums
    <3>2. /\ chan' \in [Side -> Seq(Item)] /\ chan'["server"] = <<>>
          /\ chan'["viewer"] = Packet("accept", "ok", f)
      BY <1>1, <1>4, <1>7, <2>1, <3>1, Empties, Here, ServerReplies, ZenonT(40)
    <3>3. Kept' /\ pending' = pending /\ aborted' = aborted /\ enabled' = enabled
      BY <1>2, <1>3, <2>5, <2>6, <2>7, <3>2, Here, Typed, KeptByServer
    <3>4. Allowed(f)'
      BY <1>1, <1>2, <2>4, <2>5, <2>6, <3>2, <3>3
      DEF Offered, Offers, Uploads, Allowed, ServerSilent, ViewerFree
    <3> QED
      BY <3>3, <3>4 DEF IInv, Phase
  <2>9. CASE temp["server"][f] # None
    <3>1. c = temp["server"][f]
      BY <2>3, <2>9
    <3>2. PICK o \in Seq(Item) : o = Packet("checksums", "ok", c) \o a
      <4>1. Packet("checksums", "ok", c) \in Seq(Item)
        BY <2>4, Messages, Packets
      <4> QED
        BY <4>1, ConcatProperties
    <3>3. Sums("server", f) \o a = o
      BY <2>9, <3>1, <3>2 DEF Sums
    <3>4. /\ chan' \in [Side -> Seq(Item)] /\ chan'["server"] = <<>>
          /\ chan'["viewer"] = o
      <4>1. Reply("server", <<>>, o)
        BY <1>1, <1>7, <2>1, <3>3
      <4> QED
        BY <1>4, <4>1, Empties, Here, ServerReplies
    <3>5. Kept' /\ pending' = pending /\ aborted' = aborted /\ enabled' = enabled
      BY <1>2, <1>3, <2>5, <2>6, <2>7, <3>4, Here, Typed, KeptByServer
    <3>6. Allowed(f)'
      BY <1>1, <1>2, <2>1, <2>4, <2>5, <2>6, <3>2, <3>4, <3>5
      DEF Offered, Offers, Uploads, Allowed, ServerSilent, ViewerFree
    <3> QED
      BY <3>5, <3>6 DEF IInv, Phase
  <2> QED
    BY <2>8, <2>9
<1> QED
  BY <1>1, <1>5, <1>6, <1>7 DEF ServeOffer

LEMMA ServeRequestStep ==
    ASSUME TransferAssumption, IInv, ServeRequest
    PROVE  IInv'
<1>1. PICK f \in File : /\ Requested(f) /\ Body("server") = f
                        /\ Rest("server") = <<>>
  BY ServerGets DEF ServeRequest
<1>2. /\ UNCHANGED real /\ UNCHANGED temp /\ UNCHANGED rcv /\ UNCHANGED posted
      /\ UNCHANGED userAborted /\ UNCHANGED viewerVars /\ UNCHANGED counters
  BY DEF ServeRequest, disk
<1>3. WholeFile'
  BY <1>2, Here, RealKept
<1>4. chan["viewer"] = <<>>
  BY <1>1 DEF Requested
<1>5. CASE /\ ~ enabled
           /\ Reply("server", Rest("server"), <<>>)
           /\ UNCHANGED snd
  <2>1. /\ chan' \in [Side -> Seq(Item)] /\ chan'["server"] = <<>>
        /\ chan'["viewer"] = <<>>
    BY <1>1, <1>4, <1>5, Empties, Here, ServerReplies
  <2>2. Kept' /\ pending' = pending /\ aborted' = aborted /\ enabled' = enabled
    BY <1>2, <1>3, <1>5, <2>1, Here, Typed, KeptByServer
  <2>3. Idle'
    BY <1>1, <1>2, <1>5, <2>1, <2>2
    DEF Requested, Idle, ServerSilent, ServerFree, ViewerFree
  <2> QED
    BY <2>2, <2>3 DEF IInv, Phase
<1>6. CASE /\ enabled
           /\ Reply("server", Rest("server"), Packet("header", "fail", f))
           /\ snd' = [snd EXCEPT !["server"].sums = None, !["server"].offset = 0]
  <2>1. Packet("header", "fail", f) \in Seq(Item)
    BY Messages, Packets
  <2>2. /\ chan' \in [Side -> Seq(Item)] /\ chan'["server"] = <<>>
        /\ chan'["viewer"] = Packet("header", "fail", f)
    BY <1>1, <1>4, <1>6, <2>1, Empties, Here, ServerReplies
  <2>3. /\ snd' \in [Side -> Sender] /\ snd'["viewer"] = snd["viewer"]
        /\ snd'["server"].on = snd["server"].on
    <3>1. PICK d : d = [snd["server"] EXCEPT !.sums = None, !.offset = 0]
      OBVIOUS
    <3>2. d \in Sender /\ d.on = snd["server"].on
      BY <3>1, Here DEF Sender, Content
    <3>3. snd' = [snd EXCEPT !["server"] = d]
      BY <1>6, <3>1, Here
    <3> QED
      BY <3>2, <3>3, Here
  <2>4. Kept' /\ pending' = pending /\ aborted' = aborted /\ enabled' = enabled
    BY <1>2, <1>3, <2>2, <2>3, Here, Typed, KeptByServer
  <2>5. Answered(f)'
    BY <1>1, <1>2, <1>6, <2>2, <2>3, <2>4
    DEF Requested, Answered, Downloads, ServerSilent, ServerFree, ViewerFree
  <2> QED
    BY <2>4, <2>5 DEF IInv, Phase
<1>7. CASE /\ enabled
           /\ real["server"][f] # None
           /\ Reply("server", Rest("server"), Packet("header", "ok", f))
           /\ snd' = [snd EXCEPT !["server"] = Opened(@, real["server"][f])]
  <2>1. Packet("header", "ok", f) \in Seq(Item)
    BY Messages, Packets
  <2>2. /\ chan' \in [Side -> Seq(Item)] /\ chan'["server"] = <<>>
        /\ chan'["viewer"] = Packet("header", "ok", f)
    BY <1>1, <1>4, <1>7, <2>1, Empties, Here, ServerReplies
  <2>3. PICK c : c = real["server"][f]
    OBVIOUS
  <2>4. c \in Content /\ c \in Data /\ c \in Versions(f)
    BY <1>7, <2>3, Here DEF Content, Data, WholeFile, Versions
  <2>5. PICK d \in Sender :
          /\ d = Opened(snd["server"], c) /\ d.on = snd["server"].on
          /\ d.data = c /\ d.pos = 0 /\ d.sums = None /\ d.offset = 0
    BY <2>4, Here, OpenedFact
  <2>6. /\ snd' \in [Side -> Sender] /\ snd'["viewer"] = snd["viewer"]
        /\ snd'["server"] = d
    <3>1. snd' = [snd EXCEPT !["server"] = d]
      BY <1>7, <2>3, <2>5
    <3> QED
      BY <3>1, Here
  <2>7. Kept' /\ pending' = pending /\ aborted' = aborted /\ enabled' = enabled
    BY <1>2, <1>3, <2>2, <2>6, Here, Typed, KeptByServer
  <2>8. Answered(f)'
    <3>1. Fresh(snd'["server"], f) /\ snd'["server"].sums = None
      BY <2>4, <2>5, <2>6 DEF Fresh
    <3> QED
      BY <1>1, <1>2, <1>7, <2>2, <2>5, <2>6, <2>7, <3>1
      DEF Requested, Answered, Downloads, ServerSilent, ServerFree, ViewerFree
  <2> QED
    BY <2>7, <2>8 DEF IInv, Phase
<1> QED
  BY <1>1, <1>5, <1>6, <1>7 DEF ServeRequest

(* The checksums arrive.                                                   *)
LEMMA SumsTaken ==
    ASSUME NEW s \in Side, NEW c \in Content, snd \in [Side -> Sender],
           snd' = [snd EXCEPT ![s].sums = c]
    PROVE  /\ snd' \in [Side -> Sender]
           /\ \A t \in Side \ {s} : snd'[t] = snd[t]
           /\ snd'[s].sums = c /\ snd'[s].on = snd[s].on /\ snd'[s].pos = snd[s].pos
           /\ snd'[s].data = snd[s].data /\ snd'[s].offset = snd[s].offset
<1>1. PICK d : d = [snd[s] EXCEPT !.sums = c]
  OBVIOUS
<1>2. /\ d \in Sender /\ d.sums = c /\ d.on = snd[s].on /\ d.pos = snd[s].pos
      /\ d.data = snd[s].data /\ d.offset = snd[s].offset
  <2>1. snd[s] \in Sender
    OBVIOUS
  <2> QED
    BY <1>1, <2>1 DEF Sender
<1>3. snd' = [snd EXCEPT ![s] = d]
  BY <1>1
<1> QED
  BY <1>2, <1>3

LEMMA ServerSumsStep ==
    ASSUME TransferAssumption, IInv, GetChecksums("server")
    PROVE  IInv'
<1>1. PICK f \in File : /\ Accepted(f) /\ Body("server") = temp["viewer"][f]
                        /\ Rest("server") = Bare("header")
  BY ServerGets DEF GetChecksums
<1>2. /\ UNCHANGED real /\ UNCHANGED temp /\ UNCHANGED rcv /\ UNCHANGED posted
      /\ UNCHANGED userAborted /\ UNCHANGED viewerVars /\ UNCHANGED counters
  BY DEF GetChecksums, disk
<1>3. WholeFile'
  BY <1>2, Here, RealKept
<1>4. chan["viewer"] = <<>> /\ temp["viewer"][f] \in Data
  BY <1>1 DEF Accepted
<1>5. /\ chan' \in [Side -> Seq(Item)] /\ chan'["server"] = Bare("header")
      /\ chan'["viewer"] = <<>>
  <2>1. Bare("header") \in Seq(Item)
    BY Messages, Packets DEF Bare
  <2> QED
    BY <1>1, <1>4, <2>1, Empties, Here, ServerReplies DEF GetChecksums
<1>6. PICK c \in Content : c = temp["viewer"][f]
  BY <1>4 DEF Data, Content
<1>7. /\ snd' \in [Side -> Sender] /\ snd'["viewer"] = snd["viewer"]
      /\ snd'["server"].sums = c /\ snd'["server"].on = snd["server"].on
      /\ snd'["server"].pos = snd["server"].pos
      /\ snd'["server"].data = snd["server"].data
      /\ snd'["server"].offset = snd["server"].offset
  <2>1. snd' = [snd EXCEPT !["server"].sums = c]
    BY <1>1, <1>6 DEF GetChecksums
  <2>2. "viewer" \in Side \ {"server"}
    BY DEF Side
  <2> QED
    BY <2>1, <2>2, Here, SumsTaken
<1>8. Kept' /\ pending' = pending /\ aborted' = aborted /\ enabled' = enabled
  BY <1>2, <1>3, <1>5, <1>7, Here, Typed, KeptByServer
<1>9. Accepted(f)'
  BY <1>1, <1>2, <1>5, <1>6, <1>7, <1>8 DEF Accepted, Downloads, ServerSilent, Fresh
<1> QED
  BY <1>8, <1>9 DEF IInv, Phase
LEMMA StartedFact ==
    ASSUME NEW d \in Sender
    PROVE  /\ Started(d) \in Sender /\ Started(d).on /\ ~ Started(d).error
           /\ ~ Started(d).eof /\ Started(d).data = d.data
           /\ Started(d).sums = d.sums /\ Started(d).pos = d.pos
           /\ Started(d).offset = d.offset
  BY DEF Started, Sender

(* A sender at the start of its file.                                      *)
LEMMA ReadingStarts ==
    ASSUME NEW d \in Sender, d.data \in Data, d.pos = 0, d.offset = 0, ~ d.eof,
           d.sums = None \/ d.sums \in Data
    PROVE  Reading(d)
<1>1. Len(d.data) \in Nat
  BY DEF Data
<1>2. d.sums # None => Len(d.sums) \in Nat
  BY DEF Data
<1> QED
  BY <1>1, <1>2 DEF Reading

LEMMA ServeHeaderStep ==
    ASSUME TransferAssumption, IInv, ServeHeader
    PROVE  IInv'
<1>1. Gets("server", "header")
  BY DEF ServeHeader
<1>2. /\ UNCHANGED real /\ UNCHANGED temp /\ UNCHANGED rcv
      /\ UNCHANGED viewerVars /\ UNCHANGED counters
  BY DEF ServeHeader, disk
<1>3. WholeFile'
  BY <1>2, Here, RealKept
<1>4. CASE Size("server") = "fail"
  <2>1. /\ Reply("server", Rest("server"), <<>>)
        /\ UNCHANGED snd /\ UNCHANGED userAborted /\ UNCHANGED posted
    BY <1>4 DEF ServeHeader
  <2>2. CASE Idle /\ Rest("server") = <<>>
    <3>1. /\ chan' \in [Side -> Seq(Item)] /\ chan'["server"] = <<>>
          /\ chan'["viewer"] = chan["viewer"]
      BY <2>1, <2>2, Empties, Here, ServerReplies
    <3>2. Kept' /\ pending' = pending /\ aborted' = aborted /\ enabled' = enabled
      BY <1>2, <1>3, <2>1, <3>1, Here, Typed, KeptByServer
    <3>3. chan["viewer"] = <<>>
      BY <1>1, <2>2 DEF Idle, Gets
    <3>4. Idle'
      BY <1>2, <2>1, <2>2, <3>1, <3>2, <3>3
      DEF Idle, ServerSilent, ServerFree, ViewerFree
    <3> QED
      BY <3>2, <3>4 DEF IInv, Phase
  <2>3. ASSUME NEW f \in File, Requested(f), Rest("server") = Request(f)
        PROVE  IInv'
    <3>1. Request(f) \in Seq(Item)
      BY Messages, Packets DEF Request
    <3>2. /\ chan' \in [Side -> Seq(Item)] /\ chan'["server"] = Request(f)
          /\ chan'["viewer"] = chan["viewer"]
      BY <2>1, <2>3, <3>1, Empties, Here, ServerReplies
    <3>3. Kept' /\ pending' = pending /\ aborted' = aborted /\ enabled' = enabled
      BY <1>2, <1>3, <2>1, <3>2, Here, Typed, KeptByServer
    <3>4. Requested(f)'
      BY <1>2, <2>1, <2>3, <3>2, <3>3
      DEF Requested, ServerSilent, ServerFree, ViewerFree
    <3> QED
      BY <3>3, <3>4 DEF IInv, Phase
  <2> QED
    BY <1>1, <1>4, <2>2, <2>3, ServerGets
<1>5. CASE Size("server") = "ok"
  <2>1. PICK f \in File : Accepted(f) /\ Rest("server") = <<>>
    BY <1>1, <1>5, ServerGets
  <2>2. PICK d \in Sender :
          /\ d = Started(snd["server"]) /\ d.on /\ ~ d.error /\ ~ d.eof
          /\ d.data = snd["server"].data /\ d.sums = snd["server"].sums
          /\ d.pos = snd["server"].pos /\ d.offset = snd["server"].offset
    BY Here, StartedFact
  <2>3. /\ ServerChunk(d, <<>>, 0)
        /\ userAborted' = [userAborted EXCEPT !["server"] = FALSE]
    BY <1>5, <2>1, <2>2 DEF ServeHeader, Accepted, ServerSilent
  <2>4. PICK r \in Receiver : r = rcv["viewer"] /\ r.pos = 0 /\ r.file = f
                              /\ r.on /\ ~ r.error /\ r.pos \in Nat
    <3>1. rcv["viewer"] = Receiving(f)
      BY <2>1 DEF Accepted
    <3>2. /\ rcv["viewer"].pos = 0 /\ rcv["viewer"].file = f
          /\ rcv["viewer"].on /\ ~ rcv["viewer"].error
      BY <3>1 DEF Receiving
    <3>3. rcv["viewer"] \in Receiver
      BY Here
    <3> QED
      BY <3>2, <3>3
  <2>5. PICK c \in Data : c = temp["viewer"][f] /\ d.sums \in {None, c}
    BY <2>1, <2>2 DEF Accepted
  <2>6. /\ d.data \in Data /\ d.data \in Versions(f) /\ d.pos = 0 /\ d.offset = 0
    BY <2>1, <2>2 DEF Accepted, Fresh
  <2>7. Reading(d)
    BY <2>2, <2>5, <2>6, ReadingStarts
  <2>8. Arriving(r, c, d.data, d.sums, <<>>)
    BY <2>4, <2>5, <2>6, ArrivingStarts
  <2>9. /\ chan["viewer"] = <<>> /\ <<>> \in Chunked /\ Len(<<>>) = 0
        /\ d.pos = r.pos + Len(<<>>)
    BY <2>1, <2>4, <2>6, Empties DEF Accepted
  <2>10. /\ chan' \in [Side -> Seq(Item)] /\ chan'["server"] = <<>>
         /\ snd' \in [Side -> Sender] /\ snd'["viewer"] = snd["viewer"]
         /\ posted' \in 0 .. 1 /\ posted' = 1
         /\ snd'["server"].on /\ ~ snd'["server"].error
         /\ chan'["viewer"] \in Chunked
         /\ Reading(snd'["server"])
         /\ Arriving(r, c, snd'["server"].data, snd'["server"].sums, chan'["viewer"])
         /\ snd'["server"].pos = r.pos + Len(chan'["viewer"])
    <3>1. PICK left \in Seq(Item) : left = <<>> /\ ServerChunk(d, left, 0)
      BY <2>3, Empties
    <3>2. chan \in [Side -> Seq(Item)] /\ snd \in [Side -> Sender]
      BY Here
    <3>3. /\ chan["viewer"] \in Chunked /\ r.pos \in Nat
          /\ Arriving(r, c, d.data, d.sums, chan["viewer"])
          /\ d.pos = r.pos + Len(chan["viewer"])
      BY <2>4, <2>8, <2>9
    <3>4. /\ chan' \in [Side -> Seq(Item)] /\ chan'["server"] = left
          /\ snd' \in [Side -> Sender] /\ snd'["viewer"] = snd["viewer"]
          /\ posted' \in 0 .. 1
          /\ \/ /\ d.error /\ posted' = 0 /\ snd'["server"] = Ended(d)
                /\ chan'["viewer"] = chan["viewer"] \o Bare("abort")
             \/ /\ d.eof /\ ~ d.error /\ posted' = 0 /\ snd'["server"] = Ended(d)
                /\ chan'["viewer"] = chan["viewer"] \o Bare("endOfFile")
             \/ /\ ~ d.error /\ posted' = 1
                /\ snd'["server"].on /\ ~ snd'["server"].error
                /\ chan'["viewer"] \in Chunked
                /\ Reading(snd'["server"])
                /\ Arriving(r, c, snd'["server"].data, snd'["server"].sums,
                            chan'["viewer"])
                /\ snd'["server"].pos = r.pos + Len(chan'["viewer"])
      <4>1. d.on /\ Reading(d) /\ ServerChunk(d, left, 0)
        BY <2>2, <2>7, <3>1
      <4> QED
        BY ONLY <3>2, <3>3, <4>1, ServerSends, d \in Sender, left \in Seq(Item)
    <3> QED
      BY <2>2, <3>1, <3>4
  <2>11. userAborted' \in [Side -> BOOLEAN]
    BY <2>3, Here, Typed
  <2>12. Kept' /\ pending' = pending /\ aborted' = aborted /\ enabled' = enabled
    BY <1>2, <1>3, <2>10, <2>11, Here, Typed, KeptByServer
  <2>13. Downloading'
    <3>1. Downloads' /\ ReceiverOn(rcv'["viewer"])
      BY <1>2, <2>1, <2>4, <2>10, <2>12 DEF Accepted, Downloads, ReceiverOn
    <3>2. /\ rcv'["viewer"] = r /\ temp'["viewer"][rcv'["viewer"].file] = c
      BY <1>2, <2>4, <2>5
    <3> QED
      BY <2>10, <3>1, <3>2 DEF Downloading
  <2> QED
    BY <2>12, <2>13 DEF IInv, Phase
<1> QED
  BY <1>4, <1>5 DEF ServeHeader

LEMMA SendPostedStep ==
    ASSUME TransferAssumption, IInv, SendPosted
    PROVE  IInv'
<1>1. posted > 0 /\ posted \in 0 .. 1
  BY Here, Typed DEF SendPosted
<1>2. Downloading /\ posted = 1
  <2>1. ~ ServerSilent
    BY <1>1 DEF ServerSilent
  <2> QED
    BY <2>1, Here DEF Phase, Idle, Uploading, Stuck, Uploads, Requested, Answered,
       Accepted, Offered, Allowed, DownloadEnds, UploadEnds, Downloading
<1>3. /\ UNCHANGED real /\ UNCHANGED temp /\ UNCHANGED rcv
      /\ UNCHANGED viewerVars /\ UNCHANGED counters /\ UNCHANGED userAborted
  BY DEF SendPosted, disk
<1>4. WholeFile'
  BY <1>3, Here, RealKept
<1>5. PICK r \in Receiver : r = rcv["viewer"] /\ r.on /\ ~ r.error
                            /\ r.file \in File /\ r.pos \in Nat
  BY <1>2, Here DEF Downloading, ReceiverOn, Receiver
<1>6. PICK d \in Sender : d = snd["server"] /\ d.on
  BY <1>2, Here DEF Downloading
<1>7. PICK c : c = temp["viewer"][r.file]
  OBVIOUS
<1>8. PICK p \in Chunked : p = chan["viewer"]
  BY <1>2 DEF Downloading
<1>9. /\ Reading(d) /\ Arriving(r, c, d.data, d.sums, p) /\ d.pos = r.pos + Len(p)
      /\ Downloads
      /\ \/ chan["server"] = <<>> /\ (d.error => aborted)
         \/ chan["server"] = Bare("abort") /\ aborted /\ ~ d.error
  BY <1>2, <1>5, <1>6, <1>7, <1>8 DEF Downloading
<1>10. ServerChunk(d, chan["server"], 0)
  BY <1>2, <1>6 DEF SendPosted
<1>11. /\ chan' \in [Side -> Seq(Item)] /\ chan'["server"] = chan["server"]
       /\ snd' \in [Side -> Sender] /\ snd'["viewer"] = snd["viewer"]
       /\ posted' \in 0 .. 1
       /\ \/ /\ d.error /\ posted' = 0 /\ snd'["server"] = Ended(d)
             /\ chan'["viewer"] = p \o Bare("abort")
          \/ /\ d.eof /\ ~ d.error /\ posted' = 0 /\ snd'["server"] = Ended(d)
             /\ chan'["viewer"] = p \o Bare("endOfFile")
          \/ /\ ~ d.error /\ posted' = 1
             /\ snd'["server"].on /\ ~ snd'["server"].error
             /\ chan'["viewer"] \in Chunked
             /\ Reading(snd'["server"])
             /\ Arriving(r, c, snd'["server"].data, snd'["server"].sums, chan'["viewer"])
             /\ snd'["server"].pos = r.pos + Len(chan'["viewer"])
  <2>1. PICK left \in Seq(Item) : left = chan["server"] /\ ServerChunk(d, left, 0)
    BY <1>10, Here
  <2>2. chan \in [Side -> Seq(Item)] /\ snd \in [Side -> Sender]
    BY Here
  <2>3. /\ chan["viewer"] \in Chunked /\ r.pos \in Nat /\ d.on
        /\ Reading(d) /\ Arriving(r, c, d.data, d.sums, chan["viewer"])
        /\ d.pos = r.pos + Len(chan["viewer"])
    BY <1>5, <1>6, <1>8, <1>9
  <2> QED
    BY <1>8, <2>1, <2>2, <2>3, ServerSends, ZenonT(40)
<1>12. Kept' /\ pending' = pending /\ aborted' = aborted /\ enabled' = enabled
  BY <1>3, <1>4, <1>11, Here, Typed, KeptByServer
<1>13. Downloads' /\ rcv'["viewer"] = r /\ temp'["viewer"][rcv'["viewer"].file] = c
       /\ ReceiverOn(rcv'["viewer"])
  BY <1>3, <1>5, <1>7, <1>9, <1>11, <1>12 DEF Downloads, ReceiverOn
<1>14. CASE snd'["server"] = Ended(d) /\ posted' = 0
  <2>1. PICK e \in Sender : e = snd'["server"] /\ ~ e.on /\ e.data = d.data
                            /\ e.sums = d.sums
    BY <1>14, EndedFact
  <2>2. ServerSilent'
    BY <1>14, <2>1 DEF ServerSilent
  <2>3. Arriving(r, c, e.data, e.sums, p)
    BY <1>9, <2>1
  <2>4. \/ /\ chan'["server"] = <<>> /\ aborted'
           /\ chan'["viewer"] = p \o Bare("abort")
        \/ /\ r.pos + Len(p) = Len(e.data)
           /\ \/ chan'["server"] = <<>> /\ chan'["viewer"] = p \o Bare("endOfFile")
              \/ /\ chan'["server"] = Bare("abort") /\ aborted'
                 /\ chan'["viewer"] = p \o Bare("endOfFile")
    <3>1. CASE d.error
      BY <1>9, <1>11, <1>12, <3>1
    <3>2. CASE ~ d.error
      <4>1. d.eof /\ chan'["viewer"] = p \o Bare("endOfFile")
        BY <1>11, <1>14, <3>2
      <4>2. r.pos + Len(p) = Len(e.data)
        BY <1>9, <2>1, <4>1 DEF Reading
      <4> QED
        BY <1>9, <1>11, <1>12, <3>2, <4>1, <4>2
    <3> QED
      BY <3>1, <3>2
  <2>5. DownloadEnds(p)'
    BY <1>13, <2>1, <2>2, <2>3, <2>4 DEF DownloadEnds
  <2> QED
    BY <1>12, <2>5 DEF IInv, Phase
<1>15. CASE posted' = 1
  <2>1. Downloading'
    <3>1. /\ snd'["server"].on /\ ~ snd'["server"].error
          /\ chan'["viewer"] \in Chunked /\ ~ d.error
          /\ Reading(snd'["server"])
          /\ Arriving(r, c, snd'["server"].data, snd'["server"].sums, chan'["viewer"])
          /\ snd'["server"].pos = r.pos + Len(chan'["viewer"])
      BY <1>11, <1>15
    <3>2. \/ chan'["server"] = <<>>
          \/ chan'["server"] = Bare("abort") /\ aborted'
      BY <1>9, <1>11, <1>12
    <3> QED
      BY <1>13, <1>15, <3>1, <3>2 DEF Downloading
  <2> QED
    BY <1>12, <2>1 DEF IInv, Phase
<1> QED
  BY <1>11, <1>14, <1>15
(* The server takes a packet of an upload.                                 *)
LEMMA ServerTakes ==
    ASSUME IInv, "write" \notin CanFail, ServePacket,
           NEW p \in Chunked, p # <<>>, NEW t \in Seq(Item),
           chan["server"] = p \o t, ReceiverOn(rcv["server"]),
           NEW data, NEW sums,
           enabled => Arriving(rcv["server"], temp["server"][rcv["server"].file],
                               data, sums, p)
    PROVE  /\ Kept' /\ pending' = pending /\ aborted' = aborted /\ enabled' = enabled
           /\ snd' = snd /\ posted' = posted /\ real' = real
           /\ chan'["viewer"] = chan["viewer"] /\ rcv'["viewer"] = rcv["viewer"]
           /\ \/ ~ enabled /\ rcv' = rcv /\ chan'["server"] = Tail(p) \o t
              \/ /\ ~ enabled /\ rcv' = rcv /\ chan'["server"] # <<>>
                 /\ Head(chan'["server"]).type = "payload"
              \/ /\ enabled /\ chan'["server"] = Tail(p) \o t
                 /\ ReceiverOn(rcv'["server"])
                 /\ Arriving(rcv'["server"],
                             temp'["server"][rcv'["server"].file], data, sums, Tail(p))
                 /\ rcv'["server"].pos + Len(Tail(p)) = rcv["server"].pos + Len(p)
<1>1. PICK q \in Chunked, c \in Chunks :
        /\ q = Tail(p) /\ c = Head(p) /\ Rest("server") = q \o t
        /\ Size("server") = c.size /\ Body("server") = c.body
  <2>1. /\ chan["server"] # <<>> /\ Head(chan["server"]) = Head(p)
        /\ Tail(chan["server"]) = Tail(p) \o t
        /\ Head(p) \in Chunks /\ Tail(p) \in Chunked
    BY NextPacket
  <2> QED
    BY <2>1 DEF Rest, Size, Body
<1>2. q \o t \in Seq(Item) /\ c.body \in Block \cup {None}
  BY Behind DEF Chunks
<1>3. /\ UNCHANGED snd /\ UNCHANGED userAborted /\ UNCHANGED posted
      /\ UNCHANGED viewerVars /\ UNCHANGED counters
  BY DEF ServePacket
<1>4. PICK r \in Receiver : /\ r = rcv["server"] /\ r.on /\ ~ r.error
                            /\ r.file \in File /\ r.pos \in Nat
  BY Here DEF ReceiverOn, Receiver
<1>5. chan["viewer"] \in Seq(Item) /\ chan["viewer"] \o <<>> = chan["viewer"]
  BY Here, Empties
<1>6. CASE ~ enabled
  <2>1. /\ UNCHANGED real /\ UNCHANGED temp /\ UNCHANGED rcv
    BY <1>4, <1>6 DEF ServePacket, disk
  <2>2. WholeFile'
    BY <2>1, Here, RealKept
  <2>3. CASE c.size = "same"
    <3>1. Reply("server", q \o t, <<>>)
      BY <1>1, <1>4, <1>6, <2>3 DEF ServePacket
    <3>2. /\ chan' \in [Side -> Seq(Item)] /\ chan'["server"] = q \o t
          /\ chan'["viewer"] = chan["viewer"]
      BY <1>2, <1>5, <3>1, Empties, Here, ServerReplies
    <3>3. Kept' /\ pending' = pending /\ aborted' = aborted /\ enabled' = enabled
      BY <1>3, <2>1, <2>2, <3>2, Here, Typed, KeptByServer
    <3> QED
      BY <1>1, <1>3, <1>6, <2>1, <3>2, <3>3
  <2>4. CASE c.size # "same"
    <3>1. PICK l : l = Packet("payload", "ok", c.body) \o (q \o t)
      OBVIOUS
    <3>2. l \in Seq(Item) /\ l # <<>> /\ Head(l).type = "payload"
      BY <1>2, <3>1, Payload
    <3>3. Reply("server", l, <<>>)
      BY <1>1, <1>4, <1>6, <2>4, <3>1 DEF ServePacket, PayloadLeft
    <3>4. /\ chan' \in [Side -> Seq(Item)] /\ chan'["server"] = l
          /\ chan'["viewer"] = chan["viewer"]
      BY <1>5, <3>2, <3>3, Empties, Here, ServerReplies
    <3>5. Kept' /\ pending' = pending /\ aborted' = aborted /\ enabled' = enabled
      BY <1>3, <2>1, <2>2, <3>4, Here, Typed, KeptByServer
    <3> QED
      BY <1>3, <1>6, <2>1, <3>2, <3>4, <3>5
  <2> QED
    BY <2>3, <2>4
<1>7. CASE enabled
  <2>1. PICK m : m = temp["server"][r.file]
    OBVIOUS
  <2>2. Arriving(r, m, data, sums, p) /\ m \in Data
    BY <1>4, <1>7, <2>1 DEF Arriving
  <2>3. PICK s : s = [r EXCEPT !.pos = r.pos + 1]
    OBVIOUS
  <2>4. /\ s \in Receiver /\ s.pos = r.pos + 1 /\ s.file = r.file
        /\ s.on /\ ~ s.error
    <3>1. PICK n \in Nat : n = r.pos + 1
      BY <1>4
    <3>2. s = [r EXCEPT !.pos = n]
      BY <2>3, <3>1
    <3> QED
      BY <1>4, <3>1, <3>2 DEF Receiver
  <2>5. PICK w : w = IF c.size = "same" THEN m ELSE Written(m, r.pos, c.body)
    OBVIOUS
  <2>6. /\ Arriving(s, w, data, sums, q) /\ w \in Data
        /\ s.pos + Len(q) = r.pos + Len(p)
    <3>1. w = IF Head(p).size = "same" THEN m ELSE Written(m, r.pos, Head(p).body)
      BY <1>1, <2>5
    <3>2. /\ Arriving(s, w, data, sums, Tail(p))
          /\ s.pos + Len(Tail(p)) = r.pos + Len(p)
      BY <2>2, <2>4, <3>1, PacketTaken
    <3>3. w \in Data
      BY <3>2 DEF Arriving
    <3> QED
      BY <1>1, <3>2, <3>3
  <2>7. UNCHANGED real /\ rcv' = [rcv EXCEPT !["server"] = s]
        /\ Reply("server", q \o t, <<>>)
        /\ \/ c.size = "same" /\ UNCHANGED temp
           \/ /\ c.size # "same"
              /\ temp' = [temp EXCEPT !["server"][r.file] = Written(@, r.pos, c.body)]
    BY <1>1, <1>4, <1>7, <2>3, Here DEF ServePacket, May, disk
  <2>8. /\ chan' \in [Side -> Seq(Item)] /\ chan'["server"] = q \o t
        /\ chan'["viewer"] = chan["viewer"]
    BY <1>2, <1>5, <2>7, Empties, Here, ServerReplies
  <2>9. /\ rcv' \in [Side -> Receiver] /\ rcv'["server"] = s
        /\ rcv'["viewer"] = rcv["viewer"]
    BY <2>4, <2>7, Here
  <2>10. temp' \in [Side -> [File -> Content]] /\ temp'["server"][r.file] = w
    <3>1. CASE c.size = "same"
      BY <2>1, <2>5, <2>7, <3>1, Here
    <3>2. CASE c.size # "same"
      <4>1. temp' = [temp EXCEPT !["server"][r.file] = w]
        BY <1>4, <2>1, <2>5, <2>7, <3>2, Here
      <4>2. w \in Content
        BY <2>6 DEF Data, Content
      <4> QED
        BY <1>4, <4>1, <4>2, Here
    <3> QED
      BY <3>1, <3>2
  <2>11. WholeFile'
    BY <2>7, Here, RealKept
  <2>12. Kept' /\ pending' = pending /\ aborted' = aborted /\ enabled' = enabled
    BY <1>3, <2>7, <2>8, <2>9, <2>10, <2>11, Here, Typed, KeptByServer
  <2>13. ReceiverOn(rcv'["server"])
    BY <1>4, <2>4, <2>9 DEF ReceiverOn
  <2>14. Arriving(rcv'["server"], temp'["server"][rcv'["server"].file], data, sums, q)
    BY <2>4, <2>6, <2>9, <2>10
  <2> QED
    BY <1>1, <1>3, <1>4, <1>7, <2>4, <2>6, <2>7, <2>8, <2>9, <2>12, <2>13, <2>14
<1> QED
  BY <1>6, <1>7

LEMMA ServePacketStep ==
    ASSUME TransferAssumption, "write" \notin CanFail, IInv, ServePacket
    PROVE  IInv'
<1>1. Gets("server", "packet")
  BY DEF ServePacket
<1>2. CASE Uploading
  <2>1. PICK p \in Chunked : p = chan["server"] /\ p # <<>>
    BY <1>1, <1>2 DEF Uploading, Gets
  <2>2. p \o <<>> = p /\ <<>> \in Seq(Item) /\ Tail(p) \o <<>> = Tail(p)
        /\ Tail(p) \in Chunked
    <3>1. Tail(p) \in Chunked
      BY <2>1, Empties, NextPacket
    <3> QED
      BY <3>1, Empties, Behind
  <2>3. PICK data, sums : data = snd["viewer"].data /\ sums = snd["viewer"].sums
    OBVIOUS
  <2>4. /\ ReceiverOn(rcv["server"])
        /\ enabled => Arriving(rcv["server"], temp["server"][rcv["server"].file],
                               data, sums, p)
        /\ enabled => snd["viewer"].pos = rcv["server"].pos + Len(p)
        /\ Uploads /\ snd["viewer"].on /\ pending /\ Reading(snd["viewer"])
    BY <1>2, <2>1, <2>3 DEF Uploading
  <2>5. /\ Kept' /\ pending' = pending /\ aborted' = aborted /\ enabled' = enabled
        /\ snd' = snd /\ posted' = posted /\ real' = real
        /\ chan'["viewer"] = chan["viewer"] /\ rcv'["viewer"] = rcv["viewer"]
        /\ \/ ~ enabled /\ rcv' = rcv /\ chan'["server"] = Tail(p)
           \/ /\ ~ enabled /\ rcv' = rcv /\ chan'["server"] # <<>>
              /\ Head(chan'["server"]).type = "payload"
           \/ /\ enabled /\ chan'["server"] = Tail(p)
              /\ ReceiverOn(rcv'["server"])
              /\ Arriving(rcv'["server"], temp'["server"][rcv'["server"].file],
                          data, sums, Tail(p))
              /\ rcv'["server"].pos + Len(Tail(p)) = rcv["server"].pos + Len(p)
    <3>1. chan["server"] = p \o <<>>
      BY <2>1, <2>2
    <3>2. PICK t \in Seq(Item) : t = <<>> /\ chan["server"] = p \o t /\ Tail(p) \o t = Tail(p)
      BY <2>2, <3>1
    <3> QED
      BY <2>1, <2>4, <3>2, ServerTakes
  <2>6. Uploads'
    BY <2>4, <2>5 DEF Uploads, ServerSilent
  <2>7. CASE ~ enabled /\ rcv' = rcv /\ chan'["server"] = Tail(p)
    <3>1. Uploading'
      BY <2>2, <2>4, <2>5, <2>6, <2>7 DEF Uploading
    <3> QED
      BY <2>5, <3>1 DEF IInv, Phase
  <2>8. CASE ~ enabled /\ chan'["server"] # <<>> /\ Head(chan'["server"]).type = "payload"
    <3>1. Stuck'
      BY <2>4, <2>5, <2>6, <2>8 DEF Stuck, Gets
    <3> QED
      BY <2>5, <3>1 DEF IInv, Phase
  <2>9. CASE /\ enabled /\ chan'["server"] = Tail(p)
             /\ ReceiverOn(rcv'["server"])
             /\ Arriving(rcv'["server"], temp'["server"][rcv'["server"].file],
                         data, sums, Tail(p))
             /\ rcv'["server"].pos + Len(Tail(p)) = rcv["server"].pos + Len(p)
    <3>1. Uploading'
      BY <2>2, <2>3, <2>4, <2>5, <2>6, <2>9 DEF Uploading
    <3> QED
      BY <2>5, <3>1 DEF IInv, Phase
  <2> QED
    BY <2>5, <2>7, <2>8, <2>9
<1>3. ASSUME NEW p \in Chunked, NEW e \in {"endOfFile", "abort"},
             UploadEnds(p, e), p # <<>>
      PROVE  IInv'
  <2>1. PICK t \in Seq(Item) :
          /\ chan["server"] = p \o t
          /\ \/ ~ pending /\ t = Bare(e) \o Bare("listRequest")
             \/ /\ pending
                /\ \E f \in File : Offers(f) /\ t = Bare(e) \o Offer(f)
    <3>1. /\ Bare("listRequest") \in Seq(Item) /\ Bare(e) \in Seq(Item)
          /\ \A f \in File : Offer(f) \in Seq(Item)
      BY Messages, Packets DEF Bare, Offer
    <3>2. /\ Bare(e) \o Bare("listRequest") \in Seq(Item)
          /\ \A f \in File : Bare(e) \o Offer(f) \in Seq(Item)
      BY <3>1, ConcatProperties
    <3> QED
      BY <1>3, <3>2 DEF UploadEnds
  <2>2. PICK data, sums :
          enabled =>
            /\ data \in Data \cup {None} /\ sums \in Data \cup {None}
            /\ Arriving(rcv["server"], temp["server"][rcv["server"].file],
                        data, sums, p)
            /\ e = "endOfFile" => rcv["server"].pos + Len(p) = Len(data)
    BY <1>3 DEF UploadEnds
  <2>3. ReceiverOn(rcv["server"]) /\ Uploads /\ ~ snd["viewer"].on
    BY <1>3 DEF UploadEnds
  <2>4. /\ Kept' /\ pending' = pending /\ aborted' = aborted /\ enabled' = enabled
        /\ snd' = snd /\ posted' = posted /\ real' = real
        /\ chan'["viewer"] = chan["viewer"] /\ rcv'["viewer"] = rcv["viewer"]
        /\ \/ ~ enabled /\ rcv' = rcv /\ chan'["server"] = Tail(p) \o t
           \/ /\ ~ enabled /\ rcv' = rcv /\ chan'["server"] # <<>>
              /\ Head(chan'["server"]).type = "payload"
           \/ /\ enabled /\ chan'["server"] = Tail(p) \o t
              /\ ReceiverOn(rcv'["server"])
              /\ Arriving(rcv'["server"], temp'["server"][rcv'["server"].file],
                          data, sums, Tail(p))
              /\ rcv'["server"].pos + Len(Tail(p)) = rcv["server"].pos + Len(p)
    BY <1>3, <2>1, <2>2, <2>3, ServerTakes
  <2>5. PICK q \in Chunked : q = Tail(p)
    BY <1>3, Empties, NextPacket
  <2>6. Uploads' /\ ~ snd'["viewer"].on
    BY <2>3, <2>4 DEF Uploads, ServerSilent
  <2>7. CASE ~ enabled /\ chan'["server"] # <<>> /\ Head(chan'["server"]).type = "payload"
    <3>1. Stuck'
      BY <2>4, <2>6, <2>7 DEF Stuck, Gets
    <3> QED
      BY <2>4, <3>1 DEF IInv, Phase
  <2>8. CASE chan'["server"] = q \o t /\ ReceiverOn(rcv'["server"])
             /\ (enabled =>
                   /\ Arriving(rcv'["server"], temp'["server"][rcv'["server"].file],
                               data, sums, q)
                   /\ rcv'["server"].pos + Len(q) = rcv["server"].pos + Len(p))
    <3>1. enabled' =>
            \E d, s \in Data \cup {None} :
              /\ Arriving(rcv'["server"], temp'["server"][rcv'["server"].file], d, s, q)
              /\ e = "endOfFile" => rcv'["server"].pos + Len(q) = Len(d)
      BY <2>2, <2>4, <2>8
    <3>2. \/ ~ pending' /\ chan'["server"] = q \o (Bare(e) \o Bare("listRequest"))
          \/ /\ pending'
             /\ \E f \in File : Offers(f)' /\ chan'["server"] = q \o (Bare(e) \o Offer(f))
      BY <2>1, <2>4, <2>8 DEF Offers
    <3>3. UploadEnds(q, e)'
      BY <2>6, <2>8, <3>1, <3>2 DEF UploadEnds
    <3> QED
      BY <2>4, <3>3 DEF IInv, Phase
  <2> QED
    BY <2>3, <2>4, <2>5, <2>7, <2>8
<1> QED
  BY <1>1, <1>2, <1>3, ServerGets
(* What follows the end of an upload.                                      *)
LEMMA AfterUpload ==
    ASSUME Kept', ServerSilent', ServerFree', ViewerFree', chan'["viewer"] = <<>>,
           \/ ~ pending' /\ chan'["server"] = Bare("listRequest")
           \/ /\ pending'
              /\ \E f \in File : Offers(f)' /\ chan'["server"] = Offer(f)
    PROVE  IInv'
<1>1. CASE ~ pending' /\ chan'["server"] = Bare("listRequest")
  <2>1. Idle'
    BY <1>1 DEF Idle
  <2> QED
    BY <2>1 DEF IInv, Phase
<1>2. ASSUME NEW f \in File, pending', Offers(f)', chan'["server"] = Offer(f)
      PROVE  IInv'
  <2>1. Offered(f)'
    BY <1>2 DEF Offered, Uploads, ViewerFree
  <2> QED
    BY <2>1 DEF IInv, Phase
<1> QED
  BY <1>1, <1>2

LEMMA ServeEndOfFileStep ==
    ASSUME TransferAssumption, IInv, ServeEndOfFile
    PROVE  IInv'
<1>1. /\ UploadEnds(<<>>, "endOfFile")
      /\ \/ ~ pending /\ Rest("server") = Bare("listRequest")
         \/ /\ pending
            /\ \E f \in File : Offers(f) /\ Rest("server") = Offer(f)
  BY ServerGets DEF ServeEndOfFile
<1>2. /\ UNCHANGED snd /\ UNCHANGED userAborted /\ UNCHANGED posted
      /\ UNCHANGED viewerVars /\ UNCHANGED counters
      /\ Reply("server", Rest("server"), <<>>)
  BY DEF ServeEndOfFile
<1>3. PICK t \in Seq(Item) :
        /\ t = Rest("server")
        /\ \/ ~ pending /\ t = Bare("listRequest")
           \/ pending /\ \E f \in File : Offers(f) /\ t = Offer(f)
  <2>1. Bare("listRequest") \in Seq(Item) /\ \A f \in File : Offer(f) \in Seq(Item)
    BY Messages, Packets DEF Bare, Offer
  <2> QED
    BY <1>1, <2>1
<1>4. /\ chan' \in [Side -> Seq(Item)] /\ chan'["server"] = t
      /\ chan'["viewer"] = <<>>
  <2>1. chan["viewer"] = <<>>
    BY <1>1 DEF UploadEnds, Uploads
  <2> QED
    BY <1>2, <1>3, <2>1, Empties, Here, ServerReplies
<1>5. /\ Uploads /\ ~ snd["viewer"].on /\ ReceiverOn(rcv["server"])
  BY <1>1 DEF UploadEnds
<1>6. ASSUME Kept', pending' = pending, real'["viewer"] = real["viewer"],
             ServerFree', rcv'["viewer"] = rcv["viewer"]
      PROVE  IInv'
  <2>1. ServerSilent' /\ ViewerFree'
    BY <1>2, <1>5, <1>6 DEF Uploads, ServerSilent, ViewerFree
  <2>2. \/ ~ pending' /\ chan'["server"] = Bare("listRequest")
        \/ /\ pending'
           /\ \E f \in File : Offers(f)' /\ chan'["server"] = Offer(f)
    BY <1>2, <1>3, <1>4, <1>6 DEF Offers
  <2> QED
    BY <1>4, <1>6, <2>1, <2>2, AfterUpload
<1>7. CASE ~ enabled
  <2>1. UNCHANGED real /\ UNCHANGED temp /\ UNCHANGED rcv
    BY <1>7 DEF ServeEndOfFile, disk
  <2>2. WholeFile'
    BY <2>1, Here, RealKept
  <2>3. Kept' /\ pending' = pending /\ enabled' = enabled
    BY <1>2, <1>4, <2>1, <2>2, Here, Typed, KeptByServer
  <2>4. ServerFree'
    BY <1>7, <2>3 DEF ServerFree
  <2> QED
    BY <1>6, <2>1, <2>3, <2>4
<1>8. CASE enabled
  <2>1. PICK r \in Receiver : r = rcv["server"] /\ r.file \in File /\ r.pos \in Nat
    BY <1>5, Here DEF ReceiverOn, Receiver
  <2>2. PICK data, sums :
          /\ Arriving(r, temp["server"][r.file], data, sums, <<>>)
          /\ r.pos + Len(<<>>) = Len(data)
    BY <1>1, <1>8, <2>1 DEF UploadEnds
  <2>3. r.pos = Len(data) /\ temp["server"][r.file] \in Data
    BY <2>1, <2>2 DEF Arriving
  <2>4. Upto(temp["server"][r.file], r.pos) \in Versions(r.file)
    BY <2>2, <2>3, Whole
  <2>5. FinishFiles("server", r)
    BY <1>5, <1>8, <2>1 DEF ServeEndOfFile, ReceiverOn
  <2>6. /\ real' \in [Side -> [File -> Content]]
        /\ temp' \in [Side -> [File -> Content]]
        /\ rcv' \in [Side -> Receiver] /\ WholeFile' /\ ~ rcv'["server"].on
        /\ real'["viewer"] = real["viewer"] /\ rcv'["viewer"] = rcv["viewer"]
    <3>1. "viewer" \in Side \ {"server"}
      BY DEF Side
    <3> QED
      BY <2>1, <2>3, <2>4, <2>5, <3>1, Here, Finished
  <2>7. Kept' /\ pending' = pending /\ enabled' = enabled
    BY <1>2, <1>4, <2>6, Here, Typed, KeptByServer
  <2>8. ServerFree'
    BY <2>6 DEF ServerFree
  <2> QED
    BY <1>6, <2>6, <2>7, <2>8
<1> QED
  BY <1>7, <1>8

LEMMA ServeListRequestStep ==
    ASSUME TransferAssumption, IInv, ServeListRequest
    PROVE  IInv'
<1>1. Idle /\ Rest("server") = <<>>
  BY ServerGets DEF ServeListRequest
<1>2. /\ UNCHANGED real /\ UNCHANGED temp /\ UNCHANGED snd /\ UNCHANGED rcv
      /\ UNCHANGED userAborted /\ UNCHANGED posted
      /\ UNCHANGED viewerVars /\ UNCHANGED counters
  BY DEF ServeListRequest, disk
<1>3. chan["viewer"] = <<>>
  BY <1>1 DEF Idle, Gets, ServeListRequest
<1>4. PICK o \in Seq(Item) : /\ o = IF enabled THEN Bare("listing") ELSE <<>>
                             /\ o \in {<<>>, Bare("listing")}
  BY Empties, Messages, Packets DEF Bare
<1>5. /\ chan' \in [Side -> Seq(Item)] /\ chan'["server"] = <<>>
      /\ chan'["viewer"] = o
  <2>1. Reply("server", <<>>, o)
    BY <1>1, <1>4 DEF ServeListRequest
  <2> QED
    BY <1>3, <2>1, Empties, Here, ServerReplies
<1>6. WholeFile'
  BY <1>2, Here, RealKept
<1>7. Kept' /\ pending' = pending /\ enabled' = enabled
  BY <1>2, <1>5, <1>6, Here, Typed, KeptByServer
<1>8. Idle'
  BY <1>1, <1>2, <1>4, <1>5, <1>7 DEF Idle, ServerSilent, ServerFree, ViewerFree
<1> QED
  BY <1>7, <1>8 DEF IInv, Phase

LEMMA ServeAbortStep ==
    ASSUME TransferAssumption, IInv, ServeAbort
    PROVE  IInv'
<1>1. /\ UNCHANGED real /\ UNCHANGED posted
      /\ UNCHANGED viewerVars /\ UNCHANGED counters
      /\ Gets("server", "abort")
  BY DEF ServeAbort
<1>2. WholeFile'
  BY <1>1, Here, RealKept
<1>3. PICK a \in Seq(Item), n \in {"ok", "fail"} :
        a = Answer /\ a = Packet("access", n, None)
  BY Messages, Packets DEF Answer
<1>4. CASE rcv["server"].on
  <2>1. /\ Reply("server", Rest("server"), <<>>)
        /\ userAborted' = [userAborted EXCEPT !["server"] = TRUE]
        /\ temp' = [temp EXCEPT !["server"][rcv["server"].file] = None]
        /\ rcv' = [rcv EXCEPT !["server"].error = TRUE, !["server"].on = FALSE]
        /\ UNCHANGED snd
    BY <1>4 DEF ServeAbort
  <2>2. /\ userAborted' \in [Side -> BOOLEAN]
        /\ temp' \in [Side -> [File -> Content]]
    BY <2>1, Here, Typed DEF Content
  <2>3. /\ rcv' \in [Side -> Receiver] /\ ~ rcv'["server"].on
        /\ rcv'["viewer"] = rcv["viewer"]
    <3>1. PICK r : r = [rcv["server"] EXCEPT !.error = TRUE, !.on = FALSE]
      OBVIOUS
    <3>2. r \in Receiver /\ ~ r.on
      BY <3>1, Here DEF Receiver
    <3>3. rcv' = [rcv EXCEPT !["server"] = r]
      BY <2>1, <3>1, Here
    <3> QED
      BY <3>2, <3>3, Here
  <2>4. ServerFree'
    BY <2>3 DEF ServerFree
  <2>5. CASE Idle /\ Rest("server") = <<>>
    <3>1. /\ chan' \in [Side -> Seq(Item)] /\ chan'["server"] = <<>>
          /\ chan'["viewer"] = chan["viewer"]
      BY <2>1, <2>5, Empties, Here, ServerReplies
    <3>2. Kept' /\ pending' = pending /\ enabled' = enabled
      BY <1>1, <1>2, <2>1, <2>2, <2>3, <3>1, Here, Typed, KeptByServer
    <3>3. chan["viewer"] = <<>>
      BY <1>1, <2>5 DEF Idle, Gets
    <3>4. Idle'
      BY <1>1, <2>1, <2>3, <2>4, <2>5, <3>1, <3>2, <3>3
      DEF Idle, ServerSilent, ViewerFree
    <3> QED
      BY <3>2, <3>4 DEF IInv, Phase
  <2>6. CASE /\ UploadEnds(<<>>, "abort")
             /\ \/ ~ pending /\ Rest("server") = Bare("listRequest")
                \/ /\ pending
                   /\ \E f \in File : Offers(f) /\ Rest("server") = Offer(f)
    <3>1. PICK t \in Seq(Item) :
            /\ t = Rest("server")
            /\ \/ ~ pending /\ t = Bare("listRequest")
               \/ pending /\ \E f \in File : Offers(f) /\ t = Offer(f)
      <4>1. Bare("listRequest") \in Seq(Item) /\ \A f \in File : Offer(f) \in Seq(Item)
        BY Messages, Packets DEF Bare, Offer
      <4> QED
        BY <2>6, <4>1
    <3>2. Uploads /\ ~ snd["viewer"].on
      BY <2>6 DEF UploadEnds
    <3>3. /\ chan' \in [Side -> Seq(Item)] /\ chan'["server"] = t
          /\ chan'["viewer"] = <<>>
      BY <2>1, <3>1, <3>2, Empties, Here, ServerReplies DEF Uploads
    <3>4. Kept' /\ pending' = pending /\ enabled' = enabled
      BY <1>1, <1>2, <2>1, <2>2, <2>3, <3>3, Here, Typed, KeptByServer
    <3>5. ServerSilent' /\ ViewerFree'
      BY <1>1, <2>1, <2>3, <3>2 DEF Uploads, ServerSilent, ViewerFree
    <3>6. \/ ~ pending' /\ chan'["server"] = Bare("listRequest")
          \/ /\ pending'
             /\ \E f \in File : Offers(f)' /\ chan'["server"] = Offer(f)
      BY <1>1, <2>1, <3>1, <3>3, <3>4 DEF Offers
    <3> QED
      BY <2>4, <3>3, <3>4, <3>5, <3>6, AfterUpload
  <2>7. ~ Downloading /\ \A p \in Chunked : ~ DownloadEnds(p)
    BY <1>4 DEF Downloading, DownloadEnds, Downloads
  <2> QED
    BY <1>1, <2>5, <2>6, <2>7, ServerGets
<1>5. CASE ~ rcv["server"].on /\ snd["server"].on
  <2>1. /\ Reply("server", Rest("server"), <<>>)
        /\ userAborted' = [userAborted EXCEPT !["server"] = TRUE]
        /\ snd' = [snd EXCEPT !["server"].error = TRUE]
        /\ UNCHANGED temp /\ UNCHANGED rcv
    BY <1>5 DEF ServeAbort
  <2>2. Downloading /\ Rest("server") = <<>>
    <3>1. ~ ServerSilent
      BY <1>5 DEF ServerSilent
    <3>2. /\ ~ Idle /\ ~ UploadEnds(<<>>, "abort")
          /\ \A p \in Chunked : ~ DownloadEnds(p)
      BY <3>1 DEF Idle, UploadEnds, Uploads, DownloadEnds
    <3> QED
      BY <1>1, <3>2, ServerGets
  <2>3. PICK d \in Sender :
          /\ snd' = [snd EXCEPT !["server"] = d] /\ d.error
          /\ d.on = snd["server"].on /\ d.data = snd["server"].data
          /\ d.sums = snd["server"].sums /\ d.pos = snd["server"].pos
          /\ d.offset = snd["server"].offset /\ d.eof = snd["server"].eof
    <3>1. PICK d : d = [snd["server"] EXCEPT !.error = TRUE]
      OBVIOUS
    <3>2. /\ d \in Sender /\ d.error
          /\ d.on = snd["server"].on /\ d.data = snd["server"].data
          /\ d.sums = snd["server"].sums /\ d.pos = snd["server"].pos
          /\ d.offset = snd["server"].offset /\ d.eof = snd["server"].eof
      BY <3>1, Here DEF Sender
    <3>3. snd' = [snd EXCEPT !["server"] = d]
      BY <2>1, <3>1, Here
    <3> QED
      BY <3>2, <3>3
  <2>4. /\ snd' \in [Side -> Sender] /\ snd'["server"] = d
        /\ snd'["viewer"] = snd["viewer"]
    BY <2>3, Here
  <2>5. /\ chan' \in [Side -> Seq(Item)] /\ chan'["server"] = <<>>
        /\ chan'["viewer"] = chan["viewer"]
    BY <2>1, <2>2, Empties, Here, ServerReplies
  <2>6. userAborted' \in [Side -> BOOLEAN]
    BY <2>1, Here, Typed
  <2>7. Kept' /\ pending' = pending /\ aborted' = aborted /\ enabled' = enabled
    BY <1>1, <1>2, <2>1, <2>4, <2>5, <2>6, Here, Typed, KeptByServer
  <2>8. Reading(d)
    <3>1. Reading(snd["server"])
      BY <2>2 DEF Downloading
    <3> QED
      BY <2>3, <3>1 DEF Reading
  <2>9. aborted
    <3>1. chan["server"] # <<>>
      BY <1>1 DEF Gets
    <3> QED
      BY <2>2, <3>1 DEF Downloading
  <2>10. Downloading'
    BY <1>1, <2>1, <2>2, <2>3, <2>4, <2>5, <2>7, <2>8, <2>9
    DEF Downloading, Downloads, ReceiverOn
  <2> QED
    BY <2>7, <2>10 DEF IInv, Phase
<1>6. CASE ~ rcv["server"].on /\ ~ snd["server"].on
  <2>1. /\ Reply("server", Rest("server"), a)
        /\ UNCHANGED snd /\ UNCHANGED userAborted
        /\ UNCHANGED temp /\ UNCHANGED rcv
    BY <1>3, <1>6 DEF ServeAbort
  <2>2. ~ Downloading /\ ~ UploadEnds(<<>>, "abort")
    BY <1>6 DEF Downloading, UploadEnds, ReceiverOn
  <2>3. CASE Idle /\ Rest("server") = <<>>
    <3>1. chan["viewer"] = <<>>
      BY <1>1, <2>3 DEF Idle, Gets
    <3>2. /\ chan' \in [Side -> Seq(Item)] /\ chan'["server"] = <<>>
          /\ chan'["viewer"] = a
      BY <2>1, <2>3, <3>1, Empties, Here, ServerReplies
    <3>3. Kept' /\ pending' = pending /\ enabled' = enabled
      BY <1>1, <1>2, <2>1, <3>2, Here, Typed, KeptByServer
    <3>4. Idle'
      BY <1>1, <1>3, <2>1, <2>3, <3>2, <3>3
      DEF Idle, ServerSilent, ServerFree, ViewerFree
    <3> QED
      BY <3>3, <3>4 DEF IInv, Phase
  <2>4. ASSUME NEW p \in Chunked, DownloadEnds(p), Rest("server") = <<>>
        PROVE  IInv'
    <3>1. /\ Downloads /\ ServerSilent /\ ReceiverOn(rcv["viewer"])
          /\ Arriving(rcv["viewer"], temp["viewer"][rcv["viewer"].file],
                      snd["server"].data, snd["server"].sums, p)
          /\ rcv["viewer"].pos + Len(p) = Len(snd["server"].data)
          /\ aborted /\ chan["viewer"] = p \o Bare("endOfFile")
      <4>1. chan["server"] # <<>>
        BY <1>1 DEF Gets
      <4> QED
        BY <2>4, <4>1 DEF DownloadEnds
    <3>2. /\ chan' \in [Side -> Seq(Item)] /\ chan'["server"] = <<>>
          /\ chan'["viewer"] = chan["viewer"] \o a
      BY <2>1, <2>4, Empties, Here, ServerReplies
    <3>3. chan'["viewer"] = p \o (Bare("endOfFile") \o a)
      <4>1. Bare("endOfFile") \in Seq(Item)
        BY Messages, Packets DEF Bare
      <4> QED
        <5>1. PICK b \in Seq(Item) : b = Bare("endOfFile")
          BY <4>1
        <5>2. (p \o b) \o a = p \o (b \o a)
          BY Behind
        <5> QED
          BY <3>1, <3>2, <5>1, <5>2
    <3>4. Kept' /\ pending' = pending /\ aborted' = aborted
      BY <1>1, <1>2, <2>1, <3>2, Here, Typed, KeptByServer
    <3>5. Downloads' /\ ServerSilent'
      BY <1>1, <2>1, <3>1, <3>4 DEF Downloads, ServerSilent
    <3>6. DownloadEnds(p)'
      BY <1>3, <2>1, <3>1, <3>2, <3>3, <3>4, <3>5 DEF DownloadEnds
    <3> QED
      BY <3>4, <3>6 DEF IInv, Phase
  <2> QED
    BY <1>1, <2>2, <2>3, <2>4, ServerGets
<1> QED
  BY <1>4, <1>5, <1>6
-----------------------------------------------------------------------------
(* The steps of the viewer.                                                *)

LEMMA KeptByViewer ==
    ASSUME IInv, UNCHANGED userAborted, UNCHANGED posted, UNCHANGED abort,
           UNCHANGED old, UNCHANGED counters, WholeFile',
           real' \in [Side -> [File -> Content]],
           temp' \in [Side -> [File -> Content]],
           chan' \in [Side -> Seq(Item)], snd' \in [Side -> Sender],
           rcv' \in [Side -> Receiver],
           timer' \in BOOLEAN, pending' \in BOOLEAN, files' \in Seq(File),
           aborted' \in BOOLEAN, aborted' => abort
    PROVE  Kept' /\ enabled' = enabled /\ posted' = posted
<1>1. /\ UNCHANGED jobs /\ UNCHANGED breaks /\ UNCHANGED enabled
      /\ UNCHANGED strayed
  BY DEF counters
<1>2. TransferTypeOK'
  BY <1>1, Here, Typed DEF TransferTypeOK
<1> QED
  BY <1>1, <1>2, Here DEF Kept

(* What follows a download.                                                *)
LEMMA AfterDownload ==
    ASSUME Kept', ServerSilent', ServerFree', ViewerFree', chan'["viewer"] = <<>>,
           \/ ~ pending' /\ chan'["server"] \in {<<>>, HeaderFailed}
           \/ /\ pending'
              /\ \E f \in File :
                    chan'["server"] \in {Request(f), HeaderFailed \o Request(f)}
    PROVE  IInv'
<1>1. CASE ~ pending' /\ chan'["server"] \in {<<>>, HeaderFailed}
  <2>1. Idle'
    BY <1>1 DEF Idle
  <2> QED
    BY <2>1 DEF IInv, Phase
<1>2. ASSUME NEW f \in File, pending',
             chan'["server"] \in {Request(f), HeaderFailed \o Request(f)}
      PROVE  IInv'
  <2>1. Requested(f)'
    BY <1>2 DEF Requested
  <2> QED
    BY <2>1 DEF IInv, Phase
<1> QED
  BY <1>1, <1>2

LEMMA NextRequests ==
    ASSUME TransferTypeOK, AdvanceFiles, pending
    PROVE  /\ files' \in Seq(File) /\ pending' \in BOOLEAN
           /\ NextRequest \in Seq(Item) /\ HeaderFailed \o NextRequest \in Seq(Item)
           /\ \/ ~ pending' /\ NextRequest = <<>>
                 /\ HeaderFailed \o NextRequest = HeaderFailed
              \/ /\ ~ abort /\ pending'
                 /\ \E f \in File : NextRequest = Request(f)
<1>1. HeaderFailed \in Seq(Item) /\ \A f \in File : Request(f) \in Seq(Item)
  BY Messages, Packets DEF HeaderFailed, Request
<1>2. \A q \in Seq(Item) : HeaderFailed \o q \in Seq(Item)
  BY <1>1, ConcatProperties
<1> QED
  BY <1>1, <1>2, Advanced, Empties

LEMMA ViewHeaderStep ==
    ASSUME TransferAssumption, IInv, ViewHeader
    PROVE  IInv'
<1>1. PICK f \in File : /\ Answered(f) /\ Body("viewer") = f
                        /\ Rest("viewer") = <<>>
                        /\ Size("viewer") = "ok" =>
                             /\ Fresh(snd["server"], f)
                             /\ snd["server"].sums = None
  BY ViewerGets DEF ViewHeader
<1>2. /\ UNCHANGED real /\ UNCHANGED snd /\ UNCHANGED userAborted
      /\ UNCHANGED posted /\ UNCHANGED timer /\ UNCHANGED abort
      /\ UNCHANGED aborted /\ UNCHANGED old /\ UNCHANGED counters
  BY DEF ViewHeader
<1>3. WholeFile'
  BY <1>2, Here, RealKept
<1>4. Downloads /\ ServerSilent /\ ViewerFree /\ chan["server"] = <<>>
  BY <1>1 DEF Answered
<1>5. ASSUME AdvanceFiles, UNCHANGED temp,
             rcv' = [rcv EXCEPT !["viewer"].error = TRUE],
             NEW o, o \in {NextRequest, HeaderFailed \o NextRequest},
             Reply("viewer", Rest("viewer"), o)
      PROVE  IInv'
  <2>1. /\ files' \in Seq(File) /\ pending' \in BOOLEAN /\ o \in Seq(Item)
        /\ \/ ~ pending' /\ o \in {<<>>, HeaderFailed}
           \/ /\ pending'
              /\ \E g \in File : o \in {Request(g), HeaderFailed \o Request(g)}
    BY <1>4, <1>5, Here, NextRequests DEF Downloads
  <2>2. /\ chan' \in [Side -> Seq(Item)] /\ chan'["viewer"] = <<>>
        /\ chan'["server"] = o
    BY <1>1, <1>4, <1>5, <2>1, Empties, Here, ViewerReplies
  <2>3. /\ rcv' \in [Side -> Receiver] /\ rcv'["viewer"].on = rcv["viewer"].on
        /\ rcv'["server"] = rcv["server"]
    <3>1. PICK r : r = [rcv["viewer"] EXCEPT !.error = TRUE]
      OBVIOUS
    <3>2. r \in Receiver /\ r.on = rcv["viewer"].on
      BY <3>1, Here DEF Receiver
    <3>3. rcv' = [rcv EXCEPT !["viewer"] = r]
      BY <1>5, <3>1, Here
    <3> QED
      BY <3>2, <3>3, Here
  <2>4. Kept' /\ enabled' = enabled
    BY <1>2, <1>3, <1>5, <2>1, <2>2, <2>3, Here, Typed, KeptByViewer
  <2>5. ServerSilent' /\ ServerFree' /\ ViewerFree'
    BY <1>2, <1>4, <2>3 DEF Downloads, ServerSilent, ServerFree, ViewerFree
  <2> QED
    BY <2>1, <2>2, <2>4, <2>5, AfterDownload
<1>6. CASE /\ Size("viewer") = "ok"
           /\ OpenTemp("viewer", f)
           /\ Reply("viewer", Rest("viewer"), Sums("viewer", f) \o Bare("header"))
           /\ rcv' = [rcv EXCEPT !["viewer"] = Receiving(f)]
           /\ UNCHANGED <<pending, files>>
  <2>1. PICK a \in Seq(Item) : a = Bare("header")
    BY Messages, Packets DEF Bare
  <2>2. Receiving(f) \in Receiver
    BY DEF Receiving, Receiver
  <2>3. PICK c : c = IF temp["viewer"][f] = None THEN <<>> ELSE temp["viewer"][f]
    OBVIOUS
  <2>4. c \in Data /\ c \in Content
    BY <2>3, Here DEF Content, Data
  <2>5. /\ temp' \in [Side -> [File -> Content]] /\ temp'["viewer"][f] = c
    BY <1>6, <2>3, <2>4, Here DEF OpenTemp
  <2>6. /\ rcv' \in [Side -> Receiver] /\ rcv'["viewer"] = Receiving(f)
        /\ rcv'["server"] = rcv["server"]
    BY <1>6, <2>2, Here
  <2>7. pending' = pending /\ files' = files
    BY <1>6
  <2>8. CASE temp["viewer"][f] = None
    <3>1. Sums("viewer", f) \o a = a
      BY <2>8, Empties DEF Sums
    <3>2. /\ chan' \in [Side -> Seq(Item)] /\ chan'["viewer"] = <<>>
          /\ chan'["server"] = a
      <4>1. Reply("viewer", <<>>, a)
        BY <1>1, <1>6, <2>1, <3>1
      <4> QED
        BY <1>4, <4>1, Empties, Here, ViewerReplies
    <3>3. Kept' /\ enabled' = enabled
      BY <1>2, <1>3, <2>5, <2>6, <2>7, <3>2, Here, Typed, KeptByViewer
    <3>4. Accepted(f)'
      BY <1>1, <1>2, <1>4, <1>6, <2>1, <2>4, <2>5, <2>6, <2>7, <3>2, <3>3
      DEF Accepted, Downloads, ServerSilent, Fresh
    <3> QED
      BY <3>3, <3>4 DEF IInv, Phase
  <2>9. CASE temp["viewer"][f] # None
    <3>1. c = temp["viewer"][f]
      BY <2>3, <2>9
    <3>2. PICK o \in Seq(Item) : o = Packet("checksums", "ok", c) \o a
      <4>1. Packet("checksums", "ok", c) \in Seq(Item)
        BY <2>4, Messages, Packets
      <4> QED
        BY <4>1, ConcatProperties
    <3>3. Sums("viewer", f) \o a = o
      BY <2>9, <3>1, <3>2 DEF Sums
    <3>4. /\ chan' \in [Side -> Seq(Item)] /\ chan'["viewer"] = <<>>
          /\ chan'["server"] = o
      <4>1. Reply("viewer", <<>>, o)
        BY <1>1, <1>6, <2>1, <3>3
      <4> QED
        BY <1>4, <4>1, Empties, Here, ViewerReplies
    <3>5. Kept' /\ enabled' = enabled
      BY <1>2, <1>3, <2>5, <2>6, <2>7, <3>4, Here, Typed, KeptByViewer
    <3>6. Accepted(f)'
      BY <1>1, <1>2, <1>4, <1>6, <2>1, <2>4, <2>5, <2>6, <2>7, <3>2, <3>4, <3>5
      DEF Accepted, Downloads, ServerSilent, Fresh
    <3> QED
      BY <3>5, <3>6 DEF IInv, Phase
  <2> QED
    BY <2>8, <2>9
<1> QED
  BY <1>1, <1>5, <1>6 DEF ViewHeader, HeaderFailed

LEMMA ViewerSumsStep ==
    ASSUME TransferAssumption, IInv, GetChecksums("viewer")
    PROVE  IInv'
<1>1. PICK f \in File : /\ Allowed(f) /\ Body("viewer") = temp["server"][f]
                        /\ Rest("viewer") = Packet("accept", "ok", f)
  BY ViewerGets DEF GetChecksums
<1>2. /\ UNCHANGED real /\ UNCHANGED temp /\ UNCHANGED rcv /\ UNCHANGED posted
      /\ UNCHANGED userAborted /\ UNCHANGED timer /\ UNCHANGED pending
      /\ UNCHANGED files /\ UNCHANGED abort /\ UNCHANGED aborted /\ UNCHANGED old
      /\ UNCHANGED counters
  BY DEF GetChecksums, disk, viewerVars
<1>3. WholeFile'
  BY <1>2, Here, RealKept
<1>4. /\ ServerSilent /\ ViewerFree /\ pending /\ chan["server"] = <<>>
      /\ rcv["server"] = Receiving(f) /\ temp["server"][f] \in Data
      /\ real["viewer"][f] \in Data /\ snd["viewer"].offset = 0
  <2>1. ASSUME NEW n \in {"ok", "fail"}
        PROVE  chan["viewer"] # Packet("accept", n, f)
    <3>1. CASE chan["viewer"] = Packet("accept", n, f)
      <4>1. ~ Gets("viewer", "checksums")
        <5>1. Msg("accept", n, f) \in Item
          BY Messages
        <5>2. \A u : Gets("viewer", u) <=> u = "accept"
          BY <3>1, <5>1, ReadsOne
        <5> QED
          BY <5>2
      <4> QED
        BY <4>1 DEF GetChecksums
    <3> QED
      BY <3>1
  <2> QED
    BY <1>1, <2>1 DEF Allowed
<1>5. /\ chan' \in [Side -> Seq(Item)] /\ chan'["server"] = <<>>
      /\ chan'["viewer"] = Packet("accept", "ok", f)
  <2>1. Packet("accept", "ok", f) \in Seq(Item)
    BY Messages, Packets
  <2> QED
    BY <1>1, <1>4, <2>1, Empties, Here, ViewerReplies DEF GetChecksums
<1>6. PICK c \in Content : c = temp["server"][f]
  BY <1>4 DEF Data, Content
<1>7. /\ snd' \in [Side -> Sender] /\ snd'["server"] = snd["server"]
      /\ snd'["viewer"].sums = c /\ snd'["viewer"].on = snd["viewer"].on
      /\ snd'["viewer"].offset = snd["viewer"].offset
  <2>1. snd' = [snd EXCEPT !["viewer"].sums = c]
    BY <1>1, <1>6 DEF GetChecksums
  <2>2. "server" \in Side \ {"viewer"}
    BY DEF Side
  <2> QED
    BY <2>1, <2>2, Here, SumsTaken
<1>8. Kept' /\ enabled' = enabled
  BY <1>2, <1>3, <1>5, <1>7, Here, Typed, KeptByViewer
<1>9. Allowed(f)'
  BY <1>2, <1>4, <1>5, <1>6, <1>7, <1>8 DEF Allowed, ServerSilent, ViewerFree
<1> QED
  BY <1>8, <1>9 DEF IInv, Phase

LEMMA ViewAccessStep ==
    ASSUME TransferAssumption, IInv, ViewAccess
    PROVE  IInv'
<1>1. Idle /\ Rest("viewer") = <<>>
  BY ViewerGets DEF ViewAccess
<1>2. /\ UNCHANGED real /\ UNCHANGED temp /\ UNCHANGED snd /\ UNCHANGED rcv
      /\ UNCHANGED posted
      /\ UNCHANGED userAborted /\ UNCHANGED timer /\ UNCHANGED pending
      /\ UNCHANGED files /\ UNCHANGED abort /\ UNCHANGED aborted /\ UNCHANGED old
      /\ UNCHANGED counters
  BY DEF ViewAccess, disk, viewerVars
<1>3. WholeFile'
  BY <1>2, Here, RealKept
<1>4. chan["server"] = <<>>
  BY <1>1 DEF Idle, Gets, ViewAccess
<1>5. PICK o \in Seq(Item) :
        /\ o = IF Size("viewer") = "ok" THEN Bare("listRequest") ELSE <<>>
        /\ o \in {<<>>, Bare("listRequest")}
  BY Empties, Messages, Packets DEF Bare
<1>6. /\ chan' \in [Side -> Seq(Item)] /\ chan'["viewer"] = <<>>
      /\ chan'["server"] = o
  <2>1. Reply("viewer", <<>>, o)
    BY <1>1, <1>5 DEF ViewAccess
  <2> QED
    BY <1>4, <2>1, Empties, Here, ViewerReplies
<1>7. Kept' /\ enabled' = enabled
  BY <1>2, <1>3, <1>6, Here, Typed, KeptByViewer
<1>8. Idle'
  BY <1>1, <1>2, <1>5, <1>6, <1>7 DEF Idle, ServerSilent, ServerFree, ViewerFree
<1> QED
  BY <1>7, <1>8 DEF IInv, Phase

LEMMA ViewListingStep ==
    ASSUME TransferAssumption, IInv, ViewListing
    PROVE  IInv'
<1>1. Idle /\ Rest("viewer") = <<>>
  BY ViewerGets DEF ViewListing
<1>2. /\ UNCHANGED real /\ UNCHANGED temp /\ UNCHANGED snd /\ UNCHANGED rcv
      /\ UNCHANGED posted /\ UNCHANGED userAborted /\ UNCHANGED timer
      /\ UNCHANGED files /\ UNCHANGED abort /\ UNCHANGED aborted /\ UNCHANGED old
      /\ UNCHANGED counters
      /\ pending' \in BOOLEAN /\ ~ pending'
  BY DEF ViewListing, disk
<1>3. WholeFile'
  BY <1>2, Here, RealKept
<1>4. chan["server"] = <<>>
  BY <1>1 DEF Idle, Gets, ViewListing
<1>5. /\ chan' \in [Side -> Seq(Item)] /\ chan'["viewer"] = <<>>
      /\ chan'["server"] = <<>>
  BY <1>1, <1>4, Empties, Here, ViewerReplies DEF ViewListing
<1>6. Kept' /\ enabled' = enabled
  BY <1>2, <1>3, <1>5, Here, Typed, KeptByViewer
<1>7. Idle'
  BY <1>1, <1>2, <1>5, <1>6 DEF Idle, ServerSilent, ServerFree, ViewerFree
<1> QED
  BY <1>6, <1>7 DEF IInv, Phase

LEMMA ViewAcceptStep ==
    ASSUME TransferAssumption, IInv, ViewAccept, ~ strayed'
    PROVE  IInv'
<1>1. PICK f \in File :
        /\ Allowed(f) /\ Body("viewer") = f /\ Rest("viewer") = <<>>
        /\ \/ Size("viewer") = "fail" /\ ServerFree
           \/ /\ Size("viewer") = "ok"
              /\ rcv["server"] = Receiving(f) /\ temp["server"][f] \in Data
              /\ real["viewer"][f] \in Data /\ snd["viewer"].offset = 0
              /\ snd["viewer"].sums \in {None, temp["server"][f]}
  BY ViewerGets DEF ViewAccept
<1>2. /\ UNCHANGED real /\ UNCHANGED temp /\ UNCHANGED rcv
      /\ UNCHANGED posted /\ UNCHANGED userAborted
      /\ UNCHANGED abort /\ UNCHANGED aborted /\ UNCHANGED old
      /\ UNCHANGED counters
  <2>1. UNCHANGED strayed
    BY Here, Typed DEF ViewAccept
  <2> QED
    BY <2>1 DEF ViewAccept, disk, counters
<1>3. WholeFile'
  BY <1>2, Here, RealKept
<1>4. ServerSilent /\ ViewerFree /\ pending /\ chan["server"] = <<>>
  BY <1>1 DEF Allowed
<1>5. CASE Size("viewer") = "fail" /\ ServerFree
  <2>1. PICK d : d = [snd["viewer"] EXCEPT !.error = TRUE]
    OBVIOUS
  <2>2. d \in Sender /\ d.on = snd["viewer"].on
    BY <2>1, Here DEF Sender
  <2>3. OfferNextFile(<<>>, <<>>, d)
    BY <1>1, <1>5, <2>1 DEF ViewAccept
  <2>4. /\ files' \in Seq(File) /\ pending' \in BOOLEAN /\ timer' \in BOOLEAN
        /\ snd' \in [Side -> Sender] /\ snd'["server"] = snd["server"]
        /\ snd'["viewer"].on = d.on
        /\ \/ /\ pending' = pending
              /\ snd'["viewer"].sums = None /\ snd'["viewer"].offset = 0
              /\ \E g \in File : /\ real["viewer"][g] \in Data
                                 /\ Reply("viewer", <<>>, <<>> \o Offer(g))
           \/ ~ pending' /\ Reply("viewer", <<>>, <<>> \o Bare("listRequest"))
    BY <2>2, <2>3, Here, OfferedNext
  <2>5. PICK o \in Seq(Item) :
          /\ Reply("viewer", <<>>, o)
          /\ \/ ~ pending' /\ o = Bare("listRequest")
             \/ /\ pending' /\ snd'["viewer"].sums = None
                /\ snd'["viewer"].offset = 0
                /\ \E g \in File : real["viewer"][g] \in Data /\ o = Offer(g)
    <3>1. /\ Bare("listRequest") \in Seq(Item)
          /\ \A g \in File : Offer(g) \in Seq(Item)
      BY Messages, Packets DEF Bare, Offer
    <3>2. CASE ~ pending' /\ Reply("viewer", <<>>, <<>> \o Bare("listRequest"))
      BY <3>1, <3>2, Empties
    <3>3. ASSUME NEW g \in File, pending' = pending, snd'["viewer"].sums = None,
                 snd'["viewer"].offset = 0, real["viewer"][g] \in Data,
                 Reply("viewer", <<>>, <<>> \o Offer(g))
          PROVE  \E o \in Seq(Item) :
                    /\ Reply("viewer", <<>>, o)
                    /\ pending' /\ snd'["viewer"].sums = None
                    /\ snd'["viewer"].offset = 0
                    /\ \E h \in File : real["viewer"][h] \in Data /\ o = Offer(h)
      BY <1>4, <3>1, <3>3, Empties
    <3> QED
      BY <2>4, <3>2, <3>3
  <2>6. /\ chan' \in [Side -> Seq(Item)] /\ chan'["viewer"] = <<>>
        /\ chan'["server"] = o
    BY <1>4, <2>5, Empties, Here, ViewerReplies
  <2>7. Kept' /\ enabled' = enabled
    BY <1>2, <1>3, <2>4, <2>6, Here, Typed, KeptByViewer
  <2>8. ServerSilent' /\ ServerFree' /\ ViewerFree'
    BY <1>2, <1>4, <1>5, <2>2, <2>4, <2>7 DEF ServerSilent, ServerFree, ViewerFree
  <2>9. \/ ~ pending' /\ chan'["server"] = Bare("listRequest")
        \/ pending' /\ \E g \in File : Offers(g)' /\ chan'["server"] = Offer(g)
    BY <1>2, <2>5, <2>6 DEF Offers
  <2> QED
    BY <2>6, <2>7, <2>8, <2>9, AfterUpload
<1>6. CASE /\ Size("viewer") = "ok"
           /\ rcv["server"] = Receiving(f) /\ temp["server"][f] \in Data
           /\ real["viewer"][f] \in Data /\ snd["viewer"].offset = 0
           /\ snd["viewer"].sums \in {None, temp["server"][f]}
  <2>1. /\ Reply("viewer", <<>>, <<>>)
        /\ snd' = [snd EXCEPT !["viewer"] =
                      Started([@ EXCEPT !.data = real["viewer"][f], !.pos = 0])]
        /\ timer' = TRUE
        /\ UNCHANGED pending /\ UNCHANGED files
    BY <1>1, <1>6, Here, Typed DEF ViewAccept
  <2>2. PICK c : c = real["viewer"][f] /\ c \in Data /\ c \in Content
    BY <1>6 DEF Data, Content
  <2>3. PICK b : b = [snd["viewer"] EXCEPT !.data = c, !.pos = 0]
    OBVIOUS
  <2>4. /\ b \in Sender /\ b.data = c /\ b.pos = 0 /\ b.sums = snd["viewer"].sums
        /\ b.offset = 0
    BY <1>6, <2>2, <2>3, Here DEF Sender
  <2>5. PICK d \in Sender :
          /\ d = Started(b) /\ d.on /\ ~ d.error /\ ~ d.eof
          /\ d.data = c /\ d.sums = snd["viewer"].sums
          /\ d.pos = 0 /\ d.offset = 0
    BY <2>4, StartedFact
  <2>6. /\ snd' \in [Side -> Sender] /\ snd'["viewer"] = d
        /\ snd'["server"] = snd["server"]
    <3>1. snd' = [snd EXCEPT !["viewer"] = d]
      BY <2>1, <2>2, <2>3, <2>5, Here
    <3> QED
      BY <3>1, Here
  <2>7. /\ chan' \in [Side -> Seq(Item)] /\ chan'["viewer"] = <<>>
        /\ chan'["server"] = <<>>
    BY <1>4, <2>1, Empties, Here, ViewerReplies
  <2>8. timer' \in BOOLEAN
    BY <2>1
  <2>9. Kept' /\ enabled' = enabled
    BY <1>2, <1>3, <2>1, <2>6, <2>7, <2>8, Here, Typed, KeptByViewer
  <2>10. PICK r : /\ r = rcv["server"] /\ r.pos = 0 /\ r.file = f
                  /\ r.on /\ ~ r.error
    BY <1>6 DEF Receiving
  <2>11. PICK m \in Data : m = temp["server"][f] /\ d.sums \in {None, m}
    BY <1>6, <2>5
  <2>12. Reading(d)
    BY <2>2, <2>5, <2>11, ReadingStarts
  <2>13. Arriving(r, m, c, d.sums, <<>>)
    <3>1. c \in Versions(f)
      BY <2>2, Here DEF WholeFile, Versions
    <3> QED
      BY <2>2, <2>10, <2>11, <3>1, ArrivingStarts
  <2>14. Uploading'
    <3>1. Uploads' /\ snd'["viewer"].on /\ pending' /\ ReceiverOn(rcv'["server"])
      BY <1>2, <1>4, <2>1, <2>5, <2>6, <2>7, <2>9, <2>10
      DEF Uploads, ServerSilent, ViewerFree, ReceiverOn
    <3>2. /\ Arriving(rcv'["server"], temp'["server"][rcv'["server"].file],
                      snd'["viewer"].data, snd'["viewer"].sums, chan'["server"])
          /\ chan'["server"] \in Chunked
      BY <1>2, <2>5, <2>6, <2>7, <2>10, <2>11, <2>13, Empties
    <3>3. snd'["viewer"].pos = rcv'["server"].pos + Len(chan'["server"])
      BY <1>2, <2>5, <2>6, <2>7, <2>10
    <3> QED
      BY <2>6, <2>12, <3>1, <3>2, <3>3 DEF Uploading
  <2> QED
    BY <2>9, <2>14 DEF IInv, Phase
<1> QED
  BY <1>1, <1>5, <1>6
(* What follows the end of a download.                                     *)
LEMMA FinishStep ==
    ASSUME IInv, NEW r \in Receiver, Downloads, ServerSilent,
           r.file = rcv["viewer"].file, ReceiverOn(rcv["viewer"]),
           temp["viewer"][r.file] \in Data,
           ~ r.error => Upto(temp["viewer"][r.file], r.pos) \in Versions(r.file),
           FinishFileReception(r, <<>>),
           UNCHANGED <<snd, userAborted, posted, timer, abort, aborted, old, counters>>,
           \/ Rest("viewer") = <<>> /\ chan["server"] = <<>>
           \/ Rest("viewer") = <<>> /\ chan["server"] = Bare("abort") /\ aborted
           \/ /\ chan["server"] = <<>> /\ aborted
              /\ \E n \in {"ok", "fail"} : Rest("viewer") = Packet("access", n, None)
    PROVE  IInv'
<1>1. /\ UNCHANGED snd /\ UNCHANGED userAborted /\ UNCHANGED posted
      /\ UNCHANGED timer /\ UNCHANGED abort /\ UNCHANGED aborted /\ UNCHANGED old
      /\ UNCHANGED counters
      /\ FinishFiles("viewer", r) /\ AdvanceFiles
  BY DEF FinishFileReception
<1>2. r.file \in File
  BY DEF ReceiverOn
<1>3. /\ real' \in [Side -> [File -> Content]]
      /\ temp' \in [Side -> [File -> Content]]
      /\ rcv' \in [Side -> Receiver] /\ WholeFile' /\ ~ rcv'["viewer"].on
      /\ rcv'["server"] = rcv["server"]
  <2>1. "server" \in Side \ {"viewer"}
    BY DEF Side
  <2> QED
    BY <1>1, <1>2, <2>1, Here, Finished
<1>4. /\ files' \in Seq(File) /\ pending' \in BOOLEAN /\ NextRequest \in Seq(Item)
      /\ \/ ~ pending' /\ NextRequest = <<>>
         \/ ~ abort /\ pending' /\ \E f \in File : NextRequest = Request(f)
  BY <1>1, Here, NextRequests DEF Downloads
<1>5. PICK q \in Seq(Item) : q = NextRequest
  BY <1>4
<1>6. PICK left \in Seq(Item) : left = Rest("viewer")
  <2>1. \A n \in {"ok", "fail"} : Packet("access", n, None) \in Seq(Item)
    BY Messages, Packets
  <2> QED
    BY <2>1, Empties
<1>7. /\ chan' \in [Side -> Seq(Item)] /\ chan'["viewer"] = left
      /\ chan'["server"] = chan["server"] \o q
  <2>1. Reply("viewer", left, q)
    BY <1>5, <1>6, Empties DEF FinishFileReception
  <2> QED
    BY <2>1, Here, ViewerReplies
<1>8. Kept' /\ enabled' = enabled
  BY <1>1, <1>3, <1>4, <1>7, Here, Typed, KeptByViewer
<1>9. ServerSilent' /\ ServerFree' /\ ViewerFree'
  BY <1>1, <1>3 DEF Downloads, ServerSilent, ServerFree, ViewerFree
<1>10. CASE Rest("viewer") = <<>> /\ chan["server"] = <<>>
  <2>1. chan'["server"] = q /\ chan'["viewer"] = <<>>
    BY <1>6, <1>7, <1>10, Empties
  <2>2. \/ ~ pending' /\ chan'["server"] \in {<<>>, HeaderFailed}
        \/ /\ pending'
           /\ \E f \in File :
                 chan'["server"] \in {Request(f), HeaderFailed \o Request(f)}
    BY <1>4, <1>5, <2>1
  <2> QED
    BY <1>8, <1>9, <2>1, <2>2, AfterDownload
<1>11. CASE aborted
  <2>1. ~ pending' /\ q = <<>>
    BY <1>4, <1>5, <1>11, Here
  <2>2. chan'["server"] = chan["server"]
    BY <1>7, <2>1, Empties, Here
  <2>3. Idle'
    BY <1>6, <1>7, <1>9, <2>1, <2>2 DEF Idle
  <2> QED
    BY <1>8, <2>3 DEF IInv, Phase
<1> QED
  BY <1>10, <1>11

LEMMA ViewEndOfFileStep ==
    ASSUME TransferAssumption, IInv, ViewEndOfFile
    PROVE  IInv'
<1>1. /\ DownloadEnds(<<>>) /\ rcv["viewer"].pos = Len(snd["server"].data)
      /\ \/ Rest("viewer") = <<>> /\ chan["server"] = <<>>
         \/ Rest("viewer") = <<>> /\ chan["server"] = Bare("abort") /\ aborted
         \/ /\ chan["server"] = <<>> /\ aborted
            /\ \E n \in {"ok", "fail"} : Rest("viewer") = Packet("access", n, None)
  BY ViewerGets DEF ViewEndOfFile
<1>2. /\ Downloads /\ ServerSilent /\ ReceiverOn(rcv["viewer"])
      /\ Arriving(rcv["viewer"], temp["viewer"][rcv["viewer"].file],
                  snd["server"].data, snd["server"].sums, <<>>)
  BY <1>1 DEF DownloadEnds
<1>3. PICK r \in Receiver : r = rcv["viewer"]
  BY Here
<1>4. temp["viewer"][r.file] \in Data
  BY <1>2, <1>3 DEF Arriving
<1>5. Upto(temp["viewer"][r.file], r.pos) \in Versions(r.file)
  <2>1. PICK d, m : /\ d = snd["server"] /\ m = temp["viewer"][r.file]
                    /\ Arriving(r, m, d.data, d.sums, <<>>)
                    /\ r.pos = Len(d.data)
    BY <1>1, <1>2, <1>3
  <2>2. Upto(m, r.pos) = d.data /\ d.data \in Versions(r.file)
    BY <2>1, Whole
  <2> QED
    BY <2>1, <2>2
<1>6. FinishFileReception(r, <<>>)
  BY <1>2, <1>3 DEF ViewEndOfFile, ReceiverOn
<1>7. UNCHANGED <<snd, userAborted, posted, timer, abort, aborted, old, counters>>
  BY DEF ViewEndOfFile
<1> QED
  BY <1>1, <1>2, <1>3, <1>4, <1>5, <1>6, <1>7, FinishStep

LEMMA ViewAbortStep ==
    ASSUME TransferAssumption, IInv, ViewAbort
    PROVE  IInv'
<1>1. /\ DownloadEnds(<<>>) /\ aborted
      /\ Rest("viewer") = <<>> /\ chan["server"] = <<>>
  BY ViewerGets DEF ViewAbort
<1>2. /\ Downloads /\ ServerSilent /\ ReceiverOn(rcv["viewer"])
      /\ Arriving(rcv["viewer"], temp["viewer"][rcv["viewer"].file],
                  snd["server"].data, snd["server"].sums, <<>>)
  BY <1>1 DEF DownloadEnds
<1>3. PICK r : r = [rcv["viewer"] EXCEPT !.error = TRUE]
  OBVIOUS
<1>4. r \in Receiver /\ r.error /\ r.file = rcv["viewer"].file
  BY <1>3, Here DEF Receiver
<1>5. temp["viewer"][r.file] \in Data
  BY <1>2, <1>4 DEF Arriving
<1>6. FinishFileReception(r, <<>>) /\ UNCHANGED old
  BY <1>2, <1>3 DEF ViewAbort, ReceiverOn
<1>7. UNCHANGED <<snd, userAborted, posted, timer, abort, aborted, old, counters>>
  BY <1>6 DEF ViewAbort
<1> QED
  BY <1>1, <1>2, <1>4, <1>5, <1>6, <1>7, FinishStep

(* The viewer takes a packet of a download.                                *)
LEMMA ViewerTakes ==
    ASSUME IInv, "write" \notin CanFail, ViewPacket,
           NEW p \in Chunked, p # <<>>, NEW t \in Seq(Item),
           chan["viewer"] = p \o t, ReceiverOn(rcv["viewer"]),
           NEW data, NEW sums,
           Arriving(rcv["viewer"], temp["viewer"][rcv["viewer"].file],
                    data, sums, p)
    PROVE  /\ Kept' /\ pending' = pending /\ enabled' = enabled
           /\ snd' = snd /\ posted' = posted
           /\ rcv'["server"] = rcv["server"]
           /\ \/ aborted' = aborted /\ chan'["server"] = chan["server"]
              \/ ~ aborted /\ aborted' /\ chan'["server"] = chan["server"] \o Bare("abort")
           /\ chan'["viewer"] = Tail(p) \o t
           /\ ReceiverOn(rcv'["viewer"])
           /\ Arriving(rcv'["viewer"],
                       temp'["viewer"][rcv'["viewer"].file], data, sums, Tail(p))
           /\ rcv'["viewer"].pos + Len(Tail(p)) = rcv["viewer"].pos + Len(p)
<1>1. PICK q \in Chunked, c \in Chunks :
        /\ q = Tail(p) /\ c = Head(p) /\ Rest("viewer") = q \o t
        /\ Size("viewer") = c.size /\ Body("viewer") = c.body
  <2>1. /\ chan["viewer"] # <<>> /\ Head(chan["viewer"]) = Head(p)
        /\ Tail(chan["viewer"]) = Tail(p) \o t
        /\ Head(p) \in Chunks /\ Tail(p) \in Chunked
    BY NextPacket
  <2> QED
    BY <2>1 DEF Rest, Size, Body
<1>2. q \o t \in Seq(Item)
  BY Behind
<1>3. /\ UNCHANGED snd /\ UNCHANGED userAborted /\ UNCHANGED posted
      /\ UNCHANGED timer /\ UNCHANGED abort /\ UNCHANGED old /\ UNCHANGED counters
  BY DEF ViewPacket
<1>4. PICK r \in Receiver : /\ r = rcv["viewer"] /\ r.on /\ ~ r.error
                            /\ r.file \in File /\ r.pos \in Nat
  BY Here DEF ReceiverOn, Receiver
<1>5. PICK m \in Data : m = temp["viewer"][r.file]
  BY <1>4 DEF Arriving
<1>6. PICK s : s = [r EXCEPT !.pos = r.pos + 1]
  OBVIOUS
<1>7. /\ s \in Receiver /\ s.pos = r.pos + 1 /\ s.file = r.file
      /\ s.on /\ ~ s.error
  <2>1. PICK n \in Nat : n = r.pos + 1
    BY <1>4
  <2>2. s = [r EXCEPT !.pos = n]
    BY <1>6, <2>1
  <2> QED
    BY <1>4, <2>1, <2>2 DEF Receiver
<1>8. PICK w : w = IF c.size = "same" THEN m ELSE Written(m, r.pos, c.body)
  OBVIOUS
<1>9. /\ Arriving(s, w, data, sums, q) /\ w \in Data
      /\ s.pos + Len(q) = r.pos + Len(p)
  <2>1. w = IF Head(p).size = "same" THEN m ELSE Written(m, r.pos, Head(p).body)
    BY <1>1, <1>8
  <2>2. Arriving(r, m, data, sums, p)
    BY <1>4, <1>5
  <2>3. /\ Arriving(s, w, data, sums, Tail(p))
        /\ s.pos + Len(Tail(p)) = r.pos + Len(p)
    BY <1>7, <2>1, <2>2, PacketTaken
  <2>4. w \in Data
    BY <2>3 DEF Arriving
  <2> QED
    BY <1>1, <2>3, <2>4
<1>10. /\ UNCHANGED real /\ rcv' = [rcv EXCEPT !["viewer"] = s]
       /\ UNCHANGED files /\ UNCHANGED pending
       /\ Reply("viewer", q \o t, AbortNow)
       /\ aborted' = (aborted \/ abort)
       /\ temp' = IF c.size = "same" THEN temp
                  ELSE [temp EXCEPT !["viewer"][r.file] = Written(@, r.pos, c.body)]
  BY <1>1, <1>4, <1>6, Here DEF ViewPacket, May
<1>11. PICK o \in Seq(Item) :
         /\ o = AbortNow
         /\ \/ aborted' = aborted /\ o = <<>>
            \/ ~ aborted /\ aborted' /\ o = Bare("abort")
  <2>1. Bare("abort") \in Seq(Item) /\ <<>> \in Seq(Item)
    BY Messages, Packets, Empties DEF Bare
  <2>2. CASE abort /\ ~ aborted
    <3>1. AbortNow = Bare("abort") /\ aborted'
      BY <1>10, <2>2 DEF AbortNow, TellAbort
    <3> QED
      BY <2>1, <2>2, <3>1
  <2>3. CASE ~ (abort /\ ~ aborted)
    <3>1. AbortNow = <<>>
      BY <2>3 DEF AbortNow, TellAbort
    <3>2. aborted' = aborted
      <4>1. aborted \in BOOLEAN /\ abort \in BOOLEAN /\ (aborted \/ abort) = aborted
        BY <2>3, Here, Typed
      <4> QED
        BY <1>10, <4>1
    <3> QED
      BY <2>1, <3>1, <3>2
  <2> QED
    BY <2>2, <2>3
<1>12. /\ chan' \in [Side -> Seq(Item)] /\ chan'["viewer"] = q \o t
       /\ chan'["server"] = chan["server"] \o o
  BY <1>2, <1>10, <1>11, Here, ViewerReplies
<1>13. /\ rcv' \in [Side -> Receiver] /\ rcv'["viewer"] = s
       /\ rcv'["server"] = rcv["server"]
  BY <1>7, <1>10, Here
<1>14. temp' \in [Side -> [File -> Content]] /\ temp'["viewer"][r.file] = w
  <2>1. CASE c.size = "same"
    BY <1>5, <1>8, <1>10, <2>1, Here
  <2>2. CASE c.size # "same"
    <3>1. temp' = [temp EXCEPT !["viewer"][r.file] = w]
      BY <1>4, <1>5, <1>8, <1>10, <2>2, Here
    <3>2. w \in Content
      BY <1>9 DEF Data, Content
    <3> QED
      BY <1>4, <3>1, <3>2, Here
  <2> QED
    BY <2>1, <2>2
<1>15. WholeFile'
  BY <1>10, Here, RealKept
<1>16. Kept' /\ enabled' = enabled
  <2>1. aborted' \in BOOLEAN /\ (aborted' => abort)
    <3>1. aborted' \in BOOLEAN
      BY <1>10
    <3>2. aborted' => abort
      BY <1>10, Here
    <3> QED
      BY <3>1, <3>2
  <2> QED
    BY <1>3, <1>10, <1>12, <1>13, <1>14, <1>15, <2>1, Here, Typed, KeptByViewer
<1>17. ReceiverOn(rcv'["viewer"])
  BY <1>4, <1>7, <1>13 DEF ReceiverOn
<1>18. Arriving(rcv'["viewer"], temp'["viewer"][rcv'["viewer"].file], data, sums, q)
  BY <1>7, <1>9, <1>13, <1>14
<1>19. \/ aborted' = aborted /\ chan'["server"] = chan["server"]
       \/ ~ aborted /\ aborted' /\ chan'["server"] = chan["server"] \o Bare("abort")
  BY <1>11, <1>12, Here, Empties
<1> QED
  BY <1>1, <1>3, <1>4, <1>9, <1>10, <1>12, <1>13, <1>16, <1>17, <1>18, <1>19

LEMMA ViewPacketStep ==
    ASSUME TransferAssumption, "write" \notin CanFail, IInv, ViewPacket
    PROVE  IInv'
<1>1. Gets("viewer", "packet")
  BY DEF ViewPacket
<1>2. CASE Downloading
  <2>1. PICK p \in Chunked : p = chan["viewer"] /\ p # <<>>
    BY <1>1, <1>2 DEF Downloading, Gets
  <2>2. Tail(p) \in Chunked
    BY <2>1, Empties, NextPacket
  <2>3. PICK t \in Seq(Item) : chan["viewer"] = p \o t /\ Tail(p) \o t = Tail(p)
    BY <2>1, <2>2, Empties, Behind
  <2>4. PICK d : d = snd["server"]
    OBVIOUS
  <2>5. /\ ReceiverOn(rcv["viewer"]) /\ Downloads /\ d.on /\ posted = 1 /\ Reading(d)
        /\ Arriving(rcv["viewer"], temp["viewer"][rcv["viewer"].file],
                    d.data, d.sums, p)
        /\ d.pos = rcv["viewer"].pos + Len(p)
        /\ \/ chan["server"] = <<>> /\ (d.error => aborted)
           \/ chan["server"] = Bare("abort") /\ aborted /\ ~ d.error
    BY <1>2, <2>1, <2>4 DEF Downloading
  <2>6. /\ Kept' /\ pending' = pending /\ enabled' = enabled
        /\ snd' = snd /\ posted' = posted
        /\ rcv'["server"] = rcv["server"]
        /\ \/ aborted' = aborted /\ chan'["server"] = chan["server"]
           \/ ~ aborted /\ aborted' /\ chan'["server"] = chan["server"] \o Bare("abort")
        /\ chan'["viewer"] = Tail(p)
        /\ ReceiverOn(rcv'["viewer"])
        /\ Arriving(rcv'["viewer"],
                    temp'["viewer"][rcv'["viewer"].file], d.data, d.sums, Tail(p))
        /\ rcv'["viewer"].pos + Len(Tail(p)) = rcv["viewer"].pos + Len(p)
    BY <2>1, <2>3, <2>5, ViewerTakes
  <2>7. \/ chan'["server"] = <<>> /\ (d.error => aborted')
        \/ chan'["server"] = Bare("abort") /\ aborted' /\ ~ d.error
    <3>1. Bare("abort") \in Seq(Item)
      BY Messages, Packets DEF Bare
    <3> QED
      <4>1. CASE aborted' = aborted /\ chan'["server"] = chan["server"]
        BY <2>5, <4>1
      <4>2. CASE /\ ~ aborted /\ aborted'
                 /\ chan'["server"] = chan["server"] \o Bare("abort")
        <5>1. chan["server"] = <<>> /\ ~ d.error
          BY <2>5, <4>2
        <5>2. chan'["server"] = Bare("abort")
          BY <3>1, <4>2, <5>1, Empties
        <5> QED
          BY <4>2, <5>1, <5>2
      <4> QED
        BY <2>6, <4>1, <4>2
  <2>8. Downloading'
    <3>1. Downloads'
      BY <2>5, <2>6 DEF Downloads
    <3> QED
      BY <2>2, <2>4, <2>5, <2>6, <2>7, <3>1 DEF Downloading
  <2> QED
    BY <2>6, <2>8 DEF IInv, Phase
<1>3. ASSUME NEW p \in Chunked, DownloadEnds(p), p # <<>>
      PROVE  IInv'
  <2>1. /\ Bare("abort") \in Seq(Item) /\ Bare("endOfFile") \in Seq(Item)
        /\ \A n \in {"ok", "fail"} :
              Bare("endOfFile") \o Packet("access", n, None) \in Seq(Item)
    <3>1. /\ Bare("abort") \in Seq(Item) /\ Bare("endOfFile") \in Seq(Item)
          /\ \A n \in {"ok", "fail"} : Packet("access", n, None) \in Seq(Item)
      BY Messages, Packets DEF Bare
    <3> QED
      BY <3>1, ConcatProperties
  <2>2. PICK d : d = snd["server"]
    OBVIOUS
  <2>3. PICK t \in Seq(Item) :
          /\ chan["viewer"] = p \o t
          /\ \/ t = Bare("abort") /\ chan["server"] = <<>> /\ aborted
             \/ /\ rcv["viewer"].pos + Len(p) = Len(d.data)
                /\ \/ t = Bare("endOfFile") /\ chan["server"] = <<>>
                   \/ t = Bare("endOfFile") /\ chan["server"] = Bare("abort") /\ aborted
                   \/ /\ chan["server"] = <<>> /\ aborted
                      /\ \E n \in {"ok", "fail"} :
                            t = Bare("endOfFile") \o Packet("access", n, None)
    BY <1>3, <2>1, <2>2 DEF DownloadEnds
  <2>4. /\ ReceiverOn(rcv["viewer"]) /\ Downloads /\ ServerSilent
        /\ Arriving(rcv["viewer"], temp["viewer"][rcv["viewer"].file],
                    d.data, d.sums, p)
    BY <1>3, <2>2 DEF DownloadEnds
  <2>5. /\ Kept' /\ pending' = pending /\ enabled' = enabled
        /\ snd' = snd /\ posted' = posted
        /\ rcv'["server"] = rcv["server"]
        /\ \/ aborted' = aborted /\ chan'["server"] = chan["server"]
           \/ ~ aborted /\ aborted' /\ chan'["server"] = chan["server"] \o Bare("abort")
        /\ chan'["viewer"] = Tail(p) \o t
        /\ ReceiverOn(rcv'["viewer"])
        /\ Arriving(rcv'["viewer"],
                    temp'["viewer"][rcv'["viewer"].file], d.data, d.sums, Tail(p))
        /\ rcv'["viewer"].pos + Len(Tail(p)) = rcv["viewer"].pos + Len(p)
    BY <1>3, <2>3, <2>4, ViewerTakes
  <2>6. PICK q \in Chunked : q = Tail(p)
    BY <1>3, Empties, NextPacket
  <2>7. Downloads' /\ ServerSilent'
    BY <2>4, <2>5 DEF Downloads, ServerSilent
  <2>8. \/ t = Bare("abort") /\ chan'["server"] = <<>> /\ aborted'
        \/ /\ rcv'["viewer"].pos + Len(q) = Len(d.data)
           /\ \/ t = Bare("endOfFile") /\ chan'["server"] = <<>>
              \/ t = Bare("endOfFile") /\ chan'["server"] = Bare("abort") /\ aborted'
              \/ /\ chan'["server"] = <<>> /\ aborted'
                 /\ \E n \in {"ok", "fail"} :
                       t = Bare("endOfFile") \o Packet("access", n, None)
    <3>1. CASE aborted' = aborted /\ chan'["server"] = chan["server"]
      BY <2>3, <2>5, <2>6, <3>1
    <3>2. CASE /\ ~ aborted /\ aborted'
               /\ chan'["server"] = chan["server"] \o Bare("abort")
      BY <2>1, <2>3, <2>5, <2>6, <3>2, Empties
    <3> QED
      BY <2>5, <3>1, <3>2
  <2>9. DownloadEnds(q)'
    BY <2>2, <2>5, <2>6, <2>7, <2>8 DEF DownloadEnds
  <2> QED
    BY <2>5, <2>9 DEF IInv, Phase
<1> QED
  BY <1>1, <1>2, <1>3, ViewerGets
(* The timer sends the next packet of an upload, or ends it.               *)
LEMMA HeadStays ==
    ASSUME NEW q \in Seq(Item), NEW u \in Seq(Item), q # <<>>
    PROVE  q \o u \in Seq(Item) /\ q \o u # <<>> /\ Head(q \o u) = Head(q)
<1>1. /\ q \o u \in Seq(Item) /\ Len(q \o u) = Len(q) + Len(u)
      /\ \A i \in 1 .. Len(q) + Len(u) :
           (q \o u)[i] = IF i <= Len(q) THEN q[i] ELSE u[i - Len(q)]
  BY ConcatProperties
<1>2. PICK c : c = q \o u
  OBVIOUS
<1>3. Len(q) \in Nat \ {0} /\ Len(u) \in Nat
  BY EmptySeq
<1>4. c \in Seq(Item) /\ Len(c) # 0 /\ c[1] = q[1]
  BY <1>1, <1>2, <1>3
<1>5. c # <<>> /\ Head(c) = c[1] /\ Head(q) = q[1]
  BY <1>4
<1> QED
  BY <1>2, <1>4, <1>5

(* The viewer's sender as it stands, when there is one.                    *)
LEMMA ViewerSends ==
    ASSUME IInv, snd["viewer"].on
    PROVE  /\ Uploads /\ Reading(snd["viewer"])
           /\ \/ Uploading
              \/ Stuck /\ ~ enabled /\ chan["server"] # <<>>
                 /\ Head(chan["server"]).type = "payload"
<1>1. Uploading \/ Stuck
  BY Here DEF Phase, Idle, ViewerFree, Downloading, Downloads, Requested, Answered,
     Accepted, Offered, Allowed, DownloadEnds, UploadEnds
<1> QED
  BY <1>1 DEF Uploading, Stuck, Gets

(* Messages behind packets, and messages behind those.                     *)
LEMMA Joined ==
    \A p \in Chunked, u, k \in Seq(Item) : p \o (u \o k) = (p \o u) \o k
BY Behind

(* The viewer ends the file it sends, behind the packets u.                *)
LEMMA Farewells ==
    ASSUME IInv, snd["viewer"].on, NEW u \in Chunked,
           NEW q \in Chunked, Uploading => q = chan["server"] \o u,
           NEW d \in Sender, ~ d.on, NEW e \in {"endOfFile", "abort"},
           Uploading /\ enabled =>
             \E data, sums \in Data \cup {None} :
                /\ Arriving(rcv["server"], temp["server"][rcv["server"].file],
                            data, sums, q)
                /\ e = "endOfFile" => rcv["server"].pos + Len(q) = Len(data),
           OfferNextFile(chan["viewer"], u \o Bare(e), d),
           UNCHANGED <<disk, rcv, userAborted, posted, abort, aborted, old, counters>>
    PROVE  IInv'
<1>1. /\ Uploads
      /\ \/ Uploading /\ pending
         \/ Stuck /\ ~ enabled /\ chan["server"] # <<>>
            /\ Head(chan["server"]).type = "payload"
  BY ViewerSends DEF Uploading
<1>2. /\ UNCHANGED real /\ UNCHANGED temp /\ UNCHANGED rcv
      /\ UNCHANGED posted /\ UNCHANGED userAborted
      /\ UNCHANGED abort /\ UNCHANGED aborted /\ UNCHANGED old
      /\ UNCHANGED counters
  BY DEF disk
<1>3. WholeFile'
  BY <1>2, Here, RealKept
<1>4. PICK b \in Seq(Item) : b = Bare(e) /\ u \o b \in Seq(Item)
  <2>1. Bare(e) \in Seq(Item)
    BY Messages, Packets DEF Bare
  <2> QED
    BY <2>1, Behind
<1>5. /\ files' \in Seq(File) /\ pending' \in BOOLEAN /\ timer' \in BOOLEAN
      /\ snd' \in [Side -> Sender] /\ snd'["server"] = snd["server"]
      /\ ~ snd'["viewer"].on
      /\ \/ /\ pending' = pending
            /\ snd'["viewer"].sums = None /\ snd'["viewer"].offset = 0
            /\ \E g \in File :
                  /\ real["viewer"][g] \in Data
                  /\ Reply("viewer", chan["viewer"], (u \o Bare(e)) \o Offer(g))
         \/ /\ ~ pending'
            /\ Reply("viewer", chan["viewer"], (u \o Bare(e)) \o Bare("listRequest"))
  BY Here, OfferedNext
<1>6. PICK l \in Seq(Item) :
        /\ Reply("viewer", chan["viewer"], (u \o b) \o l)
        /\ \/ ~ pending' /\ l = Bare("listRequest")
           \/ /\ pending' = pending
              /\ snd'["viewer"].sums = None /\ snd'["viewer"].offset = 0
              /\ \E g \in File : real["viewer"][g] \in Data /\ l = Offer(g)
  <2>1. Bare("listRequest") \in Seq(Item) /\ \A g \in File : Offer(g) \in Seq(Item)
    BY Messages, Packets DEF Bare, Offer
  <2> QED
    BY <1>4, <1>5, <2>1
<1>7. b \o l \in Seq(Item) /\ (u \o b) \o l = u \o (b \o l)
      /\ u \o (b \o l) \in Seq(Item)
  <2>1. b \o l \in Seq(Item)
    BY ConcatProperties
  <2>2. (u \o b) \o l = u \o (b \o l)
    BY ONLY u \in Chunked, b \in Seq(Item), l \in Seq(Item), Behind
  <2>3. u \o (b \o l) \in Seq(Item)
    BY ONLY u \in Chunked, b \in Seq(Item), <2>1, Behind
  <2> QED
    BY <2>1, <2>2, <2>3
<1>8. /\ chan' \in [Side -> Seq(Item)] /\ chan'["viewer"] = <<>>
      /\ chan'["server"] = chan["server"] \o (u \o (b \o l))
  <2>1. chan["viewer"] = <<>>
    BY <1>1 DEF Uploads
  <2>2. Reply("viewer", <<>>, u \o (b \o l))
    BY <1>6, <1>7, <2>1
  <2> QED
    BY <1>7, <2>2, Empties, Here, ViewerReplies
<1>9. Kept' /\ enabled' = enabled
  BY <1>2, <1>3, <1>5, <1>8, Here, Typed, KeptByViewer
<1>10. Uploads' /\ ~ snd'["viewer"].on
  BY <1>1, <1>2, <1>5, <1>8 DEF Uploads, ServerSilent
<1>11. CASE Uploading /\ pending
  <2>1. chan["server"] \in Chunked /\ ReceiverOn(rcv["server"])
    BY <1>11 DEF Uploading
  <2>2. chan'["server"] = q \o (b \o l)
    <3>1. PICK p \in Chunked : p = chan["server"]
      BY <2>1
    <3>2. PICK v \in Seq(Item) : v = u
      BY Empties, Behind
    <3>3. p \o (u \o (b \o l)) = (p \o u) \o (b \o l)
      <4>1. PICK k \in Seq(Item) : k = b \o l
        BY <1>7
      <4>2. p \o (v \o k) = (p \o v) \o k
        BY Joined
      <4> QED
        BY <3>2, <4>1, <4>2
    <3> QED
      BY <1>8, <1>11, <3>1, <3>3
  <2>3. \/ ~ pending' /\ chan'["server"] = q \o (Bare(e) \o Bare("listRequest"))
        \/ /\ pending'
           /\ \E f \in File : Offers(f)' /\ chan'["server"] = q \o (Bare(e) \o Offer(f))
    BY <1>2, <1>4, <1>6, <1>11, <2>2 DEF Offers
  <2>4. enabled' =>
          \E data, sums \in Data \cup {None} :
            /\ Arriving(rcv'["server"], temp'["server"][rcv'["server"].file],
                        data, sums, q)
            /\ e = "endOfFile" => rcv'["server"].pos + Len(q) = Len(data)
    BY <1>2, <1>9, <1>11
  <2>5. UploadEnds(q, e)'
    BY <1>2, <1>10, <2>1, <2>3, <2>4 DEF UploadEnds
  <2> QED
    BY <1>9, <2>5 DEF IInv, Phase
<1>12. CASE /\ Stuck /\ ~ enabled /\ chan["server"] # <<>>
            /\ Head(chan["server"]).type = "payload"
  <2>1. chan'["server"] # <<>> /\ Head(chan'["server"]).type = "payload"
    BY <1>7, <1>8, <1>12, Here, HeadStays
  <2>2. Stuck'
    BY <1>9, <1>10, <1>12, <2>1 DEF Stuck, Gets
  <2> QED
    BY <1>9, <2>2 DEF IInv, Phase
<1> QED
  BY <1>1, <1>11, <1>12

LEMMA TimerChunkStep ==
    ASSUME TransferAssumption, IInv, TimerChunk
    PROVE  IInv'
<1>1. PICK d \in Sender : d = snd["viewer"] /\ d.on
  BY Here DEF TimerChunk
<1>2. /\ Uploads /\ Reading(d)
      /\ \/ Uploading
         \/ Stuck /\ ~ enabled /\ chan["server"] # <<>>
            /\ Head(chan["server"]).type = "payload"
  BY <1>1, ViewerSends
<1>3. UNCHANGED <<disk, rcv, userAborted, posted, abort, aborted, old, counters>>
  BY DEF TimerChunk
<1>4. /\ UNCHANGED real /\ UNCHANGED temp /\ UNCHANGED rcv
      /\ UNCHANGED posted /\ UNCHANGED userAborted
      /\ UNCHANGED abort /\ UNCHANGED aborted /\ UNCHANGED old
      /\ UNCHANGED counters
  BY <1>3 DEF disk
<1>5. WholeFile'
  BY <1>4, Here, RealKept
<1>6. PICK r, m : r = rcv["server"] /\ m = temp["server"][rcv["server"].file]
                  /\ r.pos \in Nat
  BY Here DEF Receiver
<1>7. ASSUME Uploading
      PROVE  /\ chan["server"] \in Chunked /\ ReceiverOn(rcv["server"]) /\ pending
             /\ enabled => /\ Arriving(r, m, d.data, d.sums, chan["server"])
                           /\ d.pos = r.pos + Len(chan["server"])
  BY <1>1, <1>6, <1>7 DEF Uploading
<1>8. d.data \in Data /\ d.sums \in Data \cup {None}
  BY <1>2 DEF Reading, Sender, Content, Data
<1>9. CASE /\ d.eof \/ d.error
           /\ OfferNextFile(chan["viewer"], Farewell(d), Ended(d))
  <2>1. PICK e \in {"endOfFile", "abort"} : Farewell(d) = Bare(e)
                                            /\ (e = "endOfFile" => d.eof)
    BY <1>9 DEF Farewell
  <2>2. PICK b \in Sender : b = Ended(d) /\ ~ b.on
    BY EndedFact
  <2>3. PICK q \in Chunked, u \in Chunked :
          u = <<>> /\ (Uploading => q = chan["server"] /\ q = chan["server"] \o u)
    <3>1. <<>> \in Chunked
      BY Empties
    <3>2. chan["server"] \o <<>> = chan["server"]
      BY Here, Empties
    <3> QED
      BY <1>7, <3>1, <3>2
  <2>4. Uploading /\ enabled =>
          /\ Arriving(r, m, d.data, d.sums, q)
          /\ e = "endOfFile" => r.pos + Len(q) = Len(d.data)
    BY <1>2, <1>7, <2>1, <2>3 DEF Reading
  <2>5. u \o Bare(e) = Bare(e)
    BY <2>3, Empties, Messages, Packets DEF Bare
  <2>6. OfferNextFile(chan["viewer"], u \o Bare(e), b)
    BY <1>9, <2>1, <2>2, <2>5
  <2>7. Uploading /\ enabled =>
          \E data, sums \in Data \cup {None} :
             /\ Arriving(rcv["server"], temp["server"][rcv["server"].file],
                         data, sums, q)
             /\ e = "endOfFile" => rcv["server"].pos + Len(q) = Len(data)
    BY <1>6, <1>8, <2>4
  <2> QED
    BY <1>1, <1>3, <2>2, <2>3, <2>6, <2>7, Farewells
<1>10. CASE /\ ~ (d.eof \/ d.error) /\ AtEnd(d)
            /\ snd' = [snd EXCEPT !["viewer"].eof = TRUE]
            /\ UNCHANGED <<chan, files, pending, timer>>
  <2>1. PICK b \in Sender :
          /\ b = [d EXCEPT !.eof = TRUE] /\ Reading(b) /\ b.data = d.data
          /\ b.sums = d.sums /\ b.pos = d.pos /\ b.on
    <3>1. PICK b : b = [d EXCEPT !.eof = TRUE]
      OBVIOUS
    <3>2. /\ b \in Sender /\ Reading(b) /\ b.data = d.data
          /\ b.sums = d.sums /\ b.pos = d.pos /\ b.on = d.on
      BY <1>2, <1>10, <3>1, StillReading
    <3> QED
      BY <1>1, <3>1, <3>2
  <2>2. /\ snd' \in [Side -> Sender] /\ snd'["viewer"] = b
        /\ snd'["server"] = snd["server"]
    <3>1. snd' = [snd EXCEPT !["viewer"] = b]
      BY <1>1, <1>10, <2>1, Here
    <3> QED
      BY <3>1, Here
  <2>3. UNCHANGED chan /\ UNCHANGED files /\ UNCHANGED pending /\ UNCHANGED timer
    BY <1>10
  <2>4. Kept' /\ enabled' = enabled
    BY <1>4, <1>5, <2>2, <2>3, Here, Typed, KeptByViewer
  <2>5. Uploads'
    BY <1>2, <1>4, <2>2, <2>3 DEF Uploads, ServerSilent
  <2>6. CASE Uploading
    <3>1. /\ chan'["server"] \in Chunked /\ ReceiverOn(rcv'["server"]) /\ pending'
          /\ enabled' =>
               /\ Arriving(rcv'["server"], temp'["server"][rcv'["server"].file],
                           snd'["viewer"].data, snd'["viewer"].sums, chan'["server"])
               /\ snd'["viewer"].pos = rcv'["server"].pos + Len(chan'["server"])
      BY <1>4, <1>6, <1>7, <2>1, <2>2, <2>3, <2>4, <2>6
    <3>2. Uploading'
      BY <2>1, <2>2, <2>5, <3>1 DEF Uploading
    <3> QED
      BY <2>4, <3>2 DEF IInv, Phase
  <2>7. CASE ~ Uploading
    <3>1. Stuck'
      BY <1>2, <2>1, <2>2, <2>3, <2>4, <2>5, <2>7 DEF Stuck, Gets
    <3> QED
      BY <2>4, <3>1 DEF IInv, Phase
  <2> QED
    BY <2>6, <2>7
<1>11. ASSUME ~ (d.eof \/ d.error), ~ AtEnd(d)
       PROVE  /\ \E c \in Chunks : /\ Chunk(d) = <<c>> /\ c \in Item
                                   /\ Stands(c, d.data, d.sums, d.pos + 1)
              /\ Reading(HasRead(d)) /\ HasRead(d) \in Sender
              /\ HasRead(d).pos = d.pos + 1 /\ HasRead(d).data = d.data
              /\ HasRead(d).sums = d.sums /\ HasRead(d).on = d.on
              /\ ~ HasRead(d).eof
              /\ d.pos < Len(d.data) /\ d.pos \in Nat
  <2>1. d.pos < Len(d.data) /\ d.pos \in Nat
    BY <1>2, <1>11 DEF AtEnd, Reading, Sender, Data
  <2> QED
    BY <1>2, <1>11, <2>1, ChunkRead, Messages
<1>12. ASSUME ~ (d.eof \/ d.error), ~ AtEnd(d), Uploading, NEW c \in Chunks,
              Stands(c, d.data, d.sums, d.pos + 1)
       PROVE  /\ chan["server"] \o <<c>> \in Chunked
              /\ enabled =>
                   /\ Arriving(r, m, d.data, d.sums, chan["server"] \o <<c>>)
                   /\ d.pos + 1 = r.pos + Len(chan["server"] \o <<c>>)
  <2>1. PICK p \in Chunked : p = chan["server"]
    BY <1>7, <1>12
  <2>2. p \o <<c>> \in Chunked /\ Len(p \o <<c>>) = Len(p) + 1 /\ Len(p) \in Nat
    BY MorePackets DEF Chunked
  <2>3. ASSUME enabled
        PROVE  /\ Arriving(r, m, d.data, d.sums, p \o <<c>>)
               /\ d.pos + 1 = r.pos + Len(p \o <<c>>)
    <3>1. Arriving(r, m, d.data, d.sums, p) /\ d.pos = r.pos + Len(p)
      BY <1>7, <1>12, <2>1, <2>3
    <3>2. Arriving(r, m, d.data, d.sums, p \o <<c>>)
      <4>1. r.pos + Len(p) < Len(d.data) /\ r.pos \in Nat
        BY <1>6, <1>11, <1>12, <3>1
      <4>2. Stands(c, d.data, d.sums, r.pos + Len(p) + 1)
        BY <1>12, <3>1
      <4> QED
        BY <3>1, <4>1, <4>2, PacketSent
    <3>3. PICK n \in Nat, k \in Nat, l \in Nat :
            n = r.pos /\ k = Len(p) /\ l = Len(p \o <<c>>) /\ l = k + 1
      BY <1>6, <2>2
    <3>4. d.pos = n + k
      BY <3>1, <3>3
    <3>5. n + k + 1 = n + l
      BY ONLY <3>3, n \in Nat, k \in Nat
    <3> QED
      BY <3>2, <3>3, <3>4, <3>5
  <2> QED
    BY <2>1, <2>2, <2>3
<1>13. CASE /\ ~ (d.eof \/ d.error) /\ ~ AtEnd(d)
            /\ Reply("viewer", chan["viewer"], Chunk(d))
            /\ snd' = [snd EXCEPT !["viewer"] = HasRead(d)]
            /\ UNCHANGED <<files, pending, timer>>
  <2>1. PICK c \in Chunks : /\ Chunk(d) = <<c>> /\ c \in Item
                            /\ Stands(c, d.data, d.sums, d.pos + 1)
    BY <1>11, <1>13
  <2>2. PICK b \in Sender : /\ b = HasRead(d) /\ Reading(b) /\ b.pos = d.pos + 1
                            /\ b.data = d.data /\ b.sums = d.sums /\ b.on
    BY <1>1, <1>11, <1>13
  <2>3. /\ snd' \in [Side -> Sender] /\ snd'["viewer"] = b
        /\ snd'["server"] = snd["server"]
    BY <1>13, <2>2, Here
  <2>4. PICK o \in Seq(Item) : o = <<c>>
    <3>1. PICK x \in Item : x = c
      BY <2>1
    <3>2. <<x>> \in Seq(Item)
      OBVIOUS
    <3> QED
      BY <3>1, <3>2
  <2>5. /\ chan' \in [Side -> Seq(Item)] /\ chan'["viewer"] = <<>>
        /\ chan'["server"] = chan["server"] \o o
    <3>1. chan["viewer"] = <<>>
      BY <1>2 DEF Uploads
    <3>2. Reply("viewer", <<>>, o)
      BY <1>13, <2>1, <2>4, <3>1
    <3> QED
      BY <3>2, Empties, Here, ViewerReplies
  <2>6. UNCHANGED files /\ UNCHANGED pending /\ UNCHANGED timer
    BY <1>13
  <2>7. Kept' /\ enabled' = enabled
    BY <1>4, <1>5, <2>3, <2>5, <2>6, Here, Typed, KeptByViewer
  <2>8. Uploads'
    BY <1>2, <1>4, <2>3, <2>5 DEF Uploads, ServerSilent
  <2>9. CASE Uploading
    <3>1. /\ chan'["server"] \in Chunked
          /\ enabled =>
               /\ Arriving(r, m, d.data, d.sums, chan'["server"])
               /\ d.pos + 1 = r.pos + Len(chan'["server"])
      BY <1>12, <1>13, <2>1, <2>4, <2>5, <2>9
    <3>2. Uploading'
      BY <1>4, <1>6, <1>7, <2>2, <2>3, <2>6, <2>7, <2>8, <2>9, <3>1 DEF Uploading
    <3> QED
      BY <2>7, <3>2 DEF IInv, Phase
  <2>10. CASE ~ Uploading
    <3>1. chan'["server"] # <<>> /\ Head(chan'["server"]).type = "payload"
      BY <1>2, <2>5, <2>10, Here, HeadStays
    <3>2. Stuck'
      BY <1>2, <2>2, <2>3, <2>7, <2>8, <2>10, <3>1 DEF Stuck, Gets
    <3> QED
      BY <2>7, <3>2 DEF IInv, Phase
  <2> QED
    BY <2>9, <2>10
<1>14. ASSUME ~ (d.eof \/ d.error), ~ AtEnd(d), NEW b,
              b = [HasRead(d) EXCEPT !.error = TRUE, !.on = FALSE],
              OfferNextFile(chan["viewer"], Chunk(d) \o Farewell(b), b)
       PROVE  IInv'
  <2>1. PICK c \in Chunks : /\ Chunk(d) = <<c>> /\ c \in Item
                            /\ Stands(c, d.data, d.sums, d.pos + 1)
    BY <1>11, <1>14
  <2>2. b \in Sender /\ ~ b.on /\ b.error /\ ~ b.eof
    <3>1. PICK h \in Sender : h = HasRead(d) /\ ~ h.eof
      BY <1>11, <1>14
    <3> QED
      BY <1>14, <3>1 DEF Sender
  <2>3. Farewell(b) = Bare("abort")
    BY <2>2 DEF Farewell
  <2>4. PICK u \in Chunked : u = <<c>>
    <3>1. <<c>> \in Seq(Chunks)
      OBVIOUS
    <3> QED
      BY <3>1 DEF Chunked
  <2>5. PICK q \in Chunked :
          Uploading => /\ q = chan["server"] \o u
                       /\ enabled => Arriving(r, m, d.data, d.sums, q)
    <3>1. CASE Uploading
      BY <1>12, <1>14, <2>1, <2>4, <3>1
    <3>2. CASE ~ Uploading
      BY <3>2, Empties
    <3> QED
      BY <3>1, <3>2
  <2>6. OfferNextFile(chan["viewer"], u \o Bare("abort"), b)
    BY <1>14, <2>1, <2>3, <2>4
  <2>7. PICK e \in {"endOfFile", "abort"} : e = "abort"
    OBVIOUS
  <2>8. Uploading /\ enabled =>
          \E data, sums \in Data \cup {None} :
             /\ Arriving(rcv["server"], temp["server"][rcv["server"].file],
                         data, sums, q)
             /\ e = "endOfFile" => rcv["server"].pos + Len(q) = Len(data)
    BY <1>6, <1>8, <2>5, <2>7
  <2>9. /\ OfferNextFile(chan["viewer"], u \o Bare(e), b)
        /\ snd["viewer"].on /\ (Uploading => q = chan["server"] \o u)
    BY <1>1, <2>5, <2>6, <2>7
  <2> QED
    BY <1>3, <2>2, <2>8, <2>9, Farewells
<1> QED
  BY <1>1, <1>9, <1>10, <1>13, <1>14 DEF TimerChunk
-----------------------------------------------------------------------------

(* The invariant holds at first and after every step.                      *)
LEMMA IInvInit ==
    ASSUME TransferAssumption, Init
    PROVE  IInv
<1>1. /\ chan \in [Side -> Seq(Item)] /\ chan["server"] = <<>>
      /\ chan["viewer"] = <<>>
      /\ snd \in [Side -> Sender] /\ ~ snd["server"].on /\ ~ snd["viewer"].on
      /\ rcv \in [Side -> Receiver] /\ ~ rcv["server"].on /\ ~ rcv["viewer"].on
  <2>1. /\ <<>> \in Seq(Item) /\ ~ IdleSender.on /\ ~ IdleReceiver.on
        /\ "server" \in Side /\ "viewer" \in Side
    BY DEF IdleSender, IdleReceiver, Side
  <2> QED
    BY <2>1, Idles DEF Init
<1>2. /\ userAborted \in [Side -> BOOLEAN] /\ breaks \in 0 .. MaxBreaks
      /\ jobs \in 0 .. MaxJobs
      /\ posted \in 0 .. 1 /\ posted = 0 /\ files \in Seq(File)
      /\ real \in [Side -> [File -> Content]]
      /\ temp \in [Side -> [File -> Content]]
  BY DEF Init, TransferAssumption
<1>3. /\ timer \in BOOLEAN /\ pending \in BOOLEAN /\ abort \in BOOLEAN
      /\ aborted \in BOOLEAN /\ old \in BOOLEAN /\ enabled \in BOOLEAN
      /\ strayed \in BOOLEAN /\ ~ pending /\ ~ aborted /\ ~ old
  BY DEF Init
<1>4. TransferTypeOK
  BY <1>1, <1>2, <1>3 DEF TransferTypeOK
<1>5. WholeFile
  BY DEF Init, WholeFile
<1>6. Idle
  BY <1>1, <1>2, <1>3 DEF Idle, ServerSilent, ServerFree, ViewerFree
<1> QED
  BY <1>3, <1>4, <1>5, <1>6 DEF IInv, Kept, Phase

LEMMA IInvStep ==
    ASSUME TransferAssumption, "write" \notin CanFail, IInv, [Next]_vars,
           ~ strayed'
    PROVE  IInv'
<1>1. CASE Download
  BY <1>1, DownloadStep
<1>2. CASE Upload
  BY <1>2, UploadStep
<1>3. CASE Abort
  BY <1>3, AbortStep
<1>4. CASE Break
  BY <1>4, BreakStep
<1>5. CASE Disable
  BY <1>5, DisableStep
<1>6. CASE Serve
  BY <1>6, ServeOfferStep, ServeRequestStep, ServerSumsStep, ServeHeaderStep,
     ServePacketStep, ServeEndOfFileStep, ServeAbortStep, ServeListRequestStep
  DEF Serve
<1>7. CASE SendPosted
  BY <1>7, SendPostedStep
<1>8. CASE View
  BY <1>8, ViewHeaderStep, ViewPacketStep, ViewEndOfFileStep, ViewAbortStep,
     ViewAccessStep, ViewListingStep, ViewAcceptStep, ViewerSumsStep
  DEF View
<1>9. CASE TimerChunk
  BY <1>9, TimerChunkStep
<1>10. CASE UNCHANGED vars
  BY <1>10, StutterStep
<1> QED
  BY <1>1, <1>2, <1>3, <1>4, <1>5, <1>6, <1>7, <1>8, <1>9, <1>10 DEF Next

(* A user who has strayed once has strayed for good.                       *)
LEMMA StrayedForGood ==
    ASSUME [Next]_vars, ~ strayed'
    PROVE  ~ strayed
<1>1. CASE Download
  BY <1>1 DEF Download
<1>2. CASE Upload
  BY <1>2 DEF Upload
<1>3. CASE Abort
  BY <1>3 DEF Abort, counters
<1>4. CASE Break
  BY <1>4 DEF Break
<1>5. CASE Disable
  BY <1>5 DEF Disable
<1>6. CASE Serve
  <2>1. UNCHANGED counters
    BY <1>6 DEF Serve, ServeOffer, ServeRequest, GetChecksums, ServeHeader,
       ServePacket, ServeEndOfFile, ServeAbort, ServeListRequest
  <2> QED
    BY <2>1 DEF counters
<1>7. CASE SendPosted
  BY <1>7 DEF SendPosted, counters
<1>8. CASE View
  <2>1. CASE ViewAccept
    BY <2>1 DEF ViewAccept
  <2>2. CASE ~ ViewAccept
    <3>1. UNCHANGED counters
      BY <1>8, <2>2 DEF View, ViewHeader, ViewPacket, ViewEndOfFile, ViewAbort,
         ViewAccess, ViewListing, GetChecksums
    <3> QED
      BY <3>1 DEF counters
  <2> QED
    BY <2>1, <2>2
<1>9. CASE TimerChunk
  BY <1>9 DEF TimerChunk, counters
<1>10. CASE UNCHANGED vars
  BY <1>10 DEF vars
<1> QED
  BY <1>1, <1>2, <1>3, <1>4, <1>5, <1>6, <1>7, <1>8, <1>9, <1>10 DEF Next

(* Whatever the two sides, their user, the connection and the files do, a  *)
(* transfer is in one of the phases: a handler of either side meets the    *)
(* other side in a state it expects.                                       *)
THEOREM Invariance ==
    ASSUME "write" \notin CanFail
    PROVE  Spec => [](~ strayed => IInv)
<1>1. Init => (~ strayed => IInv)
  BY IInvInit, TransferAssumption
<1>2. (~ strayed => IInv) /\ [Next]_vars => (~ strayed' => IInv')
  BY IInvStep, StrayedForGood, TransferAssumption
<1> QED
  BY <1>1, <1>2, PTL DEF Spec

(* Types; of the chunks the server posts to its tray window, one at most   *)
(* is on the way.                                                          *)
THEOREM TransferTypeCorrect ==
    ASSUME "write" \notin CanFail
    PROVE  Spec => [](~ strayed => TransferTypeOK)
<1>1. IInv => TransferTypeOK
  BY Here
<1> QED
  BY <1>1, Invariance, PTL

(* While file transfer is allowed, no handler returns before it has read   *)
(* the payload of its message, and the viewer never takes a server for one *)
(* of the old protocol: a side finds a payload only when the server has    *)
(* forbidden file transfer in the middle of an upload.                     *)
THEOREM NeverOutOfStep ==
    ASSUME "write" \notin CanFail
    PROVE  Spec => [](~ strayed => InSync)
<1>1. IInv => InSync
  <2> SUFFICES ASSUME IInv, enabled, NEW s \in Side, Gets(s, "payload")
               PROVE  FALSE
    BY Here DEF InSync
  <2>1. CASE s = "server"
    BY <2>1, ServerGets DEF Stuck
  <2>2. CASE s = "viewer"
    BY <2>2, ViewerGets
  <2> QED
    BY <2>1, <2>2 DEF Side
<1> QED
  BY <1>1, Invariance, PTL

(* FinishFileReception gives its real name only to a temporary file that   *)
(* is one of the versions of the file, whole: over whatever temporary file *)
(* was there, with the blocks that checksums let the sender skip, after    *)
(* aborts, errors and broken connections.                                  *)
THEOREM AlwaysWhole ==
    ASSUME "write" \notin CanFail
    PROVE  Spec => [](~ strayed => WholeFile)
<1>1. IInv => WholeFile
  BY Here
<1> QED
  BY <1>1, Invariance, PTL
=============================================================================
