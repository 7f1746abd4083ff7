---------------------------- MODULE FileTransfer ----------------------------
(***************************************************************************)
(* Files copied between viewer and server (vncclient.cpp: the case         *)
(* rfbFileTransfer of the client's thread, SendFileChunk,                  *)
(* ReceiveFileChunk, ...; viewer: FileTransfer.cpp).  Each side can send   *)
(* and receive.  A file is received under a temporary name; if a temporary *)
(* file is there from an earlier attempt, its checksums are sent first and *)
(* the sender replaces the blocks the receiver has by empty packets        *)
(* ("Delta Transfer").  A message is read header first: a handler that     *)
(* returns before it has read the payload leaves it on the channel to be   *)
(* taken for the next message.                                             *)
(***************************************************************************)
EXTENDS Naturals, Sequences, FiniteSets

CONSTANTS
    File, Block, None,
    Real0,     \* [Side -> [File -> content or None]]: the files
    Temp0,     \* the temporary files there may be at first, likewise
    Lists,     \* the lists of files a user may select
    CanFail,   \* which steps may fail
    MaxJobs,   \* transfers a user starts
    MaxBreaks  \* times the connection breaks

Side == {"viewer", "server"}
Peer(s) == IF s = "viewer" THEN "server" ELSE "viewer"
Content == Seq(Block \cup {None}) \cup {None}  \* a file with holes, or none

ASSUME TransferAssumption ==
    /\ None \notin File \cup Block \cup Seq(Block \cup {None})
    /\ Real0 \in [Side -> [File -> Content]]
    /\ Temp0 \subseteq [Side -> [File -> Content]]
    /\ Lists \subseteq Seq(File) \ {<<>>}
    /\ CanFail \subseteq
         {"open", "create", "move", "reopen", "write", "disable"}
    /\ MaxJobs \in Nat /\ MaxBreaks \in Nat

VARIABLES
    real, temp,   \* the files and the temporary files of each side
    chan,         \* chan[s]: what side s has not read yet
    snd,          \* m_hSrcFile, m_fFileUploadRunning, m_fEof, m_lpCSBuffer, ...
    rcv,          \* m_hDestFile, m_fFileDownloadRunning, ...
    userAborted,  \* m_fUserAbortedFileTransfer of each side
    posted,       \* FileTransferSendPacketMessages for the tray window
    timer,        \* the viewer's timer runs
    pending,      \* m_fFileCommandPending
    files,        \* m_FilesList from m_iFile on
    abort,        \* m_fAbort
    aborted,      \* m_fAborted
    old,          \* the viewer takes the server for an old one
    enabled,      \* the server's FileTransferEnabled()
    strayed,      \* history: a transfer was started with something of an
                  \* earlier one under way, or a source that the server
                  \* accepted could not be reopened
    jobs, breaks

disk == <<real, temp>>
viewerVars == <<timer, pending, files, abort, aborted, old>>
counters == <<enabled, strayed, jobs, breaks>>
vars == <<real, temp, chan, snd, rcv, userAborted, posted, timer, pending,
          files, abort, aborted, old, enabled, strayed, jobs, breaks>>

\* Messages: with a name, with checksums, with a block, without payload; and
\* a payload that was left.
Item ==
    [type : {"offer", "request"}, size : {"ok"}, body : File]
        \cup [type : {"header", "accept"}, size : {"ok", "fail"},
              body : File \cup {None}]
        \cup [type : {"checksums"}, size : {"ok"}, body : Content]
        \cup [type : {"packet"}, size : {"data", "same"},
              body : Block \cup {None}]
        \cup [type : {"endOfFile", "abort", "access", "listRequest", "listing"},
              size : {"ok", "fail"}, body : {None}]
        \cup [type : {"payload"}, size : {"ok"},
              body : File \cup Block \cup {None}]
Sender == [on : BOOLEAN, error : BOOLEAN, eof : BOOLEAN, data : Content,
           pos : Nat, sums : Content, offset : Nat]
Receiver == [on : BOOLEAN, error : BOOLEAN, file : File \cup {None}, pos : Nat]

IdleSender == [on |-> FALSE, error |-> FALSE, eof |-> FALSE, data |-> None,
               pos |-> 0, sums |-> None, offset |-> 0]
IdleReceiver == [on |-> FALSE, error |-> FALSE, file |-> None, pos |-> 0]

TransferTypeOK ==
    /\ real \in [Side -> [File -> Content]]
    /\ temp \in [Side -> [File -> Content]]
    /\ chan \in [Side -> Seq(Item)]
    /\ snd \in [Side -> Sender] /\ rcv \in [Side -> Receiver]
    /\ userAborted \in [Side -> BOOLEAN]
    /\ posted \in 0 .. 1
    /\ {timer, pending, abort, aborted, old, enabled, strayed}
         \subseteq BOOLEAN
    /\ files \in Seq(File)
    /\ jobs \in 0 .. MaxJobs /\ breaks \in 0 .. MaxBreaks

Init ==
    /\ real = Real0 /\ temp \in Temp0
    /\ chan = [s \in Side |-> <<>>]
    /\ snd = [s \in Side |-> IdleSender]
    /\ rcv = [s \in Side |-> IdleReceiver]
    /\ userAborted = [s \in Side |-> FALSE]
    /\ posted = 0 /\ timer = FALSE /\ pending = FALSE /\ files = <<>>
    /\ abort = FALSE /\ aborted = FALSE /\ old = FALSE /\ enabled = TRUE
    /\ strayed = FALSE /\ jobs = 0 /\ breaks = 0

-----------------------------------------------------------------------------
\* Messages.

Msg(type, size, x) == [type |-> type, size |-> size, body |-> x]
Packet(type, size, x) == <<Msg(type, size, x)>>
Bare(type) == Packet(type, "ok", None)

\* A message of this type is the next that side s reads.
Gets(s, type) == chan[s] # <<>> /\ Head(chan[s]).type = type
Size(s) == Head(chan[s]).size
Body(s) == Head(chan[s]).body

\* What is left when side s has read the message, or its header only.
Rest(s) == Tail(chan[s])
PayloadLeft(s) == Packet("payload", "ok", Body(s)) \o Rest(s)

\* Side s sends out, and leaves this of what it has received.
Reply(s, left, out) ==
    chan' = [chan EXCEPT ![s] = left, ![Peer(s)] = @ \o out]

May(fault) == fault \in CanFail

-----------------------------------------------------------------------------
\* The sending side, viewer and server alike.

\* The sender state d reads a block that the receiver has.
AlreadyThere(d) ==
    /\ d.sums # None
    /\ d.offset < Len(d.sums)
    /\ d.sums[d.offset + 1] = d.data[d.pos + 1]

AtEnd(d) == d.pos = Len(d.data)
Chunk(d) ==
    IF AlreadyThere(d) THEN Packet("packet", "same", None)
                       ELSE Packet("packet", "data", d.data[d.pos + 1])
HasRead(d) ==
    [d EXCEPT !.pos = @ + 1,
              !.offset = IF d.sums # None /\ @ < Len(d.sums) THEN @ + 1 ELSE @]

\* The source was opened, and no checksums have come yet.  (Mutant: those of
\* the file before are still there.)
MutantOpened(d, content) ==
    [d EXCEPT !.data = content, !.pos = 0]
Opened(d, content) ==
    [d EXCEPT !.data = content, !.pos = 0, !.sums = None, !.offset = 0]

Started(d) == [d EXCEPT !.on = TRUE, !.error = FALSE, !.eof = FALSE]
Ended(d) == [d EXCEPT !.on = FALSE]

-----------------------------------------------------------------------------
\* The receiving side.

\* SetEndOfFile at n: what is there, and a hole beyond it.
Upto(content, n) ==
    [i \in 1 .. n |-> IF i <= Len(content) THEN content[i] ELSE None]

\* WriteFile at pos.
Written(content, pos, b) ==
    IF pos >= Len(content) THEN Append(Upto(content, pos), b)
                           ELSE [content EXCEPT ![pos + 1] = b]

\* The file at the end.
Cut(s, r) == Upto(temp[s][r.file], r.pos)

\* A temporary file for f: the one that is there, or a new one.
OpenTemp(s, f) ==
    temp' = [temp EXCEPT ![s][f] = IF @ = None THEN <<>> ELSE @]
Sums(s, f) ==
    IF temp[s][f] = None THEN <<>>
                         ELSE Packet("checksums", "ok", temp[s][f])
Receiving(f) == [on |-> TRUE, error |-> FALSE, file |-> f, pos |-> 0]

\* FinishFileReception, as far as the files go, for the receiver state r.  An
\* error without a user's abort keeps the temporary file.  A move that fails
\* is an error on the server only.
FinishFiles(s, r) ==
    \/ /\ r.error /\ userAborted[s]
       /\ temp' = [temp EXCEPT ![s][r.file] = None]
       /\ rcv' = [rcv EXCEPT ![s] = [r EXCEPT !.on = FALSE]]
       /\ UNCHANGED real
    \/ /\ r.error /\ ~ userAborted[s]
       /\ temp' = [temp EXCEPT ![s][r.file] = Cut(s, r)]
       /\ rcv' = [rcv EXCEPT ![s] = [r EXCEPT !.on = FALSE]]
       /\ UNCHANGED real
    \/ /\ ~ r.error
       /\ real' = [real EXCEPT ![s][r.file] = Cut(s, r)]
       /\ temp' = [temp EXCEPT ![s][r.file] = None]
       /\ rcv' = [rcv EXCEPT ![s] = [r EXCEPT !.on = FALSE]]
    \/ /\ ~ r.error /\ May("move")
       /\ temp' = [temp EXCEPT ![s][r.file] = Cut(s, r)]
       /\ rcv' = [rcv EXCEPT ![s] = [r EXCEPT !.on = FALSE,
                                              !.error = (s = "server")]]
       /\ UNCHANGED real

-----------------------------------------------------------------------------
\* The server: the client's thread, and the tray window's thread which calls
\* SendFileChunk for each posted message.  Both hold the update lock.

\* SendFileChunk of the server, for the sender state d; p messages are still
\* posted, and left is what the server has not read.
ServerChunk(d, left, p) ==
    \/ /\ ~ d.on
       /\ Reply("server", left, <<>>)
       /\ snd' = [snd EXCEPT !["server"] = d] /\ posted' = p
    \/ /\ d.on /\ (d.eof \/ d.error)
       /\ Reply("server", left, Bare(IF d.error THEN "abort" ELSE "endOfFile"))
       /\ snd' = [snd EXCEPT !["server"] = Ended(d)] /\ posted' = p
    \/ /\ d.on /\ ~ (d.eof \/ d.error) /\ AtEnd(d)
       /\ Reply("server", left, <<>>)
       /\ snd' = [snd EXCEPT !["server"] = [d EXCEPT !.eof = TRUE]]
       /\ posted' = p + 1
    \/ /\ d.on /\ ~ (d.eof \/ d.error) /\ ~ AtEnd(d)
       /\ Reply("server", left, Chunk(d))
       /\ snd' = [snd EXCEPT !["server"] = HasRead(d)]
       /\ posted' = p + 1

\* Mutant: the tray window posts a message of its own as well.
MutantSendPosted ==
    /\ posted > 0
    /\ ServerChunk(snd["server"], chan["server"], posted)
    /\ UNCHANGED <<disk, rcv, userAborted, viewerVars, counters>>

\* The tray window handles FileTransferSendPacketMessage.
SendPosted ==
    /\ posted > 0
    /\ ServerChunk(snd["server"], chan["server"], posted - 1)
    /\ UNCHANGED <<disk, rcv, userAborted, viewerVars, counters>>

\* rfbFileTransferOffer: a file is to be received.  Without permission it
\* returns before it has read the name.
ServeOffer ==
    /\ Gets("server", "offer")
    /\ LET f == Body("server") IN
       \/ /\ ~ enabled
          /\ Reply("server", PayloadLeft("server"), <<>>)
          /\ UNCHANGED <<temp, rcv, userAborted>>
       \/ /\ enabled /\ May("create")
          /\ Reply("server", Rest("server"), Packet("accept", "fail", f))
          /\ UNCHANGED <<temp, rcv, userAborted>>
       \/ /\ enabled
          /\ OpenTemp("server", f)
          /\ Reply("server", Rest("server"),
                   Sums("server", f) \o Packet("accept", "ok", f))
          /\ rcv' = [rcv EXCEPT !["server"] = Receiving(f)]
          /\ userAborted' = [userAborted EXCEPT !["server"] = FALSE]
    /\ UNCHANGED <<real, snd, posted, viewerVars, counters>>

\* rfbFileTransferRequest: a file is to be sent.
ServeRequest ==
    /\ Gets("server", "request")
    /\ LET f == Body("server") IN
       \/ /\ ~ enabled
          /\ Reply("server", Rest("server"), <<>>)
          /\ UNCHANGED snd
       \/ /\ enabled
          /\ May("open") \/ real["server"][f] = None
          /\ Reply("server", Rest("server"), Packet("header", "fail", f))
          /\ snd' = [snd EXCEPT !["server"].sums = None, !["server"].offset = 0]
       \/ /\ enabled
          /\ real["server"][f] # None
          /\ Reply("server", Rest("server"), Packet("header", "ok", f))
          /\ snd' = [snd EXCEPT !["server"] = Opened(@, real["server"][f])]
    /\ UNCHANGED <<disk, rcv, userAborted, posted, viewerVars, counters>>

\* rfbFileChecksums.
GetChecksums(s) ==
    /\ Gets(s, "checksums")
    /\ Reply(s, Rest(s), <<>>)
    /\ snd' = [snd EXCEPT ![s].sums = Body(s)]
    /\ UNCHANGED <<disk, rcv, userAborted, posted, viewerVars, counters>>

\* rfbFileHeader: the viewer has created the file, or could not.
ServeHeader ==
    /\ Gets("server", "header")
    /\ \/ /\ Size("server") = "fail"
          /\ Reply("server", Rest("server"), <<>>)
          /\ UNCHANGED <<snd, userAborted, posted>>
       \/ /\ Size("server") = "ok"
          /\ userAborted' = [userAborted EXCEPT !["server"] = FALSE]
          /\ ServerChunk(Started(snd["server"]), Rest("server"), posted)
    /\ UNCHANGED <<disk, rcv, viewerVars, counters>>

\* rfbFilePacket and ReceiveFileChunk.  When nothing is received, or an error
\* was met before, the payload is not read.
ServePacket ==
    /\ Gets("server", "packet")
    /\ LET r == rcv["server"]
           same == Size("server") = "same"
           unread == IF same THEN Rest("server") ELSE PayloadLeft("server") IN
       \/ /\ ~ enabled \/ ~ r.on
          /\ Reply("server", unread, <<>>)
          /\ UNCHANGED <<disk, rcv>>
       \/ /\ enabled /\ r.on /\ r.error
          /\ Reply("server", unread, <<>>)
          /\ FinishFiles("server", r)
       \/ /\ enabled /\ r.on /\ ~ r.error /\ same
          /\ Reply("server", Rest("server"), <<>>)
          /\ rcv' = [rcv EXCEPT !["server"].pos = @ + 1]
          /\ UNCHANGED disk
       \/ /\ enabled /\ r.on /\ ~ r.error /\ ~ same
          /\ Reply("server", Rest("server"), <<>>)
          /\ temp' = [temp EXCEPT !["server"][r.file] =
                          Written(@, r.pos, Body("server"))]
          /\ rcv' = [rcv EXCEPT !["server"].pos = @ + 1]
          /\ UNCHANGED real
       \/ /\ enabled /\ r.on /\ ~ r.error /\ ~ same /\ May("write")
          /\ Reply("server", Rest("server"), <<>>)
          /\ FinishFiles("server", [r EXCEPT !.error = TRUE])
    /\ UNCHANGED <<snd, userAborted, posted, viewerVars, counters>>

\* rfbEndOfFile.
ServeEndOfFile ==
    /\ Gets("server", "endOfFile")
    /\ Reply("server", Rest("server"), <<>>)
    /\ IF enabled /\ rcv["server"].on
       THEN FinishFiles("server", rcv["server"])
       ELSE UNCHANGED <<disk, rcv>>
    /\ UNCHANGED <<snd, userAborted, posted, viewerVars, counters>>

\* The answer to a viewer that knows the new protocol.  (Mutant: the one for
\* an old viewer.)
MutantAnswer == Packet("abort", IF enabled THEN "ok" ELSE "fail", None)
Answer == Packet("access", IF enabled THEN "ok" ELSE "fail", None)

\* rfbAbortFileTransfer.  When nothing is sent or received it is the question
\* whether file transfer is allowed.
ServeAbort ==
    /\ Gets("server", "abort")
    /\ \/ /\ rcv["server"].on
          /\ Reply("server", Rest("server"), <<>>)
          /\ userAborted' = [userAborted EXCEPT !["server"] = TRUE]
          /\ temp' = [temp EXCEPT !["server"][rcv["server"].file] = None]
          /\ rcv' = [rcv EXCEPT !["server"].error = TRUE,
                                 !["server"].on = FALSE]
          /\ UNCHANGED snd
       \/ /\ ~ rcv["server"].on /\ snd["server"].on
          /\ Reply("server", Rest("server"), <<>>)
          /\ userAborted' = [userAborted EXCEPT !["server"] = TRUE]
          /\ snd' = [snd EXCEPT !["server"].error = TRUE]
          /\ UNCHANGED <<temp, rcv>>
       \/ /\ ~ rcv["server"].on /\ ~ snd["server"].on
          /\ Reply("server", Rest("server"), Answer)
          /\ UNCHANGED <<temp, rcv, snd, userAborted>>
    /\ UNCHANGED <<real, posted, viewerVars, counters>>

\* rfbDirContentRequest: the drives, or a directory.
ServeListRequest ==
    /\ Gets("server", "listRequest")
    /\ Reply("server", Rest("server"),
             IF enabled THEN Bare("listing") ELSE <<>>)
    /\ UNCHANGED <<disk, snd, rcv, userAborted, posted, viewerVars, counters>>

-----------------------------------------------------------------------------
\* The viewer: its main thread.

\* RequestNextFile: the state of the list, and what is sent.
MoreFiles == Len(files) > 1 /\ ~ abort
NextRequest == IF MoreFiles THEN Packet("request", "ok", files[2]) ELSE <<>>

\* Mutant: only the last file unlocks the user, not one that was aborted.
MutantAdvanceFiles ==
    /\ files' = IF MoreFiles THEN Tail(files) ELSE <<>>
    /\ pending' = (pending /\ Len(files) > 1)
AdvanceFiles ==
    /\ files' = IF MoreFiles THEN Tail(files) ELSE <<>>
    /\ pending' = (pending /\ MoreFiles)

\* OfferLocalFile for the first of fs, or for the next one when it cannot be
\* opened (OfferNextFile calls SendFiles(-1, 0), which calls it again).  At
\* the end the user may go on and the remote directory is listed anew.  The
\* viewer leaves left, sends out first, and d is its sender state.
Skipping(fs) ==
    {k \in 0 .. Len(fs) :
        /\ \A i \in 1 .. k : May("open") \/ real["viewer"][fs[i]] = None
        /\ k < Len(fs) => real["viewer"][fs[k + 1]] # None}

OfferFirst(fs, left, out, d, k) ==
    /\ files' = SubSeq(fs, k + 1, Len(fs))
    /\ Reply("viewer", left, out \o Packet("offer", "ok", fs[k + 1]))
    /\ snd' = [snd EXCEPT !["viewer"] = Opened(d, None)]
    /\ UNCHANGED pending

AllOffered(left, out, d) ==
    /\ files' = <<>>
    /\ Reply("viewer", left, out \o Bare("listRequest"))
    /\ snd' = [snd EXCEPT !["viewer"] = d]
    /\ timer' = FALSE
    /\ pending' = FALSE

OfferNextFile(left, out, d) ==
    IF MoreFiles
    THEN \E k \in Skipping(Tail(files)) :
            IF k < Len(files) - 1
            THEN OfferFirst(Tail(files), left, out, d, k) /\ timer' = TRUE
            ELSE AllOffered(left, out, d)
    ELSE AllOffered(left, out, d)

\* The user starts a transfer: is something of an earlier one under way?
UnderWay == posted > 0 \/ \E s \in Side : chan[s] # <<>>

\* The user selects files and presses the button for download.
Download ==
    /\ ~ pending /\ jobs < MaxJobs
    /\ \E fs \in Lists :
        /\ files' = fs
        /\ Reply("viewer", chan["viewer"], Packet("request", "ok", fs[1]))
    /\ pending' = TRUE /\ abort' = FALSE /\ aborted' = FALSE
    /\ userAborted' = [userAborted EXCEPT !["viewer"] = FALSE]
    /\ strayed' = (strayed \/ UnderWay) /\ jobs' = jobs + 1
    /\ UNCHANGED <<disk, snd, rcv, posted, timer, old, enabled, breaks>>

\* The user presses the button for upload.
Upload ==
    /\ ~ pending /\ jobs < MaxJobs
    /\ \E fs \in Lists : \E k \in Skipping(fs) :
        IF k < Len(fs)
        THEN /\ files' = SubSeq(fs, k + 1, Len(fs))
             /\ Reply("viewer", chan["viewer"],
                      Packet("offer", "ok", fs[k + 1]))
             /\ snd' = [snd EXCEPT !["viewer"] = Opened(@, None)]
             /\ timer' = (timer \/ k > 0)
             /\ pending' = TRUE
        ELSE AllOffered(chan["viewer"], <<>>, snd["viewer"])
    /\ abort' = FALSE /\ aborted' = FALSE
    /\ userAborted' = [userAborted EXCEPT !["viewer"] = FALSE]
    /\ strayed' = (strayed \/ UnderWay) /\ jobs' = jobs + 1
    /\ UNCHANGED <<disk, rcv, posted, old, enabled, breaks>>

\* The user presses the stop button.
Abort ==
    /\ pending /\ ~ abort
    /\ abort' = TRUE
    /\ userAborted' = [userAborted EXCEPT !["viewer"] = TRUE]
    /\ UNCHANGED <<disk, chan, snd, rcv, posted, timer, pending, files, aborted,
                   old, counters>>

\* rfbFileHeader: ReceiveFiles and ReceiveFile.
ViewHeader ==
    /\ Gets("viewer", "header")
    /\ LET f == Body("viewer") IN
       \/ /\ Size("viewer") = "fail"
          /\ Reply("viewer", Rest("viewer"), NextRequest)
          /\ AdvanceFiles
          /\ rcv' = [rcv EXCEPT !["viewer"].error = TRUE]
          /\ UNCHANGED temp
       \/ /\ Size("viewer") = "ok" /\ May("create")
          /\ Reply("viewer", Rest("viewer"),
                   Packet("header", "fail", None) \o NextRequest)
          /\ AdvanceFiles
          /\ rcv' = [rcv EXCEPT !["viewer"].error = TRUE]
          /\ UNCHANGED temp
       \/ /\ Size("viewer") = "ok"
          /\ OpenTemp("viewer", f)
          /\ Reply("viewer", Rest("viewer"),
                   Sums("viewer", f) \o Bare("header"))
          /\ rcv' = [rcv EXCEPT !["viewer"] = Receiving(f)]
          /\ UNCHANGED <<pending, files>>
    /\ UNCHANGED <<real, snd, userAborted, posted, timer, abort, aborted, old,
                   counters>>

\* The viewer tells the server once that the user wants the file no more.
TellAbort == abort /\ ~ aborted
AbortNow == IF TellAbort THEN Bare("abort") ELSE <<>>

\* rfbFilePacket and ReceiveFileChunk.  Without a transfer the payload is not
\* read; after an error the file is finished and the packet handled all the
\* same, its block written to a closed file.
ViewPacket ==
    /\ Gets("viewer", "packet")
    /\ LET r == rcv["viewer"]
           same == Size("viewer") = "same" IN
       \/ /\ ~ r.on
          /\ Reply("viewer",
                   IF same THEN Rest("viewer") ELSE PayloadLeft("viewer"), <<>>)
          /\ UNCHANGED <<disk, rcv, files, pending, aborted>>
       \/ /\ r.on /\ r.error
          /\ FinishFiles("viewer", r)
          /\ AdvanceFiles
          /\ Reply("viewer", Rest("viewer"), NextRequest \o AbortNow)
          /\ aborted' = (aborted \/ abort)
       \/ /\ r.on /\ ~ r.error
          /\ rcv' = [rcv EXCEPT !["viewer"].pos = @ + 1]
          /\ temp' = IF same THEN temp
                     ELSE [temp EXCEPT !["viewer"][r.file] =
                               Written(@, r.pos, Body("viewer"))]
          /\ Reply("viewer", Rest("viewer"), AbortNow)
          /\ aborted' = (aborted \/ abort)
          /\ UNCHANGED <<real, files, pending>>
       \/ /\ r.on /\ ~ r.error /\ ~ same /\ May("write")
          /\ rcv' = [rcv EXCEPT !["viewer"].error = TRUE]
          /\ Reply("viewer", Rest("viewer"), AbortNow)
          /\ aborted' = (aborted \/ abort)
          /\ UNCHANGED <<disk, files, pending>>
    /\ UNCHANGED <<snd, userAborted, posted, timer, abort, old, counters>>

\* FinishFileReception of the viewer.
FinishFileReception(r, out) ==
    /\ FinishFiles("viewer", r)
    /\ AdvanceFiles
    /\ Reply("viewer", Rest("viewer"), out \o NextRequest)

\* rfbEndOfFile.
ViewEndOfFile ==
    /\ Gets("viewer", "endOfFile")
    /\ \/ /\ rcv["viewer"].on
          /\ FinishFileReception(rcv["viewer"], <<>>)
       \/ /\ ~ rcv["viewer"].on
          /\ Reply("viewer", Rest("viewer"), <<>>)
          /\ UNCHANGED <<disk, rcv, files, pending>>
    /\ UNCHANGED <<snd, userAborted, posted, timer, abort, aborted, old,
                   counters>>

\* rfbAbortFileTransfer: the file has ended with an error; or else this is
\* how an old server answers the question for permission.
ViewAbort ==
    /\ Gets("viewer", "abort")
    /\ \/ /\ rcv["viewer"].on
          /\ FinishFileReception([rcv["viewer"] EXCEPT !.error = TRUE], <<>>)
          /\ UNCHANGED old
       \/ /\ ~ rcv["viewer"].on
          /\ old' = TRUE
          /\ Reply("viewer", Rest("viewer"), <<>>)
          /\ UNCHANGED <<disk, rcv, files, pending>>
    /\ UNCHANGED <<snd, userAborted, posted, timer, abort, aborted, counters>>

\* rfbFileTransferAccess: TestPermission asks for the drives.
ViewAccess ==
    /\ Gets("viewer", "access")
    /\ Reply("viewer", Rest("viewer"),
             IF Size("viewer") = "ok" THEN Bare("listRequest") ELSE <<>>)
    /\ UNCHANGED <<disk, snd, rcv, userAborted, posted, viewerVars, counters>>

\* rfbDirPacket: the drives, or the end of a directory.  It unlocks the user.
ViewListing ==
    /\ Gets("viewer", "listing")
    /\ Reply("viewer", Rest("viewer"), <<>>)
    /\ pending' = FALSE
    /\ UNCHANGED <<disk, snd, rcv, userAborted, posted, timer, files, abort,
                   aborted, old, counters>>

\* rfbFileAcceptHeader: SendFiles and SendFile.
ViewAccept ==
    /\ Gets("viewer", "accept")
    /\ LET f == Body("viewer")
           d == [snd["viewer"] EXCEPT !.error = TRUE] IN
       \/ /\ Size("viewer") = "fail" \/ May("reopen")
          /\ OfferNextFile(Rest("viewer"), <<>>, d)
          /\ strayed' = (strayed \/ Size("viewer") = "ok")
       \/ /\ Size("viewer") = "ok"
          /\ Reply("viewer", Rest("viewer"), <<>>)
          /\ snd' = [snd EXCEPT !["viewer"] =
                         Started([@ EXCEPT !.data = real["viewer"][f],
                                           !.pos = 0])]
          /\ timer' = TRUE
          /\ UNCHANGED <<pending, files, strayed>>
    /\ UNCHANGED <<disk, rcv, userAborted, posted, abort, aborted, old,
                   enabled, jobs, breaks>>

\* What FinishFileSending of the viewer tells the server.  (Mutant: nothing
\* when the file was not sent to its end.)
MutantFarewell(d) == IF d.error /\ ~ d.eof THEN <<>> ELSE Bare("endOfFile")
Farewell(d) == Bare(IF d.error /\ ~ d.eof THEN "abort" ELSE "endOfFile")

\* The timer calls SendFileChunk, which sends a block, or notes the end of
\* the file, or ends (FinishFileSending) and goes on to the next file.
TimerChunk ==
    /\ timer
    /\ LET d == snd["viewer"]
           stopped == [HasRead(d) EXCEPT !.error = TRUE, !.on = FALSE] IN
       /\ d.on
       /\ \/ /\ d.eof \/ d.error
             /\ OfferNextFile(chan["viewer"], Farewell(d), Ended(d))
          \/ /\ ~ (d.eof \/ d.error) /\ AtEnd(d)
             /\ snd' = [snd EXCEPT !["viewer"].eof = TRUE]
             /\ UNCHANGED <<chan, files, pending, timer>>
          \/ /\ ~ (d.eof \/ d.error) /\ ~ AtEnd(d) /\ ~ abort
             /\ Reply("viewer", chan["viewer"], Chunk(d))
             /\ snd' = [snd EXCEPT !["viewer"] = HasRead(d)]
             /\ UNCHANGED <<files, pending, timer>>
          \/ /\ ~ (d.eof \/ d.error) /\ ~ AtEnd(d) /\ abort
             /\ OfferNextFile(chan["viewer"], Chunk(d) \o Farewell(stopped),
                              stopped)
    /\ UNCHANGED <<disk, rcv, userAborted, posted, abort, aborted, old,
                   counters>>

-----------------------------------------------------------------------------
\* The connection breaks: the viewer's window and the client are gone, their
\* temporary files stay as they are.  The user connects again.
Break ==
    /\ breaks < MaxBreaks /\ breaks' = breaks + 1
    /\ chan' = [s \in Side |-> <<>>]
    /\ snd' = [s \in Side |-> IdleSender]
    /\ rcv' = [s \in Side |-> IdleReceiver]
    /\ userAborted' = [s \in Side |-> FALSE]
    /\ posted' = 0 /\ timer' = FALSE /\ pending' = FALSE /\ files' = <<>>
    /\ abort' = FALSE /\ aborted' = FALSE /\ old' = FALSE
    /\ UNCHANGED <<disk, enabled, strayed, jobs>>

\* The server's user forbids file transfer in the properties dialog.
Disable ==
    /\ May("disable") /\ enabled
    /\ enabled' = FALSE
    /\ UNCHANGED <<disk, chan, snd, rcv, userAborted, posted, viewerVars,
                   strayed, jobs, breaks>>

Serve ==
    \/ ServeOffer \/ ServeRequest \/ GetChecksums("server") \/ ServeHeader
    \/ ServePacket \/ ServeEndOfFile \/ ServeAbort \/ ServeListRequest
View ==
    \/ ViewHeader \/ ViewPacket \/ ViewEndOfFile \/ ViewAbort \/ ViewAccess
    \/ ViewListing \/ ViewAccept \/ GetChecksums("viewer")

Next ==
    \/ Download \/ Upload \/ Abort \/ Break \/ Disable
    \/ Serve \/ SendPosted \/ View \/ TimerChunk

\* Threads handle what arrives, and the timer and the posted messages.
Spec ==
    /\ Init /\ [][Next]_vars
    /\ WF_vars(Serve) /\ WF_vars(SendPosted)
    /\ WF_vars(View) /\ WF_vars(TimerChunk)

-----------------------------------------------------------------------------
\* Properties.

\* As long as file transfer is allowed, a side never takes a payload for a
\* message, and the viewer never takes the server for one that speaks the old
\* protocol.
InSync ==
    enabled =>
        /\ \A s \in Side : ~ Gets(s, "payload")
        /\ ~ old

\* Under its real name a file is always one of the two sides' files, whole:
\* also when blocks were skipped, the temporary file was longer or belonged to
\* another version, the user aborted, or the connection broke.
WholeFile ==
    \A s \in Side : \A f \in File : real[s][f] \in {Real0[t][f] : t \in Side}

\* As long as file transfer is allowed, the user has started no transfer over
\* another, and every source could be reopened, the viewer sends and receives
\* only for the transfer its user waits for, and when nothing is under way
\* neither side believes that something is.
OneTransfer ==
    enabled /\ ~ strayed /\ ~ pending =>
        /\ ~ snd["viewer"].on /\ ~ rcv["viewer"].on
        /\ ~ UnderWay =>
              ~ snd["server"].on /\ ~ rcv["server"].on

\* Every transfer ends, done or aborted, and the user can go on, unless the
\* server forbids file transfer meanwhile.
TransferEnds == pending ~> ~ pending \/ ~ enabled

=============================================================================
