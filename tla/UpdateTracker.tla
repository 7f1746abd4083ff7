--------------------------- MODULE UpdateTracker ---------------------------
(***************************************************************************)
(* What the server knows of a viewer's picture: the update trackers        *)
(* (rfbUpdateTracker.cpp), the back buffer that the desktop thread keeps,  *)
(* and the updates that the update thread sends from both.                 *)
(*                                                                         *)
(* A region is a set of points.  A tracker holds a region to be sent, one  *)
(* to be sent from the viewer's cache, and one the viewer is to copy from  *)
(* elsewhere in its own picture.  Copies come first in an update, so that  *)
(* they must be described in terms of the picture the viewer has now.      *)
(***************************************************************************)
EXTENDS Integers
LOCAL INSTANCE FiniteSetsExt

CONSTANTS
    Screen,    \* the points of m_Cliprect
    Windows,   \* the regions that may move
    Deltas,    \* how far they may move
    Colours,   \* the contents of a point
    Requests,  \* the regions that a viewer may request
    Cacheable, \* the regions that may be found in the cache, if it is enabled
    Pointers   \* the places of the pointer that are drawn into an update

ASSUME ScreenAssumption == Screen \subseteq Int \X Int
ASSUME WindowsAssumption == Windows \subseteq SUBSET (Int \X Int)
ASSUME DeltasAssumption == Deltas \subseteq Int \X Int
ASSUME RequestsAssumption == Requests \subseteq SUBSET Screen
ASSUME CacheableAssumption == Cacheable \subseteq SUBSET Screen
ASSUME PointersAssumption == Pointers \subseteq SUBSET Screen

VARIABLES
    back,     \* m_backbuff, from which everything is encoded
    clipped,  \* clipped_updates of the desktop thread
    tracker,  \* m_update_tracker of the client
    copying,  \* copy_enabled of m_update_tracker
    incr,     \* m_incr_rgn
    viewer,   \* the viewer's picture
    stale     \* history: a copy was taken over, or stayed behind, whose source
              \* the viewer has, or will have, with other contents than it
              \* needs, and no forced update has followed

vars == <<back, clipped, tracker, copying, incr, viewer, stale>>

-----------------------------------------------------------------------------
(* Points and regions.                                                     *)
Add(p, d) == <<p[1] + d[1], p[2] + d[2]>>
Negate(d) == <<-d[1], -d[2]>>
Source(p, d) == Add(p, Negate(d))
Translate(region, d) == {Add(p, d) : p \in region}

(* The area of the bounding rectangle.                                     *)
Extent(region, i) == Max({p[i] : p \in region}) - Min({p[i] : p \in region}) + 1
Area(region) == Extent(region, 1) * Extent(region, 2)

(* Copy inside a picture.                                                  *)
CopyRect(picture, region, d) ==
    [p \in Screen |-> picture[IF p \in region THEN Source(p, d) ELSE p]]

-----------------------------------------------------------------------------
(* SimpleUpdateTracker.                                                    *)
Empty == [changed |-> {}, cached |-> {}, copied |-> {}, delta |-> <<0, 0>>]

Pending(t) == t.changed \cup t.cached \cup t.copied

AddChanged(t, region) == [t EXCEPT !.changed = @ \cup region]
AddCached(t, region) == [t EXCEPT !.cached = @ \cup region]

(* The old copy is (probably) bigger: the new one is sent as a change.     *)
KeepOldCopy(t, dest) ==
    t.copied # {} /\ Area(t.copied) > Area(dest)

(* A new copy of what is not yet sent as well.                             *)
MutantReplaceAll(t, dest, d) ==
    [t EXCEPT !.changed = @ \cup t.copied, !.copied = dest, !.delta = d]

(* The new copy replaces the old one, except for what is not yet sent.     *)
ReplaceCopy(t, dest, d) ==
    LET invalid == Translate(Translate(dest, Negate(d)) \cap t.changed, d)
    IN  [t EXCEPT !.changed = @ \cup invalid \cup t.copied,
                  !.copied = dest \ invalid,
                  !.delta = d]

(* A continued copy moved by the sum of both distances.                    *)
MutantContinueFar(t, dest, d) ==
    LET overlap == Translate(dest, Negate(d)) \cap t.copied
        valid == Translate(overlap \ t.changed, Add(t.delta, d))
    IN  [t EXCEPT !.changed = (@ \cup t.copied \cup dest) \ valid,
                  !.copied = valid,
                  !.delta = Add(@, d)]

(* The new copy continues the old one, where it copies what that copied.   *)
ContinueCopy(t, dest, d) ==
    LET overlap == Translate(dest, Negate(d)) \cap t.copied
        valid == Translate(overlap \ t.changed, d)
    IN  [t EXCEPT !.changed = (@ \cup t.copied \cup dest) \ valid,
                  !.copied = valid,
                  !.delta = Add(@, d)]

AddCopied(t, enabled, dest, d) ==
    IF ~enabled THEN AddChanged(t, dest)
    ELSE IF dest = {} THEN t
    ELSE IF Translate(dest, Negate(d)) \cap t.copied # {} THEN ContinueCopy(t, dest, d)
    ELSE IF KeepOldCopy(t, dest) THEN AddChanged(t, dest)
    ELSE ReplaceCopy(t, dest, d)

(* get_update(UpdateTracker) and flush_update(UpdateTracker, clip).        *)
GetUpdate(from, to, enabled) ==
    AddCached(AddChanged(AddCopied(to, enabled, from.copied, from.delta),
                         from.changed), from.cached)

Clip(t, region) ==
    [t EXCEPT !.changed = @ \cap region, !.cached = @ \cap region,
              !.copied = @ \cap region]

(* flush_update that forgets the changes outside the region.               *)
MutantForgetsRest(t, region) ==
    [t EXCEPT !.changed = {}, !.cached = @ \ region, !.copied = @ \ region]

Without(t, region) ==
    [t EXCEPT !.changed = @ \ region, !.cached = @ \ region,
              !.copied = @ \ region]

(* ClippedUpdateTracker::add_copied: the destination and the source are    *)
(* clipped to the screen; what the source loses is sent as a change.       *)
ClippedAddCopied(t, dest, d) ==
    LET kept == Translate(Translate(dest \cap Screen, Negate(d)) \cap Screen, d)
    IN  IF dest \cap Screen = {} THEN t
        ELSE AddChanged(AddCopied(t, TRUE, kept, d), dest \ kept)

-----------------------------------------------------------------------------
Tracker == [changed : SUBSET (Int \X Int), cached : SUBSET Screen,
            copied : SUBSET Screen, delta : Int \X Int]

TypeOK ==
    /\ back \in [Screen -> Colours]
    /\ clipped \in Tracker
    /\ tracker \in Tracker
    /\ copying \in BOOLEAN
    /\ incr \subseteq Screen
    /\ viewer \in [Screen -> Colours]
    /\ stale \in BOOLEAN

(* The connection is set up: everything is to be sent.                     *)
Init ==
    /\ back \in [Screen -> Colours]
    /\ clipped = Empty
    /\ tracker = AddChanged(Empty, Screen)
    /\ copying \in BOOLEAN
    /\ incr = {}
    /\ viewer \in [Screen -> Colours]
    /\ stale = FALSE

(* The desktop thread finds that a window has moved, or the driver that a  *)
(* part of the screen was copied.                                          *)
AddCopyRect(dest, d) ==
    /\ clipped' = ClippedAddCopied(clipped, dest, d)
    /\ UNCHANGED <<back, tracker, copying, incr, viewer, stale>>

(* The rectangles that get_update(UpdateInfo) has to copy.                 *)
CopiedRects(t) == t.copied \ t.changed

(* What the client's tracker takes over as a copy at a grab, and where some *)
(* of it is copied from a point that waits to be sent from the cache, which*)
(* happens after the copies: add_copied looks for changes only.            *)
TakenOver == clipped.copied \cap CopiedRects(tracker')
TakesFromCached ==
    \E p \in TakenOver : Source(p, clipped.delta) \in tracker.cached

(* The desktop thread repeats the copies in the back buffer, compares the  *)
(* rest of it with the screen, takes over what differs, or more, and passes*)
(* its updates on.  Which part is compared is left open.                   *)
Grab(changed, cached) ==
    LET copied == CopyRect(back, CopiedRects(clipped), clipped.delta)
        taken  == changed \cup cached
    IN  /\ tracker' = GetUpdate(AddCached(AddChanged(clipped, changed), cached),
                                tracker, copying)
        /\ clipped' = Empty
        /\ stale' = (stale \/ TakesFromCached)
        /\ UNCHANGED <<copying, incr, viewer>>
        /\ \E seen \in [taken -> Colours] :
             /\ taken # {} => \E p \in taken : seen[p] # copied[p]
             /\ back' = [p \in Screen |-> IF p \in taken THEN seen[p] ELSE copied[p]]

(* NotifyUpdate, or the forced update after four seconds.                  *)
Request(region, incremental) ==
    /\ incr' = incr \cup (IF incremental THEN region ELSE Screen)
    /\ tracker' = IF incremental THEN tracker ELSE AddChanged(tracker, Screen)
    /\ stale' = (stale /\ incremental)
    /\ UNCHANGED <<back, clipped, copying, viewer>>

(* The viewer says whether it can copy.                                    *)
SetEncodings(copyrect) ==
    /\ copying' = copyrect
    /\ UNCHANGED <<back, clipped, tracker, incr, viewer, stale>>

(* SendUpdate that sends the copies last.                                  *)
MutantCopiesLast(update) ==
    LET sent == [p \in Screen |-> IF p \in update.changed \cup update.cached
                                  THEN back[p] ELSE viewer[p]]
    IN  CopyRect(sent, CopiedRects(update), update.delta)

(* What the viewer has after an update: the copies are sent first, then    *)
(* the contents of the back buffer.                                        *)
Updated(update) ==
    LET copy == CopyRect(viewer, CopiedRects(update), update.delta)
    IN  [p \in Screen |-> IF p \in update.changed \cup update.cached
                          THEN back[p] ELSE copy[p]]

(* An update brings something new to the source of a copy that is not part *)
(* of it: what was pending of the region requested, or lies in the place   *)
(* of the pointer.                                                         *)
Overtakes(pointer) ==
    \E p \in CopiedRects(tracker) \ incr :
        Source(p, tracker.delta) \in Pending(tracker) \cap (incr \cup pointer)

(* The update thread takes what was requested off the tracker, adds the    *)
(* place of the pointer, and sends it, under the update lock.  It does so  *)
(* when something pending was requested, and also without a request when   *)
(* there is a clipboard, a cursor or a pointer to send.                    *)
SendUpdate(pointer) ==
    /\ viewer' = Updated(AddChanged(GetUpdate(Clip(tracker, incr), Empty, TRUE),
                                    pointer))
    /\ tracker' = Without(tracker, incr)
    /\ incr' = {}
    /\ stale' = (stale \/ Overtakes(pointer))
    /\ UNCHANGED <<back, clipped, copying>>

-----------------------------------------------------------------------------
Next ==
    \/ \E dest \in Windows, d \in Deltas : AddCopyRect(dest, d)
    \/ \E changed \in SUBSET Screen, cached \in Cacheable : Grab(changed, cached)
    \/ \E region \in Requests, incremental \in BOOLEAN : Request(region, incremental)
    \/ \E copyrect \in BOOLEAN : SetEncodings(copyrect)
    \/ \E pointer \in Pointers : SendUpdate(pointer)

Spec == Init /\ [][Next]_vars

-----------------------------------------------------------------------------
(* Whatever a tracker wants copied, it wants copied from the screen, also  *)
(* where a copy continues another one.                                     *)
CopiesFromScreen(t) == \A p \in t.copied : Source(p, t.delta) \in Screen
CopySourceOnScreen == CopiesFromScreen(clipped) /\ CopiesFromScreen(tracker)

(* What is pending is enough, unless a copy is stale: a point that is      *)
(* neither to be sent nor to be copied has in the viewer's picture what it *)
(* has in the back buffer, and a point that is only to be copied has it at *)
(* the source of the copy.                                                 *)
PendingIsEnough ==
    ~stale => \A p \in Screen \ (tracker.changed \cup tracker.cached) :
                 back[p] = IF p \in tracker.copied
                           THEN viewer[Source(p, tracker.delta)] ELSE viewer[p]

(* Unless a copy is stale the viewer's picture is the back buffer after an *)
(* update to requests for the whole screen, whatever grabs, moves, changes *)
(* of encodings, updates of parts and of the pointer there were before.    *)
UpdateBringsUpToDate ==
    [][incr = Screen /\ ~stale /\ (\E pointer \in Pointers : SendUpdate(pointer))
         => viewer' = back]_vars

(* "be careful not to copy stuff that still needs to be updated": what the *)
(* client's tracker takes over at a grab to be copied has no source that it*)
(* still has to send as a change, however the copies before it were        *)
(* continued, replaced, clipped and sent.                                  *)
CopiesOnlyWhatIsSent ==
    [][clipped' = Empty /\ clipped # Empty =>
         \A p \in TakenOver : Source(p, clipped.delta) \notin tracker.changed]_vars

(* "be careful not to copy stuff that still needs to be updated", taken at *)
(* its word: nor is anything copied from a point that still has to be sent *)
(* from the viewer's cache.                                                *)
CopiesNothingPending ==
    [][clipped' = Empty /\ clipped # Empty => ~TakesFromCached]_vars
=============================================================================
