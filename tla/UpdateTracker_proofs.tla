------------------------ MODULE UpdateTracker_proofs ------------------------
(***************************************************************************)
(* Proofs about UpdateTracker, for every screen, every set of windows,     *)
(* distances and contents, whatever a viewer requests and caches, wherever *)
(* its pointer is, and for any number of copies between two grabs.         *)
(***************************************************************************)
EXTENDS UpdateTracker, TLAPS

Point == Int \X Int

-----------------------------------------------------------------------------
(* Points and regions.                                                     *)

(* Going by d and back by d, and back by two distances.                    *)
LEMMA PointFacts ==
    ASSUME NEW p \in Point, NEW d \in Point, NEW e \in Point
    PROVE  /\ Add(p, d) \in Point
           /\ Negate(d) \in Point
           /\ Source(p, d) \in Point
           /\ Source(Add(p, d), d) = p
           /\ Add(p, Negate(d)) = Source(p, d)
           /\ Add(Source(p, d), d) = p
           /\ Source(p, Add(e, d)) = Source(Source(p, d), e)
  <1>1. PICK a, b \in Int : p = <<a, b>>
    BY DEF Point
  <1>2. PICK m, n \in Int : d = <<m, n>>
    BY DEF Point
  <1>3. PICK i, j \in Int : e = <<i, j>>
    BY DEF Point
  <1>4. Negate(d) = <<-m, -n>>
    BY <1>2 DEF Negate
  <1>5. Add(p, d) = <<a + m, b + n>>
    BY <1>1, <1>2 DEF Add
  <1>6. Source(p, d) = <<a - m, b - n>>
    BY <1>1, <1>4 DEF Source, Add
  <1>7. Source(Add(p, d), d) = <<a, b>>
    BY <1>4, <1>5 DEF Source, Add
  <1>8. Add(Source(p, d), d) = <<a, b>>
    BY <1>2, <1>6 DEF Add
  <1>9. Add(e, d) = <<i + m, j + n>>
    BY <1>2, <1>3 DEF Add
  <1>10. Source(p, Add(e, d)) = <<a - (i + m), b - (j + n)>>
    BY <1>1, <1>9 DEF Source, Negate, Add
  <1>11. Source(Source(p, d), e) = <<(a - m) - i, (b - n) - j>>
    BY <1>3, <1>6 DEF Source, Negate, Add
  <1>12. Source(p, Add(e, d)) = Source(Source(p, d), e)
    BY <1>10, <1>11
  <1>13. Add(p, Negate(d)) = Source(p, d)
    BY DEF Source
  <1> QED
    BY <1>1, <1>4, <1>5, <1>6, <1>7, <1>8, <1>12, <1>13 DEF Point

(* A point is in a moved region if and only if its source is in the region.*)
LEMMA TranslateFact ==
    ASSUME NEW R, R \subseteq Point, NEW d \in Point
    PROVE  /\ Translate(R, d) \subseteq Point
           /\ \A p \in Point : p \in Translate(R, d) <=> Source(p, d) \in R
           /\ \A p \in Point : p \in Translate(R, Negate(d)) <=> Add(p, d) \in R
  <1>1. Translate(R, d) \subseteq Point
    BY PointFacts DEF Translate
  <1>2. ASSUME NEW p \in Point
        PROVE  p \in Translate(R, d) <=> Source(p, d) \in R
    <2>1. ASSUME p \in Translate(R, d) PROVE Source(p, d) \in R
      <3>1. PICK q \in R : p = Add(q, d)
        BY <2>1 DEF Translate
      <3> QED
        BY <3>1, PointFacts
    <2>2. ASSUME Source(p, d) \in R PROVE p \in Translate(R, d)
      <3>1. Add(Source(p, d), d) = p
        BY PointFacts
      <3> QED
        BY <2>2, <3>1 DEF Translate
    <2> QED
      BY <2>1, <2>2
  <1>3. ASSUME NEW p \in Point
        PROVE  p \in Translate(R, Negate(d)) <=> Add(p, d) \in R
    <2>1. ASSUME p \in Translate(R, Negate(d)) PROVE Add(p, d) \in R
      <3>1. PICK q \in R : p = Add(q, Negate(d))
        BY <2>1 DEF Translate
      <3>2. p = Source(q, d)
        BY <3>1 DEF Source
      <3>3. Add(p, d) = q
        BY <3>2, PointFacts
      <3> QED
        BY <3>3
    <2>2. ASSUME Add(p, d) \in R PROVE p \in Translate(R, Negate(d))
      <3>1. Add(Add(p, d), Negate(d)) = p
        BY PointFacts
      <3> QED
        BY <2>2, <3>1 DEF Translate
    <2> QED
      BY <2>1, <2>2
  <1> QED
    BY <1>1, <1>2, <1>3

-----------------------------------------------------------------------------
(* Every point of the screen is a point.                                   *)
LEMMA ScreenPoints == Screen \subseteq Point
  BY ScreenAssumption DEF Point

(* What the operations of the trackers keep, without and with the picture. *)

Fine(t) == t \in Tracker /\ CopiesFromScreen(t)

(* A copy that may be added: to the screen and from the screen.            *)
Copyable(dest, d) ==
    dest \subseteq Screen /\ d \in Point /\ \A p \in dest : Source(p, d) \in Screen

(* Both ways to add a copy keep its source on the screen.                  *)
LEMMA ReplaceFine ==
    ASSUME NEW t, Fine(t), NEW dest, NEW d, Copyable(dest, d)
    PROVE  /\ Fine(ReplaceCopy(t, dest, d))
           /\ ReplaceCopy(t, dest, d).cached = t.cached
  <1> DEFINE src == Translate(dest, Negate(d))
             invalid == Translate(src \cap t.changed, d)
             n == ReplaceCopy(t, dest, d)
  <1>1. t.changed \subseteq Point /\ t.cached \subseteq Screen /\ t.copied \subseteq Screen
    BY DEF Fine, Tracker, Point
  <1>2. invalid \subseteq Point
    <2>1. src \cap t.changed \subseteq Point
      BY <1>1
    <2> QED
      BY <2>1, TranslateFact DEF Copyable
  <1>3. invalid = Translate(Translate(dest, Negate(d)) \cap t.changed, d)
    OBVIOUS
  <1> HIDE DEF n, invalid
  <1>4. n \in Tracker /\ n.cached = t.cached /\ n.copied = dest \ invalid /\ n.delta = d
    <2>1. t \in Tracker /\ dest \subseteq Screen /\ d \in Point
      BY DEF Fine, Copyable
    <2> QED
      BY ONLY <1>2, <1>3, <2>1, ScreenPoints DEF ReplaceCopy, Tracker, Point, n
  <1>5. CopiesFromScreen(n)
    BY <1>4 DEF CopiesFromScreen, Copyable
  <1> QED
    BY <1>4, <1>5 DEF Fine, n

LEMMA ContinueFine ==
    ASSUME NEW t, Fine(t), NEW dest, NEW d, Copyable(dest, d)
    PROVE  /\ Fine(ContinueCopy(t, dest, d))
           /\ ContinueCopy(t, dest, d).cached = t.cached
  <1> DEFINE src == Translate(dest, Negate(d))
             overlap == src \cap t.copied
             valid == Translate(overlap \ t.changed, d)
             n == ContinueCopy(t, dest, d)
  <1>1. /\ t.changed \subseteq Point /\ t.cached \subseteq Screen
        /\ t.copied \subseteq Screen /\ t.delta \in Point
        /\ dest \subseteq Point
    BY ScreenPoints DEF Fine, Tracker, Point, Copyable
  <1>2. \A p \in Point : p \in valid <=> Source(p, d) \in overlap \ t.changed
    <2>1. overlap \ t.changed \subseteq Point
      BY <1>1, ScreenPoints
    <2> QED
      BY <2>1, TranslateFact DEF Copyable
  <1>3. valid \subseteq Point
    <2>1. overlap \ t.changed \subseteq Point
      BY <1>1, ScreenPoints
    <2> QED
      BY <2>1, TranslateFact DEF Copyable
  <1>4. \A p \in valid : p \in dest
    <2> TAKE p \in valid
    <2>1. p \in Point /\ Source(p, d) \in src
      BY <1>2, <1>3
    <2>2. Source(p, d) \in Point /\ Add(Source(p, d), d) = p
      BY <2>1, PointFacts DEF Copyable
    <2>3. Add(Source(p, d), d) \in dest
      BY <1>1, <2>1, <2>2, TranslateFact DEF Copyable
    <2> QED
      BY <2>2, <2>3
  <1>5. \A p \in valid : Source(p, Add(t.delta, d)) \in Screen
    <2> TAKE p \in valid
    <2>1. Source(p, d) \in t.copied
      BY <1>2, <1>3
    <2>2. Source(Source(p, d), t.delta) \in Screen
      BY <2>1 DEF Fine, CopiesFromScreen
    <2>3. PICK q \in Point, e \in Point : p = q /\ t.delta = e
      BY <1>1, <1>3 DEF Copyable
    <2>4. Source(p, Add(t.delta, d)) = Source(Source(p, d), t.delta)
      BY <2>3, PointFacts DEF Copyable
    <2> QED
      BY <2>2, <2>4
  <1>6. Add(t.delta, d) \in Point
    BY <1>1, PointFacts DEF Copyable
  <1>7. valid \subseteq Screen
    BY <1>4 DEF Copyable
  <1>8. valid = Translate((Translate(dest, Negate(d)) \cap t.copied) \ t.changed, d)
    OBVIOUS
  <1> HIDE DEF n, valid
  <1>9. n \in Tracker /\ n.cached = t.cached /\ n.copied = valid
         /\ n.delta = Add(t.delta, d)
    <2>1. t \in Tracker /\ dest \subseteq Screen /\ d \in Point
      BY DEF Fine, Copyable
    <2> QED
      BY ONLY <1>6, <1>7, <1>8, <2>1, ScreenPoints DEF ContinueCopy, Tracker, Point, n
  <1>10. CopiesFromScreen(n)
    BY <1>5, <1>9 DEF CopiesFromScreen
  <1> QED
    BY <1>9, <1>10 DEF Fine, n

LEMMA AddChangedFine ==
    ASSUME NEW t, Fine(t), NEW R, R \subseteq Point
    PROVE  Fine(AddChanged(t, R)) /\ AddChanged(t, R).cached = t.cached
  BY DEF Fine, Tracker, CopiesFromScreen, AddChanged, Point

LEMMA AddCachedFine ==
    ASSUME NEW t, Fine(t), NEW R, R \subseteq Screen
    PROVE  Fine(AddCached(t, R))
  BY DEF Fine, Tracker, CopiesFromScreen, AddCached

LEMMA AddCopiedFine ==
    ASSUME NEW t, Fine(t), NEW dest, NEW d, Copyable(dest, d), NEW enabled \in BOOLEAN
    PROVE  /\ Fine(AddCopied(t, enabled, dest, d))
           /\ AddCopied(t, enabled, dest, d).cached = t.cached
  <1>1. dest \subseteq Point
    BY ScreenPoints DEF Copyable
  <1> QED
    BY <1>1, ReplaceFine, ContinueFine, AddChangedFine DEF AddCopied

(* Clipping both ends of a copy to the screen leaves one from the screen.  *)
LEMMA ClippedCopy ==
    ASSUME NEW dest, dest \subseteq Point, NEW d \in Point, NEW kept,
           kept = Translate(Translate(dest \cap Screen, Negate(d)) \cap Screen, d)
    PROVE  Copyable(kept, d)
  <1> DEFINE src == Translate(dest \cap Screen, Negate(d))
  <1>1. dest \cap Screen \subseteq Point /\ src \cap Screen \subseteq Point
    BY ScreenPoints
  <1>2. kept \subseteq Point
        /\ \A p \in Point : p \in kept <=> Source(p, d) \in src \cap Screen
    BY <1>1, TranslateFact
  <1>3. ASSUME NEW p \in kept PROVE p \in Screen /\ Source(p, d) \in Screen
    <2>1. p \in Point /\ Source(p, d) \in src /\ Source(p, d) \in Screen
      BY <1>2
    <2>2. Source(p, d) \in Point /\ Add(Source(p, d), d) = p
      BY <2>1, PointFacts
    <2>3. Add(Source(p, d), d) \in dest \cap Screen
      BY <1>1, <2>1, <2>2, TranslateFact
    <2> QED
      BY <2>1, <2>2, <2>3
  <1> QED
    BY <1>3 DEF Copyable

LEMMA ClippedAddCopiedFine ==
    ASSUME NEW t, Fine(t), NEW dest, dest \subseteq Point, NEW d \in Point
    PROVE  /\ Fine(ClippedAddCopied(t, dest, d))
           /\ ClippedAddCopied(t, dest, d).cached = t.cached
  <1> DEFINE kept == Translate(Translate(dest \cap Screen, Negate(d)) \cap Screen, d)
             n == AddCopied(t, TRUE, kept, d)
  <1>1. Copyable(kept, d)
    BY ClippedCopy
  <1>2. ClippedAddCopied(t, dest, d) = IF dest \cap Screen = {} THEN t
                                       ELSE AddChanged(n, dest \ kept)
    BY DEF ClippedAddCopied
  <1> HIDE DEF kept
  <1>3. Fine(n) /\ n.cached = t.cached
    BY <1>1, AddCopiedFine
  <1> HIDE DEF n
  <1>4. Fine(AddChanged(n, dest \ kept)) /\ AddChanged(n, dest \ kept).cached = n.cached
    BY <1>3, AddChangedFine
  <1> QED
    BY <1>2, <1>3, <1>4

LEMMA EmptyFine == Fine(Empty)
  BY DEF Fine, Empty, Tracker, CopiesFromScreen

LEMMA ClipFine ==
    ASSUME NEW t, Fine(t), NEW R
    PROVE  Fine(Clip(t, R)) /\ Fine(Without(t, R))
  BY DEF Fine, Tracker, CopiesFromScreen, Clip, Without

LEMMA GetUpdateFine ==
    ASSUME NEW from, Fine(from), NEW to, Fine(to), NEW enabled \in BOOLEAN
    PROVE  Fine(GetUpdate(from, to, enabled))
  <1> DEFINE n == AddCopied(to, enabled, from.copied, from.delta)
             m == AddChanged(n, from.changed)
  <1>1. /\ Copyable(from.copied, from.delta)
        /\ from.changed \subseteq Point /\ from.cached \subseteq Screen
    BY DEF Fine, Tracker, CopiesFromScreen, Copyable, Point
  <1>2. Fine(n)
    BY <1>1, AddCopiedFine
  <1> HIDE DEF n
  <1>3. Fine(m)
    BY <1>1, <1>2, AddChangedFine
  <1>4. GetUpdate(from, to, enabled) = AddCached(m, from.cached)
    BY DEF GetUpdate, n
  <1> HIDE DEF m
  <1> QED
    BY <1>1, <1>3, <1>4, AddCachedFine

(* A copy from the screen makes a picture of the screen.                   *)
LEMMA CopyRectType ==
    ASSUME NEW picture \in [Screen -> Colours], NEW R, NEW d,
           \A p \in R : Source(p, d) \in Screen
    PROVE  CopyRect(picture, R, d) \in [Screen -> Colours]
  BY DEF CopyRect

-----------------------------------------------------------------------------
(* Types, and copies from the screen, whatever the surroundings do.        *)
IInv == TypeOK /\ CopySourceOnScreen

LEMMA IInvFine == IInv => Fine(clipped) /\ Fine(tracker)
  BY DEF IInv, TypeOK, CopySourceOnScreen, Fine

LEMMA FineIInv ==
    ASSUME Fine(clipped), Fine(tracker), back \in [Screen -> Colours],
           copying \in BOOLEAN, incr \subseteq Screen, viewer \in [Screen -> Colours],
           stale \in BOOLEAN
    PROVE  IInv
  BY DEF IInv, TypeOK, CopySourceOnScreen, Fine

LEMMA InitIInv == Init => IInv
  <1> SUFFICES ASSUME Init PROVE IInv
    OBVIOUS
  <1>1. Fine(clipped) /\ Fine(tracker)
    BY EmptyFine, AddChangedFine, ScreenPoints DEF Init
  <1> QED
    BY <1>1, FineIInv DEF Init

LEMMA GrabIInv ==
    ASSUME IInv, NEW changed \in SUBSET Screen, NEW cached \in SUBSET Screen,
           Grab(changed, cached)
    PROVE  IInv'
  <1> DEFINE t == AddCached(AddChanged(clipped, changed), cached)
             pic == CopyRect(back, CopiedRects(clipped), clipped.delta)
  <1>1. Fine(clipped) /\ Fine(tracker)
    BY IInvFine
  <1>2. Fine(t)
    BY <1>1, AddChangedFine, AddCachedFine, ScreenPoints
  <1>3. tracker' = GetUpdate(t, tracker, copying) /\ clipped' = Empty
        /\ copying' = copying /\ incr' = incr /\ viewer' = viewer
        /\ stale' \in BOOLEAN
    BY DEF Grab, IInv, TypeOK
  <1>4. Fine(tracker)' /\ Fine(clipped)'
    <2>1. Fine(tracker')
      <3> HIDE DEF t
      <3> QED
        BY <1>1, <1>2, <1>3, GetUpdateFine DEF IInv, TypeOK
    <2>2. Fine(clipped')
      BY <1>3, EmptyFine
    <2> QED
      BY <2>1, <2>2 DEF Fine, CopiesFromScreen, Tracker
  <1>5. pic \in [Screen -> Colours]
    <2>1. \A p \in CopiedRects(clipped) : Source(p, clipped.delta) \in Screen
      BY <1>1 DEF Fine, CopiesFromScreen, CopiedRects
    <2> QED
      BY <2>1, CopyRectType DEF IInv, TypeOK
  <1>6. back' \in [Screen -> Colours]
    <2>1. PICK seen \in [changed \cup cached -> Colours] :
            back' = [p \in Screen |-> IF p \in changed \cup cached THEN seen[p] ELSE pic[p]]
      BY DEF Grab
    <2> HIDE DEF pic
    <2> QED
      BY <1>5, <2>1
  <1> QED
    BY <1>3, <1>4, <1>6 DEF IInv, TypeOK, CopySourceOnScreen, Fine

(* An update is a legal one, so that the viewer has a picture afterwards.  *)
LEMMA SendUpdateIInv ==
    ASSUME IInv, NEW pointer \in Pointers, SendUpdate(pointer)
    PROVE  IInv'
  <1> DEFINE g == GetUpdate(Clip(tracker, incr), Empty, TRUE)
             u == AddChanged(g, pointer)
             pic == CopyRect(viewer, CopiedRects(u), u.delta)
  <1>1. Fine(clipped) /\ Fine(tracker)
    BY IInvFine
  <1>2. Fine(u)
    <2>1. Fine(g)
      BY <1>1, ClipFine, EmptyFine, GetUpdateFine
    <2>2. pointer \subseteq Point
      BY PointersAssumption, ScreenPoints
    <2> HIDE DEF g
    <2> QED
      BY <2>1, <2>2, AddChangedFine
  <1>3. /\ viewer' = Updated(u) /\ tracker' = Without(tracker, incr) /\ incr' = {}
        /\ back' = back /\ clipped' = clipped /\ copying' = copying
    BY DEF SendUpdate
  <1> HIDE DEF u
  <1>4. pic \in [Screen -> Colours]
    <2>1. \A p \in CopiedRects(u) : Source(p, u.delta) \in Screen
      BY <1>2 DEF Fine, CopiesFromScreen, CopiedRects
    <2> QED
      BY <2>1, CopyRectType DEF IInv, TypeOK
  <1>5. viewer' = [p \in Screen |-> IF p \in u.changed \cup u.cached
                                    THEN back[p] ELSE pic[p]]
    BY <1>3 DEF Updated
  <1> HIDE DEF pic
  <1>6. viewer' \in [Screen -> Colours]
    BY <1>4, <1>5 DEF IInv, TypeOK
  <1>7. Fine(tracker') /\ Fine(clipped')
    BY <1>1, <1>3, ClipFine
  <1>8. /\ back' \in [Screen -> Colours] /\ copying' \in BOOLEAN
        /\ incr' \subseteq Screen /\ stale' \in BOOLEAN
    <2>1. stale' = (stale \/ Overtakes(pointer))
      BY DEF SendUpdate
    <2> QED
      BY <1>3, <2>1 DEF IInv, TypeOK
  <1> QED
    BY <1>6, <1>7, <1>8 DEF IInv, TypeOK, CopySourceOnScreen, Fine

LEMMA NextIInv == IInv /\ [Next]_vars => IInv'
  <1> SUFFICES ASSUME IInv, [Next]_vars PROVE IInv'
    OBVIOUS
  <1>0. Fine(clipped) /\ Fine(tracker)
    BY IInvFine
  <1>1. ASSUME NEW dest \in Windows, NEW d \in Deltas, AddCopyRect(dest, d)
        PROVE  IInv'
    <2>1. dest \subseteq Point /\ d \in Point
      BY WindowsAssumption, DeltasAssumption DEF Point
    <2>2. Fine(clipped')
      BY <1>0, <1>1, <2>1, ClippedAddCopiedFine DEF AddCopyRect
    <2> QED
      BY <1>1, <2>2 DEF AddCopyRect, IInv, TypeOK, CopySourceOnScreen, Fine
  <1>2. ASSUME NEW changed \in SUBSET Screen, NEW cached \in Cacheable,
               Grab(changed, cached)
        PROVE  IInv'
    <2>1. cached \in SUBSET Screen
      BY CacheableAssumption
    <2> QED
      BY <1>2, <2>1, GrabIInv
  <1>3. ASSUME NEW region \in Requests, NEW incremental \in BOOLEAN,
               Request(region, incremental)
        PROVE  IInv'
    <2>1. region \subseteq Screen
      BY RequestsAssumption
    <2>2. Fine(tracker')
      <3>1. Fine(AddChanged(tracker, Screen))
        BY <1>0, AddChangedFine, ScreenPoints
      <3> QED
        BY <1>0, <1>3, <3>1 DEF Request
    <2>3. incr' \subseteq Screen /\ stale' \in BOOLEAN
      BY <1>3, <2>1 DEF Request, IInv, TypeOK
    <2> QED
      BY <1>3, <2>2, <2>3 DEF Request, IInv, TypeOK, CopySourceOnScreen, Fine
  <1>4. ASSUME NEW copyrect \in BOOLEAN, SetEncodings(copyrect) PROVE IInv'
    BY <1>4 DEF SetEncodings, IInv, TypeOK, CopySourceOnScreen, CopiesFromScreen, Tracker
  <1>5. ASSUME NEW pointer \in Pointers, SendUpdate(pointer) PROVE IInv'
    BY <1>5, SendUpdateIInv
  <1>6. CASE UNCHANGED vars
    BY <1>6 DEF vars, IInv, TypeOK, CopySourceOnScreen, CopiesFromScreen, Tracker
  <1> QED
    BY <1>1, <1>2, <1>3, <1>4, <1>5, <1>6 DEF Next

LEMMA Inductive == Spec => []IInv
  BY InitIInv, NextIInv, PTL DEF Spec

(* The pictures, the trackers and what was requested keep their types,     *)
(* which needs that no update asks the viewer to copy from elsewhere.      *)
THEOREM TypeCorrect == Spec => []TypeOK
  BY Inductive, PTL DEF IInv

(* However often copies are clipped, continued and replaced, and whatever  *)
(* the viewer switches on, its source is always on the screen.             *)
THEOREM CopiesComeFromScreen == Spec => []CopySourceOnScreen
  BY Inductive, PTL DEF IInv

-----------------------------------------------------------------------------
(* What is pending is enough.                                              *)

(* The new picture b follows from the old picture v by what t holds, except*)
(* for the points of X.                                                    *)
Explained(t, b, v, X) ==
    \A p \in Screen \ (t.changed \cup t.cached \cup X) :
        b[p] = IF p \in t.copied THEN v[Source(p, t.delta)] ELSE v[p]

(* So it does after a copy in the picture that the tracker is told of, be  *)
(* it continued, replaced, dropped for a bigger one or not made at all, if *)
(* nothing of it is copied from what waits to be sent from the cache.      *)
LEMMA AddCopiedExplains ==
    ASSUME NEW t, Fine(t), NEW dest, NEW d, Copyable(dest, d), NEW enabled \in BOOLEAN,
           NEW b, NEW v, NEW c, NEW X, Explained(t, b, v, {}),
           \A p \in Screen \ X : c[p] = IF p \in dest THEN b[Source(p, d)] ELSE b[p],
           NEW n, n = AddCopied(t, enabled, dest, d),
           \A p \in (dest \cap n.copied) \ (n.changed \cup X) : Source(p, d) \notin t.cached
    PROVE  Explained(n, c, v, X)
  <1> DEFINE src == Translate(dest, Negate(d))
  <1>0. n.cached = t.cached
    BY AddCopiedFine
  <1>1. /\ t \in Tracker /\ t.changed \subseteq Point /\ t.copied \subseteq Screen
        /\ dest \subseteq Screen /\ dest \subseteq Point /\ d \in Point
    BY ScreenPoints DEF Fine, Tracker, Point, Copyable
  <1>2. \A p \in Point : p \in dest => Source(p, d) \in Screen /\ Source(p, d) \in src
    <2> TAKE p \in Point
    <2> HAVE p \in dest
    <2>1. Source(p, d) \in Point /\ Add(Source(p, d), d) = p
      BY <1>1, PointFacts
    <2>2. Source(p, d) \in src <=> Add(Source(p, d), d) \in dest
      BY <1>1, <2>1, TranslateFact
    <2> QED
      BY <2>1, <2>2 DEF Copyable
  <1>3. CASE n = AddChanged(t, dest) \/ (dest = {} /\ n = t)
    <2>1. n.changed = t.changed \cup dest /\ n.copied = t.copied /\ n.delta = t.delta
      BY <1>1, <1>3 DEF AddChanged, Tracker
    <2> QED
      BY <1>0, <2>1 DEF Explained
  <1>4. CASE n = ContinueCopy(t, dest, d)
    <2> DEFINE valid == Translate((Translate(dest, Negate(d)) \cap t.copied) \ t.changed, d)
    <2>1. (src \cap t.copied) \ t.changed \subseteq Point
      BY <1>1, ScreenPoints
    <2>2. /\ valid \subseteq Point
          /\ \A p \in Point :
               p \in valid <=> Source(p, d) \in (src \cap t.copied) \ t.changed
      BY <1>1, <2>1, TranslateFact
    <2>3. valid \subseteq dest
      <3> SUFFICES ASSUME NEW p \in valid PROVE p \in dest
        OBVIOUS
      <3>1. p \in Point /\ Source(p, d) \in src
        BY <2>2
      <3>2. Source(p, d) \in Point /\ Add(Source(p, d), d) = p
        BY <1>1, <3>1, PointFacts
      <3>3. Add(Source(p, d), d) \in dest
        BY <1>1, <3>1, <3>2, TranslateFact
      <3> QED
        BY <3>2, <3>3
    <2>4. PICK e \in Point : t.delta = e
      BY <1>1 DEF Tracker, Point
    <2>5. Add(e, d) \in Point
      BY <1>1, PointFacts
    <2>6. valid = Translate((Translate(dest, Negate(d)) \cap t.copied) \ t.changed, d)
      OBVIOUS
    <2> HIDE DEF valid
    <2>7. /\ n.changed = (t.changed \cup t.copied \cup dest) \ valid
          /\ n.copied = valid /\ n.delta = Add(e, d)
      <3>1. valid \subseteq Screen /\ Add(t.delta, d) \in Point
        BY <1>1, <2>3, <2>4, <2>5
      <3>2. /\ ContinueCopy(t, dest, d).changed
                  = (t.changed \cup t.copied \cup dest) \ valid
            /\ ContinueCopy(t, dest, d).copied = valid
            /\ ContinueCopy(t, dest, d).delta = Add(t.delta, d)
        <4>1. t \in Tracker /\ dest \subseteq Screen /\ d \in Point
          BY <1>1
        <4> QED
          BY ONLY <2>6, <3>1, <4>1, ScreenPoints DEF ContinueCopy, Tracker, Point
      <3> QED
        BY <1>4, <2>4, <3>2
    <2>8. SUFFICES ASSUME NEW p \in Screen \ (n.changed \cup n.cached \cup X)
                   PROVE  c[p] = IF p \in n.copied THEN v[Source(p, n.delta)] ELSE v[p]
      BY DEF Explained
    <2>9. CASE p \in valid
      <3>1. p \in Point /\ p \in dest /\ Source(p, d) \in t.copied \ t.changed
        BY <2>2, <2>3, <2>9
      <3>2. c[p] = b[Source(p, d)]
        BY <3>1
      <3>3. b[Source(p, d)] = v[Source(Source(p, d), e)]
        <4>1. Source(p, d) \notin t.cached
          BY <2>7, <2>9, <3>1
        <4> QED
          BY <1>1, <2>4, <3>1, <4>1 DEF Explained
      <3>4. Source(p, Add(e, d)) = Source(Source(p, d), e)
        BY <1>1, <3>1, PointFacts
      <3> QED
        BY <2>7, <2>9, <3>2, <3>3, <3>4
    <2>10. CASE p \notin valid
      BY <1>0, <2>7, <2>10 DEF Explained
    <2> QED
      BY <2>9, <2>10
  <1>5. CASE n = ReplaceCopy(t, dest, d) /\ src \cap t.copied = {}
    <2> DEFINE invalid == Translate(Translate(dest, Negate(d)) \cap t.changed, d)
    <2>1. src \cap t.changed \subseteq Point
      BY <1>1
    <2>2. /\ invalid \subseteq Point
          /\ \A p \in Point : p \in invalid <=> Source(p, d) \in src \cap t.changed
      BY <1>1, <2>1, TranslateFact
    <2>3. invalid = Translate(Translate(dest, Negate(d)) \cap t.changed, d)
      OBVIOUS
    <2> HIDE DEF invalid
    <2>4. /\ n.changed = t.changed \cup invalid \cup t.copied
          /\ n.copied = dest \ invalid /\ n.delta = d
      <3>1. /\ ReplaceCopy(t, dest, d).changed = t.changed \cup invalid \cup t.copied
            /\ ReplaceCopy(t, dest, d).copied = dest \ invalid
            /\ ReplaceCopy(t, dest, d).delta = d
        <4>1. /\ t \in Tracker /\ dest \subseteq Screen /\ d \in Point
              /\ invalid \subseteq Point
          BY <1>1, <2>2
        <4> QED
          BY ONLY <2>3, <4>1, ScreenPoints DEF ReplaceCopy, Tracker, Point
      <3> QED
        BY <1>5, <3>1
    <2>5. SUFFICES ASSUME NEW p \in Screen \ (n.changed \cup n.cached \cup X)
                   PROVE  c[p] = IF p \in n.copied THEN v[Source(p, n.delta)] ELSE v[p]
      BY DEF Explained
    <2>6. CASE p \in dest
      <3>1. /\ Source(p, d) \in Screen
            /\ Source(p, d) \notin t.changed /\ Source(p, d) \notin t.copied
        BY <1>1, <1>2, <1>5, <2>2, <2>4, <2>6
      <3>2. Source(p, d) \notin t.cached
        BY <2>2, <2>4, <2>6
      <3> QED
        BY <2>4, <2>6, <3>1, <3>2 DEF Explained
    <2>7. CASE p \notin dest
      BY <1>0, <2>4, <2>7 DEF Explained
    <2> QED
      BY <2>6, <2>7
  <1> QED
    BY <1>3, <1>4, <1>5 DEF AddCopied

(* The invariant: the tracker of the desktop thread holds nothing cached   *)
(* between two grabs, and unless a copy is stale the client's tracker      *)
(* accounts for all that the viewer does not have.                         *)
PInv ==
    /\ IInv
    /\ clipped.cached = {}
    /\ ~stale => Explained(tracker, back, viewer, {})

LEMMA PInvEnough == PInv => PendingIsEnough
  BY DEF PInv, Explained, PendingIsEnough

LEMMA InitPInv == Init => PInv
  <1> SUFFICES ASSUME Init PROVE PInv
    OBVIOUS
  <1>1. tracker.changed = Screen /\ clipped.cached = {}
    BY DEF Init, Empty, AddChanged
  <1> QED
    BY <1>1, InitIInv DEF PInv, Explained

(* What a grab makes of the client's tracker.                              *)
LEMMA GrabTaken ==
    ASSUME IInv, NEW changed \in SUBSET Screen, NEW cached \in SUBSET Screen,
           Grab(changed, cached),
           NEW n, n = AddCopied(tracker, copying, clipped.copied, clipped.delta)
    PROVE  /\ Fine(n) /\ n.cached = tracker.cached
           /\ tracker'.changed = n.changed \cup clipped.changed \cup changed
           /\ tracker'.cached = tracker.cached \cup clipped.cached \cup cached
           /\ tracker'.copied = n.copied /\ tracker'.delta = n.delta
  <1>1. Fine(clipped) /\ Fine(tracker) /\ copying \in BOOLEAN
    BY IInvFine DEF IInv, TypeOK
  <1>2. Copyable(clipped.copied, clipped.delta)
    BY <1>1 DEF Fine, Tracker, CopiesFromScreen, Copyable, Point
  <1>3. Fine(n) /\ n.cached = tracker.cached
    BY <1>1, <1>2, AddCopiedFine
  <1>4. PICK t : t = AddCached(AddChanged(clipped, changed), cached)
    OBVIOUS
  <1>5. /\ t.changed = clipped.changed \cup changed
        /\ t.cached = clipped.cached \cup cached
        /\ t.copied = clipped.copied /\ t.delta = clipped.delta
    BY <1>1, <1>4 DEF Fine, Tracker, AddCached, AddChanged
  <1>6. tracker' = AddCached(AddChanged(n, t.changed), t.cached)
    BY <1>4, <1>5 DEF Grab, GetUpdate
  <1>7. /\ tracker'.copied = n.copied /\ tracker'.delta = n.delta
        /\ tracker'.changed = n.changed \cup t.changed
        /\ tracker'.cached = n.cached \cup t.cached
    BY <1>3, <1>6 DEF Fine, Tracker, AddCached, AddChanged
  <1> QED
    BY <1>3, <1>5, <1>7

(* A grab: the back buffer and the client's tracker take over the copies   *)
(* and the changes of the desktop thread.                                  *)
LEMMA GrabPInv ==
    ASSUME PInv, NEW changed \in SUBSET Screen, NEW cached \in SUBSET Screen,
           Grab(changed, cached)
    PROVE  PInv'
  <1> DEFINE X == clipped.changed \cup changed \cup cached
             pic == CopyRect(back, CopiedRects(clipped), clipped.delta)
  <1>1. Fine(clipped) /\ Fine(tracker) /\ IInv /\ copying \in BOOLEAN
    BY IInvFine DEF PInv, IInv, TypeOK
  <1>2. Copyable(clipped.copied, clipped.delta)
    BY <1>1 DEF Fine, Tracker, CopiesFromScreen, Copyable, Point
  <1>3. \A p \in Screen \ X : back'[p] = IF p \in clipped.copied
                                          THEN back[Source(p, clipped.delta)]
                                          ELSE back[p]
    <2>1. PICK seen \in [changed \cup cached -> Colours] :
            back' = [p \in Screen |-> IF p \in changed \cup cached THEN seen[p] ELSE pic[p]]
      BY DEF Grab
    <2>2. \A p \in Screen : pic[p] = back[IF p \in clipped.copied \ clipped.changed
                                          THEN Source(p, clipped.delta) ELSE p]
      BY DEF CopyRect, CopiedRects
    <2> HIDE DEF pic
    <2> QED
      BY <2>1, <2>2
  <1>4. PICK n : n = AddCopied(tracker, copying, clipped.copied, clipped.delta)
    OBVIOUS
  <1>5. /\ n.cached = tracker.cached
        /\ tracker'.changed \cup tracker'.cached = n.changed \cup n.cached \cup X
        /\ tracker'.changed \subseteq n.changed \cup X
        /\ tracker'.copied = n.copied /\ tracker'.delta = n.delta
    <2>1. clipped.cached = {}
      BY DEF PInv
    <2> QED
      BY <1>1, <1>4, <2>1, GrabTaken
  <1> HIDE DEF X
  <1>6. ASSUME ~stale' PROVE Explained(tracker', back', viewer', {})
    <2>1. ~stale /\ ~TakesFromCached /\ viewer' = viewer
      BY <1>6 DEF Grab
    <2>2. Explained(tracker, back, viewer, {})
      BY <2>1 DEF PInv
    <2>3. ASSUME NEW p \in (clipped.copied \cap n.copied) \ (n.changed \cup X)
          PROVE  Source(p, clipped.delta) \notin tracker.cached
      <3>1. p \in TakenOver
        BY <1>5, <2>3 DEF TakenOver, CopiedRects
      <3> QED
        BY <2>1, <3>1 DEF TakesFromCached
    <2>4. Explained(n, back', viewer, X)
      BY <1>1, <1>2, <1>3, <1>4, <2>2, <2>3, AddCopiedExplains
    <2> QED
      BY <1>5, <2>1, <2>4 DEF Explained
  <1>7. IInv'
    BY <1>1, GrabIInv
  <1>8. clipped'.cached = {}
    BY DEF Grab, Empty
  <1> QED
    BY <1>6, <1>7, <1>8 DEF PInv, Explained

(* Taking a tracker's update over into an empty tracker keeps it.          *)
LEMMA Taken ==
    ASSUME NEW c, Fine(c), NEW u, u = GetUpdate(c, Empty, TRUE)
    PROVE  /\ u \in Tracker
           /\ u.changed = c.changed /\ u.cached = c.cached /\ u.copied = c.copied
           /\ u.copied # {} => u.delta = c.delta
  <1> DEFINE n == AddCopied(Empty, TRUE, c.copied, c.delta)
  <1>1. c \in Tracker
    BY DEF Fine
  <1>2. u \in Tracker
    BY EmptyFine, GetUpdateFine DEF Fine
  <1>3. /\ n \in Tracker /\ n.changed = {} /\ n.cached = {} /\ n.copied = c.copied
        /\ c.copied # {} => n.delta = c.delta
    <2>1. CASE c.copied = {}
      <3>1. n = Empty
        BY <1>1, <2>1 DEF AddCopied
      <3> HIDE DEF n
      <3>2. /\ Empty \in Tracker /\ Empty.changed = {}
            /\ Empty.cached = {} /\ Empty.copied = {}
        BY EmptyFine DEF Fine, Empty
      <3> QED
        BY <2>1, <3>1, <3>2
    <2>2. CASE c.copied # {}
      <3> DEFINE none == Translate(Translate(c.copied, Negate(c.delta)) \cap {}, c.delta)
      <3>1. n = ReplaceCopy(Empty, c.copied, c.delta)
        BY <1>1, <2>2 DEF AddCopied, KeepOldCopy, Empty
      <3>2. none = {}
        BY DEF Translate
      <3>3. Empty = [changed |-> {}, cached |-> {}, copied |-> {}, delta |-> <<0, 0>>]
        BY DEF Empty
      <3>4. none = Translate(Translate(c.copied, Negate(c.delta)) \cap Empty.changed,
                             c.delta)
        BY <3>3
      <3>5. c.copied \subseteq Screen /\ c.delta \in Int \X Int
        BY <1>1 DEF Tracker
      <3> HIDE DEF none, n
      <3> DEFINE r(e) == [e EXCEPT !.changed = e.changed \cup none \cup e.copied,
                                   !.copied = c.copied \ none, !.delta = c.delta]
      <3>6. n = r(Empty)
        BY <3>1, <3>4 DEF ReplaceCopy
      <3>7. n = r([changed |-> {}, cached |-> {}, copied |-> {}, delta |-> <<0, 0>>])
        BY ONLY <3>3, <3>6
      <3>8. n = [changed |-> {}, cached |-> {}, copied |-> c.copied, delta |-> c.delta]
        BY ONLY <3>2, <3>7
      <3> QED
        BY <3>5, <3>8 DEF Tracker
    <2> QED
      BY <2>1, <2>2
  <1>4. u = AddCached(AddChanged(n, c.changed), c.cached)
    BY DEF GetUpdate
  <1> HIDE DEF n
  <1>5. /\ u.changed = c.changed /\ u.cached = c.cached
        /\ u.copied = n.copied /\ u.delta = n.delta
    BY ONLY <1>1, <1>3, <1>4 DEF AddCached, AddChanged, Tracker
  <1> QED
    BY ONLY <1>2, <1>3, <1>5

(* An update: the copies, and then what is sent, bring the part requested  *)
(* and the place of the pointer up to date, and nothing else changes.      *)
LEMMA UpdatedPoints ==
    ASSUME PInv, ~stale, NEW pointer \in Pointers, SendUpdate(pointer)
    PROVE  viewer' = [p \in Screen |-> IF p \in (Pending(tracker) \cap incr) \cup pointer
                                       THEN back[p] ELSE viewer[p]]
  <1> DEFINE g == GetUpdate(Clip(tracker, incr), Empty, TRUE)
             u == AddChanged(g, pointer)
             pic == CopyRect(viewer, CopiedRects(u), u.delta)
  <1>1. Fine(tracker) /\ IInv /\ incr \subseteq Screen
    BY IInvFine DEF PInv, IInv, TypeOK
  <1>2. /\ g \in Tracker
        /\ g.changed = tracker.changed \cap incr /\ g.cached = tracker.cached \cap incr
        /\ g.copied = tracker.copied \cap incr
        /\ g.copied # {} => g.delta = tracker.delta
    <2>1. PICK c : c = Clip(tracker, incr)
      OBVIOUS
    <2>2. /\ c.changed = tracker.changed \cap incr /\ c.cached = tracker.cached \cap incr
          /\ c.copied = tracker.copied \cap incr /\ c.delta = tracker.delta
      BY <1>1, <2>1 DEF Clip, Fine, Tracker
    <2>3. Fine(c) /\ g = GetUpdate(c, Empty, TRUE)
      BY <1>1, <2>1, ClipFine
    <2> HIDE DEF g
    <2>4. /\ g \in Tracker
          /\ g.changed = c.changed /\ g.cached = c.cached /\ g.copied = c.copied
          /\ g.copied # {} => g.delta = c.delta
      BY ONLY <2>3, Taken
    <2> QED
      BY ONLY <2>2, <2>4
  <1>3. viewer' = Updated(u)
    BY DEF SendUpdate
  <1> HIDE DEF g
  <1>4. /\ u.changed = (tracker.changed \cap incr) \cup pointer
        /\ u.cached = tracker.cached \cap incr
        /\ u.copied = tracker.copied \cap incr
        /\ tracker.copied \cap incr # {} => u.delta = tracker.delta
    BY <1>2 DEF AddChanged, Tracker
  <1> HIDE DEF u
  <1>5. \A p \in Screen : pic[p] = viewer[IF p \in u.copied \ u.changed
                                          THEN Source(p, u.delta) ELSE p]
    BY DEF CopyRect, CopiedRects
  <1>6. viewer' = [p \in Screen |-> IF p \in u.changed \cup u.cached
                                    THEN back[p] ELSE pic[p]]
    BY <1>3 DEF Updated
  <1> HIDE DEF pic
  <1> DEFINE now(p) == IF p \in (Pending(tracker) \cap incr) \cup pointer
                       THEN back[p] ELSE viewer[p]
  <1>7. ASSUME NEW p \in Screen
        PROVE  viewer'[p] = now(p)
    <2>1. CASE p \in u.changed \cup u.cached
      BY <1>4, <1>6, <2>1 DEF Pending
    <2>2. CASE p \notin u.changed \cup u.cached /\ p \in u.copied
      <3>1. p \in Screen \ (tracker.changed \cup tracker.cached) /\ p \in tracker.copied
        BY <1>4, <2>2
      <3>2. back[p] = viewer[Source(p, tracker.delta)]
        BY <3>1 DEF PInv, Explained
      <3> QED
        BY <1>4, <1>5, <1>6, <2>2, <3>2 DEF Pending
    <2>3. CASE p \notin u.changed \cup u.cached /\ p \notin u.copied
      BY <1>4, <1>5, <1>6, <2>3 DEF Pending
    <2> QED
      BY <2>1, <2>2, <2>3
  <1>8. viewer' = [p \in Screen |-> now(p)]
    <2>1. viewer' = [p \in Screen |-> viewer'[p]]
      BY <1>6
    <2> HIDE DEF now
    <2> QED
      BY <1>7, <2>1
  <1> QED
    BY <1>8

(* For the whole screen this leaves the back buffer.                       *)
LEMMA WholeUpdate ==
    ASSUME PInv, ~stale, NEW pointer \in Pointers, SendUpdate(pointer), incr = Screen
    PROVE  viewer' = back
  <1>1. viewer' = [p \in Screen |-> IF p \in (Pending(tracker) \cap Screen) \cup pointer
                                    THEN back[p] ELSE viewer[p]]
    BY UpdatedPoints
  <1>2. \A p \in Screen \ Pending(tracker) : back[p] = viewer[p]
    BY DEF PInv, Explained, Pending
  <1>3. viewer' = [p \in Screen |-> back[p]]
    BY <1>1, <1>2
  <1> QED
    BY <1>3 DEF PInv, IInv, TypeOK

(* What stays behind an update is still enough, unless it is overtaken.    *)
LEMMA SendUpdatePInv ==
    ASSUME PInv, NEW pointer \in Pointers, SendUpdate(pointer)
    PROVE  PInv'
  <1>1. IInv' /\ Fine(tracker) /\ tracker \in Tracker
    BY SendUpdateIInv, IInvFine DEF PInv, Fine
  <1>2. /\ tracker' = Without(tracker, incr) /\ back' = back
        /\ clipped' = clipped /\ stale' = (stale \/ Overtakes(pointer))
    BY DEF SendUpdate
  <1>3. /\ tracker'.changed = tracker.changed \ incr
        /\ tracker'.cached = tracker.cached \ incr
        /\ tracker'.copied = tracker.copied \ incr
        /\ tracker'.delta = tracker.delta
    BY <1>1, <1>2 DEF Tracker, Without
  <1>4. ASSUME ~stale' PROVE Explained(tracker', back', viewer', {})
    <2>1. ~stale /\ ~Overtakes(pointer) /\ Explained(tracker, back, viewer, {})
      BY <1>2, <1>4 DEF PInv
    <2>2. viewer' = [p \in Screen |-> IF p \in (Pending(tracker) \cap incr) \cup pointer
                                      THEN back[p] ELSE viewer[p]]
      BY <2>1, UpdatedPoints
    <2>3. \A p \in Screen \ Pending(tracker) : back[p] = viewer[p]
      BY <2>1 DEF Explained, Pending
    <2>4. SUFFICES ASSUME NEW p \in Screen \ (tracker'.changed \cup tracker'.cached)
                   PROVE  back[p] = IF p \in tracker'.copied
                                    THEN viewer'[Source(p, tracker'.delta)]
                                    ELSE viewer'[p]
      BY <1>2 DEF Explained
    <2>5. CASE p \in tracker'.copied
      <3>1. p \in CopiedRects(tracker) \ incr /\ p \in tracker.copied
            /\ p \in Screen \ (tracker.changed \cup tracker.cached)
        BY <1>3, <2>4, <2>5 DEF CopiedRects
      <3>2. PICK q : q = Source(p, tracker.delta)
        OBVIOUS
      <3>3. q \in Screen
        BY <1>1, <3>1, <3>2 DEF Fine, CopiesFromScreen
      <3>4. q \notin Pending(tracker) \cap (incr \cup pointer)
        BY <2>1, <3>1, <3>2 DEF Overtakes
      <3>5. back[p] = viewer[q]
        BY <2>1, <3>1, <3>2 DEF Explained
      <3>6. viewer'[q] = viewer[q]
        BY <2>2, <2>3, <3>3, <3>4
      <3> QED
        BY <1>3, <2>5, <3>2, <3>5, <3>6
    <2>6. CASE p \notin tracker'.copied
      <3>1. p \in Pending(tracker) => p \in incr
        BY <1>3, <2>4, <2>6 DEF Pending
      <3>2. viewer'[p] = back[p]
        BY <2>2, <2>3, <3>1
      <3> QED
        BY <2>6, <3>2
    <2> QED
      BY <2>5, <2>6
  <1> QED
    BY <1>1, <1>2, <1>4 DEF PInv, Explained

LEMMA NextPInv == PInv /\ [Next]_vars => PInv'
  <1> SUFFICES ASSUME PInv, [Next]_vars PROVE PInv'
    OBVIOUS
  <1>1. IInv' /\ Fine(clipped) /\ Fine(tracker)
    BY NextIInv, IInvFine DEF PInv
  <1>2. ASSUME NEW dest \in Windows, NEW d \in Deltas, AddCopyRect(dest, d)
        PROVE  PInv'
    <2>1. dest \subseteq Point /\ d \in Point
      BY WindowsAssumption, DeltasAssumption DEF Point
    <2>2. clipped'.cached = {}
      BY <1>1, <1>2, <2>1, ClippedAddCopiedFine DEF AddCopyRect, PInv
    <2> QED
      BY <1>1, <1>2, <2>2 DEF AddCopyRect, PInv, Explained
  <1>3. ASSUME NEW changed \in SUBSET Screen, NEW cached \in Cacheable,
               Grab(changed, cached)
        PROVE  PInv'
    <2>1. cached \in SUBSET Screen
      BY CacheableAssumption
    <2> QED
      BY <1>3, <2>1, GrabPInv
  <1>4. ASSUME NEW region \in Requests, NEW incremental \in BOOLEAN,
               Request(region, incremental)
        PROVE  PInv'
    <2>1. CASE incremental
      BY <1>1, <1>4, <2>1 DEF Request, PInv, Explained
    <2>2. CASE ~incremental
      <3>1. Screen \subseteq tracker'.changed
        BY <1>1, <1>4, <2>2 DEF Request, AddChanged, Fine, Tracker
      <3> QED
        BY <1>1, <1>4, <3>1 DEF Request, PInv, Explained
    <2> QED
      BY <2>1, <2>2
  <1>5. ASSUME NEW copyrect \in BOOLEAN, SetEncodings(copyrect) PROVE PInv'
    BY <1>1, <1>5 DEF SetEncodings, PInv, Explained
  <1>6. ASSUME NEW pointer \in Pointers, SendUpdate(pointer) PROVE PInv'
    BY <1>6, SendUpdatePInv
  <1>7. CASE UNCHANGED vars
    BY <1>1, <1>7 DEF vars, PInv, Explained
  <1> QED
    BY <1>2, <1>3, <1>4, <1>5, <1>6, <1>7 DEF Next

LEMMA InductiveP == Spec => []PInv
  BY InitPInv, NextPInv, PTL DEF Spec

(* Unless a copy is stale, a point that the client's tracker does not hold *)
(* is as the viewer has it, and one it only wants copied is where the copy *)
(* takes it from, whatever was requested, cached and drawn before.         *)
THEOREM PendingSuffices == Spec => []PendingIsEnough
  BY InductiveP, PInvEnough, PTL

(* Unless a copy is stale, an update to requests for the whole screen      *)
(* leaves the viewer with the back buffer, for any screen, any moves and   *)
(* any number of grabs, requests and updates before it.                    *)
THEOREM UpToDate == Spec => UpdateBringsUpToDate
  <1>1. PInv /\ [Next]_vars =>
          [(\E pointer \in Pointers : SendUpdate(pointer)) /\ incr = Screen /\ ~stale
             => viewer' = back]_vars
    BY WholeUpdate
  <1> QED
    BY <1>1, InductiveP, PTL DEF Spec, UpdateBringsUpToDate

-----------------------------------------------------------------------------
(* Which copies the client's tracker takes over.                           *)

(* Adding a copy never makes a tracker empty that was not.                 *)
LEMMA AddCopiedKeepsSome ==
    ASSUME NEW t, Fine(t), NEW dest, NEW d, Copyable(dest, d),
           Pending(AddCopied(t, TRUE, dest, d)) = {}
    PROVE  AddCopied(t, TRUE, dest, d) = t
  <1> SUFFICES ASSUME dest # {} PROVE FALSE
    BY DEF AddCopied
  <1>1. t \in Tracker
    BY DEF Fine
  <1>2. CASE Translate(dest, Negate(d)) \cap t.copied # {}
    <2> DEFINE valid == Translate((Translate(dest, Negate(d)) \cap t.copied) \ t.changed, d)
               n == ContinueCopy(t, dest, d)
    <2>1. n = [t EXCEPT !.changed = (t.changed \cup t.copied \cup dest) \ valid,
                        !.copied = valid, !.delta = Add(t.delta, d)]
      BY DEF ContinueCopy
    <2>2. AddCopied(t, TRUE, dest, d) = n
      BY <1>2 DEF AddCopied
    <2> HIDE DEF valid, n
    <2>3. dest \subseteq n.changed \cup n.copied
      BY <1>1, <2>1 DEF Tracker
    <2> QED
      BY <2>2, <2>3 DEF Pending
  <1>3. CASE Translate(dest, Negate(d)) \cap t.copied = {}
             /\ KeepOldCopy(t, dest)
    <2>1. AddCopied(t, TRUE, dest, d) = AddChanged(t, dest)
      BY <1>3 DEF AddCopied
    <2>2. dest \subseteq AddChanged(t, dest).changed
      BY <1>1 DEF AddChanged, Tracker
    <2> QED
      BY <2>1, <2>2 DEF Pending
  <1>4. CASE Translate(dest, Negate(d)) \cap t.copied = {}
             /\ ~KeepOldCopy(t, dest)
    <2> DEFINE invalid == Translate(Translate(dest, Negate(d)) \cap t.changed, d)
               n == ReplaceCopy(t, dest, d)
    <2>1. n = [t EXCEPT !.changed = t.changed \cup invalid \cup t.copied,
                        !.copied = dest \ invalid, !.delta = d]
      BY DEF ReplaceCopy
    <2>2. AddCopied(t, TRUE, dest, d) = n
      BY <1>4 DEF AddCopied
    <2> HIDE DEF invalid, n
    <2>3. dest \subseteq n.changed \cup n.copied
      BY <1>1, <2>1 DEF Tracker
    <2> QED
      BY <2>2, <2>3 DEF Pending
  <1> QED
    BY <1>2, <1>3, <1>4

LEMMA ClippedKeepsSome ==
    ASSUME NEW t, Fine(t), NEW dest, dest \subseteq Point, NEW d \in Point,
           ClippedAddCopied(t, dest, d) = Empty
    PROVE  t = Empty
  <1> DEFINE kept == Translate(Translate(dest \cap Screen, Negate(d)) \cap Screen, d)
             n == AddCopied(t, TRUE, kept, d)
  <1>1. Copyable(kept, d)
    BY ClippedCopy
  <1>2. Empty = IF dest \cap Screen = {} THEN t ELSE AddChanged(n, dest \ kept)
    BY DEF ClippedAddCopied
  <1>3. Fine(n)
    BY <1>1, AddCopiedFine
  <1> SUFFICES ASSUME Empty = AddChanged(n, dest \ kept) PROVE t = Empty
    BY <1>2
  <1>4. n = t \/ Pending(n) # {}
    BY <1>1, AddCopiedKeepsSome
  <1> HIDE DEF n, kept
  <1>5. /\ Empty.changed = {} /\ Empty.cached = {} /\ Empty.copied = {}
        /\ Empty.delta = <<0, 0>>
    BY DEF Empty
  <1>6. n \in Tracker
    BY <1>3 DEF Fine
  <1>7. /\ AddChanged(n, dest \ kept).changed = n.changed \cup (dest \ kept)
        /\ AddChanged(n, dest \ kept).cached = n.cached
        /\ AddChanged(n, dest \ kept).copied = n.copied
        /\ AddChanged(n, dest \ kept).delta = n.delta
    BY <1>6 DEF AddChanged, Tracker
  <1>8. n = t /\ n.changed = {} /\ n.cached = {} /\ n.copied = {} /\ n.delta = <<0, 0>>
    BY <1>4, <1>5, <1>7 DEF Pending
  <1> QED
    BY <1>6, <1>8 DEF Empty, Tracker

(* What remains to be copied of a copy that was added was not waiting to be*)
(* sent at its source.                                                     *)
LEMMA CopiesUnchanged ==
    ASSUME NEW t, Fine(t), NEW dest, NEW d, Copyable(dest, d), NEW enabled \in BOOLEAN,
           NEW n, n = AddCopied(t, enabled, dest, d),
           NEW p \in dest, p \in n.copied, p \notin n.changed
    PROVE  Source(p, d) \notin t.changed
  <1>1. t \in Tracker /\ dest # {} /\ dest \subseteq Point /\ d \in Point /\ p \in Point
    BY ScreenPoints DEF Fine, Copyable
  <1>2. n # AddChanged(t, dest)
    BY <1>1 DEF AddChanged, Tracker
  <1>3. t.changed \subseteq Point /\ t.copied \subseteq Point
    BY <1>1, ScreenPoints DEF Tracker, Point
  <1>4. CASE Translate(dest, Negate(d)) \cap t.copied # {}
    <2> DEFINE overlap == Translate(dest, Negate(d)) \cap t.copied
               valid == Translate(overlap \ t.changed, d)
    <2>1. n = ContinueCopy(t, dest, d)
      BY <1>1, <1>2, <1>4 DEF AddCopied
    <2>2. n = [t EXCEPT !.changed = (t.changed \cup t.copied \cup dest) \ valid,
                        !.copied = valid, !.delta = Add(t.delta, d)]
      BY <2>1 DEF ContinueCopy
    <2>3. p \in valid => Source(p, d) \in overlap \ t.changed
      <3>1. overlap \ t.changed \subseteq Point
        BY <1>3
      <3> QED
        BY <1>1, <3>1, TranslateFact
    <2> HIDE DEF valid
    <2>4. p \in valid
      BY <1>1, <2>2 DEF Tracker
    <2> QED
      BY <2>3, <2>4
  <1>5. CASE Translate(dest, Negate(d)) \cap t.copied = {}
    <2> DEFINE invalid == Translate(Translate(dest, Negate(d)) \cap t.changed, d)
    <2>1. n = ReplaceCopy(t, dest, d)
      BY <1>1, <1>2, <1>5 DEF AddCopied
    <2>2. n = [t EXCEPT !.changed = t.changed \cup invalid \cup t.copied,
                        !.copied = dest \ invalid, !.delta = d]
      BY <2>1 DEF ReplaceCopy
    <2>3. Source(p, d) \in t.changed => p \in invalid
      <3>1. Source(p, d) \in Point /\ Add(Source(p, d), d) = p
        BY <1>1, PointFacts
      <3>2. Source(p, d) \in Translate(dest, Negate(d))
        <4>1. PICK q \in Point : q = Source(p, d)
          BY <3>1
        <4>2. q \in Translate(dest, Negate(d)) <=> Add(q, d) \in dest
          BY <1>1, TranslateFact
        <4> QED
          BY <3>1, <4>1, <4>2
      <3>3. PICK R : R = Translate(dest, Negate(d)) \cap t.changed
        OBVIOUS
      <3>4. R \subseteq Point /\ invalid = Translate(R, d)
        BY <1>3, <3>3
      <3>5. p \in Translate(R, d) <=> Source(p, d) \in R
        BY <1>1, <3>4, TranslateFact
      <3> HIDE DEF invalid
      <3> QED
        BY <3>2, <3>3, <3>4, <3>5
    <2> HIDE DEF invalid
    <2>4. p \notin invalid
      BY <1>1, <2>2 DEF Tracker
    <2> QED
      BY <2>3, <2>4
  <1> QED
    BY <1>4, <1>5

LEMMA AddCopyRectClips ==
    ASSUME IInv, NEW dest \in Windows, NEW d \in Deltas, AddCopyRect(dest, d)
    PROVE  /\ clipped'.cached = clipped.cached
           /\ clipped' = Empty => clipped = Empty
  <1>1. dest \subseteq Point /\ d \in Point
    BY WindowsAssumption, DeltasAssumption DEF Point
  <1>2. Fine(clipped) /\ clipped' = ClippedAddCopied(clipped, dest, d)
    BY IInvFine DEF AddCopyRect
  <1> QED
    BY <1>1, <1>2, ClippedAddCopiedFine, ClippedKeepsSome

(* Only a grab empties the tracker of the desktop thread, and the client's *)
(* tracker then takes over a copy only from points that do not wait to be  *)
(* sent as changes.                                                        *)
THEOREM SentIsCopied == Spec => CopiesOnlyWhatIsSent
  <1>1. ASSUME IInv, [Next]_vars, clipped' = Empty, clipped # Empty, NEW p \in TakenOver
        PROVE  Source(p, clipped.delta) \notin tracker.changed
    <2>1. Fine(clipped) /\ Fine(tracker) /\ copying \in BOOLEAN
      BY <1>1, IInvFine DEF IInv, TypeOK
    <2>2. PICK changed \in SUBSET Screen, cached \in Cacheable : Grab(changed, cached)
      <3>1. ASSUME NEW dest \in Windows, NEW d \in Deltas PROVE ~AddCopyRect(dest, d)
        BY <1>1, AddCopyRectClips
      <3>2. clipped' # clipped
        BY <1>1
      <3> QED
        BY <1>1, <3>1, <3>2 DEF Next, vars, Request, SetEncodings, SendUpdate
    <2>3. cached \in SUBSET Screen
      BY CacheableAssumption
    <2>4. PICK n : n = AddCopied(tracker, copying, clipped.copied, clipped.delta)
      OBVIOUS
    <2>5. p \in n.copied /\ p \notin n.changed /\ p \in clipped.copied
      <3>1. /\ tracker'.copied = n.copied
            /\ tracker'.changed = n.changed \cup clipped.changed \cup changed
        BY ONLY <1>1, <2>2, <2>3, <2>4, GrabTaken
      <3> QED
        BY <1>1, <3>1 DEF TakenOver, CopiedRects
    <2>6. Copyable(clipped.copied, clipped.delta)
      BY <2>1 DEF Fine, Tracker, CopiesFromScreen, Copyable, Point
    <2> QED
      BY <2>1, <2>4, <2>5, <2>6, CopiesUnchanged
  <1>2. IInv /\ [Next]_vars =>
          [clipped' = Empty /\ clipped # Empty =>
             \A p \in TakenOver : Source(p, clipped.delta) \notin tracker.changed]_vars
    BY <1>1
  <1> QED
    BY <1>2, Inductive, PTL DEF Spec, CopiesOnlyWhatIsSent
=============================================================================
