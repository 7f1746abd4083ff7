-------------------------- MODULE MCUpdateTracker --------------------------
(* A small screen for UpdateTracker: a row of three points, where windows  *)
(* of one and of two points are moved by one point to the middle and to the*)
(* end.  The viewer requests the whole screen or its first point; what is  *)
(* cached and where the pointer is drawn is the point in the middle.       *)
EXTENDS UpdateTracker, TLC

Row(first, last) == {<<x, 1>> : x \in first .. last}

ThreePoints == Row(1, 3)
TwoWindows == {Row(2, 2), Row(2, 3)}
OneRight == {<<1, 0>>}

WholeOrPart == {Screen, Row(1, 1)}
NoneOrMiddle == {{}, Row(2, 2)}

ColourSymmetry == Permutations(Colours)
=============================================================================
