--------------------------- MODULE MCMotionSearch ---------------------------
(***************************************************************************)
(* Frames of 4 x 2 macroblocks.  A scene is a bowl around one displacement *)
(* (the true motion) with a second, shallower bowl, so that probes are     *)
(* taken, refused and cut off by the frame and by the search range.        *)
(***************************************************************************)
EXTENDS MotionSearch

MCScenes == { <<tx, ty, k, b>> : tx \in {-33, -14, -3, 0, 1, 6, 19, 40}, ty \in {-17, -2, 0, 5, 13}, k \in {1, 5},
              b \in {20, 100} }

MCDist(x, y, tx, ty) == Abs(x - tx) + Abs(y - ty)
MCLower(a, b) == IF a < b THEN a ELSE b

MCSad(s, x, y) ==
    MCLower(s[3] * MCDist(x, y, s[1], s[2]), s[4] + 3 * MCDist(x, y, -s[2], s[1]))
=============================================================================
