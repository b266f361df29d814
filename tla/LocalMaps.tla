----------------------------- MODULE LocalMaps ------------------------------
(***************************************************************************)
(* The local maps of the 2015 mapping system: what one image of the Kinect *)
(* adds to the emptiness and the occupancy map.  A ray is sampled at       *)
(* r_step, a third of a cell, up to the measured range; the cells it       *)
(* crosses gain emptiness support, the one it ends in occupancy support.   *)
(*                                                                         *)
(* Lengths are integers.  Sines and cosines are left out: a ray is given   *)
(* by step, the vector of one step, of any direction, and by its length in *)
(* whole steps and at most one half.                                       *)
(***************************************************************************)
EXTENDS Integers, FiniteSets, SequencesExt

CONSTANTS
  NCell,  \* N_cell_x and N_cell_y: cells in a row and in a column (200)
  Width   \* grid_space: the width of a cell

ASSUME GridAssumption == NCell \in Nat \ {0} /\ Width \in Nat \ {0}

Cells == (1 .. NCell) \X (1 .. NCell)
NoCell == <<-1, -1>>
NoSupport == [c \in Cells |-> 0]
Rays == [step : Int \X Int, whole : Nat, half : {0, 1}]
-----------------------------------------------------------------------------
\* grid_x_posn and grid_y_posn have one line more than there are cells.
GridLine(i) == (i - 1) * Width

Outside(x) == x <= GridLine(1) \/ x >= GridLine(NCell + 1)

\* Faulty variant, as it was before: the line at or before the coordinate.
LineBefore(x) == (x \div Width) + 1

\* max(x_grid > x): the first line beyond the coordinate.
LineBeyond(x) == (x \div Width) + 2

\* get_cell(): the row is taken from the first coordinate.
get_cell(p) ==
  IF Outside(p[1]) \/ Outside(p[2]) THEN NoCell
  ELSE <<LineBeyond(p[1]), LineBeyond(p[2])>>
-----------------------------------------------------------------------------
Along(v, ray, k) == <<v[1] + k * ray.step[1], v[2] + k * ray.step[2]>>

EndPoint(v, ray) ==
  LET last == Along(v, ray, ray.whole)
  IN  <<last[1] + ray.half * (ray.step[1] \div 2), last[2] + ray.half * (ray.step[2] \div 2)>>

EndCell(v, ray) == get_cell(EndPoint(v, ray))

\* The points a ray is followed through: the vehicle's and the test points,
\* [0:r_step:r_est(i), r_est(i)]; the end is there twice when it is a whole
\* step.
Point(v, ray, k) ==
  IF k = 1 THEN v ELSE IF k = ray.whole + 3 THEN EndPoint(v, ray) ELSE Along(v, ray, k - 2)

Track(v, ray) == [k \in 1 .. ray.whole + 3 |-> get_cell(Point(v, ray, k))]

\* Faulty variant: every test point counts.
GainingEach(track) == {k \in DOMAIN track : k = 1 \/ track[k] # Last(track)}

\* Where the walk along a track adds support: at the vehicle, always, and at
\* each cell other than the one before and the last.
Gaining(track) ==
  {k \in DOMAIN track : k = 1 \/ (track[k] # track[k - 1] /\ track[k] # Last(track))}

\* The bearings an image is read for: a range of zero is skipped, and so is
\* the last bearing (Nb is one less than there are).
Measured(image) == {i \in 1 .. Len(image) - 1 : image[i].whole + image[i].half > 0}

\* The function ends in an error: a point is outside of the map, or its cell
\* is not an index of the matrices.  A visited cell is an index unless it is
\* new, and the end cell was one before.
Fails(v, image) == \E i \in Measured(image) : ~(ToSet(Track(v, image[i])) \subseteq Cells)

\* The steps of the walks that add emptiness support to cell c, each one.
Gains(v, image, c) ==
  UNION {LET track == Track(v, image[i])
         IN  {i} \X {k \in Gaining(track) : track[k] = c} : i \in Measured(image)}

compute_local_maps(v, image) ==
  [E |-> [c \in Cells |-> Cardinality(Gains(v, image, c))],
   O |-> [c \in Cells |-> Cardinality({i \in Measured(image) : EndCell(v, image[i]) = c})]]
-----------------------------------------------------------------------------
(* What the maps should hold, without the walk.                            *)

\* A ray crosses a cell if a test point is in it; the vehicle's own counts
\* even when the ray ends in it.
Empties(v, ray, c) == c = get_cell(v) \/ (c \in ToSet(Track(v, ray)) /\ c # EndCell(v, ray))

\* The first line that makes an index beyond the matrices, and not the
\* border, bounds what can be seen.
BeyondReach(x) == x <= GridLine(1) \/ x >= GridLine(NCell)
=============================================================================
