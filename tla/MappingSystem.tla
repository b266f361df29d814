--------------------------- MODULE MappingSystem ----------------------------
(***************************************************************************)
(* The 2015 mapping system: between moves of the BUG run360Scan takes      *)
(* images all around and MatrixMap adds them to the maps; move_BUG turns a *)
(* displacement into cells and walks the position there, a zig-zag of      *)
(* single cells that it marks in P_Map.                                    *)
(*                                                                         *)
(* A Matlab function works on copies: when it ends in an error the caller  *)
(* keeps what it had.  The displacement, computed from the potentiometer   *)
(* and the wheels, is any pair of the given ones.                          *)
(***************************************************************************)
EXTENDS LocalMaps

CONSTANTS
  Start,          \* the first position, in both coordinates (25)
  Images,         \* images a scan takes (5)
  ImageSet,       \* bound: what an image may show
  Displacements,  \* bound: centimetres moved along an axis
  MaxMoves,       \* bound on moves
  MaxImages       \* bound on images

ASSUME MappingAssumption ==
  /\ Start \in 1 .. NCell /\ Images \in Nat \ {0}
  /\ ImageSet \subseteq Seq(Rays)
  /\ Displacements \subseteq Int
  /\ MaxMoves \in Nat /\ MaxImages \in Nat

VARIABLES
  xv_true,        \* position, row and column of P_Map
  roundingError,  \* centimetres not yet counted, along x and along y
  P_Map,          \* the cells marked
  call,           \* move_BUG's copies of these and what is left to walk
  servoPosition,  \* setting last asked of the servo
  servo,          \* the setting it was sent
  image,          \* the image run360Scan takes next, Images + 1 when it has
                  \* them all, 0 outside of it
  E_Map, O_Map,   \* emptiness and occupied support
  travelled,      \* history: centimetres moved, along x and along y
  uneven,         \* history: moves not of whole cells, along x and along y
  taken,          \* history: position and image, for each added to the maps
  moves           \* history: calls of move_BUG

position == <<xv_true, roundingError, P_Map>>
scan == <<servoPosition, servo, image>>
maps == <<E_Map, O_Map, taken>>
odometer == <<travelled, uneven>>
vars == <<position, call, scan, maps, odometer, moves>>

Idle == [busy |-> FALSE]
Pairs(S) == S \X S
-----------------------------------------------------------------------------
(* howMuch.m and move_BUG.m.                                               *)

\* ceil(position ./ 25)
ToCells(p) == -((-p) \div 25)

Uneven(p) == IF p % 25 = 0 THEN 0 ELSE 1

\* Faulty variant: the rest counted as a cell is kept.
CarryKept(p, rest) ==
  LET sum == rest + (p % 25)
  IN  IF sum >= 25 THEN [cells |-> ToCells(p) + 1, rest |-> sum]
      ELSE [cells |-> ToCells(p), rest |-> sum]

\* The cells to go and the rest, along one axis: a rest of a cell is one
\* more cell.
Carry(p, rest) ==
  LET sum == rest + (p % 25)
  IN  IF sum >= 25 THEN [cells |-> ToCells(p) + 1, rest |-> sum - 25]
      ELSE [cells |-> ToCells(p), rest |-> sum]

move_BUG(p) ==
  /\ ~call.busy /\ image = 0
  /\ moves < MaxMoves /\ moves' = moves + 1
  /\ LET x == Carry(p[1], roundingError[1])
         y == Carry(p[2], roundingError[2])
     IN  call' = [busy |-> TRUE, by |-> p, rest |-> <<x.rest, y.rest>>,
                  togo |-> <<x.cells, y.cells>>, at |-> xv_true, marks |-> P_Map]
  /\ UNCHANGED <<position, scan, maps, odometer>>

\* Faulty variant: an axis that has arrived turns back.
TowardZeroAlways(n) == IF n > 0 THEN 1 ELSE -1

\* The direction of one cell on an axis with n cells to go.
TowardZero(n) == IF n > 0 THEN 1 ELSE IF n < 0 THEN -1 ELSE 0

\* Faulty variant: only the end of a turn of the loop is marked.
MarksOfEnd(turn, corner) == {<<corner[1] + turn[2], corner[2]>>}

\* The cells a turn of the loop marks: x is walked first, along a row.
MarksOf(turn, corner) ==
  (IF turn[1] = 0 THEN {} ELSE {corner})
    \cup (IF turn[2] = 0 THEN {} ELSE {<<corner[1] + turn[2], corner[2]>>})

Walk ==
  LET turn == <<TowardZero(call.togo[1]), TowardZero(call.togo[2])>>
      corner == <<call.at[1], call.at[2] + turn[1]>>
      at == <<corner[1] + turn[2], corner[2]>>
      togo == <<call.togo[1] - turn[1], call.togo[2] - turn[2]>>
      new == MarksOf(turn, corner)
  IN  /\ call.busy
      /\ \/ \* an index outside of P_Map: everything is as before the call
            /\ new \notin SUBSET Cells
            /\ call' = Idle
            /\ UNCHANGED <<position, odometer>>
         \/ /\ new \subseteq Cells /\ togo # <<0, 0>>
            /\ call' = [call EXCEPT !.togo = togo, !.at = at, !.marks = @ \cup new]
            /\ UNCHANGED <<position, odometer>>
         \/ \* arrived: the last cell is marked once more, and it returns
            /\ new \subseteq Cells /\ togo = <<0, 0>>
            /\ call' = Idle
            /\ xv_true' = at /\ roundingError' = call.rest
            /\ P_Map' = call.marks \cup new \cup {at}
            /\ travelled' = [i \in 1 .. 2 |-> travelled[i] + call.by[i]]
            /\ uneven' = [i \in 1 .. 2 |-> uneven[i] + Uneven(call.by[i])]
      /\ UNCHANGED <<scan, maps, moves>>
-----------------------------------------------------------------------------
(* run360Scan.m, MatrixMap.m and movePololuServo.m.                        *)

\* The lower seven bits sent are those of 6120, whatever the setting.
Sent(setting) == (setting \div 128) * 128 + (6120 % 128)

TurnServo(setting) == servoPosition' = setting /\ servo' = Sent(setting)

run360Scan ==
  /\ ~call.busy /\ image = 0 /\ Len(taken) + Images <= MaxImages
  /\ image' = 1
  /\ TurnServo(4200)
  /\ UNCHANGED <<position, call, maps, odometer, moves>>

\* The position in lengths of the grid, of which a unit of xv_true is four
\* cells.
v_posn == <<xv_true[1] * 4 * Width, xv_true[2] * 4 * Width>>

Add(m, local) == [c \in Cells |-> m[c] + local[c]]

\* An image and the turn after it, the last one's too.  An error ends the
\* script with the servo where it is.
MatrixMap(img) ==
  /\ image \in 1 .. Images
  /\ \/ /\ Fails(v_posn, img)
        /\ image' = 0
        /\ UNCHANGED <<servoPosition, servo, maps>>
     \/ /\ ~Fails(v_posn, img)
        /\ LET local == compute_local_maps(v_posn, img)
           IN  E_Map' = Add(E_Map, local.E) /\ O_Map' = Add(O_Map, local.O)
        /\ taken' = Append(taken, [at |-> v_posn, image |-> img])
        /\ TurnServo(servoPosition + 900) /\ image' = image + 1
  /\ UNCHANGED <<position, call, odometer, moves>>

\* After the loop the servo is centred; servoPosition keeps the last turn.
CentreServo ==
  /\ image = Images + 1 /\ image' = 0
  /\ servo' = Sent(6000)
  /\ UNCHANGED <<position, call, servoPosition, maps, odometer, moves>>
-----------------------------------------------------------------------------
\* SetupSystem.m
Init ==
  /\ xv_true = <<Start, Start>> /\ roundingError = <<0, 0>>
  /\ P_Map = {<<Start, Start>>}
  /\ call = Idle
  /\ servoPosition = 6000 /\ servo = 6000 /\ image = 0
  /\ E_Map = NoSupport /\ O_Map = NoSupport
  /\ travelled = <<0, 0>> /\ uneven = <<0, 0>> /\ taken = << >> /\ moves = 0

Next ==
  \/ \E p \in Pairs(Displacements) : move_BUG(p)
  \/ Walk
  \/ run360Scan
  \/ \E img \in ImageSet : MatrixMap(img)
  \/ CentreServo

\* Matlab goes on with a function it has begun.
Spec == Init /\ [][Next]_vars /\ WF_vars(Walk)
-----------------------------------------------------------------------------
(* Properties.                                                             *)

TypeOK ==
  /\ xv_true \in Cells /\ P_Map \in SUBSET Cells
  /\ roundingError \in Pairs(0 .. 24)
  /\ \/ call = Idle
     \/ /\ call.busy /\ call.by \in Pairs(Displacements) /\ call.rest \in Pairs(0 .. 24)
        /\ call.togo \in Pairs(Int) /\ call.at \in Cells /\ call.marks \in SUBSET Cells
  /\ image \in 0 .. Images + 1 /\ servoPosition \in Nat /\ servo \in Nat
  /\ E_Map \in [Cells -> Nat] /\ O_Map \in [Cells -> Nat]
  /\ travelled \in Pairs(Int) /\ uneven \in Pairs(Nat) /\ moves \in 0 .. MaxMoves

\* Dead reckoning: the cells walked and the rest account for every
\* centimetre, but howMuch() rounds up and carries the rest as if it had
\* rounded down, so that each move not of whole cells counts a cell more.
\* P_Map's rows are walked along y and its columns along x.
Reckoned ==
  \A i \in 1 .. 2 :
    25 * (xv_true[3 - i] - Start) + roundingError[i] = travelled[i] + 25 * uneven[i]

Adjacent(c, d) ==
  \/ c[1] = d[1] /\ c[2] - d[2] \in {1, -1}
  \/ c[2] = d[2] /\ c[1] - d[1] \in {1, -1}

\* The marked cells are one path from the start to the BUG, without gaps or
\* diagonal steps, also after moves that were given up at the border: a part
\* of them that has the BUG's cell, and with each cell those beside it, is all.
TrailConnected ==
  /\ {<<Start, Start>>, xv_true} \subseteq P_Map
  /\ \A part \in SUBSET P_Map :
       xv_true \in part /\ (\A c \in part, d \in P_Map : Adjacent(c, d) => d \in part) => part = P_Map

\* The support a step adds: that of the image it takes, if it takes one.
Supported ==
  LET img == Last(taken').image
      seen == IF taken' = taken THEN {} ELSE Measured(img)
  IN  \A c \in Cells :
        /\ E_Map'[c] - E_Map[c] = Cardinality({i \in seen : Empties(v_posn, img[i], c)})
        /\ O_Map'[c] - O_Map[c] = Cardinality({i \in seen : EndCell(v_posn, img[i]) = c})

\* Every image, from wherever it was taken, adds support once to each cell a
\* ray crosses and to the one it ends in, and to no other; nothing else does.
MapsSupported == [][Supported]_maps

\* An image is lost exactly when the BUG stands, or a measured range ends,
\* at the border, beyond it, or in the last row or column of the map, whose
\* index is one more than the matrices have; a ray between two good points
\* never fails.
LostImages ==
  image > 0 =>
    \A img \in ImageSet : Fails(v_posn, img) <=>
      \E i \in Measured(img), axis \in 1 .. 2 :
        BeyondReach(v_posn[axis]) \/ BeyondReach(EndPoint(v_posn, img[i])[axis])

\* The loop of move_BUG(), whose condition is always true, ends.
MoveEnds == call.busy ~> ~call.busy
=============================================================================
