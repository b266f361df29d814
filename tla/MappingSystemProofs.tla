------------------------ MODULE MappingSystemProofs -------------------------
(***************************************************************************)
(* The mapping system, for a map of any size, rays of any direction and    *)
(* length and displacements of any length.                                 *)
(*                                                                         *)
(* Dead reckoning: the account Reckoned keeps of every centimetre, and     *)
(* that the position stays in the map.  The inductive invariant is the     *)
(* account of a move under way: what is walked, what is left to walk and   *)
(* the rest.                                                               *)
(*                                                                         *)
(* The maps: what an image adds, and when it is lost, is geometry.  Along  *)
(* an axis the points of a ray go one way, so that the line beyond them    *)
(* does, and a ray is in a cell, and within reach, for one stretch of its  *)
(* points.                                                                 *)
(*                                                                         *)
(* The trail: a turn of the loop adds to a connected set of cells only     *)
(* cells beside the last one.                                              *)
(***************************************************************************)
EXTENDS MappingSystem, SequenceTheorems, FiniteSetTheorems, WellFoundedInduction, TLAPS

Account(cells, rest, moved, more) == 25 * (cells - Start) + rest = moved + 25 * more

AtRest ==
  /\ xv_true \in Cells /\ roundingError \in Pairs(0 .. 24)
  /\ travelled \in Pairs(Int) /\ uneven \in Pairs(Int)
  /\ Account(xv_true[2], roundingError[1], travelled[1], uneven[1])
  /\ Account(xv_true[1], roundingError[2], travelled[2], uneven[2])

Moving ==
  /\ call \in [busy : {TRUE}, by : Pairs(Int), rest : Pairs(0 .. 24), togo : Pairs(Int),
               at : Cells, marks : SUBSET Cells]
  /\ Account(call.at[2] + call.togo[1], call.rest[1], travelled[1] + call.by[1],
             uneven[1] + Uneven(call.by[1]))
  /\ Account(call.at[1] + call.togo[2], call.rest[2], travelled[2] + call.by[2],
             uneven[2] + Uneven(call.by[2]))

ReckonInv ==
  /\ AtRest
  /\ P_Map \in SUBSET Cells
  /\ call = Idle \/ Moving

\* howMuch(): the cells and the rest are the displacement, the old rest and
\* a cell more unless the displacement is of whole cells.
LEMMA CarryExact ==
  ASSUME NEW p \in Int, NEW rest \in 0 .. 24
  PROVE  /\ Carry(p, rest).cells \in Int /\ Carry(p, rest).rest \in 0 .. 24
         /\ Uneven(p) \in Int
         /\ 25 * Carry(p, rest).cells + Carry(p, rest).rest = p + rest + 25 * Uneven(p)
<1>1. /\ p % 25 \in 0 .. 24 /\ ToCells(p) \in Int /\ Uneven(p) \in Int
      /\ 25 * ToCells(p) + (p % 25) = p + 25 * Uneven(p)
  BY Z3 DEF ToCells, Uneven
<1>2. PICK m \in 0 .. 24 : m = p % 25
  BY <1>1
<1>3. CASE rest + m >= 25
  <2>1. Carry(p, rest) = [cells |-> ToCells(p) + 1, rest |-> rest + m - 25]
    BY <1>2, <1>3 DEF Carry
  <2>2. Carry(p, rest).cells = ToCells(p) + 1 /\ Carry(p, rest).rest = rest + m - 25
    BY <2>1
  <2> QED BY <2>2, <1>1, <1>2, <1>3
<1>4. CASE ~(rest + m >= 25)
  <2>1. Carry(p, rest) = [cells |-> ToCells(p), rest |-> rest + m]
    BY <1>2, <1>4 DEF Carry
  <2>2. Carry(p, rest).cells = ToCells(p) /\ Carry(p, rest).rest = rest + m
    BY <2>1
  <2> QED BY <2>2, <1>1, <1>2, <1>4
<1> QED BY <1>3, <1>4

\* An account stays balanced when what is added to its sides is.
LEMMA AccountAdds ==
  ASSUME NEW c \in Int, NEW r \in Int, NEW m \in Int, NEW u \in Int,
         NEW dc \in Int, NEW rr \in Int, NEW dm \in Int, NEW du \in Int,
         Account(c, r, m, u), 25 * dc + rr = dm + r + 25 * du
  PROVE  Account(c + dc, rr, m + dm, u + du)
<1>1. Start \in Int
  BY GridAssumption, MappingAssumption
<1> QED BY <1>1, Z3 DEF Account

\* SetupSystem.m starts with an account that balances.
LEMMA ReckonInit == Init => ReckonInv
<1> SUFFICES ASSUME Init PROVE ReckonInv
  OBVIOUS
<1>1. Start \in 1 .. NCell /\ NCell \in Nat
  BY GridAssumption, MappingAssumption
<1>2. AtRest
  BY <1>1 DEF Init, AtRest, Account, Cells, Pairs
<1>3. P_Map \in SUBSET Cells /\ call = Idle
  BY <1>1 DEF Init, Cells
<1> QED BY <1>2, <1>3 DEF ReckonInv

\* A call begins: what is walked and left together is what was reckoned.
LEMMA ReckonCall ==
  ASSUME ReckonInv, NEW p \in Pairs(Displacements), move_BUG(p)
  PROVE  ReckonInv'
<1>1. p \in Pairs(Int) /\ p[1] \in Int /\ p[2] \in Int
  BY MappingAssumption DEF Pairs
<1>2. AtRest /\ P_Map \in SUBSET Cells
  BY DEF ReckonInv
<1>3. /\ roundingError[1] \in 0 .. 24 /\ roundingError[2] \in 0 .. 24
      /\ xv_true \in Cells /\ xv_true[1] \in Int /\ xv_true[2] \in Int
      /\ travelled[1] \in Int /\ travelled[2] \in Int
      /\ uneven[1] \in Int /\ uneven[2] \in Int
  BY <1>2, GridAssumption DEF AtRest, Pairs, Cells
<1> DEFINE x == Carry(p[1], roundingError[1])
           y == Carry(p[2], roundingError[2])
<1>4. /\ x.cells \in Int /\ x.rest \in 0 .. 24 /\ Uneven(p[1]) \in Int
      /\ 25 * x.cells + x.rest = p[1] + roundingError[1] + 25 * Uneven(p[1])
  BY <1>1, <1>3, CarryExact
<1>5. /\ y.cells \in Int /\ y.rest \in 0 .. 24 /\ Uneven(p[2]) \in Int
      /\ 25 * y.cells + y.rest = p[2] + roundingError[2] + 25 * Uneven(p[2])
  BY <1>1, <1>3, CarryExact
<1>6. /\ call' = [busy |-> TRUE, by |-> p, rest |-> <<x.rest, y.rest>>,
                  togo |-> <<x.cells, y.cells>>, at |-> xv_true, marks |-> P_Map]
      /\ UNCHANGED <<xv_true, roundingError, P_Map, travelled, uneven>>
  BY DEF move_BUG, position, odometer
<1> HIDE DEF x, y
<1>7. call' \in [busy : {TRUE}, by : Pairs(Int), rest : Pairs(0 .. 24), togo : Pairs(Int),
                 at : Cells, marks : SUBSET Cells]
  BY <1>1, <1>2, <1>3, <1>4, <1>5, <1>6 DEF Pairs
<1>8. /\ call'.by = p /\ call'.at = xv_true
      /\ call'.rest[1] = x.rest /\ call'.rest[2] = y.rest
      /\ call'.togo[1] = x.cells /\ call'.togo[2] = y.cells
  BY <1>6
<1>9. Account(xv_true[2] + x.cells, x.rest, travelled[1] + p[1], uneven[1] + Uneven(p[1]))
  <2>1. Start \in Int /\ Account(xv_true[2], roundingError[1], travelled[1], uneven[1])
    BY <1>2, GridAssumption, MappingAssumption DEF AtRest
  <2>2. roundingError[1] \in Int /\ x.rest \in Int
    BY <1>3, <1>4
  <2>3. 25 * x.cells + x.rest = p[1] + roundingError[1] + 25 * Uneven(p[1])
    BY <1>4
  <2> QED BY ONLY <2>1, <2>2, <2>3, <1>1, <1>3, <1>4, AccountAdds
<1>10. Account(xv_true[1] + y.cells, y.rest, travelled[2] + p[2], uneven[2] + Uneven(p[2]))
  <2>1. Start \in Int /\ Account(xv_true[1], roundingError[2], travelled[2], uneven[2])
    BY <1>2, GridAssumption, MappingAssumption DEF AtRest
  <2>2. roundingError[2] \in Int /\ y.rest \in Int
    BY <1>3, <1>5
  <2>3. 25 * y.cells + y.rest = p[2] + roundingError[2] + 25 * Uneven(p[2])
    BY <1>5
  <2> QED BY ONLY <2>1, <2>2, <2>3, <1>1, <1>3, <1>5, AccountAdds
<1>11. Moving'
  BY <1>6, <1>7, <1>8, <1>9, <1>10 DEF Moving
<1>12. AtRest'
  BY <1>2, <1>6 DEF AtRest
<1> QED BY <1>2, <1>6, <1>11, <1>12 DEF ReckonInv

\* One turn of the loop moves what is left to what is walked.
LEMMA ReckonWalk ==
  ASSUME ReckonInv, Walk
  PROVE  ReckonInv'
<1>1. call.busy /\ Moving /\ AtRest /\ P_Map \in SUBSET Cells
  BY DEF ReckonInv, Walk, Idle
<1>2. /\ call.togo[1] \in Int /\ call.togo[2] \in Int
      /\ call.at \in Cells /\ call.at[1] \in Int /\ call.at[2] \in Int
      /\ call.at = <<call.at[1], call.at[2]>>
      /\ call.rest \in Pairs(0 .. 24) /\ call.rest[1] \in Int /\ call.rest[2] \in Int
      /\ call.by \in Pairs(Int) /\ call.by[1] \in Int /\ call.by[2] \in Int
      /\ call.marks \in SUBSET Cells
  BY <1>1, GridAssumption DEF Moving, Pairs, Cells
<1>3. /\ travelled[1] \in Int /\ travelled[2] \in Int
      /\ uneven[1] \in Int /\ uneven[2] \in Int
      /\ Uneven(call.by[1]) \in Int /\ Uneven(call.by[2]) \in Int
  BY <1>1, <1>2 DEF AtRest, Pairs, Uneven
<1> DEFINE turn == <<TowardZero(call.togo[1]), TowardZero(call.togo[2])>>
           corner == <<call.at[1], call.at[2] + turn[1]>>
           at == <<corner[1] + turn[2], corner[2]>>
           togo == <<call.togo[1] - turn[1], call.togo[2] - turn[2]>>
           new == MarksOf(turn, corner)
<1>4. turn[1] \in {-1, 0, 1} /\ turn[2] \in {-1, 0, 1}
  BY <1>2 DEF TowardZero
<1>5. /\ togo \in Pairs(Int) /\ togo[1] \in Int /\ togo[2] \in Int
      /\ at[1] \in Int /\ at[2] \in Int
      /\ at[2] + togo[1] = call.at[2] + call.togo[1]
      /\ at[1] + togo[2] = call.at[1] + call.togo[2]
  BY <1>2, <1>4 DEF Pairs
<1>6. new \subseteq Cells => at \in Cells
  <2>1. CASE turn[2] # 0
    BY <2>1 DEF MarksOf
  <2>2. CASE turn[2] = 0 /\ turn[1] # 0
    <3>1. at = corner
      BY <2>2, <1>2
    <3> QED BY <2>2, <3>1 DEF MarksOf
  <2>3. CASE turn[2] = 0 /\ turn[1] = 0
    <3>1. at = call.at
      BY <2>3, <1>2
    <3> QED BY <3>1, <1>2
  <2> QED BY <2>1, <2>2, <2>3
<1>7. CASE new \notin SUBSET Cells
  <2>1. call' = Idle /\ UNCHANGED <<xv_true, roundingError, P_Map, travelled, uneven>>
    BY <1>7 DEF Walk, position, odometer
  <2>2. AtRest' /\ (P_Map \in SUBSET Cells)'
    BY <1>1, <2>1 DEF AtRest
  <2> QED BY <2>1, <2>2 DEF ReckonInv, Idle
<1>8. CASE new \subseteq Cells /\ togo # <<0, 0>>
  <2>1. /\ call' = [call EXCEPT !.togo = togo, !.at = at, !.marks = @ \cup new]
        /\ UNCHANGED <<xv_true, roundingError, P_Map, travelled, uneven>>
    BY <1>8 DEF Walk, position, odometer
  <2>2. call.marks \cup new \in SUBSET Cells
    BY <1>2, <1>8
  <2>3. at \in Cells
    BY <1>6, <1>8
  <2> HIDE DEF new, at, togo
  <2>4. /\ call' \in [busy : {TRUE}, by : Pairs(Int), rest : Pairs(0 .. 24), togo : Pairs(Int),
                       at : Cells, marks : SUBSET Cells]
        /\ call'.by = call.by /\ call'.rest = call.rest
        /\ call'.togo = togo /\ call'.at = at
    BY <1>1, <1>5, <2>1, <2>2, <2>3 DEF Moving
  <2>5. Moving'
    BY <1>1, <1>5, <2>1, <2>4 DEF Moving
  <2>6. AtRest' /\ (P_Map \in SUBSET Cells)'
    BY <1>1, <2>1 DEF AtRest
  <2> QED BY <2>5, <2>6 DEF ReckonInv
<1>9. CASE new \subseteq Cells /\ togo = <<0, 0>>
  <2>1. /\ call' = Idle /\ xv_true' = at /\ roundingError' = call.rest
        /\ P_Map' = call.marks \cup new \cup {at}
        /\ travelled' = [i \in 1 .. 2 |-> travelled[i] + call.by[i]]
        /\ uneven' = [i \in 1 .. 2 |-> uneven[i] + Uneven(call.by[i])]
    BY <1>9 DEF Walk
  <2>2. at \in Cells /\ P_Map' \in SUBSET Cells
    BY <1>2, <1>6, <1>9, <2>1
  <2>3. at[2] = call.at[2] + call.togo[1] /\ at[1] = call.at[1] + call.togo[2]
    <3>1. togo[1] = 0 /\ togo[2] = 0
      BY <1>9
    <3> QED BY <3>1, <1>5
  <2> HIDE DEF new, at, togo
  <2>4. travelled' \in Pairs(Int) /\ uneven' \in Pairs(Int)
    <3>1. travelled' = <<travelled[1] + call.by[1], travelled[2] + call.by[2]>>
      BY <2>1
    <3>2. uneven' = <<uneven[1] + Uneven(call.by[1]), uneven[2] + Uneven(call.by[2])>>
      BY <2>1
    <3> QED BY <3>1, <3>2, <1>2, <1>3 DEF Pairs
  <2>5. /\ travelled'[1] = travelled[1] + call.by[1] /\ travelled'[2] = travelled[2] + call.by[2]
        /\ uneven'[1] = uneven[1] + Uneven(call.by[1])
        /\ uneven'[2] = uneven[2] + Uneven(call.by[2])
    BY <2>1
  <2>6. AtRest'
    BY <1>1, <1>2, <2>1, <2>2, <2>3, <2>4, <2>5 DEF AtRest, Moving
  <2> QED BY <2>1, <2>2, <2>6 DEF ReckonInv, Idle
<1> QED BY <1>7, <1>8, <1>9

\* Only move_BUG() touches the account.
LEMMA ReckonStep == ReckonInv /\ [Next]_vars => ReckonInv'
<1> SUFFICES ASSUME ReckonInv, [Next]_vars PROVE ReckonInv'
  OBVIOUS
<1>1. ASSUME NEW p \in Pairs(Displacements), move_BUG(p) PROVE ReckonInv'
  BY <1>1, ReckonCall
<1>2. CASE Walk
  BY <1>2, ReckonWalk
<1>3. ASSUME UNCHANGED <<position, call, odometer>> PROVE ReckonInv'
  <2>1. UNCHANGED <<xv_true, roundingError, P_Map, call, travelled, uneven>>
    BY <1>3 DEF position, odometer
  <2> QED BY <2>1 DEF ReckonInv, AtRest, Moving
<1>4. CASE run360Scan
  BY <1>3, <1>4 DEF run360Scan
<1>5. ASSUME NEW img \in ImageSet, MatrixMap(img) PROVE ReckonInv'
  BY <1>3, <1>5 DEF MatrixMap
<1>6. CASE CentreServo
  BY <1>3, <1>6 DEF CentreServo
<1>7. CASE UNCHANGED vars
  BY <1>3, <1>7 DEF vars
<1> QED BY <1>1, <1>2, <1>4, <1>5, <1>6, <1>7 DEF Next

\* Every centimetre is accounted for: howMuch() and move_BUG() put the BUG
\* as many cells too far as there were moves not of whole cells.
THEOREM EveryCentimetreReckoned == Spec => []Reckoned
<1>1. ReckonInv => Reckoned
  <2> SUFFICES ASSUME ReckonInv, NEW i \in 1 .. 2
               PROVE  25 * (xv_true[3 - i] - Start) + roundingError[i] = travelled[i] + 25 * uneven[i]
    BY DEF Reckoned
  <2>1. CASE i = 1
    BY <2>1 DEF ReckonInv, AtRest, Account
  <2>2. CASE i = 2
    BY <2>2 DEF ReckonInv, AtRest, Account
  <2> QED BY <2>1, <2>2
<1> QED BY <1>1, ReckonInit, ReckonStep, PTL DEF Spec

\* The position kept is a cell of the map: a move that would leave it is
\* given up as a whole, and the rest stays below a cell.
THEOREM PositionStaysInMap ==
  Spec => [](xv_true \in Cells /\ P_Map \subseteq Cells /\ roundingError \in Pairs(0 .. 24))
<1>1. ReckonInv => xv_true \in Cells /\ P_Map \subseteq Cells /\ roundingError \in Pairs(0 .. 24)
  BY DEF ReckonInv, AtRest
<1> QED BY <1>1, ReckonInit, ReckonStep, PTL DEF Spec
-----------------------------------------------------------------------------
\* Multiplication and division keep an order.
LEMMA Scaled ==
  ASSUME NEW a \in Int, NEW b \in Int, NEW s \in Int, a =< b
  PROVE  /\ a * s \in Int /\ b * s \in Int
         /\ s >= 0 => a * s =< b * s
         /\ s =< 0 => b * s =< a * s
<1>1. ASSUME NEW d \in Int, NEW t \in Int, d >= 0, t >= 0 PROVE d * t >= 0
  BY <1>1, Z3
<1>2. s >= 0 => (b - a) * s >= 0
  BY <1>1
<1>3. s =< 0 => (b - a) * (-s) >= 0
  BY <1>1
<1>4. (b - a) * s = b * s - a * s /\ (b - a) * (-s) = a * s - b * s
  BY Z3
<1>5. a * s \in Int /\ b * s \in Int
  OBVIOUS
<1> QED BY <1>2, <1>3, <1>4, <1>5

\* A quotient is the integer at or below the exact one.
LEMMA Quotient ==
  ASSUME NEW x \in Int, NEW w \in Nat \ {0}
  PROVE  /\ x \div w \in Int
         /\ w * (x \div w) =< x
         /\ x < w * ((x \div w) + 1)
BY Z3

\* The line beyond a coordinate is the further, the further the coordinate.
LEMMA LinesOrdered ==
  ASSUME NEW x \in Int, NEW y \in Int, x =< y
  PROVE  LineBeyond(x) \in Int /\ LineBeyond(y) \in Int /\ LineBeyond(x) =< LineBeyond(y)
<1> DEFINE q == x \div Width
           r == y \div Width
<1>1. Width \in Int /\ Width > 0
  BY GridAssumption
<1>2. q \in Int /\ r \in Int /\ Width * q =< x /\ y < Width * (r + 1)
  BY GridAssumption, Quotient
<1> HIDE DEF q, r
<1>3. ASSUME r + 1 =< q PROVE FALSE
  <2>1. (r + 1) * Width =< q * Width
    BY <1>1, <1>2, <1>3, Scaled
  <2>2. (r + 1) * Width = Width * (r + 1) /\ q * Width = Width * q
    BY <1>1, <1>2
  <2>3. Width * (r + 1) \in Int /\ Width * q \in Int
    BY <1>1, <1>2
  <2> QED BY <1>2, <2>1, <2>2, <2>3
<1>4. q =< r
  BY <1>2, <1>3
<1> QED BY <1>2, <1>4 DEF LineBeyond, q, r

\* A coordinate has an index of the matrices exactly when it is within reach.
LEMMA IndexWithinReach ==
  ASSUME NEW x \in Int
  PROVE  ~Outside(x) /\ LineBeyond(x) \in 1 .. NCell <=> ~BeyondReach(x)
<1> DEFINE q == x \div Width
<1>1. Width \in Int /\ Width > 0 /\ NCell \in Int /\ NCell > 0
  BY GridAssumption
<1>2. q \in Int /\ Width * q =< x /\ x < Width * (q + 1)
  BY GridAssumption, Quotient
<1>3. LineBeyond(x) = q + 2
  BY DEF LineBeyond
<1> HIDE DEF q
<1>4. /\ GridLine(1) = 0 /\ GridLine(NCell) = (NCell - 1) * Width
      /\ GridLine(NCell + 1) = NCell * Width
  BY <1>1 DEF GridLine
<1>5. (NCell - 1) * Width \in Int /\ NCell * Width \in Int /\ (NCell - 1) * Width =< NCell * Width
  BY <1>1, Scaled
<1>6. Width * q = q * Width /\ Width * (q + 1) = (q + 1) * Width /\ q * Width \in Int /\ (q + 1) * Width \in Int
  BY <1>1, <1>2
<1>7. x > 0 => q >= 0
  <2>1. q + 1 =< 0 => (q + 1) * Width =< 0 * Width
    BY <1>1, <1>2, Scaled
  <2>2. 0 * Width = 0
    BY <1>1
  <2> QED BY <1>2, <1>6, <2>1, <2>2
<1>8. q + 1 =< NCell - 1 => x < (NCell - 1) * Width
  <2>1. q + 1 =< NCell - 1 => (q + 1) * Width =< (NCell - 1) * Width
    BY <1>1, <1>2, Scaled
  <2> QED BY <1>2, <1>5, <1>6, <2>1
<1>9. NCell - 1 =< q => (NCell - 1) * Width =< x
  <2>1. NCell - 1 =< q => (NCell - 1) * Width =< q * Width
    BY <1>1, <1>2, Scaled
  <2> QED BY <1>2, <1>5, <1>6, <2>1
<1> HIDE DEF GridLine
<1>10. CASE ~BeyondReach(x)
  <2>1. x > 0 /\ x < (NCell - 1) * Width
    BY <1>4, <1>5, <1>10 DEF BeyondReach
  <2>2. ~Outside(x)
    BY <1>4, <1>5, <2>1 DEF Outside
  <2>3. q >= 0 /\ q < NCell - 1
    BY <1>1, <1>2, <1>5, <1>7, <1>9, <2>1
  <2> QED BY <1>1, <1>2, <1>3, <1>10, <2>2, <2>3
<1>11. CASE ~Outside(x) /\ LineBeyond(x) \in 1 .. NCell
  <2>1. x > 0
    BY <1>4, <1>11 DEF Outside
  <2>2. q + 1 =< NCell - 1
    BY <1>1, <1>2, <1>3, <1>11
  <2> QED BY <1>4, <1>5, <1>8, <1>11, <2>1, <2>2 DEF BeyondReach
<1> QED BY <1>10, <1>11

\* A point has a cell of the map exactly when both coordinates are in reach.
LEMMA CellWithinReach ==
  ASSUME NEW p \in Int \X Int
  PROVE  /\ get_cell(p) \in Cells <=> ~BeyondReach(p[1]) /\ ~BeyondReach(p[2])
         /\ get_cell(p) \in Cells => get_cell(p) = <<LineBeyond(p[1]), LineBeyond(p[2])>>
<1>1. NoCell \notin Cells
  BY DEF NoCell, Cells
<1>2. p[1] \in Int /\ p[2] \in Int
  OBVIOUS
<1>3. /\ ~Outside(p[1]) /\ LineBeyond(p[1]) \in 1 .. NCell <=> ~BeyondReach(p[1])
      /\ ~Outside(p[2]) /\ LineBeyond(p[2]) \in 1 .. NCell <=> ~BeyondReach(p[2])
  BY <1>2, IndexWithinReach
<1>4. CASE Outside(p[1]) \/ Outside(p[2])
  BY <1>1, <1>3, <1>4 DEF get_cell
<1>5. CASE ~(Outside(p[1]) \/ Outside(p[2]))
  BY <1>3, <1>5 DEF get_cell, Cells
<1> QED BY <1>4, <1>5

\* The places of a track.
Places(ray) == 1 .. ray.whole + 3

\* The points of a ray are of integers.
LEMMA PointType ==
  ASSUME NEW v \in Int \X Int, NEW ray \in Rays, NEW k \in Places(ray)
  PROVE  Point(v, ray, k) \in Int \X Int
<1>1. /\ v[1] \in Int /\ v[2] \in Int
      /\ ray.step[1] \in Int /\ ray.step[2] \in Int /\ ray.whole \in Int /\ ray.half \in Int
  BY DEF Rays
<1>2. \A j \in Int : Along(v, ray, j) \in Int \X Int
  BY <1>1 DEF Along
<1>3. k \in Int
  BY <1>1 DEF Places
<1>4. /\ Along(v, ray, ray.whole)[1] \in Int /\ Along(v, ray, ray.whole)[2] \in Int
  BY <1>1, <1>2
<1>5. EndPoint(v, ray) \in Int \X Int
  BY <1>1, <1>4 DEF EndPoint
<1> QED BY <1>2, <1>3, <1>5 DEF Point

\* A track is the sequence of the points' cells, and ends in the end's.
LEMMA TrackCells ==
  ASSUME NEW v \in Int \X Int, NEW ray \in Rays
  PROVE  /\ DOMAIN Track(v, ray) = Places(ray)
         /\ \A k \in Places(ray) : Track(v, ray)[k] = get_cell(Point(v, ray, k))
         /\ Last(Track(v, ray)) = EndCell(v, ray)
<1> DEFINE n == ray.whole + 3
           C == {get_cell(Point(v, ray, k)) : k \in 1 .. n}
           track == Track(v, ray)
<1>1. n \in Nat /\ n >= 3
  BY DEF Rays
<1>2. track \in [1 .. n -> C]
  BY DEF Track
<1>3. \A k \in 1 .. n : track[k] = get_cell(Point(v, ray, k))
  BY DEF Track
<1>4. Point(v, ray, n) = EndPoint(v, ray)
  BY <1>1 DEF Point
<1> HIDE DEF n, C, track
<1>5. track \in Seq(C)
  BY <1>1, <1>2, SeqDef
<1>6. Len(track) = n
  BY <1>1, <1>2, <1>5, LenProperties
<1>7. Last(track) = EndCell(v, ray)
  BY <1>1, <1>3, <1>4, <1>6 DEF Last, EndCell
<1> QED BY <1>2, <1>3, <1>7 DEF track, n, Places

\* Along an axis the points of a ray go one way.
LEMMA PointsOrdered ==
  ASSUME NEW v \in Int \X Int, NEW ray \in Rays, NEW i \in 1 .. 2,
         NEW a \in Places(ray), NEW b \in Places(ray), a =< b
  PROVE  /\ ray.step[i] >= 0 => Point(v, ray, a)[i] =< Point(v, ray, b)[i]
         /\ ray.step[i] =< 0 => Point(v, ray, b)[i] =< Point(v, ray, a)[i]
<1> DEFINE s == ray.step[i]
           w == ray.whole
           steps(k) == IF k = 1 THEN 0 ELSE k - 2
           over == ray.half * (s \div 2)
<1>1. s \in Int /\ w \in Nat /\ v[i] \in Int /\ ray.half \in {0, 1}
  BY DEF Rays
<1>2. over \in Int /\ (s >= 0 => over >= 0) /\ (s =< 0 => over =< 0)
  <2>1. s \div 2 \in Int /\ (s >= 0 => s \div 2 >= 0) /\ (s =< 0 => s \div 2 =< 0)
    BY <1>1
  <2> HIDE DEF s
  <2>2. CASE ray.half = 0
    BY <2>1, <2>2
  <2>3. CASE ray.half = 1
    BY <2>1, <2>3
  <2> QED BY <1>1, <2>2, <2>3
<1>3. \A j \in Int : Along(v, ray, j)[i] = v[i] + j * s
  BY DEF Along
<1>4. EndPoint(v, ray)[i] = v[i] + w * s + over
  BY <1>3 DEF EndPoint, Along
<1> HIDE DEF s, w, over
<1>5. a \in Int /\ b \in Int /\ a >= 1 /\ b >= 1 /\ a =< w + 3 /\ b =< w + 3
  BY <1>1 DEF Places, w
<1>6. ASSUME NEW k \in Places(ray), k =< w + 2
      PROVE  steps(k) \in Int /\ Point(v, ray, k)[i] = v[i] + steps(k) * s
  <2>1. k \in Int /\ k # ray.whole + 3
    BY <1>1, <1>6 DEF Places, w
  <2>2. CASE k = 1
    <3>1. v[i] = v[i] + 0 * s
      BY <1>1
    <3> QED BY <2>2, <3>1 DEF Point
  <2>3. CASE k # 1
    BY <1>3, <2>1, <2>3 DEF Point
  <2> QED BY <2>2, <2>3
<1>7. ASSUME NEW k \in Places(ray), k > w + 2
      PROVE  Point(v, ray, k)[i] = v[i] + w * s + over
  <2>1. k = ray.whole + 3 /\ k # 1
    BY <1>1, <1>7 DEF Places, w
  <2> QED BY <1>4, <2>1 DEF Point
<1>8. CASE b =< w + 2
  <2>1. steps(a) \in Int /\ steps(b) \in Int /\ steps(a) =< steps(b)
    BY <1>1, <1>5, <1>8
  <2>2. /\ Point(v, ray, a)[i] = v[i] + steps(a) * s
        /\ Point(v, ray, b)[i] = v[i] + steps(b) * s
    BY <1>1, <1>5, <1>6, <1>8
  <2> HIDE DEF steps
  <2>3. /\ steps(a) * s \in Int /\ steps(b) * s \in Int
        /\ s >= 0 => steps(a) * s =< steps(b) * s
        /\ s =< 0 => steps(b) * s =< steps(a) * s
    BY <1>1, <2>1, Scaled
  <2> QED BY <1>1, <2>2, <2>3 DEF s
<1>9. CASE b > w + 2 /\ a =< w + 2
  <2>1. steps(a) \in Int /\ steps(a) =< w
    BY <1>1, <1>5, <1>9
  <2>2. /\ Point(v, ray, a)[i] = v[i] + steps(a) * s
        /\ Point(v, ray, b)[i] = v[i] + w * s + over
    BY <1>1, <1>5, <1>6, <1>7, <1>9
  <2> HIDE DEF steps
  <2>3. /\ steps(a) * s \in Int /\ w * s \in Int
        /\ s >= 0 => steps(a) * s =< w * s
        /\ s =< 0 => w * s =< steps(a) * s
    BY <1>1, <2>1, Scaled
  <2> QED BY <1>1, <1>2, <2>2, <2>3 DEF s
<1>10. CASE a > w + 2
  <2>1. a = b
    BY <1>1, <1>5, <1>10
  <2>2. Point(v, ray, a) \in Int \X Int
    BY PointType
  <2> QED BY <2>1, <2>2
<1> QED BY <1>1, <1>5, <1>8, <1>9, <1>10

\* A set of natural numbers has a least one.
LEMMA Least ==
  ASSUME NEW T, T \subseteq Nat, T # {}
  PROVE  \E x \in T : \A y \in T : x =< y
<1> DEFINE R == OpToRel(<, Nat)
<1>1. IsWellFoundedOn(R, Nat)
  BY NatLessThanWellFounded
<1>2. \A x, y \in Nat : y < x => <<y, x>> \in R
  BY DEF OpToRel
<1> HIDE DEF R
<1>3. PICK x \in T : \A y \in T : <<y, x>> \notin R
  BY <1>1, WFMin
<1>4. \A y \in T : x \in Nat /\ y \in Nat /\ ~(y < x)
  BY <1>2, <1>3
<1>5. \A y \in T : x =< y
  BY <1>4
<1> QED BY <1>5
-----------------------------------------------------------------------------
\* Between two points of a ray it is within reach where they are.
LEMMA BetweenWithinReach ==
  ASSUME NEW v \in Int \X Int, NEW ray \in Rays, NEW i \in 1 .. 2,
         NEW a \in Places(ray), NEW k \in Places(ray), NEW b \in Places(ray), a =< k, k =< b,
         ~BeyondReach(Point(v, ray, a)[i]), ~BeyondReach(Point(v, ray, b)[i])
  PROVE  ~BeyondReach(Point(v, ray, k)[i])
<1>1. /\ Point(v, ray, a)[i] \in Int /\ Point(v, ray, k)[i] \in Int /\ Point(v, ray, b)[i] \in Int
  <2>1. /\ Point(v, ray, a) \in Int \X Int /\ Point(v, ray, k) \in Int \X Int
        /\ Point(v, ray, b) \in Int \X Int
    BY PointType
  <2> QED BY <2>1
<1>2. ray.step[i] \in Int
  BY DEF Rays
<1>3. \/ Point(v, ray, a)[i] =< Point(v, ray, k)[i] /\ Point(v, ray, k)[i] =< Point(v, ray, b)[i]
      \/ Point(v, ray, b)[i] =< Point(v, ray, k)[i] /\ Point(v, ray, k)[i] =< Point(v, ray, a)[i]
  BY <1>2, PointsOrdered
<1>4. GridLine(1) \in Int /\ GridLine(NCell) \in Int
  BY GridAssumption DEF GridLine
<1> QED BY <1>1, <1>3, <1>4 DEF BeyondReach

\* Between two points of a ray in one cell it is in that cell.
LEMMA BetweenInCell ==
  ASSUME NEW v \in Int \X Int, NEW ray \in Rays,
         NEW a \in Places(ray), NEW k \in Places(ray), NEW b \in Places(ray), a =< k, k =< b,
         get_cell(Point(v, ray, a)) \in Cells, get_cell(Point(v, ray, k)) \in Cells,
         get_cell(Point(v, ray, b)) = get_cell(Point(v, ray, a))
  PROVE  get_cell(Point(v, ray, k)) = get_cell(Point(v, ray, a))
<1> DEFINE P(j) == Point(v, ray, j)
<1>1. P(a) \in Int \X Int /\ P(k) \in Int \X Int /\ P(b) \in Int \X Int
  BY PointType
<1>2. /\ get_cell(P(a)) = <<LineBeyond(P(a)[1]), LineBeyond(P(a)[2])>>
      /\ get_cell(P(k)) = <<LineBeyond(P(k)[1]), LineBeyond(P(k)[2])>>
      /\ get_cell(P(b)) = <<LineBeyond(P(b)[1]), LineBeyond(P(b)[2])>>
  BY <1>1, CellWithinReach
<1>3. ASSUME NEW i \in 1 .. 2 PROVE LineBeyond(P(k)[i]) = LineBeyond(P(a)[i])
  <2>1. P(a)[i] \in Int /\ P(k)[i] \in Int /\ P(b)[i] \in Int /\ ray.step[i] \in Int
    BY <1>1 DEF Rays
  <2>2. LineBeyond(P(b)[i]) = LineBeyond(P(a)[i])
    <3>1. CASE i = 1
      BY <1>2, <3>1
    <3>2. CASE i = 2
      BY <1>2, <3>2
    <3> QED BY <3>1, <3>2
  <2>3. \/ P(a)[i] =< P(k)[i] /\ P(k)[i] =< P(b)[i]
        \/ P(b)[i] =< P(k)[i] /\ P(k)[i] =< P(a)[i]
    BY <2>1, PointsOrdered
  <2> HIDE DEF P
  <2>4. CASE P(a)[i] =< P(k)[i] /\ P(k)[i] =< P(b)[i]
    <3>1. LineBeyond(P(a)[i]) \in Int /\ LineBeyond(P(k)[i]) \in Int
      BY <2>1, LinesOrdered
    <3>2. LineBeyond(P(a)[i]) =< LineBeyond(P(k)[i]) /\ LineBeyond(P(k)[i]) =< LineBeyond(P(b)[i])
      BY <2>1, <2>4, LinesOrdered
    <3> QED BY <2>2, <3>1, <3>2
  <2>5. CASE P(b)[i] =< P(k)[i] /\ P(k)[i] =< P(a)[i]
    <3>1. LineBeyond(P(a)[i]) \in Int /\ LineBeyond(P(k)[i]) \in Int
      BY <2>1, LinesOrdered
    <3>2. LineBeyond(P(b)[i]) =< LineBeyond(P(k)[i]) /\ LineBeyond(P(k)[i]) =< LineBeyond(P(a)[i])
      BY <2>1, <2>5, LinesOrdered
    <3> QED BY <2>2, <3>1, <3>2
  <2> QED BY <2>3, <2>4, <2>5
<1> QED BY <1>2, <1>3

\* A ray fails exactly when one of its two ends is beyond reach.
LEMMA RayFails ==
  ASSUME NEW v \in Int \X Int, NEW ray \in Rays
  PROVE  ToSet(Track(v, ray)) \subseteq Cells <=>
           \A i \in 1 .. 2 : ~BeyondReach(v[i]) /\ ~BeyondReach(EndPoint(v, ray)[i])
<1> DEFINE n == ray.whole + 3
           P(j) == Point(v, ray, j)
<1>1. /\ 1 \in Places(ray) /\ n \in Places(ray)
      /\ P(1) = v /\ P(n) = EndPoint(v, ray)
      /\ \A k \in Places(ray) : 1 =< k /\ k =< n
  BY DEF Rays, Places, Point
<1>2. ToSet(Track(v, ray)) \subseteq Cells <=> \A k \in Places(ray) : get_cell(P(k)) \in Cells
  BY TrackCells DEF ToSet
<1>3. ASSUME NEW k \in Places(ray)
      PROVE  get_cell(P(k)) \in Cells <=> \A i \in 1 .. 2 : ~BeyondReach(P(k)[i])
  BY PointType, CellWithinReach
<1>4. ASSUME NEW k \in Places(ray), NEW i \in 1 .. 2, ~BeyondReach(v[i]), ~BeyondReach(EndPoint(v, ray)[i])
      PROVE  ~BeyondReach(P(k)[i])
  BY <1>1, <1>4, BetweenWithinReach
<1> HIDE DEF P, n
<1> QED BY <1>1, <1>2, <1>3, <1>4

\* The bearings that are read are rays, and finitely many.
LEMMA MeasuredRays ==
  ASSUME NEW img \in Seq(Rays)
  PROVE  /\ \A i \in Measured(img) : img[i] \in Rays
         /\ IsFiniteSet(Measured(img))
<1>1. Len(img) \in Nat /\ \A i \in 1 .. Len(img) : img[i] \in Rays
  BY LenProperties, ElementOfSeq
<1>2. Measured(img) \in SUBSET (1 .. Len(img))
  BY <1>1 DEF Measured
<1>3. IsFiniteSet(1 .. Len(img))
  BY <1>1, FS_Interval
<1> QED BY <1>1, <1>2, <1>3, FS_Subset

\* An image fails exactly when an end of one of its rays is beyond reach.
LEMMA ImageFails ==
  ASSUME NEW v \in Int \X Int, NEW img \in Seq(Rays)
  PROVE  Fails(v, img) <=>
           \E i \in Measured(img), axis \in 1 .. 2 :
             BeyondReach(v[axis]) \/ BeyondReach(EndPoint(v, img[i])[axis])
<1>1. \A i \in Measured(img) :
        ToSet(Track(v, img[i])) \subseteq Cells <=>
          \A axis \in 1 .. 2 : ~BeyondReach(v[axis]) /\ ~BeyondReach(EndPoint(v, img[i])[axis])
  BY MeasuredRays, RayFails
<1> QED BY <1>1 DEF Fails

\* Where the walk along a ray adds support to a cell.
GainsAt(v, ray, c) == {k \in Gaining(Track(v, ray)) : Track(v, ray)[k] = c}

\* The walk adds support to a cell at most once: between two steps in a cell
\* the track is in that cell, so that the later one is not new.
LEMMA GainsOnce ==
  ASSUME NEW v \in Int \X Int, NEW ray \in Rays, NEW c \in Cells,
         ToSet(Track(v, ray)) \subseteq Cells,
         NEW j \in GainsAt(v, ray, c), NEW k \in GainsAt(v, ray, c)
  PROVE  j = k
<1> DEFINE track == Track(v, ray)
<1>1. /\ DOMAIN track = Places(ray)
      /\ \A i \in Places(ray) : track[i] = get_cell(Point(v, ray, i)) /\ track[i] \in Cells
  BY TrackCells DEF ToSet
<1>2. /\ j \in Places(ray) /\ k \in Places(ray) /\ track[j] = c /\ track[k] = c
      /\ k = 1 \/ track[k] # track[k - 1]
      /\ j = 1 \/ track[j] # track[j - 1]
  BY <1>1 DEF GainsAt, Gaining
<1>3. Places(ray) \subseteq Nat \ {0} /\ \A i \in Places(ray) : i # 1 => i - 1 \in Places(ray)
  BY DEF Places, Rays
<1> HIDE DEF track
<1>4. ASSUME NEW a \in Places(ray), NEW b \in Places(ray), a < b, track[a] = c, track[b] = c
      PROVE  track[b - 1] = track[b] /\ b # 1
  <2>1. b - 1 \in Places(ray) /\ a =< b - 1 /\ b - 1 =< b /\ b # 1
    BY <1>3, <1>4
  <2>2. /\ get_cell(Point(v, ray, a)) \in Cells /\ get_cell(Point(v, ray, b - 1)) \in Cells
        /\ get_cell(Point(v, ray, b)) = get_cell(Point(v, ray, a))
    BY <1>1, <1>4, <2>1
  <2>3. get_cell(Point(v, ray, b - 1)) = get_cell(Point(v, ray, a))
    BY <2>1, <2>2, BetweenInCell
  <2> QED BY <1>1, <1>4, <2>1, <2>3
<1>5. ~(j < k) /\ ~(k < j)
  BY <1>2, <1>4
<1> QED BY <1>2, <1>3, <1>5

\* It adds support to a cell if the cell is one it should empty: where the
\* track first is in it.
LEMMA GainsWhereEmptied ==
  ASSUME NEW v \in Int \X Int, NEW ray \in Rays, NEW c \in Cells
  PROVE  GainsAt(v, ray, c) # {} <=> Empties(v, ray, c)
<1> DEFINE track == Track(v, ray)
           T == {k \in Places(ray) : track[k] = c}
<1>1. /\ DOMAIN track = Places(ray) /\ Last(track) = EndCell(v, ray)
      /\ track[1] = get_cell(v) /\ 1 \in Places(ray)
  <2>1. 1 \in Places(ray) /\ Point(v, ray, 1) = v
    BY DEF Places, Rays, Point
  <2> QED BY <2>1, TrackCells
<1>2. Places(ray) \subseteq Nat \ {0} /\ \A i \in Places(ray) : i # 1 => i - 1 \in Places(ray)
  BY DEF Places, Rays
<1>3. GainsAt(v, ray, c) =
        {k \in Places(ray) : track[k] = c /\ (k = 1 \/ (track[k] # track[k - 1] /\ track[k] # Last(track)))}
  BY <1>1 DEF GainsAt, Gaining
<1>4. Empties(v, ray, c) <=> c = track[1] \/ (T # {} /\ c # Last(track))
  BY <1>1 DEF Empties, ToSet
<1> HIDE DEF track
<1>5. ASSUME NEW k \in GainsAt(v, ray, c) PROVE Empties(v, ray, c)
  BY <1>3, <1>4, <1>5
<1>6. CASE c = track[1]
  BY <1>1, <1>3, <1>4, <1>6
<1>7. ASSUME T # {}, c # Last(track), c # track[1] PROVE GainsAt(v, ray, c) # {}
  <2>1. PICK k \in T : \A i \in T : k =< i
    BY <1>2, <1>7, Least
  <2>2. k # 1 /\ k \in Nat /\ k - 1 \in Places(ray) /\ k - 1 \notin T
    BY <1>2, <1>7, <2>1
  <2>3. track[k] # track[k - 1] /\ track[k] # Last(track)
    BY <1>7, <2>2
  <2> QED BY <1>3, <2>3
<1> QED BY <1>4, <1>5, <1>6, <1>7
-----------------------------------------------------------------------------
\* The walk adds emptiness support to a cell as often as there are rays that
\* should empty it.
LEMMA GainsCount ==
  ASSUME NEW v \in Int \X Int, NEW img \in Seq(Rays), NEW c \in Cells, ~Fails(v, img)
  PROVE  /\ Cardinality(Gains(v, img, c)) \in Nat
         /\ Cardinality(Gains(v, img, c)) = Cardinality({i \in Measured(img) : Empties(v, img[i], c)})
<1> DEFINE E == {i \in Measured(img) : Empties(v, img[i], c)}
           G == Gains(v, img, c)
           f == [p \in G |-> p[1]]
<1>1. (\A i \in Measured(img) : img[i] \in Rays) /\ IsFiniteSet(Measured(img))
  BY MeasuredRays
<1>2. IsFiniteSet(E)
  BY <1>1, FS_Subset
<1>3. \A p \in G : \E i \in Measured(img) : \E k \in GainsAt(v, img[i], c) : p = <<i, k>>
  BY DEF Gains, GainsAt
<1>4. \A i \in Measured(img) : \A k \in GainsAt(v, img[i], c) : <<i, k>> \in G
  BY DEF Gains, GainsAt
<1>5. \A i \in Measured(img) : ToSet(Track(v, img[i])) \subseteq Cells
  BY DEF Fails
<1>6. \A i \in Measured(img) : \A j, k \in GainsAt(v, img[i], c) : j = k
  BY <1>1, <1>5, GainsOnce
<1>7. \A i \in Measured(img) : i \in E <=> GainsAt(v, img[i], c) # {}
  BY <1>1, GainsWhereEmptied
<1> HIDE DEF G
<1>8. \A p \in G : p[1] \in E
  <2> SUFFICES ASSUME NEW p \in G PROVE p[1] \in E
    OBVIOUS
  <2>1. PICK i \in Measured(img) : \E k \in GainsAt(v, img[i], c) : p = <<i, k>>
    BY <1>3
  <2> QED BY <1>7, <2>1
<1>9. \A p, q \in G : p[1] = q[1] => p = q
  <2> SUFFICES ASSUME NEW p \in G, NEW q \in G, p[1] = q[1] PROVE p = q
    OBVIOUS
  <2>1. PICK i \in Measured(img) : \E k \in GainsAt(v, img[i], c) : p = <<i, k>>
    BY <1>3
  <2>2. PICK j \in Measured(img) : \E l \in GainsAt(v, img[j], c) : q = <<j, l>>
    BY <1>3
  <2>3. i = j
    BY <2>1, <2>2
  <2> QED BY <1>6, <2>1, <2>2, <2>3
<1>10. \A i \in E : \E p \in G : p[1] = i
  <2> SUFFICES ASSUME NEW i \in E PROVE \E p \in G : p[1] = i
    OBVIOUS
  <2>1. PICK k \in GainsAt(v, img[i], c) : TRUE
    BY <1>7
  <2>2. <<i, k>> \in G /\ <<i, k>>[1] = i
    BY <1>4, <2>1
  <2> QED BY <2>2
<1> HIDE DEF E
<1>11. f \in Injection(G, E)
  BY <1>8, <1>9 DEF Injection, IsInjective
<1>12. f \in Surjection(G, E)
  BY <1>8, <1>10 DEF Surjection
<1>13. IsFiniteSet(G) /\ Cardinality(G) = Cardinality(E)
  BY <1>2, <1>11, <1>12, FS_Injection
<1> QED BY <1>13, FS_CardinalityType DEF G, E
-----------------------------------------------------------------------------
(* What the scans keep.                                                    *)

\* A position and an image.
Taken == [at : Int \X Int, image : ImageSet]

ScanInv ==
  /\ image \in 0 .. Images + 1 /\ servoPosition \in Nat /\ servo \in Nat
  /\ E_Map \in [Cells -> Nat] /\ O_Map \in [Cells -> Nat]
  /\ taken \in Seq(Taken)

MoveInv ==
  /\ uneven \in Pairs(Nat) /\ moves \in 0 .. MaxMoves
  /\ call.busy => call.by \in Pairs(Displacements)

MappingIInv == ReckonInv /\ ScanInv /\ MoveInv

\* The position in lengths is one of integers.
LEMMA PositionType ==
  ASSUME xv_true \in Cells
  PROVE  v_posn \in Int \X Int
BY GridAssumption DEF v_posn, Cells

\* A setting that is sent is a natural number.
LEMMA SentType ==
  ASSUME NEW n \in Nat
  PROVE  Sent(n) \in Nat
BY Z3 DEF Sent

\* An image that is not lost adds natural numbers, each the number of rays
\* that it should be.
LEMMA LocalMaps ==
  ASSUME NEW v \in Int \X Int, NEW img \in ImageSet, NEW c \in Cells, ~Fails(v, img)
  PROVE  /\ compute_local_maps(v, img).E[c] \in Nat
         /\ compute_local_maps(v, img).E[c] =
              Cardinality({i \in Measured(img) : Empties(v, img[i], c)})
         /\ compute_local_maps(v, img).O[c] \in Nat
         /\ compute_local_maps(v, img).O[c] =
              Cardinality({i \in Measured(img) : EndCell(v, img[i]) = c})
<1>1. img \in Seq(Rays)
  BY MappingAssumption
<1>2. /\ compute_local_maps(v, img).E[c] = Cardinality(Gains(v, img, c))
      /\ compute_local_maps(v, img).O[c] = Cardinality({i \in Measured(img) : EndCell(v, img[i]) = c})
  BY DEF compute_local_maps
<1>3. IsFiniteSet({i \in Measured(img) : EndCell(v, img[i]) = c})
  BY <1>1, MeasuredRays, FS_Subset
<1> QED BY <1>1, <1>2, <1>3, GainsCount, FS_CardinalityType

\* An image that is added.
Added(img) ==
  /\ ~Fails(v_posn, img)
  /\ E_Map' = Add(E_Map, compute_local_maps(v_posn, img).E)
  /\ O_Map' = Add(O_Map, compute_local_maps(v_posn, img).O)
  /\ taken' = Append(taken, [at |-> v_posn, image |-> img])

\* An image that is added adds what Supported says.
LEMMA AddedSupport ==
  ASSUME ReckonInv, ScanInv, NEW img \in ImageSet, Added(img)
  PROVE  /\ E_Map' \in [Cells -> Nat] /\ O_Map' \in [Cells -> Nat]
         /\ taken' \in Seq(Taken)
         /\ Supported
<1>1. v_posn \in Int \X Int
  BY PositionType DEF ReckonInv, AtRest
<1>2. E_Map \in [Cells -> Nat] /\ O_Map \in [Cells -> Nat] /\ taken \in Seq(Taken)
  BY DEF ScanInv
<1> DEFINE local == compute_local_maps(v_posn, img)
           new == [at |-> v_posn, image |-> img]
<1>3. \A c \in Cells : E_Map'[c] = E_Map[c] + local.E[c] /\ O_Map'[c] = O_Map[c] + local.O[c]
  BY DEF Added, Add
<1>4. \A c \in Cells : local.E[c] \in Nat /\ local.O[c] \in Nat
  BY <1>1, LocalMaps DEF Added
<1>5. \A c \in Cells :
        /\ local.E[c] = Cardinality({i \in Measured(img) : Empties(v_posn, img[i], c)})
        /\ local.O[c] = Cardinality({i \in Measured(img) : EndCell(v_posn, img[i]) = c})
  BY <1>1, LocalMaps DEF Added
<1> HIDE DEF local
<1>6. E_Map' \in [Cells -> Nat] /\ O_Map' \in [Cells -> Nat]
  <2>1. E_Map' = [c \in Cells |-> E_Map[c] + local.E[c]] /\ O_Map' = [c \in Cells |-> O_Map[c] + local.O[c]]
    BY DEF Added, Add, local
  <2>2. \A c \in Cells : E_Map[c] + local.E[c] \in Nat /\ O_Map[c] + local.O[c] \in Nat
    BY <1>2, <1>4
  <2> QED BY <2>1, <2>2
<1>7. new \in Taken
  BY <1>1 DEF Taken
<1>8. taken' = Append(taken, new)
  BY DEF Added
<1>9. /\ taken' \in Seq(Taken) /\ taken' # taken /\ Last(taken').image = img
  <2>1. new.image = img
    OBVIOUS
  <2> HIDE DEF new
  <2>2. /\ Append(taken, new) \in Seq(Taken) /\ Len(Append(taken, new)) = Len(taken) + 1
        /\ Append(taken, new)[Len(taken) + 1] = new
    BY <1>2, <1>7, AppendProperties
  <2>3. Len(taken) \in Nat
    BY <1>2, LenProperties
  <2>4. Len(taken') # Len(taken)
    BY <1>8, <2>2, <2>3
  <2>5. Last(taken') = new
    BY <1>8, <2>2 DEF Last
  <2> QED BY <1>8, <2>1, <2>2, <2>4, <2>5
<1>10. \A c \in Cells :
        /\ E_Map'[c] - E_Map[c] = Cardinality({i \in Measured(img) : Empties(v_posn, img[i], c)})
        /\ O_Map'[c] - O_Map[c] = Cardinality({i \in Measured(img) : EndCell(v_posn, img[i]) = c})
  <2> SUFFICES ASSUME NEW c \in Cells
               PROVE  E_Map'[c] - E_Map[c] = local.E[c] /\ O_Map'[c] - O_Map[c] = local.O[c]
    BY <1>5
  <2>1. /\ E_Map[c] \in Nat /\ O_Map[c] \in Nat
        /\ local.E[c] \in Nat /\ local.O[c] \in Nat
    BY <1>2, <1>4
  <2>2. E_Map'[c] = E_Map[c] + local.E[c] /\ O_Map'[c] = O_Map[c] + local.O[c]
    BY <1>3
  <2> QED BY <2>1, <2>2
<1>11. Supported
  BY <1>9, <1>10, Zenon DEF Supported
<1> QED BY <1>6, <1>9, <1>11

\* A call of MatrixMap() adds an image or leaves the maps alone.
LEMMA ImageStep ==
  ASSUME ReckonInv, ScanInv, NEW img \in ImageSet, MatrixMap(img)
  PROVE  ScanInv' /\ (Supported \/ UNCHANGED maps)
<1>1. image \in 1 .. Images /\ Images \in Nat /\ servoPosition \in Nat
  BY MappingAssumption DEF ScanInv, MatrixMap
<1>2. CASE Fails(v_posn, img)
  <2>1. image' = 0 /\ UNCHANGED <<servoPosition, servo, maps>>
    BY <1>2 DEF MatrixMap
  <2>2. UNCHANGED <<E_Map, O_Map, taken>>
    BY <2>1 DEF maps
  <2> QED BY <1>1, <2>1, <2>2 DEF ScanInv
<1>3. CASE ~Fails(v_posn, img)
  <2>1. Added(img)
    BY <1>3 DEF MatrixMap, Added
  <2>2. image' \in 0 .. Images + 1 /\ servoPosition' \in Nat /\ servo' \in Nat
    <3>1. /\ image' = image + 1
          /\ servoPosition' = servoPosition + 900 /\ servo' = Sent(servoPosition + 900)
      BY <1>3 DEF MatrixMap, TurnServo
    <3>2. servoPosition + 900 \in Nat /\ Sent(servoPosition + 900) \in Nat
      BY <1>1, SentType
    <3> QED BY <1>1, <3>1, <3>2
  <2> QED BY <2>1, <2>2, AddedSupport DEF ScanInv
<1> QED BY <1>2, <1>3

\* SetupSystem.m establishes the invariant.
LEMMA MappingInit == Init => MappingIInv
<1> SUFFICES ASSUME Init PROVE MappingIInv
  OBVIOUS
<1>1. ReckonInv
  BY ReckonInit
<1>2. ScanInv
  BY MappingAssumption DEF Init, ScanInv, NoSupport
<1>3. MoveInv
  BY MappingAssumption DEF Init, MoveInv, Idle, Pairs
<1> QED BY <1>1, <1>2, <1>3 DEF MappingIInv

\* The moves counted are within their bound.
LEMMA MoveStep ==
  ASSUME MappingIInv, [Next]_vars
  PROVE  MoveInv'
<1>1. /\ uneven \in Pairs(Nat) /\ moves \in 0 .. MaxMoves /\ MaxMoves \in Nat
      /\ call.busy => call.by \in Pairs(Displacements)
  BY MappingAssumption DEF MappingIInv, MoveInv
<1>2. ASSUME NEW p \in Pairs(Displacements), move_BUG(p) PROVE MoveInv'
  <2>1. /\ moves < MaxMoves /\ moves' = moves + 1 /\ uneven' = uneven /\ call'.by = p
    BY <1>2 DEF move_BUG, odometer
  <2> QED BY <1>1, <2>1 DEF MoveInv
<1>3. CASE Walk
  <2>1. call.busy /\ moves' = moves
    BY <1>3 DEF Walk
  <2>2. CASE call' = Idle /\ UNCHANGED odometer
    BY <1>1, <2>1, <2>2 DEF MoveInv, odometer, Idle
  <2>3. CASE UNCHANGED odometer /\ call'.by = call.by
    BY <1>1, <2>1, <2>3 DEF MoveInv, odometer
  <2>4. CASE call' = Idle /\ uneven' = [i \in 1 .. 2 |-> uneven[i] + Uneven(call.by[i])]
    <3>1. call.by[1] \in Int /\ call.by[2] \in Int
      BY <1>1, <2>1, MappingAssumption DEF Pairs
    <3>2. Uneven(call.by[1]) \in Nat /\ Uneven(call.by[2]) \in Nat
      BY <3>1 DEF Uneven
    <3>3. uneven' = <<uneven[1] + Uneven(call.by[1]), uneven[2] + Uneven(call.by[2])>>
      BY <2>4
    <3>4. uneven' \in Pairs(Nat)
      BY <1>1, <3>2, <3>3 DEF Pairs
    <3> QED BY <1>1, <2>1, <2>4, <3>4 DEF MoveInv, Idle
  <2>5. \/ call' = Idle /\ UNCHANGED odometer
        \/ UNCHANGED odometer /\ call'.by = call.by
        \/ call' = Idle /\ uneven' = [i \in 1 .. 2 |-> uneven[i] + Uneven(call.by[i])]
    <3> DEFINE turn == <<TowardZero(call.togo[1]), TowardZero(call.togo[2])>>
               corner == <<call.at[1], call.at[2] + turn[1]>>
               at == <<corner[1] + turn[2], corner[2]>>
               togo == <<call.togo[1] - turn[1], call.togo[2] - turn[2]>>
               new == MarksOf(turn, corner)
    <3>1. Moving
      BY <2>1 DEF MappingIInv, ReckonInv, Idle
    <3>2. \/ call' = Idle /\ UNCHANGED odometer
          \/ UNCHANGED odometer /\ call' = [call EXCEPT !.togo = togo, !.at = at, !.marks = @ \cup new]
          \/ call' = Idle /\ uneven' = [i \in 1 .. 2 |-> uneven[i] + Uneven(call.by[i])]
      BY <1>3 DEF Walk
    <3> HIDE DEF togo, at, new
    <3> QED BY <3>1, <3>2 DEF Moving
  <2> QED BY <2>2, <2>3, <2>4, <2>5
<1>4. ASSUME UNCHANGED <<uneven, moves, call>> PROVE MoveInv'
  BY <1>1, <1>4 DEF MoveInv
<1>5. CASE run360Scan
  BY <1>4, <1>5 DEF run360Scan, odometer
<1>6. ASSUME NEW img \in ImageSet, MatrixMap(img) PROVE MoveInv'
  BY <1>4, <1>6 DEF MatrixMap, odometer
<1>7. CASE CentreServo
  BY <1>4, <1>7 DEF CentreServo, odometer
<1>8. CASE UNCHANGED vars
  BY <1>4, <1>8 DEF vars, odometer
<1> QED BY <1>2, <1>3, <1>5, <1>6, <1>7, <1>8 DEF Next

\* Only MatrixMap() touches the maps.
LEMMA ScanStep ==
  ASSUME MappingIInv, [Next]_vars
  PROVE  ScanInv' /\ [Supported]_maps
<1>1. ReckonInv /\ ScanInv
  BY DEF MappingIInv
<1>2. ASSUME UNCHANGED <<scan, maps>> PROVE ScanInv' /\ UNCHANGED maps
  BY <1>1, <1>2 DEF ScanInv, scan, maps
<1>3. ASSUME NEW p \in Pairs(Displacements), move_BUG(p) PROVE UNCHANGED <<scan, maps>>
  BY <1>3 DEF move_BUG
<1>4. CASE Walk
  BY <1>2, <1>4 DEF Walk
<1>5. CASE run360Scan
  <2>1. image' = 1 /\ servoPosition' = 4200 /\ servo' = Sent(4200) /\ UNCHANGED maps
    BY <1>5 DEF run360Scan, TurnServo
  <2>2. Sent(4200) \in Nat /\ 1 \in 0 .. Images + 1
    BY SentType, MappingAssumption
  <2> QED BY <1>1, <2>1, <2>2 DEF ScanInv, maps
<1>6. ASSUME NEW img \in ImageSet, MatrixMap(img) PROVE ScanInv' /\ [Supported]_maps
  BY <1>1, <1>6, ImageStep
<1>7. CASE CentreServo
  <2>1. image' = 0 /\ servo' = Sent(6000) /\ UNCHANGED <<servoPosition, maps>>
    BY <1>7 DEF CentreServo
  <2>2. Sent(6000) \in Nat /\ 0 \in 0 .. Images + 1
    BY SentType, MappingAssumption
  <2> QED BY <1>1, <2>1, <2>2 DEF ScanInv, maps
<1>8. CASE UNCHANGED vars
  BY <1>2, <1>8 DEF vars
<1> QED BY <1>2, <1>3, <1>4, <1>5, <1>6, <1>7, <1>8 DEF Next

\* The invariant is inductive.
LEMMA MappingStep == MappingIInv /\ [Next]_vars => MappingIInv'
BY ReckonStep, ScanStep, MoveStep DEF MappingIInv

\* Positions, maps, images and settings are what they should be: no step
\* takes the BUG or a mark out of the map, or support below zero.
THEOREM MappingTypeCorrect == Spec => []TypeOK
<1>1. MappingIInv => TypeOK
  <2> SUFFICES ASSUME MappingIInv PROVE TypeOK
    OBVIOUS
  <2>1. AtRest /\ P_Map \in SUBSET Cells /\ (call = Idle \/ Moving) /\ ScanInv /\ MoveInv
    BY DEF MappingIInv, ReckonInv
  <2>2. \/ call = Idle
        \/ /\ call.busy /\ call.by \in Pairs(Displacements) /\ call.rest \in Pairs(0 .. 24)
           /\ call.togo \in Pairs(Int) /\ call.at \in Cells /\ call.marks \in SUBSET Cells
    BY <2>1 DEF Moving, MoveInv
  <2> QED BY <2>1, <2>2 DEF TypeOK, AtRest, ScanInv, MoveInv
<1> QED BY <1>1, MappingInit, MappingStep, PTL DEF Spec

\* An image is lost exactly when the BUG or the end of a measured range is
\* beyond reach: compute_local_maps() never fails between two good points.
THEOREM ImagesLostAtTheBorder == Spec => []LostImages
<1>1. MappingIInv => LostImages
  <2> SUFFICES ASSUME MappingIInv, NEW img \in ImageSet
               PROVE  Fails(v_posn, img) <=>
                        \E i \in Measured(img), axis \in 1 .. 2 :
                          BeyondReach(v_posn[axis]) \/ BeyondReach(EndPoint(v_posn, img[i])[axis])
    BY DEF LostImages
  <2>1. v_posn \in Int \X Int
    BY PositionType DEF MappingIInv, ReckonInv, AtRest
  <2>2. img \in Seq(Rays)
    BY MappingAssumption
  <2> QED BY <2>1, <2>2, ImageFails
<1> QED BY <1>1, MappingInit, MappingStep, PTL DEF Spec

\* Each image adds support once to each cell a ray crosses and to the one it
\* ends in, and nothing else changes the maps.
THEOREM ImagesSupportMaps == Spec => MapsSupported
<1>1. MappingIInv /\ [Next]_vars => [Supported]_maps
  BY ScanStep
<1> QED BY <1>1, MappingInit, MappingStep, PTL DEF Spec, MapsSupported
-----------------------------------------------------------------------------
(* The trail in P_Map.                                                     *)

\* A part of the marked cells that has, with each cell, those beside it.
ClosedIn(part, marks) == \A c \in part, d \in marks : Adjacent(c, d) => d \in part

\* The marked cells are one path that ends in a cell.
Trail(marks, c) ==
  /\ {<<Start, Start>>, c} \subseteq marks
  /\ \A part \in SUBSET marks : c \in part /\ ClosedIn(part, marks) => part = marks

\* Also the copy that a call marks is a trail: it may return at any turn.
TrailInv ==
  /\ Trail(P_Map, xv_true)
  /\ call.busy => Trail(call.marks, call.at)

\* A step to the cell beside goes on with a trail.
LEMMA TrailGoesOn ==
  ASSUME NEW marks, NEW c, NEW d, Trail(marks, c), Adjacent(d, c)
  PROVE  Trail(marks \cup {d}, d)
<1>1. c \in marks /\ <<Start, Start>> \in marks
  BY DEF Trail
<1> SUFFICES ASSUME NEW part \in SUBSET (marks \cup {d}), d \in part, ClosedIn(part, marks \cup {d})
             PROVE  part = marks \cup {d}
  BY <1>1 DEF Trail
<1>2. c \in part
  BY <1>1 DEF ClosedIn
<1>3. part \cap marks \in SUBSET marks /\ c \in part \cap marks
  BY <1>1, <1>2
<1>4. ClosedIn(part \cap marks, marks)
  BY DEF ClosedIn
<1>5. part \cap marks = marks
  BY <1>3, <1>4 DEF Trail
<1> QED BY <1>5

\* A turn of the loop goes on with the trail: by the cell at the corner and
\* the one the turn ends in, those of them that are marked.
LEMMA TurnGoesOn ==
  ASSUME NEW marks, NEW c \in Cells, Trail(marks, c),
         NEW turn \in {-1, 0, 1} \X {-1, 0, 1}
  PROVE  LET corner == <<c[1], c[2] + turn[1]>>
             d == <<corner[1] + turn[2], corner[2]>>
         IN  Trail(marks \cup MarksOf(turn, corner), d)
<1> DEFINE corner == <<c[1], c[2] + turn[1]>>
           d == <<corner[1] + turn[2], corner[2]>>
           first == IF turn[1] = 0 THEN {} ELSE {corner}
           second == IF turn[2] = 0 THEN {} ELSE {d}
<1>1. c[1] \in Int /\ c[2] \in Int /\ c = <<c[1], c[2]>> /\ turn[1] \in {-1, 0, 1} /\ turn[2] \in {-1, 0, 1}
  BY GridAssumption DEF Cells
<1>2. Trail(marks \cup first, corner)
  <2>1. CASE turn[1] = 0
    <3>1. corner = c /\ first = {}
      BY <1>1, <2>1
    <3> QED BY <3>1
  <2>2. CASE turn[1] # 0
    <3>1. first = {corner}
      BY <2>2
    <3>2. corner[1] = c[1] /\ corner[2] - c[2] \in {1, -1}
      BY <1>1, <2>2
    <3>3. Adjacent(corner, c)
      BY <3>2 DEF Adjacent
    <3> HIDE DEF corner, first
    <3> QED BY <3>1, <3>3, TrailGoesOn
  <2> QED BY <2>1, <2>2
<1>3. Trail((marks \cup first) \cup second, d)
  <2>1. CASE turn[2] = 0
    <3>1. d = corner /\ second = {}
      BY <1>1, <2>1
    <3> HIDE DEF first, second, corner, d
    <3> QED BY <1>2, <3>1
  <2>2. CASE turn[2] # 0
    <3>1. second = {d}
      BY <2>2
    <3>2. d[2] = corner[2] /\ d[1] - corner[1] \in {1, -1}
      BY <1>1, <2>2
    <3>3. Adjacent(d, corner)
      BY <3>2 DEF Adjacent
    <3> HIDE DEF corner, first, second, d
    <3> QED BY <1>2, <3>1, <3>3, TrailGoesOn
  <2> QED BY <2>1, <2>2
<1>4. (marks \cup first) \cup second = marks \cup MarksOf(turn, corner)
  <2>1. MarksOf(turn, corner) = first \cup second
    BY DEF MarksOf
  <2> HIDE DEF first, second
  <2> QED BY <2>1
<1> HIDE DEF first, second
<1> QED BY <1>3, <1>4

\* At the start the trail is the start.
LEMMA TrailInit == Init => TrailInv
<1> SUFFICES ASSUME Init PROVE TrailInv
  OBVIOUS
<1>1. P_Map = {<<Start, Start>>} /\ xv_true = <<Start, Start>> /\ call = Idle
  BY DEF Init
<1>2. Trail({<<Start, Start>>}, <<Start, Start>>)
  BY DEF Trail
<1> QED BY <1>1, <1>2 DEF TrailInv, Idle

\* Every step keeps the trail, and the copy that a call marks, connected.
LEMMA TrailStep == MappingIInv /\ TrailInv /\ [Next]_vars => TrailInv'
<1> SUFFICES ASSUME MappingIInv, TrailInv, [Next]_vars PROVE TrailInv'
  OBVIOUS
<1>1. Trail(P_Map, xv_true) /\ (call.busy => Trail(call.marks, call.at))
  BY DEF TrailInv
<1>2. ASSUME NEW p \in Pairs(Displacements), move_BUG(p) PROVE TrailInv'
  <2>1. UNCHANGED <<P_Map, xv_true>> /\ call'.marks = P_Map /\ call'.at = xv_true
    BY <1>2 DEF move_BUG, position
  <2> QED BY <1>1, <2>1 DEF TrailInv, Trail
<1>3. CASE Walk
  <2> DEFINE turn == <<TowardZero(call.togo[1]), TowardZero(call.togo[2])>>
             corner == <<call.at[1], call.at[2] + turn[1]>>
             at == <<corner[1] + turn[2], corner[2]>>
             togo == <<call.togo[1] - turn[1], call.togo[2] - turn[2]>>
             new == MarksOf(turn, corner)
  <2>1. call.busy /\ Moving
    BY <1>3 DEF Walk, MappingIInv, ReckonInv, Idle
  <2>2. call.at \in Cells /\ call.togo[1] \in Int /\ call.togo[2] \in Int
    BY <2>1 DEF Moving, Pairs
  <2>3. turn \in {-1, 0, 1} \X {-1, 0, 1}
    BY <2>2 DEF TowardZero
  <2>4. \/ call' = Idle /\ UNCHANGED position
        \/ call' = [call EXCEPT !.togo = togo, !.at = at, !.marks = @ \cup new] /\ UNCHANGED position
        \/ call' = Idle /\ xv_true' = at /\ P_Map' = call.marks \cup new \cup {at}
    BY <1>3 DEF Walk
  <2> HIDE DEF turn
  <2>5. Trail(call.marks \cup new, at)
    BY <1>1, <2>1, <2>2, <2>3, TurnGoesOn
  <2> HIDE DEF new, at, togo
  <2>6. CASE call' = Idle /\ UNCHANGED position
    BY <1>1, <2>6 DEF TrailInv, Trail, position, Idle
  <2>7. CASE call' = [call EXCEPT !.togo = togo, !.at = at, !.marks = @ \cup new] /\ UNCHANGED position
    <3>1. call'.marks = call.marks \cup new /\ call'.at = at
      BY <2>1, <2>7 DEF Moving
    <3> QED BY <1>1, <2>5, <2>7, <3>1 DEF TrailInv, Trail, position
  <2>8. CASE call' = Idle /\ xv_true' = at /\ P_Map' = call.marks \cup new \cup {at}
    <3>1. at \in call.marks \cup new
      BY <2>5 DEF Trail
    <3>2. P_Map' = call.marks \cup new
      BY <2>8, <3>1
    <3>3. Trail(P_Map', xv_true')
      BY <2>5, <2>8, <3>2
    <3>4. ~call'.busy
      BY <2>8 DEF Idle
    <3> QED BY <3>3, <3>4 DEF TrailInv, Trail
  <2> QED BY <2>4, <2>6, <2>7, <2>8
<1>4. ASSUME UNCHANGED <<position, call>> PROVE TrailInv'
  BY <1>1, <1>4 DEF TrailInv, Trail, position
<1>5. CASE run360Scan
  BY <1>4, <1>5 DEF run360Scan
<1>6. ASSUME NEW img \in ImageSet, MatrixMap(img) PROVE TrailInv'
  BY <1>4, <1>6 DEF MatrixMap
<1>7. CASE CentreServo
  BY <1>4, <1>7 DEF CentreServo
<1>8. CASE UNCHANGED vars
  BY <1>4, <1>8 DEF vars
<1> QED BY <1>2, <1>3, <1>5, <1>6, <1>7, <1>8 DEF Next

\* The cells move_BUG() has marked are one path from the start to the BUG,
\* also after calls that ended at the border.
THEOREM TrailStaysConnected == Spec => []TrailConnected
<1>1. TrailInv => TrailConnected
  BY DEF TrailInv, Trail, ClosedIn, TrailConnected
<1> QED BY <1>1, MappingInit, MappingStep, TrailInit, TrailStep, PTL DEF Spec
=============================================================================
