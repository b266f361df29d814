------------------------- MODULE WheelEncoderProofs -------------------------
(***************************************************************************)
(* The direction repairs itself, for every debouncing time and for every   *)
(* Enough of five or more.  The invariant says what the handlers know once *)
(* they have followed a number of steps one way: each step brings one more *)
(* of the facts the next direction is computed from.                       *)
(***************************************************************************)
EXTENDS WheelEncoder, TLAPS

\* The sensor the wheel's last step crossed, and the other one.
Last == IF phase \in {0, 2} <=> turned = 1 THEN "in" ELSE "out"
Rest == IF phase \in {0, 2} <=> turned = 1 THEN "out" ELSE "in"

\* The edge to wait for at a level: the one that leaves it.
Leaving(s) == IF Level(s, phase) THEN "FALLING" ELSE "RISING"

\* At least n steps one way were followed, or all since the direction was trusted.
Known(n) == trusted \/ steady >= n

ReadRight(s) == seen[s] = Level(s, phase)

\* No handler is due.
Settled ==
  /\ Idle
  /\ edge[Last] = Leaving(Last)
  /\ Known(3) => past = seen /\ ReadRight(Last)
  /\ Known(4) => ReadRight(Rest)
  /\ Known(5) => (forward <=> turned = 1)

\* The last step has raised its interrupt.
Due ==
  /\ handler = "none" /\ flag[Last] /\ ~flag[Rest] /\ age[Last] > Debounce
  /\ edge[Last] = Other[Leaving(Last)]
  /\ Known(4) => past = seen /\ ReadRight(Rest)
  /\ Known(5) => ~ReadRight(Last)

\* Its handler has read the sensor and not yet attached the other handler.
Running ==
  /\ handler = Last /\ ~flag["in"] /\ ~flag["out"]
  /\ edge[Last] = Other[Leaving(Last)]
  /\ past = seen /\ ReadRight(Last)
  /\ Known(4) => ReadRight(Rest)
  /\ Known(5) => (forward <=> turned = 1)

Following ==
  Known(1) =>
    \/ handler = "trap"
    \/ /\ Known(2) => edge[Rest] = Leaving(Rest)
       /\ Settled \/ Due \/ Running

EncoderIInv == TypeOK /\ (trusted => steady >= 1) /\ Following
-----------------------------------------------------------------------------
(* Arithmetic.                                                             *)

\* A step of the wheel, without the remainder.
LEMMA Around == ASSUME NEW p \in 0 .. 3, NEW d \in {1, -1}
                PROVE  (p + d) % 4 = CASE p = 0 /\ d = -1 -> 3
                                       [] p = 3 /\ d = 1  -> 0
                                       [] OTHER -> p + d
  BY SMT

\* rightWheelVelocity() divides by the milliseconds since the last edge: a
\* quotient that counts needs a divisor of zero.
LEMMA SlowQuotient == ASSUME NEW t \in Nat, t # 0 PROVE Period \div t \in 0 .. Period
  BY SMT DEF Period

LEMMA VelocityType ==
  ASSUME NEW t \in 0 .. Period + 1, NEW v, Velocity(t, v) PROVE v \in {0, 500}
<1>1. CASE t = 0 BY <1>1 DEF Velocity
<1>2. CASE t # 0
  <2>1. t \in Nat /\ Period \div t \in 0 .. 21 BY <1>2, SlowQuotient DEF Period
  <2>2. PICK q \in {Period \div t} : v = IF q < 500 THEN 0 ELSE q BY <1>2 DEF Velocity
  <2> QED BY <2>1, <2>2
<1> QED BY <1>1, <1>2
-----------------------------------------------------------------------------
(* Type correctness.                                                       *)

LEMMA LevelType == ASSUME NEW s, NEW p PROVE Level(s, p) \in BOOLEAN
<1>1. CASE s = "in" BY <1>1, SMT DEF Level
<1>2. CASE s # "in" BY <1>2, SMT DEF Level
<1> QED BY <1>1, <1>2

LEMMA HandleType == ASSUME TypeOK, NEW s \in Sensor, Handle(s) PROVE TypeOK'
<1> USE DEF TypeOK, Handle, Sensor, wheel, history, reading
<1>1. CASE age[s] > Debounce
  <2>1. velocity' \in {0, 500}
    <3>1. Velocity(elapsed, velocity') BY <1>1
    <3> QED BY <3>1, VelocityType
  <2>2. seen' \in [Sensor -> BOOLEAN] /\ past' \in [Sensor -> BOOLEAN]
    <3> DEFINE level == Level(s, phase)
    <3>1. level \in BOOLEAN BY LevelType
    <3>2. seen' = [seen EXCEPT ![s] = level] /\ past' = seen' BY <1>1
    <3> HIDE DEF level
    <3> QED BY <3>1, <3>2
  <2>3. forward' \in BOOLEAN
    <3>1. forward' = Direction(seen'["in"], seen'["out"], past["in"], past["out"]) BY <1>1
    <3> QED BY <3>1, <2>2 DEF Direction
  <2>4. age' \in [Sensor -> 0 .. Debounce + 1] /\ elapsed' \in 0 .. Period + 1
    BY <1>1, EncoderAssumption DEF Period
  <2>5. handler' \in Sensor \cup {"none", "trap"} BY <1>1
  <2> QED BY <2>1, <2>2, <2>3, <2>4, <2>5
<1>2. CASE ~(age[s] > Debounce) BY <1>2
<1> QED BY <1>1, <1>2

LEMMA TypeStep == ASSUME TypeOK, [Next]_vars PROVE TypeOK'
<1> USE DEF TypeOK
<1>1. ASSUME NEW s \in Sensor, Handle(s) PROVE TypeOK' BY <1>1, HandleType
<1>2. ASSUME NEW s \in Sensor, Attach(s) PROVE TypeOK'
  BY <1>2 DEF Attach, Sensor, Edge, Other, wheel, reading, history
<1>3. ASSUME NEW d \in {1, -1}, Turn(d) PROVE TypeOK'
  <2>1. phase' \in 0 .. 3 BY <1>3, Around DEF Turn
  <2>2. steady' \in 0 .. Enough
    <3>1. steady' = Steady(phase', d) BY <1>3 DEF Turn
    <3> QED BY <3>1, EncoderAssumption DEF Steady
  <2>3. flag' \in [Sensor -> BOOLEAN] /\ trusted' \in BOOLEAN
    BY <1>3 DEF Turn, Crossed, Followed, Idle
  <2> QED BY <1>3, <2>1, <2>2, <2>3 DEF Turn, reading
<1>4. CASE Tick
  BY <1>4, EncoderAssumption DEF Tick, wheel, history, Period
<1>5. CASE UNCHANGED vars BY <1>5 DEF vars, wheel, reading, history
<1> QED BY <1>1, <1>2, <1>3, <1>4, <1>5 DEF Next

LEMMA InitType == ASSUME Init PROVE TypeOK
<1>1. flag \in [Sensor -> BOOLEAN] /\ seen \in [Sensor -> BOOLEAN] /\ past \in [Sensor -> BOOLEAN]
  BY Zenon DEF Init
<1>2. edge \in [Sensor -> Edge] /\ handler \in Sensor \cup {"none", "trap"}
  BY DEF Init, Edge
<1>3. age \in [Sensor -> 0 .. Debounce + 1] /\ elapsed \in 0 .. Period + 1
  BY EncoderAssumption DEF Init, Period
<1>4. /\ phase \in 0 .. 3 /\ turned \in {1, -1} /\ velocity \in {0, 500}
      /\ steady \in 0 .. Enough
  BY EncoderAssumption DEF Init
<1>5. forward \in BOOLEAN /\ trusted \in BOOLEAN BY Zenon DEF Init
<1> QED BY <1>1, <1>2, <1>3, <1>4, <1>5 DEF TypeOK

\* Type correctness of the interrupt handlers, for every debouncing time.
THEOREM EncoderTypeCorrect == Spec => []TypeOK
  BY InitType, TypeStep, PTL DEF Spec
-----------------------------------------------------------------------------
(* The direction.                                                          *)

LEMMA LastAndRest == /\ Last \in Sensor /\ Rest \in Sensor /\ Last # Rest
                     /\ \A s \in Sensor : s = Last \/ s = Rest
  BY DEF Last, Rest, Sensor

\* A step of the wheel crosses one sensor, one step further the other one
\* and a step back the same one again.
LEMMA TurnGeometry ==
  ASSUME TypeOK, NEW d \in {1, -1}, phase' = (phase + d) % 4, turned' = d
  PROVE  /\ Crossed(Last', phase') /\ ~Crossed(Rest', phase')
         /\ d = turned => Last' = Rest /\ Rest' = Last
         /\ d # turned => Last' = Last /\ Rest' = Rest
<1> USE DEF TypeOK
<1>1. phase' = CASE phase = 0 /\ d = -1 -> 3 [] phase = 3 /\ d = 1 -> 0 [] OTHER -> phase + d
  BY Around
<1>2. phase \in {0, 1, 2, 3} BY SMT
<1>3. CASE d = 1
  <2>1. turned' = 1 /\ phase' = IF phase = 3 THEN 0 ELSE phase + 1 BY <1>1, <1>3
  <2> QED BY <1>2, <1>3, <2>1 DEF Last, Rest, Crossed, Level
<1>4. CASE d = -1
  <2>1. turned' = -1 /\ phase' = IF phase = 0 THEN 3 ELSE phase - 1 BY <1>1, <1>4
  <2> QED BY <1>2, <1>4, <2>1 DEF Last, Rest, Crossed, Level
<1> QED BY <1>3, <1>4

\* rightWheelDirection() is right when the pair before was one step away.
LEMMA DirectionRight ==
  ASSUME TypeOK, NEW in \in BOOLEAN, NEW out \in BOOLEAN, NEW inPast \in BOOLEAN, NEW outPast \in BOOLEAN,
         in = Level("in", phase), out = Level("out", phase),
         inPast = IF Last = "in" THEN ~in ELSE in,
         outPast = IF Last = "out" THEN ~out ELSE out
  PROVE  Direction(in, out, inPast, outPast) <=> turned = 1
<1>1. phase \in {0, 1, 2, 3} /\ turned \in {1, -1} BY DEF TypeOK
<1>2. CASE phase = 0 BY <1>1, <1>2 DEF Level, Last, Direction
<1>3. CASE phase = 1 BY <1>1, <1>3 DEF Level, Last, Direction
<1>4. CASE phase = 2 BY <1>1, <1>4 DEF Level, Last, Direction
<1>5. CASE phase = 3 BY <1>1, <1>5 DEF Level, Last, Direction
<1> QED BY <1>1, <1>2, <1>3, <1>4, <1>5

LEMMA HandleFollowing ==
  ASSUME EncoderIInv, NEW s \in Sensor, Handle(s) PROVE Following'
<1>1. TypeOK /\ Following BY DEF EncoderIInv
<1>2. /\ handler = "none" /\ flag[s] /\ flag' = [flag EXCEPT ![s] = FALSE]
      /\ UNCHANGED <<phase, turned, edge, steady, trusted>>
  BY DEF Handle, wheel, history
<1> SUFFICES ASSUME Known(1) PROVE Following'
  BY <1>2 DEF Following, Known
<1>3. Due /\ (Known(2) => edge[Rest] = Leaving(Rest))
  BY <1>1, <1>2, LastAndRest DEF Following, Settled, Running, Idle, Sensor
<1>4. s = Last /\ age[s] > Debounce BY <1>2, <1>3, LastAndRest DEF Due
<1>5. /\ seen' = [seen EXCEPT ![s] = Level(s, phase)] /\ past' = seen'
      /\ forward' = Direction(seen'["in"], seen'["out"], past["in"], past["out"])
      /\ handler' \in {s, "trap"}
  BY <1>4 DEF Handle
<1>6. Last' = Last /\ Rest' = Rest /\ Leaving(Last)' = Leaving(Last) /\ Leaving(Rest)' = Leaving(Rest)
  BY <1>2 DEF Last, Rest, Leaving
<1>7. seen'[Last] = Level(Last, phase) /\ seen'[Rest] = seen[Rest]
  BY <1>1, <1>4, <1>5, LastAndRest DEF TypeOK
<1>8. CASE handler' = "trap" BY <1>8 DEF Following
<1>9. CASE handler' = s
  <2>1. flag'["in"] = FALSE /\ flag'["out"] = FALSE
    BY <1>1, <1>2, <1>3, <1>4, LastAndRest DEF Due, Sensor, TypeOK
  <2>2. Known(4) => seen'[Rest] = Level(Rest, phase) BY <1>3, <1>7 DEF Due, ReadRight
  <2>3. ASSUME Known(5) PROVE forward' <=> turned = 1
    <3>1. Known(4) BY <1>1, <2>3 DEF Known, TypeOK
    <3>2. past = seen /\ seen[Rest] = Level(Rest, phase) /\ seen[Last] # Level(Last, phase)
      BY <1>3, <2>3, <3>1 DEF Due, ReadRight
    <3> DEFINE in == Level("in", phase)
               out == Level("out", phase)
    <3>3. in \in BOOLEAN /\ out \in BOOLEAN BY LevelType
    <3>4. seen'["in"] = in /\ seen'["out"] = out
      BY <1>7, <2>2, <3>1, LastAndRest DEF Sensor
    <3>5. past["in"] \in BOOLEAN /\ past["out"] \in BOOLEAN BY <1>1 DEF TypeOK, Sensor
    <3>6. /\ past["in"] = IF Last = "in" THEN ~in ELSE in
          /\ past["out"] = IF Last = "out" THEN ~out ELSE out
      <4>1. CASE Last = "in"
        <5>1. Rest = "out" BY <4>1, LastAndRest DEF Sensor
        <5> QED BY <3>2, <3>3, <3>5, <4>1, <5>1
      <4>2. CASE Last = "out"
        <5>1. Rest = "in" BY <4>2, LastAndRest DEF Sensor
        <5> QED BY <3>2, <3>3, <3>5, <4>2, <5>1
      <4> QED BY <4>1, <4>2, LastAndRest DEF Sensor
    <3> HIDE DEF in, out
    <3>7. Direction(in, out, past["in"], past["out"]) <=> turned = 1
      BY <1>1, <3>3, <3>5, <3>6, DirectionRight DEF in, out
    <3> QED BY <1>5, <3>4, <3>7
  <2>4. Running'
    BY <1>2, <1>3, <1>4, <1>5, <1>6, <1>7, <1>9, <2>1, <2>2, <2>3
    DEF Running, Due, ReadRight, Known
  <2>5. Known(2)' => (edge[Rest] = Leaving(Rest))' BY <1>2, <1>3, <1>6 DEF Known
  <2> QED BY <2>4, <2>5 DEF Following
<1> QED BY <1>5, <1>8, <1>9

LEMMA AttachFollowing ==
  ASSUME EncoderIInv, NEW s \in Sensor, Attach(s) PROVE Following'
<1>1. TypeOK /\ Following BY DEF EncoderIInv
<1>2. /\ handler = s /\ handler' = "none" /\ edge' = [edge EXCEPT ![s] = Other[@]]
      /\ UNCHANGED <<phase, turned, seen, past, age, forward, steady, trusted>>
  BY DEF Attach, wheel, history, reading
<1> SUFFICES ASSUME Known(1) PROVE Following'
  BY <1>2 DEF Following, Known
<1>3. Running /\ (Known(2) => edge[Rest] = Leaving(Rest))
  BY <1>1, <1>2 DEF Following, Settled, Due, Idle, Sensor
<1>4. Last' = Last /\ Rest' = Rest /\ Leaving(Last)' = Leaving(Last) /\ Leaving(Rest)' = Leaving(Rest)
  BY <1>2 DEF Last, Rest, Leaving
<1>5. edge'[Last] = Leaving(Last) /\ edge'[Rest] = edge[Rest]
  BY <1>1, <1>2, <1>3, LastAndRest DEF Running, TypeOK, Leaving, Other
<1>6. \A t \in Sensor : flag'[t] = FALSE
  <2>1. PICK keep \in BOOLEAN : flag' = [flag EXCEPT ![s] = @ /\ keep] BY DEF Attach
  <2> QED BY <1>1, <1>3, <2>1 DEF TypeOK, Running, Sensor
<1>7. Settled'
  BY <1>2, <1>3, <1>4, <1>5, <1>6 DEF Settled, Running, Idle, ReadRight, Known
<1> QED BY <1>2, <1>3, <1>4, <1>5, <1>7 DEF Following, Known

\* What is known after a step is known one step before, and all of it when
\* the wheel has just turned round.
LEMMA KnownBefore ==
  ASSUME EncoderIInv, Enough >= 5, NEW d \in {1, -1}, Turn(d)
  PROVE  /\ Known(1)' => Followed(phase')
         /\ \A n \in 2 .. 5 : Known(n)' => Known(1) /\ (IF d = turned THEN Known(n - 1) ELSE trusted)
<1>1. TypeOK /\ (trusted => steady >= 1) BY DEF EncoderIInv
<1>2. steady' = Steady(phase', d) /\ trusted' = (Followed(phase') /\ (trusted \/ steady' = Enough))
  BY DEF Turn
<1>3. CASE ~Followed(phase')
  <2>1. steady' = 0 /\ ~trusted' BY <1>2, <1>3 DEF Steady
  <2> QED BY <2>1 DEF Known
<1>4. CASE Followed(phase')
  <2>1. steady' = IF d # turned THEN 1 ELSE IF steady < Enough THEN steady + 1 ELSE Enough
    BY <1>2, <1>4 DEF Steady
  <2>2. trusted' = (trusted \/ steady' = Enough) BY <1>2, <1>4
  <2> QED BY <1>1, <1>4, <2>1, <2>2, EncoderAssumption DEF Known, TypeOK
<1> QED BY <1>3, <1>4

LEMMA TurnFollowing ==
  ASSUME EncoderIInv, Enough >= 5, NEW d \in {1, -1}, Turn(d) PROVE Following'
<1>1. TypeOK /\ Following BY DEF EncoderIInv
<1>2. /\ phase' = (phase + d) % 4 /\ turned' = d
      /\ flag' = [s \in Sensor |->
                    flag[s] \/ (Crossed(s, phase') /\ edge[s] = IF Level(s, phase') THEN "RISING" ELSE "FALLING")]
      /\ UNCHANGED <<edge, handler, seen, past, age, forward>>
  BY DEF Turn, reading
<1> SUFFICES ASSUME Known(1)' PROVE Following'
  BY DEF Following
<1>3. Followed(phase') /\ Idle BY KnownBefore DEF Followed
<1>4. Known(1) => Settled /\ (Known(2) => edge[Rest] = Leaving(Rest))
  BY <1>1, <1>3, LastAndRest DEF Following, Due, Running, Idle, Sensor
<1>5. PICK c \in Sensor, r \in Sensor : c = Last' /\ r = Rest'
  <2>1. Last' \in Sensor /\ Rest' \in Sensor BY DEF Last, Rest, Sensor
  <2> QED BY <2>1
<1>6. /\ Crossed(c, phase') /\ ~Crossed(r, phase') /\ c # r
      /\ IF d = turned THEN c = Rest /\ r = Last ELSE c = Last /\ r = Rest
  BY <1>1, <1>2, <1>5, TurnGeometry, LastAndRest
<1>7. Level(c, phase') = ~Level(c, phase) /\ Level(r, phase') = Level(r, phase)
  BY <1>6, LevelType DEF Crossed
<1>8. ASSUME Known(2)' PROVE edge'[r] = Leaving(r)'
  <2>1. Known(1) /\ (d # turned => Known(2)) BY <1>8, KnownBefore DEF Known
  <2>2. edge[Last] = Leaving(Last) /\ (d # turned => edge[Rest] = Leaving(Rest))
    BY <1>4, <2>1 DEF Settled
  <2>3. edge[r] = Leaving(r) BY <1>6, <2>2
  <2> QED BY <1>2, <1>7, <2>3 DEF Leaving
<1>9. ASSUME Known(4)' PROVE past' = seen' /\ seen'[r] = Level(r, phase')
  <2>1. Known(1) /\ Known(3) /\ (d # turned => Known(4)) BY <1>9, KnownBefore DEF Known
  <2>2. past = seen /\ seen[Last] = Level(Last, phase) /\ (d # turned => seen[Rest] = Level(Rest, phase))
    BY <1>4, <2>1 DEF Settled, ReadRight
  <2>3. seen[r] = Level(r, phase) BY <1>6, <2>2
  <2> QED BY <1>2, <1>7, <2>2, <2>3
<1>10. ~flag[c] /\ ~flag[r] /\ handler = "none" BY <1>3 DEF Idle
<1>11. flag'[r] = FALSE BY <1>1, <1>2, <1>6, <1>10 DEF TypeOK
<1>12. CASE edge[c] = IF Level(c, phase') THEN "RISING" ELSE "FALLING"
  <2>1. flag'[c] = TRUE BY <1>2, <1>6, <1>12
  <2>2. age'[c] > Debounce BY <1>2, <1>3, <1>6 DEF Followed
  <2>3. edge'[c] = Other[Leaving(c)'] BY <1>2, <1>12 DEF Leaving, Other
  <2>4. ASSUME Known(5)' PROVE seen'[c] # Level(c, phase')
    <3>1. Known(1) /\ Known(4) BY <2>4, KnownBefore DEF Known
    <3>2. Known(3) BY <1>1, <3>1 DEF Known, TypeOK
    <3>3. seen[Last] = Level(Last, phase) /\ seen[Rest] = Level(Rest, phase)
      BY <1>4, <3>1, <3>2 DEF Settled, ReadRight
    <3>4. seen[c] = Level(c, phase) BY <1>6, <3>3
    <3> QED BY <1>2, <1>6, <3>4 DEF Crossed
  <2>5. Due'
    BY <1>2, <1>5, <1>9, <1>10, <1>11, <2>1, <2>2, <2>3, <2>4 DEF Due, ReadRight, Leaving
  <2> QED BY <1>5, <1>8, <2>5 DEF Following, Leaving
<1>13. CASE ~(edge[c] = IF Level(c, phase') THEN "RISING" ELSE "FALLING")
  <2>1. edge'[c] = Leaving(c)' BY <1>1, <1>2, <1>13 DEF TypeOK, Edge, Leaving
  <2>2. ASSUME Known(3)' PROVE FALSE
    <3>1. Known(1) /\ Known(2) /\ (d # turned => trusted) BY <2>2, KnownBefore DEF Known
    <3>2. edge[Last] = Leaving(Last) /\ edge[Rest] = Leaving(Rest) BY <1>4, <3>1 DEF Settled
    <3>3. edge[c] = Leaving(c) BY <1>6, <3>2
    <3> QED BY <1>7, <1>13, <3>3 DEF Leaving
  <2>3. Idle'
    <3>1. flag'[c] = FALSE BY <1>1, <1>2, <1>10, <1>13 DEF TypeOK
    <3> QED BY <1>2, <1>5, <1>10, <1>11, <3>1, LastAndRest, <1>6 DEF Idle, Sensor
  <2>4. Settled'
    <3>1. ~Known(3)' /\ ~Known(4)' /\ ~Known(5)' BY <1>1, <2>2, TypeStep DEF Known, TypeOK, Next
    <3> QED BY <1>5, <2>1, <2>3, <3>1 DEF Settled, Leaving
  <2> QED BY <1>5, <1>8, <2>4 DEF Following, Leaving
<1> QED BY <1>12, <1>13

LEMMA TickFollowing == ASSUME EncoderIInv, Tick PROVE Following'
<1>1. TypeOK /\ Following BY DEF EncoderIInv
<1>2. UNCHANGED <<phase, turned, flag, edge, handler, seen, past, forward, steady, trusted>>
  BY DEF Tick, wheel, history
<1>3. \A s \in Sensor : age[s] > Debounce => age'[s] > Debounce BY DEF Tick
<1>4. age[Last] > Debounce => age'[Last] > Debounce BY <1>3, LastAndRest
<1>5. Last' = Last /\ Rest' = Rest BY <1>2 DEF Last, Rest
<1>6. (Settled => Settled') /\ (Running => Running')
  BY <1>2, <1>5 DEF Settled, Running, Idle, Leaving, ReadRight, Known
<1>7. Due => Due'
  BY <1>2, <1>4, <1>5 DEF Due, Leaving, ReadRight, Known
<1> QED BY <1>1, <1>2, <1>5, <1>6, <1>7 DEF Following, Known, Leaving
-----------------------------------------------------------------------------
(* The theorem.                                                            *)

LEMMA EncoderInductive ==
  ASSUME Enough >= 5 PROVE Spec => []EncoderIInv
<1>1. ASSUME Init PROVE EncoderIInv
  <2>1. steady = 0 /\ ~trusted BY <1>1 DEF Init
  <2> QED BY <1>1, <2>1, InitType DEF EncoderIInv, Following, Known
<1>2. ASSUME EncoderIInv, [Next]_vars PROVE EncoderIInv'
  <2>1. TypeOK' BY <1>2, TypeStep DEF EncoderIInv
  <2>2. (trusted => steady >= 1)'
    <3>1. ASSUME NEW d \in {1, -1}, Turn(d) PROVE (trusted => steady >= 1)'
      <4>1. steady' = Steady(phase', d) /\ (trusted' => Followed(phase')) BY <3>1 DEF Turn
      <4>2. Followed(phase') => steady' = IF d # turned THEN 1 ELSE IF steady < Enough THEN steady + 1 ELSE Enough
        BY <4>1 DEF Steady
      <4> QED BY <1>2, <4>1, <4>2, EncoderAssumption DEF EncoderIInv, TypeOK
    <3> QED BY <1>2, <3>1 DEF EncoderIInv, Next, Handle, Attach, Tick, vars, history
  <2>3. Following'
    <3>1. ASSUME UNCHANGED vars PROVE Following'
      BY <1>2, <3>1 DEF EncoderIInv, Following, Settled, Due, Running, Idle, Known, ReadRight,
                        Last, Rest, Leaving, vars, wheel, reading, history
    <3> QED BY <1>2, <3>1, HandleFollowing, AttachFollowing, TurnFollowing, TickFollowing DEF Next
  <2> QED BY <2>1, <2>2, <2>3 DEF EncoderIInv
<1> QED BY <1>1, <1>2, PTL DEF Spec

\* From five followed steps on the direction is right whenever no handler is
\* due, for every debouncing time and any to and fro of the wheel: five is
\* enough, however the two sensors and their attachments started out.
THEOREM DirectionRepairs == ASSUME Enough >= 5 PROVE Spec => []DirectionTrusted
<1>1. EncoderIInv => DirectionTrusted
  <2> SUFFICES ASSUME EncoderIInv, Idle, trusted PROVE forward <=> turned = 1
    BY DEF DirectionTrusted
  <2>1. Settled
    BY LastAndRest DEF EncoderIInv, Following, Known, Due, Running, Idle, Sensor
  <2> QED BY <2>1 DEF Settled, Known
<1> QED BY <1>1, EncoderInductive, PTL
=============================================================================
