---------------------------- MODULE WheelEncoder ----------------------------
(***************************************************************************)
(* The interrupt handlers of the 2015 board that tell which way the right  *)
(* wheel turns.  Two optical sensors see a pattern a quarter period apart; *)
(* turning forward they read 00, 01, 11, 10 and again 00 (in, out).  Each  *)
(* sensor has one interrupt and two handlers, one attached for its rising  *)
(* and one for its falling edge; a handler reads the sensor, computes the  *)
(* direction from the new and the previous pair and attaches the other.    *)
(* An edge within the debouncing time of the last one is ignored: the      *)
(* handler then does not change the attachment either.                     *)
(*                                                                         *)
(* The wheel is free: it turns either way at any time, also to and fro     *)
(* faster than the handlers follow, which is how a bouncing sensor looks.  *)
(***************************************************************************)
EXTENDS Integers

CONSTANTS
  Debounce,  \* 10 ms
  Enough     \* steps in one direction after which the reading counts: 5, fewer do not do

ASSUME EncoderAssumption == Debounce \in Nat /\ Enough \in Nat \ {0}

Sensor == {"in", "out"}
Edge == {"RISING", "FALLING"}
Other == [RISING |-> "FALLING", FALLING |-> "RISING"]

VARIABLES
  phase,     \* where the wheel stands in the period of the pattern
  turned,    \* its last step: 1 forward, -1 backward
  flag,      \* interrupt flags
  edge,      \* the edge each interrupt is attached to
  handler,   \* the sensor whose handler is still running, "none", or "trap"
  seen,      \* right_in_state, right_out_state
  past,      \* right_in_past, right_out_past
  age,       \* time since right_in_debouncing, right_out_debouncing
  forward,   \* right_wheel_Forward
  elapsed,   \* time since rightStateStart, as far as it matters
  velocity,  \* rightVelocity
  steady,    \* history: steps in one direction the handlers could follow
  trusted    \* history: there were enough, and only such steps since

wheel == <<phase, turned>>
reading == <<seen, past, age, forward, elapsed, velocity>>
history == <<steady, trusted>>
vars == <<wheel, flag, edge, handler, reading, history>>

\* The farthest time that still gives a quotient other than zero.
Period == 21

TypeOK ==
  /\ phase \in 0 .. 3 /\ turned \in {1, -1}
  /\ flag \in [Sensor -> BOOLEAN]
  /\ edge \in [Sensor -> Edge]
  /\ handler \in Sensor \cup {"none", "trap"}
  /\ seen \in [Sensor -> BOOLEAN] /\ past \in [Sensor -> BOOLEAN]
  /\ age \in [Sensor -> 0 .. Debounce + 1]
  /\ forward \in BOOLEAN
  /\ elapsed \in 0 .. Period + 1 /\ velocity \in {0, 500}
  /\ steady \in 0 .. Enough /\ trusted \in BOOLEAN

\* What a sensor reads with the wheel at p.
Level(s, p) == IF s = "in" THEN p \in {2, 3} ELSE p \in {1, 2}

Idle == handler = "none" /\ \A s \in Sensor : ~flag[s]
-----------------------------------------------------------------------------
(* The handlers.                                                           *)

\* Faulty variant: every other transition counts as forward.
DirectionHalf(in, out, inPast, outPast) ==
  (in = out) = (inPast # outPast)

\* rightWheelDirection(), case by case: each pair but one is judged by one
\* of its two neighbours, and any other past counts as the other neighbour.
Direction(in, out, inPast, outPast) ==
  CASE in /\ ~out  -> ~(~inPast /\ ~outPast)
    [] ~in /\ ~out -> inPast /\ ~outPast
    [] in /\ out   -> ~inPast /\ outPast
    [] OTHER       -> ~inPast /\ ~outPast

\* Faulty variant: slow quotients are kept.
VelocityKept(t, v) == v = IF t = 0 THEN 0 ELSE Period \div t

\* rightWheelVelocity(): nothing below 500 is kept; 500 stands for anything
\* above.  Only a divisor of zero can give that, in the same millisecond.
Velocity(t, v) ==
  \E q \in IF t = 0 THEN {0, 500} ELSE {Period \div t} : v = IF q < 500 THEN 0 ELSE q

\* A handler begins: it reads the sensor and computes direction and speed,
\* unless it is too early.  The processor may also trap on a divisor of
\* zero, and then no handler ever runs again.  Sending the speed to the optical port's clients
\* changes nothing here.
Handle(s) ==
  /\ handler = "none" /\ flag[s]
  /\ flag' = [flag EXCEPT ![s] = FALSE]
  /\ IF age[s] > Debounce
     THEN /\ seen' = [seen EXCEPT ![s] = Level(s, phase)]
          /\ forward' = Direction(seen'["in"], seen'["out"], past["in"], past["out"])
          /\ past' = seen'
          /\ age' = [age EXCEPT ![s] = 0]
          /\ elapsed' = 0 /\ Velocity(elapsed, velocity')
          /\ handler' \in IF elapsed = 0 THEN {s, "trap"} ELSE {s}
     ELSE UNCHANGED <<reading, handler>>
  /\ UNCHANGED <<wheel, edge, history>>

\* 100 microseconds later it attaches the handler of the other edge.  An
\* edge of the old kind may or may not be remembered.
Attach(s) ==
  /\ handler = s
  /\ handler' = "none"
  /\ edge' = [edge EXCEPT ![s] = Other[@]]
  /\ \E keep \in BOOLEAN : flag' = [flag EXCEPT ![s] = @ /\ keep]
  /\ UNCHANGED <<wheel, reading, history>>
-----------------------------------------------------------------------------
(* The wheel and time.                                                     *)

Crossed(s, p) == Level(s, p) # Level(s, phase)

\* The handlers can follow a step when those of the steps before have ended
\* and the sensor's last edge is long enough ago.
Followed(p) == Idle /\ \A s \in Sensor : Crossed(s, p) => age[s] > Debounce

Steady(p, d) ==
  CASE ~Followed(p) -> 0
    [] Followed(p) /\ d # turned -> 1
    [] OTHER -> IF steady < Enough THEN steady + 1 ELSE Enough

Turn(d) ==
  LET p == (phase + d) % 4
  IN  /\ phase' = p /\ turned' = d
      /\ flag' = [s \in Sensor |->
                    flag[s] \/ (Crossed(s, p) /\ edge[s] = IF Level(s, p) THEN "RISING" ELSE "FALLING")]
      /\ steady' = Steady(p, d)
      /\ trusted' = (Followed(p) /\ (trusted \/ steady' = Enough))
      /\ UNCHANGED <<edge, handler, reading>>

Tick ==
  /\ age' = [s \in Sensor |-> IF age[s] > Debounce THEN age[s] ELSE age[s] + 1]
  /\ elapsed' = IF elapsed > Period THEN elapsed ELSE elapsed + 1
  /\ UNCHANGED <<wheel, flag, edge, handler, seen, past, forward, velocity, history>>

\* setup(): the sensors are not read, whatever they show.
Init ==
  /\ phase \in 0 .. 3 /\ turned \in {1, -1}
  /\ flag = [s \in Sensor |-> FALSE]
  /\ edge = [s \in Sensor |-> "RISING"]
  /\ handler = "none"
  /\ seen = [s \in Sensor |-> TRUE] /\ past = [s \in Sensor |-> FALSE]
  /\ age = [s \in Sensor |-> Debounce + 1]
  /\ forward = TRUE
  /\ elapsed = Period + 1 /\ velocity = 0
  /\ steady = 0 /\ trusted = FALSE

Next ==
  \/ \E s \in Sensor : Handle(s) \/ Attach(s)
  \/ \E d \in {1, -1} : Turn(d)
  \/ Tick

Spec == Init /\ [][Next]_vars
-----------------------------------------------------------------------------
(* Properties.                                                             *)

\* The direction repairs itself: whatever edges were missed before, by
\* bouncing, by a late handler or because setup() did not read the sensors,
\* after Enough steps one way it is right, and from then on it is right
\* after every step, a reversal included, until an edge comes too early.
DirectionTrusted == Idle /\ trusted => (forward <=> turned = 1)
=============================================================================
