---------------------------- MODULE CommandWord -----------------------------
(***************************************************************************)
(* The command both boards are sent and decode alike: six characters, one  *)
(* each for OE, DIR and RELAY and three for the duty of the drive motor.   *)
(***************************************************************************)
EXTENDS Integers

\* The buffers hold 512 bytes; no more than a command is ever decoded.
numBitsPerCommand == 6
Command == [1 .. numBitsPerCommand -> 0 .. 255]
Zeros == [i \in 1 .. numBitsPerCommand |-> 0]

\* char(b): bytes above 127 are negative.
Char(b) == IF b > 127 THEN b - 256 ELSE b
Digit(b) == Char(b) - 48

Decode(q) == [OE |-> Digit(q[1]), DIR |-> Digit(q[2]), RELAY |-> Digit(q[3]),
              PWM |-> 100 * Digit(q[4]) + 10 * Digit(q[5]) + Digit(q[6])]

\* Faulty variant: no lower limit.
DriveDutyLow(c) == IF c.RELAY = 1 /\ c.PWM > 227 THEN 227 ELSE c.PWM

\* The duty is limited while the drive is enabled, and only then.
DriveDuty(c) ==
  CASE c.RELAY = 1 /\ c.PWM < 120 -> 120
    [] c.RELAY = 1 /\ c.PWM > 227 -> 227
    [] OTHER -> c.PWM
=============================================================================
