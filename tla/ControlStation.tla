--------------------------- MODULE ControlStation ---------------------------
(***************************************************************************)
(* The thread of the control station that reads the joystick, sends the    *)
(* board one control word at a time and waits for the answer.  A pass over *)
(* the loop of joystickControl() sends a word for the drive, one for the   *)
(* stick held straight or a series that steers the wheel to the angle the  *)
(* stick shows, and one that lets the wheel go.                            *)
(*                                                                         *)
(* Axes count in tenths, which is all that readJoystickValues() keeps.     *)
(* A word the thread has sent and has no answer to is in word; <<>> means  *)
(* that the thread is free to go on.                                       *)
(***************************************************************************)
EXTENDS Integers, Sequences

CONSTANT Sticks  \* what the joystick may show

Tenths == -10 .. 10

ASSUME StationAssumption ==
  Sticks \subseteq [x : Tenths, y : Tenths, trigger : BOOLEAN,
                    button2 : BOOLEAN, button3 : BOOLEAN,
                    held : BOOLEAN]  \* button 4 or 5

VARIABLES
  at,                \* where joystickControl is
  stick,             \* the joystick as last read
  word,
  speed, turning,
  directionOfDrive,  \* TRUE is forward
  prevJoystickValue,
  potentiometer      \* the reading of the last answer, at first NoReading

stationVars == <<at, stick, word, speed, turning, directionOfDrive,
                 prevJoystickValue, potentiometer>>

NoReading == -1

At == {"joystick", "drive", "turn", "steerRight", "steerLeft", "buttons", "dead"}

\* The first three bytes: OE, DIR and RELAY.
Turning == [right  |-> <<49, 48, 49>>, left |-> <<49, 49, 49>>,
            centre |-> <<48, 48, 48>>, hold |-> <<48, 48, 49>>]

StationTypeOK ==
  /\ at \in At
  /\ stick \in Sticks
  /\ word = <<>> \/ word \in [1 .. 6 -> 48 .. 57]
  /\ speed \in 0 .. 255
  /\ turning \in DOMAIN Turning
  /\ directionOfDrive \in BOOLEAN
  /\ prevJoystickValue \in 0 .. 10
  /\ potentiometer \in {NoReading} \cup 0 .. 999

\* Three decimal digits as characters, and back.
Digits(n) == <<48 + (n \div 100), 48 + ((n \div 10) % 10), 48 + (n % 10)>>

\* Faulty variant: the characters' codes are taken for the digits.
NumberOfCodes(d) == 100 * d[1] + 10 * d[2] + d[3]

Number(d) == 100 * (d[1] - 48) + 10 * (d[2] - 48) + (d[3] - 48)

sendControlWord(t, s) ==
  /\ word' = Turning[t] \o Digits(s)
  /\ turning' = t /\ speed' = s

\* Faulty variant: the reading is looked for one character early.
ReceiveShifted(answer) ==
  /\ word # <<>>
  /\ word' = <<>>
  /\ potentiometer' = Number(SubSeq(answer, 6, 8))
  /\ UNCHANGED <<at, stick, speed, turning, directionOfDrive, prevJoystickValue>>

\* sendControlWord's second half: the answer's potentiometer is kept; that
\* the echo is compared has no consequence.
Receive(answer) ==
  /\ word # <<>>
  /\ word' = <<>>
  /\ potentiometer' = Number(SubSeq(answer, 7, 9))
  /\ UNCHANGED <<at, stick, speed, turning, directionOfDrive, prevJoystickValue>>

\* A cast to int, and a division of ints, round towards zero.
Truncate(a, b) == IF a < 0 THEN -((-a) \div b) ELSE a \div b

\* Faulty variant: the stick's angle counts although the trigger is up.
DriveSpeedUntriggered ==
  IF stick.x = 0 /\ stick.y = 0 THEN 180
  ELSE IF (stick.y < 0) = directionOfDrive THEN 168 + Truncate(Truncate(38 * stick.y, 10), 10)
  ELSE 217 + Truncate(14 * stick.y, 10)

\* The duties below 180 drive one way, those above the other; which of them
\* the stick asks for changes with directionOfDrive.
DriveSpeed ==
  IF (stick.x = 0 /\ stick.y = 0) \/ ~stick.trigger THEN 180
  ELSE IF (stick.y < 0) = directionOfDrive THEN 168 + Truncate(Truncate(38 * stick.y, 10), 10)
  ELSE 217 + Truncate(14 * stick.y, 10)

\* Ten times the reading at which the wheel has the stick's angle.
Target ==
  LET angle == IF stick.x < 0 THEN -stick.x ELSE stick.x
  IN  IF (stick.x > 0) = directionOfDrive THEN 6530 + 250 * angle ELSE 6530 - 334 * angle
-----------------------------------------------------------------------------
\* Faulty variant: the thread goes on without the answer.
FreeUnanswered(here) == at = here

Free(here) == at = here /\ word = <<>>

\* The joystick is polled until something has changed, which may be the
\* twist of the stick alone, that nothing else looks at.
readJoystickValues ==
  /\ Free("joystick")
  /\ stick' \in Sticks
  /\ at' = "drive"
  /\ UNCHANGED <<word, speed, turning, directionOfDrive, prevJoystickValue, potentiometer>>

\* With the trigger pulled and the stick straight to one side none of the
\* three conditions holds and the speed stays as it was.
Drive ==
  /\ Free("drive")
  /\ at' = "turn"
  /\ IF stick.y = 0 /\ stick.x # 0 /\ stick.trigger
     THEN UNCHANGED <<word, turning, speed>>
     ELSE sendControlWord(turning, DriveSpeed)
  /\ UNCHANGED <<stick, directionOfDrive, prevJoystickValue, potentiometer>>

Straight ==
  /\ Free("turn") /\ stick.x = 0
  /\ sendControlWord("centre", speed)
  /\ prevJoystickValue' = 0
  /\ at' = "buttons"
  /\ UNCHANGED <<stick, directionOfDrive, potentiometer>>

\* Only every second value of the stick turns the wheel.  Without an answer
\* so far there is no number to parse and the thread ends.
Aside ==
  /\ Free("turn") /\ stick.x # 0
  /\ LET value == IF stick.x < 0 THEN -stick.x ELSE stick.x
     IN  IF value % 2 = 0 /\ value # prevJoystickValue
         THEN /\ prevJoystickValue' = value
              /\ at' = IF potentiometer = NoReading THEN "dead"
                       ELSE IF 10 * potentiometer < Target THEN "steerRight"
                       ELSE IF 10 * potentiometer > Target THEN "steerLeft" ELSE "buttons"
         ELSE prevJoystickValue' = prevJoystickValue /\ at' = "buttons"
  /\ UNCHANGED <<stick, word, speed, turning, directionOfDrive, potentiometer>>

\* A steering loop: the word is sent again until the answer's reading has
\* reached the target.
SteerTo(here, t, short) ==
  /\ Free(here)
  /\ \/ short /\ sendControlWord(t, speed) /\ at' = at
     \/ ~short /\ at' = "buttons" /\ UNCHANGED <<word, turning, speed>>
  /\ UNCHANGED <<stick, directionOfDrive, prevJoystickValue, potentiometer>>

Steer ==
  \/ SteerTo("steerRight", "right", 10 * potentiometer < Target)
  \/ SteerTo("steerLeft", "left", 10 * potentiometer > Target)

\* Faulty variant: the wheel is not let go.
ButtonsKept ==
  /\ Free("buttons")
  /\ directionOfDrive' = (stick.button3 \/ (directionOfDrive /\ ~stick.button2))
  /\ at' = "joystick"
  /\ UNCHANGED <<stick, word, speed, turning, prevJoystickValue, potentiometer>>

\* Buttons 2 and 3 choose the direction, the later test wins; the wheel is
\* let go unless button 4 or 5 is held.
Buttons ==
  /\ Free("buttons")
  /\ directionOfDrive' = (stick.button3 \/ (directionOfDrive /\ ~stick.button2))
  /\ IF stick.held THEN UNCHANGED <<word, turning, speed>>
                   ELSE sendControlWord("hold", speed)
  /\ at' = "joystick"
  /\ UNCHANGED <<stick, prevJoystickValue, potentiometer>>

\* The connection is gone: writing or reading the line throws.
Throws ==
  /\ at # "dead"
  /\ at' = "dead" /\ word' = <<>>
  /\ UNCHANGED <<stick, speed, turning, directionOfDrive, prevJoystickValue, potentiometer>>

\* The Joystick's constructor has read it once.
StationInit ==
  /\ at = "joystick"
  /\ stick \in Sticks
  /\ word = <<>>
  /\ speed = 0 /\ turning = "hold"
  /\ directionOfDrive = TRUE
  /\ prevJoystickValue = 0
  /\ potentiometer = NoReading

joystickControl == readJoystickValues \/ Drive \/ Straight \/ Aside \/ Steer \/ Buttons
=============================================================================
