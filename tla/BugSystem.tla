------------------------------ MODULE BugSystem -----------------------------
(***************************************************************************)
(* The control station driving the 2015 board: ControlStation joined to    *)
(* Board2015 by one connection.  A word the station sends goes into the    *)
(* connection's sending side, arrives in segments, is collected, queued,   *)
(* run and answered by the firmware, and the answer is the line the        *)
(* station waits for.  The station is the board's only client.             *)
(* Its SYN is never saved, since nobody else keeps a socket busy.          *)
(***************************************************************************)
EXTENDS Board2015, ControlStation

CONSTANT station  \* the connection of the control station

ASSUME SystemAssumption == station \in Conns

sysVars == <<vars, stationVars>>

\* A step of the station's thread; a word it sends is on its way.
StationStep ==
  /\ peer[station] = "open"
  /\ joystickControl
  /\ sending' = [sending EXCEPT ![station] = word']
  /\ UNCHANGED <<socketVars, listVars, client, peer, inbox, boardVars>>

\* readLine() returns.
StationReceives ==
  /\ inbox[station] # <<>>
  /\ Receive(inbox[station])
  /\ TakeReply(station)
  /\ UNCHANGED <<listVars, client, boardVars>>

StationThrows ==
  /\ peer[station] = "gone"
  /\ Throws
  /\ UNCHANGED vars

Segment == sending[station] # <<>> /\ Arrive(station)

Link ==
  /\ Connect(station) \/ Segment \/ Hangup(station) \/ Reset(station) \/ Stack
  /\ UNCHANGED <<listVars, client, boardVars, stationVars>>

SysInit == Init /\ StationInit

Board == (Firmware \/ Tick \/ WheelMoves) /\ UNCHANGED stationVars

SysNext == Board \/ Link \/ StationStep \/ StationReceives \/ StationThrows

SysSpec == SysInit /\ [][SysNext]_sysVars

\* The board's fairness; beside it TCP delivers what was sent and the
\* station's thread does not stop between two reads of the joystick.  The
\* driver need not touch the joystick again, and a station that lost its
\* connection may wait in readLine() for ever: no time limit is set.
SysFairSpec ==
  /\ SysSpec
  /\ WF_sysVars(Firmware /\ UNCHANGED stationVars)
  /\ WF_sysVars(Tick /\ UNCHANGED stationVars)
  /\ WF_sysVars(WheelMoves /\ UNCHANGED stationVars)
  /\ WF_sysVars(Segment /\ UNCHANGED <<listVars, client, boardVars, stationVars>>)
  /\ WF_sysVars(StationStep /\ at # "joystick")
  /\ WF_sysVars(StationReceives)
-----------------------------------------------------------------------------
(* Properties.                                                             *)

SysTypeOK == TypeOK /\ StationTypeOK

\* The refinement mapping: the connection says how far a word has come, the
\* firmware what is queued and run.
LinkCommands == [OE : Int, DIR : Int, RELAY : Int, PWM : Int]
LinkNothing == Decode(Zeros)
Lost == peer[station] = "gone"
LinkStage ==
  CASE Lost -> "lost"
    [] ~Lost /\ word = <<>> -> "idle"
    [] ~Lost /\ word # <<>> /\ inbox[station] # <<>> -> "answered"
    [] OTHER -> IF state = "WRITE" THEN "queued" ELSE "sent"
LinkWord == IF Lost \/ word = <<>> THEN LinkNothing ELSE Decode(word)
LinkReply == IF Lost \/ inbox[station] = <<>> THEN LinkNothing
             ELSE Decode(SubSeq(inbox[station], 1, 6))

Abstract == INSTANCE ControlLink WITH
  Commands <- LinkCommands, Nothing <- LinkNothing,
  stage <- LinkStage, word <- LinkWord, queue <- Decode(ReadQueue),
  running <- cmd, reply <- LinkReply

\* The system implements ControlLink: one word at a time goes round, each
\* answer is the answer to the station's own word, and no word is replaced
\* before it was run, although only the pace of the two threads sees to it
\* and although a reset may cut a word anywhere.
ImplementsLink == Abstract!LinkSpec

\* The station has dealt with the joystick's last change, and the board has
\* run its last word (which may take until after the answer).
Settled == at = "joystick" /\ word = <<>> /\ potentiometer # NoReading /\ ~Lost /\ ~Fresh

\* The trigger is a dead man's switch: once it has been let go the board's
\* duty is the neutral one, whatever was driven and steered before.
DeadMansTrigger == Settled /\ ~stick.trigger => pwm = 180

\* The stepper is not left turning: unless button 4 or 5 kept the station
\* from letting the wheel go, the board does not clock the stepper while
\* the driver does nothing, except to centre the wheel.
WheelLetGo ==
  Settled /\ ~stick.held => ~clock \/ pc \in {"centreRight", "centreLeft"}

\* A word is answered, or the connection lost, whenever the communication
\* thread gets its turn again and again (the neutral word may starve it, see
\* BothThreadsRun).
WordsAnswered == []<>(pc = "switch") => (word # <<>> ~> word = <<>> \/ Lost)

\* The driver gets the joystick back: a steering loop ends, although it
\* compares with the potentiometer's reading and the board stops the wheel
\* by limits of its own.  It does unless the wheel is at rest for good where
\* the two disagree: at the left limit itself, one short of the outermost
\* left target, where the board no longer turns left; or beyond 999, where
\* the reading has lost its thousand and asks for ever for a right turn.
Steering == at \in {"steerRight", "steerLeft"}
OutOfReach == (at = "steerLeft" /\ pot = LeftEnd) \/ (at = "steerRight" /\ pot > 999)
SteeringEnds ==
  []<>(pc = "switch") => (Steering ~> (~Steering \/ Lost)) \/ <>[]OutOfReach
=============================================================================
