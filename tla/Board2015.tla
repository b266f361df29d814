----------------------------- MODULE Board2015 ------------------------------
(***************************************************************************)
(* The firmware of the 2015 BUG board.  loop() calls two protothreads in   *)
(* turn: the first runs the queued command (runBUG) and the second serves  *)
(* the control stations, one step of its state machine at a time.  Each    *)
(* runs its body when more than Interval of time has passed since it last  *)
(* did, and asks again at once: a body that took too long is followed by   *)
(* another before the other thread gets its turn.                          *)
(*                                                                         *)
(* The board has one thread of control, pc; the network, the clients, the  *)
(* steered wheel and time move between any two of its steps.  Time counts  *)
(* as age1 and age2, the time since each thread's timestamp, up to the     *)
(* first value at which the thread is due; slack is the time the current   *)
(* body may still take.                                                    *)
(***************************************************************************)
EXTENDS EthernetServer, CommandWord

CONSTANTS
  Interval,    \* the threads' interval (100 ms)
  BodyTicks,   \* bound: the time a body takes that waits for nothing
  WriteTicks,  \* bound: the time server.write takes on top of it
  Pots,        \* potentiometer positions the wheel is seen at
  LeftEnd, RightEnd,     \* steering limits: 320, 975
  CentreLow, CentreHigh  \* centerWheel's thresholds: 620, 655

ASSUME BoardAssumption ==
  /\ Interval \in Nat /\ BodyTicks \in Nat /\ WriteTicks \in Nat
  /\ BodyTicks =< Interval
  /\ Pots \subseteq 0 .. 1023
  /\ LeftEnd \in Nat /\ RightEnd \in Nat /\ CentreLow \in Nat /\ CentreHigh \in Nat
  /\ CentreLow < CentreHigh

VARIABLES
  pc,            \* where the firmware is
  age1, age2,    \* time since the timestamps of protothread1 and 2
  slack,
  state,         \* STATE of the communication thread
  rgbRead,       \* the command being received
  ReadQueue,     \* the command runBUG runs
  bitsReceived,
  cmd,           \* OEvalue, DIRvalue, RELAYvalue, PWMvalue as last decoded
  relay, pwm,    \* drive motor: enable pin and duty
  dirPin, clock, \* steering stepper: direction pin and whether it is clocked
  pot            \* where the wheel stands

threadVars == <<pc, age1, age2, slack>>
commVars   == <<state, rgbRead, ReadQueue, bitsReceived>>
motorVars  == <<relay, pwm, dirPin, clock>>
boardVars  == <<threadVars, commVars, cmd, motorVars, pot>>
vars == <<serverVars, boardVars>>

PC == {"protothread1", "protothread2", "service", "switch", "available", "read",
       "centreRight", "centreLeft"}
State == {"INITIALIZE", "READ", "PROCESSREAD", "WRITE", "CLOSE"}

TypeOK ==
  /\ ServerTypeOK
  /\ pc \in PC
  /\ age1 \in 0 .. Interval + 1 /\ age2 \in 0 .. Interval + 1
  /\ slack \in Nat
  /\ state \in State
  /\ rgbRead \in Command /\ ReadQueue \in Command
  /\ bitsReceived \in 0 .. numBitsPerCommand - 1
  /\ cmd \in [OE : Int, DIR : Int, RELAY : Int, PWM : Int]
  /\ relay \in BOOLEAN /\ pwm \in Int
  /\ dirPin \in {"LOW", "HIGH"} /\ clock \in BOOLEAN
  /\ pot \in Pots
-----------------------------------------------------------------------------
(* Running a command.                                                      *)

TurnsLeft(c)  == pot > LeftEnd /\ c.DIR = 1 /\ c.OE = 1
TurnsRight(c) == pot < RightEnd /\ c.DIR = 0 /\ c.OE = 1
Centres(c)    == c.DIR = 0 /\ c.OE = 0 /\ c.RELAY = 0

\* Entering centerWheel: below the upper threshold it drives right, else
\* left; the branch that drives neither way is never taken.
CentreWheel == pc' = IF pot < CentreHigh THEN "centreRight" ELSE "centreLeft"

\* The else-branches: centre, or stop the stepper.
Hold(c) ==
  /\ ~TurnsLeft(c) /\ ~TurnsRight(c)
  /\ dirPin' = dirPin
  /\ IF Centres(c) THEN CentreWheel /\ clock' = clock
                   ELSE pc' = "protothread1" /\ clock' = FALSE

runBUG(q) ==
  LET c == Decode(q)
  IN  /\ cmd' = c
      /\ relay' = (c.RELAY = 1)
      /\ pwm' = DriveDuty(c)
      /\ \/ TurnsLeft(c) /\ dirPin' = "HIGH" /\ clock' = TRUE /\ pc' = "protothread1"
         \/ TurnsRight(c) /\ dirPin' = "LOW" /\ clock' = TRUE /\ pc' = "protothread1"
         \/ Hold(c)

protothread1 ==
  /\ pc = "protothread1"
  /\ age1 > Interval
  /\ age1' = 0 /\ slack' = BodyTicks
  /\ runBUG(ReadQueue)
  /\ UNCHANGED <<serverVars, age2, commVars, pot>>

protothread1Waits ==
  /\ pc = "protothread1"
  /\ age1 =< Interval
  /\ pc' = "protothread2" /\ slack' = BodyTicks
  /\ UNCHANGED <<serverVars, age1, age2, commVars, cmd, motorVars, pot>>

\* centerWheel's loops poll the potentiometer until the threshold is
\* reached; nothing else runs meanwhile.
CentreLoop(here, done, dir) ==
  /\ pc = here
  /\ IF done
     THEN clock' = FALSE /\ pc' = "protothread1" /\ slack' = BodyTicks /\ dirPin' = dirPin
     ELSE dirPin' = dir /\ clock' = TRUE /\ UNCHANGED <<pc, slack>>
  /\ UNCHANGED <<serverVars, age1, age2, commVars, cmd, relay, pwm, pot>>

centerWheel ==
  \/ CentreLoop("centreRight", pot >= CentreHigh, "LOW")
  \/ CentreLoop("centreLeft", pot =< CentreLow, "HIGH")
-----------------------------------------------------------------------------
(* Serving the control stations.                                           *)

\* The body ends: back to the thread's guard.
Done == pc' = "protothread2" /\ slack' = slack

protothread2Waits ==
  /\ pc = "protothread2"
  /\ age2 =< Interval
  /\ pc' = "protothread1" /\ slack' = BodyTicks
  /\ UNCHANGED <<serverVars, age1, age2, commVars, cmd, motorVars, pot>>

\* Faulty variants: the timestamp is not renewed; the thread is due one
\* moment early.
protothread2Undated ==
  /\ pc = "protothread2"
  /\ age2 > Interval
  /\ ServiceSocketListen
  /\ pc' = "service" /\ slack' = BodyTicks
  /\ UNCHANGED <<age1, age2, commVars, cmd, motorVars, pot>>

protothread2Early ==
  /\ pc = "protothread2"
  /\ age2 >= Interval
  /\ age2' = 0
  /\ ServiceSocketListen
  /\ pc' = "service" /\ slack' = BodyTicks
  /\ UNCHANGED <<age1, commVars, cmd, motorVars, pot>>

\* Every body begins with server.available() ...
protothread2 ==
  /\ pc = "protothread2"
  /\ age2 > Interval
  /\ age2' = 0
  /\ ServiceSocketListen
  /\ pc' = "service" /\ slack' = BodyTicks
  /\ UNCHANGED <<age1, commVars, cmd, motorVars, pot>>

\* ... and goes on when that has returned a client.
ServerAvailable ==
  /\ pc = "service"
  /\ WalkOn \/ Look
  /\ pc' = IF call' = "none" THEN "switch" ELSE "service"
  /\ UNCHANGED <<age1, age2, slack, commVars, cmd, motorVars, pot>>

INITIALIZE ==
  /\ pc = "switch" /\ state = "INITIALIZE"
  /\ state' = "READ"
  /\ Done
  /\ UNCHANGED <<serverVars, age1, age2, rgbRead, ReadQueue, bitsReceived, cmd, motorVars, pot>>

\* READ asks the client twice; between available() and client.available()
\* its bytes may have been lost with the connection.
READ ==
  /\ pc = "switch" /\ state = "READ"
  /\ \/ /\ client = NoSocket
        /\ Done
        /\ UNCHANGED <<state, rgbRead>>
     \/ /\ HasData
        /\ pc' = "available" /\ slack' = slack
        /\ UNCHANGED <<state, rgbRead>>
     \/ /\ client # NoSocket /\ ~HasData
        /\ rgbRead' = [rgbRead EXCEPT ![3] = 0]
        /\ state' = "PROCESSREAD"
        /\ Done
  /\ UNCHANGED <<serverVars, age1, age2, ReadQueue, bitsReceived, cmd, motorVars, pot>>

\* Faulty variant: reads on without asking whether a byte is there.
ByteUnchecked ==
  /\ pc = "available"
  /\ pc' = "read"
  /\ UNCHANGED <<serverVars, age1, age2, slack, commVars, cmd, motorVars, pot>>

\* The loop that collects a command spins until a byte is available ...
ByteAvailable ==
  /\ pc = "available" /\ HasData
  /\ pc' = "read"
  /\ UNCHANGED <<serverVars, age1, age2, slack, commVars, cmd, motorVars, pot>>

\* Faulty variant: the count is not reset for the next command.
ReadByteUncounted(b) ==
  /\ rgbRead' = [rgbRead EXCEPT ![bitsReceived + 1] = b]
  /\ bitsReceived' = bitsReceived + 1
  /\ IF bitsReceived + 1 = numBitsPerCommand
     THEN state' = "PROCESSREAD" /\ Done
     ELSE state' = state /\ pc' = "available" /\ slack' = slack
  /\ UNCHANGED <<age1, age2, ReadQueue, cmd, motorVars, pot>>

\* ... and reads it; client.read() is -1 when it has been lost since.
ReadByteOf(b) ==
  /\ rgbRead' = [rgbRead EXCEPT ![bitsReceived + 1] = b]
  /\ IF bitsReceived + 1 = numBitsPerCommand
     THEN bitsReceived' = 0 /\ state' = "PROCESSREAD" /\ Done
     ELSE bitsReceived' = bitsReceived + 1 /\ state' = state
          /\ pc' = "available" /\ slack' = slack
  /\ UNCHANGED <<age1, age2, ReadQueue, cmd, motorVars, pot>>

ReadLoop ==
  /\ pc = "read"
  /\ \/ ReadByte /\ ReadByteOf(Head(rx[client]))
     \/ ~HasData /\ ReadByteOf(255) /\ UNCHANGED serverVars

\* Faulty variant: the command is queued but not answered.
PROCESSREADUnanswered ==
  /\ pc = "switch" /\ state = "PROCESSREAD"
  /\ \/ rgbRead[1] = 57 /\ ReadQueue' = Zeros /\ state' = "CLOSE"
     \/ rgbRead[1] \in {48, 49} /\ ReadQueue' = rgbRead /\ state' = "READ"
     \/ rgbRead[1] \notin {48, 49, 57} /\ UNCHANGED <<ReadQueue, state>>
  /\ Done
  /\ UNCHANGED <<serverVars, age1, age2, rgbRead, bitsReceived, cmd, motorVars, pot>>

PROCESSREAD ==
  /\ pc = "switch" /\ state = "PROCESSREAD"
  /\ \/ rgbRead[1] = 57 /\ ReadQueue' = Zeros /\ state' = "CLOSE"
     \/ rgbRead[1] \in {48, 49} /\ ReadQueue' = rgbRead /\ state' = "WRITE"
     \/ rgbRead[1] \notin {48, 49, 57} /\ UNCHANGED <<ReadQueue, state>>
  /\ Done
  /\ UNCHANGED <<serverVars, age1, age2, rgbRead, bitsReceived, cmd, motorVars, pot>>

\* The three low decimal digits of the potentiometer, as characters.  The
\* rest of the 512-byte reply is zeros and a newline.
PotDigits == <<48 + ((pot \div 100) % 10), 48 + ((pot \div 10) % 10), 48 + (pot % 10)>>

WRITE ==
  /\ pc = "switch" /\ state = "WRITE"
  /\ ServerWrite(ReadQueue \o PotDigits)
  /\ state' = "READ"
  /\ pc' = "protothread2" /\ slack' = slack + WriteTicks
  /\ UNCHANGED <<age1, age2, rgbRead, ReadQueue, bitsReceived, cmd, motorVars, pot>>

\* Faulty variant: the drive is left as it was.
CLOSEDriving ==
  /\ pc = "switch" /\ state = "CLOSE"
  /\ clock' = FALSE
  /\ ClientStop
  /\ state' = "INITIALIZE"
  /\ Done
  /\ UNCHANGED <<age1, age2, rgbRead, ReadQueue, bitsReceived, cmd, relay, pwm, dirPin, pot>>

CLOSE ==
  /\ pc = "switch" /\ state = "CLOSE"
  /\ relay' = FALSE /\ clock' = FALSE
  /\ ClientStop
  /\ state' = "INITIALIZE"
  /\ Done
  /\ UNCHANGED <<age1, age2, rgbRead, ReadQueue, bitsReceived, cmd, pwm, dirPin, pot>>
-----------------------------------------------------------------------------
(* The board's surroundings.                                               *)

Clock(age) == IF age > Interval THEN age ELSE age + 1

\* The loops that wait for the wheel or for a byte may last; anything else
\* takes the time its body was given.
Waiting == pc \in {"centreRight", "centreLeft"} \/ (pc = "available" /\ ~HasData)

Tick ==
  /\ IF Waiting THEN UNCHANGED slack ELSE slack > 0 /\ slack' = slack - 1
  /\ age1' = Clock(age1) /\ age2' = Clock(age2)
  /\ UNCHANGED <<serverVars, pc, commVars, cmd, motorVars, pot>>

\* While clocked the stepper turns the wheel to the next position: left
\* (lower readings) with DIR high, right with DIR low.
WheelMoves ==
  /\ clock
  /\ \E p \in Pots :
       /\ IF dirPin = "HIGH"
          THEN p < pot /\ \A q \in Pots : q < pot => q =< p
          ELSE p > pot /\ \A q \in Pots : q > pot => p =< q
       /\ pot' = p
  /\ UNCHANGED <<serverVars, threadVars, commVars, cmd, motorVars>>

Surroundings == Network /\ UNCHANGED boardVars
-----------------------------------------------------------------------------
\* setup() ends in centerWheel; both timestamps are still zero, so the two
\* threads start equally old.
Init ==
  /\ ServerInit
  /\ pot \in Pots
  /\ pc = IF pot < CentreHigh THEN "centreRight" ELSE "centreLeft"
  /\ age1 \in {0, Interval + 1} /\ age2 = age1
  /\ slack = BodyTicks
  /\ state = "INITIALIZE"
  /\ rgbRead = Zeros /\ ReadQueue = Zeros /\ bitsReceived = 0
  /\ cmd = [OE |-> 0, DIR |-> 0, RELAY |-> 0, PWM |-> 180]
  /\ relay = FALSE /\ pwm = 180
  /\ dirPin = "LOW" /\ clock = FALSE

Firmware ==
  \/ protothread1 \/ protothread1Waits \/ centerWheel
  \/ protothread2 \/ protothread2Waits \/ ServerAvailable
  \/ INITIALIZE \/ READ \/ ByteAvailable \/ ReadLoop \/ PROCESSREAD \/ WRITE \/ CLOSE

Next == Firmware \/ Tick \/ WheelMoves \/ Surroundings

Spec == Init /\ [][Next]_vars

\* The processor never stops, time passes, and a clocked wheel turns.
\* Nothing is assumed of the clients.
FairSpec == Spec /\ WF_vars(Firmware) /\ WF_vars(Tick) /\ WF_vars(WheelMoves)
-----------------------------------------------------------------------------
(* Properties.                                                             *)

\* The queue holds a command runBUG has not run yet.
Fresh == cmd # Decode(ReadQueue)

\* No command is overwritten before it has been run.  Nothing in the code
\* says so: the receiving thread may overwrite ReadQueue whenever it likes,
\* and only the pace of the two threads' timestamps keeps it from doing so.
NoCommandSkipped == [][ReadQueue' # ReadQueue => ~Fresh]_vars

\* The drive is not left running on a superseded command while the board
\* waits for a client: the READ loop may block for good, so a command that
\* turns the drive off has to have been run before the loop is entered.
StopTakesEffect ==
  relay /\ Decode(ReadQueue).RELAY # 1 =>
    state # "PROCESSREAD" /\ pc \notin {"available", "read"}

\* After a '9' closed the session the BUG stands still until a new command
\* is queued, whichever thread ran last: CLOSE switches the motors off, and
\* protothread1 keeps running the zeroed queue without switching them on.
StoppedAfterClose ==
  ReadQueue = Zeros /\ state # "CLOSE" =>
    /\ ~relay
    /\ clock => pc \in {"centreRight", "centreLeft"}

\* The drive motor is only ever enabled with a duty between 120 and 227,
\* whatever bytes a client, or a lost connection, put in the command.
DriveEnvelope == relay => pwm \in 120 .. 227

\* A queued command is run eventually: neither the READ loop nor an
\* unrecognised header nor a lost client keeps protothread1 from it.  The
\* writes are prompt (BodyTicks + WriteTicks =< Interval): after one that
\* lasts longer than the interval protothread2 is due again at once, and its
\* READ loop may wait for ever with the command still queued.
CommandTakesEffect == Fresh ~> ~Fresh

\* A command is one that some client sent, whole: the READ loop never ends
\* with bytes of two clients, or with a byte it did not receive, although
\* it collects the command from a client chosen before the loop began and
\* the other clients send meanwhile.  Clients that only send whole commands
\* and do not leave are assumed.
WholeCommands == ReadQueue \in {Zeros} \cup Said

\* available() serves the newest client first: c has to wait while a client
\* that connected after it has bytes to read.
Order == IF listening = NoSocket THEN skl ELSE <<listening>> \o skl
Overtaken(c) ==
  \E i, j \in DOMAIN Order : i < j /\ conn[Order[j]] = c /\ rx[Order[i]] # <<>>

\* The READ loop waits for the rest of a command.
MidCommand == pc = "available" /\ ~HasData

\* The last reply c was sent answers the command w.
Replied(c, w) == Len(inbox[c]) >= numBitsPerCommand /\ SubSeq(inbox[c], 1, numBitsPerCommand) = w

\* A client whose command w has arrived is sent the reply to w, not merely
\* one to another client's command, however its bytes were cut and wherever
\* the firmware was when they came.  It is, unless newer clients keep
\* sending for ever or one stops in the middle of a command.  No client asks
\* for centring, which may starve protothread2 (BothThreadsRun).
Answered ==
  \A c \in Conns :
    <>[]~Overtaken(c) /\ []<>~MidCommand =>
      \A w \in Words[c] :
        (~Replied(c, w) /\ \E s \in Sockets : conn[s] = c /\ rx[s] = w) ~> Replied(c, w)

\* "Close the connection when the client is lost, stop the BUG" (CLOSE): the
\* drive does not stay on for ever without a client.
DriveStopsWithoutClient ==
  (relay /\ \A c \in Conns : peer[c] = "gone") ~> ~relay

\* setup() starts "the two threads that will handle the communication and
\* running BUG": each gets its turn again and again.
BothThreadsRun == []<>(pc = "protothread1") /\ []<>(pc = "protothread2")

\* "Read the value of potentiometer and use it to center the motor"
\* (centerWheel): when the neutral command is the last one and all clients
\* have left, the wheel comes to rest.
CentredWheelRests ==
  <>[](Centres(Decode(ReadQueue)) /\ \A c \in Conns : peer[c] = "gone") => <>[]~clock
=============================================================================
