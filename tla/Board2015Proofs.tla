--------------------------- MODULE Board2015Proofs ---------------------------
(***************************************************************************)
(* Proofs about the 2015 firmware, for any interval, any server, any       *)
(* clients and any wheel.                                                  *)
(***************************************************************************)
EXTENDS Board2015, EthernetServerProofs

\* While the drive is enabled its duty and the command behind it are known.
Driven == relay => cmd.RELAY = 1 /\ pwm \in 120 .. 227

\* The loop that collects a command runs in the READ state only.
Collecting == pc \in {"available", "read"} => state = "READ"

BoardIInv ==
  /\ TypeOK
  /\ Collecting
  /\ ServerIInv
  /\ Driven
  /\ StoppedAfterClose
-----------------------------------------------------------------------------
(* The board's steps as seen by the server.                                *)

\* A command and a potentiometer reading make a sequence of bytes.
LEMMA ReplyType ==
  ASSUME TypeOK
  PROVE  ReadQueue \o PotDigits \in Seq(Byte)
PROOF
<1>1. ReadQueue \in Seq(Byte)
  <2>1. ReadQueue \in [1 .. 6 -> Byte]
    BY DEF TypeOK, Command, numBitsPerCommand, Byte
  <2>2. [1 .. 6 -> Byte] \in {[1 .. n -> Byte] : n \in Nat}
    OBVIOUS
  <2> QED
    BY <2>1, <2>2, SeqDef
<1>2. pot \in 0 .. 1023
  BY BoardAssumption DEF TypeOK
<1>3. /\ 48 + ((pot \div 100) % 10) \in Byte
      /\ 48 + ((pot \div 10) % 10) \in Byte
      /\ 48 + (pot % 10) \in Byte
  BY <1>2 DEF Byte
<1>4. PotDigits \in Seq(Byte)
  BY <1>3 DEF PotDigits
<1> QED
  BY <1>1, <1>4

\* Whatever the board does is a step of the server, so the server keeps its
\* invariant under this application.
LEMMA BoardStepsServer ==
  ASSUME TypeOK, [Next]_vars
  PROVE  ServerStep
PROOF
<1>1. CASE protothread1 \/ protothread1Waits
  BY <1>1 DEF protothread1, protothread1Waits, ServerStep
<1>2. CASE centerWheel
  BY <1>2 DEF centerWheel, CentreLoop, ServerStep
<1>3. CASE protothread2 \/ ServerAvailable
  BY <1>3 DEF protothread2, ServerAvailable, Available, ServerStep
<1>4. CASE protothread2Waits \/ INITIALIZE
  BY <1>4 DEF protothread2Waits, INITIALIZE, ServerStep
<1>5. CASE READ \/ ByteAvailable
  BY <1>5 DEF READ, ByteAvailable, ServerStep
<1>6. CASE ReadLoop
  BY <1>6 DEF ReadLoop, ServerStep
<1>7. CASE PROCESSREAD
  BY <1>7 DEF PROCESSREAD, ServerStep
<1>8. CASE WRITE
  BY <1>8, ReplyType DEF WRITE, ServerStep
<1>9. CASE CLOSE
  BY <1>9 DEF CLOSE, ServerStep
<1>10. CASE Tick \/ WheelMoves
  BY <1>10 DEF Tick, WheelMoves, ServerStep
<1>11. CASE Surroundings
  BY <1>11 DEF Surroundings, ServerStep
<1>12. CASE UNCHANGED vars
  BY <1>12 DEF vars, ServerStep
<1> QED
  BY <1>1, <1>2, <1>3, <1>4, <1>5, <1>6, <1>7, <1>8, <1>9, <1>10, <1>11, <1>12
     DEF Next, Firmware
-----------------------------------------------------------------------------
(* Type correctness.                                                       *)

\* The board's own part of the type invariant.
BoardTypeOK ==
  /\ pc \in PC
  /\ age1 \in 0 .. Interval + 1 /\ age2 \in 0 .. Interval + 1
  /\ slack \in Nat
  /\ state \in State
  /\ rgbRead \in Command /\ ReadQueue \in Command
  /\ bitsReceived \in 0 .. numBitsPerCommand - 1
  /\ cmd \in [OE : Int, DIR : Int, RELAY : Int, PWM : Int]
  /\ relay \in BOOLEAN /\ pwm \in Int
  /\ dirPin \in {"LOW", "HIGH"} /\ clock \in BOOLEAN
  /\ pot \in Pots

LEMMA RunBUGType ==
  ASSUME TypeOK, protothread1
  PROVE  BoardTypeOK'
PROOF
<1> USE BoardAssumption DEF TypeOK, BoardTypeOK
<1>1. /\ cmd' = Decode(ReadQueue)
      /\ relay' = (Decode(ReadQueue).RELAY = 1)
      /\ pwm' = DriveDuty(Decode(ReadQueue))
      /\ age1' = 0 /\ slack' = BodyTicks
      /\ UNCHANGED <<age2, commVars, pot>>
  BY DEF protothread1, runBUG
<1>2. /\ cmd' \in [OE : Int, DIR : Int, RELAY : Int, PWM : Int]
      /\ relay' \in BOOLEAN /\ pwm' \in Int
  BY <1>1, DecodeType
<1>3. pc' \in PC /\ dirPin' \in {"LOW", "HIGH"} /\ clock' \in BOOLEAN
  <2>1. CASE dirPin' \in {"LOW", "HIGH"} /\ clock' = TRUE /\ pc' = "protothread1"
    BY <2>1 DEF PC
  <2>2. CASE Hold(Decode(ReadQueue))
    <3>1. dirPin' = dirPin
      BY <2>2 DEF Hold
    <3>2. \/ CentreWheel /\ clock' = clock
          \/ pc' = "protothread1" /\ clock' = FALSE
      BY <2>2 DEF Hold
    <3> QED
      BY <3>1, <3>2 DEF CentreWheel, PC
  <2> QED
    BY <2>1, <2>2 DEF protothread1, runBUG
<1> QED
  BY <1>1, <1>2, <1>3 DEF commVars

LEMMA ReadLoopType ==
  ASSUME TypeOK, ReadLoop
  PROVE  BoardTypeOK'
PROOF
<1> USE BoardAssumption DEF TypeOK, BoardTypeOK
<1>1. PICK b \in Byte : ReadByteOf(b)
  <2>1. CASE ReadByte /\ ReadByteOf(Head(rx[client]))
    <3>1. rx[client] \in Seq(Byte) /\ rx[client] # <<>>
      BY <2>1 DEF ReadByte, HasData, ServerTypeOK, StackTypeOK
    <3>2. Head(rx[client]) \in Byte
      BY <3>1, HeadTailProperties
    <3> QED
      BY <2>1, <3>2
  <2>2. CASE ReadByteOf(255)
    BY <2>2 DEF Byte
  <2> QED
    BY <2>1, <2>2 DEF ReadLoop
<1>2. bitsReceived + 1 \in 1 .. numBitsPerCommand
  BY DEF numBitsPerCommand
<1>3. rgbRead' = [rgbRead EXCEPT ![bitsReceived + 1] = b]
  BY <1>1 DEF ReadByteOf
<1>4. rgbRead' \in Command
  BY <1>2, <1>3 DEF Command, Byte
<1>5. /\ bitsReceived' \in 0 .. numBitsPerCommand - 1
      /\ state' \in State /\ pc' \in PC /\ slack' = slack
  BY <1>1, <1>2 DEF ReadByteOf, Done, State, PC, numBitsPerCommand
<1> QED
  BY <1>1, <1>4, <1>5 DEF ReadByteOf, motorVars

\* One turn of either of centerWheel's loops: the wheel is reached and the
\* clock stopped, or the stepper is clocked on.
LEMMA LoopMoves ==
  ASSUME centerWheel
  PROVE  \/ clock' = FALSE /\ pc' = "protothread1" /\ slack' = BodyTicks /\ dirPin' = dirPin
         \/ clock' = TRUE /\ pc' = pc /\ slack' = slack /\ dirPin' \in {"LOW", "HIGH"}
PROOF
<1>1. CASE CentreLoop("centreRight", pot >= CentreHigh, "LOW")
  <2>1. CASE pot >= CentreHigh
    BY <1>1, <2>1 DEF CentreLoop
  <2>2. CASE ~(pot >= CentreHigh)
    BY <1>1, <2>2 DEF CentreLoop
  <2> QED
    BY <2>1, <2>2
<1>2. CASE CentreLoop("centreLeft", pot =< CentreLow, "HIGH")
  <2>1. CASE pot =< CentreLow
    BY <1>2, <2>1 DEF CentreLoop
  <2>2. CASE ~(pot =< CentreLow)
    BY <1>2, <2>2 DEF CentreLoop
  <2> QED
    BY <2>1, <2>2
<1> QED
  BY <1>1, <1>2 DEF centerWheel

LEMMA BoardTypeStep ==
  ASSUME TypeOK, [Next]_vars
  PROVE  BoardTypeOK'
PROOF
<1> USE BoardAssumption DEF TypeOK, BoardTypeOK, PC, State
<1>1. CASE protothread1
  BY <1>1, RunBUGType
<1>2. CASE protothread1Waits \/ protothread2Waits
  BY <1>2 DEF protothread1Waits, protothread2Waits, commVars, motorVars
<1>3. CASE protothread2 \/ ServerAvailable
  BY <1>3 DEF protothread2, ServerAvailable, commVars, motorVars
<1>4. CASE INITIALIZE \/ ByteAvailable
  BY <1>4 DEF INITIALIZE, ByteAvailable, Done, commVars, motorVars
<1>5. CASE READ
  <2>1. rgbRead \in Command /\ [rgbRead EXCEPT ![3] = 0] \in Command
    <3>1. rgbRead \in [1 .. 6 -> 0 .. 255]
      BY DEF Command, numBitsPerCommand
    <3> QED
      BY <3>1 DEF Command, numBitsPerCommand
  <2>2. rgbRead' = rgbRead \/ rgbRead' = [rgbRead EXCEPT ![3] = 0]
    BY <1>5 DEF READ
  <2>3. rgbRead' \in Command
    BY <2>1, <2>2
  <2> QED
    BY <1>5, <2>3 DEF READ, Done, motorVars
<1>6. CASE ReadLoop
  BY <1>6, ReadLoopType
<1>7. CASE PROCESSREAD
  BY <1>7, ZerosIdle DEF PROCESSREAD, Done, motorVars
<1>8. CASE WRITE
  BY <1>8 DEF WRITE, motorVars
<1>9. CASE CLOSE
  BY <1>9 DEF CLOSE, Done
<1>10. CASE Tick
  BY <1>10 DEF Tick, Clock, commVars, motorVars
<1>11. CASE WheelMoves
  BY <1>11 DEF WheelMoves, threadVars, commVars, motorVars
<1>12. CASE Surroundings \/ UNCHANGED vars
  BY <1>12 DEF Surroundings, vars, boardVars, threadVars, commVars, motorVars
<1>13. CASE centerWheel
  <2>1. \/ clock' = FALSE /\ pc' = "protothread1" /\ slack' = BodyTicks /\ dirPin' = dirPin
        \/ clock' = TRUE /\ pc' = pc /\ slack' = slack /\ dirPin' \in {"LOW", "HIGH"}
    BY <1>13, LoopMoves
  <2>2. UNCHANGED <<age1, age2, commVars, cmd, relay, pwm, pot>>
    BY <1>13 DEF centerWheel, CentreLoop
  <2>3. dirPin' \in {"LOW", "HIGH"} /\ clock' \in BOOLEAN
    BY <2>1, Zenon
  <2>4. pc' \in PC /\ slack' \in Nat
    BY <2>1
  <2> QED
    BY <2>2, <2>3, <2>4 DEF commVars
<1> QED
  BY <1>1, <1>2, <1>3, <1>4, <1>5, <1>6, <1>7, <1>8, <1>9, <1>10, <1>11, <1>12, <1>13
     DEF Next, Firmware
-----------------------------------------------------------------------------
(* The drive's envelope and standing still after a '9'.                    *)

LEMMA DrivenStep ==
  ASSUME TypeOK, Driven, [Next]_vars
  PROVE  Driven'
PROOF
<1>1. CASE protothread1
  <2>1. /\ cmd' = Decode(ReadQueue)
        /\ relay' = (Decode(ReadQueue).RELAY = 1)
        /\ pwm' = DriveDuty(Decode(ReadQueue))
    BY <1>1 DEF protothread1, runBUG
  <2> QED
    BY <2>1, DecodeType DEF Driven, TypeOK
<1>2. CASE CLOSE
  BY <1>2 DEF CLOSE, Driven
<1>3. CASE UNCHANGED <<cmd, relay, pwm>>
  BY <1>3 DEF Driven
<1> QED
  BY <1>1, <1>2, <1>3
     DEF Next, Firmware, protothread1Waits, centerWheel, CentreLoop, protothread2,
         ServerAvailable, protothread2Waits, INITIALIZE, READ, ByteAvailable, ReadLoop, ReadByteOf,
         PROCESSREAD, WRITE, Tick, WheelMoves, Surroundings, vars, boardVars, motorVars

LEMMA CollectingStep ==
  ASSUME TypeOK, Collecting, [Next]_vars
  PROVE  Collecting'
PROOF
<1> USE DEF Collecting
<1>1. CASE protothread1 \/ protothread1Waits
  BY <1>1 DEF protothread1, protothread1Waits, runBUG, Hold, CentreWheel
<1>2. CASE centerWheel
  <2>1. pc \in {"centreRight", "centreLeft"} /\ pc' \in {pc, "protothread1"}
    BY <1>2, LoopMoves DEF centerWheel, CentreLoop
  <2> QED
    BY <2>1
<1>3. CASE protothread2 \/ ServerAvailable \/ protothread2Waits
  BY <1>3 DEF protothread2, ServerAvailable, protothread2Waits
<1>4. CASE INITIALIZE \/ PROCESSREAD \/ WRITE \/ CLOSE
  BY <1>4 DEF INITIALIZE, PROCESSREAD, WRITE, CLOSE, Done
<1>5. CASE READ \/ ByteAvailable
  BY <1>5 DEF READ, ByteAvailable, Done, commVars
<1>6. CASE ReadLoop
  BY <1>6 DEF ReadLoop, ReadByteOf, Done
<1>7. CASE Tick \/ WheelMoves \/ Surroundings \/ UNCHANGED vars
  BY <1>7 DEF Tick, WheelMoves, Surroundings, vars, boardVars, threadVars, commVars
<1> QED
  BY <1>1, <1>2, <1>3, <1>4, <1>5, <1>6, <1>7 DEF Next, Firmware

\* The zeroed queue keeps the motors off whenever protothread1 runs it.
LEMMA RunZeros ==
  ASSUME protothread1, ReadQueue = Zeros
  PROVE  ~relay' /\ ~clock' /\ ReadQueue' = Zeros /\ state' = state
PROOF
<1>1. ~TurnsLeft(Decode(Zeros)) /\ ~TurnsRight(Decode(Zeros)) /\ ~Centres(Decode(Zeros))
  BY ZerosIdle DEF TurnsLeft, TurnsRight, Centres
<1>2. Hold(Decode(Zeros)) /\ relay' = (Decode(Zeros).RELAY = 1)
  BY <1>1 DEF protothread1, runBUG
<1>3. ~relay'
  <2>1. Decode(Zeros).RELAY # 1
    BY ZerosIdle
  <2> QED
    BY <1>2, <2>1, Zenon
<1>4. clock' = FALSE
  BY <1>1, <1>2 DEF Hold
<1>5. ReadQueue' = Zeros /\ state' = state
  BY DEF protothread1, commVars
<1> QED
  BY <1>3, <1>4, <1>5

LEMMA StoppedStep ==
  ASSUME TypeOK, Collecting, StoppedAfterClose, [Next]_vars
  PROVE  StoppedAfterClose'
PROOF
<1> USE DEF StoppedAfterClose
<1>1. CASE protothread1
  <2>1. ReadQueue' = ReadQueue
    BY <1>1 DEF protothread1, commVars
  <2> QED
    BY <1>1, <2>1, RunZeros
<1>2. CASE centerWheel
  <2>2. UNCHANGED <<commVars, relay>>
    BY <1>2 DEF centerWheel, CentreLoop
  <2>3. clock' => pc' \in {"centreRight", "centreLeft"}
    BY <1>2, LoopMoves DEF centerWheel, CentreLoop
  <2> QED
    BY <2>2, <2>3 DEF commVars
<1>3. CASE PROCESSREAD
  <2>1. ReadQueue' = Zeros => state' = "CLOSE" \/ UNCHANGED <<ReadQueue, state>>
    BY <1>3 DEF PROCESSREAD, Zeros, numBitsPerCommand
  <2>2. pc = "switch" /\ UNCHANGED motorVars
    BY <1>3 DEF PROCESSREAD
  <2>3. relay' = relay /\ clock' = clock
    BY <2>2 DEF motorVars
  <2>4. CASE state' = "CLOSE"
    BY <2>4
  <2>5. CASE UNCHANGED <<ReadQueue, state>>
    BY <2>2, <2>3, <2>5
  <2> QED
    BY <2>1, <2>4, <2>5
<1>4. CASE CLOSE
  BY <1>4 DEF CLOSE
<1>5. CASE protothread1Waits \/ protothread2Waits
  BY <1>5 DEF protothread1Waits, protothread2Waits, commVars, motorVars
<1>6. CASE protothread2 \/ ServerAvailable \/ INITIALIZE \/ READ
  BY <1>6 DEF protothread2, ServerAvailable, INITIALIZE, READ, Done, commVars, motorVars
<1>7. CASE ByteAvailable \/ ReadLoop
  <2>1. UNCHANGED <<ReadQueue, relay, clock>> /\ pc \in {"available", "read"}
    BY <1>7 DEF ByteAvailable, ReadLoop, ReadByteOf, commVars, motorVars
  <2>2. state # "CLOSE"
    BY <2>1 DEF Collecting
  <2> QED
    BY <2>1, <2>2
<1>8. CASE WRITE
  <2>1. state = "WRITE" /\ pc = "switch" /\ UNCHANGED <<ReadQueue, relay, clock>>
    BY <1>8 DEF WRITE, motorVars
  <2>2. ReadQueue = Zeros => ~relay /\ ~clock
    BY <2>1
  <2> QED
    BY <2>1, <2>2
<1>9. CASE Tick \/ WheelMoves
  BY <1>9 DEF Tick, WheelMoves, threadVars, commVars, motorVars
<1>10. CASE Surroundings \/ UNCHANGED vars
  BY <1>10 DEF Surroundings, vars, boardVars, threadVars, commVars, motorVars
<1> QED
  BY <1>1, <1>2, <1>3, <1>4, <1>5, <1>6, <1>7, <1>8, <1>9, <1>10 DEF Next, Firmware

LEMMA BoardInit ==
  Init => BoardIInv
PROOF
<1> SUFFICES ASSUME Init PROVE BoardIInv
  OBVIOUS
<1> USE BoardAssumption DEF Init
<1>1. ServerIInv
  BY ServerInitInv
<1>2. BoardTypeOK
  <2>1. pc \in PC /\ state \in State /\ pot \in Pots
    BY DEF PC, State
  <2>2. age1 \in 0 .. Interval + 1 /\ age2 \in 0 .. Interval + 1 /\ slack \in Nat
    OBVIOUS
  <2>3. rgbRead \in Command /\ ReadQueue \in Command /\ bitsReceived \in 0 .. numBitsPerCommand - 1
    BY ZerosIdle DEF numBitsPerCommand
  <2>4. cmd \in [OE : Int, DIR : Int, RELAY : Int, PWM : Int] /\ pwm \in Int
    OBVIOUS
  <2>5. relay \in BOOLEAN /\ dirPin \in {"LOW", "HIGH"} /\ clock \in BOOLEAN
    OBVIOUS
  <2> QED
    BY <2>1, <2>2, <2>3, <2>4, <2>5 DEF BoardTypeOK
<1>3. TypeOK
  BY <1>1, <1>2 DEF TypeOK, BoardTypeOK, ServerIInv
<1> QED
  BY <1>1, <1>3 DEF BoardIInv, Collecting, Driven, StoppedAfterClose

LEMMA BoardInductive ==
  Spec => []BoardIInv
PROOF
<1>1. BoardIInv /\ [Next]_vars => BoardIInv'
  <2> SUFFICES ASSUME BoardIInv, [Next]_vars PROVE BoardIInv'
    OBVIOUS
  <2>1. ServerIInv'
    BY BoardStepsServer, ServerStepInv DEF BoardIInv
  <2>2. BoardTypeOK' /\ Collecting' /\ Driven' /\ StoppedAfterClose'
    BY BoardTypeStep, CollectingStep, DrivenStep, StoppedStep DEF BoardIInv
  <2>3. TypeOK'
    BY <2>1, <2>2 DEF TypeOK, BoardTypeOK, ServerIInv
  <2> QED
    BY <2>1, <2>2, <2>3 DEF BoardIInv
<1> QED
  BY <1>1, BoardInit, PTL DEF Spec

\* Type correctness of the firmware, its server and its surroundings.
THEOREM TypeCorrect == Spec => []TypeOK
PROOF
  BY BoardInductive, PTL DEF BoardIInv

\* However bytes arrive, the drive is enabled only with a duty in range.
THEOREM DriveStaysInEnvelope == Spec => []DriveEnvelope
PROOF
<1>1. BoardIInv => DriveEnvelope
  BY DEF BoardIInv, Driven, DriveEnvelope
<1> QED
  BY <1>1, BoardInductive, PTL

\* Once a '9' has been carried out the motors stay off until the next
\* command is queued.
THEOREM StaysStopped == Spec => []StoppedAfterClose
PROOF
  BY BoardInductive, PTL DEF BoardIInv

\* The firmware loses no socket of its server, whatever it is doing when
\* clients come and go.
THEOREM BoardLeaksNoSocket ==
  Spec => [](NoSocketLeak /\ FreeIsClean /\ OneSocketPerClient)
PROOF
  BY BoardInductive, PTL DEF BoardIInv, ServerIInv
-----------------------------------------------------------------------------
(* The pace of the two threads.                                            *)

\* A write leaves its thread time to yield before it is due again.
PromptWrites == BodyTicks + WriteTicks =< Interval

\* The states in which a command may be queued and not yet run.
Queued == state \in {"WRITE", "CLOSE", "INITIALIZE"}

\* Where a fresh command can be.  While protothread2 is in the states that
\* follow PROCESSREAD, protothread1 is at least as old; so once the thread
\* is due again and a body begins, protothread1 is due too, and when the
\* thread is back in READ it yields before it is due, to a protothread1
\* that runs the command.
FreshPlace ==
  \/ Queued /\ (IF pc \in {"service", "switch"} THEN age1 > Interval ELSE age1 >= age2)
  \/ /\ state = "READ" /\ age1 > Interval
     /\ pc = "protothread1" \/ (pc = "protothread2" /\ age2 + slack =< Interval)

Pace ==
  /\ pc \in {"service", "switch"} => age1 >= age2 /\ age2 + slack =< BodyTicks
  /\ Fresh => FreshPlace

\* Time passing.
LEMMA PaceTick ==
  ASSUME TypeOK, Pace, Tick
  PROVE  Pace'
PROOF
<1> USE BoardAssumption
<1>1. /\ age1 \in 0 .. Interval + 1 /\ age2 \in 0 .. Interval + 1 /\ slack \in Nat
      /\ Interval \in Nat /\ BodyTicks \in Nat /\ BodyTicks =< Interval
  BY DEF TypeOK
<1>2. /\ age1' = IF age1 > Interval THEN age1 ELSE age1 + 1
      /\ age2' = IF age2 > Interval THEN age2 ELSE age2 + 1
      /\ pc' = pc /\ state' = state /\ ReadQueue' = ReadQueue /\ cmd' = cmd
  BY DEF Tick, Clock, commVars
<1>3. pc \in {"service", "switch", "protothread1", "protothread2"} => slack' = slack - 1
  BY DEF Tick, Waiting
<1>4. Fresh' <=> Fresh
  BY <1>2 DEF Fresh
<1>5. pc' \in {"service", "switch"} => age1' >= age2' /\ age2' + slack' =< BodyTicks
  BY <1>1, <1>2, <1>3 DEF Pace
<1>6. FreshPlace => FreshPlace'
  BY <1>1, <1>2, <1>3 DEF FreshPlace, Queued
<1> QED
  BY <1>4, <1>5, <1>6 DEF Pace

\* protothread1 runs the queued command, which is then no longer fresh.
LEMMA PaceRun ==
  ASSUME TypeOK, protothread1
  PROVE  Pace'
PROOF
<1>1. cmd' = Decode(ReadQueue) /\ ReadQueue' = ReadQueue
  BY DEF protothread1, runBUG, commVars
<1>2. ~Fresh'
  BY <1>1 DEF Fresh
<1>3. pc' \notin {"service", "switch"}
  BY DEF protothread1, runBUG, Hold, CentreWheel
<1> QED
  BY <1>2, <1>3 DEF Pace

\* protothread2's turn begins: if a command is fresh, protothread1 is due.
LEMMA PaceBegin ==
  ASSUME TypeOK, Pace, protothread2
  PROVE  Pace'
PROOF
<1> USE BoardAssumption
<1>1. /\ age1 \in 0 .. Interval + 1 /\ age2 \in 0 .. Interval + 1
      /\ Interval \in Nat /\ BodyTicks \in Nat
  BY DEF TypeOK
<1>2. /\ pc = "protothread2" /\ age2 > Interval /\ age2' = 0 /\ slack' = BodyTicks
      /\ pc' = "service" /\ age1' = age1 /\ state' = state
      /\ ReadQueue' = ReadQueue /\ cmd' = cmd
  BY DEF protothread2, commVars
<1>3. Fresh' <=> Fresh
  BY <1>2 DEF Fresh
<1>4. slack \in Nat
  BY DEF TypeOK
<1>5. FreshPlace => FreshPlace'
  BY <1>1, <1>2, <1>4 DEF FreshPlace, Queued
<1>6. age1' >= age2' /\ age2' + slack' =< BodyTicks
  BY <1>1, <1>2
<1> QED
  BY <1>3, <1>5, <1>6 DEF Pace

\* The bodies of protothread2.
LEMMA PaceBody ==
  ASSUME PromptWrites, TypeOK, Pace,
         INITIALIZE \/ READ \/ PROCESSREAD \/ WRITE \/ CLOSE
  PROVE  Pace'
PROOF
<1> USE BoardAssumption
<1>1. /\ age1 \in 0 .. Interval + 1 /\ age2 \in 0 .. Interval + 1 /\ slack \in Nat
      /\ Interval \in Nat /\ BodyTicks \in Nat /\ WriteTicks \in Nat /\ BodyTicks =< Interval
  BY DEF TypeOK
<1>2. /\ pc = "switch" /\ pc' \in {"protothread2", "available"}
      /\ age1' = age1 /\ age2' = age2 /\ cmd' = cmd
  BY DEF INITIALIZE, READ, PROCESSREAD, WRITE, CLOSE, Done
<1>3. age1 >= age2 /\ age2 + slack =< BodyTicks
  BY <1>2 DEF Pace
<1>4. CASE INITIALIZE
  <2>1. state' = "READ" /\ pc' = "protothread2" /\ slack' = slack /\ ReadQueue' = ReadQueue
    BY <1>4 DEF INITIALIZE, Done
  <2>2. Fresh' => age1 > Interval
    BY <1>2, <1>4, <2>1 DEF Pace, Fresh, FreshPlace, Queued, INITIALIZE
  <2>3. age2' + slack' =< Interval
    BY <1>1, <1>2, <1>3, <2>1
  <2> QED
    BY <1>2, <2>1, <2>2, <2>3 DEF Pace, FreshPlace
<1>5. CASE READ
  <2>1. ~Fresh
    BY <1>2, <1>5 DEF READ, Pace, FreshPlace, Queued
  <2>2. ReadQueue' = ReadQueue
    BY <1>5 DEF READ
  <2> QED
    BY <1>2, <2>1, <2>2 DEF Pace, Fresh
<1>6. CASE PROCESSREAD
  <2>1. ~Fresh
    BY <1>2, <1>6 DEF PROCESSREAD, Pace, FreshPlace, Queued
  <2>2. pc' = "protothread2" /\ (ReadQueue' = ReadQueue \/ state' \in {"WRITE", "CLOSE"})
    BY <1>6 DEF PROCESSREAD, Done
  <2>3. Fresh' => state' \in {"WRITE", "CLOSE"}
    BY <1>2, <2>1, <2>2 DEF Fresh
  <2>4. age1' >= age2'
    BY <1>2, <1>3
  <2> QED
    BY <2>2, <2>3, <2>4 DEF Pace, FreshPlace, Queued
<1>7. CASE WRITE
  <2>1. /\ state' = "READ" /\ pc' = "protothread2" /\ slack' = slack + WriteTicks
        /\ ReadQueue' = ReadQueue
    BY <1>7 DEF WRITE
  <2>2. Fresh' => age1 > Interval
    BY <1>2, <1>7, <2>1 DEF Pace, Fresh, FreshPlace, Queued, WRITE
  <2>3. age2' + slack' =< Interval
    BY <1>1, <1>2, <1>3, <2>1 DEF PromptWrites
  <2> QED
    BY <1>2, <2>1, <2>2, <2>3 DEF Pace, FreshPlace
<1>8. CASE CLOSE
  <2>1. state' = "INITIALIZE" /\ pc' = "protothread2"
    BY <1>8 DEF CLOSE, Done
  <2>2. age1' >= age2'
    BY <1>2, <1>3
  <2> QED
    BY <2>1, <2>2 DEF Pace, FreshPlace, Queued
<1> QED
  BY <1>4, <1>5, <1>6, <1>7, <1>8

\* The steps that begin or end no body of protothread2.
LEMMA PaceElsewhere ==
  ASSUME TypeOK, Collecting, Pace,
         \/ protothread1Waits \/ protothread2Waits \/ centerWheel
         \/ ServerAvailable \/ ByteAvailable \/ ReadLoop
         \/ UNCHANGED <<pc, age1, age2, slack, state, ReadQueue, cmd>>
  PROVE  Pace'
PROOF
<1> USE BoardAssumption
<1>1. /\ age1 \in 0 .. Interval + 1 /\ age2 \in 0 .. Interval + 1 /\ slack \in Nat
      /\ Interval \in Nat
  BY DEF TypeOK
<1>2. CASE protothread1Waits
  <2>1. /\ pc = "protothread1" /\ pc' = "protothread2" /\ age1 =< Interval
        /\ UNCHANGED <<age1, age2, state, ReadQueue, cmd>>
    BY <1>2 DEF protothread1Waits, commVars
  <2> QED
    BY <1>1, <2>1 DEF Pace, Fresh, FreshPlace, Queued
<1>3. CASE protothread2Waits
  <2>1. /\ pc = "protothread2" /\ pc' = "protothread1"
        /\ UNCHANGED <<age1, age2, state, ReadQueue, cmd>>
    BY <1>3 DEF protothread2Waits, commVars
  <2> QED
    BY <1>1, <2>1 DEF Pace, Fresh, FreshPlace, Queued
<1>4. CASE centerWheel
  <2>1. /\ pc \in {"centreRight", "centreLeft"} /\ pc' \in {pc, "protothread1"}
        /\ UNCHANGED <<age1, age2, state, ReadQueue, cmd>>
    BY <1>4, LoopMoves DEF centerWheel, CentreLoop, commVars
  <2> QED
    BY <1>1, <2>1 DEF Pace, Fresh, FreshPlace, Queued
<1>5. CASE ByteAvailable \/ ReadLoop
  <2>1. /\ pc \in {"available", "read"} /\ pc' \notin {"service", "switch"}
        /\ UNCHANGED <<ReadQueue, cmd>>
    BY <1>5 DEF ByteAvailable, ReadLoop, ReadByteOf, Done, commVars
  <2>2. ~Fresh
    BY <2>1 DEF Collecting, Pace, FreshPlace, Queued
  <2> QED
    BY <2>1, <2>2 DEF Pace, Fresh
<1>6. CASE UNCHANGED <<pc, age1, age2, slack, state, ReadQueue, cmd>>
  BY <1>6 DEF Pace, Fresh, FreshPlace, Queued
<1>7. CASE ServerAvailable
  <2>1. /\ pc = "service" /\ pc' \in {"service", "switch"}
        /\ UNCHANGED <<age1, age2, slack, state, ReadQueue, cmd>>
    BY <1>7 DEF ServerAvailable, commVars
  <2> QED
    BY <1>1, <2>1 DEF Pace, Fresh, FreshPlace, Queued
<1> QED
  BY <1>2, <1>3, <1>4, <1>5, <1>6, <1>7

LEMMA PaceStep ==
  ASSUME PromptWrites, TypeOK, Collecting, Pace, [Next]_vars
  PROVE  Pace'
PROOF
<1>1. CASE Firmware
  BY <1>1, PaceRun, PaceBegin, PaceBody, PaceElsewhere DEF Firmware
<1>2. CASE Tick
  BY <1>2, PaceTick
<1>3. CASE WheelMoves \/ Surroundings \/ UNCHANGED vars
  <2>1. UNCHANGED <<pc, age1, age2, slack, state, ReadQueue, cmd>>
    BY <1>3 DEF WheelMoves, Surroundings, vars, boardVars, threadVars, commVars
  <2> QED
    BY <2>1, PaceElsewhere
<1> QED
  BY <1>1, <1>2, <1>3 DEF Next

LEMMA PaceInductive ==
  ASSUME PromptWrites
  PROVE  Spec => [](BoardIInv /\ Pace)
PROOF
<1>1. Init => Pace
  BY BoardAssumption DEF Init, Pace, FreshPlace, Queued
<1>2. BoardIInv /\ Pace /\ [Next]_vars => Pace'
  BY PaceStep DEF BoardIInv
<1> QED
  BY <1>1, <1>2, BoardInductive, PTL DEF Spec

\* If a write never takes so long that protothread2 is due again when it
\* ends, no command is overwritten before protothread1 has run it.
THEOREM NoCommandIsSkipped ==
  ASSUME PromptWrites
  PROVE  Spec => NoCommandSkipped
PROOF
<1>1. BoardIInv /\ Pace /\ [Next]_vars => [ReadQueue' # ReadQueue => ~Fresh]_vars
  <2> SUFFICES ASSUME BoardIInv, Pace, [Next]_vars, ReadQueue' # ReadQueue
               PROVE  ~Fresh
    OBVIOUS
  <2>1. PROCESSREAD
    BY DEF Next, Firmware, protothread1, protothread1Waits, centerWheel, CentreLoop,
           protothread2, ServerAvailable, protothread2Waits, INITIALIZE, READ, ByteAvailable,
           ReadLoop, ReadByteOf, WRITE, CLOSE, Tick, WheelMoves, Surroundings, vars, boardVars, commVars
  <2> QED
    BY <2>1 DEF PROCESSREAD, Pace, FreshPlace, Queued
<1> QED
  BY <1>1, PaceInductive, PTL DEF Spec, NoCommandSkipped

\* Under the same assumption the drive never runs on a superseded command
\* while the board waits for bytes.
THEOREM StopsTakeEffect ==
  ASSUME PromptWrites
  PROVE  Spec => []StopTakesEffect
PROOF
<1>1. BoardIInv /\ Pace => StopTakesEffect
  BY DEF BoardIInv, Collecting, Driven, Pace, Fresh, FreshPlace, Queued, StopTakesEffect
<1> QED
  BY <1>1, PaceInductive, PTL

-----------------------------------------------------------------------------
(* Commands are received whole.                                            *)

\* Clients that send whole commands only, and stay.
WholeSenders == Said \subseteq Command /\ Faults = {}

\* Sequences of bytes that are words, one after the other.
Streams ==
  {q \in Seq(Byte) :
     \E m \in 0 .. Len(q) :
       /\ Len(q) = 6 * m
       /\ \A k \in 0 .. m - 1 : [i \in 1 .. 6 |-> q[6 * k + i]] \in Said}

\* What is on its way through a socket: received, and still to be sent.
Stream(s) == rx[s] \o sending[conn[s]]

\* What the loop has taken from a socket of the command it collects.
Gathered(s) ==
  IF s = client /\ pc \in {"available", "read"} THEN SubSeq(rgbRead, 1, bitsReceived) ELSE <<>>

\* A socket that holds unread bytes is connected.
Staying ==
  /\ \A s \in Sockets :
       /\ sm[s] # "close_wait"
       /\ rx[s] # <<>> => sm[s] = "established"
       /\ sm[s] = "established" => conn[s] \in Conns
  /\ \A c \in Conns : peer[c] \in {"idle", "waiting"} => sending[c] = <<>>

\* The client chosen by available() stays connected until it has been read.
Served ==
  /\ pc \in {"switch", "available", "read"} /\ client # NoSocket => sm[client] = "established"
  /\ pc \in {"available", "read"} => client # NoSocket
  /\ pc \in {"switch", "read"} /\ client # NoSocket => rx[client] # <<>>
  /\ pc \notin {"available", "read"} => bitsReceived = 0

\* The loop always ends on the last byte of a word.
Aligned ==
  \A s \in Sockets : sm[s] = "established" => Gathered(s) \o Stream(s) \in Streams

Kept ==
  /\ state = "PROCESSREAD" => rgbRead \in Said
  /\ ReadQueue \in {Zeros} \cup Said

WholeInv == Staying /\ Served /\ Aligned /\ Kept

\* A word sent behind words that are whole.
LEMMA StreamGrows ==
  ASSUME WholeSenders, NEW q \in Streams, NEW w \in Said
  PROVE  w \in Seq(Byte) /\ q \o w \in Streams
PROOF
<1>1. w \in [1 .. 6 -> Byte]
  BY DEF WholeSenders, Command, numBitsPerCommand, Byte
<1>2. w \in Seq(Byte) /\ Len(w) = 6
  <2>1. w \in Seq(Byte)
    BY ServerAssumption DEF Said
  <2> QED
    BY <1>1, <2>1, LenProperties
<1>3. PICK m \in 0 .. Len(q) :
        /\ q \in Seq(Byte) /\ Len(q) = 6 * m
        /\ \A k \in 0 .. m - 1 : [i \in 1 .. 6 |-> q[6 * k + i]] \in Said
  BY DEF Streams
<1>4. Len(q) \in Nat /\ m \in Nat
  BY <1>3, LenProperties
<1>5. /\ q \o w \in Seq(Byte) /\ Len(q \o w) = 6 * (m + 1)
      /\ \A j \in 1 .. 6 * m + 6 : (q \o w)[j] = IF j =< 6 * m THEN q[j] ELSE w[j - 6 * m]
  <2>1. /\ q \o w \in Seq(Byte) /\ Len(q \o w) = Len(q) + Len(w)
        /\ \A j \in 1 .. Len(q) + Len(w) :
              (q \o w)[j] = IF j <= Len(q) THEN q[j] ELSE w[j - Len(q)]
    BY <1>2, <1>3, ConcatProperties
  <2> QED
    BY <1>2, <1>3, <1>4, <2>1
<1>6. ASSUME NEW k \in 0 .. m
      PROVE  [i \in 1 .. 6 |-> (q \o w)[6 * k + i]] \in Said
  <2>1. CASE k < m
    <3>1. ASSUME NEW i \in 1 .. 6 PROVE (q \o w)[6 * k + i] = q[6 * k + i]
      <4>1. 6 * k + i \in 1 .. 6 * m + 6 /\ 6 * k + i =< 6 * m
        BY <1>4, <2>1
      <4> QED
        BY <1>5, <4>1
    <3>2. [i \in 1 .. 6 |-> (q \o w)[6 * k + i]] = [i \in 1 .. 6 |-> q[6 * k + i]]
      BY <3>1
    <3> QED
      BY <1>3, <1>4, <2>1, <3>2
  <2>2. CASE k = m
    <3>1. ASSUME NEW i \in 1 .. 6 PROVE (q \o w)[6 * k + i] = w[i]
      <4>1. /\ 6 * k + i \in 1 .. 6 * m + 6 /\ ~(6 * k + i =< 6 * m)
            /\ (6 * k + i) - 6 * m = i
        BY <1>4, <2>2
      <4>2. (q \o w)[6 * k + i] = w[(6 * k + i) - 6 * m]
        BY <1>5, <4>1
      <4> QED
        BY <4>1, <4>2, Zenon
    <3>2. [i \in 1 .. 6 |-> (q \o w)[6 * k + i]] = w
      BY <1>1, <3>1
    <3> QED
      BY <3>2
  <2>3. k < m \/ k = m
    BY <1>4
  <2> QED
    BY <2>1, <2>2, <2>3, Zenon
<1>7. m + 1 \in 0 .. Len(q \o w) /\ (m + 1) - 1 = m
  BY <1>4, <1>5
<1> QED
  BY <1>2, <1>5, <1>6, <1>7 DEF Streams

\* Words that are whole begin with one.
LEMMA StreamBegins ==
  ASSUME NEW p \in Seq(Byte), NEW q \in Seq(Byte), Len(p) = 6, p \o q \in Streams
  PROVE  [i \in 1 .. 6 |-> p[i]] \in Said /\ q \in Streams
PROOF
<1>1. PICK m \in 0 .. Len(p \o q) :
        /\ Len(p \o q) = 6 * m
        /\ \A k \in 0 .. m - 1 : [i \in 1 .. 6 |-> (p \o q)[6 * k + i]] \in Said
  BY DEF Streams
<1>2. /\ Len(q) \in Nat /\ Len(p \o q) = 6 + Len(q)
      /\ \A j \in 1 .. 6 + Len(q) : (p \o q)[j] = IF j =< 6 THEN p[j] ELSE q[j - 6]
  <2>1. /\ Len(q) \in Nat /\ Len(p \o q) = Len(p) + Len(q)
        /\ \A j \in 1 .. Len(p) + Len(q) :
              (p \o q)[j] = IF j <= Len(p) THEN p[j] ELSE q[j - Len(p)]
    BY LenProperties, ConcatProperties
  <2> QED
    BY <2>1
<1>3. m \in Nat /\ m >= 1 /\ Len(q) = 6 * (m - 1)
  BY <1>1, <1>2
<1>4. [i \in 1 .. 6 |-> p[i]] \in Said
  <2>1. \A i \in 1 .. 6 : (p \o q)[6 * 0 + i] = p[i]
    BY <1>2
  <2>2. [i \in 1 .. 6 |-> (p \o q)[6 * 0 + i]] = [i \in 1 .. 6 |-> p[i]]
    BY <2>1
  <2> QED
    BY <1>1, <1>3, <2>2
<1>5. ASSUME NEW k \in 0 .. m - 2
      PROVE  [i \in 1 .. 6 |-> q[6 * k + i]] \in Said
  <2>1. ASSUME NEW i \in 1 .. 6 PROVE (p \o q)[6 * (k + 1) + i] = q[6 * k + i]
    <3>1. /\ 6 * (k + 1) + i \in 1 .. 6 + Len(q) /\ ~(6 * (k + 1) + i =< 6)
          /\ 6 * (k + 1) + i - 6 = 6 * k + i
      BY <1>2, <1>3
    <3> QED
      BY <1>2, <3>1
  <2>2. [i \in 1 .. 6 |-> (p \o q)[6 * (k + 1) + i]] = [i \in 1 .. 6 |-> q[6 * k + i]]
    BY <2>1
  <2>3. k + 1 \in 0 .. m - 1
    BY <1>3
  <2> QED
    BY <1>1, <2>2, <2>3
<1>6. m - 1 \in 0 .. Len(q) /\ (m - 1) - 1 = m - 2
  BY <1>3
<1> QED
  BY <1>3, <1>4, <1>5, <1>6 DEF Streams

\* No bytes are words, none of them.
LEMMA NothingStreams ==
  << >> \in Streams
PROOF
<1>1. << >> \in Seq(Byte) /\ Len(<< >>) = 0
  BY EmptySeq
<1> QED
  BY <1>1 DEF Streams

\* Bytes that arrive, or are read, only move.
LEMMA BytesArrive ==
  ASSUME NEW r \in Seq(Byte), NEW w \in Seq(Byte), NEW n \in Nat \ {0}, n =< Len(w)
  PROVE  (r \o SubSeq(w, 1, n)) \o SubSeq(w, n + 1, Len(w)) = r \o w
PROOF
<1> DEFINE first == SubSeq(w, 1, n)
           rest == SubSeq(w, n + 1, Len(w))
<1>1. first \in Seq(Byte) /\ rest \in Seq(Byte)
  BY SplitType
<1>2. first \o rest = w
  <2>1. Len(w) \in Nat
    BY LenProperties
  <2>2. first \o rest = SubSeq(w, 1, Len(w))
    BY <2>1, 1 \in 1 .. Len(w) + 1, n \in 1 - 1 .. Len(w), Len(w) \in n .. Len(w), ConcatAdjacentSubSeq
  <2> QED
    BY <2>2, SubSeqFull
<1> HIDE DEF first, rest
<1>3. (r \o first) \o rest = r \o (first \o rest)
  BY <1>1, ConcatAssociative
<1> QED
  BY <1>2, <1>3 DEF first, rest

\* A byte read moves from the socket to the bytes collected.
LEMMA ByteRead ==
  ASSUME NEW p \in Seq(Byte), NEW r \in Seq(Byte), NEW t \in Seq(Byte), r # << >>
  PROVE  Append(p, Head(r)) \o (Tail(r) \o t) = p \o (r \o t)
PROOF
<1>1. Head(r) \in Byte /\ Tail(r) \in Seq(Byte)
  BY HeadTailProperties
<1>2. <<Head(r)>> \in Seq(Byte)
  BY <1>1
<1>3. Append(p, Head(r)) = p \o <<Head(r)>>
  BY <1>1, AppendIsConcat
<1>4. <<Head(r)>> \o Tail(r) = r
  <2>1. Len(r) \in Nat \ {0}
    BY EmptySeq
  <2>2. SubSeq(r, 1, Len(r)) = <<r[1]>> \o SubSeq(r, 2, Len(r))
    BY <2>1, SubSeqRecursiveFirst
  <2> QED
    BY <2>2, SubSeqFull, TailIsSubSeq
<1>5. Tail(r) \o t \in Seq(Byte)
  BY <1>1, ConcatProperties
<1>6. (p \o <<Head(r)>>) \o (Tail(r) \o t) = p \o (<<Head(r)>> \o (Tail(r) \o t))
  BY <1>2, <1>5, ConcatAssociative
<1>7. <<Head(r)>> \o (Tail(r) \o t) = r \o t
  BY <1>1, <1>2, <1>4, ConcatAssociative
<1> QED
  BY <1>3, <1>6, <1>7

\* A step that moves no bytes.
LEMMA WholeElsewhere ==
  ASSUME WholeInv,
         UNCHANGED <<sm, conn, rx, client, peer, sending, rgbRead, bitsReceived>>,
         pc' = pc \/ (pc \notin {"available", "read"} /\ pc' \notin {"switch", "available", "read"})
  PROVE  Staying' /\ Served' /\ Aligned'
PROOF
<1>1. Staying'
  BY DEF WholeInv, Staying
<1>2. Served'
  BY DEF WholeInv, Served
<1>3. \A s : Gathered(s)' = Gathered(s) /\ Stream(s)' = Stream(s)
  BY DEF Gathered, Stream
<1>4. Aligned'
  BY <1>3 DEF WholeInv, Aligned
<1> QED
  BY <1>1, <1>2, <1>4

\* Before the loop begins nothing has been collected.
LEMMA WholeIdle ==
  ASSUME WholeInv, pc \notin {"available", "read"}, pc' \notin {"available", "read"},
         UNCHANGED <<state, rgbRead, ReadQueue, bitsReceived>>,
         Staying', pc' = "switch" /\ client' # NoSocket => sm'[client'] = "established" /\ rx'[client'] # <<>>,
         \A s \in Sockets : sm'[s] = "established" =>
           /\ sm[s] = "established" /\ rx'[s] = rx[s] /\ conn'[s] = conn[s]
           /\ sending'[conn[s]] = sending[conn[s]]
  PROVE  WholeInv'
PROOF
<1>1. Kept'
  BY DEF WholeInv, Kept
<1>2. Served'
  BY DEF WholeInv, Served
<1>3. ASSUME NEW s \in Sockets, sm'[s] = "established"
      PROVE  sm[s] = "established" /\ Gathered(s)' = Gathered(s) /\ Stream(s)' = Stream(s)
  BY <1>3 DEF Gathered, Stream
<1>4. Aligned'
  BY <1>3 DEF WholeInv, Aligned
<1> QED
  BY <1>1, <1>2, <1>4 DEF WholeInv

\* available() takes nothing from a connection that is served, and chooses
\* one that has bytes.
LEMMA WholeAvailable ==
  ASSUME WholeInv, BoardIInv, protothread2 \/ ServerAvailable
  PROVE  WholeInv'
PROOF
<1> USE ServerAssumption
<1>1. /\ sm \in [Sockets -> SocketState] /\ conn \in [Sockets -> Conns \cup {NoConn}]
      /\ sending \in [Conns -> Seq(Byte)] /\ skl \in Seq(Sockets) /\ Len(skl) \in Nat
      /\ psklNow \in Nat \ {0} /\ OneSocketPerClient
  BY LenProperties DEF BoardIInv, ServerIInv, ServerTypeOK, StackTypeOK
<1>2. /\ pc \notin {"available", "read"} /\ pc' \notin {"available", "read"}
      /\ UNCHANGED <<state, rgbRead, ReadQueue, bitsReceived>>
      /\ ServiceSocketListen \/ WalkOn \/ Look
      /\ pc' = "switch" => call' = "none"
  BY DEF protothread2, ServerAvailable, commVars
<1>3. Staying
  BY DEF WholeInv
<1>4. CASE NewClient /\ \E next \in Sockets \cup {NoSocket} : TCPOpen(next) /\ Promote(next)
  <2>1. PICK next \in Sockets \cup {NoSocket} : TCPOpen(next) /\ Promote(next)
    BY <1>4
  <2>2. /\ next \in Sockets => sm[next] = "closed"
        /\ sm' = [s \in Sockets |-> IF s = next THEN "listen" ELSE sm[s]]
        /\ UNCHANGED <<conn, rx, peer, sending>> /\ call' = "walk"
    BY <2>1 DEF TCPOpen, Lowest, Promote, peerVars
  <2>3. \A s \in Sockets :
          /\ sm'[s] = "established" <=> sm[s] = "established"
          /\ sm'[s] = "close_wait" => sm[s] = "close_wait"
    BY <2>2
  <2>4. Staying'
    BY <1>3, <2>2, <2>3 DEF Staying
  <2> QED
    BY <1>2, <2>2, <2>3, <2>4, WholeIdle
<1>5. ASSUME NEW n \in 1 .. Len(skl), ~Connected(skl[n]), Drop(n) PROVE WholeInv'
  <2> DEFINE s == skl[n]
             freed == IF Released(sm[s]) = "closed" THEN {conn[s]} ELSE {}
  <2>1. s \in Sockets
    BY <1>1, ElementOfSeq
  <2>2. /\ sm' = [sm EXCEPT ![s] = Released(@)]
        /\ conn' = [conn EXCEPT ![s] = IF @ \in freed THEN NoConn ELSE @]
        /\ Forget(freed) /\ rx' = rx /\ call' = "walk"
    BY <1>5 DEF Drop
  <2>3. sm[s] # "established" /\ rx[s] = <<>> /\ freed \subseteq {conn[s]}
    BY <1>5 DEF Connected
  <2> HIDE DEF s, freed
  <2>4. \A t \in Sockets : t # s => sm'[t] = sm[t] /\ conn'[t] = conn[t]
    BY <1>1, <2>2
  <2>5. sm'[s] \in {"closing", "closed"}
    BY <1>1, <2>1, <2>2 DEF Released
  <2>6. ASSUME NEW t \in Sockets, sm'[t] = "established"
        PROVE  /\ sm[t] = "established" /\ rx'[t] = rx[t] /\ conn'[t] = conn[t] /\ conn[t] \in Conns
               /\ sending'[conn[t]] = sending[conn[t]]
    <3>1. t # s /\ sm[t] = "established" /\ conn'[t] = conn[t] /\ conn[t] \in Conns
      BY <1>3, <2>4, <2>5, <2>6 DEF Staying
    <3>2. conn[t] # conn[s]
      BY <1>1, <2>1, <3>1 DEF OneSocketPerClient
    <3> QED
      BY <2>2, <2>3, <3>1, <3>2 DEF Forget
  <2>7. \A c \in Conns : peer'[c] \in {"idle", "waiting"} => sending'[c] = <<>>
    BY <1>3, <2>2 DEF Forget, Staying
  <2>8. \A t \in Sockets : sm'[t] # "close_wait" /\ (rx'[t] # <<>> => sm'[t] = "established")
    BY <1>3, <2>2, <2>3, <2>4, <2>5 DEF Staying
  <2>9. Staying'
    BY <2>6, <2>7, <2>8 DEF Staying
  <2> QED
    BY <1>2, <2>2, <2>6, <2>9, WholeIdle
<1>6. CASE /\ UNCHANGED stackVars
           /\ call' = "none" /\ client' # NoSocket => client' \in Sockets /\ rx[client'] # <<>>
  <2>1. UNCHANGED <<sm, conn, rx, peer, sending>>
    BY <1>6 DEF stackVars, socketVars, peerVars
  <2>2. Staying'
    BY <1>3, <2>1 DEF Staying
  <2>3. call' = "none" /\ client' # NoSocket => sm'[client'] = "established" /\ rx'[client'] # <<>>
    BY <1>3, <1>6, <2>1 DEF Staying
  <2> QED
    BY <1>2, <2>1, <2>2, <2>3, WholeIdle
<1>7. ASSUME NEW first \in Nat \ {0}, WalkFrom(first) PROVE WholeInv'
  <2>1. CASE \E n \in first .. Len(skl) : ~Connected(skl[n]) /\ Drop(n)
    <3>1. PICK n \in first .. Len(skl) : ~Connected(skl[n]) /\ Drop(n)
      BY <2>1
    <3>2. n \in 1 .. Len(skl)
      BY <1>1
    <3> QED BY <1>5, <3>1, <3>2
  <2>2. CASE call' = "scan" /\ UNCHANGED stackVars
    BY <1>6, <2>2
  <2> QED BY <1>7, <2>1, <2>2 DEF WalkFrom
<1>8. CASE Look
  <2>1. CASE Return(NoSocket)
    BY <1>6, <2>1 DEF Return
  <2>2. CASE psklNow \in 1 .. Len(skl) /\ rx[skl[psklNow]] # <<>> /\ Return(skl[psklNow])
    <3>1. skl[psklNow] \in Sockets
      BY <1>1, <2>2, ElementOfSeq
    <3> QED BY <1>6, <2>2, <3>1 DEF Return
  <2>3. CASE LookFurther /\ call = "scan"
    BY <1>6, <2>3 DEF LookFurther
  <2> QED BY <1>1, <1>8, <2>1, <2>2, <2>3 DEF Look
<1>9. CASE WalkFrom(1) \/ WalkFrom(psklNow)
  BY <1>1, <1>7, <1>9
<1> QED
  BY <1>2, <1>4, <1>8, <1>9 DEF ServiceSocketListen, WalkOn

\* The loop begins with a client that has bytes.
LEMMA WholeRead ==
  ASSUME WholeInv, BoardIInv, READ \/ ByteAvailable
  PROVE  WholeInv'
PROOF
<1>1. /\ UNCHANGED <<sm, conn, rx, client, peer, sending, bitsReceived, ReadQueue>>
  BY DEF READ, ByteAvailable, serverVars, stackVars, socketVars, peerVars, commVars
<1>2. CASE READ /\ client = NoSocket
  <2>1. pc' = "protothread2" /\ pc = "switch" /\ UNCHANGED <<state, rgbRead>>
    BY <1>2 DEF READ, HasData, Done
  <2> QED
    BY <1>1, <2>1, WholeElsewhere DEF WholeInv, Kept
<1>3. CASE READ /\ client # NoSocket
  <2>1. pc = "switch"
    BY <1>3 DEF READ
  <2>2. HasData /\ bitsReceived = 0
    BY <1>3, <2>1 DEF HasData, WholeInv, Served
  <2>3. pc' = "available" /\ UNCHANGED <<state, rgbRead>>
    BY <1>3, <2>2 DEF READ
  <2>4. Staying' /\ Served' /\ Kept'
    BY <1>1, <1>3, <2>1, <2>2, <2>3 DEF WholeInv, Staying, Served, Kept
  <2>5. SubSeq(rgbRead, 1, 0) = <<>>
    BY SubSeqEmpty
  <2>6. \A s : Gathered(s)' = Gathered(s) /\ Stream(s)' = Stream(s)
    BY <1>1, <2>1, <2>2, <2>3, <2>5 DEF Gathered, Stream
  <2>7. Aligned'
    BY <1>1, <2>6 DEF WholeInv, Aligned
  <2> QED
    BY <2>4, <2>7 DEF WholeInv
<1>4. CASE ByteAvailable
  <2>1. pc = "available" /\ pc' = "read" /\ HasData /\ UNCHANGED <<state, rgbRead>>
    BY <1>4 DEF ByteAvailable, commVars
  <2>2. Staying' /\ Served' /\ Kept'
    BY <1>1, <2>1 DEF WholeInv, Staying, Served, Kept, HasData
  <2>3. \A s : Gathered(s)' = Gathered(s) /\ Stream(s)' = Stream(s)
    BY <1>1, <2>1 DEF Gathered, Stream
  <2>4. Aligned'
    BY <1>1, <2>3 DEF WholeInv, Aligned
  <2> QED
    BY <2>2, <2>4 DEF WholeInv
<1> QED
  BY <1>2, <1>3, <1>4

\* A byte is taken; the last one of a command ends a word.
LEMMA WholeReadLoop ==
  ASSUME WholeSenders, WholeInv, BoardIInv, ReadLoop
  PROVE  WholeInv'
PROOF
<1>1. /\ rgbRead \in [1 .. 6 -> Byte] /\ bitsReceived \in 0 .. 5
      /\ rx \in [Sockets -> Seq(Byte)] /\ sending \in [Conns -> Seq(Byte)]
      /\ client \in Sockets \cup {NoSocket}
  BY DEF BoardIInv, TypeOK, ServerTypeOK, StackTypeOK, Command, numBitsPerCommand, Byte
<1>2. pc = "read" /\ client \in Sockets /\ sm[client] = "established" /\ rx[client] # <<>>
  BY <1>1 DEF ReadLoop, WholeInv, Served
<1> DEFINE b == Head(rx[client])
           c == conn[client]
           t == sending[c]
           p == SubSeq(rgbRead, 1, bitsReceived)
           q == SubSeq(rgbRead', 1, bitsReceived + 1)
<1>3. /\ ReadByteOf(b)
      /\ rx' = [rx EXCEPT ![client] = Tail(rx[client])]
      /\ UNCHANGED <<sm, conn, client, peer, sending, ReadQueue>>
  <2>1. HasData
    BY <1>2, ServerAssumption DEF HasData
  <2>2. ReadByte /\ ReadByteOf(b)
    BY <2>1 DEF ReadLoop
  <2>3. rx' = [rx EXCEPT ![client] = Tail(rx[client])] /\ UNCHANGED <<sm, conn, client, peer, sending>>
    BY <2>2 DEF ReadByte, peerVars
  <2>4. UNCHANGED ReadQueue
    BY <2>2 DEF ReadByteOf
  <2> QED
    BY <2>2, <2>3, <2>4
<1>4. b \in Byte /\ c \in Conns /\ t \in Seq(Byte) /\ Tail(rx[client]) \in Seq(Byte)
  BY <1>1, <1>2, HeadTailProperties DEF WholeInv, Staying
<1>5. rgbRead' = [rgbRead EXCEPT ![bitsReceived + 1] = b]
  BY <1>3 DEF ReadByteOf
<1>6. /\ p \in Seq(Byte) /\ q \in Seq(Byte)
      /\ Len(q) = bitsReceived + 1 /\ q = Append(p, b)
      /\ \A i \in 1 .. bitsReceived + 1 : q[i] = rgbRead'[i]
  <2>1. \A i \in 1 .. bitsReceived : rgbRead[i] \in Byte
    BY <1>1
  <2>2. \A i \in 1 .. bitsReceived + 1 : rgbRead'[i] \in Byte
    BY <1>1, <1>4, <1>5
  <2>3. /\ p \in Seq(Byte) /\ Len(p) = bitsReceived
        /\ \A i \in 1 .. bitsReceived - 1 + 1 : p[i] = rgbRead[1 + i - 1]
    BY <1>1, <2>1, SubSeqProperties
  <2>4. /\ q \in Seq(Byte) /\ Len(q) = bitsReceived + 1
        /\ \A i \in 1 .. (bitsReceived + 1) - 1 + 1 : q[i] = rgbRead'[1 + i - 1]
    BY <1>1, <2>2, SubSeqProperties
  <2>5. /\ Append(p, b) \in Seq(Byte) /\ Len(Append(p, b)) = Len(p) + 1
        /\ \A i \in 1 .. Len(p) : Append(p, b)[i] = p[i]
        /\ Append(p, b)[Len(p) + 1] = b
    BY <1>4, <2>3, AppendProperties
  <2> HIDE DEF p, q, b
  <2>6. \A i \in 1 .. bitsReceived + 1 : q[i] = rgbRead'[i]
    BY <1>1, <2>4
  <2>7. ASSUME NEW i \in 1 .. Len(q) PROVE q[i] = Append(p, b)[i]
    <3>1. CASE i = bitsReceived + 1
      BY <1>1, <1>5, <2>3, <2>5, <2>6, <3>1
    <3>2. CASE i # bitsReceived + 1
      <4>1. i \in 1 .. bitsReceived
        BY <1>1, <2>4, <3>2
      <4>2. p[i] = rgbRead[i]
        BY <1>1, <2>3, <4>1
      <4> QED
        BY <1>1, <1>5, <2>3, <2>5, <2>6, <4>1, <4>2
    <3> QED
      BY <3>1, <3>2
  <2>8. Len(q) = Len(Append(p, b))
    BY <2>3, <2>4, <2>5
  <2>9. q = Append(p, b)
    BY <2>4, <2>5, <2>7, <2>8, SeqEqual
  <2> QED
    BY <2>3, <2>4, <2>6, <2>9
<1>7. /\ Stream(client) = rx[client] \o t
      /\ Stream(client)' = Tail(rx[client]) \o t
      /\ Stream(client)' \in Seq(Byte)
  BY <1>1, <1>2, <1>3, <1>4, ConcatProperties DEF Stream
<1>8. q \o Stream(client)' \in Streams
  <2>1. p \o Stream(client) \in Streams
    BY <1>2 DEF WholeInv, Aligned, Gathered
  <2> HIDE DEF p, q, t
  <2>2. rx[client] \in Seq(Byte)
    BY <1>1, <1>2
  <2>3. Append(p, b) \o (Tail(rx[client]) \o t) = p \o (rx[client] \o t)
    BY <1>2, <1>4, <1>6, <2>2, ByteRead
  <2> QED
    BY <1>6, <1>7, <2>1, <2>3
<1>9. ASSUME NEW s \in Sockets, s # client
      PROVE  Gathered(s)' = Gathered(s) /\ Stream(s)' = Stream(s)
  BY <1>1, <1>3, <1>9 DEF Gathered, Stream
<1>10. Staying'
  BY <1>1, <1>2, <1>3 DEF WholeInv, Staying
<1>11. CASE bitsReceived + 1 # 6
  <2>1. pc' = "available" /\ bitsReceived' = bitsReceived + 1 /\ state' = state
    BY <1>3, <1>11 DEF ReadByteOf, numBitsPerCommand
  <2>2. Gathered(client)' = q
    BY <1>3, <2>1 DEF Gathered
  <2>3. Aligned'
    BY <1>3, <1>8, <1>9, <2>2 DEF WholeInv, Aligned
  <2>4. state' = "READ"
    BY <1>2, <2>1 DEF BoardIInv, Collecting
  <2>5. Served' /\ Kept'
    BY <1>2, <1>3, <2>1, <2>4, ServerAssumption DEF WholeInv, Served, Kept
  <2> QED
    BY <1>10, <2>3, <2>5 DEF WholeInv
<1>12. CASE bitsReceived + 1 = 6
  <2>1. pc' = "protothread2" /\ bitsReceived' = 0
    BY <1>3, <1>12 DEF ReadByteOf, numBitsPerCommand, Done
  <2>2. [i \in 1 .. 6 |-> q[i]] \in Said /\ Stream(client)' \in Streams
    BY <1>6, <1>7, <1>8, <1>12, StreamBegins
  <2>3. rgbRead' = [i \in 1 .. 6 |-> q[i]]
    <3>1. rgbRead' \in [1 .. 6 -> Byte]
      BY <1>1, <1>4, <1>5
    <3>2. \A i \in 1 .. 6 : q[i] = rgbRead'[i]
      BY <1>6, <1>12
    <3> HIDE DEF q
    <3> QED
      BY <3>1, <3>2
  <2>4. Gathered(client)' = <<>> /\ <<>> \o Stream(client)' = Stream(client)'
    BY <1>7, <2>1, ConcatEmptySeq DEF Gathered
  <2>5. Aligned'
    BY <1>3, <1>9, <2>2, <2>4 DEF WholeInv, Aligned
  <2>6. Served'
    BY <2>1 DEF Served
  <2>7. Kept'
    BY <1>3, <2>2, <2>3 DEF WholeInv, Kept
  <2> QED
    BY <1>10, <2>5, <2>6, <2>7 DEF WholeInv
<1> QED
  BY <1>11, <1>12

\* What client.stop() drops belongs to a client nothing more is read from.
LEMMA WholeClose ==
  ASSUME WholeInv, BoardIInv, CLOSE
  PROVE  WholeInv'
PROOF
<1>1. /\ sm \in [Sockets -> SocketState] /\ rx \in [Sockets -> Seq(Byte)]
      /\ client \in Sockets \cup {NoSocket}
  BY DEF BoardIInv, TypeOK, ServerTypeOK, StackTypeOK
<1>2. /\ pc = "switch" /\ pc' = "protothread2" /\ state' = "INITIALIZE"
      /\ UNCHANGED <<conn, peer, sending, rgbRead, ReadQueue, bitsReceived>>
      /\ client' = NoSocket
      /\ client # NoSocket =>
           /\ sm' = [sm EXCEPT ![client] = Released(sm[client])]
           /\ rx' = [rx EXCEPT ![client] = <<>>]
      /\ client = NoSocket => UNCHANGED <<sm, rx>>
  BY DEF CLOSE, ClientStop, Done, peerVars
<1>3. ASSUME NEW s \in Sockets
      PROVE  \/ sm'[s] = sm[s] /\ rx'[s] = rx[s]
             \/ sm'[s] \in {"closing", "closed"} /\ rx'[s] = <<>>
  BY <1>1, <1>2 DEF Released
<1>4. Staying'
  BY <1>2, <1>3 DEF WholeInv, Staying
<1>5. Served' /\ Kept'
  BY <1>2 DEF WholeInv, Served, Kept
<1>6. ASSUME NEW s \in Sockets, sm'[s] = "established"
      PROVE  sm[s] = "established" /\ Gathered(s)' = Gathered(s) /\ Stream(s)' = Stream(s)
  BY <1>2, <1>3, <1>6 DEF Gathered, Stream
<1>7. Aligned'
  BY <1>6 DEF WholeInv, Aligned
<1> QED
  BY <1>4, <1>5, <1>7 DEF WholeInv

\* The network brings words whole, if in pieces, and closes what the board
\* has released only.
LEMMA WholeNetwork ==
  ASSUME WholeSenders, WholeInv, BoardIInv, Network, UNCHANGED boardVars
  PROVE  WholeInv'
PROOF
<1> USE ServerAssumption
<1>1. /\ sm \in [Sockets -> SocketState] /\ conn \in [Sockets -> Conns \cup {NoConn}]
      /\ rx \in [Sockets -> Seq(Byte)] /\ sending \in [Conns -> Seq(Byte)]
      /\ peer \in [Conns -> PeerState]
      /\ client \in Sockets \cup {NoSocket}
      /\ FreeIsClean /\ OneSocketPerClient
  BY DEF BoardIInv, ServerIInv, ServerTypeOK, StackTypeOK
<1>2. UNCHANGED <<pc, state, rgbRead, ReadQueue, bitsReceived, client>>
  BY DEF Network, boardVars, threadVars, commVars
<1>3. Kept'
  BY <1>2 DEF WholeInv, Kept
<1>4. /\ \A s \in Sockets :
           /\ sm[s] # "close_wait"
           /\ rx[s] # <<>> => sm[s] = "established"
           /\ sm[s] = "established" => conn[s] \in Conns
      /\ \A c \in Conns : peer[c] \in {"idle", "waiting"} => sending[c] = <<>>
  BY DEF WholeInv, Staying
<1>5. \A s : Gathered(s)' = Gathered(s)
  BY <1>2 DEF Gathered
<1>6. ASSUME NEW c \in Conns, NEW s \in Sockets, sm[s] = "listen",
             peer[c] \in {"idle", "waiting"}, Establish(s, c)
      PROVE  WholeInv'
  <2>1. sm[s] = "listen" /\ sm' = [sm EXCEPT ![s] = "established"] /\ conn' = [conn EXCEPT ![s] = c]
    BY <1>6 DEF Establish
  <2>2. /\ peer[c] \in {"idle", "waiting"} /\ peer' = [peer EXCEPT ![c] = "open"]
        /\ UNCHANGED <<rx, sending>>
    BY <1>6 DEF Establish
  <2>3. rx[s] = <<>> /\ sending[c] = <<>>
    BY <1>1, <1>4, <2>1, <2>2 DEF FreeIsClean
  <2>4. Staying'
    BY <1>1, <1>4, <2>1, <2>2, <2>3 DEF Staying
  <2>5. Served'
    BY <1>1, <1>2, <2>1, <2>2 DEF WholeInv, Served
  <2>6. Gathered(s)' = <<>>
    BY <1>5, <2>1, <1>2 DEF Gathered, WholeInv, Served
  <2>7. Stream(s)' = <<>>
    <3>1. rx'[s] = <<>> /\ sending'[conn'[s]] = <<>>
      BY <1>1, <2>1, <2>2, <2>3
    <3>2. <<>> \in Seq(Byte)
      OBVIOUS
    <3> QED
      BY <3>1, <3>2, ConcatEmptySeq DEF Stream
  <2>8. <<>> \o <<>> = <<>>
    OBVIOUS
  <2>9. ASSUME NEW t \in Sockets, t # s, sm'[t] = "established"
        PROVE  sm[t] = "established" /\ Stream(t)' = Stream(t)
    BY <1>1, <2>1, <2>2, <2>9 DEF Stream
  <2>10. Aligned'
    BY <1>5, <2>6, <2>7, <2>8, <2>9, NothingStreams DEF WholeInv, Aligned
  <2> QED
    BY <1>3, <2>4, <2>5, <2>10 DEF WholeInv
<1>7. ASSUME NEW c \in Conns, Arrive(c) PROVE WholeInv'
  <2>1. PICK s \in Sockets, n \in Chunks,
             stream \in (IF sending[c] = <<>> THEN Words[c] ELSE {sending[c]}) :
          /\ sm[s] = "established" /\ conn[s] = c
          /\ n =< Len(stream)
          /\ rx' = [rx EXCEPT ![s] = @ \o SubSeq(stream, 1, n)]
          /\ sending' = [sending EXCEPT ![c] = SubSeq(stream, n + 1, Len(stream))]
    BY <1>7 DEF Arrive
  <2>2. peer[c] = "open" /\ UNCHANGED <<sm, conn, peer>>
    BY <1>7 DEF Arrive
  <2>3. stream \in Seq(Byte) /\ n \in Nat \ {0}
    BY <1>1, <2>1
  <2> DEFINE first == SubSeq(stream, 1, n)
             rest == SubSeq(stream, n + 1, Len(stream))
  <2>4. first \in Seq(Byte) /\ rest \in Seq(Byte) /\ (rx[s] \o first) \o rest = rx[s] \o stream
    <3>1. rx[s] \in Seq(Byte) /\ n \in Nat \ {0} /\ n =< Len(stream)
      BY <1>1, <2>1, <2>3
    <3>2. first \in Seq(Byte) /\ rest \in Seq(Byte)
      BY <2>3, <3>1, SplitType
    <3>3. (rx[s] \o first) \o rest = rx[s] \o stream
      BY <2>3, <3>1, BytesArrive, Zenon
    <3> QED
      BY <3>2, <3>3
  <2>5. rx' = [rx EXCEPT ![s] = rx[s] \o first] /\ sending' = [sending EXCEPT ![c] = rest]
    BY <2>1
  <2> HIDE DEF first, rest
  <2>6. Staying'
    BY <1>1, <1>4, <2>1, <2>2, <2>5 DEF Staying
  <2>7. \A t \in Sockets : rx[t] # <<>> => rx'[t] # <<>>
    <3>1. rx[s] # <<>> => rx[s] \o first # <<>>
      BY <1>1, <2>4, ConcatEqualIffEmpty
    <3> QED
      BY <1>1, <2>5, <3>1
  <2>8. Served'
    BY <1>1, <1>2, <2>2, <2>7 DEF WholeInv, Served
  <2>9. Stream(s)' = rx[s] \o stream
    BY <1>1, <2>1, <2>2, <2>4, <2>5 DEF Stream
  <2>10. ASSUME NEW t \in Sockets, t # s, sm'[t] = "established"
         PROVE  Stream(t)' = Stream(t)
    <3>1. conn[t] \in Conns /\ conn[t] # c
      BY <1>1, <1>4, <2>1, <2>2, <2>10 DEF OneSocketPerClient
    <3> QED
      BY <1>1, <2>2, <2>5, <2>10, <3>1 DEF Stream
  <2>11. Gathered(s) \in Seq(Byte) /\ Gathered(s) \o Stream(s) \in Streams
    <3>1. Gathered(s) \in Seq(Byte)
      <4>1. rgbRead \in [1 .. 6 -> Byte] /\ bitsReceived \in 0 .. 5
        BY DEF BoardIInv, TypeOK, Command, numBitsPerCommand, Byte
      <4>2. \A i \in 1 .. bitsReceived : rgbRead[i] \in Byte
        BY <4>1
      <4>3. SubSeq(rgbRead, 1, bitsReceived) \in Seq(Byte)
        BY <4>1, <4>2, SubSeqProperties
      <4>4. <<>> \in Seq(Byte)
        OBVIOUS
      <4> QED
        BY <4>3, <4>4 DEF Gathered
    <3> QED
      BY <2>1, <3>1 DEF WholeInv, Aligned
  <2>12. Gathered(s) \o (rx[s] \o stream) \in Streams
    <3>1. CASE sending[c] # <<>>
      BY <2>1, <2>11, <3>1 DEF Stream
    <3>2. CASE sending[c] = <<>>
      <4>1. stream \in Said /\ Stream(s) = rx[s]
        BY <1>1, <2>1, <3>2, ConcatEmptySeq DEF Stream, Said
      <4>2. (Gathered(s) \o rx[s]) \o stream \in Streams
        BY <2>11, <4>1, StreamGrows
      <4>3. (Gathered(s) \o rx[s]) \o stream = Gathered(s) \o (rx[s] \o stream)
        <5>1. Gathered(s) \in Seq(Byte) /\ rx[s] \in Seq(Byte) /\ stream \in Seq(Byte)
          BY <1>1, <2>3, <2>11
        <5> QED
          BY <5>1, \A p, q, r \in Seq(Byte) : (p \o q) \o r = p \o (q \o r), Zenon
      <4> QED
        BY <4>2, <4>3
    <3> QED
      BY <3>1, <3>2
  <2>13. Aligned'
    BY <1>5, <2>2, <2>9, <2>10, <2>12 DEF WholeInv, Aligned
  <2> QED
    BY <1>3, <2>6, <2>8, <2>13 DEF WholeInv
<1>8. ASSUME NEW c \in Conns, TakeReply(c) PROVE WholeInv'
  <2>1. UNCHANGED <<sm, conn, rx, peer, sending>>
    BY <1>8 DEF TakeReply, socketVars
  <2> QED
    BY <1>2, <1>3, <2>1, WholeElsewhere DEF WholeInv
<1>9. ASSUME NEW c \in Conns, Hangup(c) \/ Reset(c) PROVE FALSE
  BY <1>9 DEF Hangup, Reset, WholeSenders
<1>10. ASSUME NEW s \in Sockets, CloseWaitTimeout(s) PROVE FALSE
  BY <1>4, <1>10 DEF CloseWaitTimeout
<1>11. ASSUME NEW s \in Sockets, Closed(s) PROVE WholeInv'
  <2>1. /\ sm[s] = "closing" /\ sm' = [sm EXCEPT ![s] = "closed"]
        /\ conn' = [conn EXCEPT ![s] = NoConn]
        /\ Forget({conn[s]}) /\ rx' = rx
    BY <1>11 DEF Closed
  <2>2. Staying'
    BY <1>1, <1>4, <2>1 DEF Staying, Forget
  <2>3. Served'
    BY <1>1, <1>2, <2>1 DEF WholeInv, Served
  <2>4. ASSUME NEW t \in Sockets, sm'[t] = "established"
        PROVE  sm[t] = "established" /\ Stream(t)' = Stream(t)
    <3>1. t # s /\ sm[t] = "established" /\ conn'[t] = conn[t] /\ conn[t] \in Conns
      BY <1>1, <1>4, <2>1, <2>4
    <3>2. conn[t] # conn[s]
      BY <1>1, <3>1 DEF OneSocketPerClient
    <3>3. sending'[conn[t]] = sending[conn[t]]
      BY <2>1, <3>1, <3>2 DEF Forget
    <3> QED
      BY <2>1, <3>1, <3>3 DEF Stream
  <2>5. Aligned'
    BY <1>5, <2>4 DEF WholeInv, Aligned
  <2> QED
    BY <1>3, <2>2, <2>3, <2>5 DEF WholeInv
<1>12. ASSUME NEW c \in Conns, Connect(c) \/ SaveSYN(c) \/ ServeSYN(c) \/ DropSYN(c) PROVE WholeInv'
  <2>1. CASE \E s \in Sockets :
               sm[s] = "listen" /\ peer[c] \in {"idle", "waiting"} /\ Establish(s, c)
    BY <1>6, <2>1
  <2>2. CASE /\ peer[c] \in {"idle", "waiting"}
             /\ \E st \in {"idle", "waiting"} : peer' = [peer EXCEPT ![c] = st]
             /\ UNCHANGED <<sm, conn, rx, sending, inbox>>
    <3>1. Staying'
      BY <1>1, <1>4, <2>2 DEF Staying
    <3>2. Served'
      BY <1>2, <2>2 DEF WholeInv, Served
    <3>3. \A s : Stream(s)' = Stream(s)
      BY <2>2 DEF Stream
    <3>4. Aligned'
      BY <1>5, <2>2, <3>3 DEF WholeInv, Aligned
    <3> QED
      BY <1>3, <3>1, <3>2, <3>4 DEF WholeInv
  <2> QED
    BY <1>12, <2>1, <2>2, SYNStep
<1> QED
  BY <1>7, <1>8, <1>9, <1>10, <1>11, <1>12 DEF Network, Clients, Client, Stack

\* Nothing is received, collected or queued at reset.
LEMMA WholeInit ==
  ASSUME Init
  PROVE  WholeInv
PROOF
<1>1. ServerInit /\ pc \in {"centreRight", "centreLeft"} /\ state = "INITIALIZE"
      /\ ReadQueue = Zeros /\ bitsReceived = 0
  BY DEF Init
<1>2. Staying
  BY <1>1 DEF ServerInit, StackInit, Staying
<1>3. Served /\ Kept
  BY <1>1 DEF Served, Kept
<1>4. Aligned
  BY <1>1 DEF ServerInit, StackInit, Aligned
<1> QED
  BY <1>2, <1>3, <1>4 DEF WholeInv

\* The parts of Next one by one; most of them move no bytes.
LEMMA WholeStep ==
  ASSUME WholeSenders, WholeInv, BoardIInv, [Next]_vars
  PROVE  WholeInv'
PROOF
<1>1. ASSUME UNCHANGED <<sm, conn, rx, client, peer, sending, rgbRead, bitsReceived, ReadQueue>>,
             state' = state \/ state' # "PROCESSREAD",
             \/ pc' = pc
             \/ pc \notin {"available", "read"} /\ pc' \notin {"switch", "available", "read"}
      PROVE  WholeInv'
  BY <1>1, WholeElsewhere DEF WholeInv, Kept
<1>2. CASE protothread1
  <2>1. pc = "protothread1" /\ pc' \in {"protothread1", "centreRight", "centreLeft"}
    BY <1>2 DEF protothread1, runBUG, Hold, CentreWheel
  <2> QED
    BY <1>1, <1>2, <2>1
       DEF protothread1, serverVars, stackVars, socketVars, peerVars, commVars
<1>3. CASE protothread1Waits \/ protothread2Waits
  BY <1>1, <1>3
     DEF protothread1Waits, protothread2Waits, serverVars, stackVars, socketVars, peerVars, commVars
<1>4. CASE centerWheel
  <2>1. pc \in {"centreRight", "centreLeft"} /\ pc' \in {pc, "protothread1"}
    BY <1>4, LoopMoves DEF centerWheel, CentreLoop
  <2> QED
    BY <1>1, <1>4, <2>1
       DEF centerWheel, CentreLoop, serverVars, stackVars, socketVars, peerVars, commVars
<1>5. CASE protothread2 \/ ServerAvailable
  BY <1>5, WholeAvailable
<1>6. CASE INITIALIZE
  BY <1>1, <1>6 DEF INITIALIZE, Done, serverVars, stackVars, socketVars, peerVars
<1>7. CASE READ \/ ByteAvailable
  BY <1>7, WholeRead
<1>8. CASE ReadLoop
  BY <1>8, WholeReadLoop
<1>9. CASE PROCESSREAD
  <2>1. /\ pc = "switch" /\ pc' = "protothread2" /\ state = "PROCESSREAD"
        /\ UNCHANGED <<sm, conn, rx, client, peer, sending, rgbRead, bitsReceived>>
        /\ ReadQueue' \in {Zeros, rgbRead, ReadQueue}
    BY <1>9 DEF PROCESSREAD, Done, serverVars, stackVars, socketVars, peerVars
  <2>2. Kept'
    BY <2>1 DEF WholeInv, Kept
  <2> QED
    BY <2>1, <2>2, WholeElsewhere DEF WholeInv
<1>10. CASE WRITE
  BY <1>1, <1>10 DEF WRITE, ServerWrite, socketVars
<1>11. CASE CLOSE
  BY <1>11, WholeClose
<1>12. CASE Tick \/ WheelMoves \/ UNCHANGED vars
  BY <1>1, <1>12 DEF Tick, WheelMoves, vars, boardVars, threadVars, serverVars, stackVars,
                     socketVars, peerVars, commVars
<1>13. CASE Surroundings
  BY <1>13, WholeNetwork DEF Surroundings
<1> QED
  BY <1>2, <1>3, <1>4, <1>5, <1>6, <1>7, <1>8, <1>9, <1>10, <1>11, <1>12, <1>13 DEF Next, Firmware

\* Of clients that send whole commands, whatever these say, and stay, the
\* board only ever runs commands that one of them sent, whole.
THEOREM CommandsAreWhole ==
  ASSUME WholeSenders
  PROVE  Spec => []WholeCommands
PROOF
<1>1. WholeInv => WholeCommands
  BY DEF WholeInv, Kept, WholeCommands
<1>2. Init => WholeInv
  BY WholeInit
<1>3. WholeInv /\ BoardIInv /\ [Next]_vars => WholeInv'
  BY WholeStep
<1> QED
  BY <1>1, <1>2, <1>3, BoardInductive, PTL DEF Spec
=============================================================================
