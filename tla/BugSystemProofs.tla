-------------------------- MODULE BugSystemProofs ---------------------------
(***************************************************************************)
(* Proofs about the control station with the 2015 board, for any sockets,  *)
(* segments, intervals and joysticks.  The invariant follows the word the  *)
(* station has sent from hand to hand.                                     *)
(***************************************************************************)
EXTENDS BugSystem, Board2015Proofs

\* The last word sent, as the station remembers it.
LastWord == Turning[turning] \o Digits(speed)

\* An answer ends in the three digits of the potentiometer.
AnswersEnd ==
  inbox[station] # <<>> => Len(inbox[station]) = 9 /\ \A i \in 7 .. 9 : inbox[station][i] \in 48 .. 57

\* Bytes are only collected inside the loop that waits for them.
CollectedInLoop == bitsReceived # 0 => pc \in {"available", "read"}

\* Nothing else connects, and the station's own socket is in order.
Alone ==
  /\ \A c \in Conns \ {station} : peer[c] = "idle"
  /\ peer[station] # "waiting"
  /\ peer[station] = "idle" => word = <<>>
  /\ peer[station] = "open" => \E s \in Sockets : conn[s] = station /\ sm[s] = "established"

\* Where a body of protothread2 has the client from, there are bytes to read.
ClientHasBytes == pc = "switch" /\ client # NoSocket => client \in Listed /\ rx[client] # <<>>

Reading == pc \in {"available", "read"}

StationListed == \E s \in Listed : conn[s] = station

NoBytes == sending[station] = <<>> /\ \A s \in Sockets : rx[s] = <<>>

Ready ==
  /\ word = <<>> /\ inbox[station] = <<>>
  /\ NoBytes /\ ~Reading /\ state \in {"INITIALIZE", "READ"}

\* The word is cut in three: collected, received and still to be sent.
CutAt(s) ==
  /\ bitsReceived + Len(rx[s]) + Len(sending[station]) = 6
  /\ \A i \in 1 .. bitsReceived : rgbRead[i] = word[i]
  /\ \A i \in 1 .. Len(rx[s]) : rx[s][i] = word[bitsReceived + i]
  /\ \A i \in 1 .. Len(sending[station]) : sending[station][i] = word[bitsReceived + Len(rx[s]) + i]

InTransit ==
  /\ word # <<>> /\ inbox[station] = <<>>
  /\ state \in {"INITIALIZE", "READ"}
  /\ \A s \in Sockets : IF conn[s] = station THEN CutAt(s) ELSE rx[s] = <<>>
  /\ Reading => client \in Listed /\ conn[client] = station
  /\ pc = "read" => rx[client] # <<>>

Collected ==
  /\ word # <<>> /\ inbox[station] = <<>> /\ NoBytes
  /\ state = "PROCESSREAD" /\ rgbRead = word /\ StationListed

InQueue ==
  /\ word # <<>> /\ inbox[station] = <<>> /\ NoBytes
  /\ state = "WRITE" /\ ReadQueue = word /\ StationListed

AnswerDue ==
  /\ word # <<>> /\ NoBytes /\ ~Reading
  /\ state = "READ" /\ ReadQueue = word
  /\ inbox[station] # <<>> /\ SubSeq(inbox[station], 1, 6) = word

\* While the connection lasts the word is in one hand at a time.
Handed == ClientHasBytes /\ (Ready \/ InTransit \/ Collected \/ InQueue \/ AnswerDue)

WordSent == word # <<>> => word = LastWord

SysIInv ==
  /\ BoardIInv /\ StationTypeOK /\ AnswersEnd
  /\ CollectedInLoop /\ WordSent /\ Alone
  /\ ~Lost => Handed
-----------------------------------------------------------------------------
(* Words and digits.                                                       *)

LEMMA Tens == ASSUME NEW n \in Nat
              PROVE  n \div 10 \in Nat /\ n % 10 \in 0 .. 9 /\ n = 10 * (n \div 10) + (n % 10)
  BY SMT

LEMMA DigitsExact ==
  ASSUME NEW n \in 0 .. 999
  PROVE  /\ n \div 100 \in 0 .. 9 /\ (n \div 10) % 10 \in 0 .. 9 /\ n % 10 \in 0 .. 9
         /\ 100 * (n \div 100) + 10 * ((n \div 10) % 10) + (n % 10) = n
<1> DEFINE m == n \div 10
<1>1. n \in Nat /\ n =< 999 OBVIOUS
<1>2. m \in Nat /\ n % 10 \in 0 .. 9 /\ n = 10 * m + (n % 10) BY <1>1, Tens
<1>3. m \div 10 = n \div 100 BY <1>1, SMT
<1> HIDE DEF m
<1>4. m \div 10 \in Nat /\ m % 10 \in 0 .. 9 /\ m = 10 * (m \div 10) + (m % 10) BY <1>2, Tens
<1>5. n \div 100 \in Nat /\ m = 10 * (n \div 100) + (m % 10) BY <1>3, <1>4
<1>6. n \div 100 =< 9 BY <1>1, <1>2, <1>4, <1>5
<1>7. 100 * (n \div 100) + 10 * (m % 10) + (n % 10) = n BY <1>2, <1>4, <1>5
<1> QED BY <1>2, <1>4, <1>5, <1>6, <1>7 DEF m

LEMMA DigitsType ==
  ASSUME NEW n \in 0 .. 999
  PROVE  /\ Digits(n) \in Seq(48 .. 57) /\ Len(Digits(n)) = 3
         /\ Digits(n)[1] = 48 + (n \div 100)
         /\ Digits(n)[2] = 48 + ((n \div 10) % 10)
         /\ Digits(n)[3] = 48 + (n % 10)
<1> DEFINE a == 48 + (n \div 100)
           b == 48 + ((n \div 10) % 10)
           c == 48 + (n % 10)
<1>1. a \in 48 .. 57 /\ b \in 48 .. 57 /\ c \in 48 .. 57 BY DigitsExact
<1>2. Digits(n) = <<a, b, c>> BY DEF Digits
<1> HIDE DEF a, b, c
<1>3. /\ <<a, b, c>> \in Seq(48 .. 57) /\ Len(<<a, b, c>>) = 3
      /\ <<a, b, c>>[1] = a /\ <<a, b, c>>[2] = b /\ <<a, b, c>>[3] = c
  BY <1>1
<1> QED BY <1>2, <1>3 DEF a, b, c

LEMMA TurningType ==
  ASSUME NEW t \in DOMAIN Turning
  PROVE  /\ Turning[t] \in Seq(48 .. 57) /\ Len(Turning[t]) = 3
         /\ Turning[t][1] \in {48, 49} /\ Turning[t][2] \in {48, 49} /\ Turning[t][3] \in {48, 49}
<1>1. t \in {"right", "left", "centre", "hold"} BY DEF Turning
<1>2. Turning[t] \in {<<49, 48, 49>>, <<49, 49, 49>>, <<48, 48, 48>>, <<48, 48, 49>>}
  BY <1>1 DEF Turning
<1>3. PICK a \in {48, 49}, b \in {48, 49}, c \in {48, 49} : Turning[t] = <<a, b, c>> BY <1>2
<1> QED BY <1>3

LEMMA WordBytes ==
  ASSUME NEW t \in DOMAIN Turning, NEW n \in 0 .. 255, NEW w, w = Turning[t] \o Digits(n)
  PROVE  /\ w \in Seq(48 .. 57) /\ Len(w) = 6
         /\ w[1] = Turning[t][1] /\ w[2] = Turning[t][2] /\ w[3] = Turning[t][3]
         /\ w[4] = Digits(n)[1] /\ w[5] = Digits(n)[2] /\ w[6] = Digits(n)[3]
<1>1. n \in 0 .. 999 OBVIOUS
<1>2. /\ Turning[t] \in Seq(48 .. 57) /\ Len(Turning[t]) = 3
      /\ Digits(n) \in Seq(48 .. 57) /\ Len(Digits(n)) = 3
  BY <1>1, TurningType, DigitsType
<1> DEFINE a == Turning[t]
           b == Digits(n)
<1>3. a \in Seq(48 .. 57) /\ Len(a) = 3 /\ b \in Seq(48 .. 57) /\ Len(b) = 3 BY <1>2
<1>4. w = a \o b OBVIOUS
<1> HIDE DEF a, b
<1>5. /\ a \o b \in Seq(48 .. 57) /\ Len(a \o b) = Len(a) + Len(b)
      /\ \A i \in 1 .. Len(a) + Len(b) : (a \o b)[i] = IF i <= Len(a) THEN a[i] ELSE b[i - Len(a)]
  BY <1>3, ConcatProperties, Zenon
<1>6. w \in Seq(48 .. 57) /\ Len(w) = 6 /\ \A i \in 1 .. 6 : w[i] = IF i <= 3 THEN a[i] ELSE b[i - 3]
  BY <1>3, <1>4, <1>5
<1>7. /\ w[1] = a[1] /\ w[2] = a[2] /\ w[3] = a[3]
      /\ w[4] = b[1] /\ w[5] = b[2] /\ w[6] = b[3]
  BY <1>6
<1> QED BY <1>6, <1>7 DEF a, b

\* A control word is six digits ...
LEMMA WordType ==
  ASSUME NEW t \in DOMAIN Turning, NEW n \in 0 .. 255, NEW w, w = Turning[t] \o Digits(n)
  PROVE  /\ w \in [1 .. 6 -> 48 .. 57] /\ w \in Seq(Byte) /\ Len(w) = 6 /\ w \in Command
         /\ w # <<>> /\ w[1] \in {48, 49}
<1>1. /\ w \in Seq(48 .. 57) /\ Len(w) = 6
      /\ w[1] = Turning[t][1] /\ w[2] = Turning[t][2] /\ w[3] = Turning[t][3]
      /\ w[4] = Digits(n)[1] /\ w[5] = Digits(n)[2] /\ w[6] = Digits(n)[3]
  BY WordBytes
<1>2. w \in [1 .. 6 -> 48 .. 57] BY <1>1, LenProperties
<1>3. w \in Seq(Byte)
  <2>1. (48 .. 57) \subseteq Byte BY DEF Byte
  <2> QED BY <1>1, <2>1, SeqMonotonic
<1>4. w \in Command BY <1>2 DEF Command, numBitsPerCommand
<1>5. w[1] \in {48, 49}
  BY <1>1, TurningType
<1> QED BY <1>1, <1>2, <1>3, <1>4, <1>5

\* ... and the board decodes the first digit and the duty it was given.
LEMMA WordDecoded ==
  ASSUME NEW t \in DOMAIN Turning, NEW n \in 0 .. 255, NEW w, w = Turning[t] \o Digits(n)
  PROVE  Decode(w).PWM = n /\ w[1] = Turning[t][1]
<1>1. n \in 0 .. 999 OBVIOUS
<1>2. w[1] = Turning[t][1] BY WordBytes
<1>3. w[4] = Digits(n)[1] /\ w[5] = Digits(n)[2] /\ w[6] = Digits(n)[3] BY WordBytes
<1>4. Decode(w).PWM = n
  <2>1. w[4] = 48 + (n \div 100) /\ w[5] = 48 + ((n \div 10) % 10) /\ w[6] = 48 + (n % 10)
    BY <1>1, <1>3, DigitsType
  <2>2. Digit(w[4]) = n \div 100 /\ Digit(w[5]) = (n \div 10) % 10 /\ Digit(w[6]) = n % 10
    BY <1>1, <2>1, DigitsExact DEF Digit, Char
  <2> QED BY <1>1, <2>2, DigitsExact DEF Decode
<1> QED BY <1>2, <1>4

\* The duty the station asks for.
LEMMA TruncateTenth ==
  ASSUME NEW k \in Nat, NEW a \in -(10 * k) .. 10 * k
  PROVE  Truncate(a, 10) \in -k .. k
<1>1. CASE a < 0
  <2>1. -a \in Nat /\ Truncate(a, 10) = -((-a) \div 10) BY <1>1 DEF Truncate
  <2>2. PICK b \in Nat : b = -a BY <2>1
  <2>3. b \div 10 \in Nat /\ b % 10 \in 0 .. 9 /\ b = 10 * (b \div 10) + (b % 10) BY Tens
  <2> QED BY <2>1, <2>2, <2>3
<1>2. CASE a >= 0
  <2>1. a \in Nat /\ Truncate(a, 10) = a \div 10 BY <1>2 DEF Truncate
  <2>2. a \div 10 \in Nat /\ a % 10 \in 0 .. 9 /\ a = 10 * (a \div 10) + (a % 10) BY <2>1, Tens
  <2> QED BY <2>1, <2>2
<1> QED BY <1>1, <1>2

LEMMA DriveSpeedType ==
  ASSUME StationTypeOK PROVE DriveSpeed \in 0 .. 255 /\ (~stick.trigger => DriveSpeed = 180)
<1>1. stick.y \in -10 .. 10 BY StationAssumption DEF StationTypeOK, Tenths
<1>2. 38 * stick.y \in -(10 * 38) .. 10 * 38 /\ 14 * stick.y \in -(10 * 14) .. 10 * 14 BY <1>1
<1>3. Truncate(38 * stick.y, 10) \in -38 .. 38
  <2>1. PICK a \in -(10 * 38) .. 10 * 38 : a = 38 * stick.y BY <1>2
  <2> QED BY <2>1, TruncateTenth
<1>4. Truncate(Truncate(38 * stick.y, 10), 10) \in -4 .. 4
  <2>1. PICK a \in -38 .. 38 : a = Truncate(38 * stick.y, 10) BY <1>3
  <2>2. a \in -(10 * 4) .. 10 * 4 OBVIOUS
  <2> QED BY <2>1, <2>2, TruncateTenth
<1>5. Truncate(14 * stick.y, 10) \in -14 .. 14
  <2>1. PICK a \in -(10 * 14) .. 10 * 14 : a = 14 * stick.y BY <1>2
  <2> QED BY <2>1, TruncateTenth
<1>6. CASE (stick.x = 0 /\ stick.y = 0) \/ ~stick.trigger
  <2>1. DriveSpeed = 180 BY <1>6, Zenon DEF DriveSpeed
  <2> QED BY <2>1
<1>7. CASE ~((stick.x = 0 /\ stick.y = 0) \/ ~stick.trigger)
  <2>1. DriveSpeed \in {168 + Truncate(Truncate(38 * stick.y, 10), 10), 217 + Truncate(14 * stick.y, 10)}
    BY <1>7, Zenon DEF DriveSpeed
  <2> QED BY <1>4, <1>5, <1>7, <2>1
<1> QED BY <1>6, <1>7
-----------------------------------------------------------------------------
(* The system's steps as the board's and the station's.                    *)

\* A step that touches neither the server, nor the command being received,
\* nor the station.
Elsewhere ==
  /\ UNCHANGED <<serverVars, commVars, stationVars>>
  /\ pc' = pc \/ (~Reading /\ pc' \in {"protothread1", "protothread2", "centreRight", "centreLeft"})

LEMMA SysCases ==
  ASSUME [SysNext]_sysVars
  PROVE  \/ Elsewhere
         \/ (protothread2 \/ ServerAvailable \/ INITIALIZE \/ READ \/ ByteAvailable \/ ReadLoop
               \/ PROCESSREAD \/ WRITE \/ CLOSE)
            /\ UNCHANGED stationVars
         \/ Link \/ StationStep \/ StationReceives \/ StationThrows
<1> USE DEF Elsewhere, Reading
<1>1. CASE protothread1 /\ UNCHANGED stationVars
  BY <1>1 DEF protothread1, runBUG, Hold, CentreWheel
<1>2. CASE (protothread1Waits \/ protothread2Waits) /\ UNCHANGED stationVars
  BY <1>2 DEF protothread1Waits, protothread2Waits
<1>3. CASE centerWheel /\ UNCHANGED stationVars
  <2>1. UNCHANGED <<serverVars, commVars>> /\ pc \in {"centreRight", "centreLeft"}
    BY <1>3 DEF centerWheel, CentreLoop
  <2> QED BY <1>3, <2>1, LoopMoves
<1>4. CASE (Tick \/ WheelMoves) /\ UNCHANGED stationVars
  BY <1>4 DEF Tick, WheelMoves, threadVars
<1>5. CASE UNCHANGED sysVars
  BY <1>5 DEF sysVars, vars, boardVars, threadVars
<1> QED BY <1>1, <1>2, <1>3, <1>4, <1>5 DEF SysNext, Board, Firmware

LEMMA SysStepsBoard ==
  ASSUME [SysNext]_sysVars PROVE [Next]_vars \/ StationStep
<1>1. CASE Board BY <1>1 DEF Board, Next
<1>2. CASE Link
  <2>1. Clients \/ Stack BY <1>2, SystemAssumption DEF Link, Segment, Clients, Client
  <2> QED BY <1>2, <2>1 DEF Link, Next, Surroundings, Network
<1>3. CASE StationReceives
  <2>1. Clients BY <1>3, SystemAssumption DEF StationReceives, Clients, Client
  <2> QED BY <1>3, <2>1 DEF StationReceives, Next, Surroundings, Network
<1>4. CASE StationThrows BY <1>4 DEF StationThrows
<1>5. CASE UNCHANGED sysVars BY <1>5 DEF sysVars
<1> QED BY <1>1, <1>2, <1>3, <1>4, <1>5 DEF SysNext

\* The answer the board writes: its queue and three digits.
LEMMA ReplyShape ==
  ASSUME TypeOK
  PROVE  LET r == ReadQueue \o PotDigits
         IN  /\ r # <<>> /\ Len(r) = 9 /\ \A i \in 7 .. 9 : r[i] \in 48 .. 57
             /\ SubSeq(r, 1, 6) = ReadQueue
<1>1. ReadQueue \in Seq(Byte) /\ Len(ReadQueue) = 6
  <2>1. ReadQueue \in [1 .. 6 -> Byte]
    BY DEF TypeOK, Command, numBitsPerCommand, Byte
  <2>2. [1 .. 6 -> Byte] \in {[1 .. n -> Byte] : n \in Nat} OBVIOUS
  <2>3. ReadQueue \in Seq(Byte) BY <2>1, <2>2, SeqDef
  <2>4. DOMAIN ReadQueue = 1 .. 6 /\ DOMAIN ReadQueue = 1 .. Len(ReadQueue) /\ Len(ReadQueue) \in Nat
    BY <2>1, <2>3, LenProperties
  <2> QED BY <2>3, <2>4
<1>2. pot \in 0 .. 1023 BY BoardAssumption DEF TypeOK
<1> DEFINE x == 48 + ((pot \div 100) % 10)
           y == 48 + ((pot \div 10) % 10)
           z == 48 + (pot % 10)
<1>3. x \in 48 .. 57 /\ y \in 48 .. 57 /\ z \in 48 .. 57 BY <1>2
<1>4. PotDigits = <<x, y, z>> BY DEF PotDigits
<1> HIDE DEF x, y, z
<1>5. /\ PotDigits \in Seq(Byte) /\ Len(PotDigits) = 3
      /\ \A i \in 1 .. 3 : PotDigits[i] \in 48 .. 57
  BY <1>3, <1>4 DEF Byte
<1> DEFINE r == ReadQueue \o PotDigits
<1>6. /\ r \in Seq(Byte) /\ Len(r) = Len(ReadQueue) + Len(PotDigits)
      /\ \A i \in 1 .. Len(ReadQueue) + Len(PotDigits) :
           r[i] = IF i <= Len(ReadQueue) THEN ReadQueue[i] ELSE PotDigits[i - Len(ReadQueue)]
  BY <1>1, <1>5, ConcatProperties, Zenon
<1>7. SubSeq(r, 1, 6) = ReadQueue
  <2>1. \A i \in 1 .. 6 : r[i] = ReadQueue[i] BY <1>1, <1>5, <1>6
  <2>2. \A i \in 1 .. 6 : r[i] \in Byte BY <1>1, <2>1, ElementOfSeq
  <2>3. SubSeq(ReadQueue, 1, 6) = ReadQueue BY <1>1, SubSeqFull
  <2> HIDE DEF r
  <2>4. /\ SubSeq(r, 1, 6) \in Seq(Byte) /\ Len(SubSeq(r, 1, 6)) = 6
        /\ \A i \in 1 .. 6 : SubSeq(r, 1, 6)[i] = r[i]
    BY <2>2, SubSeqProperties
  <2> QED BY <1>1, <2>1, <2>4, SeqEqual
<1>8. Len(r) = 9 /\ \A i \in 7 .. 9 : r[i] \in 48 .. 57 BY <1>1, <1>5, <1>6
<1>9. r # <<>> BY <1>8, EmptySeq
<1> QED BY <1>7, <1>8, <1>9

\* What becomes of the station's answer.
LEMMA InboxMoves ==
  ASSUME TypeOK, [SysNext]_sysVars
  PROVE  \/ inbox'[station] = inbox[station]
         \/ inbox'[station] = <<>> /\ (Lost' \/ StationReceives)
         \/ WRITE /\ inbox'[station] = ReadQueue \o PotDigits
<1> USE SystemAssumption
<1>1. inbox \in [Conns -> Seq(Byte)] BY DEF TypeOK, ServerTypeOK, StackTypeOK
<1>2. ASSUME NEW cs, Forget(cs) PROVE inbox'[station] = inbox[station] \/ (inbox'[station] = <<>> /\ Lost')
  BY <1>2 DEF Forget, Lost
<1>3. CASE Elsewhere BY <1>3 DEF Elsewhere, serverVars, stackVars, peerVars
<1>4. CASE protothread2 \/ ServerAvailable
  <2>1. \/ \E next : Promote(next)
        \/ \E n : Drop(n)
        \/ UNCHANGED stackVars
    BY <1>4
    DEF protothread2, ServerAvailable, ServiceSocketListen, WalkOn, WalkFrom, Look, LookFurther, Return
  <2>2. (\E n : Drop(n)) => \E cs : Forget(cs) BY DEF Drop
  <2> QED BY <1>2, <2>1, <2>2 DEF Promote, stackVars, peerVars
<1>5. CASE INITIALIZE \/ READ \/ ByteAvailable \/ PROCESSREAD
  BY <1>5 DEF INITIALIZE, READ, ByteAvailable, PROCESSREAD, serverVars, stackVars, peerVars
<1>6. CASE ReadLoop \/ CLOSE
  BY <1>6 DEF ReadLoop, ReadByte, CLOSE, ClientStop, serverVars, stackVars, peerVars
<1>7. CASE WRITE
  BY <1>7 DEF WRITE, ServerWrite
<1>8. CASE Link
  <2>1. CASE Connect(station) \/ Segment
    BY <2>1 DEF Connect, Establish, Segment, Arrive
  <2>2. CASE Hangup(station) \/ Reset(station)
    BY <1>2, <2>2 DEF Hangup, Reset
  <2>3. CASE Stack
    BY <1>2, <2>3 DEF Stack, CloseWaitTimeout, Closed, peerVars
  <2> QED BY <1>8, <2>1, <2>2, <2>3 DEF Link
<1>9. CASE StationStep BY <1>9 DEF StationStep
<1>10. CASE StationReceives BY <1>1, <1>10 DEF StationReceives, TakeReply
<1>11. CASE StationThrows BY <1>11 DEF StationThrows, vars, serverVars, stackVars, peerVars
<1> QED BY <1>3, <1>4, <1>5, <1>6, <1>7, <1>8, <1>9, <1>10, <1>11, SysCases

LEMMA AnswersEndStep ==
  ASSUME TypeOK, AnswersEnd, [SysNext]_sysVars PROVE AnswersEnd'
  BY InboxMoves, ReplyShape DEF AnswersEnd
-----------------------------------------------------------------------------
(* Type correctness of the station.                                        *)

LEMMA SendType ==
  ASSUME NEW t \in DOMAIN Turning, NEW n \in 0 .. 255, sendControlWord(t, n)
  PROVE  /\ word' \in [1 .. 6 -> 48 .. 57] /\ word' # <<>>
         /\ turning' \in DOMAIN Turning /\ speed' \in 0 .. 255
         /\ word' = LastWord'
  BY WordType DEF sendControlWord, LastWord

\* Three digits of an answer are read back as a number.
LEMMA ReadingType ==
  ASSUME NEW r \in Seq(Byte), Len(r) = 9, \A i \in 7 .. 9 : r[i] \in 48 .. 57
  PROVE  Number(SubSeq(r, 7, 9)) \in 0 .. 999
<1> DEFINE d == SubSeq(r, 7, 9)
<1>1. /\ Len(d) = 3 /\ \A i \in 1 .. 9 - 7 + 1 : d[i] = r[7 + i - 1]
  BY SubSeqProperties
<1> HIDE DEF d
<1>2. d[1] = r[7] /\ d[2] = r[8] /\ d[3] = r[9] BY <1>1
<1>3. d[1] \in 48 .. 57 /\ d[2] \in 48 .. 57 /\ d[3] \in 48 .. 57 BY <1>2
<1>4. Number(d) \in 0 .. 999
  <2>1. PICK x \in 48 .. 57, y \in 48 .. 57, z \in 48 .. 57 : d[1] = x /\ d[2] = y /\ d[3] = z BY <1>3
  <2>2. 100 * (x - 48) + 10 * (y - 48) + (z - 48) \in 0 .. 999 OBVIOUS
  <2> QED BY <2>1, <2>2 DEF Number
<1> QED BY <1>4 DEF d

LEMMA JoystickType ==
  ASSUME StationTypeOK, joystickControl PROVE StationTypeOK'
<1> USE DEF StationTypeOK, At
<1> DEFINE Sent == word' \in [1 .. 6 -> 48 .. 57] /\ turning' \in DOMAIN Turning /\ speed' \in 0 .. 255
<1>1. \A t \in {"right", "left", "centre", "hold"} : sendControlWord(t, speed) => Sent
  <2>1. \A t \in {"right", "left", "centre", "hold"} : t \in DOMAIN Turning BY DEF Turning
  <2>2. ASSUME NEW t \in DOMAIN Turning, sendControlWord(t, speed) PROVE Sent BY <2>2, SendType
  <2> HIDE DEF Sent
  <2> QED BY <2>1, <2>2, Zenon
<1>2. CASE readJoystickValues BY <1>2 DEF readJoystickValues, Free
<1>3. CASE Drive
  <2>1. CASE UNCHANGED <<word, turning, speed>> BY <1>3, <2>1 DEF Drive
  <2>2. CASE sendControlWord(turning, DriveSpeed)
    <3>1. DriveSpeed \in 0 .. 255 BY DriveSpeedType
    <3>2. word' \in [1 .. 6 -> 48 .. 57] /\ turning' \in DOMAIN Turning /\ speed' \in 0 .. 255
      BY <2>2, <3>1, SendType
    <3> QED BY <1>3, <3>2 DEF Drive
  <2> QED BY <1>3, <2>1, <2>2 DEF Drive
<1>4. CASE Straight
  <2>1. Sent BY <1>1, <1>4 DEF Straight
  <2> QED BY <1>4, <2>1 DEF Straight
<1>5. CASE Aside
  <2>1. stick.x \in -10 .. 10 BY StationAssumption DEF Tenths
  <2> DEFINE value == IF stick.x < 0 THEN -stick.x ELSE stick.x
  <2>2. value \in 0 .. 10 BY <2>1
  <2>3. prevJoystickValue' \in {value, prevJoystickValue} /\ at' \in {"dead", "steerRight", "steerLeft", "buttons"}
    BY <1>5, Zenon DEF Aside
  <2> HIDE DEF value
  <2> QED BY <1>5, <2>2, <2>3 DEF Aside
<1>6. CASE Steer
  <2>1. PICK here \in {"steerRight", "steerLeft"}, t \in {"right", "left"} :
          /\ (sendControlWord(t, speed) /\ at' = at) \/ (at' = "buttons" /\ UNCHANGED <<word, turning, speed>>)
          /\ UNCHANGED <<stick, directionOfDrive, prevJoystickValue, potentiometer>>
    BY <1>6 DEF Steer, SteerTo
  <2>2. CASE sendControlWord(t, speed) /\ at' = at
    <3>1. Sent BY <1>1, <2>2
    <3> QED BY <2>1, <2>2, <3>1
  <2>3. CASE at' = "buttons" /\ UNCHANGED <<word, turning, speed>> BY <2>1, <2>3
  <2> QED BY <2>1, <2>2, <2>3
<1>7. CASE Buttons
  <2>1. directionOfDrive' \in BOOLEAN BY <1>7 DEF Buttons
  <2>2. CASE UNCHANGED <<word, turning, speed>> BY <1>7, <2>1, <2>2 DEF Buttons
  <2>3. CASE sendControlWord("hold", speed)
    <3>1. Sent BY <1>1, <2>3
    <3> QED BY <1>7, <2>1, <3>1 DEF Buttons
  <2> QED BY <1>7, <2>2, <2>3 DEF Buttons
<1> QED BY <1>2, <1>3, <1>4, <1>5, <1>6, <1>7 DEF joystickControl

LEMMA StationTypeStep ==
  ASSUME TypeOK, StationTypeOK, AnswersEnd, [SysNext]_sysVars PROVE StationTypeOK'
<1>1. CASE StationStep BY <1>1, JoystickType DEF StationStep
<1>2. CASE StationReceives
  <2>1. inbox[station] \in Seq(Byte) BY SystemAssumption DEF TypeOK, ServerTypeOK, StackTypeOK
  <2>2. potentiometer' \in 0 .. 999
    BY <1>2, <2>1, ReadingType DEF StationReceives, Receive, AnswersEnd
  <2> QED BY <1>2, <2>2 DEF StationReceives, Receive, StationTypeOK
<1>3. CASE StationThrows BY <1>3 DEF StationThrows, Throws, StationTypeOK, At
<1>4. CASE UNCHANGED stationVars BY <1>4 DEF stationVars, StationTypeOK
<1> QED BY <1>1, <1>2, <1>3, <1>4, SysCases DEF Elsewhere, Link

\* The board keeps its invariants whatever the station sends.
LEMMA StationSends ==
  ASSUME BoardIInv, StationTypeOK', StationStep PROVE BoardIInv'
<1>1. /\ sending' = [sending EXCEPT ![station] = word']
      /\ UNCHANGED <<sm, conn, rx, listening, skl, call, psklNow, client, peer, inbox, boardVars>>
  BY DEF StationStep, socketVars, listVars
<1>2. word' \in Seq(Byte)
  <2>1. CASE word' = <<>> BY <2>1
  <2>2. CASE word' \in [1 .. 6 -> 48 .. 57]
    <3>1. word' \in [1 .. 6 -> Byte] BY <2>2 DEF Byte
    <3>2. [1 .. 6 -> Byte] \in {[1 .. n -> Byte] : n \in Nat} OBVIOUS
    <3> QED BY <3>1, <3>2, SeqDef
  <2> QED BY <2>1, <2>2 DEF StationTypeOK
<1>3. ServerTypeOK' BY <1>1, <1>2 DEF BoardIInv, ServerIInv, ServerTypeOK, StackTypeOK
<1>4. ServerIInv'
  BY <1>1, <1>3 DEF BoardIInv, ServerIInv, NoSocketLeak, Listed, FreeIsClean, OneSocketPerClient, Bookkeeping
<1>5. TypeOK' BY <1>1, <1>3 DEF BoardIInv, TypeOK, boardVars, threadVars, commVars, motorVars
<1> QED
  BY <1>1, <1>4, <1>5
  DEF BoardIInv, Collecting, Driven, StoppedAfterClose, boardVars, threadVars, commVars, motorVars

LEMMA SysTypeStep ==
  ASSUME BoardIInv, StationTypeOK, AnswersEnd, [SysNext]_sysVars
  PROVE  BoardIInv' /\ StationTypeOK' /\ AnswersEnd'
<1>1. StationTypeOK' /\ AnswersEnd' BY StationTypeStep, AnswersEndStep DEF BoardIInv
<1>2. CASE StationStep BY <1>1, <1>2, StationSends
<1>3. CASE [Next]_vars
  <2>1. ServerIInv' BY <1>3, BoardStepsServer, ServerStepInv DEF BoardIInv
  <2>2. BoardTypeOK' /\ Collecting' /\ Driven' /\ StoppedAfterClose'
    BY <1>3, BoardTypeStep, CollectingStep, DrivenStep, StoppedStep DEF BoardIInv
  <2> QED BY <1>1, <2>1, <2>2 DEF BoardIInv, TypeOK, BoardTypeOK, ServerIInv
<1> QED BY <1>1, <1>2, <1>3, SysStepsBoard

LEMMA SysTypeInductive == SysSpec => [](BoardIInv /\ StationTypeOK /\ AnswersEnd)
<1>1. ASSUME SysInit PROVE BoardIInv /\ StationTypeOK /\ AnswersEnd
  <2>1. BoardIInv BY <1>1, BoardInit DEF SysInit
  <2>2. StationTypeOK
    <3>1. "hold" \in DOMAIN Turning BY DEF Turning
    <3> QED BY <1>1, <3>1 DEF SysInit, StationInit, StationTypeOK, At
  <2>3. AnswersEnd BY <1>1, SystemAssumption DEF SysInit, Init, ServerInit, StackInit, AnswersEnd
  <2> QED BY <2>1, <2>2, <2>3
<1> QED BY <1>1, SysTypeStep, PTL DEF SysSpec

\* Type correctness of the control station joined to the board.
THEOREM SystemTypeCorrect == SysSpec => []SysTypeOK
<1>1. BoardIInv /\ StationTypeOK => SysTypeOK BY DEF BoardIInv, SysTypeOK
<1> QED BY <1>1, SysTypeInductive, PTL
-----------------------------------------------------------------------------
(* The word from hand to hand.                                             *)

LEMMA CollectedInLoopStep ==
  ASSUME TypeOK, CollectedInLoop, [SysNext]_sysVars PROVE CollectedInLoop'
<1> USE DEF CollectedInLoop
<1>1. CASE Elsewhere BY <1>1 DEF Elsewhere, Reading, commVars
<1>2. CASE protothread2 \/ ServerAvailable \/ INITIALIZE \/ PROCESSREAD \/ WRITE \/ CLOSE
  BY <1>2 DEF protothread2, ServerAvailable, INITIALIZE, PROCESSREAD, WRITE, CLOSE, commVars
<1>3. CASE READ \/ ByteAvailable BY <1>3 DEF READ, ByteAvailable, commVars
<1>4. CASE ReadLoop BY <1>4 DEF ReadLoop, ReadByteOf
<1>5. CASE Link \/ StationStep \/ StationReceives \/ StationThrows
  BY <1>5 DEF Link, StationStep, StationReceives, StationThrows, vars, boardVars, threadVars, commVars
<1> QED BY <1>1, <1>2, <1>3, <1>4, <1>5, SysCases

\* The station's steps leave its word alone or send another one.
LEMMA StationWords ==
  ASSUME StationTypeOK, joystickControl
  PROVE  /\ word = <<>>
         /\ UNCHANGED <<word, turning, speed>> \/ (word' # <<>> /\ word' = LastWord')
<1>1. \A t \in {"right", "left", "centre", "hold"}, n \in 0 .. 255 :
        sendControlWord(t, n) => word' # <<>> /\ word' = LastWord'
  <2>1. \A t \in {"right", "left", "centre", "hold"} : t \in DOMAIN Turning BY DEF Turning
  <2>2. ASSUME NEW t \in DOMAIN Turning, NEW n \in 0 .. 255, sendControlWord(t, n)
        PROVE  word' # <<>> /\ word' = LastWord'
    BY <2>2, SendType
  <2> QED BY <2>1, <2>2, Zenon
<1>2. speed \in 0 .. 255 /\ DriveSpeed \in 0 .. 255 /\ turning \in {"right", "left", "centre", "hold"}
  BY DriveSpeedType DEF StationTypeOK, Turning
<1>3. CASE readJoystickValues BY <1>3 DEF readJoystickValues, Free
<1>4. CASE Drive BY <1>1, <1>2, <1>4 DEF Drive, Free
<1>5. CASE Straight BY <1>1, <1>2, <1>5 DEF Straight, Free
<1>6. CASE Aside BY <1>6 DEF Aside, Free
<1>7. CASE Steer BY <1>1, <1>2, <1>7 DEF Steer, SteerTo, Free
<1>8. CASE Buttons BY <1>1, <1>2, <1>8 DEF Buttons, Free
<1> QED BY <1>3, <1>4, <1>5, <1>6, <1>7, <1>8 DEF joystickControl

LEMMA WordSentStep ==
  ASSUME StationTypeOK, WordSent, [SysNext]_sysVars PROVE WordSent'
<1>1. CASE UNCHANGED stationVars BY <1>1 DEF WordSent, LastWord, stationVars
<1>2. CASE StationStep BY <1>2, StationWords DEF StationStep, WordSent, LastWord
<1>3. CASE StationReceives BY <1>3 DEF StationReceives, Receive, WordSent
<1>4. CASE StationThrows BY <1>4 DEF StationThrows, Throws, WordSent
<1> QED BY <1>1, <1>2, <1>3, <1>4, SysCases DEF Elsewhere, Link

\* While the connection lasts, the station's socket is established.
LEMMA OwnSocket ==
  ASSUME BoardIInv, Alone, ~Lost, NEW s \in Sockets, conn[s] = station
  PROVE  /\ peer[station] = "open" /\ sm[s] = "established"
         /\ \A t \in Sockets : conn[t] = station => t = s
<1>1. /\ \A t, u \in Sockets : conn[t] = conn[u] /\ conn[t] # NoConn => t = u
      /\ \A t \in Sockets : conn[t] # NoConn => peer[conn[t]] \in {"open", "gone"}
      /\ station # NoConn
  BY SystemAssumption, ServerAssumption
  DEF BoardIInv, ServerIInv, OneSocketPerClient, Bookkeeping
<1>2. peer[station] = "open" BY <1>1, SystemAssumption DEF Lost
<1>3. PICK t \in Sockets : conn[t] = station /\ sm[t] = "established" BY <1>2 DEF Alone
<1> QED BY <1>1, <1>2, <1>3

\* Connections other than the station's never end, because they never begin.
LEMMA ForgetOthers ==
  ASSUME BoardIInv, Alone, NEW S \in SUBSET Sockets, Forget({conn[s] : s \in S})
  PROVE  /\ \A c \in Conns \ {station} : peer'[c] = "idle"
         /\ Lost => Lost'
         /\ (\A s \in S : conn[s] # station)
              => /\ peer'[station] = peer[station] /\ sending'[station] = sending[station]
                 /\ inbox'[station] = inbox[station]
         /\ (\E s \in S : conn[s] = station) => Lost'
<1> USE SystemAssumption
<1>1. \A s \in Sockets : conn[s] # NoConn => peer[conn[s]] # "idle"
  BY DEF BoardIInv, ServerIInv, Bookkeeping
<1>2. \A c \in Conns \ {station} : c # NoConn BY ServerAssumption
<1>3. \A c \in Conns \ {station} : c \notin {conn[s] : s \in S} BY <1>1, <1>2 DEF Alone
<1> QED BY <1>3 DEF Forget, Lost, Alone

\* The list holds sockets.
LEMMA ListedSockets == ASSUME BoardIInv PROVE Listed \subseteq Sockets
<1>1. skl \in Seq(Sockets) BY DEF BoardIInv, TypeOK, ServerTypeOK
<1>2. DOMAIN skl = 1 .. Len(skl) BY <1>1, LenProperties
<1> QED BY <1>1, <1>2, ElementOfSeq DEF Listed

\* What every step inside available() leaves the station.
StationKept ==
  /\ \A c \in Conns \ {station} : peer'[c] = "idle"
  /\ Lost => Lost'
  /\ ~Lost => /\ peer'[station] = peer[station] /\ sending'[station] = sending[station]
              /\ inbox'[station] = inbox[station] /\ rx' = rx
              /\ \A s \in Sockets : conn'[s] = station <=> conn[s] = station
              /\ \A s \in Sockets : conn[s] = station =>
                   sm'[s] = "established" /\ (s \in Listed => s \in Listed')

LEMMA PromoteKeeps ==
  ASSUME BoardIInv, Alone, NewClient, NEW next \in Sockets \cup {NoSocket}, TCPOpen(next), Promote(next)
  PROVE  StationKept
<1>1. next \in Sockets => sm[next] = "closed" BY ServerAssumption DEF TCPOpen, Lowest
<1>2. listening \in Sockets /\ skl \in Seq(Sockets)
  BY DEF NewClient, BoardIInv, ServerIInv, ServerTypeOK
<1>3. /\ skl' = <<listening>> \o skl
      /\ sm' = [s \in Sockets |-> IF s = next THEN "listen" ELSE sm[s]]
      /\ UNCHANGED <<conn, rx, peer, sending, inbox>>
  BY DEF Promote, peerVars
<1>4. Listed \subseteq Listed' BY <1>2, <1>3, PromotedList
<1>5. ~Lost => \A s \in Sockets : conn[s] = station => sm[s] = "established" BY OwnSocket
<1>6. \A s \in Sockets : sm[s] = "established" => sm'[s] = "established" BY <1>1, <1>3
<1> QED BY <1>3, <1>4, <1>5, <1>6 DEF StationKept, Alone, Lost

LEMMA DropKeeps ==
  ASSUME BoardIInv, Alone, NEW n \in 1 .. Len(skl), ~Connected(skl[n]), Drop(n)
  PROVE  StationKept
<1> DEFINE s == skl[n]
           freed == IF Released(sm[s]) = "closed" THEN {conn[s]} ELSE {}
           S == IF Released(sm[s]) = "closed" THEN {s} ELSE {}
<1>1. /\ skl \in Seq(Sockets) /\ sm \in [Sockets -> SocketState]
      /\ conn \in [Sockets -> Conns \cup {NoConn}]
  BY DEF BoardIInv, ServerIInv, ServerTypeOK, StackTypeOK
<1>2. s \in Sockets BY <1>1, ElementOfSeq
<1>3. /\ skl' = Unlinked(n) /\ sm' = [sm EXCEPT ![s] = Released(@)]
      /\ conn' = [conn EXCEPT ![s] = IF @ \in freed THEN NoConn ELSE @]
      /\ Forget(freed) /\ rx' = rx
  BY DEF Drop
<1>4. Listed \ {s} \subseteq Listed' BY <1>1, <1>3, UnlinkedListed
<1>5. sm[s] # "established" BY DEF Connected
<1>6. freed = {conn[t] : t \in S} BY Zenon
<1>7. S \in SUBSET Sockets /\ \A t \in S : t = s BY <1>2
<1> HIDE DEF s, freed, S
<1>8. ~Lost => conn[s] # station BY <1>2, <1>5, OwnSocket
<1>9. \A t \in Sockets : t # s => sm'[t] = sm[t] /\ conn'[t] = conn[t] BY <1>1, <1>3
<1>10. conn'[s] \in {conn[s], NoConn} /\ station # NoConn
  BY <1>1, <1>2, <1>3, SystemAssumption, ServerAssumption
<1>11. ~Lost => \A t \in Sockets : conn'[t] = station <=> conn[t] = station
  BY <1>8, <1>9, <1>10
<1>12. ~Lost => \A t \in Sockets : conn[t] = station =>
                  sm'[t] = "established" /\ (t \in Listed => t \in Listed')
  BY <1>4, <1>8, <1>9, OwnSocket
<1>13. Forget({conn[t] : t \in S}) BY <1>3, <1>6
<1>14. /\ \A c \in Conns \ {station} : peer'[c] = "idle"
       /\ Lost => Lost'
       /\ ~Lost => /\ peer'[station] = peer[station] /\ sending'[station] = sending[station]
                   /\ inbox'[station] = inbox[station]
  BY <1>7, <1>8, <1>13, ForgetOthers
<1> QED BY <1>3, <1>11, <1>12, <1>14 DEF StationKept

LEMMA AvailableKeeps ==
  ASSUME BoardIInv, Alone, Available
  PROVE  StationKept /\ (call' = "none" /\ client' # NoSocket => client' \in Listed' /\ rx[client'] # <<>>)
<1>1. Len(skl) \in Nat /\ psklNow \in Nat \ {0}
  BY LenProperties DEF BoardIInv, ServerIInv, ServerTypeOK
<1>2. skl \in Seq(Sockets) /\ DOMAIN skl = 1 .. Len(skl)
  BY LenProperties DEF BoardIInv, ServerIInv, ServerTypeOK
<1>3. ASSUME UNCHANGED <<stackVars, skl>> PROVE StationKept
  <2>1. UNCHANGED <<sm, conn, rx, peer, sending, inbox>> /\ Listed' = Listed
    BY <1>3 DEF stackVars, socketVars, peerVars, Listed
  <2> QED BY <2>1, OwnSocket DEF StationKept, Alone, Lost
<1>4. CASE NewClient /\ \E next \in Sockets \cup {NoSocket} : TCPOpen(next) /\ Promote(next)
  BY <1>4, PromoteKeeps DEF Promote
<1>5. ASSUME NEW first \in Nat \ {0}, WalkFrom(first) PROVE StationKept /\ call' # "none"
  <2>1. CASE \E n \in first .. Len(skl) : ~Connected(skl[n]) /\ Drop(n)
    <3>1. PICK n \in first .. Len(skl) : ~Connected(skl[n]) /\ Drop(n) BY <2>1
    <3>2. n \in 1 .. Len(skl) BY <1>1
    <3> QED BY <3>1, <3>2, DropKeeps DEF Drop
  <2>2. CASE call' = "scan" /\ UNCHANGED <<stackVars, skl>> BY <1>3, <2>2
  <2> QED BY <1>5, <2>1, <2>2 DEF WalkFrom
<1>6. CASE Look
  <2>1. CASE Return(NoSocket) BY <1>3, <2>1 DEF Return
  <2>2. CASE psklNow \in 1 .. Len(skl) /\ rx[skl[psklNow]] # <<>> /\ Return(skl[psklNow])
    <3>1. skl[psklNow] \in Listed BY <1>2, <2>2 DEF Listed
    <3>2. client' = skl[psklNow] /\ Listed' = Listed BY <2>2 DEF Return, Listed
    <3> QED BY <1>3, <2>2, <3>1, <3>2 DEF Return
  <2>3. CASE LookFurther /\ call = "scan" BY <1>3, <2>3 DEF LookFurther
  <2>4. psklNow \in 1 .. Len(skl) \/ psklNow > Len(skl) BY <1>1
  <2> QED BY <1>6, <2>1, <2>2, <2>3, <2>4 DEF Look
<1>7. CASE WalkFrom(1) \/ WalkFrom(psklNow) BY <1>1, <1>5, <1>7
<1> QED BY <1>4, <1>6, <1>7 DEF Available, ServiceSocketListen, WalkOn

\* What each step has to show.
KeepsHand ==
  /\ Alone' /\ (Lost => Lost')
  /\ ~Lost /\ ~Lost' => Handed'

LEMMA SameServer ==
  ASSUME Alone, UNCHANGED <<serverVars, word>>
  PROVE  Alone' /\ Lost' = Lost
  BY DEF Alone, Lost, serverVars, stackVars, socketVars, peerVars

LEMMA HandElsewhere == ASSUME SysIInv, Elsewhere PROVE KeepsHand
<1>1. UNCHANGED <<sm, conn, rx, peer, sending, inbox, skl, client, word, state, rgbRead, ReadQueue, bitsReceived>>
  BY DEF Elsewhere, serverVars, stackVars, socketVars, peerVars, listVars, commVars, stationVars
<1>2. (Reading' <=> Reading) /\ (pc' = "switch" => pc = "switch") /\ (pc' = "read" => pc = "read")
  BY DEF Elsewhere, Reading
<1>3. Alone' /\ Lost' = Lost BY <1>1, SameServer DEF SysIInv, Elsewhere
<1>4. ASSUME ~Lost PROVE Handed'
  <2>1. ClientHasBytes' BY <1>1, <1>2, <1>4 DEF SysIInv, Handed, ClientHasBytes, Listed
  <2>2. Ready => Ready' BY <1>1, <1>2 DEF Ready, NoBytes
  <2>3. InTransit => InTransit' BY <1>1, <1>2 DEF InTransit, CutAt, Listed
  <2>4. Collected => Collected' BY <1>1 DEF Collected, NoBytes, StationListed, Listed
  <2>5. InQueue => InQueue' BY <1>1 DEF InQueue, NoBytes, StationListed, Listed
  <2>6. AnswerDue => AnswerDue' BY <1>1, <1>2 DEF AnswerDue, NoBytes
  <2> QED BY <1>4, <2>1, <2>2, <2>3, <2>4, <2>5, <2>6 DEF SysIInv, Handed
<1> QED BY <1>3, <1>4 DEF KeepsHand

\* A new body of protothread2 looks at the server first.
LEMMA HandBegin == ASSUME SysIInv, protothread2 \/ ServerAvailable, UNCHANGED stationVars PROVE KeepsHand
<1>1. /\ Available /\ pc \in {"protothread2", "service"} /\ pc' \in {"service", "switch"}
      /\ pc' = "switch" => call' = "none"
      /\ UNCHANGED <<word, state, rgbRead, ReadQueue, bitsReceived>>
  BY DEF protothread2, ServerAvailable, Available, commVars, stationVars
<1>2. ~Reading /\ ~Reading' /\ pc' # "read" BY <1>1 DEF Reading
<1>3. StationKept /\ (call' = "none" /\ client' # NoSocket => client' \in Listed' /\ rx[client'] # <<>>)
  BY <1>1, AvailableKeeps DEF SysIInv
<1>4. /\ \A c \in Conns \ {station} : peer'[c] = "idle"
      /\ Lost => Lost'
      /\ ~Lost => /\ peer'[station] = peer[station] /\ sending'[station] = sending[station]
                  /\ inbox'[station] = inbox[station] /\ rx' = rx
                  /\ \A s \in Sockets : conn'[s] = station <=> conn[s] = station
                  /\ \A s \in Sockets : conn[s] = station =>
                       sm'[s] = "established" /\ (s \in Listed => s \in Listed')
  BY <1>3 DEF StationKept
<1>5. ASSUME ~Lost PROVE Alone' /\ Handed'
  <2>1. Alone' BY <1>1, <1>4, <1>5 DEF SysIInv, Alone, Lost
  <2>2. ClientHasBytes' BY <1>1, <1>3, <1>4, <1>5 DEF ClientHasBytes
  <2>3. NoBytes => NoBytes' BY <1>4, <1>5 DEF NoBytes
  <2>4. StationListed => StationListed'
    <3>1. Listed \subseteq Sockets BY ListedSockets DEF SysIInv
    <3> QED BY <1>4, <1>5, <3>1 DEF StationListed
  <2>5. Ready => Ready' BY <1>1, <1>2, <1>4, <1>5, <2>3 DEF Ready
  <2>6. InTransit => InTransit' BY <1>1, <1>2, <1>4, <1>5 DEF InTransit, CutAt
  <2>7. Collected => Collected' BY <1>1, <1>4, <1>5, <2>3, <2>4 DEF Collected
  <2>8. InQueue => InQueue' BY <1>1, <1>4, <1>5, <2>3, <2>4 DEF InQueue
  <2>9. AnswerDue => AnswerDue' BY <1>1, <1>2, <1>4, <1>5, <2>3 DEF AnswerDue
  <2> QED BY <1>5, <2>1, <2>2, <2>5, <2>6, <2>7, <2>8, <2>9 DEF SysIInv, Handed
<1>6. Lost => Alone' BY <1>4 DEF Alone, Lost
<1> QED BY <1>4, <1>5, <1>6 DEF KeepsHand

\* The bodies that call nothing of the server, and the loop's first half.
LEMMA HandBody ==
  ASSUME SysIInv, INITIALIZE \/ READ \/ ByteAvailable \/ PROCESSREAD, UNCHANGED stationVars
  PROVE  KeepsHand
<1>1. UNCHANGED <<sm, conn, rx, peer, sending, inbox, skl, client, word, bitsReceived>>
  BY DEF INITIALIZE, READ, ByteAvailable, PROCESSREAD, serverVars, stackVars, socketVars, peerVars,
         listVars, commVars, stationVars
<1>2. Alone' /\ Lost' = Lost
  BY SameServer DEF SysIInv, INITIALIZE, READ, ByteAvailable, PROCESSREAD, stationVars
<1>3. pc' # "switch" BY DEF INITIALIZE, READ, ByteAvailable, PROCESSREAD, Done
<1>4. ClientHasBytes' BY <1>3 DEF ClientHasBytes
<1>5. NoBytes' = NoBytes /\ StationListed' = StationListed /\ Listed' = Listed
  BY <1>1 DEF NoBytes, StationListed, Listed
<1> SUFFICES ASSUME ~Lost PROVE Handed'
  BY <1>2 DEF KeepsHand
<1>6. Handed /\ TypeOK /\ Collecting BY DEF SysIInv, BoardIInv
<1>7. CASE INITIALIZE
  <2>1. /\ state = "INITIALIZE" /\ state' = "READ" /\ ~Reading' /\ pc' # "read"
        /\ UNCHANGED <<rgbRead, ReadQueue>>
    BY <1>7 DEF INITIALIZE, Done, Reading
  <2>2. Ready \/ InTransit BY <1>6, <2>1 DEF Handed, Collected, InQueue, AnswerDue
  <2>3. Ready => Ready' BY <1>1, <1>5, <2>1 DEF Ready
  <2>4. InTransit => InTransit' BY <1>1, <2>1 DEF InTransit, CutAt, Reading
  <2> QED BY <1>4, <2>2, <2>3, <2>4 DEF Handed
<1>8. CASE READ
  <2>1. pc = "switch" /\ state = "READ" /\ ~Reading BY <1>8 DEF READ, Reading
  <2>2. client # NoSocket => client \in Listed /\ rx[client] # <<>>
    BY <1>6, <2>1 DEF Handed, ClientHasBytes
  <2>3. Ready \/ InTransit \/ AnswerDue BY <1>6, <2>1 DEF Handed, Collected, InQueue
  <2>4. CASE client = NoSocket
    <3>1. pc' = "protothread2" /\ UNCHANGED <<state, rgbRead, ReadQueue>>
      BY <1>8, <2>4 DEF READ, HasData, Done
    <3>2. ~Reading' /\ pc' # "read" BY <3>1 DEF Reading
    <3>3. Ready => Ready' BY <1>1, <1>5, <3>1, <3>2 DEF Ready
    <3>4. InTransit => InTransit' BY <1>1, <3>1, <3>2 DEF InTransit, CutAt
    <3>5. AnswerDue => AnswerDue' BY <1>1, <1>5, <3>1, <3>2 DEF AnswerDue
    <3> QED BY <1>4, <2>3, <3>3, <3>4, <3>5 DEF Handed
  <2>5. CASE client # NoSocket
    <3>1. client \in Sockets BY <2>2, <2>5, <1>6 DEF TypeOK, ServerTypeOK
    <3>2. HasData BY <2>2, <2>5 DEF HasData
    <3>3. pc' = "available" /\ UNCHANGED <<state, rgbRead, ReadQueue>>
      BY <1>8, <2>5, <3>2 DEF READ
    <3>4. InTransit BY <2>2, <2>3, <2>5, <3>1 DEF Ready, AnswerDue, NoBytes
    <3>5. conn[client] = station BY <2>2, <2>5, <3>1, <3>4 DEF InTransit
    <3>6. InTransit' BY <1>1, <1>5, <2>2, <2>5, <3>3, <3>4, <3>5 DEF InTransit, CutAt, Reading
    <3> QED BY <1>4, <3>6 DEF Handed
  <2> QED BY <2>4, <2>5
<1>9. CASE ByteAvailable
  <2>1. /\ pc = "available" /\ HasData /\ pc' = "read" /\ UNCHANGED <<state, rgbRead, ReadQueue>>
        /\ Reading /\ state = "READ"
    BY <1>6, <1>9 DEF ByteAvailable, commVars, Reading, Collecting
  <2>2. InTransit BY <1>6, <2>1 DEF Handed, Ready, Collected, InQueue, AnswerDue
  <2>3. InTransit' BY <1>1, <1>5, <2>1, <2>2 DEF InTransit, CutAt, HasData
  <2> QED BY <1>4, <2>3 DEF Handed
<1>10. CASE PROCESSREAD
  <2>1. pc = "switch" /\ state = "PROCESSREAD" /\ rgbRead' = rgbRead BY <1>10 DEF PROCESSREAD
  <2>2. Collected BY <1>6, <2>1 DEF Handed, Ready, InTransit, InQueue, AnswerDue
  <2>3. rgbRead[1] \in {48, 49}
    <3>1. turning \in DOMAIN Turning /\ speed \in 0 .. 255 BY DEF SysIInv, StationTypeOK
    <3>2. word = Turning[turning] \o Digits(speed) BY <2>2 DEF SysIInv, WordSent, LastWord, Collected
    <3>3. word[1] \in {48, 49} BY <3>1, <3>2, WordType
    <3> QED BY <2>2, <3>3 DEF Collected
  <2>4. ReadQueue' = rgbRead /\ state' = "WRITE" BY <1>10, <2>3 DEF PROCESSREAD
  <2>5. InQueue' BY <1>1, <1>5, <2>2, <2>4 DEF InQueue, Collected
  <2> QED BY <1>4, <2>5 DEF Handed
<1> QED BY <1>7, <1>8, <1>9, <1>10

\* A byte moves from the received to the collected ones; the sixth completes
\* the word.
LEMMA HandReadLoop == ASSUME SysIInv, ReadLoop, UNCHANGED stationVars PROVE KeepsHand
<1>1. /\ UNCHANGED <<sm, conn, peer, sending, inbox, skl, client, word>> /\ pc = "read"
      /\ pc' # "switch"
  BY DEF ReadLoop, ReadByte, ReadByteOf, Done, serverVars, stackVars, socketVars, peerVars, listVars, stationVars
<1>2. Alone' /\ Lost' = Lost BY <1>1 DEF SysIInv, Alone, Lost
<1>3. ClientHasBytes' BY <1>1 DEF ClientHasBytes
<1> SUFFICES ASSUME ~Lost PROVE Handed'
  BY <1>2 DEF KeepsHand
<1>4. Reading /\ state = "READ" BY <1>1 DEF Reading, SysIInv, BoardIInv, Collecting
<1>5. InTransit BY <1>4 DEF SysIInv, Handed, Ready, Collected, InQueue, AnswerDue
<1>6. client \in Listed /\ client \in Sockets /\ client # NoSocket /\ conn[client] = station /\ rx[client] # <<>>
  BY <1>1, <1>4, <1>5, ListedSockets, ServerAssumption DEF InTransit, SysIInv
<1>7. ReadByte /\ ReadByteOf(Head(rx[client])) BY <1>6 DEF ReadLoop, HasData
<1> DEFINE r == rx[client]
           k == bitsReceived
<1>8. /\ r \in Seq(Byte) /\ r # <<>> /\ k \in 0 .. 5 /\ rgbRead \in Command
      /\ sending[station] \in Seq(Byte) /\ word \in [1 .. 6 -> 48 .. 57]
  BY <1>5, <1>6, SystemAssumption
  DEF SysIInv, BoardIInv, TypeOK, ServerTypeOK, StackTypeOK, numBitsPerCommand, StationTypeOK, InTransit
<1>9. /\ Len(r) \in Nat \ {0} /\ Len(sending[station]) \in Nat
      /\ Tail(r) \in Seq(Byte) /\ Len(Tail(r)) = Len(r) - 1
      /\ \A i \in 1 .. Len(Tail(r)) : Tail(r)[i] = r[i + 1]
      /\ Head(r) = r[1]
  <2> HIDE DEF r
  <2> QED BY <1>8, HeadTailProperties, EmptySeq, LenProperties
<1>10. /\ k + Len(r) + Len(sending[station]) = 6
       /\ \A i \in 1 .. k : rgbRead[i] = word[i]
       /\ \A i \in 1 .. Len(r) : r[i] = word[k + i]
       /\ \A i \in 1 .. Len(sending[station]) : sending[station][i] = word[k + Len(r) + i]
  BY <1>5, <1>6 DEF InTransit, CutAt
<1>11. rx' = [rx EXCEPT ![client] = Tail(r)] /\ rgbRead' = [rgbRead EXCEPT ![k + 1] = r[1]]
  BY <1>7, <1>9 DEF ReadByte, ReadByteOf
<1>12. rx'[client] = Tail(r) /\ \A t \in Sockets \ {client} : rx'[t] = <<>> /\ conn[t] # station
  <2>1. rx \in [Sockets -> Seq(Byte)] BY DEF SysIInv, BoardIInv, TypeOK, ServerTypeOK, StackTypeOK
  <2>2. \A t \in Sockets : conn[t] = station => t = client
    BY <1>6, OwnSocket DEF SysIInv
  <2>3. \A t \in Sockets \ {client} : rx[t] = <<>> BY <1>5, <2>2 DEF InTransit
  <2> HIDE DEF r
  <2> QED BY <1>6, <1>11, <2>1, <2>2, <2>3
<1>13. rgbRead' \in [1 .. 6 -> 0 .. 255] /\ \A i \in 1 .. k + 1 : rgbRead'[i] = word[i]
  <2>1. rgbRead \in [1 .. 6 -> 0 .. 255] BY <1>8 DEF Command, numBitsPerCommand
  <2> HIDE DEF r, k
  <2>2. 1 \in 1 .. Len(r) BY <1>9
  <2>3. r[1] \in 0 .. 255 BY <1>8, <2>2, ElementOfSeq DEF Byte
  <2>4. r[1] = word[k + 1] BY <1>10, <2>2
  <2>5. k + 1 \in 1 .. 6 BY <1>8
  <2>6. rgbRead' \in [1 .. 6 -> 0 .. 255] BY <1>11, <2>1, <2>3, <2>5
  <2>7. rgbRead'[k + 1] = word[k + 1] BY <1>11, <2>1, <2>4, <2>5
  <2>8. ASSUME NEW i \in 1 .. k PROVE rgbRead'[i] = word[i]
    <3>1. i \in 1 .. 6 /\ i # k + 1 BY <1>8
    <3>2. rgbRead'[i] = rgbRead[i] BY <1>11, <2>1, <3>1
    <3> QED BY <1>10, <3>2
  <2>9. \A i \in 1 .. k + 1 : i \in 1 .. k \/ i = k + 1 BY <1>8
  <2> QED BY <2>6, <2>7, <2>8, <2>9
<1> HIDE DEF r
<1>14. CASE k + 1 = 6
  <2>1. state' = "PROCESSREAD" /\ pc' = "protothread2" /\ ~Reading'
    BY <1>7, <1>14 DEF ReadByteOf, numBitsPerCommand, Done, Reading
  <2>2. Len(r) = 1 /\ Len(sending[station]) = 0
    <3> DEFINE m == Len(r)
               n == Len(sending[station])
    <3>1. m \in Nat \ {0} /\ n \in Nat BY <1>9
    <3>2. k + m + n = 6 BY <1>10
    <3>3. k = 5 BY <1>8, <1>14
    <3> HIDE DEF k, m, n
    <3>4. m = 1 /\ n = 0 BY <3>1, <3>2, <3>3
    <3> QED BY <3>4 DEF m, n
  <2>3. sending[station] = <<>> /\ Tail(r) = <<>>
    <3>1. sending[station] = <<>> BY <1>8, <2>2, EmptySeq
    <3>2. Len(Tail(r)) = 0 BY <1>9, <2>2
    <3>3. Tail(r) = <<>> BY <1>9, <3>2, EmptySeq
    <3> QED BY <3>1, <3>3
  <2>4. rgbRead' = word BY <1>8, <1>13, <1>14
  <2>5. NoBytes' BY <1>1, <1>12, <2>3 DEF NoBytes
  <2>6. Collected' BY <1>1, <1>5, <1>6, <2>1, <2>4, <2>5 DEF Collected, InTransit, StationListed, Listed
  <2> QED BY <1>3, <2>6 DEF Handed
<1>15. CASE k + 1 # 6
  <2>1. state' = "READ" /\ pc' = "available" /\ bitsReceived' = k + 1
    BY <1>4, <1>7, <1>15 DEF ReadByteOf, numBitsPerCommand
  <2>2. CutAt(client)'
    <3>1. bitsReceived' + Len(Tail(r)) + Len(sending[station]) = 6 BY <1>8, <1>9, <1>10, <2>1
    <3>2. \A i \in 1 .. Len(Tail(r)) : Tail(r)[i] = word[bitsReceived' + i]
      <4> SUFFICES ASSUME NEW i \in 1 .. Len(Tail(r)) PROVE Tail(r)[i] = word[k + 1 + i]
        BY <2>1
      <4>1. i + 1 \in 1 .. Len(r) BY <1>9
      <4>2. r[i + 1] = word[k + (i + 1)] BY <1>10, <4>1
      <4> QED BY <1>8, <1>9, <4>2
    <3>3. k + 1 + Len(Tail(r)) = k + Len(r) BY <1>8, <1>9
    <3> QED BY <1>1, <1>10, <1>12, <1>13, <2>1, <3>1, <3>2, <3>3 DEF CutAt
  <2>3. InTransit'
    BY <1>1, <1>5, <1>6, <1>12, <2>1, <2>2 DEF InTransit, Listed
  <2> QED BY <1>3, <2>3 DEF Handed
<1> QED BY <1>14, <1>15

\* The queued word is answered to the station, whose socket is listed.
LEMMA HandWrite == ASSUME SysIInv, WRITE, UNCHANGED stationVars PROVE KeepsHand
<1>1. /\ UNCHANGED <<sm, conn, rx, peer, sending, skl, client, word, ReadQueue>>
      /\ pc = "switch" /\ state = "WRITE" /\ state' = "READ" /\ pc' = "protothread2"
      /\ ServerWrite(ReadQueue \o PotDigits)
  BY DEF WRITE, ServerWrite, socketVars, listVars, stationVars
<1>2. Alone' /\ Lost' = Lost BY <1>1 DEF SysIInv, Alone, Lost
<1> SUFFICES ASSUME ~Lost PROVE Handed'
  BY <1>2 DEF KeepsHand
<1>3. InQueue BY <1>1 DEF SysIInv, Handed, Ready, InTransit, Collected, AnswerDue
<1>4. PICK s \in Listed : s \in Sockets /\ conn[s] = station
  BY <1>3, ListedSockets DEF InQueue, StationListed, SysIInv
<1>5. sm[s] = "established" BY <1>4, OwnSocket DEF SysIInv
<1>6. inbox'[station] = ReadQueue \o PotDigits
  BY <1>1, <1>4, <1>5, SystemAssumption DEF ServerWrite
<1>7. inbox'[station] # <<>> /\ SubSeq(inbox'[station], 1, 6) = ReadQueue
  BY <1>6, ReplyShape DEF SysIInv, BoardIInv
<1>8. AnswerDue' BY <1>1, <1>3, <1>7 DEF InQueue, AnswerDue, NoBytes, Reading
<1> QED BY <1>1, <1>8 DEF Handed, ClientHasBytes

\* No '9' is ever sent while the connection lasts.
LEMMA HandClose == ASSUME SysIInv, CLOSE, UNCHANGED stationVars PROVE KeepsHand
<1>1. state = "CLOSE" /\ peer' = peer BY DEF CLOSE, ClientStop, peerVars
<1>2. Lost BY <1>1 DEF SysIInv, Handed, Ready, InTransit, Collected, InQueue, AnswerDue
<1> QED BY <1>1, <1>2 DEF KeepsHand, SysIInv, Alone, Lost
-----------------------------------------------------------------------------
(* The word from hand to hand: the link's and the station's steps.         *)

\* The first bytes of what is being sent are appended to what was received.
LEMMA Delivery ==
  ASSUME NEW a \in Seq(Byte), NEW b \in Seq(Byte), NEW n \in Nat, n <= Len(b)
  PROVE  LET x == a \o SubSeq(b, 1, n)
             y == SubSeq(b, n + 1, Len(b))
         IN  /\ Len(x) = Len(a) + n
             /\ \A i \in 1 .. Len(x) : x[i] = IF i <= Len(a) THEN a[i] ELSE b[i - Len(a)]
             /\ Len(y) = Len(b) - n
             /\ \A i \in 1 .. Len(y) : y[i] = b[n + i]
<1> DEFINE h == SubSeq(b, 1, n)
           x == a \o h
           y == SubSeq(b, n + 1, Len(b))
<1>1. Len(a) \in Nat /\ Len(b) \in Nat BY LenProperties
<1>2. h \in Seq(Byte) /\ Len(h) = n /\ \A i \in 1 .. n : h[i] = b[i]
  <2>1. \A i \in 1 .. n : b[i] \in Byte BY <1>1, ElementOfSeq
  <2>2. h \in Seq(Byte) /\ Len(h) = n /\ \A i \in 1 .. n : h[i] = b[1 + i - 1]
    BY <2>1, SubSeqProperties
  <2> HIDE DEF h
  <2> QED BY <2>2
<1>3. Len(y) = Len(b) - n /\ \A i \in 1 .. Len(y) : y[i] = b[n + i]
  <2>1. \A i \in n + 1 .. Len(b) : b[i] \in Byte BY <1>1, ElementOfSeq
  <2>2. CASE n = Len(b)
    <3>1. y = <<>> BY <1>1, <2>2
    <3> HIDE DEF y
    <3>2. Len(y) = 0 BY <3>1, EmptySeq
    <3> QED BY <1>1, <2>2, <3>2
  <2>3. CASE n < Len(b)
    <3>1. /\ Len(y) = Len(b) - (n + 1) + 1
          /\ \A i \in 1 .. Len(b) - (n + 1) + 1 : y[i] = b[(n + 1) + i - 1]
      BY <1>1, <2>1, <2>3, SubSeqProperties
    <3> HIDE DEF y
    <3> QED BY <1>1, <2>3, <3>1
  <2> QED BY <1>1, <2>2, <2>3
<1> HIDE DEF h
<1>4. /\ Len(x) = Len(a) + Len(h)
      /\ \A i \in 1 .. Len(a) + Len(h) : x[i] = IF i <= Len(a) THEN a[i] ELSE h[i - Len(a)]
  BY <1>2, ConcatProperties, Zenon
<1> HIDE DEF x, y
<1>5. Len(x) = Len(a) + n BY <1>2, <1>4
<1>6. ASSUME NEW i \in 1 .. Len(x) PROVE x[i] = IF i <= Len(a) THEN a[i] ELSE b[i - Len(a)]
  <2>1. i <= Len(a) => x[i] = a[i] BY <1>2, <1>4, <1>5
  <2>2. ~(i <= Len(a)) => i - Len(a) \in 1 .. n BY <1>1, <1>5
  <2>3. ~(i <= Len(a)) => x[i] = h[i - Len(a)] BY <1>2, <1>4, <1>5
  <2> QED BY <1>2, <2>1, <2>2, <2>3
<1> QED BY <1>3, <1>5, <1>6 DEF x, y, h

\* Steps that leave the word where it is.
LEMMA HandKept ==
  ASSUME Handed, UNCHANGED <<rx, skl, client, boardVars, word>>,
         sending'[station] = sending[station], inbox'[station] = inbox[station],
         Listed \subseteq Sockets,
         \A t \in Sockets : conn'[t] = station <=> conn[t] = station
  PROVE  Handed'
<1>1. UNCHANGED <<pc, state, rgbRead, ReadQueue, bitsReceived>>
  BY DEF boardVars, threadVars, commVars
<1>2. NoBytes' = NoBytes /\ Listed' = Listed /\ Reading' = Reading /\ StationListed' = StationListed
  BY <1>1 DEF NoBytes, Listed, Reading, StationListed
<1>3. InTransit => InTransit'
  <2>1. \A s \in Sockets : CutAt(s)' = CutAt(s) BY <1>1 DEF CutAt
  <2> QED BY <1>1, <1>2, <2>1 DEF InTransit
<1>4. Ready => Ready' BY <1>1, <1>2 DEF Ready
<1>5. Collected => Collected' BY <1>1, <1>2 DEF Collected
<1>6. InQueue => InQueue' BY <1>1, <1>2 DEF InQueue
<1>7. AnswerDue => AnswerDue' BY <1>1, <1>2 DEF AnswerDue
<1>8. ClientHasBytes' BY <1>1, <1>2 DEF Handed, ClientHasBytes
<1> QED BY <1>3, <1>4, <1>5, <1>6, <1>7, <1>8 DEF Handed

\* Nothing has been sent before the connection is there.
LEMMA HandConnect ==
  ASSUME SysIInv, Connect(station), UNCHANGED <<listVars, client, boardVars, stationVars>>
  PROVE  KeepsHand
<1>1. /\ peer[station] = "idle" /\ peer' = [peer EXCEPT ![station] = "open"]
      /\ UNCHANGED <<rx, sending, inbox, skl, client, word, pc, state>>
  BY DEF Connect, Establish, listVars, boardVars, threadVars, commVars, stationVars
<1>2. peer'[station] = "open" /\ \A c \in Conns \ {station} : peer'[c] = peer[c]
  BY <1>1, SystemAssumption DEF SysIInv, BoardIInv, TypeOK, ServerTypeOK, StackTypeOK
<1>3. PICK s \in Sockets : /\ sm' = [sm EXCEPT ![s] = "established"]
                           /\ conn' = [conn EXCEPT ![s] = station]
  BY DEF Connect, Establish
<1>4. sm'[s] = "established" /\ conn'[s] = station
  BY <1>3 DEF SysIInv, BoardIInv, TypeOK, ServerTypeOK, StackTypeOK
<1>5. Alone' BY <1>2, <1>4 DEF SysIInv, Alone
<1>6. ~Lost /\ ~Lost' BY <1>1, <1>2 DEF Lost
<1>7. ClientHasBytes /\ Ready
  BY <1>1, <1>6 DEF SysIInv, Alone, Handed, InTransit, Collected, InQueue, AnswerDue
<1>8. ClientHasBytes' /\ Ready' BY <1>1, <1>7 DEF ClientHasBytes, Ready, NoBytes, Reading, Listed
<1> QED BY <1>5, <1>6, <1>8 DEF KeepsHand, Handed

\* Bytes of the word arrive.
LEMMA HandSegment ==
  ASSUME SysIInv, Segment, UNCHANGED <<listVars, client, boardVars, stationVars>>
  PROVE  KeepsHand
<1>1. /\ UNCHANGED <<sm, conn, peer, inbox, skl, client, word, pc, state, rgbRead, bitsReceived>>
      /\ peer[station] = "open" /\ sending[station] # <<>>
  BY DEF Segment, Arrive, listVars, boardVars, threadVars, commVars, stationVars
<1>2. Alone' /\ ~Lost /\ ~Lost' BY <1>1 DEF SysIInv, Alone, Lost
<1>3. ClientHasBytes /\ InTransit
  BY <1>1, <1>2 DEF SysIInv, Handed, Ready, Collected, InQueue, AnswerDue, NoBytes
<1> DEFINE b == sending[station]
<1>4. PICK s \in Sockets, n \in Chunks :
        /\ sm[s] = "established" /\ conn[s] = station
        /\ n =< Len(b)
        /\ rx' = [rx EXCEPT ![s] = rx[s] \o SubSeq(b, 1, n)]
        /\ sending' = [sending EXCEPT ![station] = SubSeq(b, n + 1, Len(b))]
  BY <1>1 DEF Segment, Arrive
<1> DEFINE a == rx[s]
           x == a \o SubSeq(b, 1, n)
           y == SubSeq(b, n + 1, Len(b))
<1>5. /\ a \in Seq(Byte) /\ b \in Seq(Byte) /\ n \in Nat \ {0}
      /\ rx \in [Sockets -> Seq(Byte)] /\ sending \in [Conns -> Seq(Byte)]
      /\ bitsReceived \in 0 .. 5
  BY SystemAssumption, ServerAssumption
  DEF SysIInv, BoardIInv, TypeOK, ServerTypeOK, StackTypeOK, numBitsPerCommand
<1>6. rx'[s] = x /\ sending'[station] = y /\ \A t \in Sockets \ {s} : rx'[t] = rx[t]
  <2> HIDE DEF a, b
  <2> QED BY <1>4, <1>5, SystemAssumption DEF a, b
<1>7. Len(a) \in Nat /\ Len(b) \in Nat
  <2> HIDE DEF a, b
  <2> QED BY <1>5, LenProperties
<1>8. /\ Len(x) = Len(a) + n /\ Len(y) = Len(b) - n
      /\ \A i \in 1 .. Len(x) : x[i] = IF i <= Len(a) THEN a[i] ELSE b[i - Len(a)]
      /\ \A i \in 1 .. Len(y) : y[i] = b[n + i]
  <2> HIDE DEF a, b
  <2> QED BY <1>4, <1>5, Delivery DEF b
<1>9. /\ bitsReceived + Len(a) + Len(b) = 6
      /\ \A i \in 1 .. bitsReceived : rgbRead[i] = word[i]
      /\ \A i \in 1 .. Len(a) : a[i] = word[bitsReceived + i]
      /\ \A i \in 1 .. Len(b) : b[i] = word[bitsReceived + Len(a) + i]
  BY <1>3, <1>4 DEF InTransit, CutAt
<1>10. n =< Len(b) BY <1>4
<1> DEFINE k == bitsReceived
           la == Len(a)
           lb == Len(b)
<1>11. /\ k + Len(x) + Len(y) = 6
       /\ \A i \in 1 .. Len(x) : x[i] = word[k + i]
       /\ \A i \in 1 .. Len(y) : y[i] = word[k + Len(x) + i]
  <2>1. /\ la \in Nat /\ lb \in Nat /\ n \in Nat \ {0} /\ k \in Nat /\ n =< lb
        /\ k + la + lb = 6 /\ Len(x) = la + n /\ Len(y) = lb - n
    <3>1. la \in Nat /\ lb \in Nat BY <1>7
    <3>2. n \in Nat \ {0} /\ k \in Nat BY <1>5
    <3>3. n =< lb /\ k + la + lb = 6 BY <1>9, <1>10
    <3>4. Len(x) = la + n /\ Len(y) = lb - n BY <1>8
    <3> HIDE DEF k, la, lb, x, y
    <3> QED BY <3>1, <3>2, <3>3, <3>4
  <2>2. /\ \A i \in 1 .. la : a[i] = word[k + i]
        /\ \A i \in 1 .. lb : b[i] = word[k + la + i]
        /\ \A i \in 1 .. la + n : x[i] = IF i <= la THEN a[i] ELSE b[i - la]
        /\ \A i \in 1 .. lb - n : y[i] = b[n + i]
    BY <1>8, <1>9
  <2> HIDE DEF k, la, lb, x, y, a, b
  <2>3. k + Len(x) + Len(y) = 6 BY <2>1
  <2>4. ASSUME NEW i \in 1 .. la + n PROVE x[i] = word[k + i]
    <3>1. CASE i <= la
      <4>1. i \in 1 .. la BY <2>1, <3>1
      <4> QED BY <2>2, <3>1, <4>1
    <3>2. CASE ~(i <= la)
      <4>1. i - la \in 1 .. lb BY <2>1, <3>2
      <4>2. x[i] = word[k + la + (i - la)] BY <2>2, <3>2, <4>1
      <4>3. k + la + (i - la) = k + i BY <2>1
      <4> QED BY <4>2, <4>3
    <3> QED BY <3>1, <3>2
  <2>5. ASSUME NEW i \in 1 .. lb - n PROVE y[i] = word[k + (la + n) + i]
    <3>1. n + i \in 1 .. lb BY <2>1
    <3>2. y[i] = word[k + la + (n + i)] BY <2>2, <3>1
    <3>3. k + la + (n + i) = k + (la + n) + i BY <2>1
    <3> QED BY <3>2, <3>3
  <2> QED BY <2>1, <2>3, <2>4, <2>5
<1>12. CutAt(s)'
  <2> HIDE DEF x, y
  <2> QED BY <1>1, <1>6, <1>9, <1>11 DEF CutAt
<1>13. x # <<>>
  <2>1. Len(x) # 0 BY <1>5, <1>7, <1>8
  <2> HIDE DEF x
  <2> QED BY <2>1, EmptySeq
<1> HIDE DEF x, y
<1>14. \A t \in Sockets : rx[t] # <<>> => rx'[t] # <<>> BY <1>6, <1>13
<1>15. \A t \in Sockets \ {s} : conn[t] # station
  BY <1>2, <1>4, OwnSocket DEF SysIInv
<1>16. \A t \in Sockets : IF conn'[t] = station THEN CutAt(t)' ELSE rx'[t] = <<>>
  BY <1>1, <1>3, <1>4, <1>6, <1>12, <1>15 DEF InTransit
<1>17. Listed' = Listed /\ Listed \subseteq Sockets BY <1>1, ListedSockets DEF Listed, SysIInv
<1>18. InTransit' BY <1>1, <1>3, <1>14, <1>16, <1>17 DEF InTransit, Reading
<1>19. ClientHasBytes' BY <1>1, <1>3, <1>14, <1>17 DEF ClientHasBytes
<1> QED BY <1>2, <1>18, <1>19 DEF KeepsHand, Handed

\* The stack closes sockets of other connections, or none's.
LEMMA HandStack ==
  ASSUME SysIInv, Stack, UNCHANGED <<listVars, client, boardVars, stationVars>>
  PROVE  KeepsHand
<1>1. UNCHANGED <<skl, client, word, boardVars>> BY DEF listVars, stationVars
<1>2. /\ sm \in [Sockets -> SocketState] /\ conn \in [Sockets -> Conns \cup {NoConn}]
      /\ rx \in [Sockets -> Seq(Byte)] /\ Listed \subseteq Sockets
  BY ListedSockets DEF SysIInv, BoardIInv, TypeOK, ServerTypeOK, StackTypeOK
<1>3. station # NoConn BY SystemAssumption, ServerAssumption
<1>4. PICK s \in Sockets : CloseWaitTimeout(s) \/ Closed(s) BY DEF Stack
<1>5. sm[s] # "established" BY <1>4 DEF CloseWaitTimeout, Closed
<1>6. conn' = [conn EXCEPT ![s] = NoConn] BY <1>4 DEF CloseWaitTimeout, Closed, CloseSocket
<1>7. \A t \in Sockets \ {s} : sm'[t] = sm[t] /\ conn'[t] = conn[t]
  BY <1>2, <1>4 DEF CloseWaitTimeout, Closed, CloseSocket
<1>8. conn'[s] = NoConn BY <1>2, <1>6
<1>9. ~Lost => conn[s] # station BY <1>5, OwnSocket DEF SysIInv
<1>10. ~Lost => \A t \in Sockets : conn'[t] = station <=> conn[t] = station
  BY <1>3, <1>7, <1>8, <1>9
<1>11. ~Lost => rx' = rx
  <2>1. CASE Closed(s) BY <2>1 DEF Closed
  <2>2. CASE CloseWaitTimeout(s)
    <3>1. rx' = [rx EXCEPT ![s] = <<>>] BY <2>2 DEF CloseWaitTimeout, CloseSocket
    <3>2. ~Lost => rx[s] = <<>>
      BY <1>9 DEF SysIInv, Handed, Ready, InTransit, Collected, InQueue, AnswerDue, NoBytes
    <3> QED BY <1>2, <3>1, <3>2
  <2> QED BY <1>4, <2>1, <2>2
<1>12. /\ \A c \in Conns \ {station} : peer'[c] = "idle"
       /\ Lost => Lost'
       /\ ~Lost => /\ peer'[station] = peer[station] /\ sending'[station] = sending[station]
                   /\ inbox'[station] = inbox[station]
  <2>1. CASE Closed(s)
    <3> DEFINE S == {s}
    <3>1. {conn[t] : t \in S} = {conn[s]} OBVIOUS
    <3>2. Forget({conn[t] : t \in S}) BY <2>1, <3>1 DEF Closed
    <3>3. S \in SUBSET Sockets /\ \A t \in S : t = s OBVIOUS
    <3> HIDE DEF S
    <3> QED BY <1>9, <3>2, <3>3, ForgetOthers DEF SysIInv
  <2>2. CASE CloseWaitTimeout(s)
    BY <2>2 DEF CloseWaitTimeout, peerVars, SysIInv, Alone, Lost
  <2> QED BY <1>4, <2>1, <2>2
<1>13. ASSUME ~Lost PROVE Alone' /\ Handed'
  <2>1. Handed' BY <1>1, <1>2, <1>10, <1>11, <1>12, <1>13, HandKept DEF SysIInv
  <2>2. peer[station] = "open" => \E t \in Sockets : conn'[t] = station /\ sm'[t] = "established"
    BY <1>5, <1>7 DEF SysIInv, Alone
  <2> QED BY <1>1, <1>12, <1>13, <2>1, <2>2 DEF SysIInv, Alone
<1>14. Lost => Alone' BY <1>12 DEF Alone, Lost
<1> QED BY <1>12, <1>13, <1>14 DEF KeepsHand

LEMMA HandLink == ASSUME SysIInv, Link PROVE KeepsHand
<1>1. UNCHANGED <<listVars, client, boardVars, stationVars>> BY DEF Link
<1>2. CASE Hangup(station) \/ Reset(station)
  <2>1. Forget({station}) BY <1>2 DEF Hangup, Reset
  <2>2. peer'[station] = "gone" /\ \A c \in Conns \ {station} : peer'[c] = peer[c]
    BY <2>1, SystemAssumption DEF Forget
  <2> QED BY <2>2 DEF KeepsHand, SysIInv, Alone, Lost
<1> QED BY <1>1, <1>2, HandConnect, HandSegment, HandStack DEF Link

\* The station sends a word, takes its answer, or fails.
LEMMA HandStation ==
  ASSUME SysIInv, StationTypeOK', StationStep \/ StationReceives \/ StationThrows
  PROVE  KeepsHand
<1>1. CASE StationStep
  <2>1. /\ UNCHANGED <<sm, conn, rx, peer, inbox, skl, client, pc, state, rgbRead, ReadQueue, bitsReceived>>
        /\ peer[station] = "open" /\ joystickControl
        /\ sending' = [sending EXCEPT ![station] = word']
    BY <1>1 DEF StationStep, socketVars, listVars, boardVars, threadVars, commVars
  <2>2. Alone' /\ ~Lost /\ ~Lost' BY <2>1 DEF SysIInv, Alone, Lost
  <2>3. word = <<>> BY <2>1, StationWords DEF SysIInv
  <2>4. ClientHasBytes /\ Ready
    BY <2>2, <2>3 DEF SysIInv, Handed, InTransit, Collected, InQueue, AnswerDue
  <2>5. sending'[station] = word'
    BY <2>1, SystemAssumption DEF SysIInv, BoardIInv, TypeOK, ServerTypeOK, StackTypeOK
  <2>6. ClientHasBytes' BY <2>1, <2>4 DEF ClientHasBytes, Listed
  <2>7. ~Reading' /\ bitsReceived' = 0
    BY <2>1, <2>4 DEF Ready, Reading, SysIInv, CollectedInLoop
  <2>8. CASE word' = <<>>
    <3>1. Ready' BY <2>1, <2>4, <2>5, <2>7, <2>8 DEF Ready, NoBytes
    <3> QED BY <2>2, <2>6, <3>1 DEF KeepsHand, Handed
  <2>9. CASE word' # <<>>
    <3>1. word' \in [1 .. 6 -> 48 .. 57] BY <2>9 DEF StationTypeOK
    <3>2. Len(word') = 6 BY <3>1
    <3>3. \A s \in Sockets : rx'[s] = <<>> BY <2>1, <2>4 DEF Ready, NoBytes
    <3>4. ASSUME NEW s \in Sockets PROVE CutAt(s)'
      <4>1. Len(rx'[s]) = 0 BY <3>3
      <4>2. \A i \in 1 .. 6 : 0 + 0 + i = i OBVIOUS
      <4> QED BY <2>5, <2>7, <3>2, <4>1, <4>2 DEF CutAt
    <3>5. InTransit' BY <2>1, <2>4, <2>7, <2>9, <3>3, <3>4 DEF InTransit, Ready, Reading
    <3> QED BY <2>2, <2>6, <3>5 DEF KeepsHand, Handed
  <2> QED BY <2>8, <2>9
<1>2. CASE StationReceives
  <2>1. /\ UNCHANGED <<sm, conn, rx, peer, sending, skl, client, pc, state>>
        /\ word' = <<>> /\ inbox[station] # <<>>
        /\ inbox' = [inbox EXCEPT ![station] = <<>>]
    BY <1>2 DEF StationReceives, Receive, TakeReply, socketVars, listVars, boardVars, threadVars, commVars
  <2>2. Alone' /\ Lost' = Lost BY <2>1 DEF SysIInv, Alone, Lost
  <2>3. inbox'[station] = <<>>
    BY <2>1, SystemAssumption DEF SysIInv, BoardIInv, TypeOK, ServerTypeOK, StackTypeOK
  <2>4. ~Lost => ClientHasBytes /\ AnswerDue
    BY <2>1 DEF SysIInv, Handed, Ready, InTransit, Collected, InQueue
  <2>5. ~Lost => ClientHasBytes' /\ Ready'
    BY <2>1, <2>3, <2>4 DEF ClientHasBytes, AnswerDue, Ready, NoBytes, Reading, Listed
  <2> QED BY <2>2, <2>5 DEF KeepsHand, Handed
<1>3. CASE StationThrows
  BY <1>3 DEF StationThrows, Throws, vars, serverVars, stackVars, socketVars, peerVars,
              KeepsHand, SysIInv, Alone, Lost
<1> QED BY <1>1, <1>2, <1>3

LEMMA HandStep == ASSUME SysIInv, StationTypeOK', [SysNext]_sysVars PROVE KeepsHand
  BY SysCases, HandElsewhere, HandBegin, HandBody, HandReadLoop, HandWrite, HandClose, HandLink, HandStation

LEMMA SysInductive == SysSpec => []SysIInv
<1>1. ASSUME SysInit PROVE CollectedInLoop /\ WordSent /\ Alone /\ Handed
  <2>1. /\ peer = [c \in Conns |-> "idle"] /\ rx = [s \in Sockets |-> <<>>]
        /\ sending = [c \in Conns |-> <<>>] /\ inbox = [c \in Conns |-> <<>>]
        /\ word = <<>> /\ bitsReceived = 0 /\ state = "INITIALIZE"
        /\ pc \in {"centreRight", "centreLeft"}
    BY <1>1 DEF SysInit, Init, ServerInit, StackInit, StationInit
  <2> QED
    BY <2>1, SystemAssumption
    DEF CollectedInLoop, WordSent, Alone, Handed, ClientHasBytes, Ready, NoBytes, Reading
<1>2. ASSUME SysIInv, [SysNext]_sysVars PROVE SysIInv'
  <2>1. BoardIInv' /\ StationTypeOK' /\ AnswersEnd' BY <1>2, SysTypeStep DEF SysIInv
  <2>2. CollectedInLoop' /\ WordSent'
    BY <1>2, CollectedInLoopStep, WordSentStep DEF SysIInv, BoardIInv
  <2>3. KeepsHand BY <1>2, <2>1, HandStep
  <2> QED BY <2>1, <2>2, <2>3 DEF SysIInv, KeepsHand
<1>3. SysInit /\ BoardIInv /\ StationTypeOK /\ AnswersEnd => SysIInv BY <1>1 DEF SysIInv
<1> QED BY <1>2, <1>3, SysTypeInductive, PTL DEF SysSpec
-----------------------------------------------------------------------------
(* The trigger and the wheel.                                              *)

\* A pass over the station's loop leaves the speed the trigger asks for and,
\* unless a button keeps it, the wheel let go; between two words the board
\* has the last one.
SpeedShown ==
  /\ at \notin {"drive", "dead"} /\ (at = "joystick" => potentiometer # NoReading \/ word # <<>>)
       /\ ~stick.trigger => speed = 180
  /\ at = "joystick" /\ (potentiometer # NoReading \/ word # <<>>) /\ ~stick.held => turning = "hold"

QueueIsLast == ~Lost /\ word = <<>> /\ potentiometer # NoReading => ReadQueue = LastWord

\* The motors do what was decoded last, but for centring.
Motors ==
  /\ pwm = DriveDuty(cmd)
  /\ clock /\ pc \notin {"centreRight", "centreLeft"} => cmd.OE = 1

LEMMA JoystickShows ==
  ASSUME StationTypeOK, SpeedShown, joystickControl PROVE SpeedShown'
<1> USE DEF SpeedShown, Free
<1>1. CASE readJoystickValues BY <1>1 DEF readJoystickValues
<1>2. CASE Drive
  <2>1. at' = "turn" /\ stick' = stick BY <1>2 DEF Drive
  <2>2. ~stick.trigger => speed' = 180
    BY <1>2, DriveSpeedType DEF Drive, sendControlWord
  <2> QED BY <2>1, <2>2
<1>3. CASE Straight BY <1>3 DEF Straight, sendControlWord
<1>4. CASE Aside
  <2>1. /\ at = "turn" /\ at' \in {"dead", "steerRight", "steerLeft", "buttons"}
        /\ UNCHANGED <<stick, speed>>
    BY <1>4, Zenon DEF Aside
  <2> QED BY <2>1
<1>5. CASE Steer BY <1>5 DEF Steer, SteerTo, sendControlWord
<1>6. CASE Buttons BY <1>6 DEF Buttons, sendControlWord
<1> QED BY <1>1, <1>2, <1>3, <1>4, <1>5, <1>6 DEF joystickControl

LEMMA SpeedShownStep ==
  ASSUME StationTypeOK, SpeedShown, [SysNext]_sysVars PROVE SpeedShown'
<1>1. CASE UNCHANGED stationVars BY <1>1 DEF SpeedShown, stationVars
<1>2. CASE StationStep BY <1>2, JoystickShows DEF StationStep
<1>3. CASE StationReceives BY <1>3 DEF StationReceives, Receive, SpeedShown
<1>4. CASE StationThrows BY <1>4 DEF StationThrows, Throws, SpeedShown
<1> QED BY <1>1, <1>2, <1>3, <1>4, SysCases DEF Elsewhere, Link

\* Who writes the queue.
LEMMA QueueWritten ==
  ASSUME [SysNext]_sysVars, ReadQueue' # ReadQueue PROVE PROCESSREAD /\ UNCHANGED stationVars
<1>1. CASE Elsewhere BY <1>1 DEF Elsewhere, commVars
<1>2. CASE protothread2 \/ ServerAvailable \/ INITIALIZE \/ READ \/ ByteAvailable \/ ReadLoop \/ WRITE \/ CLOSE
  BY <1>2 DEF protothread2, ServerAvailable, INITIALIZE, READ, ByteAvailable, ReadLoop, ReadByteOf, WRITE, CLOSE, commVars
<1>3. CASE Link \/ StationStep \/ StationReceives \/ StationThrows
  BY <1>3 DEF Link, StationStep, StationReceives, StationThrows, vars, boardVars, commVars
<1> QED BY <1>1, <1>2, <1>3, SysCases

LEMMA QueueIsLastStep ==
  ASSUME SysIInv, SysIInv', QueueIsLast, [SysNext]_sysVars PROVE QueueIsLast'
<1> SUFFICES ASSUME ~Lost', word' = <<>>, potentiometer' # NoReading
             PROVE  ReadQueue' = LastWord'
  BY DEF QueueIsLast
<1>1. ~Lost BY HandStep DEF SysIInv, KeepsHand
<1>2. CASE UNCHANGED stationVars
  <2>1. word = <<>> /\ potentiometer # NoReading /\ LastWord' = LastWord
    BY <1>2 DEF stationVars, LastWord
  <2>2. state # "PROCESSREAD"
    BY <1>1, <2>1 DEF SysIInv, Handed, Ready, InTransit, Collected, InQueue, AnswerDue
  <2>3. ReadQueue' = ReadQueue BY <2>2, QueueWritten DEF PROCESSREAD
  <2> QED BY <1>1, <2>1, <2>3 DEF QueueIsLast
<1>3. CASE StationStep
  <2>1. joystickControl /\ ReadQueue' = ReadQueue
    BY <1>3 DEF StationStep, boardVars, commVars
  <2>2. word = <<>> /\ UNCHANGED <<word, turning, speed>> BY <2>1, StationWords DEF SysIInv
  <2>3. potentiometer' = potentiometer
    BY <2>1 DEF joystickControl, readJoystickValues, Drive, Straight, Aside, Steer, SteerTo, Buttons
  <2> QED BY <1>1, <2>1, <2>2, <2>3 DEF QueueIsLast, LastWord
<1>4. CASE StationReceives
  <2>1. /\ inbox[station] # <<>> /\ UNCHANGED <<turning, speed, ReadQueue>>
    BY <1>4 DEF StationReceives, Receive, boardVars, commVars
  <2>2. word # <<>> /\ ReadQueue = word
    BY <1>1, <2>1 DEF SysIInv, Handed, Ready, InTransit, Collected, InQueue, AnswerDue
  <2> QED BY <2>1, <2>2 DEF SysIInv, WordSent, LastWord
<1>5. CASE StationThrows BY <1>1, <1>5 DEF StationThrows, Lost
<1> QED BY <1>2, <1>3, <1>4, <1>5, SysCases DEF Elsewhere, Link

LEMMA MotorsStep ==
  ASSUME TypeOK, Motors, [Next]_vars PROVE Motors'
<1>1. CASE protothread1
  <2>1. cmd' = Decode(ReadQueue) /\ pwm' = DriveDuty(cmd')
    BY <1>1 DEF protothread1, runBUG
  <2>2. \/ Decode(ReadQueue).OE = 1
        \/ pc' \in {"centreRight", "centreLeft"}
        \/ clock' = FALSE
    BY <1>1 DEF protothread1, runBUG, TurnsLeft, TurnsRight, Hold, CentreWheel
  <2> QED BY <2>1, <2>2 DEF Motors
<1>2. CASE centerWheel
  <2>1. UNCHANGED <<cmd, pwm>> /\ pc \in {"centreRight", "centreLeft"} /\ (clock' = FALSE \/ pc' = pc)
    BY <1>2, LoopMoves DEF centerWheel, CentreLoop
  <2> QED BY <2>1 DEF Motors
<1>3. CASE CLOSE BY <1>3 DEF CLOSE, Motors
<1>4. CASE protothread1Waits \/ protothread2Waits \/ protothread2 \/ ServerAvailable \/ INITIALIZE \/ READ \/ ByteAvailable
           \/ ReadLoop \/ PROCESSREAD \/ WRITE
  <2>1. UNCHANGED <<cmd, pwm, clock>> /\ pc \notin {"centreRight", "centreLeft"}
    BY <1>4 DEF protothread1Waits, protothread2Waits, protothread2, ServerAvailable, INITIALIZE, READ, ByteAvailable,
                ReadLoop, ReadByteOf, PROCESSREAD, WRITE, motorVars
  <2> QED BY <2>1 DEF Motors
<1>5. CASE Tick \/ WheelMoves \/ Surroundings \/ UNCHANGED vars
  <2>1. UNCHANGED <<cmd, pwm, clock, pc>>
    BY <1>5 DEF Tick, WheelMoves, Surroundings, vars, boardVars, threadVars, motorVars
  <2> QED BY <2>1 DEF Motors
<1> QED BY <1>1, <1>2, <1>3, <1>4, <1>5 DEF Next, Firmware

LEMMA SysMotors == SysSpec => [](SysIInv /\ SpeedShown /\ QueueIsLast /\ Motors)
<1>1. ASSUME SysInit PROVE SpeedShown /\ QueueIsLast /\ Motors
  <2>1. /\ at = "joystick" /\ word = <<>> /\ potentiometer = NoReading
        /\ cmd = [OE |-> 0, DIR |-> 0, RELAY |-> 0, PWM |-> 180] /\ pwm = 180 /\ clock = FALSE
    BY <1>1 DEF SysInit, Init, StationInit
  <2>2. pwm = DriveDuty(cmd) BY <2>1 DEF DriveDuty
  <2> QED BY <2>1, <2>2 DEF SpeedShown, QueueIsLast, Motors
<1>2. ASSUME SysIInv, SysIInv', SpeedShown, QueueIsLast, Motors, [SysNext]_sysVars
      PROVE  SpeedShown' /\ QueueIsLast' /\ Motors'
  <2>1. SpeedShown' BY <1>2, SpeedShownStep DEF SysIInv
  <2>2. QueueIsLast' BY <1>2, QueueIsLastStep
  <2>3. CASE [Next]_vars BY <1>2, <2>1, <2>2, <2>3, MotorsStep DEF SysIInv, BoardIInv
  <2>4. CASE StationStep
    <3>1. UNCHANGED <<cmd, pwm, clock, pc>> BY <2>4 DEF StationStep, boardVars, threadVars, motorVars
    <3>2. Motors' BY <1>2, <3>1 DEF Motors
    <3> QED BY <2>1, <2>2, <3>2
  <2> QED BY <1>2, <2>3, <2>4, SysStepsBoard
<1> QED BY <1>1, <1>2, SysInductive, PTL DEF SysSpec

\* What the board was told last, once the station is at rest.
LEMMA Rested ==
  ASSUME SysIInv, QueueIsLast, Settled
  PROVE  /\ cmd = Decode(LastWord) /\ cmd.PWM = speed
         /\ LastWord[1] = Turning[turning][1]
<1>1. turning \in DOMAIN Turning /\ speed \in 0 .. 255 BY DEF SysIInv, StationTypeOK
<1>2. LastWord[1] = Turning[turning][1] /\ Decode(LastWord).PWM = speed
  <2>1. ASSUME NEW t \in DOMAIN Turning, NEW n \in 0 .. 255, NEW w, w = Turning[t] \o Digits(n)
        PROVE  w[1] = Turning[t][1] /\ Decode(w).PWM = n
    BY <2>1, WordDecoded
  <2>2. LastWord = Turning[turning] \o Digits(speed) BY DEF LastWord
  <2> QED BY <1>1, <2>1, <2>2
<1>3. cmd = Decode(LastWord) BY DEF Settled, Fresh, QueueIsLast
<1> QED BY <1>2, <1>3

\* With the trigger let go and the station at rest the drive's duty is the
\* neutral one, however the word came over and whatever was driven before.
THEOREM TriggerLetGo == SysSpec => []DeadMansTrigger
<1>1. ASSUME SysIInv, SpeedShown, QueueIsLast, Motors, Settled, ~stick.trigger PROVE pwm = 180
  <2>1. cmd.PWM = 180 BY <1>1, Rested DEF SpeedShown, Settled
  <2> QED BY <1>1, <2>1 DEF Motors, DriveDuty
<1>2. SysIInv /\ SpeedShown /\ QueueIsLast /\ Motors => DeadMansTrigger BY <1>1 DEF DeadMansTrigger
<1> QED BY <1>2, SysMotors, PTL

\* With the station at rest and no button held the stepper is not clocked,
\* but for centring.
THEOREM WheelIsLetGo == SysSpec => []WheelLetGo
<1>1. ASSUME SysIInv, SpeedShown, QueueIsLast, Motors, Settled, ~stick.held
      PROVE  ~clock \/ pc \in {"centreRight", "centreLeft"}
  <2>1. turning = "hold" BY <1>1 DEF SpeedShown, Settled
  <2>2. LastWord[1] = 48 BY <1>1, <2>1, Rested DEF Turning
  <2>3. cmd.OE = 0 BY <1>1, <2>2, Rested DEF Decode, Digit, Char
  <2> QED BY <1>1, <2>3 DEF Motors
<1>2. SysIInv /\ SpeedShown /\ QueueIsLast /\ Motors => WheelLetGo BY <1>1 DEF WheelLetGo
<1> QED BY <1>2, SysMotors, PTL
-----------------------------------------------------------------------------
(* The system implements ControlLink.                                      *)

LEMMA SysPaceStep ==
  ASSUME PromptWrites, TypeOK, Collecting, Pace, [SysNext]_sysVars PROVE Pace'
<1>1. CASE StationStep
  <2>1. UNCHANGED <<pc, age1, age2, slack, state, ReadQueue, cmd>>
    BY <1>1 DEF StationStep, boardVars, threadVars, commVars
  <2> QED BY <2>1, PaceElsewhere
<1> QED BY <1>1, SysStepsBoard, PaceStep

LEMMA SysPace == ASSUME PromptWrites PROVE SysSpec => [](SysIInv /\ Pace)
<1>1. SysInit => Pace
  BY BoardAssumption DEF SysInit, Init, Pace, FreshPlace, Queued
<1>2. SysIInv /\ Pace /\ [SysNext]_sysVars => Pace'
  BY SysPaceStep DEF SysIInv, BoardIInv
<1> QED BY <1>1, <1>2, SysInductive, PTL DEF SysSpec

\* The mapping, case by case.
LEMMA Stages ==
  /\ Lost => LinkStage = "lost" /\ LinkWord = LinkNothing /\ LinkReply = LinkNothing
  /\ ~Lost /\ word = <<>> => LinkStage = "idle" /\ LinkWord = LinkNothing
  /\ ~Lost /\ word # <<>> =>
       /\ LinkWord = Decode(word)
       /\ inbox[station] # <<>> => LinkStage = "answered"
       /\ inbox[station] = <<>> => LinkStage = IF state = "WRITE" THEN "queued" ELSE "sent"
  /\ ~Lost /\ inbox[station] = <<>> => LinkReply = LinkNothing
  /\ ~Lost /\ inbox[station] # <<>> => LinkReply = Decode(SubSeq(inbox[station], 1, 6))
  BY Zenon DEF LinkStage, LinkWord, LinkReply

LEMMA StagesNext ==
  /\ Lost' => LinkStage' = "lost" /\ LinkWord' = LinkNothing /\ LinkReply' = LinkNothing
  /\ ~Lost' /\ word' = <<>> => LinkStage' = "idle" /\ LinkWord' = LinkNothing
  /\ ~Lost' /\ word' # <<>> =>
       /\ LinkWord' = Decode(word')
       /\ inbox'[station] # <<>> => LinkStage' = "answered"
       /\ inbox'[station] = <<>> => LinkStage' = IF state' = "WRITE" THEN "queued" ELSE "sent"
  /\ ~Lost' /\ inbox'[station] = <<>> => LinkReply' = LinkNothing
  /\ ~Lost' /\ inbox'[station] # <<>> => LinkReply' = Decode(SubSeq(inbox'[station], 1, 6))
  BY Zenon DEF LinkStage, LinkWord, LinkReply, LinkNothing

\* Who runs the queue, and who moves a word into it and out of it.
LEMMA CmdWritten ==
  ASSUME [SysNext]_sysVars, cmd' # cmd PROVE protothread1 /\ UNCHANGED stationVars
  BY DEF SysNext, Board, Firmware, protothread1Waits, centerWheel, CentreLoop, protothread2, ServerAvailable,
         protothread2Waits, INITIALIZE, READ, ByteAvailable, ReadLoop, ReadByteOf, PROCESSREAD,
         WRITE, CLOSE, Tick, WheelMoves, Link, StationStep, StationReceives, StationThrows,
         sysVars, vars, boardVars

LEMMA QueuedWritten ==
  ASSUME Collecting, [SysNext]_sysVars, ~PROCESSREAD, ~WRITE
  PROVE  state' = "WRITE" <=> state = "WRITE"
<1>1. CASE Elsewhere BY <1>1 DEF Elsewhere, commVars
<1>2. CASE protothread2 \/ ServerAvailable \/ INITIALIZE \/ READ \/ ByteAvailable \/ CLOSE
  BY <1>2 DEF protothread2, ServerAvailable, INITIALIZE, READ, ByteAvailable, CLOSE, commVars
<1>3. CASE ReadLoop BY <1>3 DEF ReadLoop, ReadByteOf, Collecting
<1>4. CASE Link \/ StationStep \/ StationReceives \/ StationThrows
  BY <1>4 DEF Link, StationStep, StationReceives, StationThrows, vars, boardVars, commVars
<1> QED BY <1>1, <1>2, <1>3, <1>4, SysCases

\* Without the connection only the queue and the motors move.
LEMMA LinkLost ==
  ASSUME SysIInv, Pace, SysIInv', [SysNext]_sysVars, Lost
  PROVE  [Abstract!LinkNext]_(Abstract!linkVars)
<1>1. Lost' BY HandStep DEF SysIInv, KeepsHand
<1>2. UNCHANGED <<LinkStage, LinkWord, LinkReply>> /\ LinkStage = "lost" /\ LinkStage' = "lost"
  BY <1>1, Stages, StagesNext
<1>3. CASE cmd' # cmd
  <2>1. cmd' = Decode(ReadQueue) /\ ReadQueue' = ReadQueue
    BY <1>3, CmdWritten DEF protothread1, runBUG, commVars
  <2>2. Abstract!Run BY <1>2, <2>1 DEF Abstract!Run
  <2> QED BY <2>2 DEF Abstract!LinkNext
<1>4. CASE cmd' = cmd /\ ReadQueue' # ReadQueue
  <2>1. PROCESSREAD BY <1>4, QueueWritten
  <2>2. ~Fresh BY <2>1 DEF PROCESSREAD, Pace, FreshPlace, Queued
  <2>3. Decode(ReadQueue)' \in LinkCommands
    <3>1. ReadQueue' \in Command BY DEF SysIInv, BoardIInv, TypeOK
    <3> QED BY <3>1, DecodeType DEF LinkCommands
  <2>4. Abstract!Garble BY <1>2, <1>4, <2>2, <2>3 DEF Abstract!Garble, Fresh
  <2> QED BY <2>4 DEF Abstract!LinkNext
<1>5. CASE cmd' = cmd /\ ReadQueue' = ReadQueue
  BY <1>2, <1>5 DEF Abstract!linkVars
<1> QED BY <1>3, <1>4, <1>5

\* The connection is lost in a step that does nothing else.
LEMMA LinkLoses ==
  ASSUME SysIInv, [SysNext]_sysVars, ~Lost, Lost'
  PROVE  Abstract!Lose
<1>1. peer' # peer BY DEF Lost
<1>2. cmd' = cmd
  <2>1. protothread1 => peer' = peer BY DEF protothread1, serverVars, stackVars, peerVars
  <2> QED BY <1>1, <2>1, CmdWritten
<1>3. ReadQueue' = ReadQueue
  <2>1. PROCESSREAD => peer' = peer BY DEF PROCESSREAD, serverVars, stackVars, peerVars
  <2> QED BY <1>1, <2>1, QueueWritten
<1> QED BY <1>2, <1>3, StagesNext DEF Abstract!Lose

\* While it lasts each hand-over is a step of the link.
LEMMA LinkHolds ==
  ASSUME SysIInv, Pace, SysIInv', [SysNext]_sysVars, ~Lost, ~Lost'
  PROVE  [Abstract!LinkNext]_(Abstract!linkVars)
<1>1. Handed /\ Handed' BY DEF SysIInv
<1>2. CASE cmd' # cmd
  <2>1. /\ cmd' = Decode(ReadQueue) /\ UNCHANGED <<ReadQueue, state, peer, inbox, word>>
    BY <1>2, CmdWritten DEF protothread1, runBUG, commVars, serverVars, stackVars, peerVars, stationVars
  <2>2. UNCHANGED <<LinkStage, LinkWord, LinkReply>>
    BY <2>1 DEF LinkStage, LinkWord, LinkReply, Lost
  <2>3. Abstract!Run BY <2>1, <2>2 DEF Abstract!Run
  <2> QED BY <2>3 DEF Abstract!LinkNext
<1>3. CASE PROCESSREAD /\ UNCHANGED stationVars
  <2>1. /\ state = "PROCESSREAD" /\ pc = "switch" /\ UNCHANGED <<cmd, inbox, word>>
        /\ rgbRead' = rgbRead /\ pc' = "protothread2"
    BY <1>3 DEF PROCESSREAD, serverVars, stackVars, peerVars, stationVars, Done
  <2>2. Collected BY <1>1, <2>1 DEF Handed, Ready, InTransit, InQueue, AnswerDue
  <2>3. ~Fresh BY <2>1 DEF Pace, FreshPlace, Queued
  <2>4. state' \in {"WRITE", "PROCESSREAD", "CLOSE"} BY <1>3, <2>1 DEF PROCESSREAD
  <2>5. Collected' \/ InQueue'
    BY <1>1, <2>1, <2>2, <2>4 DEF Handed, Ready, InTransit, AnswerDue, Collected
  <2>6. LinkStage = "sent" /\ LinkWord = Decode(word) /\ LinkReply = LinkNothing
    BY <2>1, <2>2, Stages DEF Collected
  <2>7. LinkWord' = Decode(word) /\ LinkReply' = LinkNothing
    BY <2>1, <2>2, StagesNext DEF Collected
  <2>8. CASE state' = "WRITE"
    <3>1. InQueue' BY <2>5, <2>8 DEF Collected
    <3>2. ReadQueue' = word BY <2>1, <3>1 DEF InQueue
    <3>3. LinkStage' = "queued" BY <2>1, <2>2, <2>8, StagesNext DEF Collected
    <3>4. Abstract!Queue BY <2>1, <2>3, <2>6, <2>7, <3>2, <3>3 DEF Abstract!Queue, Fresh
    <3> QED BY <3>4 DEF Abstract!LinkNext
  <2>9. CASE state' # "WRITE"
    <3>1. state' = "PROCESSREAD" BY <2>5, <2>9 DEF Collected, InQueue
    <3>2. ReadQueue' = ReadQueue BY <1>3, <3>1 DEF PROCESSREAD
    <3>3. LinkStage' = "sent" BY <2>1, <2>2, <2>9, StagesNext DEF Collected
    <3> QED BY <2>1, <2>6, <2>7, <3>2, <3>3 DEF Abstract!linkVars
  <2> QED BY <2>8, <2>9
<1>4. CASE WRITE /\ UNCHANGED stationVars
  <2>1. /\ state = "WRITE" /\ state' = "READ" /\ UNCHANGED <<cmd, ReadQueue, word>>
    BY <1>4 DEF WRITE, stationVars
  <2>2. InQueue BY <1>1, <2>1 DEF Handed, Ready, InTransit, Collected, AnswerDue
  <2>3. PICK s \in Listed : s \in Sockets /\ conn[s] = station
    BY <2>2, ListedSockets DEF InQueue, StationListed, SysIInv
  <2>4. sm[s] = "established" BY <2>3, OwnSocket DEF SysIInv
  <2>5. inbox'[station] = ReadQueue \o PotDigits
    BY <1>4, <2>3, <2>4, SystemAssumption DEF WRITE, ServerWrite
  <2>6. inbox'[station] # <<>> /\ SubSeq(inbox'[station], 1, 6) = ReadQueue
    BY <2>5, ReplyShape DEF SysIInv, BoardIInv
  <2>7. LinkStage = "queued" /\ LinkWord = Decode(word) BY <2>1, <2>2, Stages DEF InQueue
  <2>8. LinkStage' = "answered" /\ LinkWord' = Decode(word) /\ LinkReply' = Decode(ReadQueue)
    BY <2>1, <2>2, <2>6, StagesNext DEF InQueue
  <2>9. Abstract!Answer BY <2>1, <2>7, <2>8 DEF Abstract!Answer
  <2> QED BY <2>9 DEF Abstract!LinkNext
<1>5. CASE StationReceives
  <2>1. /\ inbox[station] # <<>> /\ word # <<>> /\ word' = <<>> /\ UNCHANGED <<cmd, ReadQueue>>
        /\ inbox'[station] = <<>>
    BY <1>5, SystemAssumption
    DEF StationReceives, Receive, TakeReply, boardVars, commVars, SysIInv, BoardIInv, TypeOK,
        ServerTypeOK, StackTypeOK
  <2>2. LinkStage = "answered" BY <2>1, Stages
  <2>3. LinkStage' = "idle" /\ LinkWord' = LinkNothing /\ LinkReply' = LinkNothing
    BY <2>1, StagesNext
  <2>4. Abstract!Take BY <2>1, <2>2, <2>3 DEF Abstract!Take
  <2> QED BY <2>4 DEF Abstract!LinkNext
<1>6. CASE StationStep
  <2>1. /\ joystickControl /\ UNCHANGED <<inbox, cmd, ReadQueue, state>>
    BY <1>6 DEF StationStep, boardVars, commVars
  <2>2. word = <<>> /\ (word' = word \/ (word' # <<>> /\ word' = LastWord'))
    BY <2>1, StationWords DEF SysIInv
  <2>3. inbox[station] = <<>>
    BY <1>1, <2>2 DEF Handed, Ready, InTransit, Collected, InQueue, AnswerDue
  <2>4. LinkStage = "idle" /\ LinkWord = LinkNothing /\ LinkReply = LinkNothing
    BY <2>2, <2>3, Stages
  <2>5. LinkReply' = LinkNothing BY <2>1, <2>3, StagesNext
  <2>6. CASE word' = <<>>
    <3>1. LinkStage' = "idle" /\ LinkWord' = LinkNothing BY <2>6, StagesNext
    <3> QED BY <2>1, <2>4, <2>5, <3>1 DEF Abstract!linkVars
  <2>7. CASE word' # <<>>
    <3>1. InTransit'
      <4>1. state' \in {"INITIALIZE", "READ"} /\ inbox'[station] = <<>>
        BY <1>1, <2>1, <2>2, <2>3 DEF Handed, Ready, InTransit, Collected, InQueue, AnswerDue
      <4> QED BY <1>1, <2>7, <4>1 DEF Handed, Ready, Collected, InQueue, AnswerDue
    <3>2. LinkStage' = "sent" /\ LinkWord' = Decode(word')
      BY <2>1, <2>3, <2>7, <3>1, StagesNext DEF InTransit
    <3>3. Decode(word') \in LinkCommands
      <4>1. word' \in [1 .. 6 -> 48 .. 57] BY <2>7 DEF SysIInv, StationTypeOK
      <4>2. word' \in Command BY <4>1 DEF Command, numBitsPerCommand
      <4> QED BY <4>2, DecodeType DEF LinkCommands
    <3>4. Abstract!Send BY <2>1, <2>4, <2>5, <3>2, <3>3 DEF Abstract!Send
    <3> QED BY <3>4 DEF Abstract!LinkNext
  <2> QED BY <2>6, <2>7
<1>7. CASE /\ cmd' = cmd /\ ~StationReceives /\ ~StationStep
           /\ ~(PROCESSREAD /\ UNCHANGED stationVars) /\ ~(WRITE /\ UNCHANGED stationVars)
  <2>1. UNCHANGED stationVars
    BY <1>7, SysCases DEF Elsewhere, Link, StationThrows, Lost
  <2>2. ReadQueue' = ReadQueue BY <1>7, QueueWritten
  <2>3. state' = "WRITE" <=> state = "WRITE" BY <1>7, <2>1, QueuedWritten DEF SysIInv, BoardIInv
  <2>4. inbox'[station] = inbox[station]
    BY <1>7, <2>1, InboxMoves DEF SysIInv, BoardIInv
  <2>5. word' = word BY <2>1 DEF stationVars
  <2>6. UNCHANGED <<LinkStage, LinkWord, LinkReply>>
    BY <2>3, <2>4, <2>5, Stages, StagesNext
  <2> QED BY <1>7, <2>2, <2>6 DEF Abstract!linkVars
<1> QED BY <1>2, <1>3, <1>4, <1>5, <1>6, <1>7

\* If writes are prompt, the station and the board implement the link: the
\* network, the buffers and the threads add no behaviour to it, whatever the
\* segments, the client's socket and the way the connection is lost.
THEOREM SystemImplementsLink == ASSUME PromptWrites PROVE SysSpec => ImplementsLink
<1>1. SysInit => Abstract!LinkInit
  <2> SUFFICES ASSUME SysInit PROVE Abstract!LinkInit
    OBVIOUS
  <2>1. /\ peer[station] = "idle" /\ inbox[station] = <<>> /\ word = <<>> /\ ReadQueue = Zeros
        /\ cmd \in LinkCommands
    BY SystemAssumption DEF SysInit, Init, ServerInit, StackInit, StationInit, LinkCommands
  <2>2. LinkStage = "idle" /\ LinkWord = LinkNothing /\ LinkReply = LinkNothing
    BY <2>1, Stages DEF Lost
  <2> QED BY <2>1, <2>2 DEF Abstract!LinkInit, LinkNothing
<1>2. SysIInv /\ Pace /\ SysIInv' /\ [SysNext]_sysVars => [Abstract!LinkNext]_(Abstract!linkVars)
  BY LinkLost, LinkLoses, LinkHolds DEF Abstract!LinkNext
<1> QED BY <1>1, <1>2, SysPace, PTL DEF SysSpec, ImplementsLink, Abstract!LinkSpec

\* Prompt writes or not: while the connection lasts, the answer the station
\* is about to read is the one to its own last word, byte for byte, and that
\* word is the one the board has queued (sendControlWord, WRITE).
THEOREM AnswersAreOwn ==
  SysSpec =>
    [](~Lost /\ inbox[station] # <<>> =>
         word = LastWord /\ SubSeq(inbox[station], 1, 6) = word /\ ReadQueue = word)
<1>1. ASSUME SysIInv, ~Lost, inbox[station] # <<>>
      PROVE  word = LastWord /\ SubSeq(inbox[station], 1, 6) = word /\ ReadQueue = word
  <2>1. AnswerDue BY <1>1 DEF SysIInv, Handed, Ready, InTransit, Collected, InQueue
  <2> QED BY <1>1, <2>1 DEF SysIInv, WordSent, AnswerDue
<1> QED BY <1>1, SysInductive, PTL
=============================================================================
