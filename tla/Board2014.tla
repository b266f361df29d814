------------------------------ MODULE Board2014 -----------------------------
(***************************************************************************)
(* The firmware of the 2014 BUG board, which serves one client at a time   *)
(* over WiFi.  Its two protothreads have the shape of the 2015 board's;    *)
(* here their pace is not modelled: when neither is in the middle of a     *)
(* body, either may be the next.                                           *)
(*                                                                         *)
(* Each body ends in DNETcK::periodicTasks(), which lets the stack run;    *)
(* every call of the library does that too, so the network moves between   *)
(* any two steps.                                                          *)
(***************************************************************************)
EXTENDS DnetckServer, CommandWord

CONSTANTS
  Pots,               \* potentiometer positions the wheel is seen at
  LeftEnd, RightEnd,  \* steering limits: 230, 920
  Centre              \* the reading setup() centres the wheel to: 663

ASSUME Board2014Assumption ==
  /\ Pots \subseteq 0 .. 1023
  /\ {LeftEnd, RightEnd, Centre} \subseteq Nat

VARIABLES
  pc,         \* "right", "left" (setup's loops), "loop", or "reading" in READ
  state,
  rgbRead,    \* what was read last
  ReadQueue,  \* the command runBUG runs
  relay, pwm, dirPin, clock, pot

commVars == <<state, rgbRead, ReadQueue>>
motorVars == <<relay, pwm, dirPin, clock>>
vars == <<dnetckVars, pc, commVars, motorVars, pot>>

State == {"INITIALIZE", "LISTEN", "ISLISTENING", "AVAILABLECLIENT", "ACCEPTCLIENT",
          "READ", "WRITE", "CLOSE", "EXIT", "DONE"}

TypeOK ==
  /\ DnetckTypeOK
  /\ pc \in {"right", "left", "loop", "reading"}
  /\ state \in State
  /\ rgbRead \in Command /\ ReadQueue \in Command
  /\ relay \in BOOLEAN /\ pwm \in Int
  /\ dirPin \in {"LOW", "HIGH"} /\ clock \in BOOLEAN
  /\ pot \in Pots
-----------------------------------------------------------------------------
\* setup(): the wheel is turned until it has passed the centre, then the
\* WiFi is asked to connect.
CentreLoop(here, done, dir) ==
  /\ pc = here
  /\ \/ ~done /\ clock' = TRUE /\ dirPin' = dir /\ UNCHANGED <<pc, state>>
     \/ done /\ clock' = FALSE /\ dirPin' = dirPin /\ pc' = "loop"
        /\ state' \in {"INITIALIZE", "EXIT"}
  /\ UNCHANGED <<dnetckVars, rgbRead, ReadQueue, relay, pwm, pot>>

Setup == CentreLoop("right", pot >= Centre, "LOW") \/ CentreLoop("left", pot =< Centre, "HIGH")

TurnsLeft(c)  == pot > LeftEnd /\ c.DIR = 1 /\ c.OE = 1
TurnsRight(c) == pot < RightEnd /\ c.DIR = 0 /\ c.OE = 1

\* runBUG(ReadQueue), every time protothread1 is due.
protothread1 ==
  /\ pc = "loop"
  /\ LET c == Decode(ReadQueue)
     IN  /\ relay' = (c.RELAY = 1)
         /\ pwm' = DriveDuty(c)
         /\ \/ TurnsLeft(c) /\ dirPin' = "HIGH" /\ clock' = TRUE
            \/ TurnsRight(c) /\ dirPin' = "LOW" /\ clock' = TRUE
            \/ ~TurnsLeft(c) /\ ~TurnsRight(c) /\ dirPin' = dirPin /\ clock' = FALSE
  /\ UNCHANGED <<dnetckVars, pc, commVars, pot>>
-----------------------------------------------------------------------------
(* The communication thread: one case of its switch for each body.         *)

In(st) == pc = "loop" /\ state = st
Quiet == UNCHANGED <<pc, rgbRead, ReadQueue, motorVars, pot>>

INITIALIZE ==
  /\ In("INITIALIZE")
  /\ state' = CASE link = "up" -> "LISTEN" [] link = "down" -> "EXIT" [] OTHER -> state
  /\ UNCHANGED dnetckVars /\ Quiet

LISTEN ==
  /\ In("LISTEN")
  /\ StartListening
  /\ state' = IF listening' = NoSocket THEN "EXIT" ELSE "ISLISTENING"
  /\ UNCHANGED <<conn, rx, peerVars, link>> /\ Quiet

\* A WiFi that is down is an error; too many waiting clients and a WiFi that
\* is away are none, and having no socket to listen on is not even noticed:
\* availableClients() tries again to get one.
ISLISTENING ==
  /\ In("ISLISTENING")
  /\ state' = CASE isListening(Len(pending)) -> "AVAILABLECLIENT"
                [] Len(pending) < PendingMax /\ link = "down" -> "EXIT"
                [] OTHER -> state
  /\ UNCHANGED dnetckVars /\ Quiet

AVAILABLECLIENT ==
  /\ In("AVAILABLECLIENT")
  /\ AvailableClients(pending)
  /\ state' = IF pending' = <<>> THEN state ELSE "ACCEPTCLIENT"
  /\ UNCHANGED <<conn, rx, peerVars, link, held>> /\ Quiet

\* tcpClient holds no socket here, so closing it first does nothing, and a
\* client is waiting, so that accepting it does not fail (AcceptSucceeds).
ACCEPTCLIENT ==
  /\ In("ACCEPTCLIENT")
  /\ AcceptClient
  /\ state' = "READ"
  /\ UNCHANGED <<conn, rx, peerVars, link>> /\ Quiet

\* READ asks whether there is something; after 5 s without, it says
\* "timeout" and goes on waiting.
READ ==
  /\ In("READ")
  /\ pc' = IF Available THEN "reading" ELSE pc
  /\ UNCHANGED <<dnetckVars, commVars, motorVars, pot>>

\* A '9' stops the BUG, a command is queued, anything else is ignored.
QueueCommand ==
  CASE rgbRead'[1] = 57 -> ReadQueue' = Zeros /\ state' = "CLOSE"
    [] rgbRead'[1] \in {48, 49} -> ReadQueue' = rgbRead' /\ state' = "WRITE"
    [] OTHER -> UNCHANGED <<ReadQueue, state>>

\* The bytes overwrite the beginning of the buffer; the rest, or all of it
\* when the bytes were lost since READ asked, is what was read before.
Reading ==
  /\ pc = "reading"
  /\ \E bytes \in {IF held = NoSocket THEN <<>> ELSE rx[held]} :
       /\ ReadStream(bytes)
       /\ rgbRead' = [i \in DOMAIN rgbRead |-> IF i =< Len(bytes) THEN bytes[i] ELSE rgbRead[i]]
  /\ QueueCommand
  /\ pc' = "loop"
  /\ UNCHANGED <<motorVars, pot>>

\* The potentiometer is converted but the command alone is sent.
WRITE ==
  /\ In("WRITE")
  /\ \/ IsConnected(TRUE) /\ WriteStream(ReadQueue) /\ state' = "READ"
     \/ IsConnected(FALSE) /\ UNCHANGED dnetckVars /\ state' = "CLOSE"
  /\ Quiet

\* Faulty variant: the drive is left as it was.
StepperOff == clock' = FALSE /\ UNCHANGED <<relay, pwm, dirPin>>

MotorsOff == relay' = FALSE /\ clock' = FALSE /\ UNCHANGED <<pwm, dirPin>>

\* Faulty variant: the client's handle is kept.
CLOSEHeld ==
  /\ In("CLOSE")
  /\ MotorsOff
  /\ CloseHandles({held})
  /\ UNCHANGED <<link, held, pending, listening>>
  /\ state' = "ISLISTENING"
  /\ UNCHANGED <<pc, rgbRead, ReadQueue, pot>>

CLOSE ==
  /\ In("CLOSE")
  /\ MotorsOff
  /\ CloseHandles({held}) /\ held' = NoSocket
  /\ UNCHANGED <<link, pending, listening>>
  /\ state' = "ISLISTENING"
  /\ UNCHANGED <<pc, rgbRead, ReadQueue, pot>>

\* Only here are handles of the server closed.
EXIT ==
  /\ In("EXIT")
  /\ MotorsOff
  /\ CloseHandles(ServerCloses \cup {held})
  /\ held' = NoSocket /\ pending' = <<>> /\ listening' = NoSocket
  /\ link' = link
  /\ state' = "DONE"
  /\ UNCHANGED <<pc, rgbRead, ReadQueue, pot>>

\* protothread2 in DONE does nothing.
protothread2 ==
  INITIALIZE \/ LISTEN \/ ISLISTENING \/ AVAILABLECLIENT \/ ACCEPTCLIENT
  \/ READ \/ Reading \/ WRITE \/ CLOSE \/ EXIT
-----------------------------------------------------------------------------
WheelMoves ==
  /\ clock
  /\ \E p \in Pots :
       /\ IF dirPin = "HIGH"
          THEN p < pot /\ \A q \in Pots : q < pot => q =< p
          ELSE p > pot /\ \A q \in Pots : q > pot => p =< q
       /\ pot' = p
  /\ UNCHANGED <<dnetckVars, pc, commVars, motorVars>>

Surroundings == (Network \/ LinkChanges) /\ UNCHANGED <<pc, commVars, motorVars, pot>>

Init ==
  /\ DnetckInit
  /\ pot \in Pots
  /\ pc = IF pot < Centre THEN "right" ELSE "left"
  /\ state = "INITIALIZE"
  /\ rgbRead = Zeros /\ ReadQueue = Zeros
  /\ relay = FALSE /\ pwm = 180
  /\ dirPin = "LOW" /\ clock = FALSE

Next == Setup \/ protothread1 \/ protothread2 \/ WheelMoves \/ Surroundings

\* loop() gives both threads their turn and a clocked wheel turns.  Nothing
\* is assumed of the WiFi and the clients.
Spec ==
  /\ Init /\ [][Next]_vars
  /\ WF_vars(Setup) /\ WF_vars(protothread1) /\ WF_vars(protothread2) /\ WF_vars(WheelMoves)
-----------------------------------------------------------------------------
(* Properties.                                                             *)

\* Accepting a client finds tcpClient free and a client waiting, although
\* that client may have left since it was counted: tcpClient holds a socket
\* exactly while the thread serves its client, and CLOSE has one to close.
AcceptSucceeds ==
  /\ (held # NoSocket) = (state \in {"READ", "WRITE", "CLOSE"})
  /\ state = "ACCEPTCLIENT" => pending # <<>>

\* After a '9', or before the first command, the motors are off, whichever
\* thread ran last; CLOSE is still to come in the state of that name.
StoppedAfterFarewell ==
  ReadQueue = Zeros /\ pc = "loop" /\ state # "CLOSE" => ~relay /\ ~clock

\* The drive is enabled only with a duty between 120 and 227, although a
\* command may be put together from parts of two.
DriveEnvelope == relay => pwm \in 120 .. 227

\* There is always room to listen when the thread goes back to listening:
\* with the array full isListening() would be false, not as an error, and
\* nothing in ISLISTENING would ever make room.
RoomToListen == state \in {"CLOSE", "ISLISTENING"} => Len(pending) < PendingMax

\* A client waiting first in line when the session before it is closed is
\* served next, unless it leaves or the WiFi fails: also when every socket
\* is in use and the server has none to listen on.
NextClientServed ==
  \A c \in Conns :
    (state = "CLOSE" /\ pending # <<>> /\ conn[Head(pending)] = c)
      ~> (held # NoSocket /\ conn[held] = c) \/ peer[c] = "gone" \/ link # "up"
=============================================================================
