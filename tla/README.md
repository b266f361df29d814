# BUG: TLA+ models of the vehicle's boards, its control station and its mapping

The BUG is a small vehicle: a chipKIT board drives one wheel (a PWM drive motor
behind a relay, a stepper that steers, a potentiometer that says where the wheel
stands), a control station on a PC sends it six-byte commands over TCP, and a
Matlab program maps its surroundings. This directory models the parts in which
concurrency, loss, timing and rounding decide whether the vehicle does what it was
told and knows where it is: the firmware of the 2015 board and of its 2014
predecessor, the two TCP server libraries they run on, the thread of the control
station that drives, the wheel encoder and the mapping system's bookkeeping.

## 1. The system

| Component | Source | State | Operations | Modelled |
|---|---|---|---|---|
| 2015 board: command execution and communication | `Board_Code_2015/Board_Code_2015.pde` 181-319, 549-731 | two timestamps, `state`, `rgbRead`, `ReadQueue`, `bitsReceived`, decoded command, pins | `setup`, `loop`, `protothread1`, `protothread2`, `runBUG`, `centerWheel` | `Board2015`, `CommandWord` |
| 2015 board: wheel encoder | same file, 141-166, 354-463 | sensor states, debounce times, which handler is attached, velocity | four interrupt handlers, direction, velocity, `sendDataToControl` | `WheelEncoder` |
| chipKITEthernet server | `libraries/libraries/chipKITEthernet` | the stack's socket table; `Server`'s listening handle and client list; the `Client` handles | `begin`, `available`, `write`; `available`, `read`, `stop`; segments, FIN, RST, timers | `TcpStack`, `EthernetServer` |
| 2014 board (WiFi) | `Board_Code_2014/Board_Code_2014.pde` | connection state machine, buffers, motors | `setup`, `runBUG`, the two threads | `Board2014`, `CommandWord` |
| DNETcK server | `libraries/libraries/DNETcK`, `DWIFIcK` | array of waiting clients and listening handle; the client's handle; the WiFi link | `startListening`, `isListening`, `availableClients`, `acceptClient`, `available`, `readStream`, `isConnected`, `writeStream`, `close` | `TcpStack`, `DnetckServer` |
| Control station | `BUG Control Station/src/GUI` | last joystick values, speed and turning, direction of drive, potentiometer | `readJoystickValues`, `joystickControl`, `sendControlWord` | `ControlStation` |
| Control station test application | `BUG Control Station/src/test` | as above | console loop | its words are inputs of the runs |
| Mapping (new) | `Matlab Mapping system 2015/New system` | emptiness, occupied and position maps, position, rounding error | `compute_local_maps`, `get_cell`, `MatrixMap`, `howMuch`, `move_BUG`, `run360Scan` | `LocalMaps`, `MappingSystem` |
| Mapping hardware | `.../Kinect`, `.../Pololu servo microcontroller`, `.../9150` | servo target, sensor file | servo commands, yaw reading | the servo's setting, in `MappingSystem` |
| UDOO network module | `UDOO-Net` | two sockets, two threads | `do_server`, `do_client` | no |
| Mapping (old) | `.../Old system` | occupancy grid | log-odds update | no |
| Third-party code | other libraries, JInput, VLC, bootloader | - | - | no |

How they interact. The control station opens a TCP connection to port 44400 of the
board and sends words such as `111180`: stepper on, left, drive on, duty 180. In
one of its states the board's `protothread2` collects six bytes into `rgbRead`,
in the next it copies them to `ReadQueue`, in the next it sends the command back
with three digits of the potentiometer. `protothread1` runs whatever is in
`ReadQueue`, again and again. The two threads share `ReadQueue` and the motor
pins and nothing else; they are protothreads, so each runs its body to its end.
Below them, the library's stack changes the socket table whenever it is polled,
which every call of the API does, the `READ` loop's `client.available()` included.
The Java client waits for a line after each word, and steers by the potentiometer
in it. The encoder's interrupts send velocities on port 200 through the same stack.
The 2014 board serves one client at a time over WiFi with a state machine of its
own. The mapping system is run by hand between the BUG's moves, and what `move_BUG` is told
of a move are its arguments: the control station's connection to Matlab (port 8090)
only echoes a test line.

What is hard here:

* A handle is the number of an entry of a shared table. The stack closes sockets
  (peer's FIN and a 200 ms timer, reset, lost keep-alives) and makes a server
  socket listen again while the board still holds its handle; the next client may
  get the same socket.
* `client.stop()` gives the socket back but leaves the entry in the 2015 server's
  list; `availableClients()` forgets handles without closing them in the 2014 one,
  and shifts its array in place.
* `available()` polls the stack in the middle of its work on the list: after it opened
  a socket, after each entry it closed, before it looks at each entry for bytes.
* `READ` looks at the client three times (`client`, `client.available()`,
  `client.read()`) with the stack running in between; on the 2014 board twice.
* Nothing tells `protothread1` that a new command was queued, or `protothread2`
  that it was run: only the pace of the two timestamps orders them, and the answer
  the station goes on by may overtake the running of the word.
* Loops that wait for something outside the program (six bytes; the wheel reaching
  a threshold; an answer; a reading) stop everything else.
* The encoder's handlers drop edges and with them the switch to the other edge.
* The mapping system mixes metres, centimetres and cells and rounds between them.

The full list, with lines, is under "hazards" in `PROJECT.json`.

## 2. Modules

| Module | Contents |
|---|---|
| `TcpStack` | the server sockets of TCP.c and the clients at the other end, shared by both boards |
| `CommandWord` | the command and its decoding, shared by both boards |
| `EthernetServer` | EXTENDS `TcpStack`: `Server` and `Client` of chipKITEthernet; an application that calls them in any order; the bookkeeping properties |
| `Board2015` | EXTENDS `EthernetServer`: the firmware, one action per step of a thread, composed with the stack, the clients, the wheel and time |
| `ControlStation` | the thread that reads the joystick, sends words and steers |
| `BugSystem` | EXTENDS `Board2015` and `ControlStation`: station and board joined by a connection, and the refinement mapping to `ControlLink` |
| `ControlLink` | the abstract specification of the two: words go round one at a time |
| `DnetckServer` | EXTENDS `TcpStack`: `TcpServer` and `TcpClient` of DNETcK and the WiFi link |
| `Board2014` | EXTENDS `DnetckServer`: the 2014 firmware |
| `WheelEncoder` | the handlers of the right wheel's two sensors and a free wheel |
| `LocalMaps` | what an image adds to the maps; a reference for it |
| `MappingSystem` | EXTENDS `LocalMaps`: scans and moves |
| `BoardLemmas` | lemmas about the stack and the command that several proofs need |
| `EthernetServerProofs`, `Board2015Proofs`, `BugSystemProofs`, `ControlLinkProofs`, `Board2014Proofs`, `WheelEncoderProofs`, `MappingSystemProofs` | the theorems about these modules (`Board2014Proofs` includes `DnetckServer`) |
| `MC...` | words, sticks, images and symmetry for TLC |

Operators headed "Faulty variant" are altered forms of the action they stand beside;
no specification uses them. They show that a property would notice that mistake.

### TcpStack

`sm`, `conn` and `rx` are the socket table: TCP state, connection served and unread
bytes. States the properties do not tell apart are one: "closing" is FIN_WAIT_1/2
and CLOSING, "close_wait" includes the LAST_ACK it ends in. A socket the board
released has `bServer` cleared (`TCPClose`) and ends "closed"; one the stack closes
itself goes back to "listen" (`TCP.c:3355`). That difference is the source of most
of the subtlety.

`Connect` takes the last listening socket of the table, which is what
`FindMatchingSocket` does with several partial matches. When none listens, but a server
socket is in use, the SYN is saved (`SaveSYN`, up to `SynQueueSize` of them) and the client
is "waiting": `ServeSYN` gives it the first socket that `TCPTick` finds listening, `DropSYN`
is the queue's timeout. A client sends a word in
segments of any size in `Chunks`, hangs up after any prefix (FIN behind its bytes) or
vanishes (RST, unanswered keep-alives). `inbox` is the last reply it was sent.

Abstracted: the handshake is one step, so that a half-open socket, and a SYN repeated while
its first copy is in the queue, do not occur; which of several saved SYNs is served first is
left open, since nothing tells the waiting clients apart. TCP delivers in order and without
loss until a connection ends, so retransmission, windows and the hole buffer are left out; SSL,
UDP and outgoing connections are not used by the boards. The two
boards are built with two copies of the same `TCP.c`.

### EthernetServer

`listening` is `sklListening.hTCP` and `skl` the list of handles, newest first.
`available()` takes several steps, because the stack is polled inside it: `TCPOpen` is followed
by a poll (`chipKITEthernetAPI.c:358-359`), `ChipKITClientStop` polls for each entry dropped
(`:756`), and so does each look for bytes. `call` and `psklNow` say how far the call is, and
each action is what runs between two polls: `ServiceSocketListen` begins the call and either
promotes the connected listening socket, listening on the first free one (`Promote`), or
starts the walk; `WalkFrom` goes on to the next entry not connected and drops it (`Drop`), or
to the end of the list; `Look` looks at one entry for bytes and returns it, or the invalid
client behind the last. Between any two of them every step of the network is possible: a
socket just opened may be connected out of the SYN queue, an entry already found connected may
be lost, the client returned may have no bytes any more.
`ChipKITClientConnected` counts unread bytes as a connection. When the table is full
the handle becomes `NoSocket`. `ReadByte`, `ServerWrite` and `ClientStop` are the
other calls. `ServerWrite` polls between the sockets it writes to but is one step: the network
does not change the list, and a client acts on its own reply alone, so that the writes may as
well be made together. Memory for list entries is assumed not to run out.

### Board2015

`pc` says where the single thread of control is: at a thread's guard, inside
`server.available()` ("service"), in the switch after it, at one of the two tests of the collecting loop, or in one
of `centerWheel`'s loops. Each `case` of the switch is an action that guards on
`state`. `client` of `EthernetServer` is the local `Client client` of the body.

Time. Each thread's guard is `millis() - timestamp > interval`. `age1` and `age2` are
those differences, saturating one above `Interval`; `slack` is how much longer the
body being executed may take, so `Tick` is bounded by `BodyTicks` per body (plus
`WriteTicks` for `server.write`, which waits for buffer space) and unbounded only
in the loops that wait. A body that outlasts the interval is due again at
once, before the other thread: the guard is asked in a `while(1)` without a yield
between.

`runBUG` decodes with signed characters (bytes above 127 are negative), limits the
duty, and turns, centres or stops. Details kept from the code: `120 < PWMvalue < 227`
is always true; the test `OE == 0` compares the pin's number, so that branch is never
taken and the last one stops the stepper; `centerWheel` drives right below 655 and
left otherwise, so its condition for doing neither is never met; `CLOSE` resets the
pins but leaves `pwm` and the decoded command.

The 512-byte buffers are modelled to the six bytes of a command; the others are zero
for ever. A reply is the command and three digits. The potentiometer moves between
the members of `Pots`, one position per step, while the stepper is clocked. LEDs,
`tStart` and the serial port are left out; EXIT and DONE are never entered.

### ControlStation, BugSystem and ControlLink

`joystickControl()` is one thread: `at` says where it is, `word` holds the word it
waits an answer for, and every action but `Receive` needs the answer (`Free`). Axes
count in tenths, to which `readJoystickValues` rounds; the duties follow the code's
casts and divisions, which round towards zero. `Target` is the reading of the four
pairs of steering loops, which differ in nothing else. A word sent before any answer
has come has no reading to parse: the thread dies (`Aside`). The twist of the stick
alone also ends `readJoystickValues`, so the stick may be read unchanged.

`BugSystem` puts the station's word into `sending` of its connection and its answer
into `inbox`. A reset may end the connection at any moment, and then the board goes
on alone. `ControlLink` promises that words are sent, queued and answered one at a
time, that the answer repeats the word, and that no word is replaced in the queue
before it was run. It allows what the code does and one might not expect: the answer
may come before the word is run, and the bytes of a word cut short by a loss can be
completed by others (`Garble`). The refinement mapping reads the stage of a word off
`word`, `inbox`, `peer` and the board's `state`; `running` is the board's `cmd`.

### DnetckServer and Board2014

`pending` and `listening` are the array `_rghTCP`: the waiting clients, oldest first,
and the handle behind them. Whether the array beyond it is empty, as that form assumes, follows
from `availableClients()` shifting every place down and clearing the last.
`AvailableClients` is one step, because it polls the stack at its beginning only: promote, drop what is neither connected nor readable
(without closing it), listen again; the places that stay move up in order, which
`Increasing` says without the loop of shifts. `AcceptClient` clears its place before it does the same.
`isListening()` does not notice that there is no socket to listen on: the handle is then
0xFE, which is less than the 0xFF it is compared with. The board goes on to AVAILABLECLIENT,
serves who waits and gets a socket when one is free. `EXIT` closes the clients that still wait
and the listening socket, and drops the others as `availableClients()` always does.
`link` is what `WFcK_IsConnected` reports: a connection that failed or was lost for good
is "down" and is not retried, any other time without WiFi is "away". While it is away
`isConnected()` answers true or false depending on how often it was asked; that is a
choice here.

`Board2014` has one action per case of the switch, two for READ since `available()`
and `readStream()` each let the stack run. The pace of the two threads is left
out, so that either may be next: its properties do not rest on it. `setup()` may fail
to join the WiFi and start in EXIT. Bytes read overwrite the beginning of `rgbRead`.

### WheelEncoder

`Handle` is the beginning of a handler and `Attach` its end, 100 microseconds later,
between which the other sensor's flag may be set. Which of a sensor's two handlers runs shows in
`edge` alone, as they differ in nothing else. The wheel (`Turn`) is free: it turns
either way at any time, so that edges are missed, dropped and late; a bouncing sensor is a wheel
that turns to and fro. `steady` and `trusted` are history variables that say when
the handlers could have followed. A divisor of zero gives any quotient or a trap, after which no handler runs.
What an edge of the old kind leaves in the flag across a new `attachInterrupt` is left open.

### LocalMaps and MappingSystem

Lengths are integers with 8 to a test step and 24 to a cell (`r_step` is a third of a
cell). A ray is the vector of one step and a length in steps and a half; sines,
cosines and the Kinect's bearings are inputs. `get_cell` keeps the index one beyond
the cell and the order of its arguments. `Gaining` is the walk of `compute_local_maps`
with its comparisons to the previous and the last cell, as the set of steps that add
support, and `Gains` the steps of an image that add it to one cell: the maps are counted
from these sets, once for each step. `Empties` says which cells should gain without a walk.

`Carry` is `howMuch()` after its kinematics: the displacement is an input of whole centimetres. A function
of Matlab works on copies (`call`), so a walk that leaves the map changes nothing.
`v_posn` keeps the code's units: the position counts cells for `P_Map` and metres
for the grid. A scan turns the servo after every image, the last one's too, before `CentreServo` centres it; the script's own `servoPosition` keeps the last turn. P_Map's counts are reduced to the set of cells marked. `travelled`,
`uneven`, `taken` and `moves` are history.

## 3. Runs

| Run | Question | Bounds and why they suffice |
|---|---|---|
| `ethernet_server` | Does the server keep its table and list in order under any sequence of calls, with a network that goes on inside them? | Three sockets and four clients: two entries around a dead one, a socket reused while listed, a full table with a client waiting for it, and SYNs saved and served, two at a time, all occur (four sockets give the same result). One byte per buffer, since the bookkeeping asks only whether it is empty. Clients are symmetric; sockets are not (the table is searched in order). |
| `board` | Do the motors follow the commands, is none skipped, and is every queued one run? | Two sockets, one client whose two-byte farewell, six-byte commands and losses cut commands anywhere on even positions; an interval of 2 with bodies and writes of 1, the slowest prompt ones, where the threads' order is decided by a single tick; a command below the least duty; a wheel position beyond each steering limit. With `WriteTicks = 2` `NoCommandSkipped` and `CommandTakesEffect` fail: see below. |
| `board_clients` | Are commands of two clients kept apart, and is each client sent the reply to its own? | Two clients with a command each, in halves, no losses and no centring. |
| `bug_system` | Do station and board implement `ControlLink`; does the joystick have its effect on the motors? | One connection that may be reset; three sticks, among them the trigger let go, the full left and a lesser right turn, a button for each direction of drive and a held button 4 or 5; wheel positions at and beyond the left limit, beyond the right one, and above 999; words in halves. |
| `board_2014` | Does the 2014 server keep its handles apart and serve the next client; do the motors stop? | Three sockets for two clients (one served, one waiting, one listening) and two places in the array, so that it fills; segments of three bytes, so that a command comes in two; a three-byte farewell, so that it overwrites half a command. |
| `wheel_encoder` | Does the direction repair itself? | A debouncing time of 1 (2 gives the same result); five steps are needed and four are not enough. |
| `mapping` | What do the maps hold, which images are lost, are the centimetres accounted for? | A map of 12 by 12 cells, three of the position's units wide, so that the border, the last row and the middle are all reached; two images of three bearings with rays in four directions along and across the axes, or unmeasured; displacements of both signs, whole and uneven; two moves. |
| `server_goes_deaf` | "immediately start listening on another socket" (`chipKITServer.cpp:142`) | violated |
| `picked_up_twice` | "picks up any new connection and adds it to the client list" (`chipKITServer.cpp:115`) | violated |
| `lost_client_drives_on` | "Close the connection when the client is lost, stop the BUG" (pde:699) | violated |
| `farewell_freezes_board` | `loop` runs "the two threads" (pde:236), with the farewell of `BUGTest.java:479` | violated |
| `centred_wheel_hunts` | "center the motor" (pde:301) | violated |

The five violations, and other disagreements met on the way, are described in
`PROJECT.json` under "findings". In short:

1. After a `stop()` whose handshake has ended, `available()` can choose the stopped
   socket as its new listening socket and then, finding it in the list and not
   connected, close it. The handle stays a closed socket and no client connects again.
2. A client that vanishes while driving leaves the relay on: `available()` returns the
   invalid client, so `READ` does nothing, and `protothread1` repeats the command.
3. A farewell of two bytes leaves `READ` waiting for six. When the client is gone the
   loop never ends and neither thread runs.
4. The neutral command runs `centerWheel` every interval; each call moves the wheel to
   the threshold the next one moves it away from.
5. As 1, but a SYN saved in the queue connects the reused socket before the walk reaches its
   old entry: the entry stays, the next call adds the handle again, and each reply is sent to
   that client twice.

Properties, beside the type invariants:

* `NoSocketLeak`, `FreeIsClean`, `OneSocketPerClient`: the table and
  the list agree, and no handle carries one client's bytes to the next.
* `OnlyStopBreaksTheList`: the handles of the list and the listening one are distinct open
  sockets (`HandlesSound`), and of all that happens in and between the calls only
  `client.stop()` can end that. Violations 1 and 5 are what comes of it.
* `NoCommandSkipped`, `StopTakesEffect`: no command is overwritten before it was
  run; the drive does not run on a superseded command when the board starts to
  wait for bytes, perhaps for ever.
* `StoppedAfterClose`, `DriveEnvelope`: after a `9` the motors stay off in every order
  of the threads; the drive is enabled only with a duty in 120..227.
* `CommandTakesEffect`, `Answered` (liveness), `WholeCommands`: commands are run; a client
  whose command arrived is sent the reply to that command, another client's not counted;
  commands of two clients are not mixed.
* `ImplementsLink`: `BugSystem` refines `ControlLink`. `DeadMansTrigger`, `WheelLetGo`:
  when a change of the joystick has been dealt with, the trigger let go means the
  neutral duty, and the stepper is not left turning. `WordsAnswered`, `SteeringEnds` (liveness): words are
  answered, steering loops end.
* `HandlesApart`, `AcceptSucceeds`, `RoomToListen`, `StoppedAfterFarewell` and, as
  liveness, `NextClientServed`, of the 2014 board.
* `DirectionTrusted`: after five steps in one direction that the handlers could follow
  the direction is right, and stays right, reversals included, until an edge comes
  too early; whatever went wrong before.
* `Reckoned`: the exact account of the centimetres, one cell too many for each uneven
  move; `TrailConnected`: P_Map is one path from the start; `MapsSupported`: an image adds
  to each cell what a definition without the walk says; `LostImages`: which images end
  in an error; `MoveEnds`.

Fairness. `Board2015`: `WF(Firmware)`: the processor never stops and the firmware's next step is
always determined, so it is one disjunction under one weak fairness condition.
`WF(Tick)`: time passes. `WF(WheelMoves)`: a clocked stepper turns the wheel.
Nothing is assumed of clients or of the network: a client may stop for ever.
`BugSystem` adds that TCP delivers what was sent while the connection lasts and that the
station's thread does not stop between two reads of the joystick; the driver need not
touch it again. `Board2014`: `loop()` gives each thread its turn, and a clocked wheel
turns; nothing of the WiFi or the clients. `MappingSystem`: Matlab goes on with a loop it has begun.

`CommandTakesEffect` rests on prompt writes (`BodyTicks + WriteTicks <= Interval`). After a
`server.write` that outlasts the interval, as it may for up to 30 s
(`chipKITEthernetAPI.c:655`), `protothread2` is due again before
`protothread1`, reads on, and may wait for ever for the rest of a command while the one it queued
has not been run.

`Answered` has its conditions in its formula: `available()` serves the newest client with bytes
first, so that newer clients that send for ever starve an older one (`Overtaken`), and the READ loop
waits for the rest of a command whoever else sends (`MidCommand`). It
is checked for clients that do not ask for centring. With the neutral
command and centring that lasts longer than the interval, `protothread1`, which sets
its timestamp before the body, is due again when it ends, and `protothread2` may never
get its turn. The station sends that word whenever the stick is straight, so `WordsAnswered` and
`SteeringEnds` take as hypothesis that `protothread2` gets its turn again and again.

`SteeringEnds` excepts a wheel that stays for good where station and board disagree
(`OutOfReach`), not one that passes there: at exactly 320, since the outermost left target
is 319 and the board turns left only above 320; and at 1000 and more, where the three digits
sent have lost the thousand.

`WholeCommands` assumes clients that stay: if one leaves in the middle of a command, a
later client's bytes complete it, as `board`, which includes such losses, allows.

`NextClientServed` begins at CLOSE: a silent client is never closed. It holds also when the
table is full, without a socket to listen on.

The mapping run does not check for deadlock: its images and moves are bounded, and the
operator may stop; nor does it restrict what the operator runs next.

## 4. Proofs

The proof modules are checked by TLAPS for every value of the constants that satisfies
the `ASSUME`s (any numbers of sockets and clients, any words, any interval, any grid).

`EthernetServerProofs`. `NoSocketLeak` is not inductive: `stop()` breaks the link
between a list entry and a connection, and the entry may later name a socket in use
again. `ServerIInv` adds that free sockets are clean, one socket per connection, and
`Bookkeeping`: a socket being closed has no unread bytes, the application's client is a socket it
has not released, and a connection on a socket has been made. Nothing is said of the order or
distinctness of the list, which do not last. One lemma per
step, those inside `available()` included, shows that it is kept, for every application:
`Board2015Proofs` cites the same
lemmas for the firmware's calls. `OnlyStopsBreakTheList` is a property of steps: with
`ServerIInv`, each step but `stop()` from a state with `HandlesSound` leads to one.
`UnlinkedList` and `PromotedList` say what the list is after an entry is taken out or put in front.

`Board2015Proofs`. `BoardIInv` adds to the type invariant and the server's that a
command is being collected only in READ, that an enabled drive has a legal duty, and
`StoppedAfterClose`. From it follow `TypeCorrect`, `DriveStaysInEnvelope`,
`StaysStopped` and `BoardLeaksNoSocket` (`NoSocketLeak`, `FreeIsClean` and
`OneSocketPerClient` of the firmware as the application).

The order of the threads is a timing argument. `Pace` relates the two ages, `slack` and
`pc`: between two bodies of `protothread2` there is one of `protothread1`, because a body
of `protothread2` that takes no longer than the interval is not due again when it ends,
and `protothread1`, idle since, is. It needs `PromptWrites == BodyTicks + WriteTicks =<
Interval`, which is a hypothesis of `NoCommandIsSkipped` and `StopsTakeEffect` and not
of the other theorems: `server.write` may wait up to 30 s when a client does not read,
and then both fail: with `WriteTicks = 2` in the `board` run TLC finds a command
overwritten before it was run. `BodyTicks =< Interval` alone is assumed of the
other bodies (their longest call is `delay(10)`). `FreshPlace` says where the firmware
can be while a command is waiting to be run.

`CommandsAreWhole` follows the bytes. What the loop has collected of the client it reads,
what the socket holds and what the client has still to send are, one behind the other, a
sequence of whole words (`Aligned`), for every socket that is connected. An arriving segment
moves bytes from the client to the socket, a `read()` from the socket to the buffer, and
neither changes that sequence; the sixth byte takes its first word off. `Served` adds that
the client chosen by `available()` stays the one that is read, and connected, until then;
`Staying` that nothing is left unread in a socket that is not connected. The theorem is about
clients with `WholeSenders == Words \subseteq Command /\ Faults = {}`: they send words of six
bytes and do not leave. Without it the property fails, as said above. A word may still
begin with a `9`: the bytes that client sends after it are dropped with its socket.

`BugSystemProofs`. `StationListed` says that `available()` can find the station's socket at
every stage of its walk, and `Alone` that no other client is there. One invariant follows the word the station sent from hand to hand: it is
in `sending`, in the socket, in `rgbRead`, in `ReadQueue`, or an answer on its way back, in
one of them at a time (`Handed`), and each stage is a state of `state` and `pc`. While the
connection lasts the queue therefore holds the station's last word between two words
(`QueueIsLast`); a pass over the station's loop makes that word what the joystick asks for
(`SpeedShown`), and the motors do what was decoded last (`Motors`). From these follow
`TriggerLetGo` and `WheelIsLetGo`. `SystemImplementsLink` takes the same invariant, and `Pace`, to show that
the initial state maps to `LinkInit` and each step of `SysSpec` to a step of `ControlLink`
or a stutter. Its hypothesis is `PromptWrites`, since the link promises that no queued word
is replaced before it was run. `AnswersAreOwn` needs no such hypothesis: whatever the pace, an
answer the station reads repeats its own last word.

`ControlLinkProofs`. `AnswersRepeatWords` is a fact of the abstract link under the
assumption `Nothing \in Commands`; with `SystemImplementsLink` it is a fact of the system.

`Board2014Proofs`. `HandlesApart` is not inductive: that `acceptClient()` finds what was
counted (`AcceptSucceeds`), that `pending` is full only from counting to accepting (`Room`),
and where the firmware holds a client are needed with it. `Stopped`
extends `StoppedAfterFarewell` to the reads in progress, and `Places` says where `setup()`
and a read can be. No order or pace of the threads is assumed.

`WheelEncoderProofs`. Each step of the wheel that the handlers could follow makes one more of
the facts true that the next direction is computed from: which edge each sensor waits for,
what each has last read, which sensor acted last. The invariant says what is known after
`n` of them (`Known(n)`), and after five it is everything, whatever the sensors and their
attachments began with. `Enough >= 5` is a hypothesis of `DirectionRepairs` because the code
has no such number: with four TLC finds a wrong direction. The debouncing time is any.

`MappingSystemProofs`. `Reckoned` speaks of the position between calls, while a walk goes
on for many steps. `ReckonInv` therefore adds to the account at rest one of the call in
progress: the cells left to walk, those walked since the call and the new rest are
what the displacement is worth. `CarryExact` is the arithmetic of `howMuch()`: over any
displacement, of either sign, `25 * cells + rest'` is `rest + p`, and 25 more if `p` is
not of whole cells. `AccountAdds` joins the two axes when the call returns. It follows that
`PositionStaysInMap`. Nothing is assumed of the displacements but that they are integers.

The maps are geometry. Along an axis the points of a ray go one way, and `LineBeyond` does not
decrease; the cells of a ray are therefore visited for one stretch of points each
(`get_cell` never returns to a cell it left), which is why the walk's comparison with the
previous cell alone counts no cell twice. `ImagesSupportMaps` maps the steps that add support
to a cell one to one to the bearings whose ray crosses it. The same order gives
`ImagesLostAtTheBorder`: a point between two good ones is good. The rays have any direction
and length. `TrailStaysConnected` is about sets of marks rather than paths: if a part of the
marks that has the last cell, and with each cell those beside it, was always all of them, it
is so after a step to a cell beside it. A call that ends at the border gives back the marks of before.

Where a proof needs the first step with some property, it takes the least of a set of natural
numbers, which the library's theorem on well-founded orders gives; none is by induction
over data.

What the proofs changed in the models. The duty and the target of `ControlStation` were
`CASE`s whose guards overlapped, which leaves open what is chosen; they now test in the
code's order. `AvailableClients`
and `compute_local_maps` were written with `SelectSeq` and a recursive sum, of which nothing
can be proved for every sequence; they now say what the loops leave, as `Increasing` and
`Gains`. `TrailConnected` and `LostImages` were restated for the same reason, and
`MapsSupported` for the support each step adds.

Only model-checked: the liveness properties (`CommandTakesEffect`, `Answered`,
`WordsAnswered`, `SteeringEnds`, `NextClientServed`, `MoveEnds`), which with ENABLED are
outside the prover's reach, and the five violations. Every safety property of section 3 is
stated by a theorem, three of them under `PromptWrites`, one under `WholeSenders` and one
under `Enough >= 5`.

## 5. What remains

Proofs that would add most: an abstract specification of the two servers (connections, each
served by at most one handle) that both `EthernetServer` and `DnetckServer` implement; and,
when `PromptWrites` does not hold, which other promises of the link are left.

Not modelled, and why:

* `UDOO-Net` is a test program of two threads over a loopback socket that nothing else calls.
* The old mapping system is superseded by the new one and shares nothing with it.
* The file of the orientation sensor is written by a program that is not part of the
  sources; the yaw turns bearings, which are inputs here.
* Averaging Kinect frames, trigonometry and figures: arithmetic on hardware input, no
  state that outlives a call.
* Of the control station the window, the video and the two threads that only print; other
  clients connected beside the station, whose replies it would read as its own.
* Of the 2015 board the entry of the encoder's interrupt into the TCP stack while
  `loop()` is inside it, and the left wheel's handlers, which are never attached.
* The vendored libraries beyond the two servers' path (USB, MDD file system, other network
  protocols), the JInput bindings, VLC and the bootloader. They are nearly all of the
  repository's lines, which is why the models stand for a small share of it.
