--------------------------- MODULE Board2014Proofs --------------------------
(***************************************************************************)
(* Proofs about the 2014 firmware and its server's handles, for any table  *)
(* of sockets, any array, any clients and any wheel.                       *)
(***************************************************************************)
EXTENDS Board2014, BoardLemmas, FiniteSetTheorems

\* setup() runs before the communication thread, with the motor off and
\* nothing queued; a read in progress was begun in READ.
Places ==
  /\ pc \in {"right", "left"} => state = "INITIALIZE" /\ ~relay /\ ReadQueue = Zeros
  /\ pc = "reading" => state = "READ"

\* The motors are off while the queue is zeroed, also during a read.
Stopped ==
  ReadQueue = Zeros /\ pc \in {"loop", "reading"} /\ state # "CLOSE" => ~relay /\ ~clock

\* The array is full only from the moment a client is counted until one is
\* accepted.
Room == state \notin {"AVAILABLECLIENT", "ACCEPTCLIENT"} => Len(pending) < PendingMax

Board2014IInv ==
  /\ TypeOK
  /\ HandlesApart
  /\ AcceptSucceeds
  /\ Places
  /\ Stopped
  /\ Room
  /\ DriveEnvelope

Open(s) == sm[s] \notin {"closed", "closing"}
-----------------------------------------------------------------------------
(* The array of handles.                                                   *)

\* There are as many places in 1 .. n as there are places, and one less when
\* the first is not among them.
LEMMA PlacesCount ==
  ASSUME NEW n \in Nat, NEW K \in SUBSET (1 .. n)
  PROVE  /\ Cardinality(K) \in Nat
         /\ Cardinality(K) =< n
         /\ n > 0 /\ 1 \notin K => Cardinality(K) < n
PROOF
<1>1. IsFiniteSet(1 .. n) /\ Cardinality(1 .. n) = n
  BY FS_Interval
<1>2. IsFiniteSet(K) /\ Cardinality(K) =< n
  BY <1>1, FS_Subset
<1>3. Cardinality(K) \in Nat
  BY <1>2, FS_CardinalityType
<1>4. ASSUME n > 0, 1 \notin K PROVE Cardinality(K) < n
  <2>1. IsFiniteSet(2 .. n) /\ Cardinality(2 .. n) = n - 1
    BY <1>4, FS_Interval
  <2>2. K \in SUBSET (2 .. n)
    BY <1>4
  <2>3. Cardinality(K) =< n - 1
    BY <2>1, <2>2, FS_Subset
  <2> QED
    BY <1>3, <2>3
<1> QED
  BY <1>2, <1>3, <1>4

\* Increasing places are different places.
LEMMA IncreasingApart ==
  ASSUME NEW K \in SUBSET Nat, Cardinality(K) \in Nat, NEW places \in Increasing(K)
  PROVE  /\ places \in [1 .. Cardinality(K) -> K]
         /\ \A a, b \in 1 .. Cardinality(K) : places[a] = places[b] => a = b
PROOF
<1> DEFINE m == Cardinality(K)
<1>1. /\ places \in [1 .. m -> K]
      /\ \A a, b \in 1 .. m : a < b => places[a] < places[b]
  BY DEF Increasing
<1>2. \A a \in 1 .. m : places[a] \in Nat
  BY <1>1
<1>3. m \in Nat
  OBVIOUS
<1> HIDE DEF m
<1>4. \A a, b \in 1 .. m : places[a] = places[b] => a = b
  BY <1>1, <1>2, <1>3
<1> QED
  BY <1>1, <1>4 DEF m

\* A function on 1 .. m into the sockets is a sequence of m sockets.
LEMMA MovedUp ==
  ASSUME NEW m \in Nat, NEW moved \in [1 .. m -> Sockets]
  PROVE  moved \in Seq(Sockets) /\ Len(moved) = m
PROOF
<1>1. moved \in Seq(Sockets)
  BY SeqDef
<1> QED
  BY <1>1, LenProperties

\* resumeListening() opens a closed socket, or none.
LEMMA Resumed ==
  ASSUME DnetckTypeOK, NEW n \in Nat, NEW h \in Handle, h # NoSocket => Open(h), ResumeListening(n, h)
  PROVE  /\ sm' \in [Sockets -> SocketState]
         /\ listening' \in Handle
         /\ listening' # NoSocket => sm'[listening'] \notin {"closed", "closing"}
         /\ listening' # NoSocket => listening' = h \/ sm[listening'] = "closed"
         /\ \A s \in Sockets : Open(s) => sm'[s] = sm[s]
PROOF
<1> USE ServerAssumption DEF Open
<1>1. CASE h # NoSocket \/ n >= PendingMax
  BY <1>1 DEF ResumeListening, DnetckTypeOK, StackTypeOK, Handle
<1>2. CASE ~(h # NoSocket \/ n >= PendingMax)
  <2>1. /\ TCPOpen(listening')
        /\ sm' = [s \in Sockets |-> IF s = listening' THEN "listen" ELSE sm[s]]
    BY <1>2 DEF ResumeListening
  <2>2. listening' \in Handle /\ (listening' # NoSocket => sm[listening'] = "closed")
    BY <2>1 DEF TCPOpen, Lowest, Handle
  <2> QED
    BY <2>1, <2>2 DEF DnetckTypeOK, StackTypeOK, Handle, SocketState
<1> QED
  BY <1>1, <1>2

\* What availableClients() leaves: waiting sockets, each once and none of
\* them the listening one, all of them handles it found in the array.
LEMMA Tidied ==
  ASSUME DnetckTypeOK, HandlesApart,
         NEW queue \in Seq(Handle), Len(queue) = Len(pending),
         \A i \in 1 .. Len(queue) : queue[i] = NoSocket \/ queue[i] = pending[i],
         AvailableClients(queue)
  PROVE  /\ pending' \in Seq(Sockets) /\ Len(pending') =< PendingMax
         /\ Len(queue) > 0 /\ queue[1] = NoSocket => Len(pending') < PendingMax
         /\ \A i, j \in DOMAIN pending' : pending'[i] = pending'[j] => i = j
         /\ \A i \in DOMAIN pending' :
              /\ Open(pending'[i])
              /\ pending'[i] # listening'
              /\ pending'[i] = listening \/ \E j \in 1 .. Len(queue) : queue[j] = pending'[i]
         /\ sm' \in [Sockets -> SocketState]
         /\ listening' \in Handle
         /\ listening' # NoSocket => sm'[listening'] \notin {"closed", "closing"}
         /\ listening' # NoSocket => listening' = listening \/ sm[listening'] = "closed"
         /\ \A s \in Sockets : Open(s) => sm'[s] = sm[s]
PROOF
<1> USE ServerAssumption, PendingAssumption
<1> DEFINE promoted == isListening(Len(queue)) /\ IsEstablished(listening)
           found == IF promoted THEN Append(queue, listening) ELSE queue
           kept  == {i \in DOMAIN found : Waiting(found[i])}
           m     == Len(queue)
           h     == IF promoted THEN NoSocket ELSE listening
<1>1. PICK places \in Increasing(kept) :
        /\ pending' = [n \in DOMAIN places |-> found[places[n]]]
        /\ ResumeListening(Len(pending'), h)
  BY DEF AvailableClients
<1>2. m \in Nat /\ m =< PendingMax /\ (promoted => m < PendingMax /\ listening \in Sockets)
  BY LenProperties DEF DnetckTypeOK, isListening, IsEstablished, Handle
<1>3. /\ found \in Seq(Handle)
      /\ Len(found) = IF promoted THEN m + 1 ELSE m
      /\ \A i \in 1 .. m : found[i] = queue[i]
      /\ promoted => found[m + 1] = listening
  <2>1. CASE promoted
    <3>1. listening \in Handle
      BY DEF DnetckTypeOK
    <3> QED
      BY <2>1, <3>1, AppendProperties
  <2>2. CASE ~promoted
    BY <2>2
  <2> QED
    BY <2>1, <2>2
<1>4. DOMAIN found = 1 .. Len(found) /\ Len(found) \in Nat /\ Len(found) =< PendingMax
  BY <1>2, <1>3, LenProperties
<1>5. \A i \in 1 .. Len(found) : i \in 1 .. m \/ (promoted /\ found[i] = listening /\ i = m + 1)
  <2> HIDE DEF promoted, found, m
  <2> QED
    BY <1>2, <1>3, <1>4
<1>6. \A i \in kept : /\ i \in 1 .. Len(found) /\ found[i] # NoSocket
                      /\ (i \in 1 .. m /\ found[i] = pending[i]) \/ (promoted /\ found[i] = listening /\ i = m + 1)
  <2> HIDE DEF promoted, found
  <2> QED
    BY <1>3, <1>4, <1>5 DEF Waiting
<1>7. kept \in SUBSET (1 .. Len(found)) /\ kept \in SUBSET Nat
  BY <1>4
<1>8. DOMAIN pending = 1 .. m /\ \A i \in 1 .. m : pending[i] \in Sockets
  BY LenProperties, ElementOfSeq DEF DnetckTypeOK
<1>9. \A i \in kept : found[i] \in Sockets
  <2> HIDE DEF promoted, found, kept, m
  <2> QED
    BY <1>2, <1>6, <1>8
<1>10. \A i, j \in kept : found[i] = found[j] => i = j
  <2>1. promoted => listening # NoSocket
    BY <1>2
  <2> HIDE DEF promoted, found, kept, m
  <2>2. \A i \in 1 .. m : promoted => pending[i] # listening
    BY <1>8, <2>1 DEF HandlesApart
  <2>3. \A i, j \in 1 .. m : pending[i] = pending[j] => i = j
    BY <1>8 DEF HandlesApart
  <2> QED
    BY <1>6, <2>2, <2>3
<1>11. \A i \in kept : Open(found[i])
  <2>1. promoted => listening # NoSocket /\ listening \in Sockets
    BY <1>2
  <2> HIDE DEF promoted, found, kept, m
  <2>2. \A i \in 1 .. m : Open(pending[i])
    BY <1>8 DEF HandlesApart, ServerHandles, Open
  <2>3. promoted => Open(listening)
    BY <2>1 DEF HandlesApart, ServerHandles, Open
  <2> QED
    BY <1>6, <2>2, <2>3
<1>12. /\ Cardinality(kept) \in Nat /\ Cardinality(kept) =< Len(found)
       /\ Len(found) > 0 /\ 1 \notin kept => Cardinality(kept) < Len(found)
  <2> HIDE DEF found, kept
  <2> QED
    BY <1>4, <1>7, PlacesCount
<1>13. /\ pending' \in Seq(Sockets)
       /\ Len(pending') = Cardinality(kept)
       /\ DOMAIN pending' = 1 .. Len(pending')
       /\ \A n \in DOMAIN pending' : places[n] \in kept /\ pending'[n] = found[places[n]]
       /\ \A a, b \in DOMAIN pending' : places[a] = places[b] => a = b
  <2>1. pending' = [n \in DOMAIN places |-> found[places[n]]]
    BY <1>1
  <2>2. kept \in SUBSET Nat /\ Cardinality(kept) \in Nat /\ places \in Increasing(kept)
    BY <1>7, <1>12
  <2> HIDE DEF found, kept
  <2>3. /\ places \in [1 .. Cardinality(kept) -> kept]
        /\ \A a, b \in 1 .. Cardinality(kept) : places[a] = places[b] => a = b
    BY <2>2, IncreasingApart
  <2>4. pending' \in [1 .. Cardinality(kept) -> Sockets]
    BY <1>9, <2>1, <2>3
  <2>5. pending' \in Seq(Sockets) /\ Len(pending') = Cardinality(kept)
    BY <2>2, <2>4, MovedUp
  <2> QED
    BY <2>1, <2>3, <2>4, <2>5
<1>14. h \in Handle /\ (h # NoSocket => Open(h) /\ h = listening /\ ~promoted)
  BY DEF DnetckTypeOK, HandlesApart, ServerHandles, Open, Handle
<1> HIDE DEF h, promoted, found, kept, m
<1>15. Len(pending') \in Nat
  BY <1>12, <1>13
<1>16. /\ sm' \in [Sockets -> SocketState]
       /\ listening' \in Handle
       /\ listening' # NoSocket => sm'[listening'] \notin {"closed", "closing"}
       /\ listening' # NoSocket => listening' = h \/ sm[listening'] = "closed"
       /\ \A s \in Sockets : Open(s) => sm'[s] = sm[s]
  BY <1>1, <1>14, <1>15, Resumed
<1>17. Len(pending') =< PendingMax
  BY <1>4, <1>12, <1>13
<1>18. m > 0 /\ queue[1] = NoSocket => Len(pending') < PendingMax
  <2>1. ASSUME m > 0, queue[1] = NoSocket PROVE 1 \notin kept /\ Len(found) > 0
    BY <1>2, <1>3, <1>6, <2>1
  <2> QED
    BY <1>4, <1>12, <1>13, <2>1
<1>19. \A i, j \in DOMAIN pending' : pending'[i] = pending'[j] => i = j
  BY <1>10, <1>13
<1>20. \A i \in DOMAIN pending' : Open(pending'[i])
  BY <1>11, <1>13
<1>21. \A i \in DOMAIN pending' : pending'[i] = listening \/ \E j \in 1 .. m : queue[j] = pending'[i]
  BY <1>3, <1>6, <1>13
<1>22. \A i \in DOMAIN pending' : pending'[i] # listening'
  <2>1. \A i \in kept : found[i] # h
    <3>1. \A i \in 1 .. m : listening # NoSocket => pending[i] # listening
      BY <1>8 DEF HandlesApart
    <3> QED
      BY <1>6, <1>14, <3>1
  <2>2. \A i \in DOMAIN pending' : pending'[i] # h /\ pending'[i] \in Sockets
    BY <1>9, <1>13, <2>1
  <2> QED
    BY <1>16, <1>20, <2>2 DEF Open
<1> QED
  BY <1>13, <1>14, <1>16, <1>17, <1>18, <1>19, <1>20, <1>21, <1>22 DEF m
-----------------------------------------------------------------------------
(* The handles are kept apart by every step.                               *)

\* A command is a sequence of bytes, and so can be sent.
LEMMA CommandBytes ==
  ASSUME NEW q \in Command
  PROVE  q \in Seq(Byte)
PROOF
<1>1. q \in [1 .. 6 -> Byte]
  BY DEF Command, numBitsPerCommand, Byte
<1>2. [1 .. 6 -> Byte] \in {[1 .. n -> Byte] : n \in Nat}
  OBVIOUS
<1> QED
  BY <1>1, <1>2, SeqDef

LEMMA ServerUnchanged ==
  ASSUME DnetckTypeOK, HandlesApart, UNCHANGED dnetckVars
  PROVE  DnetckTypeOK' /\ HandlesApart'
PROOF
BY DEF DnetckTypeOK, StackTypeOK, HandlesApart, ServerHandles, dnetckVars, stackVars, socketVars, peerVars,
       handleVars

LEMMA ListenServer ==
  ASSUME DnetckTypeOK, HandlesApart, LISTEN
  PROVE  DnetckTypeOK' /\ HandlesApart'
PROOF
<1> USE ServerAssumption
<1>1. /\ ResumeListening(0, NoSocket)
      /\ UNCHANGED <<pending, held, conn, rx, peerVars, link>>
  BY DEF LISTEN, StartListening
<1>2. /\ sm' \in [Sockets -> SocketState]
      /\ listening' \in Handle
      /\ listening' # NoSocket => sm'[listening'] \notin {"closed", "closing"}
      /\ listening' # NoSocket => listening' = NoSocket \/ sm[listening'] = "closed"
      /\ \A s \in Sockets : Open(s) => sm'[s] = sm[s]
  BY <1>1, Resumed DEF Handle
<1>3. DnetckTypeOK'
  BY <1>1, <1>2 DEF DnetckTypeOK, StackTypeOK, Handle, peerVars
<1>4. DOMAIN pending = 1 .. Len(pending) /\ \A i \in DOMAIN pending : pending[i] \in Sockets
  BY LenProperties, ElementOfSeq DEF DnetckTypeOK
<1>5. \A i \in DOMAIN pending : pending[i] \in ServerHandles /\ pending[i] # NoSocket
  BY <1>4 DEF ServerHandles
<1>6. HandlesApart'
  <2>1. \A i \in DOMAIN pending : Open(pending[i]) /\ pending[i] # held
    BY <1>4, <1>5 DEF HandlesApart, Open
  <2>2. held # NoSocket => held \in Sockets /\ Open(held)
    BY DEF HandlesApart, Open, DnetckTypeOK, Handle
  <2>3. listening' # NoSocket => listening' \in Sockets /\ ~Open(listening')
    BY <1>2 DEF Open, Handle
  <2>4. \A s \in ServerHandles' : s = listening' \/ \E i \in DOMAIN pending : s = pending[i]
    BY <1>1 DEF ServerHandles
  <2>5. \A i, j \in DOMAIN pending' : pending'[i] = pending'[j] => i = j
    BY <1>1 DEF HandlesApart
  <2>6. \A i \in DOMAIN pending' : pending'[i] # listening' /\ pending'[i] # held' /\ sm'[pending'[i]] \notin {"closed", "closing"}
    <3>1. pending' = pending /\ held' = held
      BY <1>1
    <3>2. \A i \in DOMAIN pending : pending[i] # listening'
      BY <1>4, <2>1, <2>3
    <3>3. \A i \in DOMAIN pending : sm'[pending[i]] \notin {"closed", "closing"}
      BY <1>2, <1>4, <2>1 DEF Open
    <3> QED
      BY <2>1, <3>1, <3>2, <3>3
  <2>7. held' # NoSocket => sm'[held'] \notin {"closed", "closing"} /\ held' # listening'
    BY <1>1, <1>2, <2>2, <2>3 DEF Open
  <2>8. \A s \in Sockets : s \in ServerHandles' => s # held' /\ sm'[s] \notin {"closed", "closing"}
    BY <1>1, <1>2, <2>3, <2>4, <2>6, <2>7 DEF Open
  <2> QED
    BY <2>5, <2>6, <2>7, <2>8 DEF HandlesApart, Open
<1> QED
  BY <1>3, <1>6

\* After tidying, the handles are apart if the client's is none of those
\* tidied.
LEMMA TidiedApart ==
  ASSUME DnetckTypeOK, HandlesApart,
         NEW queue \in Seq(Handle), Len(queue) = Len(pending),
         \A i \in 1 .. Len(queue) : queue[i] = NoSocket \/ queue[i] = pending[i],
         AvailableClients(queue), UNCHANGED <<conn, rx, peerVars, link>>,
         held' \in Handle,
         held' # NoSocket => /\ Open(held') /\ held' # listening
                             /\ \A j \in 1 .. Len(queue) : queue[j] # held'
  PROVE  DnetckTypeOK' /\ HandlesApart'
PROOF
<1> USE ServerAssumption
<1>1. /\ pending' \in Seq(Sockets) /\ Len(pending') =< PendingMax
      /\ \A i, j \in DOMAIN pending' : pending'[i] = pending'[j] => i = j
      /\ \A i \in DOMAIN pending' :
           /\ Open(pending'[i])
           /\ pending'[i] # listening'
           /\ pending'[i] = listening \/ \E j \in 1 .. Len(queue) : queue[j] = pending'[i]
      /\ sm' \in [Sockets -> SocketState]
      /\ listening' \in Handle
      /\ listening' # NoSocket => sm'[listening'] \notin {"closed", "closing"}
      /\ listening' # NoSocket => listening' = listening \/ sm[listening'] = "closed"
      /\ \A s \in Sockets : Open(s) => sm'[s] = sm[s]
  BY Tidied
<1>2. DnetckTypeOK'
  BY <1>1 DEF DnetckTypeOK, StackTypeOK, Handle, peerVars
<1>3. \A i \in DOMAIN pending' : pending'[i] \in Sockets
  BY <1>1, LenProperties, ElementOfSeq
<1>4. \A i \in DOMAIN pending' : sm'[pending'[i]] \notin {"closed", "closing"}
  BY <1>1, <1>3 DEF Open
<1>5. \A i \in DOMAIN pending' : pending'[i] # held'
  BY <1>1, <1>3
<1>6. held' # NoSocket => sm'[held'] \notin {"closed", "closing"} /\ held' # listening'
  BY <1>1 DEF Open, Handle
<1>7. \A s \in Sockets : s \in ServerHandles' => s # held' /\ sm'[s] \notin {"closed", "closing"}
  <2>1. \A s \in Sockets : s \in ServerHandles' => s = listening' \/ \E i \in DOMAIN pending' : s = pending'[i]
    BY DEF ServerHandles
  <2>2. listening' \in Sockets => sm'[listening'] \notin {"closed", "closing"}
    BY <1>1
  <2>3. listening' \in Sockets => listening' # held'
    BY <1>6
  <2> QED
    BY <1>4, <1>5, <2>1, <2>2, <2>3
<1>8. HandlesApart'
  BY <1>1, <1>4, <1>6, <1>7 DEF HandlesApart
<1> QED
  BY <1>2, <1>8

LEMMA AvailableServer ==
  ASSUME DnetckTypeOK, HandlesApart, AVAILABLECLIENT
  PROVE  DnetckTypeOK' /\ HandlesApart'
PROOF
<1> USE ServerAssumption
<1>1. AvailableClients(pending) /\ UNCHANGED <<conn, rx, peerVars, link, held>>
  BY DEF AVAILABLECLIENT
<1>2. /\ pending \in Seq(Handle) /\ DOMAIN pending = 1 .. Len(pending)
      /\ \A i \in DOMAIN pending : pending[i] \in Sockets
  BY LenProperties, ElementOfSeq DEF DnetckTypeOK, Handle
<1>3. held \in Handle
  BY DEF DnetckTypeOK
<1>4. held # NoSocket => Open(held)
  BY DEF HandlesApart, Open
<1>5. held # NoSocket => held # listening /\ \A j \in 1 .. Len(pending) : pending[j] # held
  BY <1>2, <1>3 DEF HandlesApart, ServerHandles, Handle
<1> QED
  BY <1>1, <1>2, <1>3, <1>4, <1>5, TidiedApart

\* The first handle leaves the array before it is tidied.
LEMMA AcceptServer ==
  ASSUME DnetckTypeOK, HandlesApart, ACCEPTCLIENT
  PROVE  /\ DnetckTypeOK' /\ HandlesApart'
         /\ Len(pending') < PendingMax
         /\ held' # NoSocket
PROOF
<1> USE ServerAssumption
<1> DEFINE queue == <<NoSocket>> \o Tail(pending)
<1>1. /\ AvailableClients(queue)
      /\ held' = Head(pending)
      /\ pending # <<>>
      /\ UNCHANGED <<conn, rx, peerVars, link>>
  BY DEF ACCEPTCLIENT, AcceptClient
<1>2. /\ pending \in Seq(Sockets) /\ DOMAIN pending = 1 .. Len(pending) /\ Len(pending) \in Nat \ {0}
      /\ \A i \in DOMAIN pending : pending[i] \in Sockets
  BY <1>1, LenProperties, ElementOfSeq, EmptySeq DEF DnetckTypeOK
<1>3. /\ Tail(pending) \in Seq(Sockets) /\ Len(Tail(pending)) = Len(pending) - 1
      /\ \A i \in 1 .. Len(pending) - 1 : Tail(pending)[i] = pending[i + 1]
      /\ Head(pending) = pending[1]
  BY <1>1, <1>2, HeadTailProperties
<1>4. /\ queue \in Seq(Handle) /\ Len(queue) = Len(pending)
      /\ queue[1] = NoSocket
      /\ \A i \in 2 .. Len(pending) : queue[i] = pending[i]
  BY <1>2, <1>3 DEF Handle
<1> HIDE DEF queue
<1>5. \A i \in 1 .. Len(queue) : queue[i] = NoSocket \/ queue[i] = pending[i]
  BY <1>2, <1>4
<1>6. held' \in Sockets
  BY <1>1, <1>2, <1>3
<1>7. Open(held') /\ held' # listening
  BY <1>1, <1>2, <1>3, <1>6 DEF HandlesApart, ServerHandles, Open
<1>8. \A j \in 1 .. Len(queue) : queue[j] # held'
  <2>1. \A j \in 2 .. Len(pending) : pending[j] # pending[1]
    BY <1>2 DEF HandlesApart
  <2> QED
    BY <1>1, <1>2, <1>3, <1>4, <1>6, <2>1
<1>9. DnetckTypeOK' /\ HandlesApart'
  BY <1>1, <1>4, <1>5, <1>6, <1>7, <1>8, TidiedApart DEF Handle
<1>10. Len(pending') < PendingMax
  BY <1>1, <1>2, <1>4, <1>5, Tidied
<1> QED
  BY <1>6, <1>9, <1>10

\* Closed handles no longer name a socket.
LEMMA CloseServer ==
  ASSUME DnetckTypeOK, HandlesApart, CLOSE \/ EXIT
  PROVE  DnetckTypeOK' /\ HandlesApart'
PROOF
<1> USE ServerAssumption, PendingAssumption
<1>1. PICK hs \in {{held}, ServerCloses \cup {held}} :
        /\ CloseHandles(hs)
        /\ held' = NoSocket /\ link' = link
        /\ \/ hs = {held} /\ UNCHANGED <<pending, listening>>
           \/ pending' = <<>> /\ listening' = NoSocket
  BY DEF CLOSE, EXIT
<1>2. <<>> \in Seq(Byte) /\ <<>> \in Seq(Sockets) /\ Len(<<>>) = 0 /\ DOMAIN <<>> = {}
  OBVIOUS
<1>3. \A s \in Sockets : Released(sm[s]) \in {"closing", "closed"}
  BY DEF Released
<1>4. /\ sm' \in [Sockets -> SocketState] /\ rx' \in [Sockets -> Seq(Byte)]
      /\ UNCHANGED <<conn, peerVars>>
  BY <1>1, <1>2, <1>3 DEF CloseHandles, DnetckTypeOK, StackTypeOK, SocketState
<1>5. pending' \in Seq(Sockets) /\ Len(pending') =< PendingMax
  <2>1. ASSUME pending' = pending PROVE pending' \in Seq(Sockets) /\ Len(pending') =< PendingMax
    BY <2>1 DEF DnetckTypeOK
  <2>2. ASSUME pending' = <<>> PROVE pending' \in Seq(Sockets) /\ Len(pending') =< PendingMax
    BY <1>2, <2>2
  <2> QED
    BY <1>1, <2>1, <2>2
<1>6. DnetckTypeOK'
  BY <1>1, <1>4, <1>5 DEF DnetckTypeOK, StackTypeOK, Handle, peerVars
<1>9. held' = NoSocket
  BY <1>1
<1>7. CASE hs = {held} /\ UNCHANGED <<pending, listening>>
  <2>1. \A s \in Sockets : s # held => sm'[s] = sm[s]
    BY <1>1, <1>7 DEF CloseHandles, DnetckTypeOK, StackTypeOK
  <2>2. \A s \in Sockets : s \in ServerHandles' <=> s \in ServerHandles
    BY <1>7 DEF ServerHandles
  <2>3. \A s \in Sockets : s \in ServerHandles' => s # held' /\ sm'[s] \notin {"closed", "closing"}
    BY <1>1, <2>1, <2>2 DEF HandlesApart
  <2>4. /\ \A i, j \in DOMAIN pending' : pending'[i] = pending'[j] => i = j
        /\ listening' # NoSocket => \A i \in DOMAIN pending' : pending'[i] # listening'
    BY <1>7 DEF HandlesApart
  <2> QED
    BY <1>6, <1>9, <2>3, <2>4 DEF HandlesApart
<1>8. CASE pending' = <<>> /\ listening' = NoSocket
  <2>1. \A s \in Sockets : s \notin ServerHandles'
    BY <1>2, <1>8 DEF ServerHandles
  <2>2. DOMAIN pending' = {}
    BY <1>2, <1>8
  <2> QED
    BY <1>6, <1>8, <1>9, <2>1, <2>2 DEF HandlesApart
<1> QED
  BY <1>1, <1>6, <1>7, <1>8

LEMMA ReadingServer ==
  ASSUME DnetckTypeOK, HandlesApart, Reading
  PROVE  DnetckTypeOK' /\ HandlesApart'
PROOF
<1>1. /\ rx' = [s \in Sockets |-> IF s = held THEN <<>> ELSE rx[s]]
      /\ UNCHANGED <<sm, conn, peerVars, link, handleVars>>
  BY DEF Reading, ReadStream
<1>2. <<>> \in Seq(Byte)
  OBVIOUS
<1>3. rx' \in [Sockets -> Seq(Byte)]
  BY <1>1, <1>2 DEF DnetckTypeOK, StackTypeOK
<1> QED
  BY <1>1, <1>3 DEF DnetckTypeOK, StackTypeOK, HandlesApart, ServerHandles, peerVars, handleVars

LEMMA WriteServer ==
  ASSUME TypeOK, HandlesApart, WRITE
  PROVE  DnetckTypeOK' /\ HandlesApart'
PROOF
<1>1. CASE UNCHANGED dnetckVars
  BY <1>1, ServerUnchanged DEF TypeOK
<1>2. CASE WriteStream(ReadQueue)
  <2>1. ReadQueue \in Seq(Byte)
    BY CommandBytes DEF TypeOK
  <2>2. inbox' \in [Conns -> Seq(Byte)]
    BY <1>2, <2>1 DEF WriteStream, TypeOK, DnetckTypeOK, StackTypeOK
  <2> QED
    BY <1>2, <2>2 DEF WriteStream, TypeOK, DnetckTypeOK, StackTypeOK, HandlesApart, ServerHandles,
                      socketVars, handleVars
<1> QED
  BY <1>1, <1>2 DEF WRITE

\* The clients, the stack and the WiFi leave the handles alone and free no
\* socket that one of them names.
LEMMA SurroundingsServer ==
  ASSUME DnetckTypeOK, HandlesApart, Network \/ LinkChanges
  PROVE  DnetckTypeOK' /\ HandlesApart'
PROOF
<1> USE ServerAssumption
<1>1. CASE LinkChanges
  BY <1>1 DEF LinkChanges, DnetckTypeOK, StackTypeOK, HandlesApart, ServerHandles, stackVars, socketVars, peerVars,
              handleVars
<1>2. CASE Network
  <2>1. (Clients \/ Stack) /\ UNCHANGED <<link, pending, listening, held>>
    BY <1>2 DEF Network, Clients, Client, handleVars
  <2>2. StackTypeOK
    BY DEF DnetckTypeOK
  <2>3. StackTypeOK'
    BY <2>1, <2>2, NetworkType
  <2>4. DnetckTypeOK'
    BY <2>1, <2>3 DEF DnetckTypeOK, Handle
  <2>5. \A s \in Sockets : Open(s) => sm'[s] \notin {"closed", "closing"}
    BY <2>1, <2>2, NetworkKeepsOpen DEF Open
  <2>6. ServerHandles' = ServerHandles
    BY <2>1 DEF ServerHandles
  <2>7. held \in Handle
    BY DEF DnetckTypeOK
  <2>8. HandlesApart'
    BY <2>1, <2>5, <2>6, <2>7 DEF HandlesApart, Open, Handle
  <2> QED
    BY <2>4, <2>8
<1> QED
  BY <1>1, <1>2

\* Every step keeps the server well typed and its handles apart.
LEMMA ServerKept ==
  ASSUME TypeOK, HandlesApart, [Next]_vars
  PROVE  DnetckTypeOK' /\ HandlesApart'
PROOF
<1>1. CASE Setup \/ protothread1 \/ INITIALIZE \/ ISLISTENING \/ READ \/ WheelMoves \/ UNCHANGED vars
  <2>1. UNCHANGED dnetckVars
    BY <1>1 DEF Setup, CentreLoop, protothread1, INITIALIZE, ISLISTENING, READ, WheelMoves, vars
  <2> QED
    BY <2>1, ServerUnchanged DEF TypeOK
<1>2. CASE LISTEN \/ AVAILABLECLIENT \/ ACCEPTCLIENT
  BY <1>2, ListenServer, AvailableServer, AcceptServer DEF TypeOK
<1>3. CASE CLOSE \/ EXIT \/ Reading \/ WRITE
  BY <1>3, CloseServer, ReadingServer, WriteServer DEF TypeOK
<1>4. CASE Surroundings
  BY <1>4, SurroundingsServer DEF Surroundings, TypeOK
<1> QED
  BY <1>1, <1>2, <1>3, <1>4 DEF Next, protothread2
-----------------------------------------------------------------------------
(* The two threads.                                                        *)

\* The board's own part of the type invariant.
BoardTypeOK ==
  /\ pc \in {"right", "left", "loop", "reading"}
  /\ state \in State
  /\ rgbRead \in Command /\ ReadQueue \in Command
  /\ relay \in BOOLEAN /\ pwm \in Int
  /\ dirPin \in {"LOW", "HIGH"} /\ clock \in BOOLEAN
  /\ pot \in Pots

\* What a step may make of the communication thread's state.
LEMMA InitializeGoesTo ==
  ASSUME INITIALIZE
  PROVE  state' \in {"INITIALIZE", "LISTEN", "EXIT"}
PROOF
<1>1. /\ state = "INITIALIZE"
      /\ state' = CASE link = "up" -> "LISTEN" [] link = "down" -> "EXIT" [] OTHER -> state
  BY DEF INITIALIZE, In
<1>2. CASE link = "up"
  <2>1. link # "down"
    BY <1>2
  <2> QED
    BY <1>1, <1>2, <2>1, Zenon
<1>3. CASE link = "down"
  <2>1. link # "up"
    BY <1>3
  <2> QED
    BY <1>1, <1>3, <2>1, Zenon
<1>4. CASE link # "up" /\ link # "down"
  BY <1>1, <1>4, Zenon
<1> QED
  BY <1>2, <1>3, <1>4

LEMMA IsListeningGoesTo ==
  ASSUME ISLISTENING
  PROVE  state' \in {"ISLISTENING", "AVAILABLECLIENT", "EXIT"}
PROOF
<1> DEFINE listens == isListening(Len(pending))
           fails   == Len(pending) < PendingMax /\ link = "down"
<1>1. /\ state = "ISLISTENING"
      /\ state' = CASE listens -> "AVAILABLECLIENT" [] fails -> "EXIT" [] OTHER -> state
  BY DEF ISLISTENING, In
<1>2. ~(listens /\ fails)
  BY DEF isListening
<1> HIDE DEF listens, fails
<1>3. CASE listens
  BY <1>1, <1>2, <1>3, Zenon
<1>4. CASE ~listens /\ fails
  BY <1>1, <1>4, Zenon
<1>5. CASE ~listens /\ ~fails
  BY <1>1, <1>5, Zenon
<1> QED
  BY <1>3, <1>4, <1>5

LEMMA Queued ==
  ASSUME QueueCommand
  PROVE  \/ ReadQueue' = Zeros /\ state' = "CLOSE"
         \/ rgbRead'[1] \in {48, 49} /\ ReadQueue' = rgbRead' /\ state' = "WRITE"
         \/ ReadQueue' = ReadQueue /\ state' = state
PROOF
<1>1. CASE rgbRead'[1] = 57
  <2>1. rgbRead'[1] \notin {48, 49}
    BY <1>1
  <2> QED
    BY <1>1, <2>1, Zenon DEF QueueCommand
<1>2. CASE rgbRead'[1] \in {48, 49}
  <2>1. rgbRead'[1] # 57
    BY <1>2
  <2> QED
    BY <1>2, <2>1, Zenon DEF QueueCommand
<1>3. CASE rgbRead'[1] # 57 /\ rgbRead'[1] \notin {48, 49}
  BY <1>3, Zenon DEF QueueCommand
<1> QED
  BY <1>1, <1>2, <1>3

\* Bytes read over the beginning of the buffer leave a buffer of bytes.
LEMMA ReadingType ==
  ASSUME TypeOK, Reading
  PROVE  rgbRead' \in Command
PROOF
<1> USE ServerAssumption
<1>1. PICK bytes \in {IF held = NoSocket THEN <<>> ELSE rx[held]} :
        rgbRead' = [i \in DOMAIN rgbRead |-> IF i =< Len(bytes) THEN bytes[i] ELSE rgbRead[i]]
  BY DEF Reading
<1>2. bytes \in Seq(Byte)
  <2>1. <<>> \in Seq(Byte)
    OBVIOUS
  <2>2. held # NoSocket => rx[held] \in Seq(Byte)
    BY DEF TypeOK, DnetckTypeOK, StackTypeOK, Handle
  <2> QED
    BY <2>1, <2>2
<1>3. Len(bytes) \in Nat /\ \A i \in 1 .. Len(bytes) : bytes[i] \in 0 .. 255
  BY <1>2, LenProperties, ElementOfSeq DEF Byte
<1>4. rgbRead \in [1 .. 6 -> 0 .. 255]
  BY DEF TypeOK, Command, numBitsPerCommand
<1> HIDE DEF TypeOK
<1>5. rgbRead' \in [1 .. 6 -> 0 .. 255]
  BY <1>1, <1>3, <1>4
<1> QED
  BY <1>5 DEF Command, numBitsPerCommand

\* The board's variables keep their types.
LEMMA BoardTypeKept ==
  ASSUME TypeOK, [Next]_vars
  PROVE  BoardTypeOK'
PROOF
<1> USE DEF TypeOK, BoardTypeOK, State
<1>1. CASE Setup
  BY <1>1 DEF Setup, CentreLoop
<1>2. CASE protothread1
  <2>1. /\ relay' = (Decode(ReadQueue).RELAY = 1)
        /\ pwm' = DriveDuty(Decode(ReadQueue))
        /\ dirPin' \in {"LOW", "HIGH"} /\ clock' \in BOOLEAN
        /\ UNCHANGED <<pc, commVars, pot>>
    BY <1>2 DEF protothread1
  <2>2. relay' \in BOOLEAN
    <3> HIDE DEF TypeOK, BoardTypeOK, State
    <3> QED
      BY <2>1, Zenon
  <2>3. pwm' \in Int
    BY <2>1, DecodeType
  <2> QED
    BY <2>1, <2>2, <2>3 DEF commVars
<1>3. CASE INITIALIZE
  BY <1>3, InitializeGoesTo DEF INITIALIZE, Quiet, motorVars
<1>4. CASE ISLISTENING
  BY <1>4, IsListeningGoesTo DEF ISLISTENING, Quiet, motorVars
<1>5. CASE LISTEN \/ AVAILABLECLIENT \/ ACCEPTCLIENT \/ WRITE
  BY <1>5 DEF LISTEN, AVAILABLECLIENT, ACCEPTCLIENT, WRITE, Quiet, motorVars
<1>6. CASE READ
  BY <1>6 DEF READ, commVars, motorVars
<1>7. CASE Reading
  <2>1. QueueCommand /\ pc' = "loop" /\ UNCHANGED <<motorVars, pot>>
    BY <1>7 DEF Reading
  <2>2. rgbRead' \in Command
    BY <1>7, ReadingType
  <2>3. ReadQueue' \in Command /\ state' \in State
    BY <2>1, <2>2, Queued, ZerosIdle
  <2> QED
    BY <2>1, <2>2, <2>3 DEF motorVars
<1>8. CASE CLOSE \/ EXIT
  BY <1>8 DEF CLOSE, EXIT, MotorsOff
<1>9. CASE WheelMoves \/ Surroundings \/ UNCHANGED vars
  BY <1>9 DEF WheelMoves, Surroundings, vars, commVars, motorVars
<1> QED
  BY <1>1, <1>2, <1>3, <1>4, <1>5, <1>6, <1>7, <1>8, <1>9 DEF Next, protothread2
-----------------------------------------------------------------------------
(* The invariant's other parts.                                            *)

LEMMA PlacesKept ==
  ASSUME Board2014IInv, [Next]_vars
  PROVE  Places'
PROOF
<1> USE DEF Places
<1>1. CASE Setup
  BY <1>1 DEF Setup, CentreLoop, Board2014IInv
<1>2. CASE protothread1
  BY <1>2 DEF protothread1, commVars
<1>3. CASE INITIALIZE \/ LISTEN \/ ISLISTENING \/ AVAILABLECLIENT \/ ACCEPTCLIENT \/ WRITE
  BY <1>3 DEF INITIALIZE, LISTEN, ISLISTENING, AVAILABLECLIENT, ACCEPTCLIENT, WRITE, In, Quiet
<1>4. CASE READ
  BY <1>4 DEF READ, In, commVars
<1>5. CASE Reading
  BY <1>5 DEF Reading
<1>6. CASE CLOSE \/ EXIT
  BY <1>6 DEF CLOSE, EXIT, In
<1>7. CASE WheelMoves \/ Surroundings \/ UNCHANGED vars
  BY <1>7 DEF WheelMoves, Surroundings, vars, commVars, motorVars, Board2014IInv
<1> QED
  BY <1>1, <1>2, <1>3, <1>4, <1>5, <1>6, <1>7 DEF Next, protothread2

\* tcpClient holds a socket from ACCEPTCLIENT to CLOSE, and whoever goes to
\* ACCEPTCLIENT has counted a client.
LEMMA AcceptKept ==
  ASSUME Board2014IInv, [Next]_vars
  PROVE  AcceptSucceeds'
PROOF
<1> USE DEF AcceptSucceeds, Places
<1>1. CASE Setup
  <2>1. held' = held /\ pending' = pending
    BY <1>1 DEF Setup, CentreLoop, dnetckVars, handleVars
  <2>2. state = "INITIALIZE" /\ state' \in {"INITIALIZE", "EXIT"}
    BY <1>1 DEF Setup, CentreLoop, Board2014IInv
  <2> QED
    BY <2>1, <2>2 DEF Board2014IInv
<1>2. CASE protothread1 \/ READ \/ WheelMoves \/ UNCHANGED vars
  BY <1>2 DEF protothread1, READ, WheelMoves, vars, commVars, dnetckVars, handleVars, Board2014IInv
<1>3. CASE INITIALIZE
  BY <1>3, InitializeGoesTo DEF INITIALIZE, In, dnetckVars, handleVars, Board2014IInv
<1>4. CASE ISLISTENING
  BY <1>4, IsListeningGoesTo DEF ISLISTENING, In, dnetckVars, handleVars, Board2014IInv
<1>5. CASE LISTEN
  BY <1>5 DEF LISTEN, StartListening, In, Board2014IInv
<1>6. CASE AVAILABLECLIENT
  BY <1>6 DEF AVAILABLECLIENT, In, Board2014IInv
<1>7. CASE ACCEPTCLIENT
  <2>1. held' # NoSocket /\ state' = "READ"
    BY <1>7, AcceptServer DEF ACCEPTCLIENT, Board2014IInv, TypeOK
  <2> QED
    BY <2>1
<1>8. CASE Reading
  <2>1. QueueCommand /\ held' = held /\ state = "READ"
    BY <1>8 DEF Reading, ReadStream, handleVars, Board2014IInv
  <2>2. state' \in {"READ", "CLOSE", "WRITE"}
    BY <2>1, Queued
  <2> QED
    BY <2>1, <2>2 DEF Board2014IInv
<1>9. CASE WRITE
  BY <1>9 DEF WRITE, WriteStream, In, dnetckVars, handleVars, Board2014IInv
<1>10. CASE CLOSE \/ EXIT
  BY <1>10 DEF CLOSE, EXIT
<1>11. CASE Surroundings
  BY <1>11 DEF Surroundings, Network, LinkChanges, commVars, handleVars, Board2014IInv
<1> QED
  BY <1>1, <1>2, <1>3, <1>4, <1>5, <1>6, <1>7, <1>8, <1>9, <1>10, <1>11 DEF Next, protothread2

\* Only AVAILABLECLIENT can fill the array, and ACCEPTCLIENT takes one out.
LEMMA RoomKept ==
  ASSUME Board2014IInv, [Next]_vars
  PROVE  Room'
PROOF
<1> USE DEF Room
<1>1. CASE Setup
  <2>1. pending' = pending
    BY <1>1 DEF Setup, CentreLoop, dnetckVars, handleVars
  <2>2. state = "INITIALIZE"
    BY <1>1 DEF Setup, CentreLoop, Board2014IInv, Places
  <2> QED
    BY <2>1, <2>2 DEF Board2014IInv
<1>2. CASE protothread1 \/ READ \/ WheelMoves \/ UNCHANGED vars
  BY <1>2 DEF protothread1, READ, WheelMoves, vars, commVars, dnetckVars, handleVars, Board2014IInv
<1>3. CASE INITIALIZE \/ ISLISTENING \/ WRITE
  <2>1. pending' = pending /\ state \notin {"AVAILABLECLIENT", "ACCEPTCLIENT"}
    BY <1>3 DEF INITIALIZE, ISLISTENING, WRITE, WriteStream, In, dnetckVars, handleVars
  <2> QED
    BY <2>1 DEF Board2014IInv
<1>4. CASE LISTEN
  <2>1. pending' = pending /\ state \notin {"AVAILABLECLIENT", "ACCEPTCLIENT"}
    BY <1>4 DEF LISTEN, StartListening, In
  <2> QED
    BY <2>1 DEF Board2014IInv
<1>5. CASE AVAILABLECLIENT
  BY <1>5 DEF AVAILABLECLIENT, In
<1>6. CASE ACCEPTCLIENT
  BY <1>6, AcceptServer DEF Board2014IInv, TypeOK
<1>7. CASE Reading
  <2>1. pending' = pending /\ state \notin {"AVAILABLECLIENT", "ACCEPTCLIENT"}
    BY <1>7 DEF Reading, ReadStream, handleVars, Board2014IInv, Places
  <2> QED
    BY <2>1 DEF Board2014IInv
<1>8. CASE CLOSE
  BY <1>8 DEF CLOSE, In, Board2014IInv
<1>9. CASE EXIT
  <2>1. pending' = <<>>
    BY <1>9 DEF EXIT
  <2> QED
    BY <2>1, PendingAssumption
<1>10. CASE Surroundings
  BY <1>10 DEF Surroundings, Network, LinkChanges, commVars, handleVars, Board2014IInv
<1> QED
  BY <1>1, <1>2, <1>3, <1>4, <1>5, <1>6, <1>7, <1>8, <1>9, <1>10 DEF Next, protothread2

\* protothread1 alone enables the drive, together with its duty.
LEMMA EnvelopeKept ==
  ASSUME Board2014IInv, [Next]_vars
  PROVE  DriveEnvelope'
PROOF
<1> USE DEF DriveEnvelope
<1>1. CASE protothread1
  <2>1. /\ relay' = (Decode(ReadQueue).RELAY = 1)
        /\ pwm' = DriveDuty(Decode(ReadQueue))
    BY <1>1 DEF protothread1
  <2>2. relay' => Decode(ReadQueue).RELAY = 1
    BY <2>1, Zenon
  <2>3. ReadQueue \in Command
    BY DEF Board2014IInv, TypeOK
  <2> QED
    BY <2>1, <2>2, <2>3, DecodeType
<1>2. CASE CLOSE \/ EXIT
  BY <1>2 DEF CLOSE, EXIT, MotorsOff
<1>3. CASE Setup \/ WheelMoves \/ Surroundings \/ UNCHANGED vars
  BY <1>3 DEF Setup, CentreLoop, WheelMoves, Surroundings, vars, motorVars, Board2014IInv
<1>4. CASE INITIALIZE \/ LISTEN \/ ISLISTENING \/ AVAILABLECLIENT \/ ACCEPTCLIENT \/ READ \/ Reading \/ WRITE
  BY <1>4 DEF INITIALIZE, LISTEN, ISLISTENING, AVAILABLECLIENT, ACCEPTCLIENT, READ, Reading, WRITE, Quiet,
              motorVars, Board2014IInv
<1> QED
  BY <1>1, <1>2, <1>3, <1>4 DEF Next, protothread2

\* The zeroed queue keeps the motors off whenever protothread1 runs it, and
\* is left only for a command that was read; CLOSE puts them off first.
LEMMA StoppedKept ==
  ASSUME Board2014IInv, [Next]_vars
  PROVE  Stopped'
PROOF
<1> USE DEF Stopped
<1>1. CASE Setup
  BY <1>1 DEF Setup, CentreLoop, Board2014IInv, Places
<1>2. CASE protothread1
  <2>1. ReadQueue' = ReadQueue
    BY <1>2 DEF protothread1, commVars
  <2>2. ASSUME ReadQueue = Zeros PROVE ~relay' /\ ~clock'
    <3>1. ~TurnsLeft(Decode(ReadQueue)) /\ ~TurnsRight(Decode(ReadQueue)) /\ Decode(ReadQueue).RELAY # 1
      BY <2>2, ZerosIdle DEF TurnsLeft, TurnsRight
    <3>2. relay' = (Decode(ReadQueue).RELAY = 1) /\ clock' = FALSE
      BY <1>2, <3>1 DEF protothread1
    <3> QED
      BY <3>1, <3>2, Zenon
  <2> QED
    BY <2>1, <2>2
<1>3. CASE INITIALIZE \/ LISTEN \/ ISLISTENING \/ AVAILABLECLIENT \/ ACCEPTCLIENT \/ WRITE
  <2>1. pc = "loop" /\ state # "CLOSE" /\ UNCHANGED <<ReadQueue, relay, clock>>
    BY <1>3 DEF INITIALIZE, LISTEN, ISLISTENING, AVAILABLECLIENT, ACCEPTCLIENT, WRITE, In, Quiet, motorVars
  <2> QED
    BY <2>1 DEF Board2014IInv
<1>4. CASE READ
  <2>1. pc = "loop" /\ state # "CLOSE" /\ UNCHANGED <<ReadQueue, relay, clock>>
    BY <1>4 DEF READ, In, commVars, motorVars
  <2> QED
    BY <2>1 DEF Board2014IInv
<1>5. CASE Reading
  <2>1. pc = "reading" /\ state = "READ" /\ UNCHANGED <<relay, clock>> /\ QueueCommand
    BY <1>5 DEF Reading, motorVars, Board2014IInv, Places
  <2>2. CASE state' = "CLOSE"
    BY <2>2
  <2>3. CASE rgbRead'[1] \in {48, 49} /\ ReadQueue' = rgbRead'
    <3>1. Zeros[1] = 0
      BY DEF Zeros, numBitsPerCommand
    <3> QED
      BY <2>3, <3>1
  <2>4. CASE ReadQueue' = ReadQueue
    BY <2>1, <2>4 DEF Board2014IInv
  <2> QED
    BY <2>1, <2>2, <2>3, <2>4, Queued
<1>6. CASE CLOSE \/ EXIT
  BY <1>6 DEF CLOSE, EXIT, MotorsOff
<1>7. CASE WheelMoves \/ Surroundings \/ UNCHANGED vars
  BY <1>7 DEF WheelMoves, Surroundings, vars, commVars, motorVars, Board2014IInv
<1> QED
  BY <1>1, <1>2, <1>3, <1>4, <1>5, <1>6, <1>7 DEF Next, protothread2
-----------------------------------------------------------------------------
(* The invariant.                                                          *)

LEMMA InitInv ==
  Init => Board2014IInv
PROOF
<1> SUFFICES ASSUME Init PROVE Board2014IInv
  OBVIOUS
<1> USE ServerAssumption, PendingAssumption DEF Init, DnetckInit, StackInit
<1>1. <<>> \in Seq(Byte) /\ <<>> \in Seq(Sockets) /\ Len(<<>>) = 0 /\ DOMAIN <<>> = {}
  OBVIOUS
<1>2. TypeOK
  <2>1. StackTypeOK
    BY <1>1 DEF StackTypeOK, SocketState, PeerState
  <2>2. DnetckTypeOK
    BY <1>1, <2>1 DEF DnetckTypeOK, Handle
  <2>3. pc \in {"right", "left", "loop", "reading"} /\ state \in State
    BY DEF State
  <2>4. rgbRead \in Command /\ ReadQueue \in Command
    BY ZerosIdle
  <2>5. pwm \in Int /\ dirPin \in {"LOW", "HIGH"} /\ pot \in Pots
    OBVIOUS
  <2>6. relay \in BOOLEAN /\ clock \in BOOLEAN
    BY Zenon
  <2> QED
    BY <2>2, <2>3, <2>4, <2>5, <2>6 DEF TypeOK
<1>3. HandlesApart
  BY <1>1 DEF HandlesApart, ServerHandles
<1>4. AcceptSucceeds /\ Places /\ Stopped /\ Room /\ DriveEnvelope
  BY <1>1 DEF AcceptSucceeds, Places, Stopped, Room, DriveEnvelope
<1> QED
  BY <1>2, <1>3, <1>4 DEF Board2014IInv

LEMMA StepInv ==
  Board2014IInv /\ [Next]_vars => Board2014IInv'
PROOF
<1> SUFFICES ASSUME Board2014IInv, [Next]_vars PROVE Board2014IInv'
  OBVIOUS
<1>1. TypeOK /\ HandlesApart
  BY DEF Board2014IInv
<1>2. BoardTypeOK' /\ DnetckTypeOK' /\ HandlesApart'
  BY <1>1, BoardTypeKept, ServerKept
<1>3. TypeOK'
  BY <1>2 DEF TypeOK, BoardTypeOK
<1> QED
  BY <1>2, <1>3, PlacesKept, AcceptKept, RoomKept, EnvelopeKept, StoppedKept DEF Board2014IInv

LEMMA Inductive ==
  Spec => []Board2014IInv
PROOF
  BY InitInv, StepInv, PTL DEF Spec

\* Type correctness of the firmware and of the server's array: among it,
\* that no invalid handle stays among the clients and that the array never
\* holds more than PendingMax of them (TcpServer::availableClients).
THEOREM FirmwareTypeCorrect == Spec => []TypeOK
PROOF
  BY Inductive, PTL DEF Board2014IInv

\* However clients come, leave and are tidied away in the array, no socket
\* is named twice among the waiting clients, the listening socket and the
\* client in use, and none of the sockets named is free.
THEOREM HandlesStayApart == Spec => []HandlesApart
PROOF
  BY Inductive, PTL DEF Board2014IInv

\* acceptClient() succeeds whenever the thread calls it, also when the
\* client that was counted has left since, and tcpClient names a socket
\* exactly while a client is served.
THEOREM AcceptNeverFails == Spec => []AcceptSucceeds
PROOF
  BY Inductive, PTL DEF Board2014IInv

\* There is a free place in the array whenever the thread is back at
\* listening, so that a full array never stops it.
THEOREM AlwaysRoomToListen == Spec => []RoomToListen
PROOF
<1>1. Board2014IInv => RoomToListen
  BY DEF Board2014IInv, Room, RoomToListen
<1> QED
  BY <1>1, Inductive, PTL

\* The motors are off after a farewell and before the first command,
\* whichever thread ran last and whatever arrives meanwhile.
THEOREM FarewellStops == Spec => []StoppedAfterFarewell
PROOF
<1>1. Board2014IInv => StoppedAfterFarewell
  BY DEF Board2014IInv, Stopped, StoppedAfterFarewell
<1> QED
  BY <1>1, Inductive, PTL

\* While the drive is enabled its duty is between 120 and 227, for every
\* mixture of bytes the buffer can hold.
THEOREM DutyStaysInEnvelope == Spec => []DriveEnvelope
PROOF
  BY Inductive, PTL DEF Board2014IInv
=============================================================================
