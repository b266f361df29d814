---------------------------- MODULE BoardLemmas -----------------------------
(***************************************************************************)
(* Lemmas about what the two boards share: the TCP stack and the command.  *)
(***************************************************************************)
EXTENDS TcpStack, CommandWord, SequenceTheorems, TLAPS
-----------------------------------------------------------------------------
(* The stack.                                                              *)

\* Taking a prefix off a byte sequence leaves byte sequences.
LEMMA SplitType ==
  ASSUME NEW stream \in Seq(Byte), NEW n \in Nat, n =< Len(stream), n > 0
  PROVE  /\ SubSeq(stream, 1, n) \in Seq(Byte)
         /\ SubSeq(stream, n + 1, Len(stream)) \in Seq(Byte)
PROOF
<1>1. Len(stream) \in Nat
  BY LenProperties
<1>2. \A i \in 1 .. Len(stream) : stream[i] \in Byte
  BY ElementOfSeq
<1>3. \A i \in 1 .. n : stream[i] \in Byte
  BY <1>1, <1>2
<1>4. \A i \in n + 1 .. Len(stream) : stream[i] \in Byte
  BY <1>1, <1>2
<1> QED
  BY <1>1, <1>3, <1>4, SubSeqProperties

\* Forgetting clients keeps the peers' half well typed.
LEMMA ForgetType ==
  ASSUME StackTypeOK, NEW cs, Forget(cs)
  PROVE  /\ peer' \in [Conns -> PeerState]
         /\ sending' \in [Conns -> Seq(Byte)]
         /\ inbox' \in [Conns -> Seq(Byte)]
         /\ \A c \in Conns : peer[c] \in {"open", "gone"} => peer'[c] \in {"open", "gone"}
PROOF
  BY DEF StackTypeOK, Forget, PeerState

\* The bytes of an arrival are bytes of the word being sent.
LEMMA ArriveType ==
  ASSUME StackTypeOK, NEW c \in Conns, Arrive(c)
  PROVE  StackTypeOK'
PROOF
<1> USE ServerAssumption
<1>1. PICK s \in Sockets, n \in Chunks,
           stream \in (IF sending[c] = <<>> THEN Words[c] ELSE {sending[c]}) :
        /\ n =< Len(stream)
        /\ rx' = [rx EXCEPT ![s] = @ \o SubSeq(stream, 1, n)]
        /\ sending' = [sending EXCEPT ![c] = SubSeq(stream, n + 1, Len(stream))]
  BY DEF Arrive
<1>2. UNCHANGED <<sm, conn, peer, inbox>>
  BY DEF Arrive
<1>3. stream \in Seq(Byte) /\ n \in Nat /\ n > 0
  BY <1>1 DEF StackTypeOK
<1>4. /\ SubSeq(stream, 1, n) \in Seq(Byte)
      /\ SubSeq(stream, n + 1, Len(stream)) \in Seq(Byte)
  BY <1>1, <1>3, SplitType
<1>5. rx[s] \o SubSeq(stream, 1, n) \in Seq(Byte)
  BY <1>4 DEF StackTypeOK
<1> QED
  BY <1>1, <1>2, <1>4, <1>5 DEF StackTypeOK

\* A socket the stack closes listens again, with nothing to read.
LEMMA CloseSocketType ==
  ASSUME StackTypeOK, NEW s \in Sockets, CloseSocket(s)
  PROVE  /\ sm' \in [Sockets -> SocketState]
         /\ conn' \in [Sockets -> Conns \cup {NoConn}]
         /\ rx' \in [Sockets -> Seq(Byte)]
PROOF
<1>1. <<>> \in Seq(Byte)
  OBVIOUS
<1> QED
  BY <1>1 DEF StackTypeOK, CloseSocket, SocketState

\* So does a socket that takes a SYN.
LEMMA EstablishType ==
  ASSUME StackTypeOK, NEW s \in Sockets, NEW c \in Conns, Establish(s, c)
  PROVE  StackTypeOK'
PROOF
  BY DEF StackTypeOK, Establish, SocketState, PeerState

\* A SYN that is taken makes a connection of a listening socket; one that is
\* saved or deleted changes its client's state alone.
LEMMA SYNStep ==
  ASSUME NEW c \in Conns, Connect(c) \/ SaveSYN(c) \/ ServeSYN(c) \/ DropSYN(c)
  PROVE  \/ \E s \in Sockets :
              sm[s] = "listen" /\ peer[c] \in {"idle", "waiting"} /\ Establish(s, c)
         \/ /\ peer[c] \in {"idle", "waiting"}
            /\ \E st \in {"idle", "waiting"} : peer' = [peer EXCEPT ![c] = st]
            /\ UNCHANGED <<sm, conn, rx, sending, inbox>>
PROOF
  BY DEF Connect, SaveSYN, ServeSYN, DropSYN, Highest, Lowest, Listeners, socketVars

\* The clients and the stack keep the stack's variables well typed.
LEMMA NetworkType ==
  ASSUME StackTypeOK, Clients \/ Stack
  PROVE  StackTypeOK'
PROOF
<1>1. CASE \E c \in Conns : Connect(c) \/ SaveSYN(c) \/ ServeSYN(c) \/ DropSYN(c)
  <2>1. PICK c \in Conns : Connect(c) \/ SaveSYN(c) \/ ServeSYN(c) \/ DropSYN(c)
    BY <1>1
  <2>2. CASE \E s \in Sockets : Establish(s, c)
    BY <2>2, EstablishType
  <2>3. CASE /\ \E st \in {"idle", "waiting"} : peer' = [peer EXCEPT ![c] = st]
             /\ UNCHANGED <<sm, conn, rx, sending, inbox>>
    BY <2>3 DEF StackTypeOK, PeerState
  <2> QED
    BY <2>1, <2>2, <2>3, SYNStep
<1>2. CASE \E c \in Conns : Arrive(c)
  BY <1>2, ArriveType
<1>3. CASE \E c \in Conns : TakeReply(c)
  <2>1. PICK c \in Conns : TakeReply(c)
    BY <1>3
  <2>2. inbox' \in [Conns -> Seq(Byte)]
    BY <2>1 DEF TakeReply, StackTypeOK
  <2> QED
    BY <2>1, <2>2 DEF TakeReply, StackTypeOK, socketVars
<1>4. CASE \E c \in Conns : Hangup(c)
  <2>1. PICK c \in Conns : Hangup(c)
    BY <1>4
  <2>2. PICK s \in Sockets : sm' = [sm EXCEPT ![s] = "close_wait"]
    BY <2>1 DEF Hangup
  <2> QED
    BY <2>1, <2>2, ForgetType DEF Hangup, StackTypeOK, SocketState
<1>5. CASE \E c \in Conns : Reset(c)
  <2>1. PICK c \in Conns, s \in Sockets : CloseSocket(s) /\ Forget({c})
    BY <1>5 DEF Reset
  <2> QED
    BY <2>1, CloseSocketType, ForgetType DEF StackTypeOK
<1>6. CASE \E s \in Sockets : CloseWaitTimeout(s)
  <2>1. PICK s \in Sockets : CloseSocket(s) /\ UNCHANGED peerVars
    BY <1>6 DEF CloseWaitTimeout
  <2> QED
    BY <2>1, CloseSocketType DEF StackTypeOK, peerVars
<1>7. CASE \E s \in Sockets : Closed(s)
  <2>1. PICK s \in Sockets : Closed(s)
    BY <1>7
  <2>2. sm' \in [Sockets -> SocketState] /\ conn' \in [Sockets -> Conns \cup {NoConn}]
    BY <2>1 DEF Closed, StackTypeOK, SocketState
  <2> QED
    BY <2>1, <2>2, ForgetType DEF Closed, StackTypeOK
<1> QED
  BY <1>1, <1>2, <1>3, <1>4, <1>5, <1>6, <1>7 DEF Clients, Client, Stack

\* Neither frees a socket whose handle the board has not released.
LEMMA NetworkKeepsOpen ==
  ASSUME StackTypeOK, Clients \/ Stack,
         NEW s \in Sockets, sm[s] \notin {"closed", "closing"}
  PROVE  sm'[s] \notin {"closed", "closing"}
PROOF
<1>1. ASSUME NEW c \in Conns, Connect(c) \/ SaveSYN(c) \/ ServeSYN(c) \/ DropSYN(c)
      PROVE  sm'[s] \notin {"closed", "closing"}
  BY <1>1, SYNStep DEF Establish, StackTypeOK
<1>2. ASSUME NEW c \in Conns, Arrive(c) \/ TakeReply(c) \/ Hangup(c) \/ Reset(c)
      PROVE  sm'[s] \notin {"closed", "closing"}
  BY <1>2 DEF StackTypeOK, Arrive, TakeReply, Hangup, Reset, CloseSocket, socketVars
<1>3. CASE Stack
  BY <1>3 DEF StackTypeOK, Stack, CloseWaitTimeout, Closed, CloseSocket
<1> QED
  BY <1>1, <1>2, <1>3 DEF Clients, Client
-----------------------------------------------------------------------------
(* Commands.                                                               *)

\* A command decodes to integers, and one that enables the drive to a duty
\* within the limits.
LEMMA DecodeType ==
  ASSUME NEW q \in Command
  PROVE  /\ Decode(q) \in [OE : Int, DIR : Int, RELAY : Int, PWM : Int]
         /\ DriveDuty(Decode(q)) \in Int
         /\ Decode(q).RELAY = 1 => DriveDuty(Decode(q)) \in 120 .. 227
PROOF
<1>1. \A i \in 1 .. 6 : Digit(q[i]) \in Int
  BY DEF Command, numBitsPerCommand, Digit, Char, Byte
<1>2. Decode(q) \in [OE : Int, DIR : Int, RELAY : Int, PWM : Int]
  BY <1>1 DEF Decode
<1>3. Decode(q).PWM \in Int
  BY <1>2
<1> QED
  BY <1>2, <1>3 DEF DriveDuty

\* The zeroed queue decodes to a command that neither drives nor turns nor
\* centres.
LEMMA ZerosIdle ==
  /\ Zeros \in Command
  /\ Decode(Zeros).OE = -48 /\ Decode(Zeros).DIR = -48 /\ Decode(Zeros).RELAY = -48
PROOF
<1>1. Zeros \in Command
  BY DEF Zeros, Command, Byte, numBitsPerCommand
<1>2. Digit(Zeros[1]) = -48 /\ Digit(Zeros[2]) = -48 /\ Digit(Zeros[3]) = -48
  BY DEF Zeros, Digit, Char, numBitsPerCommand
<1> QED
  BY <1>1, <1>2 DEF Decode
=============================================================================
