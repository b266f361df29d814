------------------------------ MODULE TcpStack ------------------------------
(***************************************************************************)
(* The server sockets of the TCP stack both boards run on, with the        *)
(* clients at the other end.  The 2014 and the 2015 board use two copies   *)
(* of the same TCP.c under different libraries.                            *)
(*                                                                         *)
(* A socket of the table is "closed" (free), "listen", "established",      *)
(* "close_wait" (the peer sent its FIN; what it sent before can still be   *)
(* read) or "closing" (released by the board, its FIN not yet answered).   *)
(* A socket the stack itself closes listens again, whoever holds its       *)
(* handle; only one the board released becomes free.                       *)
(*                                                                         *)
(* A SYN that finds no listening socket, but one in use that may listen    *)
(* again, is saved: its client is "waiting".  The queue's order is left    *)
(* open, since nothing tells two waiting clients apart.                    *)
(*                                                                         *)
(* The clients' half (peer, sending, inbox) is every behaviour a TCP       *)
(* client can show: it connects, sends words in segments of any cut,       *)
(* closes its end or vanishes.                                             *)
(***************************************************************************)
EXTENDS Integers, Sequences, FiniteSets

CONSTANTS
  Sockets,    \* indices of the TCP sockets the command port can use
  NoSocket,   \* INVALID_SOCKET
  Conns,      \* client connections, each made at most once
  NoConn,
  Words,      \* what each client sends: sequences of bytes of any length
  Chunks,     \* bound: the sizes in which bytes arrive together
  RxSize,     \* bound: bytes a receive buffer holds (1000 on the board)
  SynQueueSize,  \* TCP_SYN_QUEUE_MAX_ENTRIES (3 on the board)
  Faults      \* the ways a client may leave: "hangup" (FIN), "reset" (RST)

Byte == 0 .. 255

ASSUME ServerAssumption ==
  /\ Sockets \subseteq Nat
  /\ NoSocket \notin Sockets
  /\ NoConn \notin Conns
  /\ \A c \in Conns : Words[c] \subseteq Seq(Byte)
  /\ Chunks \subseteq Nat \ {0}
  /\ RxSize \in Nat /\ SynQueueSize \in Nat
  /\ Faults \subseteq {"hangup", "reset"}

VARIABLES
  sm,         \* smState of each socket
  conn,       \* the connection a socket serves
  rx,         \* bytes received and not yet read
  peer,       \* each connection as its client sees it
  sending,    \* what is left of the word a client is sending
  inbox       \* the last reply a client was sent and has not read yet

socketVars == <<sm, conn, rx>>
peerVars  == <<peer, sending, inbox>>
stackVars == <<socketVars, peerVars>>

SocketState == {"closed", "listen", "established", "close_wait", "closing"}
PeerState == {"idle", "waiting", "open", "gone"}

\* Everything some client says.
Said == UNION {Words[c] : c \in Conns}

StackTypeOK ==
  /\ sm \in [Sockets -> SocketState]
  /\ conn \in [Sockets -> Conns \cup {NoConn}]
  /\ rx \in [Sockets -> Seq(Byte)]
  /\ peer \in [Conns -> PeerState]
  /\ sending \in [Conns -> Seq(Byte)]
  /\ inbox \in [Conns -> Seq(Byte)]

Lowest(s, S) == s \in S /\ \A t \in S : s =< t
Highest(s, S) == s \in S /\ \A t \in S : t =< s
-----------------------------------------------------------------------------
(* What a board's library asks of the stack.                               *)

\* TCPOpen takes the first closed socket of the table, if there is one.
TCPOpen(s) ==
  LET free == {t \in Sockets : sm[t] = "closed"}
  IN  IF free = {} THEN s = NoSocket ELSE Lowest(s, free)

\* The clients whose connection has no socket any more.
Forget(cs) ==
  /\ peer' = [c \in Conns |-> IF c \in cs THEN "gone" ELSE peer[c]]
  /\ sending' = [c \in Conns |-> IF c \in cs THEN <<>> ELSE sending[c]]
  /\ inbox' = [c \in Conns |-> IF c \in cs THEN <<>> ELSE inbox[c]]

\* What TCPClose makes of a socket: a connection begins its closing
\* handshake, any other state is closed at once (a reset ends a "closing").
Released(st) == IF st \in {"established", "close_wait"} THEN "closing" ELSE "closed"

StackInit ==
  /\ conn = [s \in Sockets |-> NoConn]
  /\ rx = [s \in Sockets |-> <<>>]
  /\ peer = [c \in Conns |-> "idle"]
  /\ sending = [c \in Conns |-> <<>>]
  /\ inbox = [c \in Conns |-> <<>>]

-----------------------------------------------------------------------------
(* The stack and the clients.                                              *)

Listeners == {s \in Sockets : sm[s] = "listen"}

\* The three-way handshake is one step.
Establish(s, c) ==
  /\ sm' = [sm EXCEPT ![s] = "established"]
  /\ conn' = [conn EXCEPT ![s] = c]
  /\ peer' = [peer EXCEPT ![c] = "open"]
  /\ UNCHANGED <<rx, sending, inbox>>

\* Faulty variant: a repeated SYN is not matched to its connection and opens
\* a second one.
ConnectAgain(c) ==
  /\ peer[c] # "gone"
  /\ \E s \in Sockets : Highest(s, Listeners) /\ Establish(s, c)

\* A SYN that arrives is taken by the last listening socket of the table.
Connect(c) ==
  /\ peer[c] = "idle"
  /\ \E s \in Sockets : Highest(s, Listeners) /\ Establish(s, c)

\* It is saved when none listens, but a server socket is in use; one the
\* board has released is no server socket any more.
SaveSYN(c) ==
  /\ peer[c] = "idle"
  /\ Listeners = {}
  /\ \E s \in Sockets : sm[s] \in {"established", "close_wait"}
  /\ Cardinality({d \in Conns : peer[d] = "waiting"}) < SynQueueSize
  /\ peer' = [peer EXCEPT ![c] = "waiting"]
  /\ UNCHANGED <<socketVars, sending, inbox>>

\* A saved SYN is taken by the first socket that TCPTick finds listening.
ServeSYN(c) ==
  /\ peer[c] = "waiting"
  /\ \E s \in Sockets : Lowest(s, Listeners) /\ Establish(s, c)

\* After 3 s it is deleted; the client may try again.
DropSYN(c) ==
  /\ peer[c] = "waiting"
  /\ peer' = [peer EXCEPT ![c] = "idle"]
  /\ UNCHANGED <<socketVars, sending, inbox>>

\* The next bytes of the word c is sending, or of a new word, arrive.
Arrive(c) ==
  /\ peer[c] = "open"
  /\ \E s \in Sockets, n \in Chunks,
        stream \in (IF sending[c] = <<>> THEN Words[c] ELSE {sending[c]}) :
       /\ sm[s] = "established" /\ conn[s] = c
       /\ n =< Len(stream)
       /\ Len(rx[s]) + n =< RxSize
       /\ rx' = [rx EXCEPT ![s] = @ \o SubSeq(stream, 1, n)]
       /\ sending' = [sending EXCEPT ![c] = SubSeq(stream, n + 1, Len(stream))]
  /\ UNCHANGED <<sm, conn, peer, inbox>>

\* The client takes the reply out of its socket.
TakeReply(c) ==
  /\ inbox[c] # <<>>
  /\ inbox' = [inbox EXCEPT ![c] = <<>>]
  /\ UNCHANGED <<socketVars, peer, sending>>

\* The client closes its end: the FIN follows the bytes already received.
Hangup(c) ==
  /\ "hangup" \in Faults
  /\ \E s \in Sockets :
       /\ sm[s] = "established" /\ conn[s] = c
       /\ sm' = [sm EXCEPT ![s] = "close_wait"]
  /\ Forget({c})
  /\ UNCHANGED <<conn, rx>>

\* Faulty variant: the receive buffer is not flushed.
CloseSocketUnflushed(s) ==
  /\ sm' = [sm EXCEPT ![s] = "listen"]
  /\ conn' = [conn EXCEPT ![s] = NoConn]
  /\ UNCHANGED rx

\* CloseSocket() of a server socket: unread bytes are dropped and the
\* socket listens again, whoever still holds its handle.
CloseSocket(s) ==
  /\ sm' = [sm EXCEPT ![s] = "listen"]
  /\ conn' = [conn EXCEPT ![s] = NoConn]
  /\ rx' = [rx EXCEPT ![s] = <<>>]

\* A reset arrives, or keep-alives and retransmissions went unanswered.
Reset(c) ==
  /\ "reset" \in Faults
  /\ \E s \in Sockets :
       /\ sm[s] = "established" /\ conn[s] = c
       /\ CloseSocket(s)
  /\ Forget({c})

\* 200 ms after the peer's FIN the stack closes its own half.
CloseWaitTimeout(s) ==
  /\ sm[s] = "close_wait"
  /\ CloseSocket(s)
  /\ UNCHANGED peerVars

\* The closing handshake of a released socket ends: it is free again.
Closed(s) ==
  /\ sm[s] = "closing"
  /\ sm' = [sm EXCEPT ![s] = "closed"]
  /\ conn' = [conn EXCEPT ![s] = NoConn]
  /\ Forget({conn[s]})
  /\ UNCHANGED rx

Client(c) ==
  \/ Connect(c) \/ SaveSYN(c) \/ ServeSYN(c) \/ DropSYN(c)
  \/ Arrive(c) \/ TakeReply(c) \/ Hangup(c) \/ Reset(c)
Clients == \E c \in Conns : Client(c)
Stack == \E s \in Sockets : CloseWaitTimeout(s) \/ Closed(s)
-----------------------------------------------------------------------------
(* Properties every board can ask of its sockets.                          *)

\* A free socket holds nothing: it serves nobody and has no unread bytes
\* left by an earlier connection for the next one to be read from.
FreeIsClean ==
  \A s \in Sockets : sm[s] \in {"closed", "listen"} => rx[s] = <<>> /\ conn[s] = NoConn

\* One connection, one socket: a client's bytes never go to two handles.
OneSocketPerClient ==
  \A s, t \in Sockets : conn[s] = conn[t] /\ conn[s] # NoConn => s = t
=============================================================================
