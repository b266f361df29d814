---------------------------- MODULE DnetckServer ----------------------------
(***************************************************************************)
(* The TCP server the 2014 board talks through: TcpServer and TcpClient of *)
(* the DNETcK library on top of TcpStack, over a WiFi link.                *)
(*                                                                         *)
(* A TcpServer keeps an array of handles: first the clients that wait to   *)
(* be accepted (pending, oldest first), then the socket it listens on, if  *)
(* it could get one.  availableClients() moves a connected listening       *)
(* socket to the waiting ones, forgets those no longer connected and       *)
(* listens again; acceptClient() hands out the first.  Beyond the          *)
(* listening socket the array is always empty.                             *)
(***************************************************************************)
EXTENDS TcpStack

CONSTANT PendingMax  \* _cPendingMax: 3 by default

ASSUME PendingAssumption == PendingMax \in Nat \ {0}

VARIABLES
  link,       \* WFcK_IsConnected: "up", "away" (not yet, or lost for a time), "down"
  pending,    \* _rghTCP up to _cPending
  listening,  \* _rghTCP[_cPending]
  held        \* the handle of tcpClient

handleVars == <<pending, listening, held>>
dnetckVars == <<stackVars, link, handleVars>>

Handle == Sockets \cup {NoSocket}

DnetckTypeOK ==
  /\ StackTypeOK
  /\ link \in {"up", "away", "down"}
  /\ pending \in Seq(Sockets) /\ Len(pending) =< PendingMax
  /\ listening \in Handle
  /\ held \in Handle

DnetckInit ==
  /\ StackInit
  /\ sm = [s \in Sockets |-> "closed"]
  /\ link = "away"
  /\ pending = <<>> /\ listening = NoSocket /\ held = NoSocket
-----------------------------------------------------------------------------
(* TcpServer.                                                              *)

\* resumeListening() with n clients waiting and the array's next handle h.
ResumeListening(n, h) ==
  IF h # NoSocket \/ n >= PendingMax
  THEN listening' = h /\ UNCHANGED sm
  ELSE /\ TCPOpen(listening')
       /\ sm' = [s \in Sockets |-> IF s = listening' THEN "listen" ELSE sm[s]]

StartListening == ResumeListening(0, NoSocket) /\ UNCHANGED <<pending, held>>

\* Faulty variant: INVALID_SOCKET is taken for an error.
isListeningValid(n) == n < PendingMax /\ listening # NoSocket /\ link = "up"

\* True also without a socket to listen on: INVALID_SOCKET (0xFE) is below
\* the INVALID_UDP_SOCKET (0xFF) it is compared with.
isListening(n) == n < PendingMax /\ link = "up"

\* Faulty variant: an invalid handle is not dropped.
WaitingInvalid(s) == s = NoSocket \/ sm[s] = "established" \/ rx[s] # <<>>

\* A handle that stays in the array: connected, or with unread bytes.
Waiting(s) == s # NoSocket /\ (sm[s] = "established" \/ rx[s] # <<>>)

\* TCPIsConnected, FALSE for an invalid handle.
IsEstablished(h) == h # NoSocket /\ sm[h] = "established"

\* The places in K, from the first to the last.
Increasing(K) ==
  {f \in [1 .. Cardinality(K) -> K] : \A a, b \in DOMAIN f : a < b => f[a] < f[b]}

\* availableClients() when the handles in queue are the waiting ones: those
\* that wait no longer are dropped, and not closed, and the others move up.
AvailableClients(queue) ==
  LET promoted == isListening(Len(queue)) /\ IsEstablished(listening)
      found == IF promoted THEN Append(queue, listening) ELSE queue
      kept  == {i \in DOMAIN found : Waiting(found[i])}
  IN  \E places \in Increasing(kept) :
        /\ pending' = [n \in DOMAIN places |-> found[places[n]]]
        /\ ResumeListening(Len(pending'), IF promoted THEN NoSocket ELSE listening)

\* Faulty variant: the accepted handle stays in the array.
AcceptClientKept ==
  /\ pending # <<>>
  /\ held' = Head(pending)
  /\ AvailableClients(pending)

\* acceptClient(): the first waiting client, whose place is cleared before
\* availableClients() tidies the array.
AcceptClient ==
  /\ pending # <<>>
  /\ held' = Head(pending)
  /\ AvailableClients(<<NoSocket>> \o Tail(pending))

\* What close() closes: stopListening() tidies the array once more, so that
\* clients which wait no longer are dropped here too.
ServerCloses == {pending[i] : i \in {j \in DOMAIN pending : Waiting(pending[j])}} \cup {listening}

\* TCPDiscard and TCPClose of all the handles in hs.
CloseHandles(hs) ==
  /\ sm' = [s \in Sockets |-> IF s \in hs THEN Released(sm[s]) ELSE sm[s]]
  /\ rx' = [s \in Sockets |-> IF s \in hs THEN <<>> ELSE rx[s]]
  /\ UNCHANGED <<conn, peerVars>>

ServerHandles == {pending[i] : i \in DOMAIN pending} \cup {listening}
-----------------------------------------------------------------------------
(* TcpClient.                                                              *)

Available == held # NoSocket /\ rx[held] # <<>>

\* readStream() takes all there is, or nothing any more.
ReadStream(bytes) ==
  /\ bytes = IF held = NoSocket THEN <<>> ELSE rx[held]
  /\ rx' = [s \in Sockets |-> IF s = held THEN <<>> ELSE rx[s]]
  /\ UNCHANGED <<sm, conn, peerVars, link, handleVars>>

\* isConnected().  While the WiFi is away a client that was connected is
\* not; one that a lost WiFi has set back to "waiting to connect" asks its
\* socket alone.  The two alternate with the number of calls.
IsConnected(answer) ==
  answer \in {IsEstablished(held)} \cup IF link = "up" THEN {} ELSE {FALSE}

\* writeStream() to a connected client.
WriteStream(reply) ==
  /\ inbox' = [c \in Conns |-> IF conn[held] = c THEN reply ELSE inbox[c]]
  /\ UNCHANGED <<socketVars, peer, sending, link, handleVars>>
-----------------------------------------------------------------------------
(* The link, the clients and the stack.                                    *)

\* A connection that failed, or was lost permanently, is not retried.
LinkChanges ==
  /\ link # "down"
  /\ link' \in {"up", "away", "down"} \ {link}
  /\ UNCHANGED <<stackVars, handleVars>>

\* Without the WiFi nothing arrives; a connection may still time out, and a
\* client still reads what it has.
Network ==
  /\ \/ link = "up" /\ \E c \in Conns :
          Connect(c) \/ SaveSYN(c) \/ ServeSYN(c) \/ Arrive(c) \/ Hangup(c)
     \/ \E c \in Conns : TakeReply(c) \/ Reset(c) \/ DropSYN(c)
     \/ Stack
  /\ UNCHANGED <<link, handleVars>>
-----------------------------------------------------------------------------
(* Properties.                                                             *)

\* Every handle is a socket of its own that nobody else can be given: the
\* array is shifted in place while clients leave, and a socket named twice
\* would be read as two clients, one named after it was freed would be
\* another connection's.
HandlesApart ==
  /\ \A i, j \in DOMAIN pending : pending[i] = pending[j] => i = j
  /\ \A s \in Sockets : s \in ServerHandles => s # held /\ sm[s] \notin {"closed", "closing"}
  /\ listening # NoSocket => \A i \in DOMAIN pending : pending[i] # listening
  /\ held # NoSocket => sm[held] \notin {"closed", "closing"}
=============================================================================
