--------------------------- MODULE EthernetServer ---------------------------
(***************************************************************************)
(* The TCP server the 2015 board talks through: Server and Client of the   *)
(* chipKITEthernet library on top of TcpStack.                             *)
(*                                                                         *)
(* A Server keeps one listening handle and a linked list of the sockets it *)
(* has accepted, the newest at the front.  available() promotes a          *)
(* connected listening socket to the list and opens the next one, walks    *)
(* the list to drop the entries not connected, and then looks for the      *)
(* first entry with unread bytes.                                          *)
(*                                                                         *)
(* The call polls the stack after it opened a socket, after each entry it  *)
(* dropped and before it looks at an entry, so the network goes on inside  *)
(* it: each of its actions is what runs between two polls.                 *)
(***************************************************************************)
EXTENDS TcpStack

VARIABLES
  listening,  \* sklListening.hTCP
  skl,        \* the handles of the client list, newest first
  call,       \* how far available() is: it walks the list, or looks for data
  psklNow,    \* the entry it is at
  client      \* the Client the application holds: what available() returned

listVars  == <<listening, skl, call, psklNow>>
serverVars == <<stackVars, listVars, client>>

Listed == {skl[i] : i \in DOMAIN skl}

ServerTypeOK ==
  /\ StackTypeOK
  /\ listening \in Sockets \cup {NoSocket}
  /\ skl \in Seq(Sockets)
  /\ call \in {"none", "walk", "scan"}
  /\ psklNow \in 1 .. Len(skl) + 1
  /\ client \in Sockets \cup {NoSocket}

\* Server.begin(): the first free socket listens.
ServerInit ==
  /\ StackInit
  /\ \E s \in Sockets :
       /\ Lowest(s, Sockets)
       /\ listening = s
       /\ sm = [t \in Sockets |-> IF t = s THEN "listen" ELSE "closed"]
  /\ skl = <<>> /\ call = "none" /\ psklNow = 1
  /\ client = NoSocket
-----------------------------------------------------------------------------
(* available(), called by the board's program.                             *)

\* ChipKITClientConnected: unread bytes count as a connection.
Connected(s) == sm[s] = "established" \/ rx[s] # <<>>

NewClient == listening # NoSocket /\ Connected(listening)

\* The connected socket becomes the first entry and next, when the table
\* has a free one, listens.  The list may still hold next: see ClientStop.
Promote(next) ==
  /\ listening' = next
  /\ skl' = <<listening>> \o skl
  /\ sm' = [s \in Sockets |-> IF s = next THEN "listen" ELSE sm[s]]
  /\ call' = "walk" /\ psklNow' = 1
  /\ UNCHANGED <<conn, rx, client, peerVars>>

\* The list without its n-th entry.
Unlinked(n) == [i \in 1 .. Len(skl) - 1 |-> skl[IF i < n THEN i ELSE i + 1]]

\* Faulty variants: the socket of a dropped entry is not closed; the walk
\* goes on behind the entry that took its place; the entry stays linked.
DropUnclosed(n) ==
  /\ skl' = Unlinked(n)
  /\ call' = "walk" /\ psklNow' = n
  /\ UNCHANGED <<stackVars, listening, client>>

DropOver(n) ==
  /\ skl' = Unlinked(n)
  /\ sm' = [sm EXCEPT ![skl[n]] = Released(@)]
  /\ call' = "walk" /\ psklNow' = n + 1
  /\ UNCHANGED <<conn, rx, listening, client, peerVars>>

DropLinked(n) ==
  /\ sm' = [sm EXCEPT ![skl[n]] = Released(@)]
  /\ call' = "walk" /\ psklNow' = n + 1
  /\ UNCHANGED <<skl, conn, rx, listening, client, peerVars>>

\* The n-th entry is unlinked and its socket closed; a socket whose closing
\* had begun is reset and free at once.
Drop(n) ==
  LET s == skl[n]
      freed == IF Released(sm[s]) = "closed" THEN {conn[s]} ELSE {}
  IN  /\ skl' = Unlinked(n)
      /\ sm' = [sm EXCEPT ![s] = Released(@)]
      /\ conn' = [conn EXCEPT ![s] = IF @ \in freed THEN NoConn ELSE @]
      /\ Forget(freed)
      /\ call' = "walk" /\ psklNow' = n
      /\ UNCHANGED <<rx, listening, client>>

\* The walk from an entry on: to the next one not connected, or to its end.
WalkFrom(first) ==
  \/ \E n \in first .. Len(skl) :
       /\ ~Connected(skl[n])
       /\ \A i \in first .. n - 1 : Connected(skl[i])
       /\ Drop(n)
  \/ /\ \A n \in first .. Len(skl) : Connected(skl[n])
     /\ call' = "scan" /\ psklNow' = 1
     /\ UNCHANGED <<stackVars, listening, skl, client>>

\* available() begins.  Opening a socket polls the stack before the walk.
ServiceSocketListen ==
  /\ call = "none"
  /\ \/ /\ NewClient
        /\ \E next \in Sockets \cup {NoSocket} : TCPOpen(next) /\ Promote(next)
     \/ ~NewClient /\ WalkFrom(1)

WalkOn == call = "walk" /\ WalkFrom(psklNow)

\* available() returns a Client, the invalid one when there is none to read.
Return(h) ==
  /\ client' = h
  /\ call' = "none" /\ psklNow' = 1
  /\ UNCHANGED <<stackVars, listening, skl>>

LookFurther ==
  /\ psklNow' = psklNow + 1
  /\ UNCHANGED <<stackVars, listening, skl, call, client>>

\* Faulty variant: the oldest entry is looked at first.
LookBackwards ==
  /\ call = "scan"
  /\ IF psklNow > Len(skl) THEN Return(NoSocket)
     ELSE LET s == skl[Len(skl) + 1 - psklNow]
          IN  IF rx[s] = <<>> THEN LookFurther ELSE Return(s)

Look ==
  /\ call = "scan"
  /\ IF psklNow > Len(skl) THEN Return(NoSocket)
     ELSE IF rx[skl[psklNow]] = <<>> THEN LookFurther ELSE Return(skl[psklNow])

Available == ServiceSocketListen \/ WalkOn \/ Look
-----------------------------------------------------------------------------
(* The other calls.                                                        *)

\* client.available(): false for the invalid Client.
HasData == client # NoSocket /\ rx[client] # <<>>

\* client.read(): the next byte.
ReadByte ==
  /\ call = "none"
  /\ HasData
  /\ rx' = [rx EXCEPT ![client] = Tail(@)]
  /\ UNCHANGED <<sm, conn, listVars, client, peerVars>>

\* server.write(): to every listed socket still established.
ServerWrite(reply) ==
  /\ call = "none"
  /\ inbox' = [c \in Conns |->
                 IF \E s \in Listed : sm[s] = "established" /\ conn[s] = c
                 THEN reply ELSE inbox[c]]
  /\ UNCHANGED <<socketVars, listVars, client, peer, sending>>

\* client.stop(): closes the socket and drops its unread bytes; the list
\* keeps the entry, also when the socket is later free and opened again.
\* Nothing happens to the invalid Client.
ClientStop ==
  /\ call = "none"
  /\ IF client = NoSocket
     THEN UNCHANGED <<sm, rx>>
     ELSE /\ sm' = [sm EXCEPT ![client] = Released(sm[client])]
          /\ rx' = [rx EXCEPT ![client] = <<>>]
  /\ client' = NoSocket
  /\ UNCHANGED <<conn, listVars, peerVars>>
-----------------------------------------------------------------------------
\* An application free to make the four calls in any order.
Application ==
  \/ Available
  \/ ReadByte
  \/ \E reply \in Said : ServerWrite(reply)
  \/ ClientStop

\* The network goes on between any two actions.
Network == (Clients \/ Stack) /\ UNCHANGED <<listVars, client>>

ServerNext == Network \/ Application

ServerSpec == ServerInit /\ [][ServerNext]_serverVars
-----------------------------------------------------------------------------
(* Properties.                                                             *)

\* No socket leaks: a socket that listens or holds a connection is the
\* listening handle or an entry of the list, so that the next available()
\* can find it; the table has ten and nothing else ever frees one.
NoSocketLeak ==
  \A s \in Sockets :
    sm[s] \in {"listen", "established", "close_wait"} => s = listening \/ s \in Listed

\* The server's handles stand for one open socket each: the entries are
\* distinct, the listening handle is none of them, and no handle names a
\* socket that has been released, which TCPOpen could hand out again.
HandlesSound ==
  /\ \A i, j \in DOMAIN skl : skl[i] = skl[j] => i = j
  /\ listening \notin Listed
  /\ \A s \in Sockets : sm[s] \in {"closed", "closing"} => s # listening /\ s \notin Listed

\* Nothing breaks that but client.stop(), which leaves the entry of the
\* socket it released: not the network in the midst of available(), not a
\* full table, not the order in which entries are dropped and sockets
\* opened.  (Once broken it may stay so: see AlwaysListening, PickedUpOnce.)
OnlyStopBreaksTheList == [][HandlesSound => HandlesSound' \/ ClientStop]_serverVars

\* Once accepted, a connection is replaced by "listening on another socket":
\* the listening handle, when there is one, is a socket that can still be
\* reached.
AlwaysListening == listening \in Sockets => sm[listening] # "closed"

\* The service routine "picks up any new connection and adds it to the
\* client list" (Server::ServiceSocketListen): a connection is one entry,
\* and server.write() reaches its client once.
PickedUpOnce ==
  call = "none" =>
    \A i, j \in DOMAIN skl : skl[i] = skl[j] /\ sm[skl[i]] = "established" => i = j
=============================================================================
