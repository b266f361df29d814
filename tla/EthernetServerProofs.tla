------------------------ MODULE EthernetServerProofs ------------------------
(***************************************************************************)
(* Proofs about the server's socket and list bookkeeping, for any table of *)
(* sockets, any number of clients and any words.                           *)
(***************************************************************************)
EXTENDS EthernetServer, BoardLemmas

\* What the invariants below need besides themselves: a socket being closed
\* has no unread bytes, the Client the board uses between two calls of
\* available() is a socket it has not released, and a connection on a socket
\* has been made.
Bookkeeping ==
  /\ \A s \in Sockets : sm[s] = "closing" => rx[s] = <<>>
  /\ call = "none" /\ client # NoSocket => sm[client] \in {"listen", "established", "close_wait"}
  /\ \A s \in Sockets : conn[s] # NoConn => peer[conn[s]] \in {"open", "gone"}

ServerIInv ==
  /\ ServerTypeOK
  /\ NoSocketLeak
  /\ FreeIsClean
  /\ OneSocketPerClient
  /\ Bookkeeping

\* Everything that can happen to the server, whatever the board writes.
ServerStep ==
  \/ Network
  \/ Available \/ ReadByte \/ ClientStop
  \/ \E reply \in Seq(Byte) : ServerWrite(reply)
  \/ UNCHANGED serverVars
-----------------------------------------------------------------------------
(* The list.                                                               *)

\* The list without an entry has the others, in their order.
LEMMA UnlinkedList ==
  ASSUME skl \in Seq(Sockets), NEW n \in 1 .. Len(skl)
  PROVE  /\ Unlinked(n) \in Seq(Sockets)
         /\ Len(skl) \in Nat /\ Len(Unlinked(n)) = Len(skl) - 1
         /\ DOMAIN Unlinked(n) = 1 .. Len(skl) - 1 /\ DOMAIN skl = 1 .. Len(skl)
         /\ \A i \in 1 .. Len(skl) - 1 :
              Unlinked(n)[i] = skl[IF i < n THEN i ELSE i + 1]
PROOF
<1>1. Len(skl) \in Nat /\ DOMAIN skl = 1 .. Len(skl)
  BY LenProperties
<1>2. \A i \in 1 .. Len(skl) : skl[i] \in Sockets
  BY ElementOfSeq
<1> DEFINE m == Len(skl) - 1
<1>3. m \in Nat
  BY <1>1
<1>4. Unlinked(n) = [i \in 1 .. m |-> skl[IF i < n THEN i ELSE i + 1]]
  BY DEF Unlinked
<1>5. \A i \in 1 .. m : (IF i < n THEN i ELSE i + 1) \in 1 .. Len(skl)
  BY <1>1
<1>6. Unlinked(n) \in [1 .. m -> Sockets]
  BY <1>2, <1>4, <1>5
<1>7. Unlinked(n) \in Seq(Sockets)
  BY <1>3, <1>6, SeqDef
<1>8. DOMAIN Unlinked(n) = 1 .. m
  BY <1>6
<1>9. Len(Unlinked(n)) = m
  BY <1>3, <1>7, <1>8, LenProperties
<1> QED
  BY <1>1, <1>4, <1>7, <1>8, <1>9

\* So whatever is listed stays listed, the entry's own socket excepted, and
\* nothing else is.
LEMMA UnlinkedListed ==
  ASSUME skl \in Seq(Sockets), NEW n \in 1 .. Len(skl), skl' = Unlinked(n)
  PROVE  /\ Listed' \subseteq Listed
         /\ Listed \ {skl[n]} \subseteq Listed'
PROOF
<1>1. /\ Len(skl) \in Nat
      /\ DOMAIN skl' = 1 .. Len(skl) - 1 /\ DOMAIN skl = 1 .. Len(skl)
      /\ \A i \in 1 .. Len(skl) - 1 : skl'[i] = skl[IF i < n THEN i ELSE i + 1]
  BY UnlinkedList
<1>2. ASSUME NEW i \in DOMAIN skl' PROVE skl'[i] \in Listed
  <2>1. (IF i < n THEN i ELSE i + 1) \in DOMAIN skl
    BY <1>1
  <2> QED BY <1>1, <2>1 DEF Listed
<1>3. ASSUME NEW j \in DOMAIN skl, skl[j] # skl[n] PROVE skl[j] \in Listed'
  <2>1. CASE j < n
    <3>1. j \in DOMAIN skl' /\ skl'[j] = skl[j]
      BY <1>1, <2>1
    <3> QED BY <3>1 DEF Listed
  <2>2. CASE j > n
    <3>1. j - 1 \in DOMAIN skl' /\ skl'[j - 1] = skl[j]
      BY <1>1, <2>2
    <3> QED BY <3>1 DEF Listed
  <2> QED BY <1>1, <1>3, <2>1, <2>2
<1> QED BY <1>2, <1>3 DEF Listed

\* Distinct entries stay distinct, and the one taken out is gone.
LEMMA UnlinkedDistinct ==
  ASSUME skl \in Seq(Sockets), NEW n \in 1 .. Len(skl), skl' = Unlinked(n),
         \A i, j \in DOMAIN skl : skl[i] = skl[j] => i = j
  PROVE  /\ \A i, j \in DOMAIN skl' : skl'[i] = skl'[j] => i = j
         /\ skl[n] \notin Listed'
PROOF
<1>1. /\ Len(skl) \in Nat
      /\ DOMAIN skl' = 1 .. Len(skl) - 1 /\ DOMAIN skl = 1 .. Len(skl)
      /\ \A i \in 1 .. Len(skl) - 1 : skl'[i] = skl[IF i < n THEN i ELSE i + 1]
  BY UnlinkedList
<1> DEFINE at(i) == IF i < n THEN i ELSE i + 1
<1>2. \A i \in DOMAIN skl' : at(i) \in DOMAIN skl /\ at(i) # n /\ skl'[i] = skl[at(i)]
  BY <1>1
<1>3. \A i, j \in DOMAIN skl' : at(i) = at(j) => i = j
  BY <1>1
<1>4. n \in DOMAIN skl
  BY <1>1
<1> HIDE DEF at
<1> QED BY <1>2, <1>3, <1>4 DEF Listed

\* A list with a new entry at its front.
LEMMA PromotedList ==
  ASSUME skl \in Seq(Sockets), NEW s \in Sockets, skl' = <<s>> \o skl
  PROVE  /\ skl' \in Seq(Sockets) /\ Len(skl') \in Nat
         /\ Listed' = {s} \cup Listed
         /\ (s \notin Listed /\ \A i, j \in DOMAIN skl : skl[i] = skl[j] => i = j)
              => \A i, j \in DOMAIN skl' : skl'[i] = skl'[j] => i = j
PROOF
<1>1. <<s>> \in Seq(Sockets) /\ Len(<<s>>) = 1 /\ <<s>>[1] = s
  OBVIOUS
<1>2. Len(skl) \in Nat /\ DOMAIN skl = 1 .. Len(skl)
  BY LenProperties
<1>3. /\ skl' \in Seq(Sockets) /\ Len(skl') = 1 + Len(skl)
      /\ \A i \in 1 .. 1 + Len(skl) : skl'[i] = IF i <= 1 THEN s ELSE skl[i - 1]
  BY <1>1, ConcatProperties
<1>4. DOMAIN skl' = 1 .. 1 + Len(skl)
  BY <1>3, LenProperties
<1>5. skl'[1] = s
  BY <1>2, <1>3
<1>6. \A i \in DOMAIN skl' : i # 1 => i - 1 \in DOMAIN skl /\ skl'[i] = skl[i - 1]
  BY <1>2, <1>3, <1>4
<1>7. Listed' = {s} \cup Listed
  <2>1. \A i \in DOMAIN skl' : skl'[i] \in {s} \cup Listed
    BY <1>5, <1>6 DEF Listed
  <2>2. \A i \in DOMAIN skl : i + 1 \in DOMAIN skl' /\ skl'[i + 1] = skl[i]
    BY <1>2, <1>3, <1>4
  <2>3. 1 \in DOMAIN skl'
    BY <1>2, <1>4
  <2>4. s \in Listed'
    BY <1>5, <2>3 DEF Listed
  <2>5. Listed \subseteq Listed'
    <3> SUFFICES ASSUME NEW i \in DOMAIN skl PROVE skl[i] \in Listed'
      BY DEF Listed
    <3> QED BY <2>2 DEF Listed
  <2>6. Listed' \subseteq {s} \cup Listed
    BY <2>1 DEF Listed
  <2> QED BY <2>4, <2>5, <2>6
<1>8. ASSUME s \notin Listed, \A i, j \in DOMAIN skl : skl[i] = skl[j] => i = j,
             NEW i \in DOMAIN skl', NEW j \in DOMAIN skl', skl'[i] = skl'[j]
      PROVE  i = j
  <2>1. i \in Nat /\ j \in Nat
    BY <1>4
  <2>2. CASE i # 1 /\ j # 1
    BY <1>6, <1>8, <2>1, <2>2
  <2>3. CASE i = 1 \/ j = 1
    BY <1>5, <1>6, <1>8, <2>3 DEF Listed
  <2> QED BY <2>2, <2>3
<1> QED BY <1>2, <1>3, <1>7, <1>8
-----------------------------------------------------------------------------
(* available(): the list is serviced and the first readable entry chosen.  *)

\* The connected listening socket becomes an entry.  The stale case is in
\* it: the socket TCPOpen picks may still be one.
LEMMA PromoteStep ==
  ASSUME ServerIInv, NewClient, NEW next \in Sockets \cup {NoSocket}, TCPOpen(next), Promote(next)
  PROVE  ServerIInv'
PROOF
<1> USE ServerAssumption
<1>1. /\ listening' = next /\ skl' = <<listening>> \o skl
      /\ sm' = [s \in Sockets |-> IF s = next THEN "listen" ELSE sm[s]]
      /\ call' = "walk" /\ psklNow' = 1
      /\ UNCHANGED <<conn, rx, client, peer, sending, inbox>>
  BY DEF Promote, peerVars
<1>2. next \in Sockets => sm[next] = "closed"
  BY DEF TCPOpen, Lowest
<1>3. listening \in Sockets /\ skl \in Seq(Sockets)
  BY DEF NewClient, ServerIInv, ServerTypeOK
<1>4. skl' \in Seq(Sockets) /\ Len(skl') \in Nat /\ Listed' = {listening} \cup Listed
  BY <1>1, <1>3, PromotedList
<1>5. ServerTypeOK'
  <2>1. psklNow' \in 1 .. Len(skl') + 1
    BY <1>1, <1>4
  <2> QED BY <1>1, <1>4, <2>1 DEF ServerIInv, ServerTypeOK, StackTypeOK, SocketState
<1>6. NoSocketLeak'
  BY <1>1, <1>4 DEF ServerIInv, NoSocketLeak
<1>7. FreeIsClean' /\ OneSocketPerClient' /\ Bookkeeping'
  BY <1>1, <1>2 DEF ServerIInv, FreeIsClean, OneSocketPerClient, Bookkeeping
<1> QED BY <1>5, <1>6, <1>7 DEF ServerIInv

\* An entry that is not connected is dropped and its socket closed, also
\* when that is the listening socket.
LEMMA DropStep ==
  ASSUME ServerIInv, NEW n \in 1 .. Len(skl), ~Connected(skl[n]), Drop(n)
  PROVE  ServerIInv'
PROOF
<1> USE ServerAssumption
<1> DEFINE s == skl[n]
           freed == IF Released(sm[s]) = "closed" THEN {conn[s]} ELSE {}
<1>1. s \in Sockets /\ skl \in Seq(Sockets)
  BY ElementOfSeq DEF ServerIInv, ServerTypeOK
<1>2. /\ skl' = Unlinked(n)
      /\ sm' = [sm EXCEPT ![s] = Released(@)]
      /\ conn' = [conn EXCEPT ![s] = IF @ \in freed THEN NoConn ELSE @]
      /\ Forget(freed)
      /\ call' = "walk" /\ psklNow' = n
      /\ UNCHANGED <<rx, listening, client>>
  BY DEF Drop
<1>3. sm[s] # "established" /\ rx[s] = <<>>
  BY DEF Connected
<1>4. /\ Released(sm[s]) \in {"closing", "closed"}
      /\ Released(sm[s]) = "closing" => freed = {}
      /\ Released(sm[s]) = "closed" => freed = {conn[s]}
  BY DEF Released
<1>5. skl' \in Seq(Sockets) /\ Len(skl') = Len(skl) - 1 /\ Len(skl) \in Nat
  BY <1>1, <1>2, UnlinkedList
<1>6. Listed' \subseteq Listed /\ Listed \ {s} \subseteq Listed'
  BY <1>1, <1>2, UnlinkedListed
<1>7. /\ peer' \in [Conns -> PeerState] /\ sending' \in [Conns -> Seq(Byte)]
      /\ inbox' \in [Conns -> Seq(Byte)]
      /\ \A c \in Conns : peer[c] \in {"open", "gone"} => peer'[c] \in {"open", "gone"}
  BY <1>2, ForgetType DEF ServerIInv, ServerTypeOK
<1> HIDE DEF s, freed
<1>8. /\ sm \in [Sockets -> SocketState] /\ conn \in [Sockets -> Conns \cup {NoConn}]
      /\ rx \in [Sockets -> Seq(Byte)]
  BY DEF ServerIInv, ServerTypeOK, StackTypeOK
<1>9. /\ sm'[s] = Released(sm[s]) /\ \A t \in Sockets : t # s => sm'[t] = sm[t] /\ conn'[t] = conn[t]
      /\ conn'[s] = IF conn[s] \in freed THEN NoConn ELSE conn[s]
  BY <1>1, <1>2, <1>8
<1>10. ServerTypeOK'
  <2>1. psklNow' \in 1 .. Len(skl') + 1
    BY <1>2, <1>5
  <2>2. sm' \in [Sockets -> SocketState] /\ conn' \in [Sockets -> Conns \cup {NoConn}]
    BY <1>1, <1>2, <1>4, <1>8 DEF SocketState
  <2> QED BY <1>2, <1>5, <1>7, <2>1, <2>2 DEF ServerIInv, ServerTypeOK, StackTypeOK
<1>11. NoSocketLeak'
  BY <1>2, <1>4, <1>6, <1>9 DEF ServerIInv, NoSocketLeak
<1>12. FreeIsClean'
  BY <1>2, <1>3, <1>4, <1>9 DEF ServerIInv, FreeIsClean
<1>13. OneSocketPerClient'
  BY <1>9 DEF ServerIInv, OneSocketPerClient
<1>14. Bookkeeping'
  <2>1. \A t \in Sockets : conn'[t] = conn[t] \/ conn'[t] = NoConn
    BY <1>9
  <2>2. \A t \in Sockets : sm'[t] = "closing" => rx'[t] = <<>>
    BY <1>2, <1>3, <1>9 DEF ServerIInv, Bookkeeping
  <2>3. ASSUME NEW t \in Sockets, conn'[t] # NoConn PROVE peer'[conn'[t]] \in {"open", "gone"}
    <3>1. conn'[t] = conn[t] /\ conn[t] \in Conns
      BY <1>8, <2>1, <2>3
    <3> QED BY <1>7, <2>3, <3>1 DEF ServerIInv, Bookkeeping
  <2> QED BY <1>2, <2>2, <2>3 DEF Bookkeeping
<1> QED BY <1>10, <1>11, <1>12, <1>13, <1>14 DEF ServerIInv

\* Where available() is does not matter to the sockets.
LEMMA WalkedStep ==
  ASSUME ServerIInv, call' # "none", call' \in {"none", "walk", "scan"}, psklNow' \in 1 .. Len(skl) + 1,
         UNCHANGED <<stackVars, listening, skl, client>>
  PROVE  ServerIInv'
PROOF
  BY DEF ServerIInv, ServerTypeOK, StackTypeOK, NoSocketLeak, Listed, FreeIsClean, OneSocketPerClient,
         Bookkeeping, stackVars, socketVars, peerVars

LEMMA WalkFromStep ==
  ASSUME ServerIInv, NEW first \in Nat \ {0}, WalkFrom(first)
  PROVE  ServerIInv'
PROOF
<1>1. Len(skl) \in Nat
  BY LenProperties DEF ServerIInv, ServerTypeOK
<1>2. CASE \E n \in first .. Len(skl) : ~Connected(skl[n]) /\ Drop(n)
  <2>1. PICK n \in first .. Len(skl) : ~Connected(skl[n]) /\ Drop(n)
    BY <1>2
  <2>2. n \in 1 .. Len(skl)
    BY <1>1
  <2> QED BY <2>1, <2>2, DropStep
<1>3. CASE call' = "scan" /\ psklNow' = 1 /\ UNCHANGED <<stackVars, listening, skl, client>>
  <2>1. psklNow' \in 1 .. Len(skl) + 1
    BY <1>1, <1>3
  <2> QED BY <1>3, <2>1, WalkedStep
<1> QED BY <1>2, <1>3 DEF WalkFrom

\* available() returns an entry with something to read, which no socket
\* the board has released has.
LEMMA LookStep ==
  ASSUME ServerIInv, Look
  PROVE  ServerIInv'
PROOF
<1> USE ServerAssumption
<1>1. Len(skl) \in Nat /\ psklNow \in 1 .. Len(skl) + 1 /\ skl \in Seq(Sockets)
  BY LenProperties DEF ServerIInv, ServerTypeOK
<1>2. CASE psklNow > Len(skl) /\ Return(NoSocket)
  BY <1>1, <1>2 DEF Return, ServerIInv, ServerTypeOK, StackTypeOK, NoSocketLeak, Listed, FreeIsClean,
     OneSocketPerClient, Bookkeeping, stackVars, socketVars, peerVars
<1>3. CASE psklNow \in 1 .. Len(skl) /\ LookFurther
  <2>1. call' = "scan" /\ psklNow' \in 1 .. Len(skl) + 1 /\ UNCHANGED <<stackVars, listening, skl, client>>
    BY <1>1, <1>3 DEF LookFurther, Look
  <2> QED BY <2>1, WalkedStep
<1>4. CASE psklNow \in 1 .. Len(skl) /\ rx[skl[psklNow]] # <<>> /\ Return(skl[psklNow])
  <2>1. skl[psklNow] \in Sockets
    BY <1>1, <1>4, ElementOfSeq
  <2> DEFINE h == skl[psklNow]
  <2>2. client' = h /\ psklNow' = 1 /\ UNCHANGED <<stackVars, listening, skl>>
    BY <1>4 DEF Return
  <2>3. sm[h] \in {"established", "close_wait"}
    BY <1>4, <2>1 DEF ServerIInv, ServerTypeOK, StackTypeOK, SocketState, FreeIsClean, Bookkeeping
  <2>4. call' = "none"
    BY <1>4 DEF Return
  <2> HIDE DEF h
  <2>5. h \in Sockets
    BY <2>1 DEF h
  <2> QED BY <1>1, <2>2, <2>3, <2>4, <2>5 DEF ServerIInv, ServerTypeOK, StackTypeOK, NoSocketLeak, Listed, FreeIsClean,
     OneSocketPerClient, Bookkeeping, stackVars, socketVars, peerVars
<1> QED BY <1>1, <1>2, <1>3, <1>4 DEF Look

LEMMA AvailableStep ==
  ASSUME ServerIInv, Available
  PROVE  ServerIInv'
PROOF
<1>1. psklNow \in Nat \ {0}
  BY LenProperties DEF ServerIInv, ServerTypeOK
<1>2. CASE NewClient /\ \E next \in Sockets \cup {NoSocket} : TCPOpen(next) /\ Promote(next)
  BY <1>2, PromoteStep
<1>3. CASE WalkFrom(1) \/ WalkFrom(psklNow)
  BY <1>1, <1>3, WalkFromStep
<1>4. CASE Look
  BY <1>4, LookStep
<1> QED BY <1>2, <1>3, <1>4 DEF Available, ServiceSocketListen, WalkOn
-----------------------------------------------------------------------------
(* The other calls of the board.                                           *)

LEMMA ReadByteStep ==
  ASSUME ServerIInv, ReadByte
  PROVE  ServerIInv'
PROOF
<1>1. /\ client \in Sockets /\ rx[client] \in Seq(Byte) /\ rx[client] # <<>>
      /\ call = "none" /\ rx' = [rx EXCEPT ![client] = Tail(rx[client])]
      /\ UNCHANGED <<sm, conn, listVars, client, peerVars>>
  BY DEF ReadByte, HasData, ServerIInv, ServerTypeOK, StackTypeOK
<1>2. Tail(rx[client]) \in Seq(Byte)
  BY <1>1, HeadTailProperties
<1>3. ServerTypeOK'
  BY <1>1, <1>2 DEF ServerIInv, ServerTypeOK, StackTypeOK, listVars, peerVars
<1>4. NoSocketLeak' /\ OneSocketPerClient'
  BY <1>1 DEF ServerIInv, NoSocketLeak, Listed, OneSocketPerClient, listVars, peerVars
<1>5. FreeIsClean' /\ Bookkeeping'
  BY <1>1 DEF ServerIInv, ServerTypeOK, StackTypeOK, FreeIsClean, Bookkeeping, listVars, peerVars
<1> QED
  BY <1>3, <1>4, <1>5 DEF ServerIInv

LEMMA ServerWriteStep ==
  ASSUME ServerIInv, NEW reply \in Seq(Byte), ServerWrite(reply)
  PROVE  ServerIInv'
PROOF
<1>1. /\ inbox' \in [Conns -> Seq(Byte)]
      /\ UNCHANGED <<socketVars, listVars, client, peer, sending>>
  BY DEF ServerWrite, ServerIInv, ServerTypeOK, StackTypeOK
<1> QED
  BY <1>1 DEF ServerIInv, ServerTypeOK, StackTypeOK, NoSocketLeak, Listed, FreeIsClean,
              OneSocketPerClient, Bookkeeping, stackVars, socketVars, listVars

\* client.stop() leaves the released socket in the list, which is why the
\* invariant does not promise that list entries are open.
LEMMA ClientStopStep ==
  ASSUME ServerIInv, ClientStop
  PROVE  ServerIInv'
PROOF
<1>1. CASE client = NoSocket
  <2>1. UNCHANGED serverVars
    BY <1>1 DEF ClientStop, serverVars, stackVars, socketVars
  <2> QED
    BY <2>1 DEF ServerIInv, ServerTypeOK, StackTypeOK, NoSocketLeak, Listed, FreeIsClean,
                OneSocketPerClient, Bookkeeping, serverVars, stackVars, socketVars, listVars, peerVars
<1>2. CASE client # NoSocket
  <2>1. /\ client \in Sockets
        /\ sm[client] \in {"listen", "established", "close_wait"}
        /\ sm' = [sm EXCEPT ![client] = Released(sm[client])]
        /\ rx' = [rx EXCEPT ![client] = <<>>]
        /\ client' = NoSocket
        /\ UNCHANGED <<conn, listVars, peerVars>>
    BY <1>2 DEF ClientStop, ServerIInv, ServerTypeOK, StackTypeOK, Bookkeeping
  <2>2. ServerTypeOK'
    <3>1. Released(sm[client]) \in SocketState
      BY DEF Released, SocketState
    <3>2. <<>> \in Seq(Byte)
      OBVIOUS
    <3> QED
      BY <2>1, <3>1, <3>2 DEF ServerIInv, ServerTypeOK, StackTypeOK, listVars, peerVars
  <2>3. NoSocketLeak' /\ OneSocketPerClient'
    BY <2>1 DEF ServerIInv, ServerTypeOK, StackTypeOK, NoSocketLeak, Listed, OneSocketPerClient,
                Released, listVars, peerVars
  <2>4. FreeIsClean' /\ Bookkeeping'
    BY <2>1 DEF ServerIInv, ServerTypeOK, StackTypeOK, FreeIsClean, Bookkeeping, Released, listVars, peerVars
  <2> QED
    BY <2>2, <2>3, <2>4 DEF ServerIInv
<1> QED
  BY <1>1, <1>2
-----------------------------------------------------------------------------
(* The clients and the stack.                                              *)

\* A client becomes one of a listening socket.
LEMMA EstablishStep ==
  ASSUME ServerIInv, NEW c \in Conns, NEW s \in Sockets, sm[s] = "listen",
         peer[c] \in {"idle", "waiting"}, Establish(s, c), UNCHANGED <<listVars, client>>
  PROVE  ServerIInv'
PROOF
<1> USE ServerAssumption
<1>1. /\ sm' = [sm EXCEPT ![s] = "established"]
      /\ conn' = [conn EXCEPT ![s] = c]
      /\ peer' = [peer EXCEPT ![c] = "open"]
      /\ UNCHANGED <<rx, listening, skl, call, psklNow, client, sending, inbox>>
  BY DEF Establish, listVars
<1>2. \A t \in Sockets : conn[t] # c
  BY DEF ServerIInv, Bookkeeping
<1>3. ServerTypeOK'
  BY <1>1, EstablishType DEF ServerIInv, ServerTypeOK
<1>4. NoSocketLeak'
  BY <1>1 DEF ServerIInv, ServerTypeOK, StackTypeOK, NoSocketLeak, Listed
<1>5. OneSocketPerClient'
  BY <1>1, <1>2 DEF ServerIInv, ServerTypeOK, StackTypeOK, OneSocketPerClient
<1>6. FreeIsClean'
  BY <1>1 DEF ServerIInv, ServerTypeOK, StackTypeOK, FreeIsClean
<1>7. Bookkeeping'
  BY <1>1 DEF ServerIInv, ServerTypeOK, StackTypeOK, Bookkeeping
<1> QED
  BY <1>3, <1>4, <1>5, <1>6, <1>7 DEF ServerIInv

LEMMA SYNsStep ==
  ASSUME ServerIInv, NEW c \in Conns, Connect(c) \/ SaveSYN(c) \/ ServeSYN(c) \/ DropSYN(c),
         UNCHANGED <<listVars, client>>
  PROVE  ServerIInv'
PROOF
<1>1. CASE \E s \in Sockets :
             sm[s] = "listen" /\ peer[c] \in {"idle", "waiting"} /\ Establish(s, c)
  BY <1>1, EstablishStep
<1>2. CASE /\ peer[c] \in {"idle", "waiting"}
           /\ \E st \in {"idle", "waiting"} : peer' = [peer EXCEPT ![c] = st]
           /\ UNCHANGED <<sm, conn, rx, sending, inbox>>
  <2>1. PICK st \in {"idle", "waiting"} : peer' = [peer EXCEPT ![c] = st]
    BY <1>2
  <2>2. ServerTypeOK'
    BY <1>2, <2>1 DEF ServerIInv, ServerTypeOK, StackTypeOK, PeerState, listVars
  <2>3. Bookkeeping'
    BY <1>2, <2>1 DEF ServerIInv, ServerTypeOK, StackTypeOK, Bookkeeping, listVars
  <2> QED BY <1>2, <2>2, <2>3 DEF ServerIInv, NoSocketLeak, Listed, FreeIsClean, OneSocketPerClient, listVars
<1> QED BY <1>1, <1>2, SYNStep

LEMMA ArriveStep ==
  ASSUME ServerIInv, NEW c \in Conns, Arrive(c), UNCHANGED <<listVars, client>>
  PROVE  ServerIInv'
PROOF
<1> USE ServerAssumption
<1>1. PICK s \in Sockets, n \in Chunks,
           stream \in (IF sending[c] = <<>> THEN Words[c] ELSE {sending[c]}) :
        /\ sm[s] = "established" /\ conn[s] = c
        /\ n =< Len(stream)
        /\ rx' = [rx EXCEPT ![s] = @ \o SubSeq(stream, 1, n)]
        /\ sending' = [sending EXCEPT ![c] = SubSeq(stream, n + 1, Len(stream))]
  BY DEF Arrive
<1>2. UNCHANGED <<sm, conn, listVars, client, peer, inbox>>
  BY DEF Arrive
<1>3. stream \in Seq(Byte) /\ n \in Nat /\ n > 0
  BY <1>1 DEF ServerIInv, ServerTypeOK, StackTypeOK
<1>4. /\ SubSeq(stream, 1, n) \in Seq(Byte)
      /\ SubSeq(stream, n + 1, Len(stream)) \in Seq(Byte)
  BY <1>1, <1>3, SplitType
<1>5. rx[s] \o SubSeq(stream, 1, n) \in Seq(Byte)
  BY <1>4 DEF ServerIInv, ServerTypeOK, StackTypeOK
<1>6. ServerTypeOK'
  BY <1>1, <1>2, <1>4, <1>5 DEF ServerIInv, ServerTypeOK, StackTypeOK, listVars
<1>7. NoSocketLeak' /\ OneSocketPerClient'
  <2>1. sm' = sm /\ conn' = conn /\ listening' = listening /\ skl' = skl
    BY <1>2 DEF listVars
  <2>2. NoSocketLeak'
    BY <2>1 DEF ServerIInv, NoSocketLeak, Listed
  <2>3. OneSocketPerClient'
    BY <2>1 DEF ServerIInv, OneSocketPerClient
  <2> QED
    BY <2>2, <2>3
<1>8. FreeIsClean' /\ Bookkeeping'
  BY <1>1, <1>2 DEF ServerIInv, ServerTypeOK, StackTypeOK, FreeIsClean, Bookkeeping, listVars
<1> QED
  BY <1>6, <1>7, <1>8 DEF ServerIInv

LEMMA TakeReplyStep ==
  ASSUME ServerIInv, NEW c \in Conns, TakeReply(c), UNCHANGED <<listVars, client>>
  PROVE  ServerIInv'
PROOF
<1>1. /\ inbox' = [inbox EXCEPT ![c] = <<>>]
      /\ UNCHANGED <<socketVars, listVars, client, peer, sending>>
  BY DEF TakeReply
<1>2. inbox' \in [Conns -> Seq(Byte)]
  BY <1>1 DEF ServerIInv, ServerTypeOK, StackTypeOK
<1> QED
  BY <1>1, <1>2 DEF ServerIInv, ServerTypeOK, StackTypeOK, NoSocketLeak, Listed, FreeIsClean,
                    OneSocketPerClient, Bookkeeping, stackVars, socketVars, listVars

LEMMA HangupStep ==
  ASSUME ServerIInv, NEW c \in Conns, Hangup(c), UNCHANGED <<listVars, client>>
  PROVE  ServerIInv'
PROOF
<1>1. PICK s \in Sockets :
        sm[s] = "established" /\ sm' = [sm EXCEPT ![s] = "close_wait"]
  BY DEF Hangup
<1>2. Forget({c}) /\ UNCHANGED <<conn, rx, listVars, client>>
  BY DEF Hangup
<1>3. ServerTypeOK' /\ Bookkeeping'
  BY <1>1, <1>2, ForgetType DEF ServerIInv, ServerTypeOK, StackTypeOK, SocketState, Bookkeeping, listVars
<1>4. NoSocketLeak' /\ OneSocketPerClient' /\ FreeIsClean'
  BY <1>1, <1>2 DEF ServerIInv, ServerTypeOK, StackTypeOK, NoSocketLeak, Listed,
                    OneSocketPerClient, FreeIsClean, listVars
<1> QED
  BY <1>3, <1>4 DEF ServerIInv

\* Whoever holds the handle of a socket the stack closed, it listens again.
LEMMA CloseSocketStep ==
  ASSUME ServerIInv, NEW s \in Sockets, sm[s] \in {"established", "close_wait"},
         CloseSocket(s), UNCHANGED <<listVars, client>>,
         peer' \in [Conns -> PeerState],
         sending' \in [Conns -> Seq(Byte)],
         inbox' \in [Conns -> Seq(Byte)],
         \A c \in Conns : peer[c] \in {"open", "gone"} => peer'[c] \in {"open", "gone"}
  PROVE  ServerIInv'
PROOF
<1>1. /\ sm' = [sm EXCEPT ![s] = "listen"]
      /\ conn' = [conn EXCEPT ![s] = NoConn]
      /\ rx' = [rx EXCEPT ![s] = <<>>]
  BY DEF CloseSocket
<1>2. <<>> \in Seq(Byte)
  OBVIOUS
<1>3. ServerTypeOK'
  BY <1>1, <1>2 DEF ServerIInv, ServerTypeOK, StackTypeOK, SocketState, listVars
<1>4. NoSocketLeak'
  BY <1>1 DEF ServerIInv, ServerTypeOK, StackTypeOK, NoSocketLeak, Listed, listVars
<1>5. OneSocketPerClient' /\ FreeIsClean'
  BY <1>1 DEF ServerIInv, ServerTypeOK, StackTypeOK, OneSocketPerClient, FreeIsClean
<1>6. Bookkeeping'
  BY <1>1 DEF ServerIInv, ServerTypeOK, StackTypeOK, Bookkeeping, listVars
<1> QED
  BY <1>3, <1>4, <1>5, <1>6 DEF ServerIInv

LEMMA ResetStep ==
  ASSUME ServerIInv, NEW c \in Conns, Reset(c), UNCHANGED <<listVars, client>>
  PROVE  ServerIInv'
PROOF
<1>1. PICK s \in Sockets : sm[s] = "established" /\ CloseSocket(s)
  BY DEF Reset
<1>2. Forget({c}) /\ UNCHANGED <<listVars, client>>
  BY DEF Reset
<1> QED
  BY <1>1, <1>2, ForgetType, CloseSocketStep DEF ServerIInv, ServerTypeOK

LEMMA CloseWaitTimeoutStep ==
  ASSUME ServerIInv, NEW s \in Sockets, CloseWaitTimeout(s), UNCHANGED <<listVars, client>>
  PROVE  ServerIInv'
PROOF
<1>1. sm[s] = "close_wait" /\ CloseSocket(s) /\ UNCHANGED <<listVars, client, peerVars>>
  BY DEF CloseWaitTimeout
<1>2. /\ peer' \in [Conns -> PeerState]
      /\ sending' \in [Conns -> Seq(Byte)]
      /\ inbox' \in [Conns -> Seq(Byte)]
      /\ \A c \in Conns : peer[c] \in {"open", "gone"} => peer'[c] \in {"open", "gone"}
  BY <1>1 DEF ServerIInv, ServerTypeOK, StackTypeOK, peerVars
<1> QED
  BY <1>1, <1>2, CloseSocketStep

LEMMA ClosedStep ==
  ASSUME ServerIInv, NEW s \in Sockets, Closed(s), UNCHANGED <<listVars, client>>
  PROVE  ServerIInv'
PROOF
<1>1. /\ sm[s] = "closing"
      /\ sm' = [sm EXCEPT ![s] = "closed"]
      /\ conn' = [conn EXCEPT ![s] = NoConn]
      /\ Forget({conn[s]})
      /\ UNCHANGED <<rx, listVars, client>>
  BY DEF Closed
<1>2. call = "none" => client # s
  BY <1>1, ServerAssumption DEF ServerIInv, Bookkeeping
<1>3. ServerTypeOK'
  BY <1>1, ForgetType DEF ServerIInv, ServerTypeOK, StackTypeOK, SocketState, listVars
<1>4. NoSocketLeak' /\ OneSocketPerClient'
  BY <1>1 DEF ServerIInv, ServerTypeOK, StackTypeOK, NoSocketLeak, Listed, OneSocketPerClient, listVars
<1>5. FreeIsClean'
  BY <1>1 DEF ServerIInv, ServerTypeOK, StackTypeOK, FreeIsClean, Bookkeeping
<1>6. Bookkeeping'
  BY <1>1, <1>2, ForgetType DEF ServerIInv, ServerTypeOK, StackTypeOK, Bookkeeping, listVars
<1> QED
  BY <1>3, <1>4, <1>5, <1>6 DEF ServerIInv
-----------------------------------------------------------------------------
(* The invariant.                                                          *)

LEMMA ServerInitInv ==
  ServerInit => ServerIInv
PROOF
<1> SUFFICES ASSUME ServerInit PROVE ServerIInv
  OBVIOUS
<1> USE ServerAssumption
<1>1. PICK s \in Sockets :
        listening = s /\ sm = [t \in Sockets |-> IF t = s THEN "listen" ELSE "closed"]
  BY DEF ServerInit, StackInit
<1>2. <<>> \in Seq(Byte) /\ <<>> \in Seq(Sockets) /\ Len(<<>>) = 0 /\ 1 \in 1 .. 0 + 1
  BY EmptySeq
<1>3. ServerTypeOK
  <2>1. StackTypeOK
    BY <1>1, <1>2 DEF ServerInit, StackInit, StackTypeOK, SocketState, PeerState
  <2>2. psklNow \in 1 .. Len(skl) + 1
    BY <1>2 DEF ServerInit
  <2> QED BY <1>1, <1>2, <2>1, <2>2 DEF ServerInit, ServerTypeOK
<1>4. NoSocketLeak /\ FreeIsClean
  BY <1>1 DEF ServerInit, StackInit, NoSocketLeak, Listed, FreeIsClean
<1>5. OneSocketPerClient /\ Bookkeeping
  BY <1>1 DEF ServerInit, StackInit, OneSocketPerClient, Bookkeeping
<1> QED
  BY <1>3, <1>4, <1>5 DEF ServerIInv

\* The invariant holds across every step, whoever calls the server.
LEMMA ServerStepInv ==
  ASSUME ServerIInv, ServerStep
  PROVE  ServerIInv'
PROOF
<1>1. CASE Clients /\ UNCHANGED <<listVars, client>>
  BY <1>1, SYNsStep, ArriveStep, TakeReplyStep, HangupStep, ResetStep DEF Clients, Client
<1>2. CASE Stack /\ UNCHANGED <<listVars, client>>
  BY <1>2, CloseWaitTimeoutStep, ClosedStep DEF Stack
<1>3. CASE Available
  BY <1>3, AvailableStep
<1>4. CASE ReadByte
  BY <1>4, ReadByteStep
<1>5. CASE ClientStop
  BY <1>5, ClientStopStep
<1>6. CASE \E reply \in Seq(Byte) : ServerWrite(reply)
  BY <1>6, ServerWriteStep
<1>7. CASE UNCHANGED serverVars
  BY <1>7 DEF ServerIInv, ServerTypeOK, StackTypeOK, NoSocketLeak, Listed, FreeIsClean,
              OneSocketPerClient, Bookkeeping, serverVars, stackVars, socketVars, listVars, peerVars
<1> QED
  BY <1>1, <1>2, <1>3, <1>4, <1>5, <1>6, <1>7 DEF ServerStep, Network

LEMMA ServerNextIsStep ==
  [ServerNext]_serverVars => ServerStep
PROOF
<1>1. Said \subseteq Seq(Byte)
  BY ServerAssumption DEF Said
<1> QED BY <1>1 DEF ServerNext, Application, ServerStep

\* The server's invariant, for an application that calls it in any order.
LEMMA ServerInductive ==
  ServerSpec => []ServerIInv
PROOF
<1>1. ServerIInv /\ [ServerNext]_serverVars => ServerIInv'
  BY ServerStepInv, ServerNextIsStep
<1> QED
  BY <1>1, ServerInitInv, PTL DEF ServerSpec

\* Every socket of the table that listens or serves a client is the
\* listening handle or in the list that available() walks, so none of the
\* table's sockets is lost, in whatever order the application calls
\* available(), read(), write() and stop().
THEOREM SocketsNeverLeak == ServerSpec => []NoSocketLeak
PROOF
  BY ServerInductive, PTL DEF ServerIInv

\* A promoted connection leaves the handles sound.
LEMMA PromoteSound ==
  ASSUME ServerIInv, HandlesSound, NewClient,
         NEW next \in Sockets \cup {NoSocket}, TCPOpen(next), Promote(next)
  PROVE  HandlesSound'
PROOF
<1> USE ServerAssumption
<1>1. /\ listening' = next /\ skl' = <<listening>> \o skl
      /\ sm' = [s \in Sockets |-> IF s = next THEN "listen" ELSE sm[s]]
  BY DEF Promote
<1>2. listening \in Sockets /\ skl \in Seq(Sockets)
  BY DEF NewClient, ServerIInv, ServerTypeOK
<1>3. /\ listening \notin Listed
      /\ \A s \in Sockets : sm[s] \in {"closed", "closing"} => s # listening /\ s \notin Listed
      /\ \A i, j \in DOMAIN skl : skl[i] = skl[j] => i = j
  BY DEF HandlesSound
<1>4. /\ Listed' = {listening} \cup Listed
      /\ \A i, j \in DOMAIN skl' : skl'[i] = skl'[j] => i = j
  BY <1>1, <1>2, <1>3, PromotedList
<1>5. Listed \subseteq Sockets
  BY <1>2, ElementOfSeq, LenProperties DEF Listed
<1>6. next \notin {listening} \cup Listed
  <2>1. next \in Sockets => sm[next] = "closed"
    BY DEF TCPOpen, Lowest
  <2> QED BY <1>2, <1>3, <1>5, <2>1
<1> QED BY <1>1, <1>3, <1>4, <1>6 DEF HandlesSound

\* So does a dropped entry.
LEMMA DropSound ==
  ASSUME ServerIInv, HandlesSound, NEW n \in 1 .. Len(skl), Drop(n)
  PROVE  HandlesSound'
PROOF
<1>1. skl \in Seq(Sockets) /\ skl[n] \in Sockets /\ n \in DOMAIN skl
  BY ElementOfSeq, LenProperties DEF ServerIInv, ServerTypeOK
<1>2. skl' = Unlinked(n) /\ sm' = [sm EXCEPT ![skl[n]] = Released(@)] /\ listening' = listening
  BY DEF Drop
<1>3. /\ listening \notin Listed
      /\ \A s \in Sockets : sm[s] \in {"closed", "closing"} => s # listening /\ s \notin Listed
      /\ \A i, j \in DOMAIN skl : skl[i] = skl[j] => i = j
  BY DEF HandlesSound
<1>4. /\ Listed' \subseteq Listed /\ skl[n] \notin Listed'
      /\ \A i, j \in DOMAIN skl' : skl'[i] = skl'[j] => i = j
  BY <1>1, <1>2, <1>3, UnlinkedListed, UnlinkedDistinct
<1>5. skl[n] \in Listed
  BY <1>1 DEF Listed
<1>6. \A s \in Sockets : s # skl[n] => sm'[s] = sm[s]
  BY <1>1, <1>2 DEF ServerIInv, ServerTypeOK, StackTypeOK
<1>7. ASSUME NEW s \in Sockets, sm'[s] \in {"closed", "closing"}
      PROVE  s # listening' /\ s \notin Listed'
  BY <1>2, <1>3, <1>4, <1>5, <1>6, <1>7
<1> QED BY <1>2, <1>3, <1>4, <1>7 DEF HandlesSound

\* The network releases no socket that has a handle.
LEMMA NetworkSound ==
  ASSUME ServerIInv, HandlesSound, Network
  PROVE  HandlesSound'
PROOF
<1>1. listening' = listening /\ skl' = skl /\ StackTypeOK /\ (Clients \/ Stack)
  BY DEF Network, listVars, ServerIInv, ServerTypeOK
<1>2. Listed' = Listed
  BY <1>1 DEF Listed
<1>3. ASSUME NEW s \in Sockets, sm'[s] \in {"closed", "closing"}
      PROVE  s # listening' /\ s \notin Listed'
  <2>1. sm[s] \in {"closed", "closing"}
    BY <1>1, <1>3, NetworkKeepsOpen
  <2> QED BY <1>1, <1>2, <2>1 DEF HandlesSound
<1> QED BY <1>1, <1>2, <1>3 DEF HandlesSound

\* A step that leaves handles and sockets alone leaves them sound.
LEMMA SameSound ==
  ASSUME HandlesSound, UNCHANGED <<listening, skl, sm>>
  PROVE  HandlesSound'
PROOF
  BY DEF HandlesSound, Listed

\* Only client.stop() breaks what the server's handles stand for: no order
\* of calls, connections, resets and saved SYNs does, and none that happens
\* inside available(), where the stack is polled.
LEMMA StepSound ==
  ASSUME ServerIInv, HandlesSound, ServerStep
  PROVE  HandlesSound' \/ ClientStop
PROOF
<1>1. CASE Network
  BY <1>1, NetworkSound
<1>2. Len(skl) \in Nat /\ psklNow \in Nat \ {0}
  BY LenProperties DEF ServerIInv, ServerTypeOK
<1>3. ASSUME NEW first \in Nat \ {0}, WalkFrom(first) PROVE HandlesSound'
  <2>1. CASE \E n \in first .. Len(skl) : Drop(n)
    <3>1. PICK n \in first .. Len(skl) : Drop(n)
      BY <2>1
    <3>2. n \in 1 .. Len(skl)
      BY <1>2
    <3> QED BY <3>1, <3>2, DropSound
  <2>2. CASE UNCHANGED <<stackVars, listening, skl>>
    BY <2>2, SameSound DEF stackVars, socketVars
  <2> QED BY <1>3, <2>1, <2>2 DEF WalkFrom
<1>4. CASE Available
  <2>1. CASE NewClient /\ \E next \in Sockets \cup {NoSocket} : TCPOpen(next) /\ Promote(next)
    BY <2>1, PromoteSound
  <2>2. CASE WalkFrom(1) \/ WalkFrom(psklNow)
    BY <1>2, <1>3, <2>2
  <2>3. CASE Look
    <3>1. UNCHANGED <<stackVars, listening, skl>>
      BY <2>3 DEF Look, Return, LookFurther
    <3> QED BY <3>1, SameSound DEF stackVars, socketVars
  <2> QED BY <1>4, <2>1, <2>2, <2>3 DEF Available, ServiceSocketListen, WalkOn
<1>5. CASE ReadByte \/ \E reply \in Seq(Byte) : ServerWrite(reply)
  <2>1. UNCHANGED <<sm, listening, skl>>
    BY <1>5 DEF ReadByte, ServerWrite, socketVars, listVars
  <2> QED BY <2>1, SameSound
<1>6. CASE UNCHANGED serverVars
  BY <1>6, SameSound DEF serverVars, stackVars, socketVars, listVars
<1> QED BY <1>1, <1>4, <1>5, <1>6 DEF ServerStep

\* As long as no client.stop() leaves the entry of a socket it released, the
\* entries are distinct, the listening handle is none of them and no handle
\* stands for a socket that TCPOpen could hand out again.
THEOREM OnlyStopsBreakTheList == ServerSpec => OnlyStopBreaksTheList
PROOF
<1>1. ServerIInv /\ [ServerNext]_serverVars => [HandlesSound => HandlesSound' \/ ClientStop]_serverVars
  BY StepSound, ServerNextIsStep
<1> QED BY <1>1, ServerInductive, PTL DEF ServerSpec, OnlyStopBreaksTheList

\* A freed socket carries nothing over to its next connection.
THEOREM SocketsAreClean == ServerSpec => []FreeIsClean
PROOF
  BY ServerInductive, PTL DEF ServerIInv

\* No connection is ever served by two sockets: a client's bytes go to one
\* handle, whichever socket TCPOpen and TCPDiscard hand out.
THEOREM OneSocketServesAClient == ServerSpec => []OneSocketPerClient
PROOF
  BY ServerInductive, PTL DEF ServerIInv

\* Type correctness of the server's variables.
THEOREM ServerTypeCorrect == ServerSpec => []ServerTypeOK
PROOF
  BY ServerInductive, PTL DEF ServerIInv
=============================================================================
