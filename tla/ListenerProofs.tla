--------------------------- MODULE ListenerProofs ---------------------------
(***************************************************************************)
(* Theorems about Listener, for any threads, clients, sockets, numbers and  *)
(* sizes.                                                                   *)
(***************************************************************************)
EXTENDS Listener, SequenceTheorems, TLAPS

USE SizesAssumption, NamesAssumption, FragmentsAssumption

\* The part of TypeOK about the clients.
ClientTypes ==
  /\ stage \in [Clients -> {"new", "connected", "left", "aborted"}]
  /\ says \in [Clients -> FirstRecords]
  /\ sent \in [Clients -> 0..(RequestSize + MaxLater)]
  /\ unread \in [Clients -> Nat] /\ \A c \in Clients : unread[c] <= sent[c]
  /\ late \in [Clients -> BOOLEAN]
  /\ told \in [Clients -> {"nothing", "unknown_role", "cant_mpx_conn"}]
  /\ served \in [Clients -> BOOLEAN]

\* The places of a thread that has a descriptor.
Places == {"header", "body", "refuse", "params", "serving", "drain", "close"}

\* What a thread or the owner holds in the places where it is used.
Holds ==
  /\ owner = "created" => listener # None
  /\ \A t \in Threads : worker[t] = "calling" => fd[t] \in Fds
  /\ \A t \in Threads : worker[t] = "blocked" => inside[t] \in Sockets
  /\ \A t \in Threads : HasDescriptor(t) => fd[t] \in Fds /\ io[t] \in Clients

IInv == TypeOK /\ Holds /\ DescriptorsOwned

LEMMA InitIInv == Init => IInv
BY DEF Init, IInv, TypeOK, Holds, DescriptorsOwned, HasDescriptor, Fds, None, Free,
       RequestSize, FirstRecords

-----------------------------------------------------------------------------
(* What actions have in common.                                            *)

LEMMA SizeIsNat == RequestSize \in Nat /\ RequestSize + MaxLater \in Nat
BY DEF RequestSize

LEMMA PeerIsClient ==
  ASSUME IInv, NEW t \in Threads, HasDescriptor(t)
  PROVE  Peer(t) = io[t] /\ Peer(t) \in Clients /\ fd[t] \in Fds
BY DEF IInv, Holds, DescriptorsOwned, Peer

LEMMA ForgetTypes ==
  ASSUME ClientTypes, NEW clients, Forget(clients)
  PROVE  ClientTypes'
<1>1. /\ stage' \in [Clients -> {"new", "connected", "left", "aborted"}]
      /\ says' \in [Clients -> FirstRecords]
      /\ told' \in [Clients -> {"nothing", "unknown_role", "cant_mpx_conn"}]
  BY DEF ClientTypes, Forget, FirstRecords
<1>2. late' \in [Clients -> BOOLEAN] /\ served' \in [Clients -> BOOLEAN]
  BY Zenon DEF ClientTypes, Forget
<1>3. /\ sent' \in [Clients -> 0..(RequestSize + MaxLater)]
      /\ unread' \in [Clients -> Nat]
      /\ \A c \in Clients : unread'[c] <= sent'[c]
  BY SizeIsNat DEF ClientTypes, Forget
<1> QED BY <1>1, <1>2, <1>3 DEF ClientTypes

\* A thread that keeps its descriptor, whatever it does to clients.
LEMMA KeepsDescriptor ==
  ASSUME IInv, NEW t \in Threads, HasDescriptor(t),
         \/ UNCHANGED worker
         \/ \E place \in Places : worker' = [worker EXCEPT ![t] = place],
         UNCHANGED <<ownerVars, fd, inside, io, netVars>>, ClientTypes'
  PROVE  IInv'
<1>a. worker' \in [Threads -> {"idle", "calling", "blocked"} \cup Places]
  <2>1. worker \in [Threads -> {"idle", "calling", "blocked"} \cup Places]
    BY DEF IInv, TypeOK, Places
  <2> QED BY <2>1
<1>1. TypeOK'
  BY <1>a, Zenon DEF IInv, TypeOK, ClientTypes, Places, ownerVars, netVars
<1>2. \A u \in Threads : HasDescriptor(u)' <=> HasDescriptor(u)
  BY DEF IInv, TypeOK, HasDescriptor, Places
<1>3. Holds'
  BY <1>2 DEF IInv, TypeOK, Holds, HasDescriptor, Places, ownerVars
<1>4. DescriptorsOwned'
  BY <1>2 DEF IInv, DescriptorsOwned, Peer, ownerVars, netVars
<1> QED BY <1>1, <1>3, <1>4 DEF IInv

LEMMA IInvClientTypes == IInv => ClientTypes
BY DEF IInv, TypeOK, ClientTypes

LEMMA TakesTypes ==
  ASSUME IInv, NEW c \in Clients, NEW n \in Nat, n <= unread[c],
         unread' = [unread EXCEPT ![c] = n],
         UNCHANGED <<stage, says, sent, late, told>>, served' \in [Clients -> BOOLEAN]
  PROVE  ClientTypes'
BY IInvClientTypes, SizeIsNat DEF ClientTypes

-----------------------------------------------------------------------------
(* The actions of a thread that has a descriptor.                          *)

LEMMA ReceivesKeeps ==
  ASSUME IInv, NEW t \in Threads, HasDescriptor(t), NEW size \in Nat, NEW next \in Places,
         Receives(t, size, next),
         UNCHANGED <<ownerVars, fd, inside, io, netVars, stage, says, sent, late, told, served>>
  PROVE  IInv'
<1> DEFINE c == Peer(t)
           n == unread[c] - Least(size, unread[c])
<1>1. c \in Clients /\ unread[c] \in Nat
  BY PeerIsClient, IInvClientTypes DEF ClientTypes
<1>2. n \in Nat /\ n <= unread[c]
  BY <1>1 DEF Least
<1>3. unread' = [unread EXCEPT ![c] = n]
  BY DEF Receives
<1>4. ClientTypes'
  BY <1>1, <1>2, <1>3, TakesTypes, IInvClientTypes, Zenon DEF ClientTypes
<1>5. \E place \in Places : worker' = [worker EXCEPT ![t] = place]
  BY DEF Receives, GoesTo, Places
<1> QED BY <1>4, <1>5, KeepsDescriptor

LEMMA ReadHeaderIInv == ASSUME IInv, NEW t \in Threads, ReadHeader(t) PROVE IInv'
<1>1. HasDescriptor(t)
  BY DEF ReadHeader, HasDescriptor
<1>2. PICK next \in Places : Receives(t, HeaderSize, next)
  BY DEF ReadHeader, Places
<1> QED BY <1>1, <1>2, ReceivesKeeps DEF ReadHeader

LEMMA ReadBodyIInv == ASSUME IInv, NEW t \in Threads, ReadBody(t) PROVE IInv'
<1>1. HasDescriptor(t)
  BY DEF ReadBody, HasDescriptor
<1>2. PICK next \in Places : Receives(t, BodySize, next)
  BY DEF ReadBody, Places
<1> QED BY <1>1, <1>2, ReceivesKeeps DEF ReadBody

LEMMA ReadParamsIInv == ASSUME IInv, NEW t \in Threads, ReadParams(t) PROVE IInv'
<1>1. HasDescriptor(t)
  BY DEF ReadParams, HasDescriptor
<1>2. Peer(t) \in Clients /\ unread[Peer(t)] \in Nat
  BY <1>1, PeerIsClient, IInvClientTypes DEF ClientTypes
<1>3. served' \in [Clients -> BOOLEAN]
  BY <1>2, IInvClientTypes, Zenon DEF ClientTypes, ReadParams
<1>4. ClientTypes'
  <2>1. 0 \in Nat /\ 0 <= unread[Peer(t)] /\ unread' = [unread EXCEPT ![Peer(t)] = 0]
    BY <1>2 DEF ReadParams
  <2> QED BY <1>2, <1>3, <2>1, TakesTypes, Zenon DEF ReadParams
<1>5. UNCHANGED worker \/ \E place \in Places : worker' = [worker EXCEPT ![t] = place]
  BY DEF ReadParams, GoesTo, Places
<1> QED BY <1>1, <1>4, <1>5, KeepsDescriptor DEF ReadParams

LEMMA ServeReadsIInv == ASSUME IInv, NEW t \in Threads, ServeReads(t) PROVE IInv'
<1>1. HasDescriptor(t)
  BY DEF ServeReads, HasDescriptor
<1>2. Peer(t) \in Clients /\ unread[Peer(t)] \in Nat
  BY <1>1, PeerIsClient, IInvClientTypes DEF ClientTypes
<1>3. ClientTypes'
  BY <1>2, TakesTypes, IInvClientTypes DEF ServeReads, ClientTypes
<1> QED BY <1>1, <1>3, KeepsDescriptor DEF ServeReads, workerVars

LEMMA DrainIInv == ASSUME IInv, NEW t \in Threads, Drain(t) PROVE IInv'
<1>1. HasDescriptor(t)
  BY DEF Drain, HasDescriptor
<1>2. Peer(t) \in Clients /\ unread[Peer(t)] \in Nat
  BY <1>1, PeerIsClient, IInvClientTypes DEF ClientTypes
<1> DEFINE n == unread[Peer(t)] - Least(TrashSize, unread[Peer(t)])
<1>3. n \in Nat /\ n <= unread[Peer(t)]
  BY <1>2 DEF Least
<1>4. unread' = [unread EXCEPT ![Peer(t)] = n]
  BY DEF Drain
<1>5. ClientTypes'
  BY <1>2, <1>3, <1>4, TakesTypes, IInvClientTypes, Zenon DEF Drain, ClientTypes
<1> QED BY <1>1, <1>5, KeepsDescriptor DEF Drain, workerVars

LEMMA RefuseIInv == ASSUME IInv, NEW t \in Threads, Refuse(t) PROVE IInv'
<1>1. HasDescriptor(t)
  BY DEF Refuse, HasDescriptor
<1>2. told' \in [Clients -> {"nothing", "unknown_role", "cant_mpx_conn"}]
  BY <1>1, PeerIsClient, IInvClientTypes DEF Refuse, ClientTypes
<1>3. ClientTypes'
  BY <1>2, IInvClientTypes DEF Refuse, ClientTypes
<1> QED BY <1>1, <1>3, KeepsDescriptor DEF Refuse, GoesTo, Places

\* The steps that only go on.
LEMMA GoesOnIInv ==
  ASSUME IInv, NEW t \in Threads, ReadFails(t) \/ ServeEnds(t) \/ DrainEnds(t)
  PROVE  IInv'
<1>1. HasDescriptor(t)
  BY DEF ReadFails, ServeEnds, DrainEnds, HasDescriptor
<1>2. ClientTypes'
  BY IInvClientTypes DEF ReadFails, ServeEnds, DrainEnds, ClientTypes, clientVars
<1>3. \E place \in Places : worker' = [worker EXCEPT ![t] = place]
  BY DEF ReadFails, ServeEnds, DrainEnds, GoesTo, Places
<1> QED BY <1>1, <1>2, <1>3, KeepsDescriptor DEF ReadFails, ServeEnds, DrainEnds

-----------------------------------------------------------------------------
(* The owner, accept(), and the end of a descriptor.                       *)

SocketTypes ==
  /\ socket \in [Sockets -> {"none", "created", "listening"}]
  /\ queue \in [Sockets -> Seq(Clients)] /\ \A s \in Sockets : Len(queue[s]) <= Backlog

LEMMA IInvSocketTypes == IInv => SocketTypes
BY DEF IInv, TypeOK, SocketTypes

LEMMA LeavesTypes ==
  ASSUME SocketTypes, ClientTypes, NEW s \in Sockets, NEW left \in Seq(Clients),
         Len(left) <= Backlog, NEW referred \in BOOLEAN, Leaves(s, left, referred)
  PROVE  SocketTypes' /\ ClientTypes'
<1>1. CASE referred
  <2>1. queue' = [queue EXCEPT ![s] = left] /\ UNCHANGED <<socket, clientVars>>
    BY <1>1 DEF Leaves
  <2>2. SocketTypes'
    BY <2>1 DEF SocketTypes
  <2>3. ClientTypes'
    BY <2>1 DEF ClientTypes, clientVars
  <2> QED BY <2>2, <2>3
<1>2. CASE ~referred
  <2>1. /\ queue' = [queue EXCEPT ![s] = <<>>]
        /\ socket' = [socket EXCEPT ![s] = "none"]
        /\ Forget({left[i] : i \in DOMAIN left})
    BY <1>2 DEF Leaves
  <2>2. <<>> \in Seq(Clients) /\ Len(<<>>) = 0
    OBVIOUS
  <2>3. SocketTypes'
    BY <2>1, <2>2 DEF SocketTypes
  <2>4. ClientTypes'
    BY <2>1, ForgetTypes
  <2> QED BY <2>3, <2>4
<1> QED BY <1>1, <1>2

LEMMA ListenCreatesIInv == ASSUME IInv, ListenCreates PROVE IInv'
BY DEF IInv, TypeOK, Holds, DescriptorsOwned, HasDescriptor, Peer, Fds, None, Free,
       ListenCreates, IsFree, workerVars, clientVars

LEMMA ListenStartsIInv == ASSUME IInv, ListenStarts PROVE IInv'
BY DEF IInv, TypeOK, Holds, DescriptorsOwned, HasDescriptor, Peer, Fds, None, Free,
       ListenStarts, workerVars, clientVars

LEMMA ListenThrowsIInv == ASSUME IInv, ListenThrows PROVE IInv'
BY DEF IInv, TypeOK, Holds, DescriptorsOwned, HasDescriptor, Peer, Fds, None, Free,
       ListenThrows, workerVars, clientVars, netVars

LEMMA CloseListenerIInv == ASSUME IInv, CloseListener PROVE IInv'
<1> DEFINE s == table[listener]
<1>1. listener \in Fds /\ s \in Sockets
  BY DEF IInv, TypeOK, DescriptorsOwned, CloseListener
<1>2. queue[s] \in Seq(Clients) /\ Len(queue[s]) <= Backlog
  BY <1>1, IInvSocketTypes DEF SocketTypes
<1>3. IsHeld(s, Threads) \in BOOLEAN /\ Leaves(s, queue[s], IsHeld(s, Threads))
  BY DEF CloseListener, IsHeld
<1>4. SocketTypes' /\ ClientTypes'
  BY <1>1, <1>2, <1>3, LeavesTypes, IInvSocketTypes, IInvClientTypes, Zenon
<1>5. /\ table' = [table EXCEPT ![listener] = Free]
      /\ listener' = None /\ UNCHANGED <<owner, workerVars>> /\ owner = "out"
  BY DEF CloseListener
<1>6. TypeOK'
  BY <1>1, <1>4, <1>5 DEF IInv, TypeOK, SocketTypes, ClientTypes, workerVars
<1>7. Holds'
  BY <1>5 DEF IInv, Holds, HasDescriptor, workerVars
<1>8. DescriptorsOwned'
  BY <1>1, <1>5 DEF IInv, TypeOK, Holds, DescriptorsOwned, HasDescriptor, Peer,
                    workerVars, None, Fds
<1> QED BY <1>6, <1>7, <1>8 DEF IInv

LEMMA AcceptCalledIInv == ASSUME IInv, NEW t \in Threads, AcceptCalled(t) PROVE IInv'
BY DEF IInv, TypeOK, Holds, DescriptorsOwned, HasDescriptor, Peer, None,
       AcceptCalled, GoesTo, ownerVars, netVars, clientVars

LEMMA AcceptBlocksIInv == ASSUME IInv, NEW t \in Threads, AcceptBlocks(t) PROVE IInv'
BY DEF IInv, TypeOK, Holds, DescriptorsOwned, HasDescriptor, Peer, None,
       AcceptBlocks, GoesTo, ownerVars, netVars, clientVars

LEMMA AcceptFailsIInv == ASSUME IInv, NEW t \in Threads, AcceptFails(t) PROVE IInv'
<1>1. SocketTypes' /\ ClientTypes'
  <2>1. CASE UNCHANGED <<socket, queue, clientVars>>
    BY <2>1, IInvSocketTypes, IInvClientTypes DEF SocketTypes, ClientTypes, clientVars
  <2>2. CASE worker[t] = "blocked" /\
             Leaves(inside[t], queue[inside[t]],
                    IsOpen(inside[t]) \/ IsHeld(inside[t], Threads \ {t}))
    <3> DEFINE s == inside[t]
               referred == IsOpen(s) \/ IsHeld(s, Threads \ {t})
    <3>1. s \in Sockets /\ queue[s] \in Seq(Clients) /\ Len(queue[s]) <= Backlog
      BY <2>2, IInvSocketTypes DEF IInv, Holds, SocketTypes
    <3>2. referred \in BOOLEAN /\ Leaves(s, queue[s], referred)
      BY <2>2
    <3> HIDE DEF s, referred
    <3> QED BY <3>1, <3>2, LeavesTypes, IInvSocketTypes, IInvClientTypes, Zenon
  <2> QED BY <2>1, <2>2 DEF AcceptFails
<1>2. /\ worker[t] \in {"calling", "blocked"}
      /\ worker' = [worker EXCEPT ![t] = "idle"] /\ fd' = [fd EXCEPT ![t] = None]
      /\ inside' = [inside EXCEPT ![t] = None] /\ UNCHANGED <<ownerVars, io, table>>
  BY DEF AcceptFails, GoesTo
<1>3. TypeOK'
  BY <1>1, <1>2 DEF IInv, TypeOK, SocketTypes, ClientTypes, ownerVars
<1>4. Holds' /\ DescriptorsOwned'
  BY <1>2 DEF IInv, TypeOK, Holds, DescriptorsOwned, HasDescriptor, Peer, ownerVars
<1> QED BY <1>3, <1>4 DEF IInv

LEMMA AcceptsIInv == ASSUME IInv, NEW t \in Threads, Accepts(t) PROVE IInv'
<1> DEFINE s == inside[t]
           referred == IsOpen(s) \/ IsHeld(s, Threads \ {t})
<1>1. s \in Sockets /\ queue[s] \in Seq(Clients) /\ queue[s] # <<>>
      /\ Len(queue[s]) <= Backlog
  BY IInvSocketTypes DEF IInv, Holds, SocketTypes, Accepts
<1>2. /\ Head(queue[s]) \in Clients /\ Tail(queue[s]) \in Seq(Clients)
      /\ Len(Tail(queue[s])) <= Backlog
  BY <1>1
<1>3. referred \in BOOLEAN /\ Leaves(s, Tail(queue[s]), referred)
  BY DEF Accepts
<1>4. PICK f \in Fds : /\ IsFree(f)
                       /\ table' = [table EXCEPT ![f] = Head(queue[s])]
                       /\ fd' = [fd EXCEPT ![t] = f]
  BY DEF Accepts
<1>5. /\ worker[t] = "blocked" /\ worker' = [worker EXCEPT ![t] = "header"]
      /\ inside' = [inside EXCEPT ![t] = None]
      /\ io' = [io EXCEPT ![t] = Head(queue[s])] /\ UNCHANGED ownerVars
  BY DEF Accepts, GoesTo
<1> HIDE DEF s, referred
<1>6. SocketTypes' /\ ClientTypes'
  BY <1>1, <1>2, <1>3, LeavesTypes, IInvSocketTypes, IInvClientTypes, Zenon
<1>7. TypeOK'
  BY <1>2, <1>4, <1>5, <1>6 DEF IInv, TypeOK, SocketTypes, ClientTypes, ownerVars
<1>8. Holds'
  BY <1>2, <1>4, <1>5 DEF IInv, TypeOK, Holds, HasDescriptor, ownerVars
<1>9. DescriptorsOwned'
  <2>1. PICK c \in Clients : c = Head(queue[s])
    BY <1>2
  <2>2. /\ table' = [table EXCEPT ![f] = c] /\ fd' = [fd EXCEPT ![t] = f]
        /\ io' = [io EXCEPT ![t] = c]
    BY <1>4, <1>5, <2>1
  <2>3. \A u \in Threads : IF u = t THEN fd'[u] = f /\ io'[u] = c /\ HasDescriptor(u)'
                           ELSE /\ fd'[u] = fd[u] /\ io'[u] = io[u]
                                /\ HasDescriptor(u)' <=> HasDescriptor(u)
    BY <1>5, <2>2 DEF IInv, TypeOK, HasDescriptor
  <2>4. \A g \in Fds : table'[g] = IF g = f THEN c ELSE table[g]
    BY <2>2 DEF IInv, TypeOK
  <2>5. table[f] = Free /\ ~HasDescriptor(t) /\ UNCHANGED listener
    BY <1>4, <1>5 DEF IsFree, HasDescriptor, ownerVars
  <2>6. \A u \in Threads : HasDescriptor(u) =>
          fd[u] \in Fds /\ io[u] \in Clients /\ table[fd[u]] = io[u]
    BY DEF IInv, Holds, DescriptorsOwned, Peer
  <2>7. \A u \in Threads : HasDescriptor(u) => u # t /\ fd[u] # f
    BY <2>5, <2>6
  <2> QED BY <2>3, <2>4, <2>5, <2>6, <2>7 DEF IInv, DescriptorsOwned, Peer
<1> QED BY <1>7, <1>8, <1>9 DEF IInv

LEMMA CloseSocketIInv == ASSUME IInv, NEW t \in Threads, CloseSocket(t) PROVE IInv'
<1>1. HasDescriptor(t)
  BY DEF CloseSocket, HasDescriptor
<1>2. ClientTypes'
  BY IInvClientTypes, ForgetTypes DEF CloseSocket, Closes
<1>3. /\ table' = [table EXCEPT ![fd[t]] = Free]
      /\ fd' = [fd EXCEPT ![t] = None] /\ io' = [io EXCEPT ![t] = None]
      /\ worker' = [worker EXCEPT ![t] = "idle"]
      /\ UNCHANGED <<ownerVars, inside, socket, queue>>
  BY DEF CloseSocket, Closes, GoesTo
<1>4. TypeOK'
  BY <1>2, <1>3 DEF IInv, TypeOK, ClientTypes, ownerVars
<1>5. Holds'
  BY <1>3 DEF IInv, TypeOK, Holds, HasDescriptor, ownerVars
<1>6. DescriptorsOwned'
  BY <1>1, <1>3
     DEF IInv, TypeOK, Holds, DescriptorsOwned, HasDescriptor, Peer, ownerVars
<1> QED BY <1>4, <1>5, <1>6 DEF IInv

-----------------------------------------------------------------------------
(* The clients.                                                            *)

LEMMA ConnectsTypes ==
  ASSUME IInv, NEW c \in Clients, Connects(c)
  PROVE  SocketTypes' /\ ClientTypes'
<1>1. PICK s \in Sockets : /\ Len(queue[s]) < Backlog
                           /\ queue' = [queue EXCEPT ![s] = Append(@, c)]
  BY DEF Connects
<1>2. /\ Append(queue[s], c) \in Seq(Clients)
      /\ Len(Append(queue[s], c)) = Len(queue[s]) + 1 /\ Len(queue[s]) \in Nat
  BY IInvSocketTypes DEF SocketTypes
<1>3. SocketTypes'
  BY <1>1, <1>2, IInvSocketTypes DEF SocketTypes, Connects
<1>4. ClientTypes'
  BY IInvClientTypes DEF ClientTypes, Connects
<1> QED BY <1>3, <1>4

LEMMA SendsTypes == ASSUME IInv, NEW c \in Clients, Sends(c) PROVE ClientTypes'
<1>1. PICK n \in 1..(RequestSize + MaxLater - sent[c]) :
        /\ sent' = [sent EXCEPT ![c] = @ + n]
        /\ unread' = [unread EXCEPT ![c] = @ + n]
  BY DEF Sends
<1>2. PICK r \in FirstRecords : says' = [says EXCEPT ![c] = r]
  BY DEF Sends
<1>3. UNCHANGED <<stage, told, served>> /\ late' = [late EXCEPT ![c] = @ \/ IsShutDown(c)]
  BY DEF Sends
<1>4. late' \in [Clients -> BOOLEAN]
  BY <1>3, IInvClientTypes, Zenon DEF ClientTypes, IsShutDown
<1>5. /\ sent' \in [Clients -> 0..(RequestSize + MaxLater)]
      /\ unread' \in [Clients -> Nat] /\ \A d \in Clients : unread'[d] <= sent'[d]
  BY <1>1, IInvClientTypes, SizeIsNat DEF ClientTypes
<1>6. says' \in [Clients -> FirstRecords]
  BY <1>2, IInvClientTypes, Zenon DEF ClientTypes
<1> QED BY <1>3, <1>4, <1>5, <1>6, IInvClientTypes DEF ClientTypes

LEMMA GoesTypes == ASSUME IInv, NEW c \in Clients, Ends(c) \/ Aborts(c) PROVE ClientTypes'
<1>1. stage' \in [Clients -> {"new", "connected", "left", "aborted"}]
  BY IInvClientTypes DEF ClientTypes, Ends, Aborts
<1>2. /\ sent' \in [Clients -> 0..(RequestSize + MaxLater)]
      /\ unread' \in [Clients -> Nat] /\ \A d \in Clients : unread'[d] <= sent'[d]
  BY IInvClientTypes, SizeIsNat DEF ClientTypes, Ends, Aborts, Taken
<1>3. UNCHANGED <<says, late, told, served>>
  BY DEF Ends, Aborts
<1> QED BY <1>1, <1>2, <1>3, IInvClientTypes DEF ClientTypes

LEMMA ClientIInv == ASSUME IInv, NEW c \in Clients, Client(c) PROVE IInv'
<1>1. UNCHANGED <<ownerVars, workerVars, table, socket>>
  BY DEF Client, Connects, Sends, Ends, Aborts, netVars
<1>2. SocketTypes'
  BY ConnectsTypes, IInvSocketTypes DEF SocketTypes, Client, Sends, Ends, Aborts, netVars
<1>3. ClientTypes'
  BY ConnectsTypes, SendsTypes, GoesTypes DEF Client
<1>4. TypeOK'
  BY <1>1, <1>2, <1>3 DEF IInv, TypeOK, SocketTypes, ClientTypes, ownerVars, workerVars
<1>5. Holds' /\ DescriptorsOwned'
  BY <1>1 DEF IInv, Holds, DescriptorsOwned, HasDescriptor, Peer, ownerVars, workerVars
<1> QED BY <1>4, <1>5 DEF IInv

-----------------------------------------------------------------------------
LEMMA StepIInv == IInv /\ [Next]_vars => IInv'
<1> SUFFICES ASSUME IInv, [Next]_vars PROVE IInv'
  OBVIOUS
<1>1. CASE Owner
  BY <1>1, ListenCreatesIInv, ListenStartsIInv, ListenThrowsIInv, CloseListenerIInv DEF Owner
<1>2. ASSUME NEW t \in Threads, Worker(t) PROVE IInv'
  BY <1>2, AcceptCalledIInv, AcceptBlocksIInv, AcceptFailsIInv, AcceptsIInv, ReadHeaderIInv,
     ReadBodyIInv, ReadParamsIInv, RefuseIInv, ServeReadsIInv, DrainIInv, GoesOnIInv,
     CloseSocketIInv DEF Worker
<1>3. ASSUME NEW c \in Clients, Client(c) PROVE IInv'
  BY <1>3, ClientIInv
<1>4. CASE UNCHANGED vars
  BY <1>4 DEF IInv, TypeOK, Holds, DescriptorsOwned, HasDescriptor, Peer, vars, ownerVars,
              workerVars, netVars, clientVars
<1> QED BY <1>1, <1>2, <1>3, <1>4 DEF Next

LEMMA SpecIInv == Spec => []IInv
BY InitIInv, StepIInv, PTL DEF Spec

\* Whatever the threads and the clients do, in whatever order, every variable keeps its
\* type: no queue is longer than the backlog, and nothing is read that was not sent.
THEOREM TypeCorrect == Spec => []TypeOK
BY SpecIInv, PTL DEF IInv

\* Any number of threads share a listener that is closed and opened under them: behind
\* every descriptor number is the connection of the one thread that has it, none is
\* closed twice or left open, and the listener's is its own.
THEOREM DescriptorsHaveOneOwner == Spec => []DescriptorsOwned
BY SpecIInv, PTL DEF IInv

-----------------------------------------------------------------------------
(***************************************************************************)
(* What Listener does for its clients: who is served and told why not, and  *)
(* that no answer is lost to a reset.                                       *)
(***************************************************************************)

\* Client c waits at place i of the queue of socket s.
Waits(c, s, i) == i \in 1..Len(queue[s]) /\ queue[s][i] = c

\* A connection is at one place: in one queue, once, or with one thread.
WaitsOnce ==
  \A c \in Clients : \A s, r \in Sockets : \A i, j \in Nat :
    Waits(c, s, i) /\ Waits(c, r, j) => s = r /\ i = j

ServedOnce ==
  \A t, u \in Threads : HasDescriptor(t) /\ HasDescriptor(u) /\ io[t] = io[u] => t = u

Elsewhere(c) == \A s \in Sockets : \A i \in Nat : ~Waits(c, s, i)

OnePlace ==
  /\ WaitsOnce /\ ServedOnce
  /\ \A t \in Threads : HasDescriptor(t) => stage[io[t]] # "new" /\ Elsewhere(io[t])
  /\ \A c \in Clients : stage[c] = "new" => Elsewhere(c)

\* What a thread knows of its client's first record, which cannot change any more.
Read(t) ==
  /\ worker[t] = "body" => says[io[t]] \in {"request", "bad_role"} /\ Taken(io[t]) > 0
  /\ worker[t] = "params" => says[io[t]] = "request" /\ Taken(io[t]) > 0

\* A thread that is about to close has drained what was sent before.
Drained(t) == worker[t] = "close" /\ unread[io[t]] > 0 => late[io[t]]

ServiceInv ==
  /\ OnePlace /\ ServedHasBegun
  /\ \A t \in Threads : Read(t) /\ Drained(t)

\* The status a complete first record calls for.
Due(c) == CASE says[c] = "no_begin" -> "cant_mpx_conn"
            [] says[c] = "bad_role" -> "unknown_role"
            [] OTHER                -> "nothing"

Unanswered(c) == told[c] = "nothing" /\ ~served[c]

\* Client c has been given what it is due, or cannot be.
Settled(c) ==
  \/ stage[c] = "aborted" \/ stage[c] = "left"
  \/ sent[c] > 0 /\ told[c] = Due(c) /\ (says[c] = "request" => served[c])

\* How far a thread is with a client that sends its request in one piece.
Answering(t) ==
  LET c == io[t] IN
  /\ worker[t] = "header" => Taken(c) = 0 /\ Unanswered(c)
  /\ worker[t] = "body" => Taken(c) = HeaderSize /\ Unanswered(c)
  /\ worker[t] = "params" => Taken(c) = HeaderSize + BodySize /\ Unanswered(c)
  /\ worker[t] = "refuse" => /\ says[c] \in {"no_begin", "bad_role"}
                             /\ Taken(c) > 0 /\ Unanswered(c)
  /\ worker[t] = "serving" => /\ says[c] = "request" /\ told[c] = "nothing"
                              /\ Taken(c) > 0 /\ served[c]
  /\ worker[t] \in {"drain", "close"} => Settled(c)

AnswerInv ==
  /\ \A c \in Clients :
       /\ sent[c] = 0 \/ sent[c] >= RequestSize \/ stage[c] = "aborted"
       /\ stage[c] = "left" => sent[c] < RequestSize
       /\ stage[c] = "aborted" => unread[c] = 0
       /\ stage[c] = "new" => Taken(c) = 0 /\ Unanswered(c)
       /\ \A s \in Sockets : \A i \in Nat : Waits(c, s, i) => Taken(c) = 0 /\ Unanswered(c)
  /\ \A t \in Threads : Answering(t)

-----------------------------------------------------------------------------
(* One place.                                                              *)

\* Queues, stages and threads' clients stay; a thread with a descriptor keeps it or
\* not, the others do not get one.
LEMMA PlaceStays ==
  ASSUME OnePlace, UNCHANGED <<queue, io, stage>>,
         \A t \in Threads : HasDescriptor(t)' => HasDescriptor(t)
  PROVE  OnePlace'
<1>1. \A c, s, i : Waits(c, s, i)' <=> Waits(c, s, i)
  BY DEF Waits
<1>2. \A c : Elsewhere(c)' <=> Elsewhere(c)
  BY <1>1 DEF Elsewhere
<1>3. WaitsOnce' /\ ServedOnce'
  BY <1>1 DEF OnePlace, WaitsOnce, ServedOnce
<1> QED BY <1>2, <1>3 DEF OnePlace

\* Socket s is left with some of the clients that wait at it.
LEMMA PlaceLeaves ==
  ASSUME IInv, OnePlace, NEW s \in Sockets, NEW referred \in BOOLEAN,
         Leaves(s, queue[s], referred), UNCHANGED io,
         \A t \in Threads : HasDescriptor(t)' <=> HasDescriptor(t)
  PROVE  OnePlace'
<1>1. CASE referred
  <2>1. UNCHANGED <<queue, stage>>
    BY <1>1, IInvSocketTypes DEF Leaves, SocketTypes, clientVars
  <2> QED BY <2>1, PlaceStays
<1>2. CASE ~referred
  <2>1. /\ queue' = [queue EXCEPT ![s] = <<>>]
        /\ Forget({queue[s][i] : i \in DOMAIN queue[s]})
    BY <1>2 DEF Leaves
  <2>2. queue \in [Sockets -> Seq(Clients)]
    BY IInvSocketTypes DEF SocketTypes
  <2>3. \A c : \A r \in Sockets : \A i \in Nat : Waits(c, r, i)' <=> Waits(c, r, i) /\ r # s
    BY <2>1, <2>2 DEF Waits
  <2>4. \A c : Elsewhere(c) => Elsewhere(c)'
    BY <2>3 DEF Elsewhere
  <2>5. WaitsOnce' /\ ServedOnce'
    BY <2>3 DEF OnePlace, WaitsOnce, ServedOnce
  <2>6. DOMAIN queue[s] = 1..Len(queue[s]) /\ Len(queue[s]) \in Nat
    BY <2>2
  <2>7. ASSUME NEW c \in Clients, stage'[c] = "new" PROVE Elsewhere(c)'
    <3>1. CASE c \in {queue[s][i] : i \in DOMAIN queue[s]}
      <4>1. PICK i \in Nat : Waits(c, s, i)
        BY <2>6, <3>1 DEF Waits
      <4>2. \A r \in Sockets : \A j \in Nat : Waits(c, r, j) => r = s
        BY <4>1 DEF OnePlace, WaitsOnce
      <4> QED BY <2>3, <4>2 DEF Elsewhere
    <3>2. CASE c \notin {queue[s][i] : i \in DOMAIN queue[s]}
      <4>1. stage[c] = "new"
        BY <2>1, <2>7, <3>2 DEF Forget
      <4> QED BY <2>4, <4>1 DEF OnePlace
    <3> QED BY <3>1, <3>2
  <2>8. ASSUME NEW t \in Threads, HasDescriptor(t) PROVE stage'[io[t]] # "new"
    <3>1. io[t] \in Clients
      BY <2>8 DEF IInv, Holds
    <3>2. io[t] \notin {queue[s][i] : i \in DOMAIN queue[s]}
      BY <2>6, <2>8 DEF OnePlace, Elsewhere, Waits
    <3> QED BY <2>1, <2>8, <3>1, <3>2 DEF Forget, OnePlace
  <2> QED BY <2>4, <2>5, <2>7, <2>8 DEF OnePlace
<1> QED BY <1>1, <1>2

\* The client a thread accepts is the first that waits; it waits no longer.
LEMMA PlaceAccepts ==
  ASSUME IInv, OnePlace, NEW t \in Threads, Accepts(t)
  PROVE  OnePlace'
<1>1. PICK s \in Sockets :
        /\ s = inside[t] /\ queue \in [Sockets -> Seq(Clients)] /\ queue[s] # <<>>
        /\ queue[s] \in Seq(Clients) /\ Len(queue[s]) \in Nat \ {0}
  BY IInvSocketTypes DEF IInv, Holds, SocketTypes, Accepts
<1>2. PICK c \in Clients : Waits(c, s, 1) /\ c = queue[s][1] /\ c = Head(queue[s])
  BY <1>1 DEF Waits
<1> DEFINE referred == IsOpen(s) \/ IsHeld(s, Threads \ {t})
<1>3. /\ Tail(queue[s]) \in Seq(Clients) /\ Len(Tail(queue[s])) = Len(queue[s]) - 1
      /\ \A i \in 1..Len(Tail(queue[s])) : Tail(queue[s])[i] = queue[s][i + 1]
  BY <1>1
<1>4. /\ worker[t] = "blocked" /\ worker' = [worker EXCEPT ![t] = "header"]
      /\ io' = [io EXCEPT ![t] = c]
      /\ Leaves(s, Tail(queue[s]), referred)
  BY <1>1, <1>2 DEF Accepts, GoesTo
<1>5. \A u \in Threads : HasDescriptor(u)' <=> HasDescriptor(u) \/ u = t
  BY <1>4 DEF IInv, TypeOK, HasDescriptor
<1>6. \A u \in Threads : io'[u] = IF u = t THEN c ELSE io[u]
  BY <1>4 DEF IInv, TypeOK
<1>7. stage[c] # "new"
  BY <1>2, <1>1 DEF OnePlace, Elsewhere
<1> HIDE DEF referred
<1>8. ServedOnce'
  <2>1. \A u \in Threads : HasDescriptor(u) => io[u] # c
    BY <1>1, <1>2 DEF OnePlace, Elsewhere
  <2> QED BY <1>5, <1>6, <2>1 DEF OnePlace, ServedOnce
<1>9. CASE referred
  <2>1. queue' = [queue EXCEPT ![s] = Tail(queue[s])] /\ UNCHANGED stage
    BY <1>4, <1>9 DEF Leaves, clientVars
  <2>2. \A d, r, i : Waits(d, r, i)' /\ r \in Sockets /\ i \in Nat
          => Waits(d, r, IF r = s THEN i + 1 ELSE i)
    BY <1>1, <1>3, <2>1 DEF Waits
  <2>3. \A d : Elsewhere(d) => Elsewhere(d)'
    <3>1. SUFFICES ASSUME NEW d, Elsewhere(d), NEW r \in Sockets, NEW i \in Nat,
                          Waits(d, r, i)'
                   PROVE  FALSE
      BY DEF Elsewhere
    <3>2. Waits(d, r, IF r = s THEN i + 1 ELSE i) /\ (IF r = s THEN i + 1 ELSE i) \in Nat
      BY <2>2, <3>1
    <3> QED BY <3>1, <3>2 DEF Elsewhere
  <2>4. WaitsOnce'
    <3>1. SUFFICES ASSUME NEW d \in Clients, NEW r \in Sockets, NEW q \in Sockets,
                          NEW i \in Nat, NEW j \in Nat, Waits(d, r, i)', Waits(d, q, j)'
                   PROVE  r = q /\ i = j
      BY DEF WaitsOnce
    <3>2. /\ Waits(d, r, IF r = s THEN i + 1 ELSE i) /\ (IF r = s THEN i + 1 ELSE i) \in Nat
          /\ Waits(d, q, IF q = s THEN j + 1 ELSE j) /\ (IF q = s THEN j + 1 ELSE j) \in Nat
      BY <2>2, <3>1
    <3>3. r = q /\ (IF r = s THEN i + 1 ELSE i) = (IF q = s THEN j + 1 ELSE j)
      BY <3>2 DEF OnePlace, WaitsOnce
    <3> QED BY <3>3
  <2>5. Elsewhere(c)'
    <3>1. SUFFICES ASSUME NEW r \in Sockets, NEW i \in Nat, Waits(c, r, i)' PROVE FALSE
      BY DEF Elsewhere
    <3>2. Waits(c, r, IF r = s THEN i + 1 ELSE i) /\ (IF r = s THEN i + 1 ELSE i) \in Nat
      BY <2>2, <3>1
    <3>3. r = s /\ (IF r = s THEN i + 1 ELSE i) = 1
      BY <1>1, <1>2, <3>2 DEF OnePlace, WaitsOnce
    <3>4. i = 0
      BY <3>3
    <3> QED BY <3>1, <3>4 DEF Waits
  <2> QED BY <1>5, <1>6, <1>7, <1>8, <2>1, <2>3, <2>4, <2>5 DEF OnePlace
<1>10. CASE ~referred
  <2> DEFINE gone == {Tail(queue[s])[i] : i \in DOMAIN Tail(queue[s])}
  <2>1. queue' = [queue EXCEPT ![s] = <<>>] /\ Forget(gone)
    BY <1>4, <1>10 DEF Leaves
  <2>2. \A d \in gone : \E i \in Nat : i # 1 /\ Waits(d, s, i)
    <3>1. SUFFICES ASSUME NEW i \in DOMAIN Tail(queue[s])
                   PROVE  \E j \in Nat : j # 1 /\ Waits(Tail(queue[s])[i], s, j)
      OBVIOUS
    <3>2. i \in 1..Len(Tail(queue[s]))
      BY <1>3
    <3>3. i + 1 \in Nat /\ i + 1 # 1 /\ Waits(Tail(queue[s])[i], s, i + 1)
      BY <1>1, <1>3, <3>2 DEF Waits
    <3> QED BY <3>3
  <2> HIDE DEF gone
  <2>3. c \notin gone
    BY <1>1, <1>2, <2>2 DEF OnePlace, WaitsOnce
  <2>4. \A d : \A r \in Sockets : \A i \in Nat : Waits(d, r, i)' <=> Waits(d, r, i) /\ r # s
    BY <1>1, <2>1 DEF Waits
  <2>5. \A d : Elsewhere(d) => Elsewhere(d)'
    BY <2>4 DEF Elsewhere
  <2>6. WaitsOnce'
    BY <2>4 DEF OnePlace, WaitsOnce
  <2>7. \A d \in Clients : (\E i \in Nat : Waits(d, s, i)) => Elsewhere(d)'
    BY <1>1, <2>4 DEF OnePlace, WaitsOnce, Elsewhere
  <2>8. \A d \in Clients : stage'[d] = "new" => Elsewhere(d)'
    BY <2>1, <2>2, <2>5, <2>7 DEF OnePlace, Forget
  <2>9. Elsewhere(c)' /\ stage'[c] # "new"
    BY <1>2, <1>7, <2>1, <2>3, <2>7 DEF Forget
  <2>10. \A u \in Threads : HasDescriptor(u) => stage'[io[u]] # "new"
    <3>1. \A u \in Threads : HasDescriptor(u) => io[u] \in Clients /\ io[u] \notin gone
      BY <1>1, <2>2 DEF IInv, Holds, OnePlace, Elsewhere
    <3> QED BY <2>1, <3>1 DEF Forget, OnePlace
  <2> QED BY <1>5, <1>6, <1>8, <2>5, <2>6, <2>8, <2>9, <2>10 DEF OnePlace
<1> QED BY <1>9, <1>10

LEMMA PlaceCloses ==
  ASSUME IInv, OnePlace, NEW t \in Threads, CloseSocket(t)
  PROVE  OnePlace'
<1> DEFINE c == io[t]
<1>1. HasDescriptor(t)
  BY DEF CloseSocket, HasDescriptor
<1>2. c \in Clients /\ table[fd[t]] = c
  BY <1>1, PeerIsClient DEF Peer
<1>3. /\ Forget({c}) /\ UNCHANGED queue /\ worker' = [worker EXCEPT ![t] = "idle"]
      /\ io' = [io EXCEPT ![t] = None]
  BY <1>2 DEF CloseSocket, Closes, GoesTo
<1>4. \A u \in Threads : HasDescriptor(u)' <=> HasDescriptor(u) /\ u # t
  BY <1>3 DEF IInv, TypeOK, HasDescriptor
<1>5. \A u \in Threads : u # t => io'[u] = io[u]
  BY <1>3 DEF IInv, TypeOK
<1>6. \A d, s, i : Waits(d, s, i)' <=> Waits(d, s, i)
  BY <1>3 DEF Waits
<1>7. \A d : Elsewhere(d)' <=> Elsewhere(d)
  BY <1>6 DEF Elsewhere
<1>8. WaitsOnce' /\ ServedOnce'
  BY <1>4, <1>5, <1>6 DEF OnePlace, WaitsOnce, ServedOnce
<1>9. Elsewhere(c) /\ \A u \in Threads : HasDescriptor(u) /\ u # t => io[u] # c
  BY <1>1 DEF OnePlace, ServedOnce
<1>10. \A d \in Clients : stage'[d] = IF d = c THEN "new" ELSE stage[d]
  BY <1>3 DEF Forget
<1>11. \A u \in Threads : HasDescriptor(u) => io[u] \in Clients
  BY DEF IInv, Holds
<1> QED BY <1>2, <1>4, <1>5, <1>7, <1>8, <1>9, <1>10, <1>11 DEF OnePlace

LEMMA PlaceConnects ==
  ASSUME IInv, OnePlace, NEW c \in Clients, Connects(c)
  PROVE  OnePlace'
<1>1. PICK s \in Sockets : queue' = [queue EXCEPT ![s] = Append(@, c)]
  BY DEF Connects
<1>2. /\ stage[c] = "new" /\ stage' = [stage EXCEPT ![c] = "connected"]
      /\ UNCHANGED workerVars
  BY DEF Connects
<1>3. queue \in [Sockets -> Seq(Clients)] /\ stage \in [Clients -> {"new", "connected", "left", "aborted"}]
  BY IInvSocketTypes, IInvClientTypes DEF SocketTypes, ClientTypes
<1>4. \A d : \A r \in Sockets : \A i \in Nat :
        Waits(d, r, i)' <=> \/ Waits(d, r, i)
                            \/ d = c /\ r = s /\ i = Len(queue[s]) + 1
  BY <1>1, <1>3 DEF Waits
<1>5. Elsewhere(c) /\ \A t \in Threads : HasDescriptor(t) => io[t] # c
  BY <1>2 DEF OnePlace
<1>6. \A d : d # c /\ Elsewhere(d) => Elsewhere(d)'
  BY <1>4 DEF Elsewhere
<1>7. WaitsOnce'
  BY <1>4, <1>5 DEF OnePlace, WaitsOnce, Elsewhere
<1>8. ServedOnce' /\ \A t \in Threads : HasDescriptor(t)' <=> HasDescriptor(t)
  BY <1>2 DEF OnePlace, ServedOnce, HasDescriptor, workerVars
<1>9. \A d \in Clients : stage'[d] = "new" => d # c /\ stage[d] = "new"
  BY <1>2, <1>3
<1>10. \A t \in Threads : HasDescriptor(t) => io[t] \in Clients /\ stage'[io[t]] # "new"
  BY <1>2, <1>3, <1>5 DEF IInv, Holds, OnePlace
<1> QED BY <1>2, <1>5, <1>6, <1>7, <1>8, <1>9, <1>10 DEF OnePlace, workerVars

LEMMA PlaceGoes ==
  ASSUME IInv, OnePlace, NEW c \in Clients, Sends(c) \/ Ends(c) \/ Aborts(c)
  PROVE  OnePlace'
<1>1. /\ UNCHANGED <<queue, io, worker>>
      /\ \A d \in Clients : stage'[d] = "new" <=> stage[d] = "new"
  BY IInvClientTypes DEF ClientTypes, Sends, Ends, Aborts, netVars, workerVars
<1>2. \A d, s, i : Waits(d, s, i)' <=> Waits(d, s, i)
  BY <1>1 DEF Waits
<1>3. \A d : Elsewhere(d)' <=> Elsewhere(d)
  BY <1>2 DEF Elsewhere
<1>4. WaitsOnce' /\ ServedOnce'
  BY <1>1, <1>2 DEF OnePlace, WaitsOnce, ServedOnce, HasDescriptor
<1> QED BY <1>1, <1>3, <1>4 DEF OnePlace, HasDescriptor, IInv, Holds

-----------------------------------------------------------------------------
(* The steps of thread t with the descriptor of client c.                  *)

Works(t, c) ==
  /\ HasDescriptor(t) /\ c = io[t] /\ c \in Clients
  /\ UNCHANGED <<io, queue, stage, says, sent, late>>
  /\ unread'[c] \in Nat /\ unread'[c] <= unread[c]
  /\ \A d \in Clients \ {c} : /\ unread'[d] = unread[d]
                              /\ told'[d] = told[d] /\ served'[d] = served[d]
  /\ worker'[t] \in Places
  /\ \A u \in Threads \ {t} : worker'[u] = worker[u]

Working(t) ==
  \/ ReadHeader(t) \/ ReadBody(t) \/ ReadParams(t) \/ ReadFails(t) \/ Refuse(t)
  \/ ServeReads(t) \/ ServeEnds(t) \/ Drain(t) \/ DrainEnds(t)

LEMMA LeastIsLess == \A a, b \in Nat : b - Least(a, b) \in Nat /\ b - Least(a, b) <= b
BY DEF Least

LEMMA WorkingWorks ==
  ASSUME IInv, NEW t \in Threads, Working(t)
  PROVE  Works(t, io[t]) /\ Peer(t) = io[t]
<1> DEFINE c == io[t]
<1>1. HasDescriptor(t)
  BY DEF Working, HasDescriptor, ReadHeader, ReadBody, ReadParams, ReadFails, Refuse,
         ServeReads, ServeEnds, Drain, DrainEnds
<1>2. Peer(t) = c /\ c \in Clients
  BY <1>1, PeerIsClient
<1>3. UNCHANGED <<io, queue, stage, says, sent, late>>
  BY DEF Working, ReadHeader, ReadBody, ReadParams, ReadFails, Refuse, ServeReads,
         ServeEnds, Drain, DrainEnds, netVars, clientVars, workerVars
<1>4. unread[c] \in Nat /\ \A d \in Clients : unread[d] \in Nat
  BY <1>2, IInvClientTypes DEF ClientTypes
<1>5. \/ UNCHANGED unread
      \/ \E n \in Nat : n <= unread[c] /\ unread' = [unread EXCEPT ![c] = n]
  <2>1. CASE ReadHeader(t) \/ ReadBody(t)
    <3>1. PICK size \in Nat :
            unread' = [unread EXCEPT ![c] = unread[c] - Least(size, unread[c])]
      <4>1. ASSUME NEW size \in Nat, NEW next, Receives(t, size, next)
            PROVE  unread' = [unread EXCEPT ![c] = unread[c] - Least(size, unread[c])]
        BY <1>2, <4>1, Zenon DEF Receives
      <4>2. HeaderSize \in Nat /\ BodySize \in Nat
        OBVIOUS
      <4>3. CASE ReadHeader(t)
        BY <4>1, <4>2, <4>3, Zenon DEF ReadHeader
      <4>4. CASE ReadBody(t)
        BY <4>1, <4>2, <4>4, Zenon DEF ReadBody
      <4> QED BY <2>1, <4>3, <4>4
    <3>2. /\ unread[c] - Least(size, unread[c]) \in Nat
          /\ unread[c] - Least(size, unread[c]) <= unread[c]
      BY <1>4, LeastIsLess
    <3> QED BY <3>1, <3>2
  <2>2. CASE Drain(t)
    <3>1. unread' = [unread EXCEPT ![c] = unread[c] - Least(TrashSize, unread[c])]
      BY <1>2, <2>2 DEF Drain
    <3>2. /\ unread[c] - Least(TrashSize, unread[c]) \in Nat
          /\ unread[c] - Least(TrashSize, unread[c]) <= unread[c]
      <4>1. TrashSize \in Nat
        OBVIOUS
      <4> QED BY <1>4, <4>1, LeastIsLess, Zenon
    <3> QED BY <3>1, <3>2
  <2>3. CASE ReadParams(t) \/ ServeReads(t)
    BY <1>2, <1>4, <2>3 DEF ReadParams, ServeReads
  <2>4. CASE ReadFails(t) \/ Refuse(t) \/ ServeEnds(t) \/ DrainEnds(t)
    BY <2>4 DEF ReadFails, Refuse, ServeEnds, DrainEnds, clientVars
  <2> QED BY <2>1, <2>2, <2>3, <2>4 DEF Working
<1>6. unread'[c] \in Nat /\ unread'[c] <= unread[c]
      /\ \A d \in Clients \ {c} : unread'[d] = unread[d]
  BY <1>2, <1>4, <1>5, IInvClientTypes DEF ClientTypes
<1>7. \A d \in Clients \ {c} : told'[d] = told[d]
  BY <1>2, IInvClientTypes
     DEF ClientTypes, Working, ReadHeader, ReadBody, ReadParams, ReadFails, Refuse,
         ServeReads, ServeEnds, Drain, DrainEnds, clientVars
<1>8. \A d \in Clients \ {c} : served'[d] = served[d]
  BY <1>2, IInvClientTypes
     DEF ClientTypes, Working, ReadHeader, ReadBody, ReadParams, ReadFails, Refuse,
         ServeReads, ServeEnds, Drain, DrainEnds, clientVars
<1>9. UNCHANGED worker \/ \E place \in Places : worker' = [worker EXCEPT ![t] = place]
  BY DEF Places, Working, ReadHeader, ReadBody, ReadParams, ReadFails, Refuse, Receives,
         ServeReads, ServeEnds, Drain, DrainEnds, GoesTo, workerVars
<1>10. /\ worker'[t] \in Places
       /\ \A u \in Threads \ {t} : worker'[u] = worker[u]
  BY <1>1, <1>9 DEF IInv, TypeOK, HasDescriptor, Places
<1> QED BY <1>1, <1>2, <1>3, <1>6, <1>7, <1>8, <1>10, Zenon DEF Works

LEMMA WorksPlace ==
  ASSUME IInv, OnePlace, NEW t \in Threads, NEW c \in Clients, Works(t, c)
  PROVE  OnePlace'
<1>1. \A u \in Threads : HasDescriptor(u)' => HasDescriptor(u)
  BY DEF Works, HasDescriptor
<1> QED BY <1>1, PlaceStays DEF Works

\* The others have other clients.
LEMMA WorksOthers ==
  ASSUME IInv, OnePlace, NEW t \in Threads, NEW c \in Clients, Works(t, c),
         NEW u \in Threads, u # t
  PROVE  /\ Read(u) => Read(u)'
         /\ Drained(u) => Drained(u)'
         /\ Answering(u) => Answering(u)'
<1>1. CASE HasDescriptor(u)
  <2>1. PICK d \in Clients : d = io[u] /\ d # c
    BY <1>1 DEF IInv, Holds, OnePlace, ServedOnce, Works
  <2>2. io'[u] = d /\ worker'[u] = worker[u]
    BY <2>1 DEF Works
  <2>3. /\ UNCHANGED <<stage, says, sent, late>>
        /\ unread'[d] = unread[d] /\ told'[d] = told[d] /\ served'[d] = served[d]
    BY <2>1 DEF Works
  <2> QED BY <2>1, <2>2, <2>3 DEF Read, Drained, Answering, Taken, Unanswered, Settled, Due
<1>2. CASE ~HasDescriptor(u)
  <2>1. worker'[u] \notin Places
    BY <1>2 DEF Works, HasDescriptor, IInv, TypeOK, Places
  <2> QED BY <2>1 DEF Read, Drained, Answering, Places
<1> QED BY <1>1, <1>2

LEMMA WorksService ==
  ASSUME IInv, ServiceInv, NEW t \in Threads, NEW c \in Clients, Works(t, c),
         Read(t)', Drained(t)',
         served'[c] => says[c] = "request" /\ sent[c] - unread'[c] >= RequestSize
  PROVE  ServiceInv'
<1>1. OnePlace'
  BY WorksPlace DEF ServiceInv
<1>2. \A u \in Threads : Read(u)' /\ Drained(u)'
  BY WorksOthers DEF ServiceInv
<1>3. ServedHasBegun'
  BY DEF ServiceInv, ServedHasBegun, Works, Taken
<1> QED BY <1>1, <1>2, <1>3 DEF ServiceInv

LEMMA WorksAnswer ==
  ASSUME IInv, ServiceInv, AnswerInv, NEW t \in Threads, NEW c \in Clients, Works(t, c),
         Answering(t)'
  PROVE  AnswerInv'
<1>1. \A u \in Threads : Answering(u)'
  BY WorksOthers DEF AnswerInv, ServiceInv
<1>2. stage[c] # "new" /\ Elsewhere(c)
  BY DEF ServiceInv, OnePlace, Works
<1>3. \A d, s, i : Waits(d, s, i)' <=> Waits(d, s, i)
  BY DEF Waits, Works
<1>4. \A d \in Clients : /\ UNCHANGED <<stage, sent>>
                         /\ stage[d] = "aborted" => unread'[d] = 0
                         /\ d # c => /\ Taken(d)' = Taken(d)
                                     /\ Unanswered(d)' <=> Unanswered(d)
  <2>1. TAKE d \in Clients
  <2>2. unread[d] \in Nat
    BY IInvClientTypes DEF ClientTypes
  <2> QED BY <2>2 DEF Works, Taken, Unanswered, AnswerInv
<1> QED BY <1>1, <1>2, <1>3, <1>4 DEF AnswerInv, Elsewhere

-----------------------------------------------------------------------------
(* The steps that leave a client as it is, or forget it.                   *)

Same(c) ==
  /\ stage'[c] = stage[c] /\ says'[c] = says[c] /\ sent'[c] = sent[c]
  /\ unread'[c] = unread[c] /\ late'[c] = late[c] /\ told'[c] = told[c]
  /\ served'[c] = served[c]

Forgotten(c) ==
  /\ stage'[c] = "new" /\ sent'[c] = 0 /\ unread'[c] = 0
  /\ told'[c] = "nothing" /\ served'[c] = FALSE

Carries ==
  /\ \A c \in Clients : Same(c) \/ Forgotten(c)
  /\ \A c \in Clients : Elsewhere(c) => Elsewhere(c)'
  /\ \A u \in Threads : worker'[u] \in Places =>
       \/ /\ HasDescriptor(u) /\ worker'[u] = worker[u]
          /\ io'[u] = io[u] /\ Same(io[u])
       \/ /\ worker'[u] = "header" /\ io'[u] \in Clients
          /\ Same(io'[u]) /\ ~Elsewhere(io'[u])

LEMMA CarriesThread ==
  ASSUME IInv, Carries, NEW u \in Threads
  PROVE  /\ Read(u) => Read(u)'
         /\ Drained(u) => Drained(u)'
         /\ AnswerInv => Answering(u)'
<1>1. CASE worker'[u] \notin Places
  BY <1>1 DEF Read, Drained, Answering, Places
<1>2. CASE HasDescriptor(u) /\ worker'[u] = worker[u] /\ io'[u] = io[u] /\ Same(io[u])
  <2>1. PICK d \in Clients : d = io[u]
    BY <1>2 DEF IInv, Holds
  <2>2. io'[u] = d /\ worker'[u] = worker[u] /\ Same(d)
    BY <1>2, <2>1
  <2>3. AnswerInv => Answering(u)
    BY DEF AnswerInv
  <2> QED BY <2>1, <2>2, <2>3
          DEF Same, Read, Drained, Answering, Taken, Unanswered, Settled, Due
<1>3. CASE /\ worker'[u] = "header" /\ io'[u] \in Clients
           /\ Same(io'[u]) /\ ~Elsewhere(io'[u])
  <2>1. PICK d \in Clients : d = io'[u]
    BY <1>3
  <2>2. AnswerInv => Taken(d) = 0 /\ Unanswered(d)
    BY <1>3, <2>1 DEF AnswerInv, Elsewhere
  <2> QED BY <1>3, <2>1, <2>2 DEF Same, Read, Drained, Answering, Taken, Unanswered
<1> QED BY <1>1, <1>2, <1>3 DEF Carries

LEMMA CarriesService ==
  ASSUME IInv, ServiceInv, OnePlace', Carries
  PROVE  ServiceInv'
<1>1. \A u \in Threads : Read(u)' /\ Drained(u)'
  BY CarriesThread DEF ServiceInv
<1>2. ServedHasBegun'
  BY DEF ServiceInv, ServedHasBegun, Carries, Same, Forgotten, Taken
<1> QED BY <1>1, <1>2 DEF ServiceInv

LEMMA CarriesAnswer ==
  ASSUME IInv, AnswerInv, OnePlace', Carries
  PROVE  AnswerInv'
<1>1. \A u \in Threads : Answering(u)'
  BY CarriesThread
<1>2. SUFFICES ASSUME NEW c \in Clients
               PROVE  /\ sent'[c] = 0 \/ sent'[c] >= RequestSize \/ stage'[c] = "aborted"
                      /\ stage'[c] = "left" => sent'[c] < RequestSize
                      /\ stage'[c] = "aborted" => unread'[c] = 0
                      /\ stage'[c] = "new" => Taken(c)' = 0 /\ Unanswered(c)'
                      /\ ~Elsewhere(c)' => Taken(c)' = 0 /\ Unanswered(c)'
  BY <1>1 DEF AnswerInv, Elsewhere
<1>3. CASE Same(c)
  <2>1. Elsewhere(c) => Elsewhere(c)'
    BY DEF Carries
  <2>2. ~Elsewhere(c) => Taken(c) = 0 /\ Unanswered(c)
    BY DEF AnswerInv, Elsewhere
  <2> QED BY <1>3, <2>1, <2>2 DEF Same, AnswerInv, Taken, Unanswered
<1>4. CASE Forgotten(c)
  BY <1>4 DEF Forgotten, Taken, Unanswered, RequestSize
<1> QED BY <1>3, <1>4 DEF Carries

LEMMA ForgetForgets ==
  ASSUME ClientTypes, NEW clients, Forget(clients), NEW c \in Clients
  PROVE  IF c \in clients THEN Forgotten(c) ELSE Same(c)
<1>1. CASE c \in clients
  BY <1>1 DEF Forget, Forgotten
<1>2. CASE c \notin clients
  <2>1. /\ stage'[c] = stage[c] /\ says'[c] = says[c] /\ sent'[c] = sent[c]
        /\ unread'[c] = unread[c] /\ told'[c] = told[c]
    BY <1>2 DEF Forget
  <2>2. late[c] \in BOOLEAN /\ late'[c] = (c \notin clients /\ late[c])
    BY Zenon DEF Forget, ClientTypes
  <2>3. served[c] \in BOOLEAN /\ served'[c] = (c \notin clients /\ served[c])
    BY Zenon DEF Forget, ClientTypes
  <2> QED BY <1>2, <2>1, <2>2, <2>3, Zenon DEF Same
<1> QED BY <1>1, <1>2

\* Neither the clients nor the threads with a descriptor are touched.
LEMMA QuietCarries ==
  ASSUME IInv, OnePlace, UNCHANGED <<clientVars, queue, io>>,
         \A u \in Threads : HasDescriptor(u)' => HasDescriptor(u) /\ worker'[u] = worker[u]
  PROVE  Carries /\ OnePlace'
<1>1. \A c \in Clients : Same(c)
  BY DEF Same, clientVars
<1>2. \A c : Elsewhere(c) => Elsewhere(c)'
  BY DEF Elsewhere, Waits
<1>3. \A u \in Threads : worker'[u] \in Places => HasDescriptor(u)'
  BY DEF HasDescriptor, Places
<1>4. \A u \in Threads : HasDescriptor(u) => io[u] \in Clients
  BY DEF IInv, Holds
<1>5. OnePlace'
  BY PlaceStays DEF clientVars
<1> QED BY <1>1, <1>2, <1>3, <1>4, <1>5 DEF Carries

LEMMA QuietOwnerCarries ==
  ASSUME IInv, OnePlace, ListenCreates \/ ListenStarts \/ ListenThrows
  PROVE  Carries /\ OnePlace'
<1>1. UNCHANGED <<clientVars, queue, io, worker>>
  BY DEF ListenCreates, ListenStarts, ListenThrows, workerVars, netVars
<1> QED BY <1>1, QuietCarries DEF HasDescriptor

LEMMA IdleCarries ==
  ASSUME IInv, OnePlace, NEW t \in Threads, AcceptCalled(t) \/ AcceptBlocks(t)
  PROVE  Carries /\ OnePlace'
<1>1. UNCHANGED <<clientVars, queue, io>>
  BY DEF AcceptCalled, AcceptBlocks, netVars
<1>2. \/ worker' = [worker EXCEPT ![t] = "calling"]
      \/ worker' = [worker EXCEPT ![t] = "blocked"]
  BY DEF AcceptCalled, AcceptBlocks, GoesTo
<1>3. \A u \in Threads : HasDescriptor(u)' => HasDescriptor(u) /\ worker'[u] = worker[u]
  BY <1>2 DEF IInv, TypeOK, HasDescriptor
<1> QED BY <1>1, <1>3, QuietCarries

\* A socket is left with those that wait at it.
LEMMA LeavesCarries ==
  ASSUME IInv, OnePlace, NEW s \in Sockets, NEW referred \in BOOLEAN,
         Leaves(s, queue[s], referred), UNCHANGED io,
         \A u \in Threads : /\ HasDescriptor(u)' <=> HasDescriptor(u)
                            /\ HasDescriptor(u) => worker'[u] = worker[u]
  PROVE  Carries /\ OnePlace'
<1>1. CASE referred
  <2>1. UNCHANGED <<queue, clientVars>>
    BY <1>1, IInvSocketTypes DEF Leaves, SocketTypes
  <2> QED BY <2>1, QuietCarries
<1>2. CASE ~referred
  <2> DEFINE gone == {queue[s][i] : i \in DOMAIN queue[s]}
  <2>1. queue' = [queue EXCEPT ![s] = <<>>] /\ Forget(gone)
    BY <1>2 DEF Leaves
  <2>2. queue \in [Sockets -> Seq(Clients)]
    BY IInvSocketTypes DEF SocketTypes
  <2>3. \A d \in gone : ~Elsewhere(d)
    BY <2>2 DEF Elsewhere, Waits
  <2> HIDE DEF gone
  <2>4. \A c \in Clients : IF c \in gone THEN Forgotten(c) ELSE Same(c)
    BY <2>1, ForgetForgets, IInvClientTypes
  <2>5. \A c : Elsewhere(c) => Elsewhere(c)'
    BY <2>1, <2>2 DEF Elsewhere, Waits
  <2>6. \A u \in Threads : HasDescriptor(u) => Same(io[u])
    BY <2>3, <2>4 DEF OnePlace, IInv, Holds
  <2>7. \A u \in Threads : worker'[u] \in Places => HasDescriptor(u)'
    BY DEF HasDescriptor, Places
  <2>8. OnePlace'
    BY PlaceLeaves
  <2> QED BY <2>4, <2>5, <2>6, <2>7, <2>8 DEF Carries
<1> QED BY <1>1, <1>2

LEMMA CloseListenerCarries ==
  ASSUME IInv, OnePlace, CloseListener
  PROVE  Carries /\ OnePlace'
<1>1. PICK s \in Sockets : s = table[listener]
  BY DEF IInv, TypeOK, DescriptorsOwned, CloseListener
<1>2. Leaves(s, queue[s], IsHeld(s, Threads)) /\ IsHeld(s, Threads) \in BOOLEAN
  BY <1>1 DEF CloseListener, IsHeld
<1>3. UNCHANGED <<io, worker>>
  BY DEF CloseListener, workerVars
<1> QED BY <1>2, <1>3, LeavesCarries DEF HasDescriptor

LEMMA AcceptFailsCarries ==
  ASSUME IInv, OnePlace, NEW t \in Threads, AcceptFails(t)
  PROVE  Carries /\ OnePlace'
<1>1. UNCHANGED io /\ worker' = [worker EXCEPT ![t] = "idle"] /\ ~HasDescriptor(t)
  BY DEF AcceptFails, GoesTo, HasDescriptor
<1>2. \A u \in Threads : /\ HasDescriptor(u)' <=> HasDescriptor(u)
                         /\ HasDescriptor(u) => worker'[u] = worker[u]
  BY <1>1 DEF IInv, TypeOK, HasDescriptor
<1>3. CASE UNCHANGED <<socket, queue, clientVars>>
  BY <1>1, <1>2, <1>3, QuietCarries
<1>4. CASE worker[t] = "blocked"
  <2>1. PICK s \in Sockets : s = inside[t]
    BY <1>4 DEF IInv, Holds
  <2> DEFINE referred == IsOpen(s) \/ IsHeld(s, Threads \ {t})
  <2>2. Leaves(s, queue[s], referred) \/ UNCHANGED <<socket, queue, clientVars>>
    BY <2>1 DEF AcceptFails
  <2>3. referred \in BOOLEAN
    BY DEF IsOpen, IsHeld
  <2> HIDE DEF referred
  <2> QED BY <1>1, <1>2, <1>3, <2>2, <2>3, LeavesCarries
<1> QED BY <1>3, <1>4 DEF AcceptFails

LEMMA AcceptsCarries ==
  ASSUME IInv, OnePlace, NEW t \in Threads, Accepts(t)
  PROVE  Carries /\ OnePlace'
<1>1. PICK s \in Sockets :
        /\ s = inside[t] /\ queue \in [Sockets -> Seq(Clients)] /\ queue[s] # <<>>
        /\ queue[s] \in Seq(Clients) /\ Len(queue[s]) \in Nat \ {0}
  BY IInvSocketTypes DEF IInv, Holds, SocketTypes, Accepts
<1>2. PICK c \in Clients : Waits(c, s, 1) /\ c = Head(queue[s])
  BY <1>1 DEF Waits
<1> DEFINE referred == IsOpen(s) \/ IsHeld(s, Threads \ {t})
           gone == IF referred THEN {} ELSE {Tail(queue[s])[i] : i \in DOMAIN Tail(queue[s])}
<1>3. /\ worker[t] = "blocked" /\ worker' = [worker EXCEPT ![t] = "header"]
      /\ io' = [io EXCEPT ![t] = c]
      /\ Leaves(s, Tail(queue[s]), referred)
  BY <1>1, <1>2 DEF Accepts, GoesTo
<1>4. \A d \in gone : \E i \in Nat : i # 1 /\ Waits(d, s, i)
  <2>1. SUFFICES ASSUME NEW i \in DOMAIN Tail(queue[s])
                 PROVE  \E j \in Nat : j # 1 /\ Waits(Tail(queue[s])[i], s, j)
    OBVIOUS
  <2>2. /\ i \in 1..Len(Tail(queue[s])) /\ Len(Tail(queue[s])) = Len(queue[s]) - 1
        /\ Tail(queue[s])[i] = queue[s][i + 1]
    BY <1>1
  <2>3. i + 1 \in Nat /\ i + 1 # 1 /\ Waits(Tail(queue[s])[i], s, i + 1)
    BY <1>1, <2>2 DEF Waits
  <2> QED BY <2>3
<1>5. \A d \in Clients : IF d \in gone THEN Forgotten(d) ELSE Same(d)
  <2>1. CASE referred
    BY <1>3, <2>1 DEF Leaves, clientVars, Same
  <2>2. CASE ~referred
    BY <1>3, <2>2, ForgetForgets, IInvClientTypes DEF Leaves
  <2> QED BY <2>1, <2>2
<1>6. \A d : Elsewhere(d) => Elsewhere(d)'
  <2>1. \A d, r, i : Waits(d, r, i)' /\ r \in Sockets /\ i \in Nat
          => Waits(d, r, IF r = s /\ referred THEN i + 1 ELSE i)
    <3>1. /\ queue' = [queue EXCEPT ![s] = IF referred THEN Tail(queue[s]) ELSE <<>>]
          /\ Tail(queue[s]) \in Seq(Clients) /\ Len(Tail(queue[s])) = Len(queue[s]) - 1
          /\ \A i \in 1..Len(Tail(queue[s])) : Tail(queue[s])[i] = queue[s][i + 1]
      BY <1>1, <1>3 DEF Leaves
    <3> HIDE DEF referred
    <3> QED BY <1>1, <3>1 DEF Waits
  <2> HIDE DEF referred
  <2>2. SUFFICES ASSUME NEW d, Elsewhere(d), NEW r \in Sockets, NEW i \in Nat, Waits(d, r, i)'
                 PROVE  FALSE
    BY DEF Elsewhere
  <2>3. (IF r = s /\ referred THEN i + 1 ELSE i) \in Nat
    OBVIOUS
  <2> QED BY <2>1, <2>2, <2>3 DEF Elsewhere
<1> HIDE DEF referred, gone
<1>7. c \notin gone /\ ~Elsewhere(c)
  BY <1>1, <1>2, <1>4 DEF OnePlace, WaitsOnce, Elsewhere
<1>8. \A u \in Threads : HasDescriptor(u) => io[u] \in Clients /\ io[u] \notin gone
  BY <1>1, <1>4 DEF OnePlace, Elsewhere, IInv, Holds
<1>9. worker'[t] = "header" /\ io'[t] = c
  BY <1>3 DEF IInv, TypeOK
<1>10. \A u \in Threads : u # t => worker'[u] = worker[u] /\ io'[u] = io[u]
  BY <1>3 DEF IInv, TypeOK
<1>11. \A u \in Threads : worker'[u] \in Places /\ u # t => HasDescriptor(u)
  BY <1>10 DEF HasDescriptor, Places
<1>12. OnePlace'
  BY PlaceAccepts
<1>13. \A d \in Clients : Same(d) \/ Forgotten(d)
  BY <1>5
<1>14. \A u \in Threads : worker'[u] \in Places =>
         \/ /\ HasDescriptor(u) /\ worker'[u] = worker[u]
            /\ io'[u] = io[u] /\ Same(io[u])
         \/ /\ worker'[u] = "header" /\ io'[u] \in Clients
            /\ Same(io'[u]) /\ ~Elsewhere(io'[u])
  <2>1. TAKE u \in Threads
  <2>2. CASE u = t
    BY <1>2, <1>5, <1>7, <1>9, <2>2
  <2>3. CASE u # t
    BY <1>5, <1>8, <1>10, <1>11, <2>3
  <2> QED BY <2>2, <2>3
<1> QED BY <1>6, <1>12, <1>13, <1>14 DEF Carries

LEMMA CloseSocketCarries ==
  ASSUME IInv, OnePlace, NEW t \in Threads, CloseSocket(t)
  PROVE  Carries /\ OnePlace'
<1>1. HasDescriptor(t)
  BY DEF CloseSocket, HasDescriptor
<1>2. PICK c \in Clients : c = io[t] /\ table[fd[t]] = c
  BY <1>1, PeerIsClient DEF Peer
<1>3. /\ Forget({c}) /\ UNCHANGED queue /\ worker' = [worker EXCEPT ![t] = "idle"]
      /\ io' = [io EXCEPT ![t] = None]
  BY <1>2 DEF CloseSocket, Closes, GoesTo
<1>4. \A d \in Clients : IF d \in {c} THEN Forgotten(d) ELSE Same(d)
  BY <1>3, ForgetForgets, IInvClientTypes
<1>5. \A d : Elsewhere(d) => Elsewhere(d)'
  BY <1>3 DEF Elsewhere, Waits
<1>6. \A u \in Threads : worker'[u] \in Places =>
        /\ HasDescriptor(u) /\ worker'[u] = worker[u] /\ io'[u] = io[u] /\ u # t
  BY <1>3 DEF IInv, TypeOK, HasDescriptor, Places
<1>7. \A u \in Threads : HasDescriptor(u) /\ u # t => io[u] \in Clients /\ io[u] # c
  BY <1>1, <1>2 DEF OnePlace, ServedOnce, IInv, Holds
<1>8. \A d \in Clients : Same(d) \/ Forgotten(d)
  BY <1>4
<1>9. \A u \in Threads : HasDescriptor(u) /\ u # t => Same(io[u])
  BY <1>4, <1>7
<1>10. OnePlace'
  BY PlaceCloses
<1> QED BY <1>5, <1>6, <1>8, <1>9, <1>10 DEF Carries

LEMMA StutterCarries ==
  ASSUME IInv, OnePlace, UNCHANGED vars
  PROVE  Carries /\ OnePlace'
<1>1. UNCHANGED <<clientVars, queue, io, worker>>
  BY DEF vars, workerVars, netVars
<1> QED BY <1>1, QuietCarries DEF HasDescriptor

-----------------------------------------------------------------------------
(* What a thread does with its client.                                     *)

\* The client c of thread t, n bytes of which are unread behind the step.
LEMMA ReceivesFrom ==
  ASSUME IInv, NEW t \in Threads, NEW size \in Nat, NEW next, HasDescriptor(t),
         Receives(t, size, next)
  PROVE  LET c == io[t] IN
         /\ unread[c] > 0 /\ unread[c] \in Nat /\ sent[c] \in Nat /\ unread[c] <= sent[c]
         /\ IF unread[c] >= size THEN worker'[t] = next /\ unread'[c] = unread[c] - size
                                 ELSE worker'[t] = "drain" /\ unread'[c] = 0
<1>1. PICK c \in Clients : c = io[t] /\ c = Peer(t)
  BY PeerIsClient
<1>2. unread[c] > 0 /\ unread[c] \in Nat /\ sent[c] \in Nat /\ unread[c] <= sent[c]
  BY <1>1, SizeIsNat, IInvClientTypes DEF Receives, ClientTypes
<1> DEFINE count == Least(size, unread[c])
<1>3. /\ unread' = [unread EXCEPT ![c] = unread[c] - count]
      /\ worker' = [worker EXCEPT ![t] = IF count = size THEN next ELSE "drain"]
  BY <1>1 DEF Receives, GoesTo
<1>4. /\ unread'[c] = unread[c] - count
      /\ worker'[t] = IF count = size THEN next ELSE "drain"
  <2> HIDE DEF count
  <2> QED BY <1>3, IInvClientTypes DEF ClientTypes, IInv, TypeOK
<1>5. /\ unread[c] >= size => count = size
      /\ unread[c] < size => count = unread[c]
  BY <1>2 DEF Least
<1> HIDE DEF count
<1> QED BY <1>1, <1>2, <1>4, <1>5

LEMMA ReadHeaderServes ==
  ASSUME IInv, ServiceInv, NEW t \in Threads, ReadHeader(t), NEW c \in Clients, Works(t, c)
  PROVE  /\ Read(t)' /\ Drained(t)' /\ UNCHANGED served
         /\ AnswerInv => Answering(t)'
<1>1. PICK next :
        /\ Receives(t, HeaderSize, next)
        /\ next = CASE says[c] = "bad_version" -> "drain"
                    [] says[c] = "no_begin"    -> "refuse"
                    [] OTHER                   -> "body"
  BY PeerIsClient DEF ReadHeader, Works
<1>2. /\ unread[c] > 0 /\ unread[c] \in Nat /\ sent[c] \in Nat /\ unread[c] <= sent[c]
      /\ IF unread[c] >= HeaderSize
           THEN worker'[t] = next /\ unread'[c] = unread[c] - HeaderSize
           ELSE worker'[t] = "drain" /\ unread'[c] = 0
  <2>1. HeaderSize \in Nat /\ HasDescriptor(t) /\ c = io[t]
    BY DEF Works
  <2> QED BY <1>1, <2>1, ReceivesFrom
<1>3. /\ says[c] \in FirstRecords
      /\ io'[t] = c /\ UNCHANGED <<stage, says, sent, told, served>> /\ worker[t] = "header"
  BY IInvClientTypes DEF ClientTypes, ReadHeader, Works
<1>4. Read(t)' /\ Drained(t)'
  BY <1>1, <1>2, <1>3 DEF Read, Drained, Taken, FirstRecords
<1>5. ASSUME AnswerInv PROVE Answering(t)'
  <2>1. Taken(c) = 0 /\ Unanswered(c)
    BY <1>3, <1>5 DEF AnswerInv, Answering, Works
  <2>2. sent[c] >= RequestSize
    BY <1>2, <1>5 DEF AnswerInv
  <2>3. unread[c] >= HeaderSize
    BY <1>2, <2>1, <2>2 DEF Taken, RequestSize
  <2>4. worker'[t] = next /\ Taken(c)' = HeaderSize /\ Unanswered(c)'
    BY <1>2, <1>3, <2>1, <2>3 DEF Taken, Unanswered
  <2> QED BY <1>1, <1>2, <1>3, <2>1, <2>4
          DEF Answering, Settled, Due, Unanswered, FirstRecords
<1> QED BY <1>3, <1>4, <1>5

LEMMA ReadBodyServes ==
  ASSUME IInv, ServiceInv, NEW t \in Threads, ReadBody(t), NEW c \in Clients, Works(t, c)
  PROVE  /\ Read(t)' /\ Drained(t)' /\ UNCHANGED served
         /\ AnswerInv => Answering(t)'
<1>1. PICK next :
        /\ Receives(t, BodySize, next)
        /\ next = IF says[c] = "bad_role" THEN "refuse" ELSE "params"
  BY PeerIsClient DEF ReadBody, Works
<1>2. /\ unread[c] > 0 /\ unread[c] \in Nat /\ sent[c] \in Nat /\ unread[c] <= sent[c]
      /\ IF unread[c] >= BodySize
           THEN worker'[t] = next /\ unread'[c] = unread[c] - BodySize
           ELSE worker'[t] = "drain" /\ unread'[c] = 0
  <2>1. BodySize \in Nat /\ HasDescriptor(t) /\ c = io[t]
    BY DEF Works
  <2> QED BY <1>1, <2>1, ReceivesFrom
<1>3. /\ says[c] \in {"request", "bad_role"} /\ Taken(c) > 0
      /\ io'[t] = c /\ UNCHANGED <<stage, says, sent, told, served>> /\ worker[t] = "body"
  BY DEF ServiceInv, Read, ReadBody, Works
<1>4. Read(t)' /\ Drained(t)'
  BY <1>1, <1>2, <1>3 DEF Read, Drained, Taken
<1>5. ASSUME AnswerInv PROVE Answering(t)'
  <2>1. Taken(c) = HeaderSize /\ Unanswered(c)
    BY <1>3, <1>5 DEF AnswerInv, Answering, Works
  <2>2. sent[c] >= RequestSize
    BY <1>2, <1>5 DEF AnswerInv
  <2>3. unread[c] >= BodySize
    BY <1>2, <2>1, <2>2 DEF Taken, RequestSize
  <2>4. worker'[t] = next /\ Taken(c)' = HeaderSize + BodySize /\ Unanswered(c)'
    BY <1>2, <1>3, <2>1, <2>3 DEF Taken, Unanswered
  <2>5. HeaderSize + BodySize > 0
    OBVIOUS
  <2> QED BY <1>1, <1>2, <1>3, <2>1, <2>4, <2>5 DEF Answering, Unanswered
<1> QED BY <1>3, <1>4, <1>5

LEMMA ReadParamsServes ==
  ASSUME IInv, ServiceInv, NEW t \in Threads, ReadParams(t), NEW c \in Clients, Works(t, c)
  PROVE  /\ Read(t)' /\ Drained(t)'
         /\ served'[c] => says[c] = "request" /\ sent[c] - unread'[c] >= RequestSize
         /\ AnswerInv => Answering(t)'
<1>1. /\ Peer(t) = c /\ io'[t] = c /\ UNCHANGED <<stage, says, sent, told>>
      /\ worker[t] = "params"
  BY PeerIsClient DEF ReadParams, Works
<1>2. /\ unread[c] > 0 /\ unread[c] \in Nat /\ sent[c] \in Nat /\ unread[c] <= sent[c]
      /\ unread'[c] = 0
  BY <1>1, SizeIsNat, IInvClientTypes DEF ReadParams, ClientTypes
<1>3. says[c] = "request" /\ Taken(c) > 0
  BY <1>1 DEF ServiceInv, Read, Works
<1>4. IF sent[c] >= RequestSize
        THEN served'[c] = TRUE /\ worker'[t] = "serving"
        ELSE served'[c] = served[c] /\ worker'[t] = "params"
  BY <1>1, IInvClientTypes DEF ReadParams, GoesTo, ClientTypes, IInv, TypeOK
<1>5. served[c] => Taken(c) >= RequestSize
  BY DEF ServiceInv, ServedHasBegun
<1>6. Read(t)' /\ Drained(t)'
  BY <1>1, <1>2, <1>3, <1>4 DEF Read, Drained, Taken
<1>7. served'[c] => says[c] = "request" /\ sent[c] - unread'[c] >= RequestSize
  <2>1. CASE sent[c] >= RequestSize
    BY <1>2, <1>3, <2>1
  <2>2. CASE ~(sent[c] >= RequestSize)
    <3>1. ~(Taken(c) >= RequestSize)
      BY <1>2, <2>2, SizeIsNat DEF Taken
    <3>2. served'[c] = served[c]
      BY <1>4, <2>2
    <3> QED BY <1>5, <3>1, <3>2, Zenon
  <2> QED BY <2>1, <2>2
<1>8. ASSUME AnswerInv PROVE Answering(t)'
  <2>1. Unanswered(c)
    BY <1>1, <1>8 DEF AnswerInv, Answering, Works
  <2>2. sent[c] >= RequestSize
    BY <1>2, <1>8 DEF AnswerInv
  <2> QED BY <1>1, <1>2, <1>3, <1>4, <2>1, <2>2 DEF Answering, Unanswered, Taken
<1> QED BY <1>6, <1>7, <1>8

\* The other steps of a thread with a descriptor.
LEMMA GoesOnServes ==
  ASSUME IInv, ServiceInv, NEW t \in Threads, NEW c \in Clients, Works(t, c),
         ReadFails(t) \/ Refuse(t) \/ ServeReads(t) \/ ServeEnds(t) \/ Drain(t) \/ DrainEnds(t)
  PROVE  /\ Read(t)' /\ Drained(t)' /\ UNCHANGED served
         /\ AnswerInv => Answering(t)'
<1>1. Peer(t) = c /\ io'[t] = c /\ UNCHANGED <<stage, says, sent, served>>
  BY PeerIsClient
     DEF Works, ReadFails, Refuse, ServeReads, ServeEnds, Drain, DrainEnds, clientVars
<1>a. /\ sent[c] \in Nat /\ unread[c] \in Nat /\ unread'[c] \in Nat /\ unread'[c] <= unread[c]
  BY SizeIsNat, IInvClientTypes DEF Works, ClientTypes
<1>b. (Taken(c) > 0 => sent[c] > 0) /\ (Taken(c) > 0 => Taken(c)' > 0)
  BY <1>1, <1>a DEF Taken
<1>2. CASE ReadFails(t)
  <2>1. worker'[t] = "drain" /\ told'[c] = told[c]
    BY <1>2 DEF ReadFails, GoesTo, clientVars, IInv, TypeOK
  <2>2. stage[c] \in {"left", "aborted"}
    BY <1>1, <1>2, IInvClientTypes DEF ReadFails, ClientTypes, ServiceInv, OnePlace, Works
  <2> QED BY <1>1, <2>1, <2>2 DEF Read, Drained, Answering, Settled
<1>3. CASE Refuse(t)
  <2>1. worker[t] = "refuse" /\ worker'[t] = "drain"
    BY <1>3 DEF Refuse, GoesTo, IInv, TypeOK
  <2>2. \/ stage[c] = "aborted"
        \/ told'[c] = IF says[c] = "bad_role" THEN "unknown_role" ELSE "cant_mpx_conn"
    BY <1>1, <1>3, IInvClientTypes DEF Refuse, Aborted, ClientTypes
  <2>3. AnswerInv => says[c] \in {"no_begin", "bad_role"} /\ sent[c] > 0
    BY <1>b, <2>1 DEF AnswerInv, Answering, Works
  <2> QED BY <1>1, <2>1, <2>2, <2>3 DEF Read, Drained, Answering, Settled, Due
<1>4. CASE ServeReads(t)
  <2>1. worker'[t] = "serving" /\ worker[t] = "serving" /\ told'[c] = told[c]
    BY <1>4 DEF ServeReads, workerVars
  <2>2. AnswerInv => Answering(t)
    BY DEF AnswerInv
  <2> QED BY <1>1, <1>b, <2>1, <2>2 DEF Read, Drained, Answering, Works
<1>5. CASE ServeEnds(t)
  <2>1. worker[t] = "serving" /\ worker'[t] = "drain" /\ told'[c] = told[c]
    BY <1>5 DEF ServeEnds, GoesTo, clientVars, IInv, TypeOK
  <2>2. AnswerInv => Answering(t)
    BY DEF AnswerInv
  <2> QED BY <1>1, <1>b, <2>1, <2>2 DEF Read, Drained, Answering, Settled, Due, Works
<1>6. CASE Drain(t)
  <2>1. worker'[t] = "drain" /\ worker[t] = "drain" /\ told'[c] = told[c]
    BY <1>6 DEF Drain, workerVars
  <2>2. AnswerInv => Answering(t)
    BY DEF AnswerInv
  <2> QED BY <1>1, <2>1, <2>2 DEF Read, Drained, Answering, Settled, Due, Works
<1>7. CASE DrainEnds(t)
  <2>1. /\ worker'[t] = "close" /\ worker[t] = "drain" /\ told'[c] = told[c]
        /\ unread'[c] = 0
    BY <1>1, <1>7 DEF DrainEnds, Readable, GoesTo, clientVars, IInv, TypeOK
  <2>2. AnswerInv => Answering(t)
    BY DEF AnswerInv
  <2> QED BY <1>1, <2>1, <2>2 DEF Read, Drained, Answering, Settled, Due, Works
<1> QED BY <1>2, <1>3, <1>4, <1>5, <1>6, <1>7

LEMMA WorkingServes ==
  ASSUME IInv, ServiceInv, NEW t \in Threads, Working(t)
  PROVE  ServiceInv' /\ (AnswerInv => AnswerInv')
<1>1. PICK c \in Clients : Works(t, c)
  BY WorkingWorks DEF Works
<1>2. unread[c] \in Nat /\ unread'[c] \in Nat /\ unread'[c] <= unread[c] /\ sent[c] \in Nat
  BY <1>1, SizeIsNat, IInvClientTypes DEF Works, ClientTypes
<1>3. UNCHANGED served
        => (served'[c] => says[c] = "request" /\ sent[c] - unread'[c] >= RequestSize)
  BY <1>2, SizeIsNat DEF ServiceInv, ServedHasBegun, Taken
<1>4. /\ Read(t)' /\ Drained(t)'
      /\ served'[c] => says[c] = "request" /\ sent[c] - unread'[c] >= RequestSize
      /\ AnswerInv => Answering(t)'
  BY <1>1, <1>3, ReadHeaderServes, ReadBodyServes, ReadParamsServes, GoesOnServes DEF Working
<1>5. ServiceInv'
  BY <1>1, <1>4, WorksService
<1>6. AnswerInv => AnswerInv'
  BY <1>1, <1>4, WorksAnswer
<1> QED BY <1>5, <1>6

-----------------------------------------------------------------------------
(* What a client does.                                                     *)

\* The step is client c's own: no thread and no other client changes.
Alone(c) ==
  /\ UNCHANGED <<worker, io>> /\ told'[c] = told[c] /\ served'[c] = served[c]
  /\ \A d \in Clients \ {c} : Same(d)
  /\ \A d \in Clients \ {c} : Elsewhere(d) => Elsewhere(d)'

\* What c sends or loses has not been taken, and what a thread has begun to read is not
\* changed any more.
Steady(c) ==
  /\ Taken(c)' = Taken(c)
  /\ Taken(c) > 0 \/ sent[c] > 0 => says'[c] = says[c]
  /\ sent[c] > 0 => sent'[c] > 0 \/ stage'[c] = "aborted"

LEMMA ClientAlone ==
  ASSUME IInv, NEW c \in Clients, Client(c)
  PROVE  Alone(c)
<1>1. UNCHANGED <<worker, io, told, served>>
  BY DEF Client, Connects, Sends, Ends, Aborts, workerVars
<1>2. \A d \in Clients \ {c} : Same(d)
  <2>1. TAKE d \in Clients \ {c}
  <2>2. stage'[d] = stage[d] /\ says'[d] = says[d]
    BY IInvClientTypes DEF ClientTypes, Client, Connects, Sends, Ends, Aborts
  <2>3. sent'[d] = sent[d]
    BY IInvClientTypes DEF ClientTypes, Client, Connects, Sends, Ends, Aborts
  <2>4. unread'[d] = unread[d]
    BY IInvClientTypes DEF ClientTypes, Client, Connects, Sends, Ends, Aborts
  <2>5. late'[d] = late[d]
    BY IInvClientTypes, Zenon DEF ClientTypes, Client, Connects, Sends, Ends, Aborts
  <2> QED BY <1>1, <2>2, <2>3, <2>4, <2>5 DEF Same
<1>3. \A d \in Clients \ {c} : Elsewhere(d) => Elsewhere(d)'
  <2>1. CASE Connects(c)
    <3>1. PICK s \in Sockets : queue' = [queue EXCEPT ![s] = Append(queue[s], c)]
      BY <2>1 DEF Connects
    <3>2. queue \in [Sockets -> Seq(Clients)]
      BY IInvSocketTypes DEF SocketTypes
    <3>3. \A d : \A r \in Sockets : \A i \in Nat : Waits(d, r, i)' => Waits(d, r, i) \/ d = c
      BY <3>1, <3>2 DEF Waits
    <3> QED BY <3>3 DEF Elsewhere
  <2>2. CASE UNCHANGED queue
    BY <2>2 DEF Elsewhere, Waits
  <2> QED BY <2>1, <2>2 DEF Client, Sends, Ends, Aborts, netVars
<1> QED BY <1>1, <1>2, <1>3 DEF Alone

LEMMA AloneOthers ==
  ASSUME IInv, NEW c \in Clients, Alone(c), NEW u \in Threads, HasDescriptor(u), io[u] # c
  PROVE  /\ Read(u) => Read(u)'
         /\ Drained(u) => Drained(u)'
         /\ Answering(u) => Answering(u)'
<1>1. PICK d \in Clients : d = io[u]
  BY DEF IInv, Holds
<1>2. io'[u] = d /\ worker'[u] = worker[u] /\ Same(d)
  BY <1>1 DEF Alone
<1> QED BY <1>1, <1>2 DEF Same, Read, Drained, Answering, Taken, Unanswered, Settled, Due

LEMMA ClientSteady ==
  ASSUME IInv, NEW c \in Clients, Client(c)
  PROVE  Steady(c)
<1>1. sent[c] \in Nat /\ unread[c] \in Nat /\ unread[c] <= sent[c]
  BY SizeIsNat, IInvClientTypes DEF ClientTypes
<1>2. CASE Connects(c) \/ Ends(c)
  BY <1>2 DEF Connects, Ends, Steady, Taken
<1>3. CASE Aborts(c)
  <2>1. sent'[c] = Taken(c) /\ unread'[c] = 0 /\ UNCHANGED says
    BY <1>3, IInvClientTypes DEF Aborts, ClientTypes
  <2>2. stage'[c] = "aborted"
    BY <1>3, IInvClientTypes DEF Aborts, ClientTypes
  <2> QED BY <1>1, <2>1, <2>2 DEF Steady, Taken
<1>4. CASE Sends(c)
  <2> DEFINE most == RequestSize + MaxLater - sent[c]
  <2>0. most \in Int
    BY <1>1, SizeIsNat
  <2>1. PICK n \in 1..most : /\ sent' = [sent EXCEPT ![c] = sent[c] + n]
                             /\ unread' = [unread EXCEPT ![c] = unread[c] + n]
    BY <1>4 DEF Sends
  <2> HIDE DEF most
  <2>2. sent'[c] = sent[c] + n /\ unread'[c] = unread[c] + n
    BY <2>0, <2>1, IInvClientTypes DEF ClientTypes
  <2>3. sent[c] > 0 => says'[c] = says[c]
    BY <1>4, IInvClientTypes DEF Sends, ClientTypes
  <2> QED BY <1>1, <2>0, <2>1, <2>2, <2>3 DEF Steady, Taken
<1> QED BY <1>2, <1>3, <1>4 DEF Client

\* A thread that has shut down its side of c marks as late what c sends.
LEMMA ClientLate ==
  ASSUME IInv, NEW c \in Clients, Client(c), NEW t \in Threads, worker[t] = "close",
         io[t] = c, Drained(t)
  PROVE  unread'[c] > 0 => late'[c]
<1>1. unread[c] > 0 => late[c]
  BY DEF Drained
<1>2. CASE Connects(c) \/ Ends(c)
  BY <1>1, <1>2 DEF Connects, Ends
<1>3. CASE Aborts(c)
  BY <1>3, IInvClientTypes DEF Aborts, ClientTypes
<1>4. CASE Sends(c)
  <2>1. HasDescriptor(t)
    BY DEF HasDescriptor
  <2>2. IsShutDown(c)
    BY <2>1, PeerIsClient DEF IsShutDown
  <2>3. late' = [late EXCEPT ![c] = late[c] \/ IsShutDown(c)]
    BY <1>4 DEF Sends
  <2> QED BY <2>2, <2>3, IInvClientTypes, Zenon DEF ClientTypes
<1> QED BY <1>2, <1>3, <1>4 DEF Client

LEMMA ClientServes ==
  ASSUME IInv, ServiceInv, NEW c \in Clients, Client(c)
  PROVE  ServiceInv'
<1>1. Alone(c) /\ Steady(c)
  BY ClientAlone, ClientSteady
<1>2. OnePlace'
  BY PlaceConnects, PlaceGoes DEF ServiceInv, Client
<1>3. sent[c] \in Nat /\ unread[c] \in Nat
  BY SizeIsNat, IInvClientTypes DEF ClientTypes
<1>4. ServedHasBegun'
  <2>1. \A d \in Clients \ {c} : served'[d] => says'[d] = "request" /\ Taken(d)' >= RequestSize
    BY <1>1 DEF ServiceInv, ServedHasBegun, Alone, Same, Taken
  <2>2. served'[c] => says[c] = "request" /\ Taken(c) >= RequestSize
    BY <1>1 DEF ServiceInv, ServedHasBegun, Alone
  <2>3. Taken(c) >= RequestSize => Taken(c) > 0
    BY <1>3 DEF Taken, RequestSize
  <2>4. served'[c] => says'[c] = "request" /\ Taken(c)' >= RequestSize
    BY <1>1, <2>2, <2>3 DEF Steady
  <2> QED BY <2>1, <2>4 DEF ServedHasBegun
<1>5. ASSUME NEW t \in Threads PROVE Read(t)' /\ Drained(t)'
  <2>1. Read(t) /\ Drained(t) /\ UNCHANGED <<worker, io>>
    BY <1>1 DEF ServiceInv, Alone
  <2>2. CASE ~HasDescriptor(t)
    BY <2>1, <2>2 DEF HasDescriptor, Read, Drained
  <2>3. CASE HasDescriptor(t) /\ io[t] # c
    BY <1>1, <2>1, <2>3, AloneOthers
  <2>4. CASE HasDescriptor(t) /\ io[t] = c
    <3>1. io'[t] = c /\ worker'[t] = worker[t]
      BY <2>1, <2>4
    <3>2. Read(t)'
      BY <1>1, <2>1, <2>4, <3>1 DEF Read, Steady
    <3>3. Drained(t)'
      BY <2>1, <2>4, <3>1, ClientLate DEF Drained
    <3> QED BY <3>2, <3>3
  <2> QED BY <2>2, <2>3, <2>4
<1> QED BY <1>2, <1>4, <1>5 DEF ServiceInv

\* What AnswerInv says of a client.
Answered(c) ==
  /\ sent[c] = 0 \/ sent[c] >= RequestSize \/ stage[c] = "aborted"
  /\ stage[c] = "left" => sent[c] < RequestSize
  /\ stage[c] = "aborted" => unread[c] = 0
  /\ stage[c] = "new" => Taken(c) = 0 /\ Unanswered(c)
  /\ ~Elsewhere(c) => Taken(c) = 0 /\ Unanswered(c)

LEMMA AnswerInvParts ==
  AnswerInv <=> (\A c \in Clients : Answered(c)) /\ (\A t \in Threads : Answering(t))
BY DEF AnswerInv, Answered, Elsewhere

LEMMA ClientAnswered ==
  ASSUME IInv, OnePlace, Fragments = FALSE, NEW c \in Clients, Client(c), Answered(c),
         Alone(c), Steady(c)
  PROVE  Answered(c)'
<1>1. sent[c] \in Nat /\ unread[c] \in Nat /\ Taken(c)' = Taken(c)
      /\ (Unanswered(c)' <=> Unanswered(c))
  BY SizeIsNat, IInvClientTypes DEF ClientTypes, Alone, Steady, Unanswered
<1>2. CASE Connects(c)
  <2>1. /\ stage[c] = "new" /\ stage'[c] = "connected" /\ sent'[c] = sent[c]
    BY <1>2, IInvClientTypes DEF Connects, ClientTypes
  <2> QED BY <1>1, <2>1 DEF Answered
<1>3. CASE Sends(c) \/ Ends(c) \/ Aborts(c)
  <2>1. Elsewhere(c)' <=> Elsewhere(c)
    <3>1. UNCHANGED queue
      BY <1>3 DEF Sends, Ends, Aborts, netVars
    <3> QED BY <3>1 DEF Elsewhere, Waits
  <2>2. CASE Sends(c)
    <3>1. stage'[c] = "connected" /\ sent'[c] >= RequestSize
      <4> DEFINE most == RequestSize + MaxLater - sent[c]
      <4>1. most \in Int
        BY <1>1, SizeIsNat
      <4>2. PICK n \in 1..most : /\ sent[c] + n >= RequestSize
                                 /\ sent' = [sent EXCEPT ![c] = sent[c] + n]
        BY <2>2 DEF Sends
      <4> HIDE DEF most
      <4> QED BY <2>2, <4>1, <4>2, IInvClientTypes DEF ClientTypes, Sends
    <3> QED BY <1>1, <2>1, <3>1 DEF Answered
  <2>3. CASE Ends(c)
    <3>1. /\ stage'[c] = "left" /\ stage[c] = "connected" /\ sent'[c] = sent[c]
          /\ sent[c] < RequestSize
      BY <2>3, IInvClientTypes DEF Ends, ClientTypes
    <3> QED BY <1>1, <2>1, <3>1 DEF Answered
  <2>4. CASE Aborts(c)
    <3>1. stage'[c] = "aborted" /\ unread'[c] = 0
      BY <2>4, IInvClientTypes DEF Aborts, ClientTypes
    <3> QED BY <1>1, <2>1, <3>1 DEF Answered
  <2> QED BY <1>3, <2>2, <2>3, <2>4
<1> QED BY <1>2, <1>3 DEF Client

LEMMA ClientAnswers ==
  ASSUME IInv, ServiceInv, AnswerInv, Fragments = FALSE, NEW c \in Clients, Client(c)
  PROVE  AnswerInv'
<1>1. Alone(c) /\ Steady(c)
  BY ClientAlone, ClientSteady
<1>2. Answered(c)'
  BY <1>1, ClientAnswered, AnswerInvParts DEF ServiceInv
<1>3. \A d \in Clients \ {c} : Answered(d)'
  <2>1. TAKE d \in Clients \ {c}
  <2>2. Same(d) /\ (Elsewhere(d) => Elsewhere(d)') /\ Answered(d)
    BY <1>1, AnswerInvParts DEF Alone
  <2> QED BY <2>2 DEF Same, Answered, Taken, Unanswered
<1>4. ASSUME NEW t \in Threads PROVE Answering(t)'
  <2>1. Answering(t) /\ UNCHANGED <<worker, io>>
    BY <1>1 DEF AnswerInv, Alone
  <2>2. CASE ~HasDescriptor(t)
    BY <2>1, <2>2 DEF HasDescriptor, Answering
  <2>3. CASE HasDescriptor(t) /\ io[t] # c
    BY <1>1, <2>1, <2>3, AloneOthers
  <2>4. CASE HasDescriptor(t) /\ io[t] = c
    <3>1. io'[t] = c /\ worker'[t] = worker[t]
      BY <2>1, <2>4
    <3>2. stage[c] = "connected"
      BY <2>4 DEF ServiceInv, OnePlace, Client, Connects, Sends, Ends, Aborts
    <3>3. told'[c] = told[c] /\ served'[c] = served[c]
      BY <1>1 DEF Alone
    <3>4. Settled(c) => Settled(c)'
      BY <1>1, <3>2, <3>3 DEF Settled, Steady, Due
    <3> QED BY <1>1, <2>1, <2>4, <3>1, <3>3, <3>4 DEF Answering, Steady, Unanswered
  <2> QED BY <2>2, <2>3, <2>4
<1>5. \A d \in Clients : Answered(d)'
  BY <1>2, <1>3
<1> QED BY <1>4, <1>5 DEF AnswerInv, Answered, Elsewhere

-----------------------------------------------------------------------------
LEMMA InitService == Init => ServiceInv /\ AnswerInv
BY DEF Init, ServiceInv, AnswerInv, OnePlace, WaitsOnce, ServedOnce, Elsewhere, Waits,
       HasDescriptor, ServedHasBegun, Read, Drained, Answering, Taken, Unanswered, RequestSize

LEMMA StepService ==
  ASSUME IInv, ServiceInv, [Next]_vars
  PROVE  ServiceInv' /\ (AnswerInv /\ Fragments = FALSE => AnswerInv')
<1> DEFINE Goal == ServiceInv' /\ (AnswerInv /\ Fragments = FALSE => AnswerInv')
<1>1. ASSUME Carries, OnePlace' PROVE Goal
  BY <1>1, CarriesService, CarriesAnswer
<1>2. OnePlace
  BY DEF ServiceInv
<1>3. CASE CloseListener \/ UNCHANGED vars
  BY <1>1, <1>2, <1>3, CloseListenerCarries, StutterCarries
<1>4. ASSUME NEW t \in Threads, Worker(t) PROVE Goal
  <2>1. CASE AcceptCalled(t) \/ AcceptBlocks(t)
    BY <1>1, <1>2, <2>1, IdleCarries
  <2>2. CASE AcceptFails(t) \/ Accepts(t) \/ CloseSocket(t)
    BY <1>1, <1>2, <2>2, AcceptFailsCarries, AcceptsCarries, CloseSocketCarries
  <2>3. CASE Working(t)
    BY <2>3, WorkingServes
  <2> QED BY <1>4, <2>1, <2>2, <2>3 DEF Worker, Working
<1>5. CASE ListenCreates \/ ListenStarts \/ ListenThrows
  BY <1>1, <1>2, <1>5, QuietOwnerCarries
<1>6. ASSUME NEW c \in Clients, Client(c) PROVE Goal
  BY <1>6, ClientServes, ClientAnswers
<1> QED BY <1>3, <1>4, <1>5, <1>6 DEF Next, Owner

\* Only the thread that has accepted it closes a client's connection.
LEMMA EndedBy ==
  ASSUME IInv, [Next]_vars, NEW c \in Clients, Ended(c)
  PROVE  \E t \in Threads : worker[t] = "close" /\ io[t] = c
<1>1. PICK f \in Fds : table[f] = c /\ table'[f] # c
  BY DEF Ended
<1>2. CASE Owner
  <2>1. c \notin Sockets /\ c # Free
    OBVIOUS
  <2>2. CASE CloseListener
    <3>1. listener \in Fds /\ table' = [table EXCEPT ![listener] = Free]
      BY <2>2 DEF CloseListener, IInv, TypeOK
    <3>2. table[listener] \in Sockets
      BY <3>1 DEF IInv, DescriptorsOwned
    <3> QED BY <1>1, <2>1, <3>1, <3>2 DEF IInv, TypeOK
  <2>3. CASE ListenCreates
    <3>1. PICK g \in Fds, s \in Sockets : table[g] = Free /\ table' = [table EXCEPT ![g] = s]
      BY <2>3 DEF ListenCreates, IsFree
    <3> QED BY <1>1, <2>1, <3>1 DEF IInv, TypeOK
  <2>4. CASE ListenStarts \/ ListenThrows
    BY <1>1, <2>4 DEF ListenStarts, ListenThrows, netVars
  <2> QED BY <1>2, <2>2, <2>3, <2>4 DEF Owner
<1>3. ASSUME NEW t \in Threads, Worker(t) PROVE worker[t] = "close" /\ io[t] = c
  <2>1. CASE Accepts(t)
    <3>1. PICK g \in Fds : table[g] = Free /\ \E d : table' = [table EXCEPT ![g] = d]
      BY <2>1 DEF Accepts, IsFree
    <3>2. g # f
      BY <1>1, <3>1
    <3> QED BY <1>1, <3>1, <3>2 DEF IInv, TypeOK
  <2>2. CASE CloseSocket(t)
    <3>1. HasDescriptor(t) /\ worker[t] = "close" /\ table' = [table EXCEPT ![fd[t]] = Free]
      BY <2>2 DEF CloseSocket, Closes, HasDescriptor
    <3>2. fd[t] = f
      BY <1>1, <3>1 DEF IInv, TypeOK
    <3> QED BY <1>1, <3>1, <3>2, PeerIsClient DEF Peer
  <2>3. CASE UNCHANGED table
    BY <1>1, <2>3
  <2> QED BY <1>3, <2>1, <2>2, <2>3
          DEF Worker, AcceptCalled, AcceptBlocks, AcceptFails, ReadHeader, ReadBody, ReadParams,
              ReadFails, Refuse, ServeReads, ServeEnds, Drain, DrainEnds, netVars
<1>4. CASE \/ \E d \in Clients : Client(d)
           \/ UNCHANGED vars
  BY <1>1, <1>4 DEF Client, Connects, Sends, Ends, Aborts, netVars, vars
<1> QED BY <1>2, <1>3, <1>4 DEF Next

-----------------------------------------------------------------------------
LEMMA SpecService == Spec => [](IInv /\ ServiceInv)
<1>1. Init => IInv /\ ServiceInv
  BY InitIInv, InitService
<1>2. IInv /\ ServiceInv /\ [Next]_vars => (IInv /\ ServiceInv)'
  BY StepIInv, StepService
<1> QED BY <1>1, <1>2, PTL DEF Spec

\* accept() returns a connection only for a client that has sent a begin-request record
\* with a role there is and its parameters, whole or in pieces, whatever other threads
\* and clients do (listener.cpp 65-73).
THEOREM ServedClientsHaveBegun == Spec => []ServedHasBegun
BY SpecService, PTL DEF ServiceInv

\* No connection is reset by the server over data it has not read, unless the client has
\* gone on sending behind the server's shutdown() (net/descriptor.hpp 169-203).
THEOREM NothingIsReset == Spec => NoReset
<1>1. IInv /\ ServiceInv /\ [Next]_vars
        => [\A c \in Clients : Ended(c) /\ unread[c] > 0 => late[c]]_vars
  <2> SUFFICES ASSUME IInv, ServiceInv, [Next]_vars, NEW c \in Clients, Ended(c), unread[c] > 0
               PROVE  late[c]
    OBVIOUS
  <2>1. PICK t \in Threads : worker[t] = "close" /\ io[t] = c
    BY EndedBy
  <2> QED BY <2>1 DEF ServiceInv, Drained
<1> QED BY <1>1, SpecService, PTL DEF Spec, NoReset

LEMMA SpecAnswer == ASSUME Fragments = FALSE PROVE Spec => [](IInv /\ ServiceInv /\ AnswerInv)
<1>1. Init => IInv /\ ServiceInv /\ AnswerInv
  BY InitIInv, InitService
<1>2. IInv /\ ServiceInv /\ AnswerInv /\ [Next]_vars => (IInv /\ ServiceInv /\ AnswerInv)'
  BY StepIInv, StepService
<1> QED BY <1>1, <1>2, PTL DEF Spec

\* When a connection is closed, a complete client has been given what it is due.
LEMMA EndedSettled ==
  ASSUME IInv, AnswerInv, [Next]_vars, NEW c \in Clients, Ended(c), Complete(c)
  PROVE  told[c] = Due(c) /\ (says[c] = "request" => served[c])
<1>1. PICK t \in Threads : worker[t] = "close" /\ io[t] = c
  BY EndedBy
<1>2. Settled(c)
  BY <1>1 DEF AnswerInv, Answering
<1>3. sent[c] \in Nat /\ (stage[c] = "left" => sent[c] < RequestSize)
  BY SizeIsNat, IInvClientTypes DEF AnswerInv, ClientTypes
<1> QED BY <1>2, <1>3, SizeIsNat DEF Settled, Complete

\* When clients send their requests in one piece, every client whose first record is
\* refused is told the status for it, and no other is told anything (listener.cpp 56-87).
THEOREM EveryRefusalIsTold == ASSUME Fragments = FALSE PROVE Spec => RefusalsAreTold
<1>1. IInv /\ AnswerInv /\ [Next]_vars
        => [\A c \in Clients :
              Ended(c) /\ Complete(c) =>
                told[c] = CASE says[c] = "no_begin" -> "cant_mpx_conn"
                            [] says[c] = "bad_role" -> "unknown_role"
                            [] OTHER                -> "nothing"]_vars
  BY EndedSettled DEF Due
<1> QED BY <1>1, SpecAnswer, PTL DEF Spec, RefusalsAreTold

\* When clients send their requests in one piece, accept() returns a connection for every
\* request, however many threads race for it and for descriptor numbers.
THEOREM EveryRequestIsServed == ASSUME Fragments = FALSE PROVE Spec => RequestsAreServed
<1>1. IInv /\ AnswerInv /\ [Next]_vars
        => [\A c \in Clients : Ended(c) /\ Complete(c) /\ says[c] = "request" => served[c]]_vars
  BY EndedSettled
<1> QED BY <1>1, SpecAnswer, PTL DEF Spec, RequestsAreServed

-----------------------------------------------------------------------------
(* What the threads are for their clients: Pool.                           *)

\* A thread that may answer has not, and refuses only what it has read.
Asked(t) ==
  LET c == io[t] IN
  /\ worker[t] \in {"header", "body", "params", "refuse"} => Unanswered(c)
  /\ worker[t] = "refuse" => says[c] \in {"no_begin", "bad_role"} /\ Taken(c) > 0

\* Who is with no thread has not been answered, and nobody has of whom nothing was read.
Unasked(c) ==
  /\ stage[c] = "new" \/ ~Elsewhere(c) => Unanswered(c)
  /\ ~Unanswered(c) => Taken(c) > 0

AskedInv == (\A t \in Threads : Asked(t)) /\ (\A c \in Clients : Unasked(c))

LEMMA CarriesAsked ==
  ASSUME IInv, Carries, AskedInv
  PROVE  AskedInv'
<1>1. ASSUME NEW u \in Threads PROVE Asked(u)'
  <2>1. CASE worker'[u] \notin Places
    BY <2>1 DEF Asked, Places
  <2>2. CASE HasDescriptor(u) /\ worker'[u] = worker[u] /\ io'[u] = io[u] /\ Same(io[u])
    <3>1. PICK d \in Clients : d = io[u]
      BY <2>2 DEF IInv, Holds
    <3>2. io'[u] = d /\ worker'[u] = worker[u] /\ Same(d) /\ Asked(u)
      BY <2>2, <3>1 DEF AskedInv
    <3> QED BY <3>1, <3>2 DEF Same, Asked, Taken, Unanswered
  <2>3. CASE /\ worker'[u] = "header" /\ io'[u] \in Clients
             /\ Same(io'[u]) /\ ~Elsewhere(io'[u])
    <3>1. PICK d \in Clients : d = io'[u]
      BY <2>3
    <3>2. Unanswered(d)
      BY <2>3, <3>1 DEF AskedInv, Unasked
    <3> QED BY <2>3, <3>1, <3>2 DEF Same, Asked, Unanswered
  <2> QED BY <2>1, <2>2, <2>3 DEF Carries
<1>2. ASSUME NEW c \in Clients PROVE Unasked(c)'
  <2>1. Unasked(c) /\ (Elsewhere(c) => Elsewhere(c)') /\ (Same(c) \/ Forgotten(c))
    BY DEF Carries, AskedInv
  <2>2. CASE Same(c)
    BY <2>1, <2>2 DEF Same, Unasked, Taken, Unanswered
  <2>3. CASE Forgotten(c)
    BY <2>3 DEF Forgotten, Unasked, Unanswered
  <2> QED BY <2>1, <2>2, <2>3
<1> QED BY <1>1, <1>2 DEF AskedInv

\* Thread t answers its client c, or leaves the answer for later.
Answers(t, c) ==
  \/ UNCHANGED <<told, served>>
  \/ /\ worker[t] = "refuse"
     /\ told' = [told EXCEPT ![c] = IF says[c] = "bad_role" THEN "unknown_role"
                                                             ELSE "cant_mpx_conn"]
     /\ UNCHANGED served
  \/ /\ worker[t] = "params"
     /\ served' = [served EXCEPT ![c] = TRUE]
     /\ UNCHANGED told

LEMMA WorkingAnswers ==
  ASSUME IInv, NEW t \in Threads, NEW c \in Clients, Works(t, c), Working(t)
  PROVE  Answers(t, c)
<1>1. Peer(t) = c
  BY PeerIsClient DEF Works
<1> QED BY <1>1
     DEF Answers, Working, ReadHeader, ReadBody, ReadParams, ReadFails, Refuse, ServeReads,
         ServeEnds, Drain, DrainEnds, clientVars

\* What thread t goes on to: nothing behind the answer is before it again, and it refuses
\* what it has read of.
LEMMA WorkingGoes ==
  ASSUME IInv, NEW t \in Threads, NEW c \in Clients, Works(t, c), Working(t)
  PROVE  /\ worker'[t] \in {"header", "body", "params", "refuse"} =>
              worker[t] \in {"header", "body", "params"} /\ UNCHANGED <<told, served>>
         /\ worker'[t] = "refuse" =>
              /\ says[c] = "bad_version" \/ says[c] = "no_begin" \/ says[c] = "bad_role"
              /\ says[c] # "bad_version" /\ unread'[c] < unread[c]
<1>1. Peer(t) = c /\ HasDescriptor(t) /\ c = io[t]
  BY PeerIsClient DEF Works
<1>2. CASE ReadHeader(t)
  <2>1. PICK next :
          /\ Receives(t, HeaderSize, next)
          /\ next = CASE says[c] = "bad_version" -> "drain"
                      [] says[c] = "no_begin"    -> "refuse"
                      [] OTHER                   -> "body"
    BY <1>1, <1>2 DEF ReadHeader
  <2>2. /\ unread[c] \in Nat
        /\ IF unread[c] >= HeaderSize
             THEN worker'[t] = next /\ unread'[c] = unread[c] - HeaderSize
             ELSE worker'[t] = "drain" /\ unread'[c] = 0
    <3>1. HeaderSize \in Nat
      OBVIOUS
    <3> QED BY <1>1, <2>1, <3>1, ReceivesFrom
  <2> QED BY <1>2, <2>1, <2>2 DEF ReadHeader
<1>3. CASE ReadBody(t)
  <2>1. PICK next :
          /\ Receives(t, BodySize, next)
          /\ next = IF says[c] = "bad_role" THEN "refuse" ELSE "params"
    BY <1>1, <1>3 DEF ReadBody
  <2>2. /\ unread[c] \in Nat
        /\ IF unread[c] >= BodySize
             THEN worker'[t] = next /\ unread'[c] = unread[c] - BodySize
             ELSE worker'[t] = "drain" /\ unread'[c] = 0
    <3>1. BodySize \in Nat
      OBVIOUS
    <3> QED BY <1>1, <2>1, <3>1, ReceivesFrom
  <2> QED BY <1>3, <2>1, <2>2 DEF ReadBody
<1>4. CASE ReadParams(t)
  <2>1. \/ worker'[t] = "serving"
        \/ worker'[t] = worker[t] /\ worker[t] = "params" /\ UNCHANGED <<told, served>>
    BY <1>4 DEF ReadParams, GoesTo, IInv, TypeOK
  <2> QED BY <2>1
<1>5. CASE ReadFails(t) \/ Refuse(t) \/ ServeReads(t) \/ ServeEnds(t) \/ Drain(t) \/ DrainEnds(t)
  <2>1. worker'[t] \in {"serving", "drain", "close"}
    BY <1>5 DEF ReadFails, Refuse, ServeReads, ServeEnds, Drain, DrainEnds, GoesTo,
                workerVars, IInv, TypeOK
  <2> QED BY <2>1
<1> QED BY <1>2, <1>3, <1>4, <1>5 DEF Working

LEMMA WorkingAsked ==
  ASSUME IInv, OnePlace, ServedHasBegun', AskedInv, NEW t \in Threads, Working(t)
  PROVE  AskedInv'
<1>1. PICK c \in Clients : Works(t, c)
  BY WorkingWorks DEF Works
<1>2. /\ unread[c] \in Nat /\ unread'[c] \in Nat /\ unread'[c] <= unread[c]
      /\ sent[c] \in Nat /\ unread[c] <= sent[c] /\ UNCHANGED <<sent, says>>
  BY <1>1, SizeIsNat, IInvClientTypes DEF Works, ClientTypes
<1>3. Taken(c)' >= Taken(c) /\ (unread'[c] < unread[c] => Taken(c)' > 0)
  BY <1>2 DEF Taken
<1>4. ASSUME NEW u \in Threads PROVE Asked(u)'
  <2>1. CASE u = t
    <3>1. io'[t] = c /\ io[t] = c /\ Asked(t)
      BY <1>1 DEF Works, AskedInv
    <3>2. worker'[t] \in {"header", "body", "params", "refuse"} => Unanswered(c)'
      BY <1>1, <3>1, WorkingGoes DEF Asked, Unanswered
    <3>3. worker'[t] = "refuse" => says'[c] \in {"no_begin", "bad_role"} /\ Taken(c)' > 0
      BY <1>1, <1>2, <1>3, WorkingGoes
    <3> QED BY <2>1, <3>1, <3>2, <3>3 DEF Asked
  <2>2. CASE u # t /\ HasDescriptor(u)
    <3>1. PICK d \in Clients : d = io[u] /\ d # c
      BY <1>1, <2>2 DEF IInv, Holds, OnePlace, ServedOnce, Works
    <3>2. /\ io'[u] = d /\ worker'[u] = worker[u] /\ UNCHANGED <<says, sent>>
          /\ unread'[d] = unread[d] /\ told'[d] = told[d] /\ served'[d] = served[d]
      BY <1>1, <2>2, <3>1 DEF Works
    <3> QED BY <3>1, <3>2 DEF AskedInv, Asked, Taken, Unanswered
  <2>3. CASE u # t /\ ~HasDescriptor(u)
    <3>1. worker'[u] \notin Places
      BY <1>1, <2>3 DEF Works, HasDescriptor, IInv, TypeOK, Places
    <3> QED BY <3>1 DEF Asked, Places
  <2> QED BY <2>1, <2>2, <2>3
<1>5. ASSUME NEW d \in Clients PROVE Unasked(d)'
  <2>1. Elsewhere(d)' <=> Elsewhere(d)
    BY <1>1 DEF Works, Elsewhere, Waits
  <2>2. CASE d # c
    <3>1. /\ UNCHANGED <<stage, says, sent>>
          /\ unread'[d] = unread[d] /\ told'[d] = told[d] /\ served'[d] = served[d]
      BY <1>1, <2>2 DEF Works
    <3> QED BY <2>1, <3>1 DEF AskedInv, Unasked, Taken, Unanswered
  <2>3. CASE d = c
    <3>1. stage'[c] # "new" /\ Elsewhere(c)'
      BY <1>1, <2>1, <2>3 DEF OnePlace, Works
    <3>2. ~Unanswered(c) => Taken(c) > 0
      BY DEF AskedInv, Unasked
    <3>3. served'[c] => Taken(c)' > 0
      BY SizeIsNat, <1>2 DEF ServedHasBegun, RequestSize, Taken
    <3>4. worker[t] = "refuse" => Taken(c) > 0
      BY <1>1 DEF AskedInv, Asked, Works
    <3>5. ~Unanswered(c)' => Taken(c)' > 0
      <4>1. Taken(c) \in Int /\ Taken(c)' \in Int
        BY <1>2 DEF Taken
      <4>2. CASE UNCHANGED <<told, served>>
        BY <1>3, <3>2, <4>1, <4>2 DEF Unanswered
      <4>3. CASE worker[t] = "refuse"
        BY <1>3, <3>4, <4>1, <4>3
      <4>4. CASE worker[t] = "params" /\ served' = [served EXCEPT ![c] = TRUE]
        <5>1. served'[c]
          BY <4>4, IInvClientTypes DEF ClientTypes
        <5> QED BY <3>3, <5>1
      <4> QED BY <1>1, <4>2, <4>3, <4>4, WorkingAnswers DEF Answers
    <3> QED BY <2>3, <3>1, <3>5 DEF Unasked
  <2> QED BY <2>2, <2>3
<1> QED BY <1>4, <1>5 DEF AskedInv

LEMMA ClientAsked ==
  ASSUME IInv, OnePlace, AskedInv, NEW c \in Clients, Client(c)
  PROVE  AskedInv'
<1>1. Alone(c) /\ Steady(c)
  BY ClientAlone, ClientSteady
<1>2. ASSUME NEW t \in Threads PROVE Asked(t)'
  <2>1. Asked(t) /\ UNCHANGED <<worker, io>>
    BY <1>1 DEF AskedInv, Alone
  <2>2. CASE ~HasDescriptor(t)
    BY <2>1, <2>2 DEF HasDescriptor, Asked
  <2>3. CASE HasDescriptor(t)
    <3>1. PICK d \in Clients : d = io[t]
      BY <2>3 DEF IInv, Holds
    <3>2. /\ Unanswered(d)' <=> Unanswered(d)
          /\ Taken(d)' = Taken(d) /\ (Taken(d) > 0 => says'[d] = says[d])
      BY <1>1 DEF Alone, Steady, Same, Taken, Unanswered
    <3> QED BY <2>1, <3>1, <3>2 DEF Asked
  <2> QED BY <2>2, <2>3
<1>3. ASSUME NEW d \in Clients PROVE Unasked(d)'
  <2>1. CASE d # c
    <3>1. Same(d) /\ (Elsewhere(d) => Elsewhere(d)') /\ Unasked(d)
      BY <1>1, <2>1 DEF Alone, AskedInv
    <3> QED BY <3>1 DEF Same, Unasked, Taken, Unanswered
  <2>2. CASE d = c
    <3>1. /\ Unanswered(c)' <=> Unanswered(c)
          /\ Taken(c)' = Taken(c) /\ Unasked(c)
      BY <1>1 DEF Alone, Steady, Unanswered, AskedInv
    <3>2. CASE Connects(c)
      <4>1. Unanswered(c)
        BY <3>1, <3>2 DEF Connects, Unasked
      <4> QED BY <2>2, <3>1, <4>1 DEF Unasked
    <3>3. CASE Sends(c) \/ Ends(c) \/ Aborts(c)
      <4>1. UNCHANGED queue /\ stage'[c] # "new"
        BY <3>3, IInvClientTypes DEF Sends, Ends, Aborts, netVars, ClientTypes
      <4>2. Elsewhere(c)' <=> Elsewhere(c)
        BY <4>1 DEF Elsewhere, Waits
      <4> QED BY <2>2, <3>1, <4>1, <4>2 DEF Unasked
    <3> QED BY <3>2, <3>3 DEF Client
  <2> QED BY <2>1, <2>2
<1> QED BY <1>2, <1>3 DEF AskedInv

LEMMA StepAsked ==
  ASSUME IInv, ServiceInv, ServiceInv', AskedInv, [Next]_vars
  PROVE  AskedInv'
<1>1. OnePlace /\ ServedHasBegun'
  BY DEF ServiceInv
<1>2. CASE CloseListener \/ UNCHANGED vars
  BY <1>1, <1>2, CloseListenerCarries, StutterCarries, CarriesAsked
<1>3. ASSUME NEW t \in Threads, Worker(t) PROVE AskedInv'
  <2>1. CASE AcceptCalled(t) \/ AcceptBlocks(t)
    BY <1>1, <2>1, IdleCarries, CarriesAsked
  <2>2. CASE AcceptFails(t) \/ Accepts(t) \/ CloseSocket(t)
    BY <1>1, <2>2, AcceptFailsCarries, AcceptsCarries, CloseSocketCarries, CarriesAsked
  <2>3. CASE Working(t)
    BY <1>1, <2>3, WorkingAsked
  <2> QED BY <1>3, <2>1, <2>2, <2>3 DEF Worker, Working
<1>4. CASE ListenCreates \/ ListenStarts \/ ListenThrows
  BY <1>1, <1>4, QuietOwnerCarries, CarriesAsked
<1>5. ASSUME NEW c \in Clients, Client(c) PROVE AskedInv'
  BY <1>1, <1>5, ClientAsked
<1> QED BY <1>2, <1>3, <1>4, <1>5 DEF Next, Owner
\* The steps of Pool.
LEMMA PromisedNext ==
  /\ \A c \in Clients : Promise!Arrives(c) \/ Promise!Asks(c) => Promise!Next
  /\ \A lost \in SUBSET Waiting : Promise!Drops(lost) => Promise!Next
  /\ \A lost \in SUBSET Waiting : \A t \in Threads : \A c \in Waiting :
       Promise!Takes(t, c, lost) => Promise!Next
  /\ \A t \in Threads :
       Promise!Refuses(t) \/ Promise!Serves(t) \/ Promise!Ends(t) => Promise!Next
BY Zenon DEF Promise!Next

Promised == [Promise!Next]_(Promise!poolVars)

\* Waiting is to be in a queue.
LEMMA WaitingIs ==
  ASSUME IInv, IInv', NEW c
  PROVE  /\ c \in Waiting <=> c \in Clients /\ ~Elsewhere(c)
         /\ c \in Waiting' <=> c \in Clients /\ ~Elsewhere(c)'
<1>1. queue \in [Sockets -> Seq(Clients)] /\ queue' \in [Sockets -> Seq(Clients)]
  BY DEF IInv, TypeOK
<1>2. c \in Waiting <=> c \in Clients /\ ~Elsewhere(c)
  BY <1>1 DEF Waiting, Elsewhere, Waits
<1>3. c \in Waiting' <=> c \in Clients /\ ~Elsewhere(c)'
  BY <1>1 DEF Waiting, Elsewhere, Waits
<1> QED BY <1>2, <1>3

LEMMA AcceptedIs ==
  ASSUME NEW t \in Threads
  PROVE  /\ HasDescriptor(t) => Accepted[t] = io[t]
         /\ ~HasDescriptor(t) => Accepted[t] = None
BY DEF Accepted

LEMMA AcceptedStays ==
  ASSUME \A t \in Threads : /\ HasDescriptor(t)' <=> HasDescriptor(t)
                            /\ HasDescriptor(t) => io'[t] = io[t]
  PROVE  Accepted' = Accepted
BY DEF Accepted

LEMMA QuietPromised ==
  ASSUME UNCHANGED <<queue, says, told, served>>, Accepted' = Accepted
  PROVE  Promised
BY DEF Promised, Promise!poolVars, Waiting

LEMMA WorkingPromised ==
  ASSUME IInv, ServiceInv, AskedInv, NEW t \in Threads, Working(t)
  PROVE  Promised
<1>1. PICK c \in Clients : Works(t, c)
  BY WorkingWorks DEF Works
<1>2. /\ UNCHANGED <<queue, says, io>> /\ Accepted[t] = c /\ io[t] = c
  BY <1>1, AcceptedIs DEF Works
<1>3. Accepted' = Accepted
  <2>1. \A u \in Threads : HasDescriptor(u)' <=> HasDescriptor(u)
    BY <1>1 DEF Works, HasDescriptor, Places
  <2> QED BY <1>2, <2>1, AcceptedStays
<1>4. Waiting' = Waiting
  BY <1>2 DEF Waiting
<1>5. CASE UNCHANGED <<told, served>>
  BY <1>2, <1>3, <1>5, QuietPromised
<1>6. CASE /\ worker[t] = "refuse"
           /\ told' = [told EXCEPT ![c] = IF says[c] = "bad_role" THEN "unknown_role"
                                                                   ELSE "cant_mpx_conn"]
           /\ UNCHANGED served
  <2>1. says[c] \in {"no_begin", "bad_role"} /\ Unanswered(c)
    BY <1>2, <1>6 DEF AskedInv, Asked
  <2>2. Promise!Due(says[c]) = IF says[c] = "bad_role" THEN "unknown_role" ELSE "cant_mpx_conn"
    BY <2>1 DEF Promise!Due
  <2>3. Promise!Refuses(t)
    BY <1>2, <1>3, <1>4, <1>6, <2>1, <2>2 DEF Promise!Refuses, Promise!Unanswered, Unanswered
  <2> QED BY <2>3, PromisedNext DEF Promised
<1>7. CASE /\ worker[t] = "params"
           /\ served' = [served EXCEPT ![c] = TRUE]
           /\ UNCHANGED told
  <2>1. says[c] = "request" /\ Unanswered(c)
    BY <1>2, <1>7 DEF AskedInv, Asked, ServiceInv, Read
  <2>2. Promise!Serves(t)
    BY <1>2, <1>3, <1>4, <1>7, <2>1 DEF Promise!Serves, Promise!Unanswered, Unanswered
  <2> QED BY <2>2, PromisedNext DEF Promised
<1> QED BY <1>1, <1>5, <1>6, <1>7, WorkingAnswers DEF Answers

LEMMA ConnectsPromised ==
  ASSUME IInv, IInv', OnePlace, NEW c \in Clients, Connects(c)
  PROVE  Promised
<1>1. stage[c] = "new" /\ UNCHANGED <<worker, io, says, told, served>>
  BY DEF Connects, workerVars
<1>2. Accepted' = Accepted
  BY <1>1, AcceptedStays DEF HasDescriptor
<1>3. c \notin Waiting
  BY <1>1, WaitingIs DEF OnePlace
<1>4. ~Promise!IsWith(c)
  <2>1. SUFFICES ASSUME NEW t \in Threads, Accepted[t] = c PROVE FALSE
    BY DEF Promise!IsWith
  <2> QED BY <1>1, <2>1, AcceptedIs DEF OnePlace
<1>5. Waiting' = Waiting \cup {c}
  <2>1. PICK s \in Sockets : queue' = [queue EXCEPT ![s] = Append(queue[s], c)]
    BY DEF Connects
  <2>2. queue \in [Sockets -> Seq(Clients)]
    BY IInvSocketTypes DEF SocketTypes
  <2>3. \A d : \A r \in Sockets : \A i \in Nat :
          Waits(d, r, i)' <=> \/ Waits(d, r, i)
                              \/ d = c /\ r = s /\ i = Len(queue[s]) + 1
    BY <2>1, <2>2 DEF Waits
  <2>4. Len(queue[s]) + 1 \in Nat
    BY <2>2
  <2>5. \A d : ~Elsewhere(d)' <=> ~Elsewhere(d) \/ d = c
    BY <2>3, <2>4 DEF Elsewhere
  <2> QED BY <2>5, WaitingIs
<1>6. Promise!Arrives(c)
  BY <1>1, <1>2, <1>3, <1>4, <1>5 DEF Promise!Arrives
<1> QED BY <1>6, PromisedNext DEF Promised

LEMMA SendsPromised ==
  ASSUME IInv, AskedInv, NEW c \in Clients, Sends(c)
  PROVE  Promised
<1>1. UNCHANGED <<worker, io, queue, told, served>>
  BY DEF Sends, workerVars, netVars
<1>2. PICK r \in FirstRecords : /\ sent[c] > 0 => r = says[c]
                                /\ says' = [says EXCEPT ![c] = r]
  BY DEF Sends
<1>3. Accepted' = Accepted /\ Waiting' = Waiting
  BY <1>1, AcceptedStays DEF HasDescriptor, Waiting
<1>4. CASE Unanswered(c)
  <2>1. r \in Promise!Records
    BY DEF FirstRecords, Promise!Records
  <2>2. Promise!Asks(c)
    BY <1>1, <1>2, <1>3, <1>4, <2>1 DEF Promise!Asks, Promise!Unanswered, Unanswered
  <2> QED BY <2>2, PromisedNext DEF Promised
<1>5. CASE ~Unanswered(c)
  <2>1. Taken(c) > 0
    BY <1>5 DEF AskedInv, Unasked
  <2>2. sent[c] \in Nat /\ unread[c] \in Nat
    BY SizeIsNat, IInvClientTypes DEF ClientTypes
  <2>3. says' = says
    BY <1>2, <2>1, <2>2, IInvClientTypes DEF Taken, ClientTypes
  <2> QED BY <1>1, <1>3, <2>3, QuietPromised
<1> QED BY <1>4, <1>5

LEMMA ClientPromised ==
  ASSUME IInv, IInv', OnePlace, AskedInv, NEW c \in Clients, Client(c)
  PROVE  Promised
<1>1. CASE Ends(c) \/ Aborts(c)
  <2>1. UNCHANGED <<worker, io, queue, says, told, served>>
    BY <1>1 DEF Ends, Aborts, workerVars, netVars
  <2>2. Accepted' = Accepted
    BY <2>1, AcceptedStays DEF HasDescriptor
  <2> QED BY <2>1, <2>2, QuietPromised
<1> QED BY <1>1, ConnectsPromised, SendsPromised DEF Client

\* Those who wait at a socket wait on, or are dropped with it.
LEMMA LeavesPromised ==
  ASSUME IInv, IInv', OnePlace, NEW s \in Sockets, NEW referred \in BOOLEAN,
         Leaves(s, queue[s], referred), Accepted' = Accepted
  PROVE  Promised
<1>1. CASE referred
  <2>1. UNCHANGED <<queue, clientVars>>
    BY <1>1, IInvSocketTypes DEF Leaves, SocketTypes
  <2> QED BY <2>1, QuietPromised DEF clientVars
<1>2. CASE ~referred
  <2> DEFINE gone == {queue[s][i] : i \in DOMAIN queue[s]}
  <2>1. queue' = [queue EXCEPT ![s] = <<>>] /\ Forget(gone)
    BY <1>2 DEF Leaves
  <2>2. queue \in [Sockets -> Seq(Clients)]
    BY IInvSocketTypes DEF SocketTypes
  <2>3. \A d : d \in gone <=> \E i \in Nat : Waits(d, s, i)
    BY <2>2 DEF Waits
  <2>4. \A d : \A r \in Sockets : \A i \in Nat : Waits(d, r, i)' <=> Waits(d, r, i) /\ r # s
    BY <2>1, <2>2 DEF Waits
  <2>5. gone \subseteq Clients
    BY <2>2
  <2> HIDE DEF gone
  <2>6. gone \subseteq Waiting
    BY <2>3, <2>5, WaitingIs DEF Elsewhere
  <2>7. \A d \in Clients : ~Elsewhere(d)' <=> ~Elsewhere(d) /\ d \notin gone
    BY <2>3, <2>4 DEF OnePlace, WaitsOnce, Elsewhere
  <2>8. Waiting' = Waiting \ gone
    BY <2>7, WaitingIs
  <2>9. Promise!Leave(gone)
    BY <2>1, Zenon DEF Forget, Promise!Leave
  <2>10. Promise!Drops(gone)
    BY <2>8, <2>9 DEF Promise!Drops
  <2> QED BY <2>6, <2>10, PromisedNext DEF Promised
<1> QED BY <1>1, <1>2

LEMMA CloseListenerPromised ==
  ASSUME IInv, IInv', OnePlace, CloseListener
  PROVE  Promised
<1>1. PICK s \in Sockets : s = table[listener]
  BY DEF IInv, TypeOK, DescriptorsOwned, CloseListener
<1>2. Leaves(s, queue[s], IsHeld(s, Threads)) /\ IsHeld(s, Threads) \in BOOLEAN
  BY <1>1 DEF CloseListener, IsHeld
<1>3. Accepted' = Accepted
  BY AcceptedStays DEF CloseListener, workerVars, HasDescriptor
<1> QED BY <1>2, <1>3, LeavesPromised

LEMMA AcceptFailsPromised ==
  ASSUME IInv, IInv', OnePlace, NEW t \in Threads, AcceptFails(t)
  PROVE  Promised
<1>1. UNCHANGED io /\ worker' = [worker EXCEPT ![t] = "idle"] /\ ~HasDescriptor(t)
  BY DEF AcceptFails, GoesTo, HasDescriptor
<1>2. Accepted' = Accepted
  <2>1. \A u \in Threads : HasDescriptor(u)' <=> HasDescriptor(u)
    BY <1>1 DEF IInv, TypeOK, HasDescriptor
  <2> QED BY <1>1, <2>1, AcceptedStays
<1>3. CASE UNCHANGED <<socket, queue, clientVars>>
  BY <1>2, <1>3, QuietPromised DEF clientVars
<1>4. CASE worker[t] = "blocked"
  <2>1. PICK s \in Sockets : s = inside[t]
    BY <1>4 DEF IInv, Holds
  <2> DEFINE referred == IsOpen(s) \/ IsHeld(s, Threads \ {t})
  <2>2. Leaves(s, queue[s], referred) \/ UNCHANGED <<socket, queue, clientVars>>
    BY <2>1 DEF AcceptFails
  <2>3. referred \in BOOLEAN
    BY DEF IsOpen, IsHeld
  <2> HIDE DEF referred
  <2> QED BY <1>2, <1>3, <2>2, <2>3, LeavesPromised
<1> QED BY <1>3, <1>4 DEF AcceptFails

LEMMA AcceptsPromised ==
  ASSUME IInv, IInv', OnePlace, NEW t \in Threads, Accepts(t)
  PROVE  Promised
<1>1. PICK s \in Sockets :
        /\ s = inside[t] /\ queue \in [Sockets -> Seq(Clients)] /\ queue[s] # <<>>
        /\ queue[s] \in Seq(Clients) /\ Len(queue[s]) \in Nat \ {0}
  BY IInvSocketTypes DEF IInv, Holds, SocketTypes, Accepts
<1>2. PICK c \in Clients : Waits(c, s, 1) /\ c = Head(queue[s])
  BY <1>1 DEF Waits
<1> DEFINE referred == IsOpen(s) \/ IsHeld(s, Threads \ {t})
           rest == Tail(queue[s])
           lost == IF referred THEN {} ELSE {rest[i] : i \in DOMAIN rest}
<1>3. /\ worker[t] = "blocked" /\ worker' = [worker EXCEPT ![t] = "header"]
      /\ io' = [io EXCEPT ![t] = c]
      /\ Leaves(s, rest, referred)
  BY <1>1, <1>2 DEF Accepts, GoesTo
<1>4. /\ rest \in Seq(Clients) /\ Len(rest) = Len(queue[s]) - 1
      /\ \A i \in 1..Len(rest) : rest[i] = queue[s][i + 1]
  BY <1>1
<1>5. queue' = [queue EXCEPT ![s] = IF referred THEN rest ELSE <<>>]
  BY <1>3 DEF Leaves
<1>6. Promise!Leave(lost)
  <2>1. CASE referred
    <3>1. lost = {} /\ UNCHANGED <<says, told, served>>
      BY <1>3, <2>1 DEF Leaves, clientVars
    <3>2. /\ says = [d \in Clients |-> says[d]] /\ told = [d \in Clients |-> told[d]]
          /\ served = [d \in Clients |-> served[d]]
          /\ \A d \in Clients : served[d] \in BOOLEAN
      BY IInvClientTypes DEF ClientTypes
    <3> HIDE DEF lost, referred
    <3>3. \A d \in Clients : served[d] = (d \notin lost /\ served[d])
      BY <3>1, <3>2
    <3> QED BY <3>1, <3>2, <3>3 DEF Promise!Leave
  <2>2. CASE ~referred
    BY <1>3, <2>2, Zenon DEF Leaves, Forget, Promise!Leave
  <2> QED BY <2>1, <2>2
<1> HIDE DEF referred
<1>7. \A d : d \in lost <=> ~referred /\ \E i \in Nat : i # 1 /\ Waits(d, s, i)
  <2>1. \A d : \A i \in Nat : i # 1 /\ Waits(d, s, i) => i - 1 \in 1..Len(rest) /\ rest[i - 1] = d
    BY <1>1, <1>4 DEF Waits
  <2>2. \A i \in 1..Len(rest) : i + 1 \in Nat /\ i + 1 # 1 /\ Waits(rest[i], s, i + 1)
    BY <1>1, <1>4 DEF Waits
  <2>3. DOMAIN rest = 1..Len(rest)
    BY <1>4
  <2> HIDE DEF rest
  <2> QED BY <2>1, <2>2, <2>3
<1>8. \A d : \A r \in Sockets : \A i \in Nat :
        Waits(d, r, i)' <=> IF r = s THEN referred /\ i # 0 /\ Waits(d, s, i + 1)
                                     ELSE Waits(d, r, i)
  <2> HIDE DEF rest
  <2> QED BY <1>1, <1>4, <1>5 DEF Waits
<1>9. lost \subseteq Clients
  BY <1>4
<1> HIDE DEF lost, rest
<1>10. \A d : Waits(d, s, 1) => d = c
  BY <1>2 DEF Waits
<1>11. lost \subseteq Waiting /\ c \in Waiting \ lost
  <2>1. lost \subseteq Waiting
    BY <1>7, <1>9, WaitingIs DEF Elsewhere
  <2>2. c \in Waiting
    BY <1>2, WaitingIs DEF Elsewhere
  <2>3. c \notin lost
    BY <1>2, <1>7 DEF OnePlace, WaitsOnce
  <2> QED BY <2>1, <2>2, <2>3
<1>12. Waiting' = Waiting \ (lost \cup {c})
  <2>1. ASSUME NEW d \in Clients
        PROVE  ~Elsewhere(d)' <=> ~Elsewhere(d) /\ d \notin lost /\ d # c
    <3>1. ASSUME NEW r \in Sockets, NEW i \in Nat, Waits(d, r, i)'
          PROVE  ~Elsewhere(d) /\ d \notin lost /\ d # c
      <4>1. CASE r = s
        <5>1. referred /\ i # 0 /\ Waits(d, s, i + 1) /\ i + 1 \in Nat /\ i + 1 # 1
          BY <1>8, <3>1, <4>1
        <5> QED BY <1>2, <1>7, <5>1 DEF OnePlace, WaitsOnce, Elsewhere
      <4>2. CASE r # s
        <5>1. Waits(d, r, i)
          BY <1>8, <3>1, <4>2
        <5> QED BY <1>2, <1>7, <4>2, <5>1 DEF OnePlace, WaitsOnce, Elsewhere
      <4> QED BY <4>1, <4>2
    <3>2. ASSUME NEW r \in Sockets, NEW i \in Nat, Waits(d, r, i), d \notin lost, d # c
          PROVE  ~Elsewhere(d)'
      <4>1. CASE r = s
        <5>1. i # 1 /\ i # 0
          BY <1>10, <3>2, <4>1 DEF Waits
        <5>2. referred /\ i - 1 \in Nat /\ i - 1 # 0 /\ (i - 1) + 1 = i
          BY <1>7, <3>2, <4>1, <5>1
        <5>3. Waits(d, s, i - 1)'
          BY <1>8, <3>2, <4>1, <5>2
        <5> QED BY <5>2, <5>3 DEF Elsewhere
      <4>2. CASE r # s
        BY <1>8, <3>2, <4>2 DEF Elsewhere
      <4> QED BY <4>1, <4>2
    <3>3. ~Elsewhere(d)' => ~Elsewhere(d) /\ d \notin lost /\ d # c
      BY <3>1 DEF Elsewhere
    <3>4. ~Elsewhere(d) /\ d \notin lost /\ d # c => ~Elsewhere(d)'
      BY <3>2 DEF Elsewhere
    <3> QED BY <3>3, <3>4
  <2> QED BY <2>1, WaitingIs
<1>13. Accepted[t] = None /\ Accepted' = [Accepted EXCEPT ![t] = c]
  <2>1. ~HasDescriptor(t) /\ HasDescriptor(t)' /\ io'[t] = c
    BY <1>3 DEF HasDescriptor, IInv, TypeOK
  <2>2. \A u \in Threads \ {t} : (HasDescriptor(u)' <=> HasDescriptor(u)) /\ io'[u] = io[u]
    BY <1>3 DEF HasDescriptor, IInv, TypeOK
  <2> QED BY <2>1, <2>2 DEF Accepted
<1>14. Promise!Takes(t, c, lost)
  BY <1>6, <1>11, <1>12, <1>13 DEF Promise!Takes
<1> QED BY <1>11, <1>14, PromisedNext DEF Promised

LEMMA CloseSocketPromised ==
  ASSUME IInv, NEW t \in Threads, CloseSocket(t)
  PROVE  Promised
<1>1. HasDescriptor(t)
  BY DEF CloseSocket, HasDescriptor
<1>2. PICK c \in Clients : c = io[t] /\ table[fd[t]] = c
  BY <1>1, PeerIsClient DEF Peer
<1>3. /\ Forget({c}) /\ UNCHANGED queue /\ worker' = [worker EXCEPT ![t] = "idle"]
      /\ io' = [io EXCEPT ![t] = None]
  BY <1>2 DEF CloseSocket, Closes, GoesTo
<1>4. Accepted[t] = c /\ Accepted' = [Accepted EXCEPT ![t] = None]
  <2>1. ~HasDescriptor(t)'
    BY <1>3 DEF HasDescriptor, IInv, TypeOK
  <2>2. \A u \in Threads \ {t} : (HasDescriptor(u)' <=> HasDescriptor(u)) /\ io'[u] = io[u]
    BY <1>3 DEF HasDescriptor, IInv, TypeOK
  <2> QED BY <1>1, <1>2, <2>1, <2>2 DEF Accepted
<1>5. Promise!Leave({c})
  BY <1>3, Zenon DEF Forget, Promise!Leave
<1>6. Waiting' = Waiting
  BY <1>3 DEF Waiting
<1>7. Promise!Ends(t)
  BY <1>4, <1>5, <1>6 DEF Promise!Ends
<1> QED BY <1>7, PromisedNext DEF Promised

LEMMA StepPromised ==
  ASSUME IInv, IInv', ServiceInv, AskedInv, [Next]_vars
  PROVE  Promised
<1>1. OnePlace
  BY DEF ServiceInv
<1>2. CASE \/ ListenCreates \/ ListenStarts \/ ListenThrows \/ UNCHANGED vars
           \/ \E t \in Threads : AcceptCalled(t) \/ AcceptBlocks(t)
  <2>1. UNCHANGED <<clientVars, queue, io>>
    BY <1>2 DEF ListenCreates, ListenStarts, ListenThrows, vars, AcceptCalled, AcceptBlocks,
                workerVars, netVars
  <2>2. \A u \in Threads : HasDescriptor(u)' <=> HasDescriptor(u)
    <3>1. CASE UNCHANGED worker
      BY <3>1 DEF HasDescriptor
    <3>2. CASE \E t \in Threads : AcceptCalled(t) \/ AcceptBlocks(t)
      BY <3>2 DEF AcceptCalled, AcceptBlocks, GoesTo, HasDescriptor, IInv, TypeOK
    <3> QED BY <1>2, <3>1, <3>2 DEF ListenCreates, ListenStarts, ListenThrows, vars, workerVars
  <2>3. Accepted' = Accepted
    BY <2>1, <2>2, AcceptedStays
  <2> QED BY <2>1, <2>3, QuietPromised DEF clientVars
<1>3. ASSUME NEW t \in Threads, Worker(t) PROVE Promised
  <2>1. CASE AcceptCalled(t) \/ AcceptBlocks(t)
    BY <1>2, <2>1
  <2>2. CASE AcceptFails(t) \/ Accepts(t) \/ CloseSocket(t)
    BY <1>1, <2>2, AcceptFailsPromised, AcceptsPromised, CloseSocketPromised
  <2>3. CASE Working(t)
    BY <2>3, WorkingPromised
  <2> QED BY <1>3, <2>1, <2>2, <2>3 DEF Worker, Working
<1>4. CASE CloseListener
  BY <1>1, <1>4, CloseListenerPromised
<1>5. ASSUME NEW c \in Clients, Client(c) PROVE Promised
  BY <1>1, <1>5, ClientPromised
<1> QED BY <1>2, <1>3, <1>4, <1>5 DEF Next, Owner

\* However many threads, clients and descriptors there are, and in however many pieces the
\* requests come, the listener is to its clients what Pool says: none is with two threads
\* or lost by the one it is with, and each is answered once, as it has asked (listener.cpp
\* 51-88, net/listener.hpp 291-314).
THEOREM ListenerImplements == Spec => ImplementsPool
<1>1. Init => IInv /\ ServiceInv /\ AskedInv /\ Promise!Init
  <2>1. Init => AskedInv
    BY DEF Init, AskedInv, Asked, Unasked, Unanswered
  <2>2. Init => Promise!Init
    <3>1. Init => Waiting = {}
      BY DEF Init, Waiting
    <3>2. Init => Accepted = [t \in Threads |-> None]
      BY DEF Init, Accepted, HasDescriptor
    <3> QED BY <3>1, <3>2 DEF Init, Promise!Init
  <2> QED BY <2>1, <2>2, InitIInv, InitService
<1>2. IInv /\ ServiceInv /\ AskedInv /\ [Next]_vars => (IInv /\ ServiceInv /\ AskedInv)'
  BY StepIInv, StepService, StepAsked
<1>3. IInv /\ IInv' /\ ServiceInv /\ AskedInv /\ [Next]_vars
        => [Promise!Next]_(Promise!poolVars)
  BY StepPromised DEF Promised
<1> QED BY <1>1, <1>2, <1>3, PTL DEF Spec, ImplementsPool, Promise!Spec

=============================================================================
