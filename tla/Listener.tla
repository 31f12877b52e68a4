------------------------------ MODULE Listener ------------------------------
(***************************************************************************)
(* A pool of threads that share one listener (src/fcgi/listener.cpp over    *)
(* socket_Listener of src/net/listener.hpp), from the listening socket      *)
(* through accept() with its begin-request record to the descriptor that is *)
(* shut down and closed (socket_Descriptor, src/net/descriptor.hpp).        *)
(*                                                                         *)
(* One thread owns the listener; it listens and closes.  The workers accept *)
(* and serve.  A socket is the object behind a descriptor, the kernel's     *)
(* table says which: numbers are used again once they are free.  Bytes are  *)
(* counted only; what the first record of a client is stands in says.       *)
(***************************************************************************)
EXTENDS Integers, Sequences

CONSTANTS
  Threads,      \* the threads that call accept()
  Clients,
  Sockets,      \* the sockets listen() may create, one call after another
  MaxFd,        \* the greatest descriptor number
  Backlog,      \* *options_.backlog()
  HeaderSize,   \* sizeof(detail::Header)
  BodySize,     \* sizeof(detail::Begin_request_body)
  ParamsSize,   \* bytes the connection's constructor reads behind the record
  TrashSize,    \* trashcan.size()
  MaxLater,     \* bound: bytes a client sends behind those
  Fragments     \* whether a client's first bytes may come in pieces

ASSUME SizesAssumption ==
  /\ MaxFd \in Nat /\ Backlog \in Nat /\ HeaderSize \in Nat \ {0} /\ BodySize \in Nat \ {0}
  /\ ParamsSize \in Nat /\ TrashSize \in Nat \ {0} /\ MaxLater \in Nat
ASSUME FragmentsAssumption == Fragments \in BOOLEAN

Fds == 0..MaxFd

\* invalid_socket, and what a free entry of the table holds.
None == -1

Free == "free"
ASSUME NamesAssumption ==
  Clients \cap Sockets = {} /\ Free \notin Clients \cup Sockets /\ None \notin Clients

\* What a client may send first: a whole request, a begin-request record with a
\* role there is none of, another record, a header of another protocol version.
FirstRecords == {"request", "bad_role", "no_begin", "bad_version"}

VARIABLES
  owner,      \* the owner's place: "out" of any call, "created" in listen()
  listener,   \* socket_ of the socket_Listener
  table,      \* the process' descriptors
  socket,     \* [Sockets -> "none", "created", "listening"]
  queue,      \* [Sockets -> connections established and not accepted]
  worker,     \* [Threads -> where the thread is]
  fd,         \* [Threads -> socket_ of its descriptor; before, what it passes to ::accept()]
  inside,     \* [Threads -> the socket ::accept() blocks on]
  io,         \* [Threads -> the client its descriptor has been made for]
  stage,      \* [Clients -> "new", "connected", "left", "aborted"]
  says,       \* [Clients -> its first record]
  sent,       \* [Clients -> bytes it has sent]
  unread,     \* [Clients -> those in the server's receive buffer]
  late,       \* [Clients -> whether it has sent since the server's shutdown()]
  told,       \* [Clients -> the status of an end-request record from accept()]
  served      \* [Clients -> whether accept() has returned its connection]

ownerVars  == <<owner, listener>>
workerVars == <<worker, fd, inside, io>>
netVars    == <<table, socket, queue>>
clientVars == <<stage, says, sent, unread, late, told, served>>
vars == <<ownerVars, workerVars, netVars, clientVars>>

Least(a, b) == IF a < b THEN a ELSE b

-----------------------------------------------------------------------------
(* The kernel: descriptors and the sockets behind them.                    *)

\* The number of a new descriptor: the lowest when the call was made, so any.
IsFree(f) == f \in Fds /\ table[f] = Free

Exhausted == \A f \in Fds : table[f] # Free

\* A thread that blocks in ::accept() keeps the socket, closed or not.
IsHeld(s, others) == \E t \in others : inside[t] = s

IsOpen(s) == \E f \in Fds : table[f] = s

\* Nothing refers to these clients' connections any more: what they have been is
\* forgotten, and they may connect again.
Forget(clients) ==
  /\ stage'  = [c \in Clients |-> IF c \in clients THEN "new" ELSE stage[c]]
  /\ says'   = [c \in Clients |-> IF c \in clients THEN "request" ELSE says[c]]
  /\ sent'   = [c \in Clients |-> IF c \in clients THEN 0 ELSE sent[c]]
  /\ unread' = [c \in Clients |-> IF c \in clients THEN 0 ELSE unread[c]]
  /\ late'   = [c \in Clients |-> c \notin clients /\ late[c]]
  /\ told'   = [c \in Clients |-> IF c \in clients THEN "nothing" ELSE told[c]]
  /\ served' = [c \in Clients |-> c \notin clients /\ served[c]]

\* Socket s with these connections left to accept: when nothing refers to it any more
\* its address is free and they are reset.
Leaves(s, connections, referred) ==
  IF referred
    THEN queue' = [queue EXCEPT ![s] = connections] /\ UNCHANGED <<socket, clientVars>>
    ELSE /\ queue' = [queue EXCEPT ![s] = <<>>]
         /\ socket' = [socket EXCEPT ![s] = "none"]
         /\ Forget({connections[i] : i \in DOMAIN connections})

AddressInUse == \E s \in Sockets : socket[s] = "listening"

-----------------------------------------------------------------------------
(* The owner of the listener.                                              *)

\* make_socket(), unless is_listening(): then listen() returns.
ListenCreates ==
  /\ owner = "out" /\ listener = None
  /\ \E f \in Fds, s \in Sockets :
       /\ IsFree(f) /\ socket[s] = "none"
       /\ table' = [table EXCEPT ![f] = s]
       /\ socket' = [socket EXCEPT ![s] = "created"]
       /\ listener' = f
  /\ owner' = "created"
  /\ UNCHANGED <<workerVars, queue, clientVars>>

\* bind(), for which the address must be free, and ::listen().
ListenStarts ==
  /\ owner = "created" /\ ~AddressInUse
  /\ socket' = [socket EXCEPT ![table[listener]] = "listening"]
  /\ owner' = "out"
  /\ UNCHANGED <<listener, workerVars, table, queue, clientVars>>

\* setsockopt(), bind() or ::listen() fails; socket_ keeps the socket.
ListenThrows ==
  /\ owner = "created"
  /\ owner' = "out"
  /\ UNCHANGED <<listener, workerVars, netVars, clientVars>>

\* close() of the listener, whatever the workers do.
CloseListener ==
  /\ owner = "out" /\ listener # None
  /\ table' = [table EXCEPT ![listener] = Free]
  /\ LET s == table[listener] IN Leaves(s, queue[s], IsHeld(s, Threads))
  /\ listener' = None
  /\ UNCHANGED <<owner, workerVars>>

Owner ==
  \/ ListenCreates \/ ListenStarts \/ ListenThrows \/ CloseListener

-----------------------------------------------------------------------------
(* A worker in accept().                                                   *)

GoesTo(t, place) == worker' = [worker EXCEPT ![t] = place]

\* is_listening() has been true; socket_ is passed to ::accept().
AcceptCalled(t) ==
  /\ worker[t] = "idle" /\ listener # None
  /\ fd' = [fd EXCEPT ![t] = listener]
  /\ GoesTo(t, "calling")
  /\ UNCHANGED <<ownerVars, inside, io, netVars, clientVars>>

\* ::accept() finds a listening socket behind the number and blocks on it.
AcceptBlocks(t) ==
  /\ worker[t] = "calling"
  /\ table[fd[t]] \in Sockets /\ socket[table[fd[t]]] = "listening"
  /\ inside' = [inside EXCEPT ![t] = table[fd[t]]]
  /\ GoesTo(t, "blocked")
  /\ UNCHANGED <<ownerVars, fd, io, netVars, clientVars>>

\* It fails: the number stands for something else by now, or there is no
\* descriptor left for a connection.
AcceptFails(t) ==
  /\ \/ /\ worker[t] = "calling"
        /\ Exhausted \/ ~(table[fd[t]] \in Sockets /\ socket[table[fd[t]]] = "listening")
        /\ UNCHANGED <<socket, queue, clientVars>>
     \/ /\ worker[t] = "blocked" /\ Exhausted
        /\ LET s == inside[t] IN
             Leaves(s, queue[s], IsOpen(s) \/ IsHeld(s, Threads \ {t}))
  /\ fd' = [fd EXCEPT ![t] = None] /\ inside' = [inside EXCEPT ![t] = None]
  /\ GoesTo(t, "idle")
  /\ UNCHANGED <<ownerVars, io, table>>

\* It returns the connection at the head of the queue, and a socket_Descriptor is made.
Accepts(t) ==
  /\ worker[t] = "blocked"
  /\ LET s == inside[t] IN
       /\ queue[s] # <<>>
       /\ \E f \in Fds :
            /\ IsFree(f)
            /\ table' = [table EXCEPT ![f] = Head(queue[s])]
            /\ fd' = [fd EXCEPT ![t] = f]
       /\ io' = [io EXCEPT ![t] = Head(queue[s])]
       /\ Leaves(s, Tail(queue[s]), IsOpen(s) \/ IsHeld(s, Threads \ {t}))
  /\ inside' = [inside EXCEPT ![t] = None]
  /\ GoesTo(t, "header")
  /\ UNCHANGED ownerVars

\* The client at the other end of a descriptor is the one the table says.
Peer(t) == table[fd[t]]

Aborted(t) == stage[Peer(t)] = "aborted"

\* recv() of at most size bytes returns what there is; the worker goes on to next when
\* it is all of it, otherwise an exception destroys the descriptor.
Receives(t, size, next) ==
  /\ unread[Peer(t)] > 0
  /\ LET count == Least(size, unread[Peer(t)]) IN
       /\ unread' = [unread EXCEPT ![Peer(t)] = @ - count]
       /\ GoesTo(t, IF count = size THEN next ELSE "drain")

\* Mutant of ReadHeader: the type of the record is not looked at.
ReadHeaderOfAnyType(t) ==
  /\ worker[t] = "header"
  /\ Receives(t, HeaderSize, IF says[Peer(t)] = "bad_version" THEN "drain" ELSE "body")
  /\ UNCHANGED <<ownerVars, fd, inside, io, netVars, stage, says, sent, late, told, served>>

\* Header{io.get()} with check_validity(), and the decision of accept().
ReadHeader(t) ==
  /\ worker[t] = "header"
  /\ Receives(t, HeaderSize, CASE says[Peer(t)] = "bad_version" -> "drain"
                               [] says[Peer(t)] = "no_begin"    -> "refuse"
                               [] OTHER                         -> "body")
  /\ UNCHANGED <<ownerVars, fd, inside, io, netVars, stage, says, sent, late, told, served>>

\* Begin_request_body{io.get()} and its role.
ReadBody(t) ==
  /\ worker[t] = "body"
  /\ Receives(t, BodySize, IF says[Peer(t)] = "bad_role" THEN "refuse" ELSE "params")
  /\ UNCHANGED <<ownerVars, fd, inside, io, netVars, stage, says, sent, late, told, served>>

\* What a request must send before accept() can return it.
RequestSize == HeaderSize + BodySize + ParamsSize

Taken(c) == sent[c] - unread[c]

\* The connection's constructor reads the parameters: a read takes all there is, what
\* is behind them too.
ReadParams(t) ==
  /\ worker[t] = "params" /\ unread[Peer(t)] > 0
  /\ LET c == Peer(t) IN
       /\ unread' = [unread EXCEPT ![c] = 0]
       /\ IF sent[c] >= RequestSize
            THEN served' = [served EXCEPT ![c] = TRUE] /\ GoesTo(t, "serving")
            ELSE UNCHANGED <<served, worker>>
  /\ UNCHANGED <<ownerVars, fd, inside, io, netVars, stage, says, sent, late, told>>

\* Mutant of ReadFails: only an error of recv() is a failure, not its 0.
ReadFailsOnError(t) ==
  /\ worker[t] \in {"header", "body", "params"}
  /\ Aborted(t)
  /\ GoesTo(t, "drain")
  /\ UNCHANGED <<ownerVars, fd, inside, io, netVars, clientVars>>

\* Mutant of ReadFails: recv() does not wait for the client.
ReadFailsWhenEmpty(t) ==
  /\ worker[t] \in {"header", "body", "params"}
  /\ unread[Peer(t)] = 0
  /\ GoesTo(t, "drain")
  /\ UNCHANGED <<ownerVars, fd, inside, io, netVars, clientVars>>

\* The client is gone before accept() has read what it needs: an exception.  (What else
\* the constructor may refuse is in StreambufReader.)
ReadFails(t) ==
  /\ worker[t] \in {"header", "body", "params"}
  /\ unread[Peer(t)] = 0 /\ stage[Peer(t)] # "connected"
  /\ GoesTo(t, "drain")
  /\ UNCHANGED <<ownerVars, fd, inside, io, netVars, clientVars>>

\* Mutant of Refuse: the exception is thrown without an end-request record.
RefuseSilently(t) ==
  /\ worker[t] = "refuse"
  /\ GoesTo(t, "drain")
  /\ UNCHANGED <<ownerVars, fd, inside, io, netVars, clientVars>>

\* Mutant of Refuse: nothing is thrown, and accept() goes on with the refused client.
RefuseGoesOn(t) ==
  /\ worker[t] = "refuse"
  /\ told' = IF Aborted(t) THEN told
             ELSE [told EXCEPT ![Peer(t)] =
                     IF says[Peer(t)] = "bad_role" THEN "unknown_role" ELSE "cant_mpx_conn"]
  /\ GoesTo(t, "params")
  /\ UNCHANGED <<ownerVars, fd, inside, io, netVars, stage, says, sent, unread, late, served>>

\* end_request(), unless write() throws, and the exception of accept().
Refuse(t) ==
  /\ worker[t] = "refuse"
  /\ told' = IF Aborted(t) THEN told
             ELSE [told EXCEPT ![Peer(t)] =
                     IF says[Peer(t)] = "bad_role" THEN "unknown_role" ELSE "cant_mpx_conn"]
  /\ GoesTo(t, "drain")
  /\ UNCHANGED <<ownerVars, fd, inside, io, netVars, stage, says, sent, unread, late, served>>

-----------------------------------------------------------------------------
(* A worker that serves, and the end of its descriptor.                    *)

\* The application reads in().
ServeReads(t) ==
  /\ worker[t] = "serving"
  /\ unread[Peer(t)] > 0
  /\ unread' = [unread EXCEPT ![Peer(t)] = 0]
  /\ UNCHANGED <<ownerVars, workerVars, netVars, stage, says, sent, late, told, served>>

\* The connection is destroyed, and its descriptor with it: as after each exception,
\* the destructor begins with shutdown() of the sending side.
ServeEnds(t) ==
  /\ worker[t] = "serving"
  /\ GoesTo(t, "drain")
  /\ UNCHANGED <<ownerVars, fd, inside, io, netVars, clientVars>>

\* poll(), with its timeout: there is data to be received (net/socket.hpp 326-380).
Readable(t) == unread[Peer(t)] > 0

\* Mutant of Drain: one read is thought to be enough.
DrainOnce(t) ==
  /\ worker[t] = "drain" /\ unread[Peer(t)] > 0
  /\ unread' = [unread EXCEPT ![Peer(t)] = @ - Least(TrashSize, @)]
  /\ GoesTo(t, "close")
  /\ UNCHANGED <<ownerVars, fd, inside, io, netVars, stage, says, sent, late, told, served>>

\* Mutant of Drain: more is taken than there is.
DrainWhole(t) ==
  /\ worker[t] = "drain" /\ unread[Peer(t)] > 0
  /\ unread' = [unread EXCEPT ![Peer(t)] = @ - TrashSize]
  /\ UNCHANGED <<ownerVars, workerVars, netVars, stage, says, sent, late, told, served>>

\* What the client sends meanwhile is read and dropped.
Drain(t) ==
  /\ worker[t] = "drain" /\ Readable(t)
  /\ unread' = [unread EXCEPT ![Peer(t)] = @ - Least(TrashSize, @)]
  /\ UNCHANGED <<ownerVars, workerVars, netVars, stage, says, sent, late, told, served>>

\* The client is at its end, or shutdown() or recv() has found it aborted, or a second
\* passes without anything.
DrainEnds(t) ==
  /\ worker[t] = "drain" /\ ~Readable(t)
  /\ GoesTo(t, "close")
  /\ UNCHANGED <<ownerVars, fd, inside, io, netVars, clientVars>>

\* The kernel closes descriptor f; what is unread then resets the connection.
Closes(f) ==
  /\ table' = [table EXCEPT ![f] = Free]
  /\ Forget({table[f]})

\* Mutant of CloseSocket: socket_ may still hold the number, and the destructor of the
\* guard closes it again.
CloseSocketTwice(t) ==
  /\ worker[t] = "close"
  /\ Closes(fd[t])
  /\ GoesTo(t, "idle") \/ UNCHANGED worker
  /\ UNCHANGED <<ownerVars, fd, inside, io, socket, queue>>

\* Socket_guard::close() or its destructor, whichever comes first.
CloseSocket(t) ==
  /\ worker[t] = "close"
  /\ Closes(fd[t])
  /\ fd' = [fd EXCEPT ![t] = None] /\ io' = [io EXCEPT ![t] = None]
  /\ GoesTo(t, "idle")
  /\ UNCHANGED <<ownerVars, inside, socket, queue>>

Worker(t) ==
  \/ AcceptCalled(t) \/ AcceptBlocks(t) \/ AcceptFails(t) \/ Accepts(t)
  \/ ReadHeader(t) \/ ReadBody(t) \/ ReadParams(t) \/ ReadFails(t) \/ Refuse(t)
  \/ ServeReads(t) \/ ServeEnds(t)
  \/ Drain(t) \/ DrainEnds(t) \/ CloseSocket(t)

-----------------------------------------------------------------------------
(* The clients.                                                            *)

Connects(c) ==
  /\ stage[c] = "new"
  /\ \E s \in Sockets :
       /\ socket[s] = "listening" /\ Len(queue[s]) < Backlog
       /\ queue' = [queue EXCEPT ![s] = Append(@, c)]
  /\ stage' = [stage EXCEPT ![c] = "connected"]
  /\ UNCHANGED <<ownerVars, workerVars, table, socket, says, sent, unread, late, told, served>>

\* The server has shut down its side.
IsShutDown(c) ==
  \E t \in Threads : worker[t] \in {"drain", "close"} /\ Peer(t) = c

Sends(c) ==
  /\ stage[c] = "connected"
  /\ \E n \in 1..(RequestSize + MaxLater - sent[c]) :
       /\ Fragments \/ sent[c] + n >= RequestSize
       /\ sent' = [sent EXCEPT ![c] = @ + n]
       /\ unread' = [unread EXCEPT ![c] = @ + n]
  /\ \E r \in FirstRecords : /\ sent[c] > 0 => r = says[c]
                             /\ says' = [says EXCEPT ![c] = r]
  /\ late' = [late EXCEPT ![c] = @ \/ IsShutDown(c)]
  /\ UNCHANGED <<ownerVars, workerVars, netVars, stage, told, served>>

\* It closes its side; the server can still read what it has sent.  Behind a whole
\* request that is the same to the server as to send nothing more.
Ends(c) ==
  /\ stage[c] = "connected" /\ sent[c] < RequestSize
  /\ stage' = [stage EXCEPT ![c] = "left"]
  /\ UNCHANGED <<ownerVars, workerVars, netVars, says, sent, unread, late, told, served>>

\* It resets the connection: what has not been read is lost.
Aborts(c) ==
  /\ stage[c] = "connected"
  /\ stage' = [stage EXCEPT ![c] = "aborted"]
  /\ sent' = [sent EXCEPT ![c] = Taken(c)]
  /\ unread' = [unread EXCEPT ![c] = 0]
  /\ UNCHANGED <<ownerVars, workerVars, netVars, says, late, told, served>>

Client(c) == Connects(c) \/ Sends(c) \/ Ends(c) \/ Aborts(c)

-----------------------------------------------------------------------------
Init ==
  /\ owner = "out" /\ listener = None
  /\ table = [f \in Fds |-> Free]
  /\ socket = [s \in Sockets |-> "none"] /\ queue = [s \in Sockets |-> <<>>]
  /\ worker = [t \in Threads |-> "idle"] /\ fd = [t \in Threads |-> None]
  /\ inside = [t \in Threads |-> None] /\ io = [t \in Threads |-> None]
  /\ stage = [c \in Clients |-> "new"] /\ says = [c \in Clients |-> "request"]
  /\ sent = [c \in Clients |-> 0] /\ unread = [c \in Clients |-> 0]
  /\ late = [c \in Clients |-> FALSE]
  /\ told = [c \in Clients |-> "nothing"] /\ served = [c \in Clients |-> FALSE]

Next ==
  \/ Owner
  \/ \E t \in Threads : Worker(t)
  \/ \E c \in Clients : Client(c)

Spec == Init /\ [][Next]_vars

\* The workers run on, and a client that has connected sends its request or goes.
FairSpec ==
  /\ Spec
  /\ \A t \in Threads : WF_vars(Worker(t))
  /\ \A c \in Clients : WF_vars(sent[c] < RequestSize /\ (Sends(c) \/ Ends(c) \/ Aborts(c)))

-----------------------------------------------------------------------------
(* Properties.                                                             *)

\* The variables have their types.
TypeOK ==
  /\ owner \in {"out", "created"}
  /\ listener \in Fds \cup {None}
  /\ table \in [Fds -> Clients \cup Sockets \cup {Free}]
  /\ socket \in [Sockets -> {"none", "created", "listening"}]
  /\ queue \in [Sockets -> Seq(Clients)] /\ \A s \in Sockets : Len(queue[s]) <= Backlog
  /\ worker \in [Threads -> {"idle", "calling", "blocked", "header", "body", "refuse",
                             "params", "serving", "drain", "close"}]
  /\ fd \in [Threads -> Fds \cup {None}]
  /\ inside \in [Threads -> Sockets \cup {None}] /\ io \in [Threads -> Clients \cup {None}]
  /\ stage \in [Clients -> {"new", "connected", "left", "aborted"}]
  /\ says \in [Clients -> FirstRecords]
  /\ sent \in [Clients -> 0..(RequestSize + MaxLater)]
  /\ unread \in [Clients -> Nat] /\ \A c \in Clients : unread[c] <= sent[c]
  /\ late \in [Clients -> BOOLEAN]
  /\ told \in [Clients -> {"nothing", "unknown_role", "cant_mpx_conn"}]
  /\ served \in [Clients -> BOOLEAN]

\* The thread has a descriptor of a connection.
HasDescriptor(t) == worker[t] \notin {"idle", "calling", "blocked"}

\* Every descriptor has one owner, through exceptions, closing and numbers that are
\* used again: behind a worker's number is the client it has accepted, no two workers
\* have the same, none is left open, and the listener's number stands for a socket of
\* its own (Socket_guard, net/socket.hpp 183-263).
DescriptorsOwned ==
  /\ \A t \in Threads : HasDescriptor(t) => Peer(t) = io[t]
  /\ \A t, u \in Threads :
       HasDescriptor(t) /\ HasDescriptor(u) /\ t # u => fd[t] # fd[u]
  /\ \A f \in Fds : table[f] \in Clients => \E t \in Threads : HasDescriptor(t) /\ fd[t] = f
  /\ \A f \in Fds : table[f] \in Sockets <=> listener = f

\* accept() returns a connection only for a client that has sent a begin-request
\* record with a role there is, and its parameters (listener.cpp 65-73).
ServedHasBegun ==
  \A c \in Clients : served[c] => says[c] = "request" /\ Taken(c) >= RequestSize

\* The step closes the connection of client c.
Ended(c) == \E f \in Fds : table[f] = c /\ table'[f] # c

\* It has sent all accept() reads, and is there to receive the answer.
Complete(c) == stage[c] # "aborted" /\ sent[c] >= RequestSize

\* A client whose record is refused has been told why when its connection is closed,
\* and no other client is told anything, one whose header is of another version included
\* (listener.cpp 56-87).
RefusalsAreTold ==
  [][\A c \in Clients :
       Ended(c) /\ Complete(c) =>
         told[c] = CASE says[c] = "no_begin" -> "cant_mpx_conn"
                     [] says[c] = "bad_role" -> "unknown_role"
                     [] OTHER                -> "nothing"]_vars

\* accept() "accepts a FastCGI connection, or rejects it in case of a protocol
\* violation": a client that sends its request gets a connection (fcgi/listener.hpp 65).
\* This is said of requests that come in one piece (Fragments = FALSE): the header of the
\* begin-request record, and its body, are read with one recv() each (basics.cpp 122, 225).
RequestsAreServed ==
  [][\A c \in Clients :
       Ended(c) /\ Complete(c) /\ says[c] = "request" => served[c]]_vars

\* Nothing is unread when the server closes a connection, which would reset it, unless
\* the client has gone on sending after the server had shut down its side:
\* graceful_shutdown() receives the data from the client "to prevent sending a TCP RST"
\* (net/descriptor.hpp 169-203).
NoReset == [][\A c \in Clients : Ended(c) /\ unread[c] > 0 => late[c]]_vars

\* Those whose connections wait, and whom each thread has accepted.
Waiting == {c \in Clients : \E s \in Sockets : \E i \in DOMAIN queue[s] : queue[s][i] = c}

Accepted == [t \in Threads |-> IF HasDescriptor(t) THEN io[t] ELSE None]

Promise == INSTANCE Pool WITH waiting <- Waiting, with <- Accepted, asks <- says

\* Behind sockets, numbers and bytes the threads are the pool Pool promises: each client is
\* with one thread, never lost to another, and answered once, as it has asked (listener.cpp
\* 51-88, net/listener.hpp 291-314).
ImplementsPool == Promise!Spec

\* Every connection the kernel has established is accepted and ended, or dropped with
\* the listener: its client is without one again and again.  That is, as long as clients
\* that have connected send their request or go, and none sends for ever (MaxLater).
EveryoneIsHandled == \A c \in Clients : []<>(stage[c] = "new")

=============================================================================
