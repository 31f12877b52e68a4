---------------------------- MODULE PipeListener ----------------------------
(***************************************************************************)
(* The listener of Windows named pipes (pipe_Listener, net/listener.hpp     *)
(* 355-495) and the descriptor of a connection to one (pipe_Descriptor,     *)
(* net/descriptor.hpp 209-275).                                             *)
(*                                                                         *)
(* One thread uses the listener, whose functions share pipe_ without a      *)
(* lock; other threads serve the connections it has accepted.  An instance  *)
(* of the pipe is what CreateNamedPipe() makes, together with its handle.   *)
(***************************************************************************)
EXTENDS Integers, FiniteSets

CONSTANTS
  Clients,
  Instances,    \* the instances of the pipe there may be
  MaxEvents,    \* the event objects the process may have
  MaxUnread     \* bytes a client may leave unread

ASSUME BoundsAssumption == MaxEvents \in Nat /\ MaxUnread \in Nat \ {0}

\* INVALID_HANDLE_VALUE.
None == "none"
ASSUME NoneAssumption == None \notin Instances \cup Clients

VARIABLES
  listening,  \* is_listening_
  pipe,       \* pipe_: the instance a client has connected to, not accepted yet
  place,      \* where the listener's thread is
  call,       \* the call it is in: "none", "wait" with a timeout, "accept"
  local,      \* the instance in wait()'s own guard
  events,     \* event objects
  instance,   \* [Instances -> "none", "listening", "connected", "broken", "disconnected"]
  peer,       \* [Instances -> the client that has connected]
  server,     \* [Instances -> how far its descriptor is]
  unread      \* [Instances -> bytes written to the client and not read by it]

callVars == <<place, call, local, events>>
pipeVars == <<instance, peer, unread>>
vars == <<listening, pipe, callVars, pipeVars, server>>

-----------------------------------------------------------------------------
(* Instances.                                                              *)

\* CloseHandle(): the connection ends, if there is one.
ClosesHandle(i) ==
  /\ instance' = [instance EXCEPT ![i] = "none"]
  /\ peer' = [peer EXCEPT ![i] = None]
  /\ unread' = [unread EXCEPT ![i] = 0]

\* wait() returns, to the application or to accept().
Returns ==
  IF call = "accept" THEN place' = "take" /\ UNCHANGED call
                     ELSE place' = "idle" /\ call' = "none"

\* wait() is left without a connection: its guard closes the instance.
DropsLocal == ClosesHandle(local) /\ local' = None

\* An exception.
Unwinds == DropsLocal /\ place' = "idle" /\ call' = "none"

-----------------------------------------------------------------------------
(* The listener.                                                           *)

Listen ==
  /\ place = "idle" /\ ~listening
  /\ listening' = TRUE
  /\ UNCHANGED <<pipe, callVars, pipeVars, server>>

\* What is waited for already is dropped.
Close ==
  /\ place = "idle" /\ listening
  /\ listening' = FALSE /\ pipe' = None
  /\ IF pipe = None THEN UNCHANGED pipeVars ELSE ClosesHandle(pipe)
  /\ UNCHANGED <<callVars, server>>

\* wait(), or accept(), which waits for ever, when there is nothing in pipe_ yet.
Calls(kind) ==
  /\ place = "idle" /\ listening /\ pipe = None
  /\ call' = kind /\ place' = "create"
  /\ UNCHANGED <<listening, pipe, local, events, pipeVars, server>>

\* Mutant of CallsReady: wait() does not look at pipe_.
CallsAnyway(kind) ==
  /\ place = "idle" /\ listening /\ pipe # None
  /\ call' = kind /\ place' = "create"
  /\ UNCHANGED <<listening, pipe, local, events, pipeVars, server>>

\* A connection that has been waited for: wait() returns true, accept() goes on.
CallsReady(kind) ==
  /\ place = "idle" /\ listening /\ pipe # None
  /\ IF kind = "accept" THEN call' = kind /\ place' = "take" ELSE UNCHANGED <<call, place>>
  /\ UNCHANGED <<listening, pipe, local, events, pipeVars, server>>

\* Mutant of Creates: the event object's handle is not looked at.
CreatesUnchecked ==
  /\ place = "create"
  /\ events' = events + 1
  /\ \E i \in Instances :
       /\ instance[i] = "none"
       /\ instance' = [instance EXCEPT ![i] = "listening"]
       /\ local' = i
  /\ place' = "connect"
  /\ UNCHANGED <<listening, pipe, call, peer, unread, server>>

\* The event object, which nobody closes, and an instance of the pipe.
Creates ==
  /\ place = "create" /\ events < MaxEvents
  /\ events' = events + 1
  /\ \E i \in Instances :
       /\ instance[i] = "none"
       /\ instance' = [instance EXCEPT ![i] = "listening"]
       /\ local' = i
  /\ place' = "connect"
  /\ UNCHANGED <<listening, pipe, call, peer, unread, server>>

\* One of them cannot be made: an exception.
CreateFails ==
  /\ place = "create"
  /\ \/ events = MaxEvents /\ UNCHANGED events
     \/ /\ events < MaxEvents /\ events' = events + 1
        /\ \A i \in Instances : instance[i] # "none"
  /\ place' = "idle" /\ call' = "none"
  /\ UNCHANGED <<listening, pipe, local, pipeVars, server>>

\* pipe_ = std::move(pipe): what it has held is closed.
Keeps ==
  /\ IF pipe = None THEN UNCHANGED pipeVars ELSE ClosesHandle(pipe)
  /\ pipe' = local /\ local' = None
  /\ Returns

\* ConnectNamedPipe(): a client has been quicker.
ConnectFinds ==
  /\ place = "connect" /\ instance[local] = "connected"
  /\ Keeps
  /\ UNCHANGED <<listening, events, server>>

\* It has gone again (ERROR_NO_DATA).
ConnectFails ==
  /\ place = "connect" /\ instance[local] = "broken"
  /\ Unwinds
  /\ UNCHANGED <<listening, pipe, events, server>>

ConnectPends ==
  /\ place = "connect" /\ instance[local] = "listening"
  /\ place' = "pending"
  /\ UNCHANGED <<listening, pipe, call, local, events, pipeVars, server>>

\* The event has been signalled, and the client may have gone meanwhile.
Connected ==
  /\ place = "pending" /\ instance[local] # "listening"
  /\ Keeps
  /\ UNCHANGED <<listening, events, server>>

\* Mutant of TimesOut: accept() waits with a timeout too.
TimesOutAlways ==
  /\ place = "pending" /\ instance[local] = "listening"
  /\ place' = "cancel"
  /\ UNCHANGED <<listening, pipe, call, local, events, pipeVars, server>>

\* WAIT_TIMEOUT; a client may still connect before the instance is gone.
TimesOut ==
  /\ place = "pending" /\ instance[local] = "listening" /\ call = "wait"
  /\ place' = "cancel"
  /\ UNCHANGED <<listening, pipe, call, local, events, pipeVars, server>>

\* CancelIo(), and wait() returns false.
Cancels ==
  /\ place = "cancel"
  /\ DropsLocal /\ Returns
  /\ UNCHANGED <<listening, pipe, events, server>>

\* WaitForSingleObject() fails, or GetOverlappedResult(), whoever has connected by then or
\* does before the instance is gone.
WaitFails ==
  /\ place = "pending"
  /\ place' = "failing"
  /\ UNCHANGED <<listening, pipe, call, local, events, pipeVars, server>>

\* Then an exception, as when CancelIo() fails behind WAIT_TIMEOUT.
WaitThrows ==
  /\ place \in {"failing", "cancel"}
  /\ Unwinds
  /\ UNCHANGED <<listening, pipe, events, server>>

\* Mutant of Takes: the moved guard keeps its handle.
TakesKept ==
  /\ place = "take"
  /\ IF pipe = None
       THEN place' = "terminated" /\ UNCHANGED <<pipe, call, server>>
       ELSE /\ server' = [server EXCEPT ![pipe] = "serving"]
            /\ UNCHANGED pipe
            /\ place' = "idle" /\ call' = "none"
  /\ UNCHANGED <<listening, local, events, pipeVars>>

\* The assertion behind wait(), and the descriptor made of pipe_.
Takes ==
  /\ place = "take"
  /\ IF pipe = None
       THEN place' = "terminated" /\ UNCHANGED <<pipe, call, server>>
       ELSE /\ server' = [server EXCEPT ![pipe] = "serving"]
            /\ pipe' = None
            /\ place' = "idle" /\ call' = "none"
  /\ UNCHANGED <<listening, local, events, pipeVars>>

Waiting ==
  \/ Creates \/ CreateFails \/ ConnectFinds \/ ConnectFails \/ ConnectPends
  \/ Connected \/ TimesOut \/ Cancels \/ WaitThrows \/ Takes

Listener ==
  \/ Listen \/ Close
  \/ \E kind \in {"wait", "accept"} : Calls(kind) \/ CallsReady(kind)
  \/ Waiting \/ WaitFails

-----------------------------------------------------------------------------
(* The descriptor of a connection.                                         *)

\* WriteFile().  A client that has gone makes it throw, as ReadFile(): then the
\* connection is destroyed (Ends).
Writes(i) ==
  /\ server[i] = "serving" /\ instance[i] = "connected" /\ unread[i] < MaxUnread
  /\ unread' = [unread EXCEPT ![i] = @ + 1]
  /\ UNCHANGED <<listening, pipe, callVars, instance, peer, server>>

\* The destructor, or close(), is called.
Ends(i) ==
  /\ server[i] = "serving"
  /\ server' = [server EXCEPT ![i] = "flushing"]
  /\ UNCHANGED <<listening, pipe, callVars, pipeVars>>

\* Mutant of Flushes: nobody waits for the client to read.
FlushesNothing(i) ==
  /\ server[i] = "flushing"
  /\ server' = [server EXCEPT ![i] = "flushed"]
  /\ UNCHANGED <<listening, pipe, callVars, pipeVars>>

\* FlushFileBuffers() returns when the client has read everything, and fails when it has
\* gone; close() then throws and the destructor tries again, and goes on.
Flushes(i) ==
  /\ server[i] = "flushing" /\ (unread[i] = 0 \/ instance[i] = "broken")
  /\ server' = [server EXCEPT ![i] = "flushed"]
  /\ UNCHANGED <<listening, pipe, callVars, pipeVars>>

\* DisconnectNamedPipe(): the client is told, what it has not read is gone.
Disconnects(i) ==
  /\ server[i] = "flushed"
  /\ instance' = [instance EXCEPT ![i] = "disconnected"]
  /\ peer' = [peer EXCEPT ![i] = None] /\ unread' = [unread EXCEPT ![i] = 0]
  /\ server' = [server EXCEPT ![i] = "disconnected"]
  /\ UNCHANGED <<listening, pipe, callVars>>

Closes(i) ==
  /\ server[i] = "disconnected"
  /\ ClosesHandle(i)
  /\ server' = [server EXCEPT ![i] = "none"]
  /\ UNCHANGED <<listening, pipe, callVars>>

Destruction(i) == Flushes(i) \/ Disconnects(i) \/ Closes(i)

Descriptor(i) == Writes(i) \/ Ends(i) \/ Destruction(i)

-----------------------------------------------------------------------------
(* The clients.                                                            *)

Connects(c) ==
  /\ \A i \in Instances : peer[i] # c
  /\ \E i \in Instances :
       /\ instance[i] = "listening"
       /\ instance' = [instance EXCEPT ![i] = "connected"]
       /\ peer' = [peer EXCEPT ![i] = c]
  /\ UNCHANGED <<listening, pipe, callVars, unread, server>>

Reads(c) ==
  /\ \E i \in Instances : /\ peer[i] = c /\ unread[i] > 0
                          /\ unread' = [unread EXCEPT ![i] = @ - 1]
  /\ UNCHANGED <<listening, pipe, callVars, instance, peer, server>>

Leaves(c) ==
  /\ \E i \in Instances : /\ peer[i] = c
                          /\ instance' = [instance EXCEPT ![i] = "broken"]
                          /\ peer' = [peer EXCEPT ![i] = None]
                          /\ unread' = [unread EXCEPT ![i] = 0]
  /\ UNCHANGED <<listening, pipe, callVars, server>>

-----------------------------------------------------------------------------
Init ==
  /\ listening = FALSE /\ pipe = None
  /\ place = "idle" /\ call = "none" /\ local = None /\ events = 0
  /\ instance = [i \in Instances |-> "none"] /\ peer = [i \in Instances |-> None]
  /\ server = [i \in Instances |-> "none"] /\ unread = [i \in Instances |-> 0]

Next ==
  \/ Listener
  \/ \E i \in Instances : Descriptor(i)
  \/ \E c \in Clients : Connects(c) \/ Reads(c) \/ Leaves(c)

Spec == Init /\ [][Next]_vars

\* Calls run on, and the application ends the connections it serves; a client that finds
\* the pipe connects, and reads what it is sent.
FairSpec ==
  /\ Spec
  /\ WF_vars(Waiting)
  /\ \A i \in Instances : WF_vars(Ends(i)) /\ WF_vars(Destruction(i))
  /\ WF_vars(\E c \in Clients : Connects(c)) /\ \A c \in Clients : WF_vars(Reads(c))

-----------------------------------------------------------------------------
(* Properties.                                                             *)

\* The variables have their types.
TypeOK ==
  /\ listening \in BOOLEAN /\ pipe \in Instances \cup {None}
  /\ place \in {"idle", "create", "connect", "pending", "cancel", "failing", "take",
             "terminated"}
  /\ call \in {"none", "wait", "accept"} /\ local \in Instances \cup {None}
  /\ events \in 0..MaxEvents
  /\ instance \in [Instances -> {"none", "listening", "connected", "broken", "disconnected"}]
  /\ peer \in [Instances -> Clients \cup {None}]
  /\ server \in [Instances -> {"none", "serving", "flushing", "flushed", "disconnected"}]
  /\ unread \in [Instances -> 0..MaxUnread]

\* Every handle has one guard, as it moves from wait() to the listener and to a
\* descriptor, through timeouts and exceptions: none is closed twice, none is left open
\* (Handle_guard, os/windows.hpp 50-117).
HandlesOwned ==
  \A i \in Instances :
    LET guards == {g \in {"local", "pipe", "server"} :
                     \/ g = "local" /\ local = i
                     \/ g = "pipe" /\ pipe = i
                     \/ g = "server" /\ server[i] # "none"}
    IN Cardinality(guards) = IF instance[i] = "none" THEN 0 ELSE 1

\* A client that has connected is dropped without having been accepted only by close(),
\* or when wait() has timed out, or failed, at the same time: what wait() has answered true
\* for is what accept() returns (net/listener.hpp 396, 444, 448-453).
OnlyLateAreDropped ==
  [][\A i \in Instances :
       instance[i] = "connected" /\ server[i] = "none" /\ instance'[i] = "none"
         => place \in {"cancel", "failing"} \/ ~listening']_vars

\* The server disconnects a client that is still there only when it has read the whole
\* response (net/descriptor.hpp 213-218, 256-261).
ResponseIsRead ==
  [][\A i \in Instances :
       peer[i] # None /\ server[i] # "none" /\ peer'[i] # peer[i] /\ instance'[i] # "broken"
         => unread[i] = 0]_vars

\* accept() returns, with a connection or an exception and never with the assertion
\* behind wait() failed (450), as clients connect to the pipe,
\* and so does the destruction of a connection, whose client reads what it is sent or
\* goes (net/listener.hpp 385-453, net/descriptor.hpp 211-220).
CallsReturn ==
  /\ (call = "accept") ~> (call = "none")
  /\ \A i \in Instances : (server[i] = "flushing") ~> (server[i] = "none")

=============================================================================
