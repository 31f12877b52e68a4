------------------------- MODULE PipeListenerProofs -------------------------
(***************************************************************************)
(* Theorems about the listener of named pipes.                              *)
(***************************************************************************)
EXTENDS PipeListener, FiniteSetTheorems, TLAPS

-----------------------------------------------------------------------------
(* The inductive invariant.                                                *)

\* Where the guard in wait() holds a handle, and pipe_.
Guards ==
  /\ place \in {"connect", "pending", "cancel", "failing"} <=> local # None
  /\ place \in {"create", "connect", "pending", "cancel", "failing"} => pipe = None
  /\ place = "take" => pipe # None
  /\ place = "cancel" => call = "wait"
  /\ place # "terminated"

\* A handle is open while one of the guards has it, and one alone.
Owned ==
  \A i \in Instances :
    /\ instance[i] # "none" => i = local \/ i = pipe \/ server[i] # "none"
    /\ i = local \/ i = pipe => server[i] = "none"
    /\ i = local \/ i = pipe \/ server[i] # "none" => instance[i] # "none"

\* Who is served has connected, and has read everything when nobody waits for that any more.
Served ==
  \A i \in Instances :
    /\ i = pipe \/ server[i] # "none" => instance[i] # "listening"
    /\ instance[i] \in {"none", "broken"} \/ server[i] = "disconnected" => peer[i] = None
    /\ server[i] = "flushed" /\ peer[i] # None => unread[i] = 0

PipeInv == TypeOK /\ Guards /\ Owned /\ Served

-----------------------------------------------------------------------------
\* No instance is None.
LEMMA NoneIsNone == \A i \in Instances : i # None
BY NoneAssumption

LEMMA InitPipe == Init => PipeInv
<1> SUFFICES ASSUME Init PROVE PipeInv
  OBVIOUS
<1>1. TypeOK
  <2>1. 0 \in 0..MaxEvents /\ 0 \in 0..MaxUnread
    BY BoundsAssumption
  <2> QED BY <2>1 DEF Init, TypeOK
<1>2. Guards /\ Owned /\ Served
  BY NoneIsNone DEF Init, Guards, Owned, Served
<1> QED BY <1>1, <1>2 DEF PipeInv

LEMMA ListenPipe ==
  ASSUME PipeInv, Listen \/ Close
  PROVE  PipeInv'
<1> USE NoneIsNone, BoundsAssumption
    DEF PipeInv, callVars, pipeVars
<1>1. TypeOK'
  <2>1. CASE Listen
    BY <2>1 DEF Listen, TypeOK
  <2>2. CASE Close /\ pipe = None
    BY <2>2 DEF Close, TypeOK
  <2>3. CASE Close /\ pipe # None
    <3>1. 0 \in 0..MaxUnread /\ pipe \in Instances
      BY <2>3 DEF TypeOK
    <3>2. /\ instance' = [instance EXCEPT ![pipe] = "none"]
          /\ peer' = [peer EXCEPT ![pipe] = None]
          /\ unread' = [unread EXCEPT ![pipe] = 0]
          /\ listening' = FALSE /\ pipe' = None
          /\ UNCHANGED <<place, call, local, events, server>>
      BY <2>3 DEF Close, ClosesHandle
    <3>3. /\ instance' \in [Instances -> {"none", "listening", "connected", "broken",
                                         "disconnected"}]
          /\ peer' \in [Instances -> Clients \cup {None}]
      BY <3>2 DEF TypeOK
    <3>4. unread' \in [Instances -> 0..MaxUnread]
      BY <3>1, <3>2 DEF TypeOK
    <3> QED BY <3>2, <3>3, <3>4 DEF TypeOK
  <2> QED BY <2>1, <2>2, <2>3
<1>2. Guards'
  BY DEF Listen, Close, Guards
<1>3. Owned'
  BY DEF Listen, Close, ClosesHandle, TypeOK, Owned, Guards
<1>4. Served'
  BY DEF Listen, Close, ClosesHandle, TypeOK, Owned, Served
<1> QED BY <1>1, <1>2, <1>3, <1>4

LEMMA CallsPipe ==
  ASSUME PipeInv, NEW kind \in {"wait", "accept"}, Calls(kind) \/ CallsReady(kind)
  PROVE  PipeInv'
BY NoneIsNone
   DEF PipeInv, callVars, pipeVars, Calls, CallsReady, TypeOK, Guards, Owned, Served

LEMMA CreatesPipe ==
  ASSUME PipeInv, Creates \/ CreateFails
  PROVE  PipeInv'
<1> USE NoneIsNone, BoundsAssumption DEF PipeInv, pipeVars
<1>1. TypeOK'
  BY DEF Creates, CreateFails, TypeOK
<1>2. Guards'
  BY DEF Creates, CreateFails, TypeOK, Guards
<1>3. Owned'
  BY DEF Creates, CreateFails, TypeOK, Guards, Owned
<1>4. Served'
  BY DEF Creates, CreateFails, TypeOK, Guards, Owned, Served
<1> QED BY <1>1, <1>2, <1>3, <1>4

\* wait() ends with a connection.
LEMMA KeepsPipe ==
  ASSUME PipeInv, ConnectFinds \/ Connected
  PROVE  PipeInv'
<1> USE NoneIsNone DEF PipeInv, pipeVars
<1>1. /\ pipe = None /\ local # None /\ instance[local] # "listening"
      /\ pipe' = local /\ local' = None /\ Returns
      /\ UNCHANGED <<instance, peer, unread, listening, events, server>>
  BY DEF ConnectFinds, Connected, Keeps, Guards
<1>2. TypeOK'
  BY <1>1 DEF Returns, TypeOK
<1>3. Guards'
  BY <1>1 DEF Returns, TypeOK, Guards
<1>4. Owned'
  BY <1>1 DEF TypeOK, Owned
<1>5. Served'
  BY <1>1 DEF TypeOK, Served
<1> QED BY <1>2, <1>3, <1>4, <1>5

\* wait() ends without one.
LEMMA DropsPipe ==
  ASSUME PipeInv, ConnectFails \/ Cancels \/ WaitThrows
  PROVE  PipeInv'
<1> USE NoneIsNone DEF PipeInv
<1>1. /\ pipe = None /\ local # None /\ DropsLocal
      /\ place' = "idle" /\ call' = "none"
      /\ UNCHANGED <<pipe, listening, events, server>>
  BY DEF ConnectFails, Cancels, WaitThrows, Unwinds, Returns, Guards
<1>2. TypeOK'
  BY <1>1, BoundsAssumption DEF DropsLocal, ClosesHandle, TypeOK
<1>3. Guards'
  BY <1>1 DEF DropsLocal, Guards
<1>4. Owned'
  BY <1>1 DEF DropsLocal, ClosesHandle, TypeOK, Owned
<1>5. Served'
  BY <1>1 DEF DropsLocal, ClosesHandle, TypeOK, Served
<1> QED BY <1>2, <1>3, <1>4, <1>5

LEMMA WaitsPipe ==
  ASSUME PipeInv, ConnectPends \/ TimesOut \/ WaitFails
  PROVE  PipeInv'
BY DEF PipeInv, pipeVars, ConnectPends, TimesOut, WaitFails, TypeOK, Guards, Owned, Served

LEMMA TakesPipe ==
  ASSUME PipeInv, Takes
  PROVE  PipeInv'
<1> USE NoneIsNone DEF PipeInv, pipeVars
<1>1. /\ pipe # None /\ local = None /\ pipe \in Instances
      /\ server' = [server EXCEPT ![pipe] = "serving"]
      /\ pipe' = None /\ place' = "idle" /\ call' = "none"
      /\ UNCHANGED <<listening, local, events, instance, peer, unread>>
  BY DEF Takes, Guards, TypeOK
<1>2. TypeOK'
  BY <1>1 DEF TypeOK
<1>3. Guards'
  BY <1>1 DEF Guards
<1>4. Owned'
  BY <1>1 DEF TypeOK, Owned
<1>5. Served'
  BY <1>1 DEF TypeOK, Served, Owned
<1> QED BY <1>2, <1>3, <1>4, <1>5

LEMMA DescriptorPipe ==
  ASSUME PipeInv, NEW i \in Instances, Descriptor(i)
  PROVE  PipeInv'
<1> USE NoneIsNone, BoundsAssumption DEF PipeInv, callVars, pipeVars
<1>1. CASE Writes(i)
  BY <1>1 DEF Writes, TypeOK, Guards, Owned, Served
<1>2. CASE Ends(i)
  BY <1>2 DEF Ends, TypeOK, Guards, Owned, Served
<1>3. CASE Flushes(i)
  BY <1>3 DEF Flushes, TypeOK, Guards, Owned, Served
<1>4. CASE Disconnects(i)
  BY <1>4 DEF Disconnects, TypeOK, Guards, Owned, Served
<1>5. CASE Closes(i)
  BY <1>5 DEF Closes, ClosesHandle, TypeOK, Guards, Owned, Served
<1> QED BY <1>1, <1>2, <1>3, <1>4, <1>5 DEF Descriptor, Destruction

LEMMA ClientPipe ==
  ASSUME PipeInv, NEW c \in Clients, Connects(c) \/ Reads(c) \/ Leaves(c)
  PROVE  PipeInv'
<1> USE NoneIsNone, NoneAssumption, BoundsAssumption DEF PipeInv, callVars
<1>1. CASE Connects(c)
  BY <1>1 DEF Connects, TypeOK, Guards, Owned, Served
<1>2. CASE Reads(c)
  BY <1>2 DEF Reads, TypeOK, Guards, Owned, Served
<1>3. CASE Leaves(c)
  BY <1>3 DEF Leaves, TypeOK, Guards, Owned, Served
<1> QED BY <1>1, <1>2, <1>3

LEMMA StepPipe == PipeInv /\ [Next]_vars => PipeInv'
<1> SUFFICES ASSUME PipeInv, [Next]_vars PROVE PipeInv'
  OBVIOUS
<1>1. CASE Listener
  BY <1>1, ListenPipe, CallsPipe, CreatesPipe, KeepsPipe, DropsPipe, WaitsPipe, TakesPipe
     DEF Listener, Waiting
<1>2. CASE UNCHANGED vars
  BY <1>2 DEF vars, callVars, pipeVars, PipeInv, TypeOK, Guards, Owned, Served
<1> QED BY <1>1, <1>2, DescriptorPipe, ClientPipe DEF Next

-----------------------------------------------------------------------------
(* The theorems.                                                           *)

\* The variables keep their types, however many clients and instances there are.
THEOREM TypeCorrect == Spec => []TypeOK
<1>1. PipeInv => TypeOK
  BY DEF PipeInv
<1> QED BY <1>1, InitPipe, StepPipe, PTL DEF Spec

\* A handle that wait() has made is in one guard until it is closed, also when wait() times
\* out, throws or is called again (Handle_guard, os/windows.hpp 50-117, as
\* net/listener.hpp 385-453 uses it).
THEOREM HandlesAreOwned == Spec => []HandlesOwned
<1>1. PipeInv => HandlesOwned
  <2> SUFFICES ASSUME PipeInv, NEW i \in Instances
               PROVE  LET guards == {g \in {"local", "pipe", "server"} :
                                       \/ g = "local" /\ local = i
                                       \/ g = "pipe" /\ pipe = i
                                       \/ g = "server" /\ server[i] # "none"}
                      IN Cardinality(guards) = IF instance[i] = "none" THEN 0 ELSE 1
    BY DEF HandlesOwned
  <2> DEFINE guards == {g \in {"local", "pipe", "server"} :
                          \/ g = "local" /\ local = i
                          \/ g = "pipe" /\ pipe = i
                          \/ g = "server" /\ server[i] # "none"}
  <2>1. CASE instance[i] = "none"
    <3>1. guards = {}
      BY <2>1 DEF PipeInv, Owned
    <3> QED BY <2>1, <3>1, FS_EmptySet
  <2>2. CASE instance[i] # "none"
    <3>1. local # i \/ pipe # i
      BY NoneIsNone DEF PipeInv, Guards
    <3>2. \E g : guards = {g}
      <4>1. CASE local = i
        <5>1. guards = {"local"}
          BY <3>1, <4>1 DEF PipeInv, Owned
        <5> QED BY <5>1
      <4>2. CASE pipe = i
        <5>1. guards = {"pipe"}
          BY <3>1, <4>2 DEF PipeInv, Owned
        <5> QED BY <5>1
      <4>3. CASE local # i /\ pipe # i
        <5>1. guards = {"server"}
          BY <2>2, <4>3 DEF PipeInv, Owned
        <5> QED BY <5>1
      <4> QED BY <4>1, <4>2, <4>3
    <3> QED BY <2>2, <3>2, FS_Singleton
  <2> QED BY <2>1, <2>2
<1> QED BY <1>1, InitPipe, StepPipe, PTL DEF Spec

\* The assertion that accept() makes behind wait() holds: without a timeout, wait() returns
\* with a connection or not at all (net/listener.hpp 447-450).
THEOREM AcceptHasPipe == Spec => [](place # "terminated")
<1>1. PipeInv => place # "terminated"
  BY DEF PipeInv, Guards
<1> QED BY <1>1, InitPipe, StepPipe, PTL DEF Spec

\* Only close() and a wait() that has timed out, or failed, drop a client that has connected:
\* pipe_ is empty whenever wait() makes a new instance (net/listener.hpp 396, 444, 448-453).
THEOREM NoClientIsDropped == Spec => OnlyLateAreDropped
<1>1. PipeInv /\ [Next]_vars =>
        [\A i \in Instances :
           instance[i] = "connected" /\ server[i] = "none" /\ instance'[i] = "none"
             => place \in {"cancel", "failing"} \/ ~listening']_vars
  <2> SUFFICES ASSUME PipeInv, Next, NEW i \in Instances,
                      instance[i] = "connected", server[i] = "none", instance'[i] = "none",
                      place \notin {"cancel", "failing"}
               PROVE  ~listening'
    BY DEF vars
  <2> USE DEF PipeInv, TypeOK, callVars, pipeVars, ClosesHandle
  <2>1. CASE Listener
    <3>1. CASE Listen \/ Close
      BY <3>1 DEF Listen, Close
    <3>2. CASE \E kind \in {"wait", "accept"} : Calls(kind) \/ CallsReady(kind)
      BY <3>2 DEF Calls, CallsReady
    <3>3. CASE Creates \/ CreateFails
      BY <3>3 DEF Creates, CreateFails
    <3>4. CASE ConnectFinds \/ Connected
      BY <3>4 DEF ConnectFinds, Connected, Keeps, Guards
    <3>5. CASE ConnectFails \/ WaitThrows \/ Cancels
      BY <3>5 DEF ConnectFails, WaitThrows, Cancels, Unwinds, DropsLocal
    <3>6. CASE ConnectPends \/ TimesOut \/ WaitFails \/ Takes
      BY <3>6 DEF ConnectPends, TimesOut, WaitFails, Takes
    <3> QED BY <2>1, <3>1, <3>2, <3>3, <3>4, <3>5, <3>6 DEF Listener, Waiting
  <2>2. CASE \E j \in Instances : Descriptor(j)
    BY <2>2 DEF Descriptor, Destruction, Writes, Ends, Flushes, Disconnects, Closes
  <2>3. CASE \E c \in Clients : Connects(c) \/ Reads(c) \/ Leaves(c)
    BY <2>3 DEF Connects, Reads, Leaves
  <2> QED BY <2>1, <2>2, <2>3 DEF Next
<1> QED BY <1>1, InitPipe, StepPipe, PTL DEF Spec, OnlyLateAreDropped

\* A client that is still there is disconnected only when it has read the whole response
\* (net/descriptor.hpp 213-218, 256-261).
THEOREM ResponsesAreRead == Spec => ResponseIsRead
<1>1. PipeInv /\ [Next]_vars =>
        [\A i \in Instances :
           peer[i] # None /\ server[i] # "none" /\ peer'[i] # peer[i] /\ instance'[i] # "broken"
             => unread[i] = 0]_vars
  <2> SUFFICES ASSUME PipeInv, Next, NEW i \in Instances,
                      peer[i] # None, server[i] # "none", peer'[i] # peer[i],
                      instance'[i] # "broken"
               PROVE  unread[i] = 0
    BY DEF vars
  <2> USE DEF PipeInv, TypeOK, callVars, pipeVars, ClosesHandle
  <2>1. CASE Listener
    <3>1. CASE Listen \/ Close
      BY <3>1, NoneIsNone DEF Listen, Close, Owned
    <3>2. CASE \E kind \in {"wait", "accept"} : Calls(kind) \/ CallsReady(kind)
      BY <3>2 DEF Calls, CallsReady
    <3>3. CASE Creates \/ CreateFails
      BY <3>3 DEF Creates, CreateFails
    <3>4. CASE ConnectFinds \/ Connected
      BY <3>4 DEF ConnectFinds, Connected, Keeps, Guards
    <3>5. CASE ConnectFails \/ WaitThrows \/ Cancels
      BY <3>5 DEF ConnectFails, WaitThrows, Cancels, Unwinds, DropsLocal, Owned
    <3>6. CASE ConnectPends \/ TimesOut \/ WaitFails \/ Takes
      BY <3>6 DEF ConnectPends, TimesOut, WaitFails, Takes
    <3> QED BY <2>1, <3>1, <3>2, <3>3, <3>4, <3>5, <3>6 DEF Listener, Waiting
  <2>2. CASE \E j \in Instances : Descriptor(j)
    BY <2>2 DEF Descriptor, Destruction, Writes, Ends, Flushes, Disconnects, Closes, Served
  <2>3. CASE \E c \in Clients : Connects(c) \/ Reads(c) \/ Leaves(c)
    BY <2>3 DEF Connects, Reads, Leaves, Served
  <2> QED BY <2>1, <2>2, <2>3 DEF Next
<1> QED BY <1>1, InitPipe, StepPipe, PTL DEF Spec, ResponseIsRead

=============================================================================
