--------------------------- MODULE EndpointsProofs ---------------------------
(***************************************************************************)
(* Theorems about Endpoints for any number of processes and any options: a  *)
(* listener whose listen() has returned is the one that the clients of its  *)
(* endpoint get to, and listen() fails only if somebody is in the way.      *)
(***************************************************************************)
EXTENDS Endpoints, TLAPS

-----------------------------------------------------------------------------
(* Addresses.                                                              *)

LEMMA AddressOfPath ==
  ASSUME NEW o, communication_mode(o) = "uds"
  PROVE  Address(o) \in {[family |-> "none"], [family |-> "local", path |-> o.path]}
BY SMT DEF Address

LEMMA AddressOfNet ==
  ASSUME NEW o, communication_mode(o) = "net"
  PROVE  \/ Address(o) = [family |-> "unspec"]
         \/ /\ Family(o.address) \in {"ipv4", "ipv6"}
            /\ Address(o) = [family |-> Family(o.address), host |-> o.address,
                             port |-> o.port % 65536]
BY SMT DEF Address, Family

LEMMA Modes ==
  ASSUME NEW o
  PROVE  communication_mode(o) \in {"uds", "net"}
BY DEF communication_mode

LEMMA ProperAddress ==
  ASSUME NEW o, communication_mode(o) = "net", Proper(o), Makeable(o)
  PROVE  /\ Address(o) = [family |-> "ipv4", host |-> o.address, port |-> o.port]
         /\ o.port # 0
<1>1. o.address \in IPv4 /\ o.port % 65536 = o.port
  BY DEF Proper
<1>2. Family(o.address) = "ipv4"
  BY <1>1 DEF Family
<1>3. Address(o) = [family |-> Family(o.address), host |-> o.address, port |-> o.port % 65536]
  BY <1>2, SMT DEF Address
<1>4. o.port # 0
  BY DEF Makeable, OptionsOk
<1> QED BY <1>1, <1>2, <1>3, <1>4

\* What a socket is bound to is an address of IPv4, and that of proper options is their own.
LEMMA BoundNames ==
  ASSUME NEW o, communication_mode(o) = "net", NEW name \in InetNames(Address(o))
  PROVE  /\ name.family = "ipv4"
         /\ Proper(o) /\ Makeable(o) => name = Address(o)
<1>1. CASE Address(o) = [family |-> "unspec"]
  <2>1. name.family = "ipv4"
    BY <1>1 DEF InetNames
  <2>2. ~(Proper(o) /\ Makeable(o))
    BY <1>1, ProperAddress
  <2> QED BY <2>1, <2>2
<1>2. ASSUME NEW h, NEW n, Address(o) = [family |-> "ipv4", host |-> h, port |-> n]
      PROVE  name.family = "ipv4" /\ (n # 0 => name = Address(o))
  BY <1>2 DEF InetNames
<1>3. CASE Address(o) = [family |-> "ipv6", host |-> o.address, port |-> o.port % 65536]
  BY <1>3 DEF InetNames
<1>4. CASE Address(o) = [family |-> "ipv4", host |-> o.address, port |-> o.port % 65536]
  <2>1. name.family = "ipv4"
    BY <1>2, <1>4
  <2>2. ASSUME Proper(o), Makeable(o)
        PROVE  name = Address(o)
    BY <1>2, <2>2, ProperAddress
  <2> QED BY <2>1, <2>2
<1> QED BY <1>1, <1>3, <1>4, AddressOfNet

\* Options of one address are of one endpoint.
LEMMA SameEndpoint ==
  ASSUME NEW p \in Processes, NEW q \in Processes, NEW o \in Options[p], NEW r \in Options[q],
         \/ /\ communication_mode(o) = "uds" /\ communication_mode(r) = "uds"
            /\ o.path = r.path
         \/ /\ communication_mode(o) = "net" /\ communication_mode(r) = "net"
            /\ o.address = r.address /\ o.port = r.port
  PROVE  Endpoint(o) = Endpoint(r)
<1>1. /\ DOMAIN o \in {{"path", "backlog"}, {"address", "port", "backlog"}}
      /\ DOMAIN r \in {{"path", "backlog"}, {"address", "port", "backlog"}}
  BY OptionsAssumption
<1>2. CASE communication_mode(o) = "uds"
  <2>1. DOMAIN o = {"path", "backlog"} /\ DOMAIN r = {"path", "backlog"} /\ o.path = r.path
    BY <1>1, <1>2 DEF communication_mode
  <2> QED BY <2>1, SMT DEF Endpoint
<1>3. CASE communication_mode(o) = "net"
  <2>1. /\ DOMAIN o = {"address", "port", "backlog"} /\ DOMAIN r = {"address", "port", "backlog"}
        /\ o.address = r.address /\ o.port = r.port
    BY <1>1, <1>3 DEF communication_mode
  <2> QED BY <2>1, SMT DEF Endpoint
<1> QED BY <1>2, <1>3

-----------------------------------------------------------------------------
(* Types.                                                                  *)

Sockets(p) ==
  \/ socket[p] \in {None, Created} /\ at[p] \notin {"bound", "up"}
  \/ \E b \in BOOLEAN : socket[p] = Bound(socket[p].address, b)

Types ==
  /\ at \in [Processes -> {"out", "new", "bound", "up", "threw", "dying"}]
  /\ \A p \in Processes : asked[p] \in Options[p] /\ Makeable(asked[p])
  /\ \A p \in Processes : Sockets(p)
  /\ DOMAIN asked = Processes /\ DOMAIN socket = Processes
  /\ files \in [Paths -> {"absent", "stale"} \cup Processes]
  /\ unixTcp \in UnixTcp /\ stops \in 0..MaxStops

LEMMA InitTypes == Init => Types
<1> SUFFICES ASSUME Init PROVE Types
  OBVIOUS
<1>1. stops \in 0..MaxStops /\ unixTcp \in UnixTcp
  BY StopsAssumption DEF Init
<1>2. \A p \in Processes : Sockets(p)
  BY DEF Init, Sockets
<1>3. files \in [Paths -> {"absent", "stale"} \cup Processes]
  BY DEF Init
<1> QED BY <1>1, <1>2, <1>3 DEF Init, Types

LEMMA BoundFields ==
  ASSUME NEW a, NEW b
  PROVE  Bound(a, b).address = a /\ Bound(a, b).listening = b /\ Bound(a, b).kind = "bound"
BY DEF Bound

LEMMA BoundListens ==
  ASSUME NEW a, NEW b, NEW x, x = [Bound(a, b) EXCEPT !.listening = TRUE]
  PROVE  x = Bound(a, TRUE) /\ x.address = a /\ x.listening /\ x.kind = "bound"
BY DEF Bound

LEMMA ClosesType ==
  ASSUME Types, NEW p \in Processes, SocketCloses(p),
         NEW place \in {"new", "dying", "out"}, at' = [at EXCEPT ![p] = place]
  PROVE  /\ \A q \in Processes : Sockets(q)'
         /\ DOMAIN socket' = Processes /\ unixTcp' \in UnixTcp
         /\ files' \in [Paths -> {"absent", "stale"} \cup Processes]
BY DEF Types, Sockets, SocketCloses, None

LEMMA StepTypes == Types /\ [Next]_vars => Types'
<1> SUFFICES ASSUME Types, [Next]_vars PROVE Types'
  OBVIOUS
<1>1. CASE LingerEnds \/ UNCHANGED vars
  BY <1>1 DEF LingerEnds, vars, systemVars, Types, Sockets
<1>2. ASSUME NEW p \in Processes, Make(p)
      PROVE  Types'
  BY <1>2 DEF Make, GoesTo, systemVars, Types, Sockets
<1>3. ASSUME NEW p \in Processes, ListenBinds(p)
      PROVE  Types'
  <2>1. PICK name :
          /\ socket' = [socket EXCEPT ![p] = Bound(name, FALSE)]
          /\ files' = [path \in Paths |->
                         IF name.family = "local" /\ path = name.path THEN p ELSE files[path]]
    BY <1>3 DEF ListenBinds
  <2>2. at' = [at EXCEPT ![p] = "bound"] /\ UNCHANGED <<asked, unixTcp, stops>>
    BY <1>3 DEF ListenBinds, GoesTo
  <2>3. Sockets(p)'
    <3>1. socket'[p] = Bound(socket'[p].address, FALSE)
      BY <2>1, BoundFields DEF Types
    <3> QED BY <3>1 DEF Sockets
  <2>4. \A q \in Processes \ {p} : Sockets(q)'
    BY <2>1, <2>2 DEF Types, Sockets
  <2>5. files' \in [Paths -> {"absent", "stale"} \cup Processes]
    BY <2>1 DEF Types
  <2> QED BY <2>1, <2>2, <2>3, <2>4, <2>5 DEF Types
<1>4. ASSUME NEW p \in Processes, ListenStarts(p)
      PROVE  Types'
  <2>1. /\ at[p] = "bound" /\ at' = [at EXCEPT ![p] = "up"]
        /\ socket' = [socket EXCEPT ![p].listening = TRUE]
        /\ UNCHANGED <<asked, files, unixTcp, stops>>
    BY <1>4 DEF ListenStarts, GoesTo, systemVars
  <2>2. PICK a, b : socket[p] = Bound(a, b)
    BY <2>1 DEF Types, Sockets
  <2>3. Sockets(p)'
    <3>1. socket'[p] = [socket[p] EXCEPT !.listening = TRUE]
      BY <2>1 DEF Types
    <3>2. PICK x : x = socket'[p] /\ x = [Bound(a, b) EXCEPT !.listening = TRUE]
      BY <2>2, <3>1
    <3>3. x = Bound(a, TRUE)
      BY <3>2 DEF Bound
    <3>4. x.address = a
      BY <3>3 DEF Bound
    <3>5. x = Bound(x.address, TRUE)
      BY <3>3, <3>4
    <3> QED BY <3>2, <3>5 DEF Sockets
  <2>4. \A q \in Processes \ {p} : Sockets(q)'
    BY <2>1 DEF Types, Sockets
  <2> QED BY <2>1, <2>3, <2>4 DEF Types
<1>5. ASSUME NEW p \in Processes, ListenThrows(p)
      PROVE  Types'
  BY <1>5 DEF ListenThrows, GoesTo, systemVars, Types, Sockets, Created
<1>6. ASSUME NEW p \in Processes, Close(p) \/ DestroyCloses(p) \/ Crash(p)
      PROVE  Types'
  <2>1. SocketCloses(p) /\ UNCHANGED asked /\ (UNCHANGED stops \/ Stops)
        /\ \E place \in {"new", "dying", "out"} : at' = [at EXCEPT ![p] = place]
    BY <1>6 DEF Close, DestroyCloses, Crash, GoesTo
  <2>2. stops' \in 0..MaxStops
    BY <2>1, StopsAssumption DEF Stops, Types
  <2>3. /\ \A q \in Processes : Sockets(q)'
        /\ DOMAIN socket' = Processes /\ unixTcp' \in UnixTcp
        /\ files' \in [Paths -> {"absent", "stale"} \cup Processes]
    BY <2>1, ClosesType
  <2>4. at' \in [Processes -> {"out", "new", "bound", "up", "threw", "dying"}]
    BY <2>1 DEF Types
  <2> QED BY <2>1, <2>2, <2>3, <2>4 DEF Types
<1>7. ASSUME NEW p \in Processes, DestroyUnlinks(p)
      PROVE  Types'
  BY <1>7 DEF DestroyUnlinks, GoesTo, Unlinked, Types, Sockets
<1> QED BY <1>1, <1>2, <1>3, <1>4, <1>5, <1>6, <1>7 DEF Next, Goes

\* The variables have their types: no process has a listener whose options are to be
\* refused, and every path is a process's, stale or free (net/listener.hpp, 69-107).
THEOREM TypeCorrect == Spec => []TypeOK
<1>1. Types => TypeOK
  <2> SUFFICES ASSUME Types PROVE TypeOK
    OBVIOUS
  <2>1. ASSUME NEW p \in Processes PROVE asked[p].backlog >= 1
    <3>1. asked[p].backlog \in Int /\ asked[p].backlog > 0
      BY OptionsAssumption DEF Types, Makeable, OptionsOk
    <3> QED BY <3>1
  <2> QED BY <2>1 DEF Types, TypeOK, Sockets
<1> QED BY <1>1, InitTypes, StepTypes, PTL DEF Spec

-----------------------------------------------------------------------------
(* Who listens where.                                                      *)

Uds(p) == communication_mode(asked[p]) = "uds"

\* A bound socket is that of the listener's options.
OwnAddress(p) ==
  IF Uds(p)
    THEN /\ socket[p].address = Address(asked[p]) /\ socket[p].address.family = "local"
         /\ CanCreate("local")
    ELSE socket[p].address \in InetNames(Address(asked[p]))

\* Where sockets are bound, and who is at a path; its path is taken from no process that
\* shares it with none, and no two sockets of IPv4 listen where a client could get to both.
Places ==
  /\ \A p \in Processes : IsBound(p) =>
       /\ at[p] \in {"bound", "up", "threw"} /\ (socket[p].listening <=> at[p] = "up")
       /\ OwnAddress(p)
  /\ \A path \in Paths, p \in Processes :
       files[path] = p => IsBound(p) /\ Uds(p) /\ asked[p].path = path
  /\ \A p \in Processes :
       IsBound(p) /\ Uds(p) /\ Unshared(p, asked[p]) => files[asked[p].path] = p
  /\ \A p, q \in Processes :
       /\ Listens(p) /\ Listens(q) /\ p # q /\ ~Uds(p) /\ ~Uds(q)
       /\ socket[p].address.port = socket[q].address.port
       => ~SameHost(socket[p].address.host, socket[q].address.host)

LEMMA InitPlaces == Init => Places
BY ProcessesAssumption DEF Init, Places, IsBound, Listens, None

\* What a socket is bound to tells the options of its listener.
LEMMA BoundFamily ==
  ASSUME Places, NEW p \in Processes, IsBound(p)
  PROVE  /\ Uds(p) <=> socket[p].address.family = "local"
         /\ ~Uds(p) <=> socket[p].address.family = "ipv4"
         /\ Uds(p) => Address(asked[p]) = [family |-> "local", path |-> asked[p].path]
<1>1. OwnAddress(p)
  BY DEF Places
<1>2. CASE Uds(p)
  <2>1. socket[p].address = Address(asked[p]) /\ socket[p].address.family = "local"
    BY <1>1, <1>2 DEF OwnAddress
  <2>2. Address(asked[p]) \in {[family |-> "none"], [family |-> "local", path |-> asked[p].path]}
    BY <1>2, AddressOfPath DEF Uds
  <2> QED BY <1>2, <2>1, <2>2
<1>3. CASE ~Uds(p)
  <2>1. communication_mode(asked[p]) = "net"
    BY <1>3, Modes DEF Uds
  <2>2. socket[p].address \in InetNames(Address(asked[p]))
    BY <1>1, <1>3 DEF OwnAddress
  <2>3. socket[p].address.family = "ipv4"
    BY <2>1, <2>2, BoundNames
  <2> QED BY <1>3, <2>3
<1> QED BY <1>2, <1>3

\* The path of a process' options is one of Paths, and of an unshared path no other process is.
LEMMA PathsOfOptions ==
  ASSUME Types, NEW p \in Processes, Uds(p)
  PROVE  /\ asked[p].path \in Paths
         /\ Unshared(p, asked[p]) =>
              \A q \in Processes \ {p} : Uds(q) => asked[q].path # asked[p].path
BY DEF Types, Uds, Paths, Unshared

\* A step of p that leaves the others, the paths and where p is bound alone.
Alone(p) ==
  /\ \A q \in Processes \ {p} :
       at'[q] = at[q] /\ asked'[q] = asked[q] /\ socket'[q] = socket[q]
  /\ UNCHANGED unixTcp

LEMMA OthersKept ==
  ASSUME NEW p \in Processes, Alone(p), NEW q \in Processes \ {p}
  PROVE  /\ IsBound(q)' <=> IsBound(q)
         /\ Listens(q)' <=> Listens(q)
         /\ Uds(q)' <=> Uds(q)
         /\ OwnAddress(q)' <=> OwnAddress(q)
         /\ Unshared(q, asked[q])' <=> Unshared(q, asked[q])
         /\ at'[q] = at[q] /\ asked'[q] = asked[q] /\ socket'[q] = socket[q]
BY DEF Alone, IsBound, Listens, Uds, OwnAddress, CanCreate

\* A step of a process that has no socket before and behind it.
LEMMA UnboundPlaces ==
  ASSUME Types, Places, NEW p \in Processes, Alone(p), ~IsBound(p), ~IsBound(p)', UNCHANGED files
  PROVE  Places'
<1>1. \A q \in Processes : IsBound(q)' => q # p
  BY DEF Alone
<1>2. \A q \in Processes : IsBound(q) => q # p
  OBVIOUS
<1>3. ~Listens(p)'
  BY DEF Listens
<1> QED BY <1>1, <1>2, <1>3, OthersKept DEF Places

\* What closes a socket takes it, and nothing else, from its place.
LEMMA ClosesPlaces ==
  ASSUME Types, Places, NEW p \in Processes, SocketCloses(p), UNCHANGED asked,
         NEW place, at' = [at EXCEPT ![p] = place]
  PROVE  Places' /\ ~IsBound(p)'
<1>1. ~IsBound(p)' /\ ~Listens(p)'
  BY DEF SocketCloses, IsBound, Listens, None, Types
<1>2. Alone(p)
  BY DEF SocketCloses, Types, Alone
<1>3. \A path \in Paths : files'[path] = IF files[path] = p THEN "stale" ELSE files[path]
  BY DEF SocketCloses
<1>4. ASSUME NEW path \in Paths, NEW q \in Processes, files'[path] = q
      PROVE  q # p /\ files[path] = q
  BY <1>3, <1>4, ProcessesAssumption
<1>5. ASSUME NEW q \in Processes \ {p}, IsBound(q)', Uds(q)', Unshared(q, asked[q])'
      PROVE  files'[asked'[q].path] = q
  <2>1. IsBound(q) /\ Uds(q) /\ Unshared(q, asked[q]) /\ asked'[q] = asked[q]
    BY <1>2, <1>5, OthersKept
  <2>2. files[asked[q].path] = q /\ asked[q].path \in Paths
    BY <2>1, PathsOfOptions DEF Places
  <2> QED BY <1>3, <2>1, <2>2
<1> QED BY <1>1, <1>2, <1>4, <1>5, OthersKept DEF Places

LEMMA BindsPlaces ==
  ASSUME Types, Places, NEW p \in Processes, ListenBinds(p)
  PROVE  Places'
<1>1. PICK name \in Bindable(p, Address(asked[p])) :
        /\ socket' = [socket EXCEPT ![p] = Bound(name, FALSE)]
        /\ files' = [path \in Paths |->
                       IF name.family = "local" /\ path = name.path THEN p ELSE files[path]]
  BY DEF ListenBinds
<1>2. /\ at' = [at EXCEPT ![p] = "bound"] /\ UNCHANGED <<asked, unixTcp>>
      /\ socket[p] = None /\ CanCreate(DomainOf(asked[p]))
  BY DEF ListenBinds, GoesTo, ListenCalled, is_listening
<1>3. Alone(p)
  BY <1>1, <1>2 DEF Types, Alone
<1>4. ~IsBound(p)
  BY <1>2 DEF IsBound, None
<1>5. /\ IsBound(p)' /\ ~Listens(p)' /\ socket'[p].address = name /\ ~socket'[p].listening
      /\ at'[p] = "bound"
  BY <1>1, <1>2, BoundFields DEF IsBound, Listens, Types
<1>6. CASE Uds(p)
  <2>1. name = Address(asked[p]) /\ name.family = "local" /\ files[name.path] = "absent"
    BY <1>1, <1>6 DEF Bindable, Uds
  <2>2. name.path = asked[p].path /\ asked[p].path \in Paths
    BY <1>6, <2>1, AddressOfPath, PathsOfOptions DEF Uds
  <2>3. CanCreate("local")
    BY <1>2, <1>6 DEF DomainOf, Uds
  <2>4. OwnAddress(p)'
    BY <1>2, <1>5, <1>6, <2>1, <2>3 DEF OwnAddress, Uds, CanCreate
  <2>5. \A path \in Paths : files'[path] = IF path = asked[p].path THEN p ELSE files[path]
    BY <1>1, <2>1, <2>2
  <2>6. ASSUME NEW path \in Paths, NEW q \in Processes, files'[path] = q
        PROVE  IsBound(q)' /\ Uds(q)' /\ asked'[q].path = path
    <3>1. CASE q = p
      <4>1. path = asked[p].path
        BY <1>4, <2>5, <2>6, <3>1 DEF Places
      <4> QED BY <1>2, <1>5, <1>6, <3>1, <4>1 DEF Uds
    <3>2. CASE q # p
      <4>1. files[path] = q
        BY <2>5, <2>6, <3>2
      <4> QED BY <1>3, <3>2, <4>1, OthersKept DEF Places
    <3> QED BY <3>1, <3>2
  <2>7. ASSUME NEW q \in Processes, IsBound(q)', Uds(q)', Unshared(q, asked[q])'
        PROVE  files'[asked'[q].path] = q
    <3>1. CASE q = p
      BY <1>2, <2>2, <2>5, <3>1
    <3>2. CASE q # p
      <4>1. IsBound(q) /\ Uds(q) /\ Unshared(q, asked[q]) /\ asked'[q] = asked[q]
        BY <1>3, <2>7, <3>2, OthersKept
      <4>2. files[asked[q].path] = q /\ asked[q].path \in Paths /\ asked[q].path # asked[p].path
        BY <1>6, <3>2, <4>1, PathsOfOptions DEF Places
      <4> QED BY <2>5, <4>1, <4>2
    <3> QED BY <3>1, <3>2
  <2> QED BY <1>3, <1>5, <2>4, <2>6, <2>7, OthersKept DEF Places
<1>7. CASE ~Uds(p)
  <2>1. communication_mode(asked[p]) = "net"
    BY <1>7, Modes DEF Uds
  <2>2. name \in InetNames(Address(asked[p]))
    BY <1>1, <2>1 DEF Bindable
  <2>3. name.family = "ipv4"
    BY <2>1, <2>2, BoundNames
  <2>4. ~Uds(p)' /\ OwnAddress(p)'
    BY <1>2, <1>5, <1>7, <2>2 DEF OwnAddress, Uds
  <2>5. \A path \in Paths : files'[path] = files[path]
    BY <1>1, <2>3
  <2>6. ASSUME NEW path \in Paths, NEW q \in Processes, files'[path] = q
        PROVE  IsBound(q)' /\ Uds(q)' /\ asked'[q].path = path
    <3>1. IsBound(q) /\ Uds(q) /\ asked[q].path = path
      BY <2>5, <2>6 DEF Places
    <3> QED BY <1>3, <1>4, <3>1, OthersKept
  <2>7. ASSUME NEW q \in Processes, IsBound(q)', Uds(q)', Unshared(q, asked[q])'
        PROVE  files'[asked'[q].path] = q
    <3>1. q # p
      BY <2>4, <2>7
    <3>2. IsBound(q) /\ Uds(q) /\ Unshared(q, asked[q]) /\ asked'[q] = asked[q]
      BY <1>3, <2>7, <3>1, OthersKept
    <3> QED BY <2>5, <3>2, PathsOfOptions DEF Places
  <2> QED BY <1>3, <1>5, <2>4, <2>6, <2>7, OthersKept DEF Places
<1> QED BY <1>6, <1>7

LEMMA StartsPlaces ==
  ASSUME Types, Places, NEW p \in Processes, ListenStarts(p)
  PROVE  Places'
<1>1. /\ at[p] = "bound" /\ at' = [at EXCEPT ![p] = "up"]
      /\ socket' = [socket EXCEPT ![p].listening = TRUE]
      /\ UNCHANGED <<asked, files, unixTcp>> /\ ~InUse(p, socket[p].address)
  BY DEF ListenStarts, GoesTo, systemVars
<1>2. PICK a, b : socket[p] = Bound(a, b)
  BY <1>1 DEF Types, Sockets
<1>3. socket'[p] = [socket[p] EXCEPT !.listening = TRUE]
  BY <1>1 DEF Types
<1>4. /\ IsBound(p) /\ IsBound(p)' /\ socket[p].address = a /\ socket'[p].address = a
      /\ socket'[p].listening
  BY <1>2, <1>3, BoundFields, BoundListens DEF IsBound
<1>5. Alone(p)
  BY <1>1 DEF Types, Alone
<1>6. at'[p] = "up" /\ asked'[p] = asked[p]
  BY <1>1 DEF Types
<1>7. /\ Uds(p)' <=> Uds(p)
      /\ OwnAddress(p)' <=> OwnAddress(p)
      /\ Unshared(p, asked[p])' <=> Unshared(p, asked[p])
  BY <1>1, <1>4 DEF Uds, OwnAddress, CanCreate
<1>8. ASSUME NEW q \in Processes \ {p}, Listens(q), ~Uds(p), ~Uds(q),
             socket[p].address.port = socket[q].address.port
      PROVE  ~SameHost(socket[q].address.host, socket[p].address.host)
  <2>1. socket[p].address.family = "ipv4" /\ socket[q].address.family = "ipv4"
    BY <1>4, <1>8, BoundFamily DEF Listens
  <2> QED BY <1>1, <1>8, <2>1 DEF InUse
<1>9. \A h, g : SameHost(h, g) <=> SameHost(g, h)
  BY DEF SameHost
<1>10. ASSUME NEW q \in Processes, NEW r \in Processes, Listens(q)', Listens(r)', q # r,
              ~Uds(q)', ~Uds(r)', socket'[q].address.port = socket'[r].address.port
       PROVE  ~SameHost(socket'[q].address.host, socket'[r].address.host)
  <2>1. CASE q # p /\ r # p
    BY <1>5, <1>10, <2>1, OthersKept DEF Places
  <2>2. CASE q = p
    <3>1. /\ Listens(r) /\ ~Uds(r) /\ ~Uds(p) /\ socket'[r] = socket[r]
          /\ socket'[p].address = socket[p].address
      BY <1>4, <1>5, <1>7, <1>10, <2>2, OthersKept
    <3>2. ~SameHost(socket[r].address.host, socket[p].address.host)
      BY <1>8, <1>10, <2>2, <3>1
    <3> QED BY <1>9, <2>2, <3>1, <3>2
  <2>3. CASE r = p
    <3>1. /\ Listens(q) /\ ~Uds(q) /\ ~Uds(p) /\ socket'[q] = socket[q]
          /\ socket'[p].address = socket[p].address
      BY <1>4, <1>5, <1>7, <1>10, <2>3, OthersKept
    <3> QED BY <1>8, <1>10, <2>3, <3>1
  <2> QED BY <1>10, <2>1, <2>2, <2>3
<1> QED BY <1>1, <1>4, <1>5, <1>6, <1>7, <1>10, OthersKept DEF Places

LEMMA ThrowsPlaces ==
  ASSUME Types, Places, NEW p \in Processes, ListenThrows(p)
  PROVE  Places'
<1>1. /\ at' = [at EXCEPT ![p] = "threw"] /\ UNCHANGED <<asked, files, unixTcp>>
  BY DEF ListenThrows, GoesTo, systemVars
<1>2. CASE ListenCalled(p) /\ socket' \in {socket, [socket EXCEPT ![p] = Created]}
  <2>1. ~IsBound(p) /\ ~IsBound(p)'
    BY <1>2 DEF ListenCalled, is_listening, IsBound, None, Created, Types
  <2>2. Alone(p)
    BY <1>1, <1>2 DEF Types, Alone
  <2> QED BY <1>1, <2>1, <2>2, UnboundPlaces
<1>3. CASE at[p] = "bound" /\ UNCHANGED socket
  <2>1. IsBound(p) => ~socket[p].listening
    BY <1>3 DEF Places
  <2>2. at'[p] = "threw" /\ Alone(p)
    BY <1>1, <1>3 DEF Types, Alone
  <2>3. \A q \in Processes :
          /\ IsBound(q)' <=> IsBound(q)
          /\ Listens(q)' <=> Listens(q)
          /\ Uds(q)' <=> Uds(q)
          /\ OwnAddress(q)' <=> OwnAddress(q)
          /\ Unshared(q, asked[q])' <=> Unshared(q, asked[q])
    BY <1>1, <1>3 DEF IsBound, Listens, Uds, OwnAddress, CanCreate
  <2>4. \A q \in Processes \ {p} : at'[q] = at[q]
    BY <2>2, OthersKept
  <2> QED BY <1>1, <1>3, <2>1, <2>2, <2>3, <2>4 DEF Places
<1> QED BY <1>2, <1>3 DEF ListenThrows

\* The unlink() of a process takes the path from no other that shares it with none.
LEMMA UnlinksPlaces ==
  ASSUME Types, Places, NEW p \in Processes, DestroyUnlinks(p)
  PROVE  Places'
<1>1. /\ at[p] = "dying" /\ at' = [at EXCEPT ![p] = "out"] /\ UNCHANGED <<asked, socket, unixTcp>>
      /\ files' = Unlinked(asked[p])
  BY DEF DestroyUnlinks, GoesTo
<1>2. ~IsBound(p) /\ ~IsBound(p)' /\ ~Listens(p)'
  BY <1>1 DEF Places, IsBound, Listens
<1>3. Alone(p)
  BY <1>1 DEF Types, Alone
<1>4. \A path \in Paths :
        files'[path] = IF Uds(p) /\ path = asked[p].path THEN "absent" ELSE files[path]
  BY <1>1 DEF Unlinked, Uds
<1>5. ASSUME NEW path \in Paths, NEW q \in Processes, files'[path] = q
      PROVE  q # p /\ files[path] = q
  BY <1>2, <1>4, <1>5, ProcessesAssumption DEF Places
<1>6. ASSUME NEW q \in Processes \ {p}, IsBound(q)', Uds(q)', Unshared(q, asked[q])'
      PROVE  files'[asked'[q].path] = q
  <2>1. IsBound(q) /\ Uds(q) /\ Unshared(q, asked[q]) /\ asked'[q] = asked[q]
    BY <1>3, <1>6, OthersKept
  <2>2. /\ files[asked[q].path] = q /\ asked[q].path \in Paths
        /\ Uds(p) => asked[p].path # asked[q].path
    BY <2>1, PathsOfOptions DEF Places
  <2> QED BY <1>4, <2>1, <2>2
<1> QED BY <1>2, <1>3, <1>5, <1>6, OthersKept DEF Places

LEMMA StepPlaces == Types /\ Places /\ [Next]_vars => Places'
<1> SUFFICES ASSUME Types, Places, [Next]_vars PROVE Places'
  OBVIOUS
<1>1. CASE LingerEnds \/ UNCHANGED vars
  <2>1. UNCHANGED <<at, asked, socket, files, unixTcp>>
    BY <1>1 DEF LingerEnds, vars, systemVars
  <2> QED BY <2>1 DEF Places, IsBound, Listens, Uds, OwnAddress, CanCreate
<1>2. ASSUME NEW p \in Processes, Make(p)
      PROVE  Places'
  <2>1. /\ at[p] = "out" /\ at' = [at EXCEPT ![p] = "new"] /\ UNCHANGED <<socket, files, unixTcp>>
        /\ \A q \in Processes \ {p} : asked'[q] = asked[q]
    BY <1>2 DEF Make, GoesTo, systemVars, Types
  <2>2. ~IsBound(p) /\ ~IsBound(p)'
    BY <2>1 DEF Places, IsBound
  <2>3. Alone(p)
    BY <2>1 DEF Types, Alone
  <2> QED BY <2>1, <2>2, <2>3, UnboundPlaces
<1>3. ASSUME NEW p \in Processes, ListenBinds(p) \/ ListenStarts(p) \/ ListenThrows(p)
                                  \/ DestroyUnlinks(p)
      PROVE  Places'
  BY <1>3, BindsPlaces, StartsPlaces, ThrowsPlaces, UnlinksPlaces
<1>4. ASSUME NEW p \in Processes, Close(p) \/ DestroyCloses(p) \/ Crash(p)
      PROVE  Places'
  <2>1. /\ SocketCloses(p) /\ UNCHANGED asked
        /\ \E place : at' = [at EXCEPT ![p] = place]
    BY <1>4 DEF Close, DestroyCloses, Crash, GoesTo
  <2> QED BY <2>1, ClosesPlaces
<1> QED BY <1>1, <1>2, <1>3, <1>4 DEF Next, Goes

\* Where a client of an endpoint gets to.
LEMMA ClientsGetTo ==
  ASSUME Types, Places, NEW p \in Processes, NEW q \in make_tcp_connection(asked[p])
  PROVE  /\ q \in Processes /\ Listens(q) /\ (Uds(q) <=> Uds(p))
         /\ Uds(p) => asked[q].path = asked[p].path /\ files[asked[p].path] = q
         /\ ~Uds(p) => /\ socket[q].address.port = Address(asked[p]).port
                       /\ SameHost(socket[q].address.host, Address(asked[p]).host)
                       /\ Address(asked[p]).family = "ipv4"
<1> DEFINE a == Address(asked[p])
<1>1. /\ q \in Processes /\ Listens(q) /\ socket[q].address.family = a.family
      /\ a.family \notin {"none", "unspec"}
      /\ a.family = "local" => files[a.path] = q
      /\ a.family # "local" => /\ socket[q].address.port = a.port
                               /\ SameHost(socket[q].address.host, a.host)
  BY DEF make_tcp_connection
<1>2. CASE Uds(p)
  <2>1. a = [family |-> "local", path |-> asked[p].path]
    BY <1>1, <1>2, AddressOfPath DEF Uds
  <2>2. files[asked[p].path] = q /\ asked[p].path \in Paths
    BY <1>1, <1>2, <2>1, PathsOfOptions
  <2> QED BY <1>1, <1>2, <2>2 DEF Places
<1>3. CASE ~Uds(p)
  <2>1. a.family # "local"
    BY <1>3, AddressOfNet, Modes DEF Uds
  <2>2. a.family = "ipv4" /\ ~Uds(q)
    BY <1>1, <2>1, BoundFamily DEF Listens
  <2> QED BY <1>1, <1>3, <2>1, <2>2
<1> QED BY <1>2, <1>3

\* Who is bound with proper options is bound to their address.
LEMMA ProperlyBound ==
  ASSUME Types, Places, NEW p \in Processes, IsBound(p), ~Uds(p), Proper(asked[p])
  PROVE  /\ socket[p].address =
              [family |-> "ipv4", host |-> asked[p].address, port |-> asked[p].port]
         /\ socket[p].address = Address(asked[p])
<1>1. communication_mode(asked[p]) = "net" /\ Makeable(asked[p])
  BY Modes DEF Uds, Types
<1>2. socket[p].address \in InetNames(Address(asked[p]))
  BY DEF Places, OwnAddress
<1> QED BY <1>1, <1>2, BoundNames, ProperAddress

\* Behind listen() with proper options, at a path of its own, every client of the endpoint
\* gets to this listener, whatever processes crash, close and come again, and whatever
\* options others have; and no client of such an endpoint, wildcards aside, gets to a
\* listener of another: neither the destructor's unlink() nor SO_REUSEADDR takes an address
\* of this kind from a listener (net/listener.hpp, 236-273 and 342-348).
THEOREM ListenersAreFound == Spec => []ListeningIsReachable
<1>1. ASSUME Types, Places
      PROVE  ListeningIsReachable
  <2>1. ASSUME NEW p \in Processes, at[p] = "up", Proper(asked[p]), Unshared(p, asked[p])
        PROVE  make_tcp_connection(asked[p]) = {p}
    <3>1. IsBound(p) /\ Listens(p) /\ OwnAddress(p)
      BY <1>1, <2>1, BoundFields DEF Types, Sockets, Places, IsBound, Listens
    <3>2. CASE Uds(p)
      <4>1. /\ socket[p].address = Address(asked[p])
            /\ Address(asked[p]) = [family |-> "local", path |-> asked[p].path]
            /\ CanCreate("local") /\ files[asked[p].path] = p
        BY <1>1, <2>1, <3>1, <3>2, BoundFamily DEF Places, OwnAddress
      <4>2. p \in make_tcp_connection(asked[p])
        BY <3>1, <4>1 DEF make_tcp_connection, SocketFamily
      <4>3. \A q \in make_tcp_connection(asked[p]) : q = p
        BY <1>1, <3>2, <4>1, ClientsGetTo
      <4> QED BY <4>2, <4>3
    <3>3. CASE ~Uds(p)
      <4>1. /\ socket[p].address = Address(asked[p])
            /\ Address(asked[p]) = [family |-> "ipv4", host |-> asked[p].address,
                                    port |-> asked[p].port]
        BY <1>1, <2>1, <3>1, <3>3, ProperlyBound
      <4>2. p \in make_tcp_connection(asked[p])
        BY <3>1, <4>1 DEF make_tcp_connection, SocketFamily, CanCreate, SameHost
      <4>3. ASSUME NEW q \in make_tcp_connection(asked[p])
            PROVE  q = p
        <5>1. /\ q \in Processes /\ Listens(q) /\ ~Uds(q)
              /\ socket[q].address.port = socket[p].address.port
              /\ SameHost(socket[q].address.host, socket[p].address.host)
          BY <1>1, <3>3, <4>1, <4>3, ClientsGetTo
        <5> QED BY <1>1, <3>1, <3>3, <5>1 DEF Places
      <4> QED BY <4>2, <4>3
    <3> QED BY <3>2, <3>3
  <2>2. ASSUME NEW p \in Processes, NEW q \in make_tcp_connection(asked[p]),
               \A o \in {asked[p], asked[q]} : Proper(o) /\ OneHost(o)
        PROVE  Endpoint(asked[q]) = Endpoint(asked[p])
    <3>1. q \in Processes /\ Listens(q) /\ IsBound(q) /\ (Uds(q) <=> Uds(p))
      BY <1>1, ClientsGetTo DEF Listens
    <3>2. /\ asked[p] \in Options[p] /\ Makeable(asked[p])
          /\ asked[q] \in Options[q]
      BY <1>1, <3>1 DEF Types
    <3>3. CASE Uds(p)
      <4>1. asked[q].path = asked[p].path
        BY <1>1, <3>3, ClientsGetTo
      <4> QED BY <3>1, <3>2, <3>3, <4>1, SameEndpoint DEF Uds
    <3>4. CASE ~Uds(p)
      <4>1. communication_mode(asked[p]) = "net" /\ communication_mode(asked[q]) = "net"
        BY <3>1, <3>4, Modes DEF Uds
      <4>2. /\ socket[q].address =
                 [family |-> "ipv4", host |-> asked[q].address, port |-> asked[q].port]
            /\ Address(asked[p]) =
                 [family |-> "ipv4", host |-> asked[p].address, port |-> asked[p].port]
        BY <1>1, <2>2, <3>1, <3>2, <3>4, <4>1, ProperlyBound, ProperAddress
      <4>3. /\ socket[q].address.port = Address(asked[p]).port
            /\ SameHost(socket[q].address.host, Address(asked[p]).host)
        BY <1>1, <3>4, ClientsGetTo
      <4>4. asked[q].address # AnyHost /\ asked[p].address # AnyHost
        BY <2>2, <4>1 DEF OneHost
      <4>5. asked[q].address = asked[p].address /\ asked[q].port = asked[p].port
        BY <4>2, <4>3, <4>4 DEF SameHost
      <4> QED BY <3>1, <3>2, <4>1, <4>5, SameEndpoint
    <3> QED BY <3>3, <3>4
  <2> QED BY <2>1, <2>2 DEF ListeningIsReachable
<1> QED BY <1>1, InitTypes, StepTypes, InitPlaces, StepPlaces, PTL DEF Spec

-----------------------------------------------------------------------------
(* When listen() fails.                                                    *)

\* Who is in the way listens where clients of both would meet.
LEMMA InUseBy ==
  ASSUME NEW p \in Processes, NEW a, InUse(p, a)
  PROVE  \E q \in Processes \ {p} : IsBound(q) /\ AtOnePlace(socket[q].address, a)
<1>1. PICK q \in Processes \ {p} :
        /\ Listens(q) /\ socket[q].address.family = "ipv4" /\ a.family = "ipv4"
        /\ socket[q].address.port = a.port /\ SameHost(socket[q].address.host, a.host)
  BY DEF InUse
<1> QED BY <1>1 DEF Listens, AtOnePlace

\* listen() with proper options fails only when the system makes no such socket or the path
\* does not fit, a file is at the path, or another process is bound to the very address, or to
\* that of any host: neither what is left of connections nor a socket elsewhere is in the way
\* (net/listener.hpp, 236-273).
THEOREM ListenFailsIfTaken == Spec => ThrowsOnlyIfTaken
<1> DEFINE Excused(p) ==
             LET a == Address(asked[p]) IN
               \/ a.family = "none" \/ ~CanCreate(a.family)
               \/ a.family = "local" /\ files[a.path] # "absent"
               \/ \E q \in Processes \ {p} : IsBound(q) /\ AtOnePlace(socket[q].address, a)
           Only == \A p \in Processes :
                     Proper(asked[p]) /\ at[p] # "threw" /\ at'[p] = "threw" => Excused(p)
<1>1. ASSUME Types, Places, NEW p \in Processes, Proper(asked[p]), ListenThrows(p)
      PROVE  Excused(p)
  <2>1. asked[p] \in Options[p] /\ Makeable(asked[p]) /\ Sockets(p)
    BY <1>1 DEF Types
  <2>2. CASE ~Uds(p)
    <3>1. communication_mode(asked[p]) = "net" /\ Proper(asked[p])
      BY <1>1, <2>2, Modes DEF Uds
    <3>2. PICK a : a = Address(asked[p]) /\ a.family = "ipv4" /\ a.port # 0
      BY <2>1, <3>1, ProperAddress
    <3>3. CanCreate(DomainOf(asked[p]))
      BY <3>1 DEF DomainOf, CanCreate
    <3>4. InUse(p, a)
      <4>1. CASE Bindable(p, Address(asked[p])) = {}
        <5>1. InetNames(a) = {a}
          BY <3>2 DEF InetNames
        <5> QED BY <3>1, <3>2, <4>1, <5>1 DEF Bindable
      <4>2. CASE at[p] = "bound" /\ InUse(p, socket[p].address)
        <5>1. IsBound(p)
          BY <2>1, <4>2, BoundFields DEF Sockets, IsBound
        <5>2. socket[p].address = a
          BY <1>1, <2>2, <3>1, <3>2, <5>1, ProperlyBound
        <5> QED BY <4>2, <5>2
      <4> QED BY <1>1, <3>3, <4>1, <4>2 DEF ListenThrows
    <3> QED BY <3>2, <3>4, InUseBy
  <2>3. CASE Uds(p)
    <3>1. /\ communication_mode(asked[p]) = "uds" /\ DomainOf(asked[p]) = "local"
          /\ Address(asked[p]) \in {[family |-> "none"], [family |-> "local", path |-> asked[p].path]}
      BY <2>3, AddressOfPath DEF Uds, DomainOf
    <3>2. CASE Address(asked[p]).family = "local"
      <4>1. CASE ~CanCreate("local")
        BY <3>2, <4>1
      <4>2. CASE Bindable(p, Address(asked[p])) = {}
        BY <3>1, <3>2, <4>2 DEF Bindable
      <4>3. CASE at[p] = "bound" /\ InUse(p, socket[p].address)
        <5>1. IsBound(p)
          BY <2>1, <4>3, BoundFields DEF Sockets, IsBound
        <5>2. socket[p].address.family = "local"
          BY <1>1, <2>3, <5>1, BoundFamily
        <5> QED BY <4>3, <5>2 DEF InUse
      <4> QED BY <1>1, <3>1, <4>1, <4>2, <4>3 DEF ListenThrows
    <3> QED BY <3>1, <3>2
  <2> QED BY <2>2, <2>3
<1>2. ASSUME Types, Next, NEW p \in Processes, at[p] # "threw", at'[p] = "threw"
      PROVE  ListenThrows(p)
  <2>1. at' # at
    BY <1>2
  <2>2. PICK q \in Processes : Goes(q) \/ DestroyCloses(q) \/ Close(q) \/ Crash(q)
    BY <1>2, <2>1 DEF Next, LingerEnds
  <2>3. \/ ListenThrows(q)
        \/ \E place \in {"out", "new", "bound", "up", "dying"} : at' = [at EXCEPT ![q] = place]
    BY <2>2 DEF Goes, Make, ListenBinds, ListenStarts, DestroyCloses, DestroyUnlinks, Close, Crash,
                GoesTo
  <2>4. at \in [Processes -> {"out", "new", "bound", "up", "threw", "dying"}]
    BY <1>2 DEF Types
  <2>5. ListenThrows(q)
    BY <1>2, <2>3, <2>4
  <2>6. at' = [at EXCEPT ![q] = "threw"]
    BY <2>5 DEF ListenThrows, GoesTo
  <2>7. p = q
    BY <1>2, <2>4, <2>6
  <2> QED BY <2>5, <2>7
<1>3. Types /\ Places /\ [Next]_vars => [Only]_vars
  BY <1>1, <1>2
<1> QED BY <1>3, InitTypes, StepTypes, InitPlaces, StepPlaces, PTL DEF Spec, ThrowsOnlyIfTaken

=============================================================================
