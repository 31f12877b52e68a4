------------------------------ MODULE Endpoints ------------------------------
(***************************************************************************)
(* Where listeners listen: processes that each make a Listener of some       *)
(* options (src/fcgi/listener_options.cpp), let it listen(), stop and crash, *)
(* and the clients of src/net/client.hpp that look for them.  An address is  *)
(* followed from the text of the options through Endpoint, Ip_address and    *)
(* Socket_address to bind() and connect(); the path of a Unix socket to the  *)
(* unlink() of the destructor.                                              *)
(*                                                                         *)
(* What happens to connections is in Listener; here listen() is in steps.   *)
(***************************************************************************)
EXTENDS Integers

CONSTANTS
  Processes,
  Options,     \* [Processes -> the options a process may make its listener of]
  IPv4, IPv6,  \* the texts inet_pton() takes for an address of the family, those of IPv6
               \* that stand for one of IPv4 (::ffff:127.0.0.1) left aside
  LongPaths,   \* the paths sun_path has no room for
  Ephemeral,   \* the ports the system chooses from for port 0
  UnixTcp,     \* whether systems make a Unix socket of protocol TCP: Linux does not
  MaxStops     \* bound: how often processes stop of their own or crash

ASSUME TextsAssumption == IPv4 \cap IPv6 = {} /\ "" \notin IPv4 \cup IPv6
ASSUME OptionsAssumption ==
  \A p \in Processes : \A o \in Options[p] :
    /\ o.backlog \in Int
    /\ \/ DOMAIN o = {"path", "backlog"}
       \/ DOMAIN o = {"address", "port", "backlog"} /\ o.port \in Int
ASSUME ProcessesAssumption == {"absent", "stale"} \cap Processes = {}
ASSUME SystemAssumption == Ephemeral \subseteq 1..65535 /\ UnixTcp \subseteq BOOLEAN
ASSUME StopsAssumption == MaxStops \in Nat

VARIABLES
  at,         \* [Processes -> where its listener is]: "out" (there is none), "new" (not
              \* listening), "bound" (in listen(), behind bind()), "up" and "threw" (behind
              \* listen()), "dying" (in the destructor, socket_ closed)
  asked,      \* [Processes -> the options of its last listener]
  socket,     \* [Processes -> the kernel's side of socket_]
  files,      \* [Paths -> "absent", "stale", or the process whose socket is bound to it]
  lingering,  \* the addresses of connections in TIME_WAIT
  unixTcp,    \* whether this one does
  stops

systemVars == <<files, lingering, unixTcp>>
vars == <<at, asked, socket, systemVars, stops>>

-----------------------------------------------------------------------------
(* From the options to the address.                                        *)

Endpoint(o) == [field \in DOMAIN o \ {"backlog"} |-> o[field]]

communication_mode(o) == IF "path" \in DOMAIN o THEN "uds" ELSE "net"

\* is_invariant_ok() of Endpoint; the process ends without it.
EndpointOk(o) == IF communication_mode(o) = "uds" THEN o.path # "" ELSE o.address # ""

\* Mutants of OptionsOk: the port, or the backlog, is not looked at.
OptionsOkAnyPort(o) == o.backlog > 0
OptionsOkAnyBacklog(o) == communication_mode(o) = "net" => o.port > 0

\* Else the constructor of Listener_options throws.
OptionsOk(o) == o.backlog > 0 /\ (communication_mode(o) = "net" => o.port > 0)

Makeable(o) == EndpointOk(o) /\ OptionsOk(o)

\* Ip_address::from_text() and family()
Family(text) ==
  IF text \in IPv4 THEN "ipv4" ELSE IF text \in IPv6 THEN "ipv6" ELSE "unspec"

\* Socket_address: none of a path that is too long (an exception).  Of an invalid
\* Ip_address it stays a sockaddr_un of zeros, whose sun_family is AF_UNSPEC.
Address(o) ==
  IF communication_mode(o) = "uds"
    THEN IF o.path \in LongPaths THEN [family |-> "none"] ELSE [family |-> "local", path |-> o.path]
  ELSE IF Family(o.address) = "unspec" THEN [family |-> "unspec"]
  ELSE [family |-> Family(o.address), host |-> o.address, port |-> o.port % 65536]

\* family() of the Socket_address says which of the three types it holds.
SocketFamily(a) == IF a.family = "unspec" THEN "local" ELSE a.family

Paths ==
  {o.path : o \in {o \in UNION {Options[p] : p \in Processes} : communication_mode(o) = "uds"}}

-----------------------------------------------------------------------------
(* The kernel.                                                             *)

None == [kind |-> "none"]

\* A socket_ that is valid and not bound.
Created == [kind |-> "created"]

Bound(a, listening) == [kind |-> "bound", address |-> a, listening |-> listening]

IsBound(p) == socket[p].kind = "bound"

CanCreate(family) == family = "local" => unixTcp

\* INADDR_ANY
AnyHost == "0.0.0.0"

\* What an Internet socket of family AF_INET is bound to: nothing for an address
\* of IPv6; AF_UNSPEC is taken for INADDR_ANY and port 0.
InetNames(a) ==
  CASE a.family = "ipv4" /\ a.port # 0 -> {a}
    [] a.family = "ipv4" /\ a.port = 0 -> {[a EXCEPT !.port = q] : q \in Ephemeral}
    [] a.family = "unspec" -> {[family |-> "ipv4", host |-> AnyHost, port |-> q] : q \in Ephemeral}
    [] OTHER -> {}

SameHost(h, g) == h = g \/ AnyHost \in {h, g}

Listens(p) == IsBound(p) /\ socket[p].listening

\* Another socket listens at the address.
InUse(p, a) ==
  /\ a.family = "ipv4"
  /\ \E q \in Processes \ {p} :
       /\ Listens(q) /\ socket[q].address.family = "ipv4"
       /\ socket[q].address.port = a.port /\ SameHost(socket[q].address.host, a.host)

\* Mutant of Bindable: the option is not set.
BindableWithoutReuse(p, a) ==
  IF communication_mode(asked[p]) = "uds"
    THEN IF a.family = "local" /\ files[a.path] = "absent" THEN {a} ELSE {}
    ELSE {name \in InetNames(a) : ~InUse(p, name) /\ name \notin lingering}

\* With SO_REUSEADDR neither a socket that is only bound nor what is left of
\* connections is in the way.
Bindable(p, a) ==
  IF communication_mode(asked[p]) = "uds"
    THEN IF a.family = "local" /\ files[a.path] = "absent" THEN {a} ELSE {}
    ELSE {name \in InetNames(a) : ~InUse(p, name)}

\* The socket of p is closed: the file it was bound to stays.
SocketCloses(p) ==
  /\ socket' = [socket EXCEPT ![p] = None]
  /\ files' = [path \in Paths |-> IF files[path] = p THEN "stale" ELSE files[path]]
  /\ \/ UNCHANGED lingering
     \/ Listens(p) /\ socket[p].address.family = "ipv4"
        /\ lingering' = lingering \cup {socket[p].address}
  /\ UNCHANGED unixTcp

LingerEnds ==
  /\ \E a \in lingering : lingering' = lingering \ {a}
  /\ UNCHANGED <<at, asked, socket, files, unixTcp, stops>>

-----------------------------------------------------------------------------
(* A process and its listener.                                             *)

GoesTo(p, place) == at' = [at EXCEPT ![p] = place]

\* Listener_options, Listener::make() and the constructors.
Make(p) ==
  /\ at[p] = "out"
  /\ \E o \in Options[p] :
       /\ Makeable(o)
       /\ asked' = [asked EXCEPT ![p] = o]
  /\ GoesTo(p, "new")
  /\ UNCHANGED <<socket, systemVars, stops>>

\* listen() of a valid socket_ returns at once: no step.
is_listening(p) == socket[p] # None

ListenCalled(p) == at[p] \in {"new", "threw"} /\ ~is_listening(p)

\* Else it makes a socket of the family the mode says, and binds it.
DomainOf(o) == IF communication_mode(o) = "uds" THEN "local" ELSE "ipv4"

ListenBinds(p) ==
  /\ ListenCalled(p) /\ CanCreate(DomainOf(asked[p]))
  /\ \E name \in Bindable(p, Address(asked[p])) :
       /\ socket' = [socket EXCEPT ![p] = Bound(name, FALSE)]
       /\ files' = [path \in Paths |->
                      IF name.family = "local" /\ path = name.path THEN p ELSE files[path]]
  /\ GoesTo(p, "bound")
  /\ UNCHANGED <<asked, lingering, unixTcp, stops>>

\* ::listen(), for which the address must still be nobody else's.
ListenStarts(p) ==
  /\ at[p] = "bound" /\ ~InUse(p, socket[p].address)
  /\ socket' = [socket EXCEPT ![p].listening = TRUE]
  /\ GoesTo(p, "up")
  /\ UNCHANGED <<asked, systemVars, stops>>

\* socket() fails, bind() or ::listen(): behind the first, socket_ is valid.
ListenThrows(p) ==
  /\ \/ ListenCalled(p) /\ ~CanCreate(DomainOf(asked[p])) /\ UNCHANGED socket
     \/ /\ ListenCalled(p) /\ CanCreate(DomainOf(asked[p]))
        /\ Bindable(p, Address(asked[p])) = {}
        /\ socket' = [socket EXCEPT ![p] = Created]
     \/ at[p] = "bound" /\ InUse(p, socket[p].address) /\ UNCHANGED socket
  /\ GoesTo(p, "threw")
  /\ UNCHANGED <<asked, systemVars, stops>>

\* What a process does of its own accord, and crashes, are bounded.
Stops == stops < MaxStops /\ stops' = stops + 1

\* close() leaves the path alone.
Close(p) ==
  /\ at[p] \in {"up", "threw"} /\ Stops
  /\ SocketCloses(p)
  /\ GoesTo(p, "new")
  /\ UNCHANGED asked

\* ~socket_Listener(): after an exception of listen(), or at any other time.
DestroyCloses(p) ==
  /\ \/ at[p] = "threw" /\ UNCHANGED stops
     \/ at[p] \in {"new", "up"} /\ Stops
  /\ SocketCloses(p)
  /\ GoesTo(p, "dying")
  /\ UNCHANGED asked

\* Mutant of Unlinked: the path stays.
UnlinkedNever(o) == files

\* net_deinitialize(): whatever is at the path is removed.
Unlinked(o) ==
  [path \in Paths |->
     IF communication_mode(o) = "uds" /\ path = o.path THEN "absent" ELSE files[path]]

DestroyUnlinks(p) ==
  /\ at[p] = "dying"
  /\ files' = Unlinked(asked[p])
  /\ GoesTo(p, "out")
  /\ UNCHANGED <<asked, socket, lingering, unixTcp, stops>>

\* The process is killed, or an assertion or an exception ends it: no destructor runs.
Crash(p) ==
  /\ at[p] # "out" /\ Stops
  /\ SocketCloses(p)
  /\ GoesTo(p, "out")
  /\ UNCHANGED asked

-----------------------------------------------------------------------------
(* Clients.                                                                *)

\* The processes a client of the endpoint may be connected to; without one it gets an
\* exception, as it does when the socket cannot be made or the address is none.
make_tcp_connection(o) ==
  LET a == Address(o) IN
    IF a.family \in {"none", "unspec"} \/ ~CanCreate(SocketFamily(a)) THEN {}
    ELSE {p \in Processes :
            /\ Listens(p) /\ socket[p].address.family = a.family
            /\ IF a.family = "local"
                 THEN files[a.path] = p
                 ELSE /\ socket[p].address.port = a.port
                      /\ SameHost(socket[p].address.host, a.host)}

-----------------------------------------------------------------------------
Init ==
  /\ at = [p \in Processes |-> "out"]
  /\ asked \in [Processes -> UNION {Options[p] : p \in Processes}]
  /\ \A p \in Processes : asked[p] \in Options[p] /\ Makeable(asked[p])
  /\ socket = [p \in Processes |-> None]
  /\ files \in [Paths -> {"absent", "stale"}]
  /\ lingering = {} /\ stops = 0 /\ unixTcp \in UnixTcp

\* What goes on by itself: a supervisor makes the listener again, and lets it listen.
Goes(p) ==
  \/ Make(p) \/ ListenBinds(p) \/ ListenStarts(p) \/ ListenThrows(p)
  \/ at[p] = "threw" /\ DestroyCloses(p)
  \/ DestroyUnlinks(p)

Next ==
  \/ LingerEnds
  \/ \E p \in Processes : Goes(p) \/ DestroyCloses(p) \/ Close(p) \/ Crash(p)

Spec == Init /\ [][Next]_vars

FairSpec == Spec /\ \A p \in Processes : WF_vars(Goes(p))

-----------------------------------------------------------------------------
(* Properties.                                                             *)

\* The variables have their types.  No listener has options that were to be refused.
TypeOK ==
  /\ at \in [Processes -> {"out", "new", "bound", "up", "threw", "dying"}]
  /\ \A p \in Processes :
       /\ asked[p] \in Options[p] /\ asked[p].backlog >= 1
       /\ socket[p] \in {None, Created}
            \/ \E b \in BOOLEAN : socket[p] = Bound(socket[p].address, b)
  /\ DOMAIN asked = Processes /\ DOMAIN socket = Processes
  /\ files \in [Paths -> {"absent", "stale"} \cup Processes]
  /\ unixTcp \in UnixTcp /\ stops \in 0..MaxStops

\* The options are what their constructors ask for: a path, or an address of IPv4 and a port of
\* 16 bits.
Proper(o) == communication_mode(o) = "net" => o.address \in IPv4 /\ o.port % 65536 = o.port

OneHost(o) == communication_mode(o) = "net" => o.address # AnyHost

\* No other process is given the path.
Unshared(p, o) ==
  communication_mode(o) = "uds" =>
    \A q \in Processes \ {p} : \A r \in Options[q] :
      communication_mode(r) = "uds" => r.path # o.path

\* When listen() has returned, a client of the same endpoint gets to this listener, whatever
\* others bind, close or leave behind; and none gets to a listener of another endpoint,
\* wildcards (any host) aside.  This is said of proper options, whatever options others
\* have, and the first part of paths that no two processes share: the destructor of one
\* unlinks the socket of the other (net/listener.hpp, 347).  It is not so of other options:
\* an address of IPv6 is never listened to (244), a text that is no address is taken for any
\* host and a port of the system's choice (net/address.hpp, 255), a longer port is cut (243).
ListeningIsReachable ==
  /\ \A p \in Processes :
       at[p] = "up" /\ Proper(asked[p]) /\ Unshared(p, asked[p]) =>
         make_tcp_connection(asked[p]) = {p}
  /\ \A p \in Processes : \A q \in make_tcp_connection(asked[p]) :
       (\A o \in {asked[p], asked[q]} : Proper(o) /\ OneHost(o)) =>
         Endpoint(asked[q]) = Endpoint(asked[p])

\* A client of either address would get to a listener of the other.
AtOnePlace(a, b) ==
  a.family = "ipv4" /\ b.family = "ipv4" /\ a.port = b.port /\ SameHost(a.host, b.host)

\* Where the options are proper, the system makes the socket and the path fits, listen() fails
\* only for the sake of another: what is left of connections does not keep a server that
\* comes again from its port (SO_REUSEADDR), and a path only as long as there is a file.
ThrowsOnlyIfTaken ==
  [][\A p \in Processes : Proper(asked[p]) /\ at[p] # "threw" /\ at'[p] = "threw" =>
       LET a == Address(asked[p]) IN
         \/ a.family = "none" \/ ~CanCreate(a.family)
         \/ a.family = "local" /\ files[a.path] # "absent"
         \/ \E q \in Processes \ {p} : IsBound(q) /\ AtOnePlace(socket[q].address, a)]_vars

\* The options of p are some that it can listen with, at one host.
CanListen(p) ==
  /\ Proper(asked[p]) /\ OneHost(asked[p]) /\ Unshared(p, asked[p])
  /\ Address(asked[p]).family # "none" /\ CanCreate(DomainOf(asked[p]))

\* Where a process is given the same options again and again, clients come to find somebody
\* for good, if the options are proper, the path fits and is no other's, and the system makes
\* the socket: after a crash or close() the path that is left behind is unlinked by the
\* destructor of the first listener that fails there, and when one process of an address
\* goes another takes its place.
ListenedAgain ==
  \A p \in Processes :
    <>[][asked'[p] = asked[p]]_vars /\ <>[]CanListen(p)
      => <>[](make_tcp_connection(asked[p]) # {})

\* is_listening() is "`true` if the listener is listening for new client connections"
\* (net/listener.hpp, 154), listen() left aside.
ListensAsReported ==
  \A p \in Processes : at[p] # "bound" /\ is_listening(p) => Listens(p)

=============================================================================
