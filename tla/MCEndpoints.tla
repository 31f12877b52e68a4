----------------------------- MODULE MCEndpoints -----------------------------
(***************************************************************************)
(* Two servers for TLC.  Both may be given one address and one path, so that *)
(* each meets the other's socket in every state; each also has options of   *)
(* its own.  Options that have to be refused are among them, and such as     *)
(* are not proper: 65616 is cut to 80, the name of a host is taken for any   *)
(* host and a port the system chooses, an address of IPv6 is never bound.    *)
(***************************************************************************)
EXTENDS Endpoints

Net(address, port, backlog) == [address |-> address, port |-> port, backlog |-> backlog]
Uds(path) == [path |-> path, backlog |-> 1]

Refused == {Net("", 80, 1), Net("127.0.0.1", 0, 1), Net("127.0.0.1", 80, 0)}

Shared == {Net("127.0.0.1", 80, 1), Net("0.0.0.0", 80, 1), Uds("/run/shared")}

MCProcesses == {"p1", "p2"}
MCOptions ==
  [p \in MCProcesses |->
     Refused \cup Shared
       \cup (IF p = "p1"
               THEN {Uds("/run/p1"), Net("127.0.0.1", 40000, 1)}
               ELSE {Uds("/run/too-long"), Net("127.0.0.2", 80, 1), Net("::1", 80, 1),
                     Net("127.0.0.1", 65616, 1), Net("localhost", 80, 1)})]

\* Both at one address only.
MCOneAddress == [p \in MCProcesses |-> {Net("127.0.0.1", 80, 1)}]

=============================================================================
