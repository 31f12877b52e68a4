-------------------------------- MODULE Pool --------------------------------
(***************************************************************************)
(* What a pool of threads over one listener promises its clients, with       *)
(* neither sockets nor descriptors nor bytes: a client waits, or is with one  *)
(* thread, which answers it once and as it has asked, or not at all.         *)
(*                                                                         *)
(* A client may change what it asks until it is answered.  With the listener *)
(* those who wait may be lost; who is with a thread is lost to nobody.        *)
(***************************************************************************)
CONSTANTS
  Threads,
  Clients,
  None        \* whom a thread is with when it is with nobody

VARIABLES
  waiting,    \* the clients whose connections wait to be accepted
  with,       \* [Threads -> the client whose connection the thread has]
  asks,       \* [Clients -> its first record]
  told,       \* [Clients -> why it has been refused]
  served      \* [Clients -> whether the application has got its connection]

poolVars == <<waiting, with, asks, told, served>>

Records == {"request", "bad_role", "no_begin", "bad_version"}

\* What a client with such a record is told.
Due(record) ==
  CASE record = "bad_role" -> "unknown_role"
    [] record = "no_begin" -> "cant_mpx_conn"
    [] OTHER               -> "nothing"

Unanswered(c) == told[c] = "nothing" /\ ~served[c]

IsWith(c) == \E t \in Threads : with[t] = c

\* These clients are without a connection again.
Leave(clients) ==
  /\ asks'   = [c \in Clients |-> IF c \in clients THEN "request" ELSE asks[c]]
  /\ told'   = [c \in Clients |-> IF c \in clients THEN "nothing" ELSE told[c]]
  /\ served' = [c \in Clients |-> c \notin clients /\ served[c]]

Init ==
  /\ waiting = {} /\ with = [t \in Threads |-> None]
  /\ asks = [c \in Clients |-> "request"]
  /\ told = [c \in Clients |-> "nothing"] /\ served = [c \in Clients |-> FALSE]

Arrives(c) ==
  /\ c \notin waiting /\ ~IsWith(c)
  /\ waiting' = waiting \cup {c}
  /\ UNCHANGED <<with, asks, told, served>>

Asks(c) ==
  /\ Unanswered(c)
  /\ \E record \in Records : asks' = [asks EXCEPT ![c] = record]
  /\ UNCHANGED <<waiting, with, told, served>>

\* The listener has gone, and with it those who waited for it.
Drops(lost) ==
  /\ waiting' = waiting \ lost
  /\ Leave(lost)
  /\ UNCHANGED with

\* The thread that is the last to know a closed listener still takes a client from it.
Takes(t, c, lost) ==
  /\ with[t] = None /\ c \in waiting \ lost
  /\ waiting' = waiting \ (lost \cup {c})
  /\ with' = [with EXCEPT ![t] = c]
  /\ Leave(lost)

Refuses(t) ==
  /\ with[t] \in Clients /\ Unanswered(with[t]) /\ Due(asks[with[t]]) # "nothing"
  /\ told' = [told EXCEPT ![with[t]] = Due(asks[with[t]])]
  /\ UNCHANGED <<waiting, with, asks, served>>

Serves(t) ==
  /\ with[t] \in Clients /\ Unanswered(with[t]) /\ asks[with[t]] = "request"
  /\ served' = [served EXCEPT ![with[t]] = TRUE]
  /\ UNCHANGED <<waiting, with, asks, told>>

Ends(t) ==
  /\ with[t] \in Clients
  /\ with' = [with EXCEPT ![t] = None]
  /\ Leave({with[t]})
  /\ UNCHANGED waiting

Next ==
  \/ \E c \in Clients : Arrives(c) \/ Asks(c)
  \/ \E lost \in SUBSET waiting : \/ Drops(lost)
                                  \/ \E t \in Threads, c \in waiting : Takes(t, c, lost)
  \/ \E t \in Threads : Refuses(t) \/ Serves(t) \/ Ends(t)

Spec == Init /\ [][Next]_poolVars

=============================================================================
