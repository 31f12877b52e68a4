------------------------------- MODULE Response -------------------------------
(***************************************************************************)
(* What the output side of a FastCGI connection promises, with neither       *)
(* records nor buffers: the client receives each stream in order and from    *)
(* its first byte, is told once that a stream has ended, when it has all of  *)
(* it, and once that the response has, when the streams have.  It may leave  *)
(* at any time: nothing more is received then.                              *)
(*                                                                         *)
(* The k-th byte the application writes to a stream is the number k.        *)
(***************************************************************************)
EXTENDS Integers, Sequences

CONSTANTS
  Streams,
  Last        \* the stream that ends together with the response

VARIABLES
  written,    \* for each stream, how many bytes the application has written
  received,   \* for each stream, the bytes the client has received
  ends,       \* for each stream, how often the client has been told its end
  finished    \* how often it has been told the end of the response

responseVars == <<written, received, ends, finished>>

Init ==
  /\ written = [s \in Streams |-> 0] /\ received = [s \in Streams |-> <<>>]
  /\ ends = [s \in Streams |-> 0] /\ finished = 0

\* Only stream s changes in the function f.
OnlyAt(f, g, s) == \A t \in Streams \ {s} : g[t] = f[t]

\* The application writes to s, and any part of what it has written reaches the client,
\* none of it behind the end.
Transfers(s) ==
  /\ OnlyAt(written, written', s) /\ OnlyAt(received, received', s)
  /\ written[s] <= written'[s]
  /\ \/ received'[s] = received[s]
     \/ /\ ends[s] = 0 /\ finished = 0
        /\ Len(received'[s]) \in Len(received[s]) .. written'[s]
        /\ \A i \in 1..Len(received'[s]) : received'[s][i] = i
  /\ UNCHANGED <<ends, finished>>

Complete(s) == ends[s] = 0 /\ Len(received[s]) = written[s]

\* A stream that has been used ends before the response does.
Ends(s) ==
  /\ s # Last /\ Complete(s) /\ finished = 0
  /\ ends' = [ends EXCEPT ![s] = 1]
  /\ UNCHANGED <<written, received, finished>>

Finishes ==
  /\ Complete(Last) /\ finished = 0
  /\ \A s \in Streams \ {Last} : received[s] # <<>> => ends[s] = 1
  /\ ends' = [ends EXCEPT ![Last] = 1] /\ finished' = 1
  /\ UNCHANGED <<written, received>>

Next == Finishes \/ \E s \in Streams : Transfers(s) \/ Ends(s)

Spec == Init /\ [][Next]_responseVars

=============================================================================
