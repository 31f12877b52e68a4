---------------------------- MODULE RequestInput ----------------------------
(***************************************************************************)
(* What the input side of a FastCGI connection promises, with neither       *)
(* records nor buffers: the client writes the streams of one request, and   *)
(* the application reads them one after the other, each in order, without a *)
(* gap, and to the end the client gave it.  A byte is a number; later bytes *)
(* of a stream are greater.                                                 *)
(***************************************************************************)
EXTENDS Integers, Sequences

CONSTANT Order    \* the streams of the request, in the order they are read

VARIABLES
  written,        \* for each stream, the bytes the client has written to it
  closed,         \* the streams the client has ended
  received,       \* for each stream, the bytes the application has been given
  ended           \* the streams whose end has been reported to it

inputVars == <<written, closed, received, ended>>

StreamSet == {Order[i] : i \in DOMAIN Order}

\* Only stream t changes in the function f.
OnlyAt(f, g, t) == \A u \in StreamSet \ {t} : g[u] = f[u]

\* The stream to be read now is the first whose end has not been reported.
Current(t) ==
  \E i \in DOMAIN Order : /\ Order[i] = t /\ t \notin ended
                          /\ \A j \in 1..(i - 1) : Order[j] \in ended

Init ==
  /\ written = [t \in StreamSet |-> {}] /\ received = [t \in StreamSet |-> {}]
  /\ closed = {} /\ ended = {}

ClientWrites(t) ==
  /\ t \notin closed
  /\ written[t] \subseteq written'[t] /\ OnlyAt(written, written', t)
  /\ \A new \in written'[t] \ written[t], old \in written[t] : old < new
  /\ UNCHANGED <<closed, received, ended>>

ClientCloses(t) ==
  /\ closed' = closed \cup {t}
  /\ UNCHANGED <<written, received, ended>>

\* The application is given the next bytes of the current stream.
Receives(t) ==
  /\ Current(t)
  /\ received[t] \subseteq received'[t] /\ OnlyAt(received, received', t)
  /\ received'[t] \subseteq written[t]
  /\ \A old \in received'[t], p \in written[t] : p < old => p \in received'[t]
  /\ UNCHANGED <<written, closed, ended>>

\* It is told that the current stream is at its end.
ReportsEnd(t) ==
  /\ Current(t)
  /\ t \in closed /\ received[t] = written[t]
  /\ ended' = ended \cup {t}
  /\ UNCHANGED <<written, closed, received>>

Next ==
  \E t \in StreamSet :
    ClientWrites(t) \/ ClientCloses(t) \/ Receives(t) \/ ReportsEnd(t)

Spec == Init /\ [][Next]_inputVars

=============================================================================
