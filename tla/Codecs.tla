------------------------------- MODULE Codecs -------------------------------
(***************************************************************************)
(* What the records of the protocol are as bytes (fcgi/basics.cpp): the     *)
(* headers and bodies the library writes and reads, and the pairs of names  *)
(* and values that Names_values takes from a stream, with their lookup      *)
(* (server_connection.cpp); and numbers as net::conv() turns them           *)
(* (net/conversions.hpp).                                                  *)
(*                                                                         *)
(* A byte is a digit below Radix (256), High (128) the bit of a byte that   *)
(* makes it the first of a longer length, and Lead (3) the number of bytes  *)
(* behind that one; int has Lead + 1 bytes.                                *)
(***************************************************************************)
EXTENDS Integers, SequencesExt

CONSTANTS
  Radix, High, Lead,
  Types,       \* record types
  MaxStream    \* bytes of a stream of names and values

ASSUME ByteAssumption ==
  /\ Radix \in Nat /\ High \in Nat /\ Radix = 2 * High /\ High % 2 = 0 /\ High > 0
  /\ Lead \in Nat \ {0} /\ MaxStream \in Nat
  /\ Types \subseteq 0..Radix - 1

VARIABLES
  stage,     \* "idle", what has been written, or how the reader has ended
  sent,      \* what the writer means
  wire,      \* the bytes it has written
  got,       \* what the reader has made of them
  position,  \* bytes read from a stream of names and values
  lengths,   \* read_length()'s results for the pair being read
  pairs      \* pairs_

vars == <<stage, sent, wire, got, position, lengths, pairs>>

Bytes == 0..Radix - 1

\* The weight of a digit: Radix^i.
Power[i \in Nat] == IF i = 0 THEN 1 ELSE Radix * Power[i - 1]

IntMax == High * Power[Lead] - 1
Nothing == [kind |-> "nothing"]
Refused == [kind |-> "refused"]

\* Records.  The writer and the reader of the other side are the client's.
Ids == 0..Power[2] - 1
Headers ==
  [kind : {"header"}, version : {0, 1}, type : Types, request_id : Ids,
   content_length : Ids, padding_length : Bytes]
BeginRequests == [kind : {"begin"}, role : Ids, keep_conn : BOOLEAN]
ProtocolStatuses == 0..3
EndRequests ==
  [kind : {"end"}, application_status : -IntMax - 1..IntMax,
   protocol_status : ProtocolStatuses]
UnknownTypes == [kind : {"unknown"}, type : Types]

Numbers == [kind : {"number"}, host : {"big", "little"}, size : {1, 2}, value : Ids]
Fitting == {n \in Numbers : n.value < Power[n.size]}

-----------------------------------------------------------------------------
(* The library's side.                                                     *)

\* Mutant of Digit: the sign is moved out of a negative value.
DigitOfMagnitude(v, i) == ((IF v < 0 THEN -v ELSE v) \div Power[i]) % Radix

\* (v >> 8 * i) & 0xff
Digit(v, i) == (v \div Power[i]) % Radix

\* (b1 << 8) + b0
FromDigits(digits) ==
  LET read[i \in 0..Len(digits)] == IF i = 0 THEN 0 ELSE Radix * read[i - 1] + digits[i]
  IN read[Len(digits)]

HeaderBytes(h) ==
  <<1, h.type, Digit(h.request_id, 1), Digit(h.request_id, 0),
    Digit(h.content_length, 1), Digit(h.content_length, 0), h.padding_length, 0>>

\* check_validity() refuses every version but 1.
HeaderOf(bytes) ==
  IF bytes[1] # 1
    THEN Refused
    ELSE [kind |-> "header", version |-> 1, type |-> bytes[2],
          request_id |-> FromDigits(SubSeq(bytes, 3, 4)),
          content_length |-> FromDigits(SubSeq(bytes, 5, 6)),
          padding_length |-> bytes[7]]

BeginRequestOf(bytes) ==
  [kind |-> "begin", role |-> FromDigits(SubSeq(bytes, 1, 2)),
   keep_conn |-> bytes[3] % 2 = 1]

EndRequestBytes(e) ==
  [i \in 1..Lead + 1 |-> Digit(e.application_status, Lead + 1 - i)]
    \o <<e.protocol_status, 0, 0, 0>>

UnknownTypeBytes(u) == <<u.type, 0, 0, 0, 0, 0, 0, 0>>

\* net::copy(): to the end of dest, reversed on a little-endian host; the rest of dest
\* is zero, as conv() makes it.
Copy(dest_size, src, host) ==
  [i \in 1..dest_size - Len(src) |-> 0] \o IF host = "big" THEN src ELSE Reverse(src)

\* The bytes of a number in the memory of the host (util::endianness()).
Memory(v, size, host) ==
  [i \in 1..size |-> Digit(v, IF host = "big" THEN size - i ELSE i - 1)]

InMemory(bytes, host) == FromDigits(IF host = "big" THEN bytes ELSE Reverse(bytes))

\* conv() to a type that may be larger, and back from one of the same size.
ToNetwork(n, dest_size) == Copy(dest_size, Memory(n.value, n.size, n.host), n.host)
FromNetwork(bytes, host) == InMemory(Copy(Len(bytes), bytes, host), host)

-----------------------------------------------------------------------------
(* The client's side: the numbers of the protocol are big-endian, a status   *)
(* is a two's complement.                                                  *)

Weigh(digits) ==
  LET sum[i \in 0..Len(digits)] ==
        IF i = 0 THEN 0 ELSE sum[i - 1] + digits[i] * Power[Len(digits) - i]
  IN sum[Len(digits)]

Digits(v, n) == CHOOSE digits \in [1..n -> Bytes] : Weigh(digits) = v

ClientBytes(r, spare) ==
  CASE r.kind = "header" ->
         <<r.version, r.type>> \o Digits(r.request_id, 2) \o Digits(r.content_length, 2)
           \o <<r.padding_length, spare>>
    [] r.kind = "number" -> Digits(r.value, r.size)
    [] r.kind = "begin" -> Digits(r.role, 2) \o <<(2 * spare + IF r.keep_conn THEN 1 ELSE 0) % Radix>>
           \o [i \in 1..5 |-> spare]

ClientHeader(bytes) ==
  [kind |-> "header", version |-> bytes[1], type |-> bytes[2],
   request_id |-> Weigh(SubSeq(bytes, 3, 4)),
   content_length |-> Weigh(SubSeq(bytes, 5, 6)), padding_length |-> bytes[7]]

ClientEndRequest(bytes) ==
  [kind |-> "end",
   application_status |->
     CHOOSE status \in -IntMax - 1..IntMax :
       (Weigh(SubSeq(bytes, 1, Lead + 1)) - status) % Power[Lead + 1] = 0,
   protocol_status |-> bytes[Lead + 2]]

-----------------------------------------------------------------------------
(* Records go one way or the other.                                        *)

streamVars == <<position, lengths, pairs>>

LibraryWrites ==
  /\ stage = "idle"
  /\ \/ \E h \in Headers : h.version = 1 /\ sent' = h /\ wire' = HeaderBytes(h)
     \/ \E e \in EndRequests : sent' = e /\ wire' = EndRequestBytes(e)
     \/ \E u \in UnknownTypes : sent' = u /\ wire' = UnknownTypeBytes(u)
     \/ \E n \in Fitting, dest_size \in 1..3 :
          n.size <= dest_size /\ sent' = n /\ wire' = ToNetwork(n, dest_size)
  /\ stage' = "to client"
  /\ UNCHANGED <<got, streamVars>>

ClientReads ==
  /\ stage = "to client"
  /\ got' = CASE sent.kind = "header" -> ClientHeader(wire)
              [] sent.kind = "end"    -> ClientEndRequest(wire)
              [] sent.kind = "unknown" -> [kind |-> "unknown", type |-> wire[1]]
              [] sent.kind = "number" -> [sent EXCEPT !.value = Weigh(wire)]
  /\ stage' = "read"
  /\ UNCHANGED <<sent, wire, streamVars>>

ClientWrites ==
  /\ stage = "idle"
  /\ \E r \in Headers \cup BeginRequests \cup Fitting, spare \in {0, Radix - 1} :
       sent' = r /\ wire' = ClientBytes(r, spare)
  /\ stage' = "to library"
  /\ UNCHANGED <<got, streamVars>>

LibraryReads ==
  /\ stage = "to library"
  /\ got' = CASE sent.kind = "header" -> HeaderOf(wire)
              [] sent.kind = "begin"  -> BeginRequestOf(wire)
              [] sent.kind = "number" -> [sent EXCEPT !.value = FromNetwork(wire, sent.host)]
  /\ stage' = "read"
  /\ UNCHANGED <<sent, wire, streamVars>>

-----------------------------------------------------------------------------
(* Names_values, read from a stream of any bytes.                          *)

ClientStreams ==
  /\ stage = "idle"
  /\ wire' \in BoundedSeq(Bytes, MaxStream)
  /\ stage' = "lengths"
  /\ UNCHANGED <<sent, got, streamVars>>

Left == Len(wire) - position

LengthSize == IF wire[position + 1] < High THEN 1 ELSE 1 + Lead

\* Mutant of Length: the bit that tells a long length from a short one is not cleared.
LengthWithBit == FromDigits(SubSeq(wire, position + 1, position + LengthSize))

\* read_length(): the bit that says so is not a part of the length.
Length ==
  LET bytes == SubSeq(wire, position + 1, position + LengthSize)
  IN FromDigits([bytes EXCEPT ![1] = @ % High])

ReadLength ==
  /\ stage = "lengths" /\ Len(lengths) < 2
  /\ Left > 0 /\ Left >= LengthSize
  /\ lengths' = Append(lengths, Length)
  /\ position' = position + LengthSize
  /\ UNCHANGED <<stage, sent, wire, got, pairs>>

\* Mutant of StreamEnds: the end of the stream ends a pair, too.
StreamEndsAnywhere ==
  /\ stage = "lengths" /\ Len(lengths) < 2 /\ Left = 0
  /\ stage' = "complete"
  /\ UNCHANGED <<sent, wire, got, streamVars>>

\* eof where a pair would begin.
StreamEnds ==
  /\ stage = "lengths" /\ lengths = <<>> /\ Left = 0
  /\ stage' = "complete"
  /\ UNCHANGED <<sent, wire, got, streamVars>>

\* eof where the second length would begin, or within a length: an exception.
LengthMissing ==
  /\ stage = "lengths" /\ Len(lengths) < 2
  /\ IF Left = 0 THEN lengths # <<>> ELSE Left < LengthSize
  /\ stage' = "refused"
  /\ UNCHANGED <<sent, wire, got, streamVars>>

\* name_length + value_length, computed as int.
Count ==
  LET sum == lengths[1] + lengths[2]
  IN IF sum > IntMax THEN sum - 2 * (IntMax + 1) ELSE sum

\* Mutant of PairOf: the value is taken with the length of the name.
PairOfLengths(data) ==
  [name |-> SubSeq(data, 1, lengths[1]),
   value |-> SubSeq(data, lengths[1] + 1, 2 * lengths[1])]

PairOf(data) ==
  [name |-> SubSeq(data, 1, lengths[1]),
   value |-> SubSeq(data, lengths[1] + 1, Len(data))]

\* read_data() and add().
ReadData ==
  /\ stage = "lengths" /\ Len(lengths) = 2 /\ Count \in 0..Left
  /\ pairs' = Append(pairs, PairOf(SubSeq(wire, position + 1, position + Count)))
  /\ position' = position + Count /\ lengths' = <<>>
  /\ UNCHANGED <<stage, sent, wire, got>>

\* The stream ends before; a negative count reads nothing and is refused as well.
DataMissing ==
  /\ stage = "lengths" /\ Len(lengths) = 2 /\ Count \notin 0..Left
  /\ stage' = "refused"
  /\ UNCHANGED <<sent, wire, got, streamVars>>

\* Mutant of pair_index: the last pair of the name.
pair_index_last(name) ==
  LET named == {i \in DOMAIN pairs : pairs[i].name = name}
  IN IF named = {} THEN 0 ELSE CHOOSE i \in named : \A j \in named : i >= j

\* The first pair of the name; 0 for none.
pair_index(name) ==
  LET named == {i \in DOMAIN pairs : pairs[i].name = name}
  IN IF named = {} THEN 0 ELSE CHOOSE i \in named : \A j \in named : i <= j

\* parameter(name): its value, or an exception.
parameter(name) ==
  IF pair_index(name) = 0 THEN Refused ELSE pairs[pair_index(name)].value

-----------------------------------------------------------------------------
Init ==
  /\ stage = "idle" /\ sent = Nothing /\ got = Nothing /\ wire = <<>>
  /\ position = 0 /\ lengths = <<>> /\ pairs = <<>>

Next ==
  \/ LibraryWrites \/ ClientReads
  \/ ClientWrites \/ LibraryReads
  \/ ClientStreams \/ ReadLength \/ StreamEnds \/ LengthMissing \/ ReadData \/ DataMissing

Spec == Init /\ [][Next]_vars

-----------------------------------------------------------------------------
(* Properties.                                                             *)

\* The variables have their types: whatever the bytes are, no position is outside of
\* them, no length is longer than int allows.
TypeOK ==
  /\ stage \in {"idle", "to client", "to library", "read", "lengths", "complete", "refused"}
  /\ wire \in Seq(Bytes)
  /\ position \in 0..Len(wire)
  /\ lengths \in Seq(0..IntMax) /\ Len(lengths) <= 2
  /\ pairs \in Seq([name : Seq(Bytes), value : Seq(Bytes)])

\* Every header and every body means the same on both sides, for
\* every request, length, role and status, negative ones included, and whatever is in the
\* reserved bytes and flags; a header of another version is refused.  conv() of a number
\* is the number in network order, and back, on hosts of both orders
\* (fcgi/basics.cpp 128-174, 217-308, net/conversions.hpp 37-95).
RecordsCarryValues ==
  stage = "read" =>
    got = IF sent.kind = "header" /\ sent.version # 1 THEN Refused ELSE sent

\* The forms a length may have.
LengthForms(n) ==
  (IF n < High THEN {<<n>>} ELSE {})
    \cup {<<Radix - High + digits[1]>> \o Tail(digits) :
            digits \in {d \in [1..Lead + 1 -> Bytes] : d[1] < High /\ Weigh(d) = n}}

Forms(p) ==
  {name \o value \o p.name \o p.value :
     name \in LengthForms(Len(p.name)), value \in LengthForms(Len(p.value))}

\* Whether the bytes begin with a pair.
BeginsWithPair(bytes) ==
  \E n \in 0..Len(bytes), v \in 0..Len(bytes) :
    \E name \in LengthForms(n), value \in LengthForms(v) :
      IsPrefix(name \o value, bytes) /\ Len(name \o value) + n + v <= Len(bytes)

WithPair(written, p) == {bytes \o form : bytes \in written, form \in Forms(p)}

\* Every way the bytes of these pairs may be written.
Encodings(ps) ==
  LET written[i \in 0..Len(ps)] ==
        IF i = 0 THEN {<<>>}
        ELSE WithPair(written[i - 1], ps[i])
  IN written[Len(ps)]

\* The pairs taken from a stream are those its bytes encode, none is made up or lost; the
\* stream is accepted when it ends behind the last of them, and an exception is thrown
\* only when it goes on with what is no whole pair (fcgi/basics.cpp 385-425).
PairsAreTheStream ==
  stage \in {"lengths", "complete", "refused"} =>
    \E whole \in Encodings(pairs) :
      /\ IsPrefix(whole, wire)
      /\ stage = "lengths" /\ lengths = <<>> => Len(whole) = position
      /\ stage = "complete" => whole = wire
      /\ stage = "refused" =>
           /\ whole # wire
           /\ ~BeginsWithPair(SubSeq(wire, Len(whole) + 1, Len(wire)))

\* The value of a parameter is the first the client has sent for its name: no pair that
\* comes later changes what parameter(name) returns (server_connection.cpp 48-72,
\* fcgi/basics.cpp 435-444).
FirstValueStands ==
  [][\A name \in {pairs[i].name : i \in DOMAIN pairs} :
       parameter(name)' = parameter(name)]_vars

=============================================================================
