----------------------- MODULE ConformingClientProofs -----------------------
(***************************************************************************)
(* Theorems about StreambufReader and a client that keeps to one request:   *)
(* what the application is handed, and that it sees RequestInput.           *)
(***************************************************************************)
EXTENDS StreambufReaderProofs

-----------------------------------------------------------------------------
(* What a conforming client writes.                                        *)

\* The bytes of each record are together and complete.
Layout ==
  \A p \in 1..Len(wire) :
    LET r == wire[p].rec
        base == p - wire[p].off
    IN /\ 0 <= base /\ wire[p].off <= Size(r) /\ base + Size(r) <= Len(wire)
       /\ \A i \in 1..Size(r) : wire[base + i] = [rec |-> r, off |-> i]

\* Position n lies between two records.
IsBoundary(n) == n = 0 \/ (n \in 1..Len(wire) /\ wire[n].off = Size(wire[n].rec))

\* The stream that is written behind boundary n.
StreamAt(n) ==
  IF n = 0 THEN "params"
  ELSE IF wire[n].rec.clen = 0 THEN NextStream(wire[n].rec.kind) ELSE wire[n].rec.kind

Rank(k) ==
  CASE k = "params" -> 1 [] k = "in" -> 2 [] k = "data" -> 3 [] k = "done" -> 4

\* The records come in the order of their streams, those that end a stream without
\* padding.
Ordered ==
  /\ \A p \in 1..Len(wire) :
       /\ wire[p].rec.kind \in Streams
       /\ wire[p].rec.clen = 0 => wire[p].rec.plen = 0
       /\ Rank(wire[p].rec.kind) <= Rank(phase)
       /\ wire[p].rec.clen = 0 => Rank(wire[p].rec.kind) < Rank(phase)
  /\ \A n \in 0..Len(wire) : IsBoundary(n) =>
       StreamAt(n) = IF n = Len(wire) THEN phase ELSE wire[n + 1].rec.kind

\* Nothing of a stream comes behind its end.
EndIsLast ==
  \A p \in 1..Len(wire) : wire[p].rec.clen = 0 =>
    \A q \in p + 1 .. Len(wire) : ~IsOwnContent(q, wire[p].rec.kind)

-----------------------------------------------------------------------------
(* Where the reader is in it.                                              *)

\* Nothing but the streams of the request has been met.
Undisturbed ==
  /\ ~discard /\ frames = <<>> /\ answers = <<>>
  /\ pc \in {"caller", "read", "body", "process"}
  /\ pc # "caller" => ios = "good"
  /\ ios = "bad" => conn = "broken"
  /\ stage = "failed" => ios = "bad"
  /\ stage = "params" => type = "params"
  /\ pc = "read" => gptr = fetched
  /\ pc = "caller" /\ ios # "bad" => gptr <= egptr

\* The end of what has been taken of the current record, its header left aside
\* until it is complete.
Taken ==
  IF pc = "caller" THEN egptr
  ELSE IF unreadContent > 0 THEN gptr ELSE gptr - hdrLen

\* The end of the current record.
RecordEnd == Taken + unreadContent + unreadPadding

AtHeader ==
  pc # "caller" /\ unreadContent = 0 =>
    /\ hdrLen > 0 => unreadPadding = 0 /\ hdrPos = gptr - hdrLen
    /\ hdrLen < HeaderSize \/ pc = "process"

Cursor ==
  /\ pc = "process" => unreadContent = 0 /\ unreadPadding = 0
  /\ IsBoundary(RecordEnd)
  /\ unreadContent + unreadPadding > 0 =>
       /\ unreadContent <= wire[RecordEnd].rec.clen
       /\ unreadPadding <= wire[RecordEnd].rec.plen
       /\ unreadContent > 0 => unreadPadding = wire[RecordEnd].rec.plen
  /\ ~eos => StreamAt(RecordEnd) = type
  /\ AtHeader

\* The stream whose end has been met, and nothing read since.
AtEndOf(t) ==
  /\ pc = "caller" /\ gptr = egptr /\ unreadContent = 0 /\ unreadPadding = 0
  /\ RecordEnd > 0 /\ wire[RecordEnd].rec.kind = t /\ wire[RecordEnd].rec.clen = 0

Ends ==
  /\ eos => AtEndOf(type)
  /\ pc = "caller" /\ ios = "eof" /\ ~eos => type = "data" /\ AtEndOf("in")

GetAreaOwn ==
  pc = "caller" => \A p \in gptr + 1 .. egptr : IsOwnContent(p, type)

ReaderInv == ios # "bad" => Cursor /\ Ends /\ GetAreaOwn

\* A complete header is that of the record at whose first byte it lies.
HeaderRead == pc = "process" => header = wire[hdrPos + 1].rec

ConformingInv ==
  /\ DeliveredBehind /\ HeaderRead
  /\ Layout /\ Ordered /\ EndIsLast /\ Undisturbed /\ ReaderInv /\ DeliveredExactly


-----------------------------------------------------------------------------
(* Facts about what has been written.                                      *)

LEMMA LayoutAt ==
  ASSUME Layout, NEW p \in 1..Len(wire)
  PROVE  /\ 0 <= p - wire[p].off /\ wire[p].off <= Size(wire[p].rec)
         /\ (p - wire[p].off) + Size(wire[p].rec) <= Len(wire)
         /\ \A i \in 1..Size(wire[p].rec) :
              wire[(p - wire[p].off) + i] = [rec |-> wire[p].rec, off |-> i]
BY DEF Layout

\* The record that begins at a boundary.
LEMMA RecordAt ==
  ASSUME TypeOK, Layout, NEW b \in 0 .. Len(wire) - 1, IsBoundary(b)
  PROVE  /\ wire[b + 1].off = 1
         /\ b + Size(wire[b + 1].rec) <= Len(wire)
         /\ \A i \in 1..Size(wire[b + 1].rec) :
              wire[b + i] = [rec |-> wire[b + 1].rec, off |-> i]
         /\ IsBoundary(b + Size(wire[b + 1].rec))
<1> DEFINE p == b + 1
           r == wire[p].rec
           o == wire[p].off
           n == Size(r)
<1>1. Len(wire) \in Nat /\ p \in 1..Len(wire) /\ b \in Nat
  BY DEF TypeOK
<1> HIDE DEF p
<1>2. r \in Record /\ o \in Nat \ {0} /\ n \in Nat \ {0}
  BY <1>1, TokenType
<1>3. /\ 0 <= p - o /\ o <= n /\ (p - o) + n <= Len(wire)
      /\ \A i \in 1..n : wire[(p - o) + i] = [rec |-> r, off |-> i]
  BY <1>1, LayoutAt
<1> HIDE DEF r, o, n
<1>4. o = 1
  <2>1. CASE b = 0
    BY <1>2, <1>3, <2>1 DEF p
  <2>2. CASE b # 0 /\ o # 1
    <3>1. o - 1 \in 1..n /\ (p - o) + (o - 1) = b
      BY <1>1, <1>2, <1>3, <2>2 DEF p
    <3>2. wire[b] = [rec |-> r, off |-> o - 1]
      BY <1>3, <3>1
    <3>3. wire[b].off = Size(wire[b].rec)
      BY <2>2 DEF IsBoundary
    <3> QED BY <1>2, <1>3, <3>2, <3>3 DEF n
  <2> QED BY <2>1, <2>2
<1>5. p - o = b
  BY <1>1, <1>4 DEF p
<1>6. IsBoundary(b + n)
  <2>1. b + n \in 1..Len(wire) /\ n \in 1..n
    BY <1>1, <1>2, <1>3, <1>5
  <2>2. wire[b + n] = [rec |-> r, off |-> n]
    BY <1>3, <1>5, <2>1
  <2> QED BY <2>1, <2>2 DEF IsBoundary, n
<1> QED BY <1>3, <1>4, <1>5, <1>6 DEF r, o, p, n

\* The bytes of the record that ends at a boundary.
LEMMA RecordBefore ==
  ASSUME TypeOK, Layout, NEW e \in 1..Len(wire), IsBoundary(e),
         NEW p \in Int, e - Size(wire[e].rec) < p, p <= e
  PROVE  p \in 1..Len(wire)
         /\ wire[p] = [rec |-> wire[e].rec, off |-> Size(wire[e].rec) - (e - p)]
<1> DEFINE n == Size(wire[e].rec)
           base == e - n
           i == p - base
<1>1. n \in Nat \ {0} /\ e \in Nat /\ e <= Len(wire) /\ Len(wire) \in Nat /\ base < p
  BY TokenType DEF TypeOK
<1>2. wire[e].off = n
  BY DEF IsBoundary
<1>3. 0 <= base /\ \A j \in 1..n : wire[base + j] = [rec |-> wire[e].rec, off |-> j]
  BY <1>2, LayoutAt
<1> HIDE DEF n
<1>4. i \in 1..n /\ base + i = p /\ i = n - (e - p) /\ p \in 1..Len(wire)
  BY <1>1, <1>3
<1>5. wire[base + i] = [rec |-> wire[e].rec, off |-> i]
  BY <1>3, <1>4
<1> QED BY <1>4, <1>5 DEF n

LEMMA LastBoundary ==
  ASSUME TypeOK, Layout
  PROVE  IsBoundary(Len(wire))
<1>1. Len(wire) \in Nat
  BY DEF TypeOK
<1>2. CASE Len(wire) # 0
  <2>1. Len(wire) \in 1..Len(wire)
    BY <1>1, <1>2
  <2>2. /\ wire[Len(wire)].off <= Size(wire[Len(wire)].rec)
        /\ Len(wire) - wire[Len(wire)].off + Size(wire[Len(wire)].rec) <= Len(wire)
    BY <2>1, LayoutAt
  <2>3. wire[Len(wire)].off \in Nat /\ Size(wire[Len(wire)].rec) \in Nat
    BY <2>1, TokenType
  <2> QED BY <1>1, <2>1, <2>2, <2>3 DEF IsBoundary
<1> QED BY <1>2 DEF IsBoundary

-----------------------------------------------------------------------------
(* The client's steps.                                                     *)

LEMMA Written ==
  ASSUME TypeOK, NEW r \in Record, Write(r)
  PROVE  /\ Len(wire) \in Nat /\ Size(r) \in Nat \ {0}
         /\ wire' \in Seq(Token) /\ Len(wire') = Len(wire) + Size(r)
         /\ \A p \in 1..Len(wire) : p \in 1..Len(wire') /\ wire'[p] = wire[p]
         /\ \A p \in Len(wire) + 1 .. Len(wire) + Size(r) :
              /\ wire'[p] = [rec |-> r, off |-> p - Len(wire)]
              /\ wire'[p].rec = r /\ wire'[p].off = p - Len(wire)
<1>0. \A i \in 1..Size(r) : wire'[Len(wire) + i] = [rec |-> r, off |-> i]
  BY WriteType
<1>1. Len(wire) \in Nat /\ Size(r) \in Nat
  BY BytesType DEF TypeOK
<1>2. Size(r) # 0
  BY SizeAssumption DEF Size, Record
<1>3. wire' \in Seq(Token) /\ Len(wire') = Len(wire) + Size(r)
  BY WriteType
<1>4. \A p \in 1..Len(wire) : p \in 1..Len(wire') /\ wire'[p] = wire[p]
  BY <1>1, <1>3, WriteType
<1>5. ASSUME NEW p \in Len(wire) + 1 .. Len(wire) + Size(r)
      PROVE  wire'[p] = [rec |-> r, off |-> p - Len(wire)]
  <2> DEFINE i == p - Len(wire)
  <2>1. i \in 1..Size(r) /\ Len(wire) + i = p
    BY <1>1
  <2> HIDE DEF i
  <2>2. wire'[Len(wire) + i] = [rec |-> r, off |-> i]
    BY <1>0, <2>1
  <2> QED BY <2>1, <2>2 DEF i
<1> QED BY <1>1, <1>2, <1>3, <1>4, <1>5

LEMMA LayoutGrows ==
  ASSUME TypeOK, TypeOK', Layout, NEW r \in Record, Write(r)
  PROVE  Layout'
<1> DEFINE L == Len(wire)
           n == Size(r)
<1>1. /\ L \in Nat /\ n \in Nat \ {0} /\ Len(wire') = L + n
      /\ \A p \in 1..L : wire'[p] = wire[p]
      /\ \A p \in L + 1 .. L + n : wire'[p] = [rec |-> r, off |-> p - L]
  BY Written
<1> HIDE DEF L
<1> SUFFICES ASSUME NEW p \in 1..Len(wire')
             PROVE  /\ 0 <= p - wire'[p].off /\ wire'[p].off <= Size(wire'[p].rec)
                    /\ (p - wire'[p].off) + Size(wire'[p].rec) <= Len(wire')
                    /\ \A i \in 1..Size(wire'[p].rec) :
                         wire'[(p - wire'[p].off) + i] = [rec |-> wire'[p].rec, off |-> i]
  BY DEF Layout
<1>2. CASE p \in 1..L
  <2> DEFINE o == wire[p].off
             m == Size(wire[p].rec)
  <2>1. wire'[p] = wire[p] /\ m \in Nat \ {0} /\ o \in Nat \ {0} /\ p \in Nat
    BY <1>1, <1>2, TokenType DEF L
  <2>2. /\ 0 <= p - o /\ o <= m /\ (p - o) + m <= L
        /\ \A i \in 1..m : wire[(p - o) + i] = [rec |-> wire[p].rec, off |-> i]
    BY <1>2, LayoutAt DEF L
  <2> HIDE DEF o, m
  <2>3. \A i \in 1..m : (p - o) + i \in 1..L
    BY <1>1, <2>1, <2>2
  <2>4. \A i \in 1..m : wire'[(p - o) + i] = [rec |-> wire[p].rec, off |-> i]
    BY <1>1, <2>2, <2>3
  <2>5. (p - o) + m <= Len(wire')
    BY <1>1, <2>1, <2>2
  <2> QED BY <2>1, <2>2, <2>4, <2>5 DEF o, m
<1>3. CASE p \notin 1..L
  <2>1. wire'[p] = [rec |-> r, off |-> p - L]
    <3>1. p \in L + 1 .. L + n
      BY <1>1, <1>3
    <3> QED BY <1>1, <3>1
  <2> HIDE DEF n
  <2>2. \A i \in 1..n : wire'[L + i] = [rec |-> r, off |-> i]
    <3> TAKE i \in 1..n
    <3>1. L + i \in L + 1 .. L + n /\ (L + i) - L = i
      BY <1>1
    <3> QED BY <1>1, <3>1
  <2>3. p - (p - L) = L /\ p - L <= n /\ L + n <= Len(wire') /\ p \in Int
    BY <1>1, <1>3
  <2> QED BY <1>1, <2>1, <2>2, <2>3 DEF n
<1> QED BY <1>2, <1>3

\* What has been written stays as it is.
LEMMA BoundaryKept ==
  ASSUME TypeOK, NEW r \in Record, Write(r), NEW n \in 0..Len(wire)
  PROVE  /\ n \in 0..Len(wire')
         /\ IsBoundary(n)' <=> IsBoundary(n)
         /\ StreamAt(n)' = StreamAt(n)
         /\ n # 0 => wire'[n] = wire[n]
<1>1. /\ Len(wire') = Len(wire) + Size(r) /\ Len(wire) \in Nat /\ Size(r) \in Nat
      /\ \A p \in 1..Len(wire) : wire'[p] = wire[p]
  BY WriteType, BytesType DEF TypeOK
<1>2. n # 0 => n \in 1..Len(wire) /\ n \in 1..Len(wire') /\ wire'[n] = wire[n]
  BY <1>1
<1> QED BY <1>1, <1>2 DEF IsBoundary, StreamAt

LEMMA RankGrows ==
  /\ \A k \in Streams \cup {"done"} : Rank(k) \in 1..4
  /\ \A k \in Streams : NextStream(k) \in Streams \cup {"done"} /\ Rank(k) < Rank(NextStream(k))
BY DEF Rank, NextStream, Streams

LEMMA OrderedGrows ==
  ASSUME TypeOK, TypeOK', Layout, Ordered, EndIsLast, NEW r \in Record, Write(r),
         phase \in Streams, r.kind = phase, r.clen = 0 => r.plen = 0,
         phase' = IF r.clen = 0 THEN NextStream(phase) ELSE phase
  PROVE  Ordered' /\ EndIsLast'
<1> DEFINE L == Len(wire)
           n == Size(r)
<1>1. /\ L \in Nat /\ n \in Nat \ {0} /\ Len(wire') = L + n
      /\ \A p \in 1..L : wire'[p] = wire[p]
      /\ \A p \in L + 1 .. L + n : wire'[p].rec = r /\ wire'[p].off = p - L
  BY Written
<1> HIDE DEF L
<1>2. ASSUME NEW p \in 1..Len(wire'), p \notin 1..L
      PROVE  wire'[p].rec = r /\ wire'[p].off = p - L /\ p - L \in 1..n
  <2> HIDE DEF n
  <2>1. p \in L + 1 .. L + n /\ p - L \in 1..n
    BY <1>1, <1>2
  <2> QED BY <1>1, <2>1
<1>3. /\ phase' \in Streams \cup {"done"} /\ Rank(phase) \in Nat /\ Rank(phase') \in Nat
      /\ Rank(phase) <= Rank(phase') /\ (r.clen = 0 => Rank(phase) < Rank(phase'))
  BY RankGrows
<1>4. ASSUME NEW p \in 1..Len(wire')
      PROVE  /\ wire'[p].rec.kind \in Streams
             /\ wire'[p].rec.clen = 0 => wire'[p].rec.plen = 0
             /\ Rank(wire'[p].rec.kind) <= Rank(phase')
             /\ wire'[p].rec.clen = 0 => Rank(wire'[p].rec.kind) < Rank(phase')
  <2>1. CASE p \in 1..L
    <3>1. /\ wire[p].rec.kind \in Streams
          /\ wire[p].rec.clen = 0 => wire[p].rec.plen = 0
          /\ Rank(wire[p].rec.kind) <= Rank(phase)
          /\ wire[p].rec.clen = 0 => Rank(wire[p].rec.kind) < Rank(phase)
      BY <2>1 DEF Ordered, L
    <3>2. Rank(wire[p].rec.kind) \in Nat
      BY <3>1, RankGrows
    <3> QED BY <1>1, <1>3, <2>1, <3>1, <3>2
  <2>2. CASE p \notin 1..L
    BY <1>2, <1>3, <2>2
  <2> QED BY <2>1, <2>2
<1>5. ASSUME NEW m \in 0..Len(wire'), IsBoundary(m)'
      PROVE  StreamAt(m)' = IF m = Len(wire') THEN phase' ELSE wire'[m + 1].rec.kind
  <2>1. CASE m \in 0..L
    <3>1. IsBoundary(m) /\ StreamAt(m)' = StreamAt(m)
      BY <1>5, <2>1, BoundaryKept DEF L
    <3>2. StreamAt(m) = IF m = L THEN phase ELSE wire[m + 1].rec.kind
      BY <2>1, <3>1 DEF Ordered, L
    <3>3. m # L => m + 1 \in 1..L
      BY <1>1, <2>1
    <3>4. m # Len(wire')
      <4> HIDE DEF n
      <4> QED BY <1>1, <2>1
    <3>5. m = L => wire'[m + 1].rec = r
      <4> HIDE DEF n
      <4>1. L + 1 \in L + 1 .. L + n
        BY <1>1
      <4> QED BY <1>1, <4>1
    <3> QED BY <1>1, <3>1, <3>2, <3>3, <3>4, <3>5
  <2>2. CASE m \notin 0..L
    <3>1. m \in 1..Len(wire') /\ m \notin 1..L /\ m # 0
      BY <1>1, <2>2
    <3>2. wire'[m].rec = r /\ wire'[m].off = m - L /\ m - L \in 1..n
      BY <1>2, <3>1
    <3>3. m - L = n
      BY <1>5, <3>1, <3>2 DEF IsBoundary
    <3>4. m = Len(wire')
      BY <1>1, <3>1, <3>3
    <3> QED BY <3>1, <3>2, <3>4 DEF StreamAt
  <2> QED BY <2>1, <2>2
<1>6. ASSUME NEW p \in 1..Len(wire'), NEW q \in p + 1 .. Len(wire'), wire'[p].rec.clen = 0
      PROVE  ~IsOwnContent(q, wire[p].rec.kind)'
  <2>1. CASE q \in 1..L
    <3>1. p \in 1..L /\ q \in p + 1 .. L /\ wire'[p] = wire[p] /\ wire'[q] = wire[q]
      BY <1>1, <2>1
    <3>2. ~IsOwnContent(q, wire[p].rec.kind)
      BY <1>6, <3>1 DEF EndIsLast, L
    <3> QED BY <3>1, <3>2 DEF IsOwnContent, IsContent
  <2>2. CASE q \notin 1..L
    <3>0. q \in 1..Len(wire')
      BY <1>1
    <3>1. wire'[q].rec = r /\ wire'[q].off = q - L /\ q - L \in 1..n
      BY <1>2, <2>2, <3>0
    <3>2. CASE p \in 1..L
      <4>1. Rank(wire[p].rec.kind) < Rank(phase) /\ Rank(wire[p].rec.kind) \in Nat
        <5>1. wire[p].rec.clen = 0 /\ wire'[p] = wire[p]
          BY <1>1, <1>6, <3>2
        <5> QED BY <3>2, <5>1, RankGrows DEF Ordered, L
      <4>2. wire'[p] = wire[p] /\ wire'[q].rec.kind = phase
        BY <1>1, <3>1, <3>2
      <4>3. wire[p].rec.kind # phase
        BY <4>1
      <4> QED BY <4>2, <4>3 DEF IsOwnContent
    <3>3. CASE p \notin 1..L
      <4>1. r.clen = 0 /\ r.plen = 0
        BY <1>2, <1>6, <3>3
      <4>2. n = HeaderSize
        BY <4>1, SizeAssumption DEF Size
      <4> QED BY <3>1, <4>1, <4>2, SizeAssumption DEF IsOwnContent, IsContent
    <3> QED BY <3>2, <3>3
  <2> QED BY <2>1, <2>2
<1> QED BY <1>4, <1>5, <1>6 DEF Ordered, EndIsLast

-----------------------------------------------------------------------------
(* The reader's steps.                                                     *)

LEMMA WireKept ==
  ASSUME wire' = wire, phase' = phase, Layout, Ordered, EndIsLast
  PROVE  Layout' /\ Ordered' /\ EndIsLast'
<1>1. Layout'
  BY DEF Layout
<1>2. Ordered'
  BY DEF Ordered, IsBoundary, StreamAt
<1>3. EndIsLast'
  BY DEF EndIsLast, IsOwnContent, IsContent
<1> QED BY <1>1, <1>2, <1>3

\* What gptr() passes over without handing it to the caller is not content.
LEMMA PassedOver ==
  ASSUME TypeInv, DeliveredBehind, DeliveredExactly, wire' = wire, delivered' = delivered,
         gptr' \in Nat, gptr <= gptr', \A p \in gptr + 1 .. gptr' : ~IsContent(wire[p])
  PROVE  (DeliveredBehind /\ DeliveredExactly)'
<1>1. gptr \in Nat /\ \A d \in delivered : d[1] <= gptr /\ d[1] \in Nat
  BY DEF TypeInv, TypeOK, DeliveredBehind
<1>2. DeliveredBehind'
  BY <1>1 DEF DeliveredBehind
<1>3. ASSUME NEW p \in 1..gptr', NEW t \in Streams
      PROVE  <<p, t>> \in delivered <=> IsOwnContent(p, t)
  <2>1. CASE p \in 1..gptr
    BY <2>1 DEF DeliveredExactly
  <2>2. CASE p \notin 1..gptr
    <3>1. p \in gptr + 1 .. gptr' /\ ~(p <= gptr)
      BY <1>1, <2>2
    <3>2. <<p, t>> \notin delivered
      BY <1>1, <3>1
    <3> QED BY <3>1, <3>2 DEF IsOwnContent
  <2> QED BY <2>1, <2>2
<1> QED BY <1>2, <1>3 DEF DeliveredExactly, IsOwnContent, IsContent

LEMMA CursorSet ==
  ASSUME wire' = wire, NEW e \in Nat, RecordEnd' = e, IsBoundary(e),
         pc' = "process" => unreadContent' = 0 /\ unreadPadding' = 0,
         unreadContent' + unreadPadding' > 0 =>
           /\ unreadContent' <= wire[e].rec.clen
           /\ unreadPadding' <= wire[e].rec.plen
           /\ unreadContent' > 0 => unreadPadding' = wire[e].rec.plen,
         ~eos' => StreamAt(e) = type',
         AtHeader'
  PROVE  Cursor'
BY DEF Cursor, IsBoundary, StreamAt

\* The positions are numbers, and the current record is one of wire.
LEMMA Positions ==
  ASSUME TypeInv, Undisturbed, ReaderInv, ios # "bad"
  PROVE  /\ gptr \in Nat /\ egptr \in Nat /\ fetched \in Nat /\ Len(wire) \in Nat
         /\ hdrLen \in Nat /\ hdrLen <= HeaderSize /\ HeaderSize \in Nat \ {0}
         /\ gptr <= fetched /\ egptr <= fetched /\ fetched <= Len(wire)
         /\ unreadContent \in Nat /\ unreadPadding \in Nat
         /\ RecordEnd \in 0..Len(wire) /\ IsBoundary(RecordEnd)
<1>1. /\ gptr \in Nat /\ egptr \in Nat /\ fetched \in Nat /\ Len(wire) \in Nat
      /\ hdrLen \in Nat /\ hdrLen <= HeaderSize /\ HeaderSize \in Nat \ {0}
      /\ gptr <= fetched /\ egptr <= fetched /\ fetched <= Len(wire)
      /\ unreadContent \in Nat /\ unreadPadding \in Nat
  BY SizeAssumption DEF TypeInv, TypeOK
<1>2. IsBoundary(RecordEnd)
  BY DEF ReaderInv, Cursor
<1> QED BY <1>1, <1>2 DEF IsBoundary

Inv == TypeInv /\ ConformingInv

\* The part of the invariant that is about the reader.
ReaderPart == Undisturbed /\ ReaderInv /\ DeliveredBehind /\ DeliveredExactly

LEMMA DeliveredKept ==
  ASSUME TypeInv, DeliveredBehind, DeliveredExactly, wire' = wire,
         delivered' = delivered, gptr' = gptr
  PROVE  (DeliveredBehind /\ DeliveredExactly)'
BY DEF DeliveredBehind, DeliveredExactly, IsOwnContent, IsContent

LEMMA ConsumeInv ==
  ASSUME Inv, Consume
  PROVE  ReaderPart'
<1> USE DEF Inv, ConformingInv
<1>1. PICK n \in 1..(egptr - gptr) :
        /\ gptr' = gptr + n
        /\ delivered' = delivered \cup {<<p, type>> : p \in gptr + 1 .. gptr + n}
  BY DEF Consume
<1>2. /\ pc = "caller" /\ ios = "good" /\ stage # "failed"
      /\ UNCHANGED <<wire, phase, conn, type, eos, discard, egptr, fetched, unreadContent,
                     unreadPadding, pc, hdrPos, hdrLen, header, frames, stage, ios, answers>>
  BY DEF Consume, clientVars, recordVars, headerVars, ownerVars
<1>3. /\ gptr \in Nat /\ egptr \in Nat /\ n \in Nat \ {0} /\ gptr + n <= egptr
      /\ RecordEnd \in Nat /\ IsBoundary(RecordEnd)
  BY <1>1, <1>2, Positions
<1>4. Undisturbed'
  BY <1>1, <1>2, <1>3 DEF Undisturbed
<1>5. Cursor /\ ~eos /\ GetAreaOwn
  BY <1>2, <1>3 DEF ReaderInv, Ends, AtEndOf
<1>6. Cursor'
  <2>1. RecordEnd' = RecordEnd
    BY <1>2 DEF RecordEnd, Taken
  <2> QED BY <1>2, <1>3, <1>5, <2>1, CursorSet DEF Cursor, AtHeader
<1>7. Ends'
  BY <1>2, <1>5 DEF Ends
<1>8. GetAreaOwn'
  BY <1>1, <1>2, <1>3, <1>5 DEF GetAreaOwn, IsOwnContent, IsContent
<1>9. DeliveredBehind'
  <2> SUFFICES ASSUME NEW d \in delivered' PROVE d[1] <= gptr + n
    BY <1>1 DEF DeliveredBehind
  <2>1. CASE d \in delivered
    <3>1. d[1] <= gptr /\ d[1] \in Nat
      BY <2>1 DEF DeliveredBehind, TypeInv, TypeOK
    <3> QED BY <1>3, <3>1
  <2>2. CASE \E p \in gptr + 1 .. gptr + n : d = <<p, type>>
    BY <1>3, <2>2
  <2> QED BY <1>1, <2>1, <2>2
<1>10. DeliveredExactly'
  <2> SUFFICES ASSUME NEW p \in 1..(gptr + n), NEW t \in Streams
               PROVE  <<p, t>> \in delivered' <=> IsOwnContent(p, t)
    BY <1>1, <1>2 DEF DeliveredExactly, IsOwnContent, IsContent
  <2>1. CASE p \in 1..gptr
    <3>1. p \notin gptr + 1 .. gptr + n
      BY <1>3, <2>1
    <3>2. <<p, t>> \in delivered' <=> <<p, t>> \in delivered
      BY <1>1, <3>1
    <3> QED BY <2>1, <3>2 DEF DeliveredExactly
  <2>2. CASE p \notin 1..gptr
    <3>1. p \in gptr + 1 .. gptr + n /\ p \in gptr + 1 .. egptr /\ ~(p <= gptr)
      BY <1>3, <2>2
    <3>2. IsOwnContent(p, type)
      BY <1>2, <1>5, <3>1 DEF GetAreaOwn
    <3>3. <<p, t>> \notin delivered
      BY <3>1 DEF DeliveredBehind
    <3>4. <<p, t>> \in delivered' <=> t = type
      BY <1>1, <3>1, <3>3
    <3> QED BY <3>2, <3>4 DEF IsOwnContent
  <2> QED BY <2>1, <2>2
<1> QED BY <1>4, <1>6, <1>7, <1>8, <1>9, <1>10 DEF ReaderPart, ReaderInv

LEMMA UnderflowInv ==
  ASSUME Inv, Underflow
  PROVE  ReaderPart'
<1> USE DEF Inv, ConformingInv
<1>1. /\ pc = "caller" /\ gptr >= egptr /\ ios = "good" /\ stage # "failed" /\ ~Nested
      /\ UNCHANGED <<wire, phase, conn, type, eos, discard, gptr, egptr, fetched,
                     unreadContent, unreadPadding, frames, stage, delivered, answers>>
  BY DEF Underflow, Undisturbed, Nested, clientVars, recordVars
<1>2. gptr = egptr /\ gptr \in Nat /\ RecordEnd \in Nat /\ IsBoundary(RecordEnd)
      /\ unreadContent \in Nat /\ unreadPadding \in Nat /\ HeaderSize \in Nat \ {0}
  BY <1>1, Positions DEF Undisturbed
<1>3. (DeliveredBehind /\ DeliveredExactly)'
  BY <1>1, DeliveredKept
<1>4. Cursor /\ Ends
  BY <1>1 DEF ReaderInv
<1>5. CASE eos
  <2>1. pc' = "caller" /\ ios' = "eof" /\ UNCHANGED <<hdrPos, hdrLen>>
    BY <1>1, <1>5 DEF Underflow, Returns, headerVars
  <2>2. RecordEnd' = RecordEnd
    BY <1>1, <2>1 DEF RecordEnd, Taken
  <2>3. Cursor'
    BY <1>1, <1>2, <1>4, <2>1, <2>2, CursorSet DEF Cursor, AtHeader
  <2>4. AtEndOf(type)'
    BY <1>1, <1>2, <1>4, <1>5, <2>1, <2>2 DEF AtEndOf, Ends
  <2>5. Undisturbed' /\ Ends' /\ GetAreaOwn'
    BY <1>1, <1>2, <1>5, <2>1, <2>4 DEF Undisturbed, Ends, GetAreaOwn
  <2> QED BY <1>3, <2>3, <2>5 DEF ReaderPart, ReaderInv
<1>6. CASE ~eos
  <2>1. /\ pc' = (IF gptr = fetched THEN "read" ELSE "body")
        /\ hdrPos' = gptr /\ hdrLen' = 0 /\ ios' = "good"
    BY <1>1, <1>6 DEF Underflow, Loop
  <2>2. RecordEnd' = RecordEnd
    BY <1>1, <1>2, <2>1 DEF RecordEnd, Taken
  <2>3. AtHeader'
    BY <1>2, <2>1 DEF AtHeader
  <2>4. Cursor'
    BY <1>1, <1>2, <1>4, <2>1, <2>2, <2>3, CursorSet DEF Cursor
  <2>5. Undisturbed' /\ Ends' /\ GetAreaOwn'
    BY <1>1, <1>6, <2>1 DEF Undisturbed, Ends, GetAreaOwn
  <2> QED BY <1>3, <2>4, <2>5 DEF ReaderPart, ReaderInv
<1> QED BY <1>5, <1>6

LEMMA ParametersReadInv ==
  ASSUME Inv, ParametersRead
  PROVE  ReaderPart'
<1> USE DEF Inv, ConformingInv
<1>1. /\ pc = "caller" /\ stage = "params" /\ ios = "eof" /\ stage' = "serving"
      /\ UNCHANGED <<wire, phase, conn, gptr, egptr, fetched, pc, hdrPos, hdrLen,
                     frames, delivered, answers>>
  BY DEF ParametersRead, clientVars, headerVars
<1>2. /\ RecordEnd \in Nat /\ IsBoundary(RecordEnd)
      /\ egptr \in Nat /\ unreadContent \in Nat /\ unreadPadding \in Nat
  BY <1>1, Positions
<1>3. type = "params" /\ Cursor /\ Ends /\ GetAreaOwn
  BY <1>1 DEF Undisturbed, ReaderInv
<1>4. eos /\ AtEndOf(type)
  BY <1>1, <1>3 DEF Ends
<1>5. (DeliveredBehind /\ DeliveredExactly)'
  BY <1>1, DeliveredKept
<1>6. CASE Role = "authorizer"
  <2>1. UNCHANGED <<type, eos, discard, unreadContent, unreadPadding, ios>>
    BY <1>6 DEF ParametersRead, recordVars
  <2>2. RecordEnd' = RecordEnd
    BY <1>1, <2>1 DEF RecordEnd, Taken
  <2>3. Cursor'
    BY <1>1, <1>2, <1>3, <2>1, <2>2, CursorSet DEF Cursor, AtHeader
  <2>4. AtEndOf(type)'
    BY <1>1, <1>4, <2>1, <2>2 DEF AtEndOf
  <2>5. Undisturbed' /\ Ends' /\ GetAreaOwn'
    BY <1>1, <1>3, <1>4, <2>1, <2>4
       DEF Undisturbed, Ends, GetAreaOwn, IsOwnContent, IsContent
  <2> QED BY <1>5, <2>3, <2>5 DEF ReaderPart, ReaderInv
<1>7. CASE Role # "authorizer"
  <2>1. /\ ios' = "good" /\ type' = "in" /\ eos' = FALSE /\ discard' = FALSE
        /\ unreadContent' = 0 /\ unreadPadding' = 0
    BY <1>7 DEF ParametersRead, ResetReader
  <2>2. RecordEnd' = RecordEnd
    BY <1>1, <1>2, <1>4, <2>1 DEF RecordEnd, Taken, AtEndOf
  <2>3. StreamAt(RecordEnd) = "in"
    BY <1>3, <1>4, <1>7 DEF AtEndOf, StreamAt, NextStream
  <2>4. AtHeader'
    BY <1>1 DEF AtHeader
  <2>5. Cursor'
    BY <1>1, <1>2, <2>1, <2>2, <2>3, <2>4, CursorSet
  <2>6. Undisturbed'
    BY <1>1, <2>1 DEF Undisturbed
  <2>7. Ends'
    BY <2>1 DEF Ends
  <2>8. GetAreaOwn'
    <3>1. gptr' = egptr /\ egptr' = egptr
      BY <1>1, <1>4 DEF AtEndOf
    <3>2. \A p \in gptr' + 1 .. egptr' : FALSE
      BY <1>2, <3>1
    <3> QED BY <3>2 DEF GetAreaOwn
  <2> QED BY <1>5, <2>5, <2>6, <2>7, <2>8 DEF ReaderPart, ReaderInv
<1> QED BY <1>6, <1>7

LEMMA ConstructorThrowsInv ==
  ASSUME Inv, ConstructorThrows
  PROVE  ReaderPart'
<1> USE DEF Inv, ConformingInv
<1>1. /\ ios = "bad" /\ pc = "caller"
      /\ UNCHANGED <<wire, phase, conn, type, eos, discard, gptr, egptr, fetched,
                     pc, hdrPos, hdrLen, header, frames, ios, delivered, answers>>
      /\ stage' = "failed"
  BY DEF ConstructorThrows, clientVars, headerVars
<1>2. (DeliveredBehind /\ DeliveredExactly)'
  BY <1>1, DeliveredKept
<1> QED BY <1>1, <1>2 DEF ReaderPart, ReaderInv, Undisturbed

LEMMA ClearInv ==
  ASSUME Inv, ConformingClient, Clear
  PROVE  ReaderPart'
<1> USE DEF Inv, ConformingInv
<1>1. /\ pc = "caller" /\ stage = "serving" /\ ios = "eof" /\ ios' = "good"
      /\ UNCHANGED <<wire, phase, conn, type, eos, discard, gptr, egptr, fetched,
                     unreadContent, unreadPadding, pc, hdrPos, hdrLen, header, frames, stage,
                     delivered, answers>>
  BY DEF Clear, ConformingClient, clientVars, recordVars, headerVars
<1>2. RecordEnd \in Nat /\ IsBoundary(RecordEnd)
  BY <1>1, Positions
<1>3. Cursor /\ Ends /\ GetAreaOwn
  BY <1>1 DEF ReaderInv
<1>4. RecordEnd' = RecordEnd
  BY <1>1 DEF RecordEnd, Taken
<1>5. Cursor'
  BY <1>1, <1>2, <1>3, <1>4, CursorSet DEF Cursor, AtHeader
<1>6. eos => AtEndOf(type)'
  BY <1>1, <1>3, <1>4 DEF AtEndOf, Ends
<1>7. Undisturbed' /\ Ends' /\ GetAreaOwn'
  BY <1>1, <1>3, <1>6 DEF Undisturbed, Ends, GetAreaOwn, IsOwnContent, IsContent
<1>8. (DeliveredBehind /\ DeliveredExactly)'
  BY <1>1, DeliveredKept
<1> QED BY <1>5, <1>7, <1>8 DEF ReaderPart, ReaderInv

LEMMA ReadInv ==
  ASSUME Inv, Read
  PROVE  ReaderPart'
<1> USE DEF Inv, ConformingInv
<1>1. /\ pc = "read" /\ gptr' = fetched /\ pc' = "body"
      /\ UNCHANGED <<wire, phase, conn, type, eos, discard, unreadContent, unreadPadding,
                     hdrPos, hdrLen, header, frames, stage, ios, delivered, answers>>
  BY DEF Read, clientVars, recordVars, headerVars, ownerVars
<1>2. ios = "good" /\ gptr' = gptr
  BY <1>1 DEF Undisturbed
<1>3. RecordEnd \in Nat /\ IsBoundary(RecordEnd) /\ Cursor /\ Ends
  BY <1>1, <1>2, Positions DEF ReaderInv
<1>4. RecordEnd' = RecordEnd
  BY <1>1, <1>2 DEF RecordEnd, Taken
<1>5. Cursor'
  BY <1>1, <1>2, <1>3, <1>4, CursorSet DEF Cursor, AtHeader
<1>6. Undisturbed' /\ Ends' /\ GetAreaOwn'
  BY <1>1, <1>2, <1>3 DEF Undisturbed, Ends, AtEndOf, GetAreaOwn
<1>7. (DeliveredBehind /\ DeliveredExactly)'
  BY <1>1, <1>2, DeliveredKept
<1> QED BY <1>5, <1>6, <1>7 DEF ReaderPart, ReaderInv

LEMMA ReadFailsInv ==
  ASSUME Inv, ConformingClient, ReadFails
  PROVE  ReaderPart'
<1> USE DEF Inv, ConformingInv
<1>1. /\ pc' = "caller" /\ ios' = "bad" /\ conn' = "broken"
      /\ UNCHANGED <<wire, discard, gptr, frames, stage, type, delivered, answers>>
  BY DEF ReadFails, ConformingClient, Returns, Nested, Undisturbed
<1>2. (DeliveredBehind /\ DeliveredExactly)'
  BY <1>1, DeliveredKept
<1> QED BY <1>1, <1>2 DEF ReaderPart, ReaderInv, Undisturbed

LEMMA ContentInv ==
  ASSUME Inv, ConformingClient, Content
  PROVE  ReaderPart'
<1> USE DEF Inv, ConformingInv
<1> DEFINE count == Least(unreadContent, fetched - gptr)
           e == RecordEnd
<1>1. /\ pc = "body" /\ unreadContent > 0
      /\ unreadContent' = unreadContent - count
      /\ egptr' = gptr + count
      /\ pc' = Asserted(unreadContent - count, "caller")
      /\ UNCHANGED <<wire, phase, conn, type, eos, discard, gptr, fetched, unreadPadding,
                     hdrPos, hdrLen, header, frames, stage, ios, delivered, answers>>
  BY DEF Content, clientVars, recordVars, headerVars, ownerVars
<1>2. ios = "good"
  BY <1>1 DEF Undisturbed
<1>3. /\ gptr \in Nat /\ fetched \in Nat /\ gptr <= fetched
      /\ unreadContent \in Nat /\ unreadPadding \in Nat
      /\ unreadContent <= BufferSize /\ BufferSize \in Nat
      /\ e \in 0..Len(wire) /\ IsBoundary(e) /\ Cursor /\ Ends /\ ~eos
      /\ e = gptr + unreadContent + unreadPadding
  BY <1>1, <1>2, Positions, SizeAssumption
     DEF ReaderInv, Ends, AtEndOf, RecordEnd, Taken, ConformingClient, TypeInv, TypeOK
<1>4. /\ e \in 1..Len(wire) /\ StreamAt(e) = type
      /\ unreadContent <= wire[e].rec.clen /\ unreadPadding = wire[e].rec.plen
  BY <1>1, <1>3 DEF Cursor
<1>5. /\ wire[e].rec.clen \in Nat /\ wire[e].rec.plen \in Nat /\ HeaderSize \in Nat
      /\ Size(wire[e].rec) = HeaderSize + wire[e].rec.clen + wire[e].rec.plen
  BY <1>4, TokenType, SizeAssumption DEF TypeInv
<1>6. wire[e].rec.kind = type
  <2> DEFINE clen == wire[e].rec.clen
  <2>1. clen \in Nat /\ unreadContent \in Nat /\ unreadContent > 0 /\ unreadContent <= clen
    BY <1>1, <1>3, <1>4, <1>5
  <2> HIDE DEF clen
  <2>2. clen # 0
    BY <2>1
  <2>3. e # 0
    BY <1>4
  <2> QED BY <1>4, <2>2, <2>3 DEF StreamAt, clen
<1>7. count \in Nat /\ count <= unreadContent /\ count <= fetched - gptr
  BY <1>3 DEF Least
<1> HIDE DEF e, count
<1>8. pc' = "caller"
  BY <1>1, <1>3, <1>7 DEF Asserted
<1>9. ASSUME NEW p \in gptr + 1 .. gptr + count
      PROVE  IsOwnContent(p, type)
  <2> DEFINE n == Size(wire[e].rec)
             clen == wire[e].rec.clen
             plen == wire[e].rec.plen
  <2>0. /\ clen \in Nat /\ plen \in Nat /\ HeaderSize \in Nat
        /\ n = HeaderSize + clen + plen
        /\ unreadContent <= clen /\ unreadPadding = plen
    BY <1>4, <1>5
  <2> HIDE DEF n, clen, plen
  <2>1. p \in Int /\ e - n < p /\ p <= e
        /\ HeaderSize < n - (e - p) /\ n - (e - p) <= HeaderSize + clen
    BY <1>3, <1>7, <2>0
  <2>2. wire[p] = [rec |-> wire[e].rec, off |-> n - (e - p)]
    BY <1>3, <1>4, <2>1, RecordBefore DEF TypeInv, n
  <2> QED BY <1>6, <2>1, <2>2 DEF IsOwnContent, IsContent, clen
<1>10. RecordEnd' = e
  BY <1>1, <1>3, <1>7, <1>8 DEF RecordEnd, Taken
<1>11. Cursor'
  <2>1. unreadContent' <= wire[e].rec.clen /\ unreadPadding' = wire[e].rec.plen
    <3> DEFINE clen == wire[e].rec.clen
    <3>1. /\ clen \in Nat /\ unreadContent \in Nat /\ unreadContent <= clen
          /\ unreadContent' = unreadContent - count
      BY <1>1, <1>3, <1>4, <1>5
    <3> HIDE DEF clen
    <3>2. unreadContent' <= clen
      BY <1>7, <3>1
    <3>3. unreadPadding' = wire[e].rec.plen
      BY <1>1, <1>4
    <3> QED BY <3>2, <3>3 DEF clen
  <2>2. AtHeader' /\ e \in Nat /\ pc' # "process" /\ wire' = wire
    BY <1>1, <1>3, <1>8 DEF AtHeader
  <2>3. unreadPadding' <= wire[e].rec.plen /\ StreamAt(e) = type'
    BY <1>1, <1>4, <1>5, <2>1
  <2> QED BY <1>3, <1>10, <2>1, <2>2, <2>3, CursorSet
<1>12. Undisturbed' /\ Ends'
  <2>1. gptr <= egptr'
    BY <1>1, <1>3, <1>7
  <2> QED BY <1>1, <1>2, <1>3, <1>8, <2>1 DEF Undisturbed, Ends
<1>13. GetAreaOwn'
  BY <1>1, <1>9 DEF GetAreaOwn, IsOwnContent, IsContent
<1>14. (DeliveredBehind /\ DeliveredExactly)'
  BY <1>1, DeliveredKept
<1> QED BY <1>11, <1>12, <1>13, <1>14 DEF ReaderPart, ReaderInv

LEMMA PaddingInv ==
  ASSUME Inv, Padding
  PROVE  ReaderPart'
<1> USE DEF Inv, ConformingInv
<1> DEFINE count == Least(unreadPadding, fetched - gptr)
           e == RecordEnd
<1>1. /\ pc = "body" /\ unreadContent = 0 /\ unreadPadding > 0
      /\ unreadPadding' = unreadPadding - count
      /\ gptr' = gptr + count
      /\ pc' = IF count < unreadPadding THEN "read" ELSE "body"
      /\ UNCHANGED <<wire, phase, conn, type, eos, discard, egptr, fetched, unreadContent,
                     hdrPos, hdrLen, header, frames, stage, ios, delivered, answers>>
  BY DEF Padding, clientVars, headerVars, ownerVars
<1>2. ios = "good"
  BY <1>1 DEF Undisturbed
<1>3. /\ gptr \in Nat /\ fetched \in Nat /\ gptr <= fetched
      /\ unreadPadding \in Nat /\ hdrLen \in Nat
      /\ e \in 0..Len(wire) /\ IsBoundary(e) /\ Cursor /\ Ends /\ ~eos
  BY <1>1, <1>2, Positions DEF ReaderInv, Ends, AtEndOf
<1>4. hdrLen = 0
  BY <1>1, <1>3 DEF Cursor, AtHeader
<1>5. e = gptr + unreadPadding
  BY <1>1, <1>3, <1>4 DEF RecordEnd, Taken
<1>6. e \in 1..Len(wire) /\ StreamAt(e) = type /\ unreadPadding <= wire[e].rec.plen
  BY <1>1, <1>3, <1>5 DEF Cursor
<1>7. count \in Nat /\ count <= unreadPadding /\ count <= fetched - gptr
      /\ (count = unreadPadding \/ count = fetched - gptr)
  BY <1>3 DEF Least
<1> HIDE DEF e, count
<1>8. ASSUME NEW p \in gptr + 1 .. gptr + count
      PROVE  ~IsContent(wire[p])
  <2> DEFINE n == Size(wire[e].rec)
             clen == wire[e].rec.clen
             plen == wire[e].rec.plen
  <2>0. /\ clen \in Nat /\ plen \in Nat /\ HeaderSize \in Nat
        /\ n = HeaderSize + clen + plen /\ unreadPadding <= plen
    BY <1>6, TokenType, SizeAssumption DEF TypeInv
  <2> HIDE DEF n, clen, plen
  <2>1. p \in Int /\ e - n < p /\ p <= e /\ ~(n - (e - p) <= HeaderSize + clen)
    BY <1>3, <1>5, <1>7, <2>0
  <2>2. wire[p] = [rec |-> wire[e].rec, off |-> n - (e - p)]
    BY <1>3, <1>6, <2>1, RecordBefore DEF TypeInv, n
  <2> QED BY <2>1, <2>2 DEF IsContent, clen
<1>9. (DeliveredBehind /\ DeliveredExactly)'
  <2>1. gptr' \in Nat /\ gptr <= gptr'
    BY <1>1, <1>3, <1>7
  <2> QED BY <1>1, <1>8, <2>1, PassedOver
<1>10. RecordEnd' = e
  BY <1>1, <1>3, <1>4, <1>5, <1>7 DEF RecordEnd, Taken
<1>11. Cursor'
  <2>1. /\ unreadPadding' <= wire[e].rec.plen /\ unreadContent' = 0
        /\ wire[e].rec.clen \in Nat
    BY <1>1, <1>3, <1>6, <1>7, TokenType DEF TypeInv
  <2>2. AtHeader' /\ e \in Nat /\ pc' # "process" /\ wire' = wire /\ StreamAt(e) = type'
    BY <1>1, <1>3, <1>4, <1>6, SizeAssumption DEF AtHeader
  <2> QED BY <1>3, <1>10, <2>1, <2>2, CursorSet
<1>12. pc' = "read" => gptr' = fetched'
  BY <1>1, <1>3, <1>7
<1>13. Undisturbed' /\ Ends' /\ GetAreaOwn'
  BY <1>1, <1>2, <1>3, <1>12 DEF Undisturbed, Ends, GetAreaOwn
<1> QED BY <1>9, <1>11, <1>13 DEF ReaderPart, ReaderInv

LEMMA HeaderReadInv ==
  ASSUME Inv, Header
  PROVE  ReaderPart' /\ HeaderRead'
<1> USE DEF Inv, ConformingInv
<1> DEFINE count == Least(HeaderSize - hdrLen, fetched - gptr)
           e == RecordEnd
<1>1. /\ pc = "body" /\ unreadContent = 0 /\ unreadPadding = 0
      /\ hdrPos' = (IF hdrLen = 0 THEN gptr ELSE hdrPos)
      /\ hdrLen' = hdrLen + count
      /\ gptr' = gptr + count
      /\ pc' = IF hdrLen + count < HeaderSize THEN "read" ELSE "process"
      /\ UNCHANGED <<wire, phase, conn, type, eos, discard, egptr, fetched, unreadContent,
                     unreadPadding, frames, stage, ios, delivered, answers>>
  BY DEF Header, clientVars, recordVars, ownerVars
<1>2. ios = "good"
  BY <1>1 DEF Undisturbed
<1>3. /\ gptr \in Nat /\ fetched \in Nat /\ gptr <= fetched /\ fetched <= Len(wire)
      /\ hdrLen \in Nat /\ hdrLen <= HeaderSize /\ HeaderSize \in Nat \ {0}
      /\ Len(wire) \in Nat
      /\ e \in 0..Len(wire) /\ IsBoundary(e) /\ Cursor /\ Ends /\ ~eos
  BY <1>1, <1>2, Positions DEF ReaderInv, Ends, AtEndOf
<1>4. e = gptr - hdrLen /\ hdrLen < HeaderSize /\ StreamAt(e) = type
  BY <1>1, <1>3 DEF RecordEnd, Taken, Cursor, AtHeader
<1>5. hdrLen > 0 => hdrPos = e
  BY <1>1, <1>3, <1>4 DEF Cursor, AtHeader
<1>6. count \in Nat /\ count <= HeaderSize - hdrLen /\ count <= fetched - gptr
      /\ (count = HeaderSize - hdrLen \/ count = fetched - gptr)
  BY <1>3 DEF Least
<1> HIDE DEF e, count
<1>7. hdrPos' = e /\ gptr' - hdrLen' = e
  <2>1. e \in Nat /\ gptr = e + hdrLen
    BY <1>3, <1>4
  <2>2. (gptr + count) - (hdrLen + count) = e
    BY <1>3, <1>6, <2>1
  <2>3. hdrPos' = e
    BY <1>1, <1>3, <1>5, <2>1
  <2> QED BY <1>1, <2>2, <2>3
<1>8. ASSUME NEW p \in gptr + 1 .. gptr + count
      PROVE  ~IsContent(wire[p])
  <2> DEFINE n == Size(wire[e + 1].rec)
             i == p - e
  <2>1. e \in 0 .. Len(wire) - 1 /\ e + 1 \in 1..Len(wire)
    BY <1>3, <1>4, <1>6
  <2>2. HeaderSize <= n /\ n \in Nat
    <3> DEFINE q == e + 1
    <3>1. q \in 1..Len(wire)
      BY <2>1
    <3> HIDE DEF q
    <3>2. HeaderSize <= Size(wire[q].rec) /\ Size(wire[q].rec) \in Nat
      BY <3>1, TokenType DEF TypeInv
    <3> QED BY <3>2 DEF q
  <2> HIDE DEF n
  <2>3. i \in 1..n /\ e + i = p /\ ~(HeaderSize < i)
    BY <1>3, <1>4, <1>6, <2>2
  <2>4. \A j \in 1..n : wire[e + j] = [rec |-> wire[e + 1].rec, off |-> j]
    BY <1>3, <2>1, RecordAt DEF TypeInv, n
  <2> HIDE DEF i
  <2>5. wire[p].off = i
    <3>1. wire[e + i] = [rec |-> wire[e + 1].rec, off |-> i]
      BY <2>3, <2>4
    <3> QED BY <2>3, <3>1
  <2> QED BY <2>3, <2>5 DEF IsContent
<1>9. (DeliveredBehind /\ DeliveredExactly)'
  <2>1. gptr' \in Nat /\ gptr <= gptr'
    BY <1>1, <1>3, <1>6
  <2> QED BY <1>1, <1>8, <2>1, PassedOver
<1>10. RecordEnd' = e
  BY <1>1, <1>3, <1>7 DEF RecordEnd, Taken
<1>11. AtHeader'
  BY <1>1, <1>3, <1>6, <1>7 DEF AtHeader
<1>12. Cursor'
  <2>1. e \in Nat /\ wire' = wire /\ unreadContent' = 0 /\ unreadPadding' = 0
        /\ StreamAt(e) = type'
    BY <1>1, <1>3, <1>4
  <2> QED BY <1>3, <1>10, <1>11, <2>1, CursorSet
<1>13. pc' = "read" => gptr' = fetched'
  BY <1>1, <1>3, <1>6
<1>14. Undisturbed' /\ Ends' /\ GetAreaOwn'
  BY <1>1, <1>2, <1>3, <1>13 DEF Undisturbed, Ends, GetAreaOwn
<1>15. HeaderRead'
  <2> SUFFICES ASSUME pc' = "process" PROVE header' = wire[hdrPos' + 1].rec
    BY <1>1 DEF HeaderRead
  <2>1. count # 0 /\ hdrLen + count = HeaderSize
    BY <1>1, <1>3, <1>4, <1>6
  <2>2. header' \in Readings(e + 1)
    BY <1>1, <1>7, <2>1 DEF Header, count
  <2>3. e \in 0 .. Len(wire) - 1
    BY <1>3, <1>4, <1>6, <2>1
  <2>4. wire[e + 1].off = 1
    BY <1>3, <2>3, RecordAt DEF TypeInv
  <2> QED BY <1>7, <2>2, <2>4 DEF Readings
<1> QED BY <1>9, <1>12, <1>14, <1>15 DEF ReaderPart, ReaderInv

\* A complete header is that of the next record, which is one of the current stream.
LEMMA HeaderIsNext ==
  ASSUME Inv, pc = "process"
  PROVE  LET r == header
             e == hdrPos + Size(r)
         IN /\ Valid /\ r = wire[hdrPos + 1].rec /\ r \in Record /\ r.kind = type
            /\ hdrPos \in Nat /\ hdrPos + HeaderSize = gptr
            /\ e \in 1..Len(wire) /\ IsBoundary(e) /\ wire[e].rec = r
            /\ r.clen = 0 => r.plen = 0
            /\ ~eos /\ ios = "good"
<1> USE DEF Inv, ConformingInv
<1>1. ios = "good"
  BY DEF Undisturbed
<1>2. /\ Cursor /\ ~eos /\ unreadContent = 0 /\ unreadPadding = 0 /\ hdrLen = HeaderSize
      /\ gptr \in Nat /\ HeaderSize \in Nat \ {0} /\ Len(wire) \in Nat
      /\ gptr <= Len(wire) /\ RecordEnd \in 0..Len(wire)
  BY <1>1, Positions DEF ReaderInv, Ends, AtEndOf, Cursor, TypeInv, HeaderInv
<1>3. hdrPos = gptr - HeaderSize /\ RecordEnd = hdrPos
  BY <1>2 DEF Cursor, AtHeader, RecordEnd, Taken
<1>4. hdrPos \in 0 .. Len(wire) - 1 /\ hdrPos + 1 \in 1..Len(wire) /\ IsBoundary(hdrPos)
      /\ StreamAt(hdrPos) = type /\ hdrPos # Len(wire) /\ hdrPos \in 0..Len(wire)
  BY <1>2, <1>3 DEF Cursor
<1> DEFINE r == wire[hdrPos + 1].rec
           n == Size(r)
<1>5. /\ wire[hdrPos + 1].off = 1 /\ hdrPos + n <= Len(wire) /\ IsBoundary(hdrPos + n)
      /\ \A i \in 1..n : wire[hdrPos + i] = [rec |-> r, off |-> i]
  BY <1>4, RecordAt DEF TypeInv
<1>6. r \in Record /\ n \in Nat \ {0}
  BY <1>4, TokenType DEF TypeInv
<1>7. r.kind = type /\ (r.clen = 0 => r.plen = 0)
  BY <1>4 DEF Ordered
<1> HIDE DEF r, n
<1>8. hdrPos + n \in 1..Len(wire) /\ wire[hdrPos + n].rec = r
  <2>1. n \in 1..n /\ hdrPos + n \in 1..Len(wire)
    BY <1>2, <1>4, <1>5, <1>6
  <2>2. wire[hdrPos + n] = [rec |-> r, off |-> n]
    BY <1>5, <2>1
  <2> QED BY <2>1, <2>2
<1>9. header = r /\ Valid
  <2>1. header = r
    BY DEF HeaderRead, r
  <2> QED BY <1>6, <2>1 DEF Valid, Invalid, Record, Streams, ForeignKinds
<1> QED BY <1>1, <1>2, <1>3, <1>4, <1>5, <1>6, <1>7, <1>8, <1>9 DEF r, n

LEMMA ProcessContentInv ==
  ASSUME Inv, ConformingClient, ProcessContent
  PROVE  ReaderPart'
<1> USE DEF Inv, ConformingInv
<1> DEFINE r == header
           e == hdrPos + Size(r)
<1>1. /\ pc = "process" /\ r.clen > 0
      /\ egptr' = gptr /\ unreadContent' = r.clen /\ unreadPadding' = r.plen
      /\ pc' = Asserted(r.clen, Loop(gptr))
      /\ UNCHANGED <<wire, phase, conn, type, eos, discard, gptr, fetched,
                     hdrPos, hdrLen, header, frames, stage, ios, delivered, answers>>
  BY DEF ProcessContent, Enters, clientVars, headerVars, ownerVars
<1>2. /\ r \in Record /\ r.kind = type /\ hdrPos \in Nat /\ hdrPos + HeaderSize = gptr
      /\ e \in 1..Len(wire) /\ IsBoundary(e) /\ wire[e].rec = r
      /\ ~eos /\ ios = "good"
  BY <1>1, HeaderIsNext
<1>3. /\ r.clen \in Nat /\ r.plen \in Nat /\ r.clen <= BufferSize /\ BufferSize \in Nat
      /\ HeaderSize \in Nat /\ gptr \in Nat /\ e = gptr + r.clen + r.plen
  BY <1>2, SizeAssumption DEF Record, Size, ConformingClient
<1>4. pc' = IF gptr = fetched THEN "read" ELSE "body"
  BY <1>1, <1>3 DEF Asserted, Loop
<1>5. StreamAt(e) = type
  BY <1>1, <1>2 DEF StreamAt
<1> HIDE DEF r, e
<1>6. RecordEnd' = e
  BY <1>1, <1>3, <1>4 DEF RecordEnd, Taken
<1>7. AtHeader'
  BY <1>1 DEF AtHeader
<1>8. Cursor'
  <2>1. /\ e \in Nat /\ wire' = wire /\ pc' # "process" /\ StreamAt(e) = type'
        /\ unreadContent' <= wire[e].rec.clen /\ unreadPadding' <= wire[e].rec.plen
        /\ unreadPadding' = wire[e].rec.plen
    BY <1>1, <1>2, <1>3, <1>4, <1>5
  <2> QED BY <1>2, <1>6, <1>7, <2>1, CursorSet
<1>9. Undisturbed' /\ Ends' /\ GetAreaOwn'
  BY <1>1, <1>2, <1>4 DEF Undisturbed, Ends, GetAreaOwn
<1>10. (DeliveredBehind /\ DeliveredExactly)'
  BY <1>1, DeliveredKept
<1> QED BY <1>8, <1>9, <1>10 DEF ReaderPart, ReaderInv

LEMMA ProcessEndInv ==
  ASSUME Inv, ProcessEnd
  PROVE  ReaderPart'
<1> USE DEF Inv, ConformingInv
<1> DEFINE r == header
<1>1. /\ pc = "process" /\ r.clen = 0 /\ egptr' = gptr
      /\ UNCHANGED <<wire, phase, conn, gptr, fetched, hdrPos, hdrLen, frames, stage,
                     delivered, answers>>
  BY DEF ProcessEnd, clientVars, headerVars
<1>2. /\ r \in Record /\ r.kind = type /\ hdrPos \in Nat /\ hdrPos + HeaderSize = gptr
      /\ hdrPos + Size(r) \in 1..Len(wire) /\ IsBoundary(hdrPos + Size(r))
      /\ wire[hdrPos + Size(r)].rec = r
      /\ r.plen = 0 /\ ~eos /\ ios = "good"
  BY <1>1, HeaderIsNext
<1>3. hdrPos + Size(r) = gptr
  BY <1>1, <1>2, SizeAssumption DEF Size
<1>4. gptr \in 1..Len(wire) /\ IsBoundary(gptr) /\ wire[gptr].rec = r /\ gptr \in Nat
  BY <1>2, <1>3
<1>5. pc' = "caller" /\ ios' = "eof" /\ unreadContent' = 0 /\ unreadPadding' = 0
      /\ discard' = FALSE
  BY <1>1, <1>2 DEF ProcessEnd, Returns, Nested, Undisturbed, ResetReader
<1>6. RecordEnd' = gptr
  BY <1>1, <1>4, <1>5 DEF RecordEnd, Taken
<1>7. AtHeader'
  BY <1>5 DEF AtHeader
<1>8. \A p \in gptr' + 1 .. egptr' : FALSE
  BY <1>1, <1>4
<1>9. (DeliveredBehind /\ DeliveredExactly)'
  BY <1>1, DeliveredKept
<1>10. CASE Role = "filter" /\ type = "in"
  <2>1. type' = "data" /\ eos' = FALSE
    BY <1>10 DEF ProcessEnd, ResetReader
  <2>2. StreamAt(gptr) = "data"
    BY <1>1, <1>2, <1>4, <1>10 DEF StreamAt, NextStream
  <2>3. Cursor'
    BY <1>1, <1>4, <1>5, <1>6, <1>7, <2>1, <2>2, CursorSet
  <2>4. AtEndOf("in")'
    BY <1>1, <1>2, <1>4, <1>5, <1>6, <1>10 DEF AtEndOf
  <2>5. stage # "params"
    BY <1>10 DEF Undisturbed
  <2>6. Undisturbed' /\ Ends' /\ GetAreaOwn'
    BY <1>1, <1>2, <1>4, <1>5, <1>8, <2>1, <2>4, <2>5 DEF Undisturbed, Ends, GetAreaOwn
  <2> QED BY <1>9, <2>3, <2>6 DEF ReaderPart, ReaderInv
<1>11. CASE ~(Role = "filter" /\ type = "in")
  <2>1. type' = type /\ eos' = TRUE
    BY <1>11 DEF ProcessEnd
  <2>2. Cursor'
    BY <1>1, <1>4, <1>5, <1>6, <1>7, <2>1, CursorSet
  <2>3. AtEndOf(type)'
    BY <1>1, <1>2, <1>4, <1>5, <1>6, <2>1 DEF AtEndOf
  <2>4. Undisturbed' /\ Ends' /\ GetAreaOwn'
    BY <1>1, <1>2, <1>4, <1>5, <1>8, <2>1, <2>3 DEF Undisturbed, Ends, GetAreaOwn
  <2> QED BY <1>9, <2>2, <2>4 DEF ReaderPart, ReaderInv
<1> QED BY <1>10, <1>11

-----------------------------------------------------------------------------
(* The invariant, and what follows from it.                                *)

\* No step but these is taken, and the client's leave the reader alone.
LEMMA ReaderStepInv ==
  ASSUME Inv, ConformingClient, Reader \/ Application
  PROVE  ReaderPart' /\ wire' = wire /\ phase' = phase
<1>1. pc \in {"caller", "read", "body", "process"} /\ ~discard /\ frames = <<>>
      /\ ~Nested /\ (ios = "good" \/ pc = "caller")
  BY DEF Inv, ConformingInv, Undisturbed, Nested
<1>2. pc = "process" => Valid /\ header.kind = type /\ type \in Streams
  BY HeaderIsNext DEF Inv, TypeInv, TypeOK
<1>3. CASE Read \/ ReadFails \/ Content \/ Padding \/ Header
  <2>1. ReaderPart'
    BY <1>3, ReadInv, ReadFailsInv, ContentInv, PaddingInv, HeaderReadInv
  <2> QED BY <1>3, <2>1 DEF Read, ReadFails, Content, Padding, Header, clientVars
<1>4. CASE ProcessContent \/ ProcessEnd
  <2>1. ReaderPart'
    BY <1>4, ProcessContentInv, ProcessEndInv
  <2> QED BY <1>4, <2>1 DEF ProcessContent, ProcessEnd, clientVars
<1>5. CASE Consume \/ Underflow \/ ParametersRead \/ ConstructorThrows \/ Clear
  <2>1. ReaderPart'
    BY <1>5, ConsumeInv, UnderflowInv, ParametersReadInv, ConstructorThrowsInv, ClearInv
  <2> QED BY <1>5, <2>1 DEF Consume, Underflow, ParametersRead, ConstructorThrows, Clear,
                            clientVars
<1>6. /\ ~Discard /\ ~NestedConsume /\ ~ValuesTruncated
      /\ ~ValuesUnread /\ ~ValuesAnswered /\ ~ValuesOverflow
  BY <1>1 DEF Discard, NestedConsume, ValuesTruncated, ValuesUnread, ValuesAnswered,
              ValuesOverflow
<1>7. ~ProcessInvalid /\ ~ProcessDiscarded /\ ~ProcessUnknown /\ ~ProcessGetValues
      /\ ~ProcessUnexpected /\ ~AnswerFails
  BY <1>1, <1>2 DEF ProcessInvalid, ProcessDiscarded, ProcessUnknown, ProcessGetValues,
                    ProcessUnexpected, AnswerFails, Streams, ForeignKinds
<1> QED BY <1>3, <1>4, <1>5, <1>6, <1>7 DEF Reader, Application

\* Writing leaves the reader where it is.
LEMMA WriteKeepsReader ==
  ASSUME Inv, NEW r \in Record, Write(r)
  PROVE  ReaderPart'
<1> USE DEF Inv, ConformingInv
<1>1. /\ UNCHANGED <<conn, type, eos, discard, gptr, egptr, fetched, unreadContent,
                     unreadPadding, pc, hdrPos, hdrLen, header, frames, stage, ios, delivered,
                     answers>>
  BY DEF Write, readerVars, recordVars, headerVars, ownerVars
<1>2. /\ Len(wire) \in Nat /\ gptr \in Nat /\ egptr \in Nat
      /\ gptr <= Len(wire) /\ egptr <= Len(wire)
      /\ \A p \in 1..Len(wire) : wire'[p] = wire[p]
  <2>1. TypeOK
    BY DEF TypeInv
  <2>2. \A p \in 1..Len(wire) : wire'[p] = wire[p]
    BY <2>1, Written
  <2>3. /\ Len(wire) \in Nat /\ gptr \in Nat /\ egptr \in Nat
        /\ gptr <= Len(wire) /\ egptr <= Len(wire)
    BY <2>1 DEF TypeOK
  <2> QED BY <2>2, <2>3
<1>3. Undisturbed' /\ DeliveredBehind'
  BY <1>1 DEF Undisturbed, DeliveredBehind
<1>4. DeliveredExactly'
  <2> SUFFICES ASSUME NEW p \in 1..gptr, NEW t \in Streams
               PROVE  <<p, t>> \in delivered <=> IsOwnContent(p, t)'
    BY <1>1 DEF DeliveredExactly
  <2>1. p \in 1..Len(wire)
    BY <1>2
  <2> QED BY <1>2, <2>1 DEF DeliveredExactly, IsOwnContent, IsContent
<1>5. ASSUME ios # "bad"
      PROVE  Cursor' /\ Ends' /\ GetAreaOwn'
  <2>1. /\ Cursor /\ Ends /\ GetAreaOwn
        /\ RecordEnd \in 0..Len(wire) /\ IsBoundary(RecordEnd)
        /\ unreadContent \in Nat /\ unreadPadding \in Nat
    BY <1>5, Positions DEF ReaderInv
  <2>2. RecordEnd' = RecordEnd
    BY <1>1 DEF RecordEnd, Taken
  <2>3. /\ IsBoundary(RecordEnd)' /\ StreamAt(RecordEnd)' = StreamAt(RecordEnd)
        /\ RecordEnd # 0 => wire'[RecordEnd] = wire[RecordEnd]
    <3> DEFINE e == RecordEnd
    <3>1. e \in 0..Len(wire) /\ IsBoundary(e) /\ e' = e
      BY <2>1, <2>2
    <3> HIDE DEF e
    <3>2. /\ (e' = 0 \/ (e' \in 1..Len(wire') /\ wire'[e'].off = Size(wire'[e'].rec)))
          /\ (IF e' = 0 THEN "params"
              ELSE IF wire'[e'].rec.clen = 0 THEN NextStream(wire'[e'].rec.kind)
                   ELSE wire'[e'].rec.kind) = StreamAt(e)
          /\ e # 0 => wire'[e] = wire[e]
      <4>1. Len(wire) <= Len(wire') /\ Len(wire') \in Nat
        BY Written DEF TypeInv
      <4>2. e # 0 => e \in 1..Len(wire) /\ e \in 1..Len(wire') /\ wire'[e] = wire[e]
        BY <1>2, <3>1, <4>1
      <4> QED BY <3>1, <4>2 DEF IsBoundary, StreamAt
    <3> QED BY <3>2 DEF e, IsBoundary, StreamAt
  <2>4. unreadContent + unreadPadding > 0 => RecordEnd # 0
    <3>1. unreadContent + unreadPadding > 0 => wire[RecordEnd].rec \in Record \/ RecordEnd = 0
      BY <2>1, TokenType DEF IsBoundary, TypeInv
    <3>2. Taken \in Nat
      <4>1. hdrLen \in Nat /\ hdrLen <= gptr
        BY SizeAssumption DEF TypeInv, TypeOK, HeaderInv
      <4> QED BY <1>2, <4>1 DEF Taken
    <3> QED BY <2>1, <3>2 DEF RecordEnd
  <2>5. Cursor'
    BY <1>1, <2>1, <2>2, <2>3, <2>4 DEF Cursor, AtHeader
  <2>6. Ends'
    BY <1>1, <2>1, <2>2, <2>3 DEF Ends, AtEndOf
  <2>7. GetAreaOwn'
    <3> SUFFICES ASSUME pc = "caller", NEW p \in gptr + 1 .. egptr
                 PROVE  IsOwnContent(p, type)'
      BY <1>1 DEF GetAreaOwn
    <3>1. p \in 1..Len(wire)
      BY <1>2
    <3> QED BY <1>1, <1>2, <2>1, <3>1 DEF GetAreaOwn, IsOwnContent, IsContent
  <2> QED BY <2>5, <2>6, <2>7
<1> QED BY <1>1, <1>3, <1>4, <1>5 DEF ReaderPart, ReaderInv

LEMMA ClientStepInv ==
  ASSUME Inv, TypeOK', ConformingClient, Client
  PROVE  ReaderPart' /\ Layout' /\ Ordered' /\ EndIsLast'
<1> USE DEF Inv, ConformingInv
<1>1. ASSUME NEW n \in 1..MaxContent, NEW m \in 0..MaxPadding,
             phase # "done", Write([kind |-> phase, clen |-> n, plen |-> m]), phase' = phase
      PROVE  ReaderPart' /\ Layout' /\ Ordered' /\ EndIsLast'
  <2> DEFINE r == [kind |-> phase, clen |-> n, plen |-> m]
  <2>1. phase \in Streams /\ r \in Record /\ r.kind = phase /\ r.clen # 0
    <3>1. phase \in Streams
      BY <1>1 DEF TypeInv, TypeOK
    <3>2. n \in 0..MaxContent /\ n # 0
      BY SizeAssumption
    <3> QED BY <3>1, <3>2 DEF Record
  <2> HIDE DEF r
  <2>2. Write(r)
    BY <1>1 DEF r
  <2> QED BY <1>1, <2>1, <2>2, WriteKeepsReader, LayoutGrows, OrderedGrows DEF TypeInv
<1>2. ASSUME NEW m \in EndPaddings, phase # "done",
             Write([kind |-> phase, clen |-> 0, plen |-> m]), phase' = NextStream(phase)
      PROVE  ReaderPart' /\ Layout' /\ Ordered' /\ EndIsLast'
  <2> DEFINE r == [kind |-> phase, clen |-> 0, plen |-> m]
  <2>1. phase \in Streams /\ r \in Record /\ r.kind = phase /\ r.clen = 0 /\ r.plen = 0
    BY <1>2, SizeAssumption DEF TypeInv, TypeOK, Record, ConformingClient
  <2> HIDE DEF r
  <2>2. Write(r)
    BY <1>2 DEF r
  <2> QED BY <1>2, <2>1, <2>2, WriteKeepsReader, LayoutGrows, OrderedGrows DEF TypeInv
<1>3. CASE ClientDisconnects
  <2>1. /\ conn = "open" /\ wire' = wire /\ phase' = phase
        /\ UNCHANGED <<type, eos, discard, gptr, egptr, fetched, unreadContent,
                       unreadPadding, pc, hdrPos, hdrLen, header, frames, stage, ios, delivered,
                       answers>>
    BY <1>3 DEF ClientDisconnects, readerVars, recordVars, headerVars, ownerVars
  <2>2. ios # "bad"
    BY <2>1 DEF Undisturbed
  <2>3. RecordEnd' = RecordEnd /\ RecordEnd \in Nat /\ IsBoundary(RecordEnd)
    BY <2>1, <2>2, Positions DEF RecordEnd, Taken
  <2>4. Cursor'
    BY <2>1, <2>2, <2>3, CursorSet DEF ReaderInv, Cursor, AtHeader
  <2>5. Undisturbed' /\ Ends' /\ GetAreaOwn'
    BY <2>1, <2>2, <2>3
       DEF Undisturbed, ReaderInv, Ends, AtEndOf, GetAreaOwn, IsOwnContent, IsContent
  <2> QED BY <2>1, <2>4, <2>5, WireKept, DeliveredKept DEF ReaderPart, ReaderInv
<1>4. ~ClientSendsForeign /\ ~ClientPadsBegin
  BY DEF ConformingClient, ClientSendsForeign, ClientPadsBegin
<1> QED BY <1>1, <1>2, <1>3, <1>4 DEF Client, ClientSends, ClientEndsStream

\* The other steps leave a complete header where it is, or leave it behind.
LEMMA HeaderStaysRead ==
  ASSUME ConformingClient, Inv, [Next]_vars, ~Header
  PROVE  HeaderRead'
<1>1. HeaderRead /\ TypeOK /\ (pc = "process" => hdrPos + 1 \in 1..Len(wire))
  BY SizeAssumption DEF Inv, ConformingInv, TypeInv, TypeOK, HeaderInv
<1>2. ASSUME NEW r \in Record, Write(r) PROVE HeaderRead'
  <2>1. UNCHANGED <<pc, hdrPos, header>>
    BY <1>2 DEF Write, readerVars, headerVars
  <2>2. pc = "process" => wire'[hdrPos + 1] = wire[hdrPos + 1]
    BY <1>1, <1>2, Written
  <2> QED BY <1>1, <2>1, <2>2 DEF HeaderRead
<1>3. CASE Client
  <2>1. CASE ClientSends
    <3>1. PICK n \in 1..MaxContent, m \in 0..MaxPadding :
            phase # "done" /\ Write([kind |-> phase, clen |-> n, plen |-> m])
      BY <2>1 DEF ClientSends
    <3>2. [kind |-> phase, clen |-> n, plen |-> m] \in Record
      BY <1>1, <3>1, SizeAssumption DEF Record, TypeOK
    <3> QED BY <1>2, <3>1, <3>2
  <2>2. CASE ClientEndsStream
    <3>1. PICK m \in EndPaddings : phase # "done" /\ Write([kind |-> phase, clen |-> 0, plen |-> m])
      BY <2>2 DEF ClientEndsStream
    <3>2. [kind |-> phase, clen |-> 0, plen |-> m] \in Record
      BY <1>1, <3>1, SizeAssumption DEF Record, TypeOK
    <3> QED BY <1>2, <3>1, <3>2
  <2>3. CASE ClientDisconnects
    BY <1>1, <2>3 DEF ClientDisconnects, readerVars, headerVars, HeaderRead
  <2>4. ~ClientSendsForeign /\ ~ClientPadsBegin
    BY DEF ConformingClient, ClientSendsForeign, ClientPadsBegin
  <2> QED BY <1>3, <2>1, <2>2, <2>3, <2>4 DEF Client
<1>4. CASE Reader \/ Application
  <2>1. pc' # "process"
    BY <1>4 DEF Reader, Application, Read, ReadFails, Content, Discard, Padding, ProcessInvalid,
       ProcessDiscarded, ProcessUnknown, ProcessGetValues, ProcessContent, ProcessEnd,
       ProcessUnexpected, NestedConsume, Underflow, ValuesTruncated, ValuesUnread, ValuesAnswered,
       ValuesOverflow, AnswerFails, Consume, ParametersRead, ConstructorThrows, Clear, Returns,
       Asserted, Loop, ThrowsFromFrame
  <2> QED BY <2>1 DEF HeaderRead
<1>5. CASE UNCHANGED vars
  BY <1>1, <1>5 DEF vars, clientVars, headerVars, HeaderRead
<1> QED BY <1>3, <1>4, <1>5 DEF Next

LEMMA InitInv ==
  ASSUME ConformingClient, Init
  PROVE  Inv
<1>1. TypeInv
  BY InitTypeInv
<1>2. /\ wire = <<>> /\ Len(wire) = 0 /\ phase = "params" /\ delivered = {}
      /\ gptr = 0 /\ egptr = 0 /\ fetched = 0 /\ unreadContent = 0 /\ unreadPadding = 0
      /\ pc = "caller" /\ ios = "good" /\ stage = "params" /\ type = "params"
      /\ eos = FALSE /\ discard = FALSE /\ frames = <<>> /\ answers = <<>>
  BY DEF Init
<1>3. Layout /\ Ordered /\ EndIsLast
  BY <1>2 DEF Layout, Ordered, EndIsLast, StreamAt
<1>4. RecordEnd = 0 /\ Cursor
  BY <1>2 DEF RecordEnd, Taken, Cursor, IsBoundary, StreamAt, AtHeader
<1>5. Undisturbed /\ Ends /\ GetAreaOwn /\ DeliveredBehind /\ DeliveredExactly
  BY <1>2 DEF Undisturbed, Ends, GetAreaOwn, DeliveredBehind, DeliveredExactly
<1>6. HeaderRead
  BY <1>2 DEF HeaderRead
<1> QED BY <1>1, <1>3, <1>4, <1>5, <1>6 DEF Inv, ConformingInv, ReaderInv

LEMMA StepInv ==
  ASSUME ConformingClient, Inv, [Next]_vars
  PROVE  Inv'
<1>1. TypeInv'
  BY StepTypeInv DEF Inv
<1>2. ReaderPart' /\ Layout' /\ Ordered' /\ EndIsLast'
  <2>1. CASE Client
    BY <1>1, <2>1, ClientStepInv DEF TypeInv
  <2>2. CASE Reader \/ Application
    BY <2>2, ReaderStepInv, WireKept DEF Inv, ConformingInv
  <2>3. CASE UNCHANGED vars
    <3>1. UNCHANGED <<wire, phase, conn, type, eos, discard, gptr, egptr, fetched,
                      unreadContent, unreadPadding, pc, hdrPos, hdrLen, header, frames, stage, ios,
                      delivered, answers>>
      BY <2>3 DEF vars, clientVars, recordVars, headerVars, ownerVars
    <3>2. Cursor' <=> Cursor
      BY <3>1 DEF Cursor, RecordEnd, Taken, IsBoundary, StreamAt, AtHeader
    <3>3. (Ends' <=> Ends) /\ (GetAreaOwn' <=> GetAreaOwn)
      BY <3>1 DEF Ends, AtEndOf, RecordEnd, Taken, GetAreaOwn, IsOwnContent, IsContent
    <3> QED BY <3>1, <3>2, <3>3, WireKept, DeliveredKept
            DEF Inv, ConformingInv, ReaderPart, ReaderInv, Undisturbed
  <2> QED BY <2>1, <2>2, <2>3 DEF Next
<1>3. HeaderRead'
  BY HeaderReadInv, HeaderStaysRead
<1> QED BY <1>1, <1>2, <1>3 DEF Inv, ConformingInv, ReaderPart

\* Whatever buffer and header size, however recv() cuts the records: the caller is
\* handed exactly the content of its request that lies before gptr(), each byte
\* under its stream (underflow(), 204-312).
THEOREM DeliveryIsExact ==
  ASSUME ConformingClient
  PROVE  Spec => []DeliveredExactly
<1>1. Inv => DeliveredExactly
  BY DEF Inv, ConformingInv
<1>2. Init => Inv
  BY InitInv
<1>3. Inv /\ [Next]_vars => Inv'
  BY StepInv
<1> QED BY <1>1, <1>2, <1>3, PTL DEF Spec

\* No record of a conforming client is refused, and as long as it is there no read
\* fails (process_header(), 501-637).
THEOREM NothingRefused ==
  ASSUME ConformingClient
  PROVE  Spec => []NeverRefused
<1>1. Inv => NeverRefused
  BY DEF Inv, ConformingInv, Undisturbed, NeverRefused
<1>2. Init => Inv
  BY InitInv
<1>3. Inv /\ [Next]_vars => Inv'
  BY StepInv
<1> QED BY <1>1, <1>2, <1>3, PTL DEF Spec

\* No assertion of the stream buffer fails for a conforming client (234, 634).
THEOREM NoAssertionFails ==
  ASSUME ConformingClient
  PROVE  Spec => []NeverTerminated
<1>1. Inv => NeverTerminated
  BY DEF Inv, ConformingInv, Undisturbed, NeverTerminated
<1>2. Init => Inv
  BY InitInv
<1>3. Inv /\ [Next]_vars => Inv'
  BY StepInv
<1> QED BY <1>1, <1>2, <1>3, PTL DEF Spec

\* eof is reported for a stream only behind its end record and behind every byte of
\* it, also to a Filter whose buffer has gone on to data (278-303).
THEOREM EofIsExact ==
  ASSUME ConformingClient
  PROVE  Spec => []EofExact
<1>1. ASSUME Inv
      PROVE  EofExact
  <2> USE DEF Inv, ConformingInv
  <2> SUFFICES ASSUME pc = "caller", ios = "eof"
               PROVE  /\ \E p \in 1..gptr : /\ wire[p].rec.kind = EndedStream
                                            /\ wire[p].rec.clen = 0
                      /\ \A p \in 1..Len(wire) : IsOwnContent(p, EndedStream) =>
                           <<p, EndedStream>> \in delivered
    BY DEF EofExact
  <2>1. AtEndOf(EndedStream) /\ EndedStream \in Streams
    BY <1>1 DEF ReaderInv, Ends, EndedStream, TypeInv, TypeOK, Streams
  <2>2. /\ RecordEnd = gptr /\ gptr > 0 /\ gptr \in Nat /\ gptr <= Len(wire)
        /\ Len(wire) \in Nat
        /\ wire[gptr].rec.kind = EndedStream /\ wire[gptr].rec.clen = 0
    BY <1>1, <2>1 DEF AtEndOf, RecordEnd, Taken, TypeInv, TypeOK
  <2>3. gptr \in 1..gptr /\ gptr \in 1..Len(wire)
    BY <2>2
  <2>4. ASSUME NEW p \in 1..Len(wire), IsOwnContent(p, EndedStream)
        PROVE  <<p, EndedStream>> \in delivered
    <3>1. p \notin gptr + 1 .. Len(wire)
      BY <1>1, <2>2, <2>3, <2>4 DEF EndIsLast
    <3>2. p \in 1..gptr
      BY <2>2, <3>1
    <3> QED BY <1>1, <2>1, <2>4, <3>2 DEF DeliveredExactly
  <2> QED BY <2>2, <2>3, <2>4
<1>2. Init => Inv
  BY InitInv
<1>3. Inv /\ [Next]_vars => Inv'
  BY StepInv
<1> QED BY <1>1, <1>2, <1>3, PTL DEF Spec

-----------------------------------------------------------------------------
(* The reader implements RequestInput: every step of the one is a step of  *)
(* the other or changes nothing of what RequestInput speaks of.            *)

\* The streams met are those of a request of this role.
RoleInv == type \in RequestStreams /\ phase \in RequestStreams \cup {"done"}

\* What RequestInput's variables are for one stream.
WrittenTo(t)  == {p \in 1..Len(wire) : IsOwnContent(p, t)}
ClosedStream(t) == \E p \in 1..Len(wire) : wire[p].rec.kind = t /\ wire[p].rec.clen = 0
ReceivedOf(t) == {p \in 1..Len(wire) : <<p, t>> \in delivered}

-----------------------------------------------------------------------------

LEMMA StreamsOfRole ==
  /\ RequestStreams = IF Role = "authorizer" THEN {"params"}
                      ELSE IF Role = "responder" THEN {"params", "in"}
                      ELSE {"params", "in", "data"}
  /\ Input!StreamSet = RequestStreams
  /\ RequestStreams \subseteq Streams
<1>1. CASE Role = "authorizer"
  BY <1>1 DEF RequestStreams, OrderOfStreams, Input!StreamSet, Streams
<1>2. CASE Role = "responder"
  <2>1. OrderOfStreams = <<"params", "in">>
    BY <1>2 DEF OrderOfStreams
  <2>2. RequestStreams = {"params", "in"}
    BY <2>1 DEF RequestStreams
  <2> QED BY <1>2, <2>2 DEF RequestStreams, Input!StreamSet, Streams
<1>3. CASE Role = "filter"
  <2>1. OrderOfStreams = <<"params", "in", "data">>
    BY <1>3 DEF OrderOfStreams
  <2>2. RequestStreams = {"params", "in", "data"}
    BY <2>1 DEF RequestStreams
  <2> QED BY <1>3, <2>2 DEF RequestStreams, Input!StreamSet, Streams
<1> QED BY <1>1, <1>2, <1>3, RoleAssumption

\* Until its end has been met, the stream being read is the current one.
LEMMA TypeIsCurrent ==
  ASSUME RoleInv, ~eos
  PROVE  Input!Current(type)
<1>1. CASE Role = "authorizer"
  <2>1. OrderOfStreams = <<"params">> /\ type = "params" /\ EndedStreams = {}
    BY <1>1, StreamsOfRole DEF OrderOfStreams, RoleInv, EndedStreams
  <2> QED BY <2>1 DEF Input!Current
<1>2. CASE Role = "responder"
  <2>1. OrderOfStreams = <<"params", "in">> /\ type \in {"params", "in"}
    BY <1>2, StreamsOfRole DEF OrderOfStreams, RoleInv
  <2>2. EndedStreams = IF type = "params" THEN {} ELSE {"params"}
    BY <2>1 DEF EndedStreams
  <2> QED BY <2>1, <2>2 DEF Input!Current
<1>3. CASE Role = "filter"
  <2>1. OrderOfStreams = <<"params", "in", "data">> /\ type \in {"params", "in", "data"}
    BY <1>3, StreamsOfRole DEF OrderOfStreams, RoleInv
  <2>2. EndedStreams = IF type = "params" THEN {}
                       ELSE IF type = "in" THEN {"params"} ELSE {"params", "in"}
    BY <2>1 DEF EndedStreams
  <2>3. CASE type = "params"
    BY <2>1, <2>2, <2>3 DEF Input!Current
  <2>4. CASE type = "in"
    BY <2>1, <2>2, <2>4 DEF Input!Current
  <2>5. CASE type = "data"
    BY <2>1, <2>2, <2>5 DEF Input!Current
  <2> QED BY <2>1, <2>3, <2>4, <2>5
<1> QED BY <1>1, <1>2, <1>3, RoleAssumption

LEMMA SameInput ==
  ASSUME wire' = wire, delivered' = delivered, EndedStreams' = EndedStreams
  PROVE  UNCHANGED Input!inputVars
BY DEF Input!inputVars, IsOwnContent, IsContent

-----------------------------------------------------------------------------
(* Each step of the reader and of the client.                              *)

\* Only three steps change what stream is being written or read.
LEMMA AlmostAllKeepStream ==
  ASSUME [Next]_vars, ~ClientEndsStream, ~ParametersRead, ~ProcessEnd
  PROVE  phase' = phase /\ type' = type /\ eos' = eos
<1> USE DEF clientVars, readerVars
<1>1. CASE Client
  BY <1>1 DEF Client, ClientPadsBegin, ClientSends, ClientSendsForeign, ClientDisconnects, Write
<1>2. CASE Reader
  BY <1>2 DEF Reader, Read, ReadFails, Content, Discard, Padding, Header, ProcessInvalid,
              ProcessDiscarded, ProcessUnknown, ProcessGetValues, ProcessContent,
              ProcessUnexpected, NestedConsume, Underflow, ValuesTruncated, ValuesUnread,
              ValuesAnswered, ValuesOverflow, AnswerFails
<1>3. CASE Application
  BY <1>3 DEF Application, Consume, Underflow, ConstructorThrows, Clear
<1>4. CASE UNCHANGED vars
  BY <1>4 DEF vars
<1> QED BY <1>1, <1>2, <1>3, <1>4 DEF Next

LEMMA RoleStep ==
  ASSUME Inv, ConformingClient, RoleInv, [Next]_vars
  PROVE  RoleInv'
<1>1. CASE phase' = phase /\ type' = type
  BY <1>1 DEF RoleInv
<1>2. CASE ClientEndsStream
  <2>1. phase \in RequestStreams /\ phase' = NextStream(phase) /\ type' = type
    BY <1>2 DEF ClientEndsStream, Write, readerVars, RoleInv
  <2> QED BY <2>1, StreamsOfRole, RoleAssumption DEF NextStream, RoleInv
<1>3. CASE ParametersRead
  BY <1>3, StreamsOfRole, RoleAssumption DEF ParametersRead, ResetReader, RoleInv, clientVars
<1>4. CASE ProcessEnd
  BY <1>4, StreamsOfRole DEF ProcessEnd, ResetReader, RoleInv, clientVars
<1>5. CASE ~(ClientEndsStream \/ ParametersRead \/ ProcessEnd)
  <2>1. phase' = phase /\ type' = type
    BY <1>5, AlmostAllKeepStream
  <2> QED BY <1>1, <2>1
<1> QED BY <1>2, <1>3, <1>4, <1>5

\* RequestInput's variables as functions.
WrittenMap  == [t \in RequestStreams |-> WrittenTo(t)]
ClosedSet   == {t \in RequestStreams : ClosedStream(t)}
ReceivedMap == [t \in RequestStreams |-> ReceivedOf(t)]

LEMMA InputActions ==
  ASSUME NEW t \in RequestStreams
  PROVE  /\ Input!ClientWrites(t) <=>
              /\ t \notin ClosedSet
              /\ WrittenMap[t] \subseteq WrittenMap'[t]
              /\ Input!OnlyAt(WrittenMap, WrittenMap', t)
              /\ \A new \in WrittenMap'[t] \ WrittenMap[t], old \in WrittenMap[t] : old < new
              /\ UNCHANGED <<ClosedSet, ReceivedMap, EndedStreams>>
         /\ Input!ClientCloses(t) <=>
              /\ ClosedSet' = ClosedSet \cup {t}
              /\ UNCHANGED <<WrittenMap, ReceivedMap, EndedStreams>>
         /\ Input!Receives(t) <=>
              /\ Input!Current(t)
              /\ ReceivedMap[t] \subseteq ReceivedMap'[t]
              /\ Input!OnlyAt(ReceivedMap, ReceivedMap', t)
              /\ ReceivedMap'[t] \subseteq WrittenMap[t]
              /\ \A old \in ReceivedMap'[t], p \in WrittenMap[t] :
                   p < old => p \in ReceivedMap'[t]
              /\ UNCHANGED <<WrittenMap, ClosedSet, EndedStreams>>
         /\ Input!ReportsEnd(t) <=>
              /\ Input!Current(t)
              /\ t \in ClosedSet /\ ReceivedMap[t] = WrittenMap[t]
              /\ EndedStreams' = EndedStreams \cup {t}
              /\ UNCHANGED <<WrittenMap, ClosedSet, ReceivedMap>>
<1> USE DEF WrittenMap, ClosedSet, ReceivedMap, WrittenTo, ClosedStream, ReceivedOf
<1>1. Input!ClientWrites(t) <=>
              /\ t \notin ClosedSet
              /\ WrittenMap[t] \subseteq WrittenMap'[t]
              /\ Input!OnlyAt(WrittenMap, WrittenMap', t)
              /\ \A new \in WrittenMap'[t] \ WrittenMap[t], old \in WrittenMap[t] : old < new
              /\ UNCHANGED <<ClosedSet, ReceivedMap, EndedStreams>>
  BY Zenon DEF Input!ClientWrites
<1>2. Input!ClientCloses(t) <=>
              /\ ClosedSet' = ClosedSet \cup {t}
              /\ UNCHANGED <<WrittenMap, ReceivedMap, EndedStreams>>
  BY Zenon DEF Input!ClientCloses
<1>3. Input!Receives(t) <=>
              /\ Input!Current(t)
              /\ ReceivedMap[t] \subseteq ReceivedMap'[t]
              /\ Input!OnlyAt(ReceivedMap, ReceivedMap', t)
              /\ ReceivedMap'[t] \subseteq WrittenMap[t]
              /\ \A old \in ReceivedMap'[t], p \in WrittenMap[t] :
                   p < old => p \in ReceivedMap'[t]
              /\ UNCHANGED <<WrittenMap, ClosedSet, EndedStreams>>
  BY Zenon DEF Input!Receives
<1>4. Input!ReportsEnd(t) <=>
              /\ Input!Current(t)
              /\ t \in ClosedSet /\ ReceivedMap[t] = WrittenMap[t]
              /\ EndedStreams' = EndedStreams \cup {t}
              /\ UNCHANGED <<WrittenMap, ClosedSet, ReceivedMap>>
  BY Zenon DEF Input!ReportsEnd
<1> HIDE DEF WrittenMap, ClosedSet, ReceivedMap, WrittenTo, ClosedStream, ReceivedOf
<1> QED BY <1>1, <1>2, <1>3, <1>4

\* A record written adds to its own stream only, and behind everything in it.
LEMMA WriteAdds ==
  ASSUME TypeOK, NEW r \in Record, r.kind = phase, Write(r), NEW t \in RequestStreams
  PROVE  /\ WrittenTo(t) \subseteq WrittenTo(t)'
         /\ t # phase => WrittenTo(t)' = WrittenTo(t) /\ (ClosedStream(t)' <=> ClosedStream(t))
         /\ \A new \in WrittenTo(t)' \ WrittenTo(t), old \in WrittenTo(t) : old < new
         /\ r.clen = 0 => WrittenTo(t)' = WrittenTo(t)
         /\ r.clen = 0 => ClosedStream(r.kind)'
         /\ r.clen # 0 => (ClosedStream(t)' <=> ClosedStream(t))
         /\ ReceivedOf(t)' = ReceivedOf(t)
         /\ EndedStreams' = EndedStreams
<1> DEFINE L == Len(wire)
           n == Size(r)
<1>1. /\ L \in Nat /\ n \in Nat \ {0} /\ Len(wire') = L + n
      /\ \A p \in 1..L : p \in 1..Len(wire') /\ wire'[p] = wire[p]
      /\ \A p \in L + 1 .. L + n : wire'[p].rec = r /\ wire'[p].off = p - L
  BY Written
<1>2. delivered' = delivered /\ EndedStreams' = EndedStreams
  BY DEF Write, readerVars, EndedStreams
<1>3. \A p \in 1..L, s \in Streams : IsOwnContent(p, s)' <=> IsOwnContent(p, s)
  BY <1>1 DEF IsOwnContent, IsContent
<1> HIDE DEF L, n
<1>4. \A p \in 1..Len(wire') : p \in 1..L \/ p \in L + 1 .. L + n
  BY <1>1
<1>5. \A p \in L + 1 .. L + n : wire'[p].rec = r /\ p > L
                                /\ (r.clen = 0 => ~IsContent(wire'[p]))
  <2> SUFFICES ASSUME NEW p \in L + 1 .. L + n
               PROVE  wire'[p].rec = r /\ p > L /\ (r.clen = 0 => ~IsContent(wire'[p]))
    OBVIOUS
  <2>1. wire'[p].rec = r /\ wire'[p].off = p - L /\ p - L \in Nat /\ p > L
    BY <1>1
  <2> QED BY <2>1, SizeAssumption DEF IsContent
<1>6. t \in Streams
  BY StreamsOfRole
<1>7. \A p \in WrittenTo(t)' : p \in WrittenTo(t) \/ (p > L /\ t = phase /\ r.clen # 0)
  BY <1>3, <1>4, <1>5, <1>6 DEF WrittenTo, L, IsOwnContent
<1>8. \A p \in WrittenTo(t) : p \in WrittenTo(t)' /\ p \in Nat /\ p <= L
  BY <1>1, <1>3, <1>6 DEF WrittenTo, L
<1>9. \A new \in WrittenTo(t)' \ WrittenTo(t), old \in WrittenTo(t) : old < new
  <2> SUFFICES ASSUME NEW new \in WrittenTo(t)' \ WrittenTo(t), NEW old \in WrittenTo(t)
               PROVE  old < new
    OBVIOUS
  <2>1. new > L /\ new \in Nat
    BY <1>7 DEF WrittenTo
  <2> QED BY <1>1, <1>8, <2>1
<1>10. ClosedStream(t) => ClosedStream(t)'
  BY <1>1 DEF ClosedStream, L
<1>11. ClosedStream(t)' => ClosedStream(t) \/ (t = phase /\ r.clen = 0)
  BY <1>1, <1>4, <1>5 DEF ClosedStream, L
<1>12. r.clen = 0 => ClosedStream(r.kind)'
  <2>1. L + 1 \in L + 1 .. L + n /\ L + 1 \in 1..Len(wire')
    BY <1>1
  <2> QED BY <1>5, <2>1 DEF ClosedStream
<1>13. ReceivedOf(t)' = ReceivedOf(t)
  <2>1. \A d \in delivered : d[1] \in 1..L
    BY DEF TypeOK, L
  <2>2. \A p : <<p, t>> \in delivered => p \in 1..L
    BY <2>1
  <2> QED BY <1>1, <1>2, <2>2 DEF ReceivedOf, L
<1>14. WrittenTo(t) \subseteq WrittenTo(t)'
  BY <1>8
<1>15. t # phase \/ r.clen = 0 => WrittenTo(t)' = WrittenTo(t)
  BY <1>7, <1>14
<1> QED BY <1>2, <1>9, <1>10, <1>11, <1>12, <1>13, <1>14, <1>15

LEMMA SendsIsWrites ==
  ASSUME Inv, RoleInv, ClientSends, NEW k, k = phase
  PROVE  Input!ClientWrites(k) /\ k \in RequestStreams
<1>1. PICK n \in 1..MaxContent, m \in 0..MaxPadding :
        k # "done" /\ Write([kind |-> k, clen |-> n, plen |-> m])
  BY DEF ClientSends
<1> DEFINE r == [kind |-> k, clen |-> n, plen |-> m]
<1>2. k \in RequestStreams /\ k \in Streams /\ r \in Record /\ r.kind = k /\ k = phase
      /\ r.clen # 0 /\ TypeOK
  BY <1>1, SizeAssumption DEF Inv, TypeInv, TypeOK, Record, RoleInv
<1> HIDE DEF r
<1>3. Write(r)
  BY <1>1 DEF r
<1>4. ~ClosedStream(k)
  <2>1. Rank(k) \in Int
    BY <1>2, RankGrows
  <2> QED BY <2>1 DEF ClosedStream, Inv, ConformingInv, Ordered
<1>5. \A t \in RequestStreams :
        /\ WrittenTo(t) \subseteq WrittenTo(t)'
        /\ t # k => WrittenTo(t)' = WrittenTo(t)
        /\ \A new \in WrittenTo(t)' \ WrittenTo(t), old \in WrittenTo(t) : old < new
        /\ ClosedStream(t)' <=> ClosedStream(t)
        /\ ReceivedOf(t)' = ReceivedOf(t)
        /\ EndedStreams' = EndedStreams
  BY <1>2, <1>3, WriteAdds
<1>6. Input!OnlyAt(WrittenMap, WrittenMap', k)
  BY <1>5, StreamsOfRole DEF Input!OnlyAt, WrittenMap
<1>7. WrittenMap[k] = WrittenTo(k) /\ WrittenMap'[k] = WrittenTo(k)'
  BY <1>2 DEF WrittenMap
<1>8. k \notin ClosedSet /\ ClosedSet' = ClosedSet
  BY <1>4, <1>5 DEF ClosedSet
<1>9. ReceivedMap' = ReceivedMap /\ EndedStreams' = EndedStreams
  BY <1>2, <1>5 DEF ReceivedMap
<1> QED BY <1>2, <1>5, <1>6, <1>7, <1>8, <1>9, InputActions

LEMMA EndsIsCloses ==
  ASSUME Inv, RoleInv, ClientEndsStream, NEW k, k = phase
  PROVE  Input!ClientCloses(k) /\ k \in RequestStreams
<1>1. PICK m \in EndPaddings :
        k # "done" /\ Write([kind |-> k, clen |-> 0, plen |-> m])
  BY DEF ClientEndsStream
<1> DEFINE r == [kind |-> k, clen |-> 0, plen |-> m]
<1>2. k \in RequestStreams /\ k \in Streams /\ r \in Record /\ r.kind = k /\ k = phase
      /\ r.clen = 0 /\ TypeOK
  BY <1>1, SizeAssumption DEF Inv, TypeInv, TypeOK, Record, RoleInv
<1> HIDE DEF r
<1>3. Write(r)
  BY <1>1 DEF r
<1>4. \A t \in RequestStreams :
        /\ WrittenTo(t)' = WrittenTo(t)
        /\ ClosedStream(k)'
        /\ t # k => (ClosedStream(t)' <=> ClosedStream(t))
        /\ ReceivedOf(t)' = ReceivedOf(t)
        /\ EndedStreams' = EndedStreams
  BY <1>2, <1>3, WriteAdds
<1>5. WrittenMap' = WrittenMap /\ ReceivedMap' = ReceivedMap /\ EndedStreams' = EndedStreams
  BY <1>2, <1>4 DEF WrittenMap, ReceivedMap
<1>6. ClosedSet' = ClosedSet \cup {k}
  BY <1>2, <1>4 DEF ClosedSet
<1> QED BY <1>2, <1>5, <1>6, InputActions

LEMMA ConsumeIsReceives ==
  ASSUME Inv, Inv', RoleInv, Consume, NEW k, k = type
  PROVE  Input!Receives(k) /\ k \in RequestStreams
<1>1. PICK n \in 1..(egptr - gptr) :
        /\ gptr' = gptr + n
        /\ delivered' = delivered \cup {<<p, type>> : p \in gptr + 1 .. gptr + n}
  BY DEF Consume
<1>2. /\ wire' = wire /\ type' = type /\ eos' = eos /\ pc = "caller" /\ ios = "good"
      /\ EndedStreams' = EndedStreams
  BY DEF Consume, clientVars, EndedStreams
<1>3. ~eos
  BY <1>1, <1>2 DEF Inv, ConformingInv, ReaderInv, Ends, AtEndOf, TypeInv, TypeOK
<1>4. k \in RequestStreams /\ k \in Streams /\ Input!Current(k)
  BY <1>3, TypeIsCurrent, StreamsOfRole DEF RoleInv
<1>5. \A t \in RequestStreams : /\ t # k => ReceivedOf(t)' = ReceivedOf(t)
                                /\ ReceivedOf(t) \subseteq ReceivedOf(t)'
                                /\ WrittenTo(t)' = WrittenTo(t)
                                /\ ClosedStream(t)' <=> ClosedStream(t)
  BY <1>1, <1>2 DEF ReceivedOf, WrittenTo, ClosedStream, IsOwnContent, IsContent
<1>6. /\ WrittenMap' = WrittenMap /\ ClosedSet' = ClosedSet
      /\ WrittenMap[k] = WrittenTo(k) /\ WrittenTo(k)' = WrittenTo(k)
      /\ ReceivedMap[k] = ReceivedOf(k) /\ ReceivedMap'[k] = ReceivedOf(k)'
      /\ ReceivedOf(k) \subseteq ReceivedOf(k)'
  BY <1>4, <1>5 DEF WrittenMap, ClosedSet, ReceivedMap
<1>7. Input!OnlyAt(ReceivedMap, ReceivedMap', k)
  BY <1>5, StreamsOfRole DEF Input!OnlyAt, ReceivedMap
<1>8. /\ gptr' \in Nat
      /\ \A p \in ReceivedOf(k)' : p \in 1..gptr' /\ p \in WrittenTo(k)
      /\ \A p \in WrittenTo(k) : p \in 1..gptr' => p \in ReceivedOf(k)'
  <2>1. (DeliveredExactly /\ DeliveredBehind /\ TypeOK)' /\ gptr' <= Len(wire') /\ gptr' \in Nat
    <3>1. (DeliveredExactly /\ DeliveredBehind)'
      BY DEF Inv, ConformingInv
    <3>2. TypeOK'
      BY DEF Inv, TypeInv
    <3>3. gptr' \in 0..fetched' /\ fetched' \in 0..Len(wire')
      BY <3>2 DEF TypeOK
    <3> QED BY <3>1, <3>2, <3>3
  <2>2. \A p \in 1..gptr' : <<p, k>> \in delivered' <=> IsOwnContent(p, k)'
    BY <1>4, <2>1 DEF DeliveredExactly
  <2>3. \A p \in ReceivedOf(k)' : p \in 1..gptr'
    <3> SUFFICES ASSUME NEW p \in 1..Len(wire'), <<p, k>> \in delivered'
                 PROVE  p \in 1..gptr'
      BY DEF ReceivedOf
    <3>1. <<p, k>>[1] <= gptr'
      BY <2>1 DEF DeliveredBehind
    <3> QED BY <2>1, <3>1
  <2>4. \A p \in 1..gptr' : p \in WrittenTo(k) <=> IsOwnContent(p, k)'
    BY <1>2, <2>1 DEF WrittenTo, IsOwnContent, IsContent
  <2>5. \A p \in 1..gptr' : p \in ReceivedOf(k)' <=> <<p, k>> \in delivered'
    BY <2>1 DEF ReceivedOf
  <2> QED BY <2>1, <2>2, <2>3, <2>4, <2>5
<1>9. \A old \in ReceivedOf(k)', p \in WrittenTo(k) : p < old => p \in ReceivedOf(k)'
  <2> SUFFICES ASSUME NEW old \in ReceivedOf(k)', NEW p \in WrittenTo(k), p < old
               PROVE  p \in 1..gptr'
    BY <1>8
  <2>1. old \in 1..gptr' /\ p \in Nat \ {0} /\ gptr' \in Nat
    BY <1>8 DEF WrittenTo
  <2> QED BY <2>1
<1> QED BY <1>2, <1>4, <1>6, <1>7, <1>8, <1>9, InputActions

LEMMA EndIsReported ==
  ASSUME Inv, RoleInv, ProcessEnd, NEW k, k = type
  PROVE  Input!ReportsEnd(k) /\ k \in RequestStreams
<1>1. /\ wire' = wire /\ delivered' = delivered /\ pc = "process"
      /\ header.kind = type /\ header.clen = 0
  BY DEF ProcessEnd, clientVars
<1>2. /\ ~eos /\ ios = "good" /\ hdrPos \in Nat /\ hdrPos + HeaderSize = gptr
      /\ header = wire[hdrPos + 1].rec
  BY <1>1, HeaderIsNext
<1>3. k \in RequestStreams /\ k \in Streams /\ Input!Current(k)
  BY <1>2, TypeIsCurrent, StreamsOfRole DEF RoleInv
<1>4. /\ hdrPos + 1 \in 1..Len(wire) /\ hdrPos + 1 <= gptr /\ gptr \in Nat
      /\ gptr <= Len(wire) /\ Len(wire) \in Nat
  BY <1>1, <1>2, SizeAssumption DEF Inv, TypeInv, TypeOK
<1>5. ClosedStream(k)
  BY <1>1, <1>2, <1>4 DEF ClosedStream
<1>6. ReceivedOf(k) = WrittenTo(k)
  <2>1. \A p \in 1..gptr : <<p, k>> \in delivered <=> IsOwnContent(p, k)
    BY <1>3 DEF Inv, ConformingInv, DeliveredExactly
  <2>2. \A p \in 1..Len(wire) : p \in 1..gptr \/ p \in gptr + 1 .. Len(wire)
    BY <1>4
  <2>3. \A p \in gptr + 1 .. Len(wire) : ~IsOwnContent(p, k) /\ <<p, k>> \notin delivered
    <3> SUFFICES ASSUME NEW p \in gptr + 1 .. Len(wire)
                 PROVE  ~IsOwnContent(p, k) /\ <<p, k>> \notin delivered
      OBVIOUS
    <3>1. p \in hdrPos + 2 .. Len(wire) /\ p > gptr
      BY <1>2, <1>4
    <3>2. wire[hdrPos + 1].rec.clen = 0 /\ wire[hdrPos + 1].rec.kind = k
      BY <1>1, <1>2
    <3>3. ~IsOwnContent(p, k)
      <4> DEFINE b == hdrPos + 1
      <4>1. b \in 1..Len(wire) /\ p \in b + 1 .. Len(wire)
        BY <1>2, <1>4, <3>1
      <4>2. wire[b].rec.clen = 0 /\ wire[b].rec.kind = k
        BY <3>2
      <4> HIDE DEF b
      <4> QED BY <4>1, <4>2 DEF Inv, ConformingInv, EndIsLast
    <3>4. <<p, k>> \in delivered => p <= gptr
      <4>1. <<p, k>> \in delivered => <<p, k>>[1] <= gptr
        BY DEF Inv, ConformingInv, DeliveredBehind
      <4> QED BY <4>1
    <3> QED BY <1>4, <3>1, <3>3, <3>4
  <2> QED BY <2>1, <2>2, <2>3 DEF ReceivedOf, WrittenTo
<1>7. EndedStreams' = EndedStreams \cup {k}
  <2>1. CASE Role = "filter" /\ type = "in"
    BY <1>2, <2>1 DEF ProcessEnd, ResetReader, EndedStreams
  <2>2. CASE ~(Role = "filter" /\ type = "in")
    BY <1>2, <2>2 DEF ProcessEnd, EndedStreams
  <2> QED BY <2>1, <2>2
<1>8. /\ WrittenMap' = WrittenMap /\ ClosedSet' = ClosedSet /\ ReceivedMap' = ReceivedMap
      /\ k \in ClosedSet /\ ReceivedMap[k] = WrittenMap[k]
  BY <1>1, <1>3, <1>5, <1>6
     DEF WrittenMap, ClosedSet, ReceivedMap, WrittenTo, ClosedStream, ReceivedOf,
         IsOwnContent, IsContent
<1> QED BY <1>3, <1>7, <1>8, InputActions

\* The remaining steps: the application sees nothing of them.
LEMMA OthersStutter ==
  ASSUME Inv, [Next]_vars,
         ~ClientSends, ~ClientEndsStream, ~Consume, ~ProcessEnd, ConformingClient
  PROVE  UNCHANGED Input!inputVars
<1>1. wire' = wire /\ delivered' = delivered
  <2> USE DEF clientVars, readerVars
  <2>1. CASE Client
    BY <2>1 DEF Client, ClientPadsBegin, ClientSendsForeign, ClientDisconnects,
                ConformingClient
  <2>2. CASE Reader
    BY <2>2 DEF Reader, Read, ReadFails, Content, Discard, Padding, Header, ProcessInvalid,
                ProcessDiscarded, ProcessUnknown, ProcessGetValues, ProcessContent,
                ProcessUnexpected, NestedConsume, Underflow, ValuesTruncated,
                ValuesUnread, ValuesAnswered, ValuesOverflow, AnswerFails
  <2>3. CASE Application
    BY <2>3 DEF Application, Underflow, ParametersRead, ConstructorThrows, Clear
  <2>4. CASE UNCHANGED vars
    BY <2>4 DEF vars
  <2> QED BY <2>1, <2>2, <2>3, <2>4 DEF Next
<1>2. EndedStreams' = EndedStreams
  <2>1. CASE ParametersRead
    <3>1. pc = "caller" /\ stage = "params" /\ ios = "eof" /\ ~Nested
      BY <2>1 DEF ParametersRead
    <3>2. type = "params" /\ eos
      BY <3>1 DEF Inv, ConformingInv, Undisturbed, ReaderInv, Ends
    <3>3. CASE Role = "authorizer"
      BY <2>1, <3>3 DEF ParametersRead, EndedStreams
    <3>4. CASE Role # "authorizer"
      BY <2>1, <3>2, <3>4 DEF ParametersRead, ResetReader, EndedStreams
    <3> QED BY <3>3, <3>4
  <2>2. CASE ~ParametersRead
    BY <2>2, AlmostAllKeepStream DEF EndedStreams
  <2> QED BY <2>1, <2>2
<1> QED BY <1>1, <1>2, SameInput

LEMMA InitImplements ==
  ASSUME Init
  PROVE  Input!Init
<1>1. Len(wire) = 0 /\ delivered = {} /\ type = "params" /\ ~eos
  BY DEF Init
<1> QED BY <1>1, StreamsOfRole DEF Input!Init, EndedStreams

LEMMA StepImplements ==
  ASSUME Inv, Inv', ConformingClient, RoleInv, [Next]_vars
  PROVE  [Input!Next]_(Input!inputVars)
<1>1. CASE ClientSends
  <2>1. \E t \in RequestStreams : Input!ClientWrites(t)
    BY <1>1, SendsIsWrites
  <2> QED BY <2>1, StreamsOfRole DEF Input!Next
<1>2. CASE ClientEndsStream
  <2>1. \E t \in RequestStreams : Input!ClientCloses(t)
    BY <1>2, EndsIsCloses
  <2> QED BY <2>1, StreamsOfRole DEF Input!Next
<1>3. CASE Consume
  <2>1. \E t \in RequestStreams : Input!Receives(t)
    BY <1>3, ConsumeIsReceives
  <2> QED BY <2>1, StreamsOfRole DEF Input!Next
<1>4. CASE ProcessEnd
  <2>1. \E t \in RequestStreams : Input!ReportsEnd(t)
    BY <1>4, EndIsReported
  <2> QED BY <2>1, StreamsOfRole DEF Input!Next
<1> QED BY <1>1, <1>2, <1>3, <1>4, OthersStutter

\* Whatever the sizes and however recv() cuts the records, the application sees the
\* streams of its request one by one, in order, whole and ended where the client
\* ended them (server_Istream, 36-54, and underflow(), 204-312).
THEOREM ReaderImplements ==
  ASSUME ConformingClient
  PROVE  Spec => ImplementsRequestInput
<1>1. Init => Inv /\ RoleInv /\ Input!Init
  <2>1. Init => RoleInv
    BY StreamsOfRole DEF Init, RoleInv
  <2> QED BY <2>1, InitInv, InitImplements
<1>2. Inv /\ RoleInv /\ [Next]_vars => (Inv /\ RoleInv)'
  BY StepInv, RoleStep
<1>3. Inv /\ Inv' /\ RoleInv /\ [Next]_vars => [Input!Next]_(Input!inputVars)
  BY StepImplements
<1> QED BY <1>1, <1>2, <1>3, PTL DEF Spec, ImplementsRequestInput, Input!Spec

=============================================================================
