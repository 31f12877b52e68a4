-------------------------- MODULE StreambufReader --------------------------
(***************************************************************************)
(* The input side of server_Streambuf (src/fcgi/streambuf.cpp): how the     *)
(* records a FastCGI client writes to the connection become the parameters, *)
(* the standard input and the filter data the application reads.            *)
(*                                                                         *)
(* Positions are absolute: gptr = n says that n bytes of the connection lie *)
(* before gptr().  wire is every byte the client has written, each a token  *)
(* that names its record and its offset in it, so that "which byte is this" *)
(* needs no payload.  underflow() is cut at the one point where it can      *)
(* block, io_->read(), and at its source blocks; the client runs between.   *)
(***************************************************************************)
EXTENDS Integers, Sequences

CONSTANTS
  Role,             \* connection_->role(): "responder", "authorizer", "filter"
  HeaderSize,       \* sizeof(detail::Header)
  BufferSize,       \* buffer_size_
  MaxContent,       \* the longest content the client puts in one record
  MaxPadding,       \* the longest padding the client puts in one record
  EndPaddings,      \* the paddings it puts in records with no content
  BeginPaddings,    \* the paddings of its begin-request record
  AnswerRoom,       \* bytes of variables whose answer fits its record for certain
  Foreign,          \* kinds of records it mixes into the streams of the request
  RetryAfterError,  \* whether the application clears badbit and reads again
  Signals,          \* whether a signal handler may interrupt recv() (EINTR)
  MaxWire,          \* bound: bytes the client writes
  MaxAnswers        \* bound: records the reader writes back

Streams == {"params", "in", "data"}

\* begin: begin_request; other: another request's id; abort: this request's id
\* with a type that is no input stream; unknown, get_values: management records.
ForeignKinds == {"begin", "other", "abort", "unknown", "get_values"}

ASSUME RoleAssumption == Role \in {"responder", "authorizer", "filter"}
ASSUME SizeAssumption ==
  /\ HeaderSize \in Nat \ {0} /\ BufferSize \in Nat \ {0}
  /\ MaxContent \in Nat /\ MaxPadding \in 0..BufferSize
  /\ EndPaddings \subseteq 0..MaxPadding /\ BeginPaddings \subseteq 0..MaxPadding
  /\ AnswerRoom \in Nat /\ MaxWire \in Nat /\ MaxAnswers \in Nat
ASSUME ForeignAssumption == Foreign \subseteq ForeignKinds
ASSUME SwitchAssumption == RetryAfterError \in BOOLEAN /\ Signals \in BOOLEAN

VARIABLES
  wire,           \* the bytes written by the client
  phase,          \* the stream the client is writing, or "done"
  conn,           \* "open", "closing" (client gone), "broken" (a read failed)
  type,           \* type_
  eos,            \* is_end_of_stream_
  discard,        \* is_content_must_be_discarded_
  gptr, egptr,    \* gptr(), egptr()
  fetched,        \* buffer_end_
  unreadContent,  \* unread_content_length_
  unreadPadding,  \* unread_padding_length_
  pc,             \* where underflow() is; "caller" between its calls
  hdrPos, hdrLen, \* its header: the bytes after hdrPos, read_header_length of them
  header,         \* what they say once they are complete
  frames,         \* headers of the calls suspended in process_management_record
  stage,          \* server_Istream's constructor: "params", "serving", "failed"
  ios,            \* the istream's state: "good", "eof", "bad"
  delivered,      \* <<position, type_>> of every byte handed to the caller
  answers         \* what process_header wrote: <<kind, header position>>

clientVars == <<wire, phase, conn>>
recordVars == <<unreadContent, unreadPadding>>
headerVars == <<hdrPos, hdrLen, header>>
ownerVars  == <<stage, ios>>
readerVars == <<type, eos, discard, gptr, egptr, fetched, recordVars, pc, headerVars,
                frames, ownerVars, delivered, answers>>
vars == <<clientVars, type, eos, discard, gptr, egptr, fetched, recordVars, pc,
          headerVars, frames, ownerVars, delivered, answers>>

Least(a, b) == IF a < b THEN a ELSE b

-----------------------------------------------------------------------------
(* Records and the bytes they are made of.                                 *)

Record == [kind : Streams \cup ForeignKinds, clen : 0..MaxContent, plen : 0..MaxPadding]

Size(r) == HeaderSize + r.clen + r.plen

Token == [rec : Record, off : 1..(HeaderSize + MaxContent + MaxPadding)]

Bytes(r) == [i \in 1..Size(r) |-> [rec |-> r, off |-> i]]

IsContent(t) == HeaderSize < t.off /\ t.off <= HeaderSize + t.rec.clen
IsPadding(t) == HeaderSize + t.rec.clen < t.off

\* A header with another protocol version than 1.
Invalid == [kind |-> "invalid", clen |-> 0, plen |-> 0]

\* What a header made of the bytes from the p-th on may say.  Where no record begins it says
\* what the client pleases: it has chosen those bytes, as content or as padding, and the first
\* of them alone is checked.
Readings(p) == IF wire[p].off = 1 THEN {wire[p].rec} ELSE Record \cup {Invalid}

\* The stream that follows stream k in a request of this role.
NextStream(k) ==
  IF k = "params" /\ Role # "authorizer" THEN "in"
  ELSE IF k = "in" /\ Role = "filter" THEN "data" ELSE "done"

-----------------------------------------------------------------------------
(* The client.                                                             *)

Write(r) ==
  /\ conn = "open"
  /\ Len(wire) + Size(r) <= MaxWire
  /\ wire' = wire \o Bytes(r)
  /\ UNCHANGED <<conn, readerVars>>

\* accept() has read the begin-request record, all but its padding.
ClientPadsBegin ==
  /\ conn = "open" /\ wire = <<>>
  /\ \E m \in BeginPaddings \ {0} :
       wire' = [i \in 1..m |-> [rec |-> [kind |-> "begin", clen |-> 0, plen |-> m],
                                off |-> HeaderSize + i]]
  /\ UNCHANGED <<phase, conn, readerVars>>

ClientSends ==
  \E n \in 1..MaxContent, m \in 0..MaxPadding :
    /\ phase # "done"
    /\ Write([kind |-> phase, clen |-> n, plen |-> m])
    /\ UNCHANGED phase

ClientEndsStream ==
  \E m \in EndPaddings :
    /\ phase # "done"
    /\ Write([kind |-> phase, clen |-> 0, plen |-> m])
    /\ phase' = NextStream(phase)

ClientSendsForeign ==
  \E k \in Foreign, n \in 0..MaxContent, m \in 0..MaxPadding :
    /\ Write([kind |-> k, clen |-> n, plen |-> m])
    /\ UNCHANGED phase

ClientDisconnects ==
  /\ conn = "open"
  /\ conn' = "closing"
  /\ UNCHANGED <<wire, phase, readerVars>>

Client ==
  \/ ClientPadsBegin \/ ClientSends \/ ClientEndsStream \/ ClientSendsForeign
  \/ ClientDisconnects

-----------------------------------------------------------------------------
(* How underflow() ends.  The caller is the application's istream, or, while *)
(* process_management_record is suspended in frames, the istream over which  *)
(* Names_values reads; an istream turns an exception into badbit.            *)

Nested == frames # <<>>

\* The end of the get area reached, or an exception: the istream stops.
Returns(state) ==
  /\ pc' = IF Nested THEN "values" ELSE "caller"
  /\ ios' = IF Nested THEN ios ELSE state

\* Mutant of Loop: the connection is read before the buffer is exhausted.
LoopAlwaysReads(g) == "read"

\* `continue`: io_->read() comes first when the buffer is exhausted at g.
Loop(g) == IF g = fetched THEN "read" ELSE "body"

\* is_invariant_ok() on the lengths; DMITIGR_ASSERT terminates the process.
Asserted(n, next) == IF n <= BufferSize THEN next ELSE "terminated"

\* Mutant of ResetReader: the end of the stream before is kept.
ResetReaderKeepsEos(t) ==
  /\ type' = t
  /\ discard' = FALSE
  /\ unreadContent' = 0
  /\ unreadPadding' = 0
  /\ UNCHANGED eos

\* reset_reader(t)
ResetReader(t) ==
  /\ type' = t
  /\ eos' = FALSE
  /\ discard' = FALSE
  /\ unreadContent' = 0
  /\ unreadPadding' = 0

-----------------------------------------------------------------------------
(* The caller.                                                             *)

\* The application, or server_Istream's constructor through Names_values,
\* takes bytes from the get area.
Consume ==
  /\ pc = "caller" /\ ~Nested /\ ios = "good" /\ stage # "failed"
  /\ \E n \in 1..(egptr - gptr) :
       /\ gptr' = gptr + n
       /\ delivered' = delivered \cup {<<p, type>> : p \in gptr + 1 .. gptr + n}
  /\ UNCHANGED <<clientVars, type, eos, discard, egptr, fetched, recordVars, pc,
                 headerVars, frames, ownerVars, answers>>

\* Names_values inside process_management_record takes them.
NestedConsume ==
  /\ pc = "caller" /\ Nested
  /\ gptr < egptr
  /\ gptr' = egptr
  /\ UNCHANGED <<clientVars, type, eos, discard, egptr, fetched, recordVars, pc,
                 headerVars, frames, ownerVars, delivered, answers>>

\* Mutant of Underflow: the header is kept from one call to the next.
UnderflowKeepsHeader ==
  /\ pc = "caller" /\ gptr >= egptr
  /\ Nested \/ (ios = "good" /\ stage # "failed")
  /\ IF eos THEN Returns("eof") ELSE pc' = Loop(gptr) /\ UNCHANGED ios
  /\ UNCHANGED <<clientVars, type, eos, discard, gptr, egptr, fetched, recordVars,
                 headerVars, frames, stage, delivered, answers>>

\* The get area is empty: the istream calls underflow().
Underflow ==
  /\ pc = "caller" /\ gptr >= egptr
  /\ Nested \/ (ios = "good" /\ stage # "failed")
  /\ IF eos
       THEN Returns("eof") /\ UNCHANGED headerVars
       ELSE /\ pc' = Loop(gptr)
            /\ hdrPos' = gptr /\ hdrLen' = 0 /\ header' = Invalid
            /\ UNCHANGED ios
  /\ UNCHANGED <<clientVars, type, eos, discard, gptr, egptr, fetched, recordVars,
                 frames, stage, delivered, answers>>

\* The constructor has read the parameters up to the end of their stream.
ParametersRead ==
  /\ pc = "caller" /\ ~Nested /\ stage = "params" /\ ios = "eof"
  /\ stage' = "serving"
  /\ IF Role = "authorizer"
       THEN UNCHANGED <<type, eos, discard, recordVars, ios>>
       ELSE ios' = "good" /\ ResetReader("in")
  /\ UNCHANGED <<clientVars, gptr, egptr, fetched, pc, headerVars, frames,
                 delivered, answers>>

\* It throws: accept() gives the application no connection.
ConstructorThrows ==
  /\ pc = "caller" /\ ~Nested /\ stage = "params" /\ ios = "bad"
  /\ stage' = "failed"
  /\ UNCHANGED <<clientVars, type, eos, discard, gptr, egptr, fetched, recordVars,
                 pc, headerVars, frames, ios, delivered, answers>>

\* The application calls clear(): a Filter must, to go from stdin to data.
Clear ==
  /\ pc = "caller" /\ ~Nested /\ stage = "serving"
  /\ ios = "eof" \/ (ios = "bad" /\ RetryAfterError)
  /\ ios' = "good"
  /\ UNCHANGED <<clientVars, type, eos, discard, gptr, egptr, fetched, recordVars,
                 pc, headerVars, frames, stage, delivered, answers>>

-----------------------------------------------------------------------------
(* underflow(), block by block.                                            *)

\* io_->read(buffer_, buffer_size_) returns some of the bytes there are.
Read ==
  /\ pc = "read" /\ conn # "broken"
  /\ \E n \in 1..Least(BufferSize, Len(wire) - fetched) :
       /\ fetched' = fetched + n
       /\ gptr' = fetched /\ egptr' = fetched + n
  /\ pc' = "body"
  /\ UNCHANGED <<clientVars, type, eos, discard, recordVars, headerVars, frames,
                 ownerVars, delivered, answers>>

\* It fails, or returns 0 because the client is gone.
ReadFails ==
  /\ pc = "read"
  /\ \/ conn # "open" /\ conn' = "broken"
     \/ Signals /\ UNCHANGED conn
  /\ Returns("bad")
  /\ UNCHANGED <<wire, phase, type, eos, discard, gptr, egptr, fetched, recordVars,
                 headerVars, frames, stage, delivered, answers>>

\* Mutant of Content: the get area is all that is left of the buffer.
ContentToBufferEnd ==
  /\ pc = "body" /\ unreadContent > 0 /\ ~discard
  /\ unreadContent' = unreadContent - Least(unreadContent, fetched - gptr)
  /\ egptr' = fetched
  /\ pc' = "caller"
  /\ UNCHANGED <<clientVars, type, eos, discard, gptr, fetched, unreadPadding,
                 headerVars, frames, ownerVars, delivered, answers>>

\* Mutant of Content: the get area starts with the character before gptr().
ContentFromLast ==
  /\ pc = "body" /\ unreadContent > 0 /\ ~discard
  /\ LET count == Least(unreadContent, fetched - gptr) IN
       /\ unreadContent' = unreadContent - count
       /\ gptr' = gptr - 1 /\ egptr' = gptr + count
  /\ pc' = "caller"
  /\ UNCHANGED <<clientVars, type, eos, discard, fetched, unreadPadding,
                 headerVars, frames, ownerVars, delivered, answers>>

\* The get area becomes all the available content.
Content ==
  /\ pc = "body" /\ unreadContent > 0 /\ ~discard
  /\ LET count == Least(unreadContent, fetched - gptr) IN
       /\ unreadContent' = unreadContent - count
       /\ egptr' = gptr + count
       /\ pc' = Asserted(unreadContent - count, "caller")
  /\ UNCHANGED <<clientVars, type, eos, discard, gptr, fetched, unreadPadding,
                 headerVars, frames, ownerVars, delivered, answers>>

Discard ==
  /\ pc = "body" /\ unreadContent > 0 /\ discard
  /\ LET count == Least(unreadContent, fetched - gptr) IN
       /\ unreadContent' = unreadContent - count
       /\ gptr' = gptr + count
       /\ discard' = (count < unreadContent)
       /\ pc' = IF count < unreadContent THEN "read" ELSE "body"
  /\ UNCHANGED <<clientVars, type, eos, egptr, fetched, unreadPadding,
                 headerVars, frames, ownerVars, delivered, answers>>

Padding ==
  /\ pc = "body" /\ unreadContent = 0 /\ unreadPadding > 0
  /\ LET count == Least(unreadPadding, fetched - gptr) IN
       /\ unreadPadding' = unreadPadding - count
       /\ gptr' = gptr + count
       /\ pc' = IF count < unreadPadding THEN "read" ELSE "body"
  /\ UNCHANGED <<clientVars, type, eos, discard, egptr, fetched, unreadContent,
                 headerVars, frames, ownerVars, delivered, answers>>

\* Mutant of Header: it is taken whole, however little has come.
HeaderUnbounded ==
  /\ pc = "body" /\ unreadContent = 0 /\ unreadPadding = 0
  /\ hdrPos' = gptr
  /\ hdrLen' = HeaderSize
  /\ header' \in Readings(hdrPos' + 1)
  /\ gptr' = gptr + HeaderSize
  /\ pc' = "process"
  /\ UNCHANGED <<clientVars, type, eos, discard, egptr, fetched, recordVars,
                 frames, ownerVars, delivered, answers>>

\* Mutant of Header: it is processed before all of it has come.
HeaderIncomplete ==
  /\ pc = "body" /\ unreadContent = 0 /\ unreadPadding = 0
  /\ LET count == Least(HeaderSize - hdrLen, fetched - gptr) IN
       /\ hdrPos' = IF hdrLen = 0 THEN gptr ELSE hdrPos
       /\ hdrLen' = hdrLen + count
       /\ gptr' = gptr + count
       /\ header' \in IF hdrLen = HeaderSize THEN {header} ELSE Readings(hdrPos' + 1)
  /\ pc' = "process"
  /\ UNCHANGED <<clientVars, type, eos, discard, egptr, fetched, recordVars,
                 frames, ownerVars, delivered, answers>>

\* A header kept from the previous turn of the loop is complete already.
Header ==
  /\ pc = "body" /\ unreadContent = 0 /\ unreadPadding = 0
  /\ LET count == Least(HeaderSize - hdrLen, fetched - gptr) IN
       /\ hdrPos' = IF hdrLen = 0 THEN gptr ELSE hdrPos
       /\ hdrLen' = hdrLen + count
       /\ gptr' = gptr + count
       /\ IF hdrLen + count < HeaderSize
            THEN pc' = "read" /\ UNCHANGED header
            ELSE /\ pc' = "process"
                 /\ header' \in IF count = 0 THEN {header} ELSE Readings(hdrPos' + 1)
  /\ UNCHANGED <<clientVars, type, eos, discard, egptr, fetched, recordVars,
                 frames, ownerVars, delivered, answers>>

-----------------------------------------------------------------------------
(* process_header() and what underflow() does with its result.  `header` is *)
(* not cleared before `continue`: Header then finds it complete.            *)

\* header.check_validity()
Valid == header # Invalid

Answer(kind, at) ==
  /\ Len(answers) < MaxAnswers
  /\ answers' = Append(answers, [kind |-> kind, at |-> at])

\* Mutant of Enters: the length of the record is taken for that of its content.
EntersWholeRecord ==
  /\ egptr' = gptr
  /\ unreadContent' = Size(header)
  /\ unreadPadding' = header.plen

\* setg(gptr(), gptr(), gptr()), and the lengths of the record.
Enters ==
  /\ egptr' = gptr
  /\ unreadContent' = header.clen
  /\ unreadPadding' = header.plen

\* It throws.
ProcessInvalid ==
  /\ pc = "process" /\ ~Valid
  /\ egptr' = gptr
  /\ Returns("bad")
  /\ UNCHANGED <<clientVars, type, eos, discard, gptr, fetched, recordVars,
                 headerVars, frames, stage, delivered, answers>>

\* Mutant of ProcessDiscarded: is_content_must_be_discarded_ is not set.
ProcessDiscardedUnmarked ==
  /\ pc = "process" /\ Valid
  /\ \/ header.kind = "begin" /\ Answer("end_request", hdrPos)
     \/ header.kind = "other" /\ UNCHANGED answers
  /\ Enters
  /\ pc' = Asserted(header.clen, Loop(gptr))
  /\ UNCHANGED <<clientVars, type, eos, discard, gptr, fetched, headerVars, frames,
                 ownerVars, delivered>>

\* Process_header_result::content_must_be_discarded
ProcessDiscarded ==
  /\ pc = "process" /\ Valid
  /\ \/ header.kind = "begin" /\ Answer("end_request", hdrPos)
     \/ header.kind = "other" /\ UNCHANGED answers
  /\ Enters
  /\ discard' = TRUE
  /\ pc' = Asserted(header.clen, Loop(gptr))
  /\ UNCHANGED <<clientVars, type, eos, gptr, fetched, headerVars, frames,
                 ownerVars, delivered>>

\* Process_header_result::management_processed of a record that is no get_values
ProcessUnknown ==
  /\ pc = "process" /\ Valid
  /\ header.kind = "unknown"
  /\ Answer("unknown_type", hdrPos)
  /\ Enters
  /\ pc' = Asserted(header.clen, Loop(gptr))
  /\ UNCHANGED <<clientVars, type, eos, discard, gptr, fetched, headerVars, frames,
                 ownerVars, delivered>>

\* get_values: Names_values starts to read from this very stream buffer.
ProcessGetValues ==
  /\ pc = "process" /\ Valid
  /\ header.kind = "get_values"
  /\ Enters
  /\ frames' = <<[pos |-> hdrPos, len |-> hdrLen, header |-> header]>> \o frames
  /\ pc' = "caller"
  /\ UNCHANGED <<clientVars, type, eos, discard, gptr, fetched, headerVars,
                 ownerVars, delivered, answers>>

\* Process_header_result::content_must_be_consumed, with content
ProcessContent ==
  /\ pc = "process" /\ Valid
  /\ header.kind = type /\ header.clen > 0
  /\ Enters
  /\ pc' = Asserted(header.clen, Loop(gptr))
  /\ UNCHANGED <<clientVars, type, eos, discard, gptr, fetched, headerVars, frames,
                 ownerVars, delivered, answers>>

\* Mutant of ProcessEnd: any record of the stream ends it.
ProcessEndAnyRecord ==
  /\ pc = "process" /\ Valid
  /\ header.kind = type
  /\ egptr' = gptr
  /\ IF Role = "filter" /\ type = "in"
       THEN ResetReader("data")
       ELSE /\ eos' = TRUE
            /\ unreadContent' = 0
            /\ unreadPadding' = header.plen
            /\ UNCHANGED <<type, discard>>
  /\ Returns("eof")
  /\ UNCHANGED <<clientVars, gptr, fetched, headerVars, frames, stage, delivered,
                 answers>>

\* Without: the end of the stream; a Filter goes from stdin to data.
ProcessEnd ==
  /\ pc = "process" /\ Valid
  /\ header.kind = type /\ header.clen = 0
  /\ egptr' = gptr
  /\ IF Role = "filter" /\ type = "in"
       THEN ResetReader("data")
       ELSE /\ eos' = TRUE
            /\ unreadContent' = 0
            /\ unreadPadding' = header.plen
            /\ UNCHANGED <<type, discard>>
  /\ Returns("eof")
  /\ UNCHANGED <<clientVars, gptr, fetched, headerVars, frames, stage, delivered,
                 answers>>

\* A record of this request that does not belong to the current stream.
ProcessUnexpected ==
  /\ pc = "process" /\ Valid
  /\ header.kind \in (Streams \ {type}) \cup {"abort"}
  /\ Answer("end_request", hdrPos)
  /\ Enters
  /\ Returns("bad")
  /\ UNCHANGED <<clientVars, type, eos, discard, gptr, fetched, headerVars, frames,
                 stage, delivered>>

\* Names_values has come to the end of the stream, or to an exception.
LeavesFrame ==
  /\ frames' = Tail(frames)
  /\ hdrPos' = Head(frames).pos
  /\ hdrLen' = Head(frames).len
  /\ header' = Head(frames).header

\* Returns to the caller of the call that is left, which may be nested too.
ThrowsFromFrame ==
  /\ LeavesFrame
  /\ pc' = IF Len(frames) > 1 THEN "values" ELSE "caller"
  /\ ios' = IF Len(frames) > 1 THEN ios ELSE "bad"

\* It throws: the bytes it has read end within a name or a value.
ValuesTruncated ==
  /\ pc = "values" /\ gptr > Head(frames).pos + HeaderSize
  /\ ThrowsFromFrame
  /\ UNCHANGED <<clientVars, type, eos, discard, gptr, egptr, fetched, recordVars,
                 stage, delivered, answers>>

\* Content is left: end_request_protocol_violation().
ValuesUnread ==
  /\ pc = "values" /\ unreadContent > 0
  /\ Answer("end_request", Head(frames).pos)
  /\ ThrowsFromFrame
  /\ UNCHANGED <<clientVars, type, eos, discard, gptr, egptr, fetched, recordVars,
                 stage, delivered>>

ValuesAnswered ==
  /\ pc = "values" /\ unreadContent = 0
  /\ Answer("get_values_result", Head(frames).pos)
  /\ LeavesFrame
  /\ pc' = IF gptr > egptr THEN "terminated" ELSE Loop(gptr)
  /\ UNCHANGED <<clientVars, type, eos, discard, gptr, egptr, fetched, recordVars,
                 ownerVars, delivered>>

\* The answer outgrows its record, as when a variable is asked for again and again: the
\* assertion at 590 fails.
ValuesOverflow ==
  /\ pc = "values" /\ unreadContent = 0
  /\ gptr - (Head(frames).pos + HeaderSize) > AnswerRoom
  /\ pc' = "terminated"
  /\ UNCHANGED <<clientVars, type, eos, discard, gptr, egptr, fetched, recordVars,
                 headerVars, frames, ownerVars, delivered, answers>>

\* io_->write() of one of these answers throws: the client is gone.
AnswerFails ==
  /\ conn # "open"
  /\ \/ /\ pc = "process" /\ Valid
        /\ header.kind \in ((Streams \ {type}) \cup ForeignKinds)
                                   \ {"other", "get_values"}
        /\ Enters
        /\ Returns("bad")
        /\ UNCHANGED <<headerVars, frames>>
     \/ /\ pc = "values"
        /\ ThrowsFromFrame
        /\ UNCHANGED <<egptr, recordVars>>
  /\ UNCHANGED <<clientVars, type, eos, discard, gptr, fetched, stage, delivered,
                 answers>>

-----------------------------------------------------------------------------
Init ==
  /\ wire = <<>> /\ phase = "params" /\ conn = "open"
  /\ type = "params" /\ eos = FALSE /\ discard = FALSE
  /\ gptr = 0 /\ egptr = 0 /\ fetched = 0
  /\ unreadContent = 0 /\ unreadPadding = 0
  /\ pc = "caller" /\ hdrPos = 0 /\ hdrLen = 0 /\ header = Invalid /\ frames = <<>>
  /\ stage = "params" /\ ios = "good"
  /\ delivered = {} /\ answers = <<>>

\* The steps the thread that runs underflow() takes by itself.
Reader ==
  \/ Read \/ ReadFails \/ Content \/ Discard \/ Padding \/ Header
  \/ ProcessInvalid \/ ProcessDiscarded \/ ProcessUnknown \/ ProcessGetValues
  \/ ProcessContent \/ ProcessEnd \/ ProcessUnexpected
  \/ NestedConsume \/ (Nested /\ Underflow)
  \/ ValuesTruncated \/ ValuesUnread \/ ValuesAnswered
  \/ ValuesOverflow \/ AnswerFails

Application ==
  \/ Consume \/ (~Nested /\ Underflow)
  \/ ParametersRead \/ ConstructorThrows \/ Clear

Next == Client \/ Reader \/ Application

Spec == Init /\ [][Next]_vars

\* A thread inside underflow() is scheduled, and recv() returns what has come.
FairSpec == Spec /\ WF_vars(Reader)

-----------------------------------------------------------------------------
(* Properties.                                                             *)

\* The variables have their types; between and during calls no position lies
\* beyond the bytes fetched from the connection.
TypeOK ==
  /\ wire \in Seq(Token) /\ phase \in Streams \cup {"done"}
  /\ conn \in {"open", "closing", "broken"}
  /\ type \in Streams /\ eos \in BOOLEAN /\ discard \in BOOLEAN
  /\ gptr \in 0..fetched /\ egptr \in 0..fetched /\ fetched \in 0..Len(wire)
  /\ unreadContent \in 0..MaxContent /\ unreadPadding \in 0..MaxPadding
  /\ pc \in {"caller", "read", "body", "process", "values", "terminated"}
  /\ hdrPos \in 0..fetched /\ hdrLen \in 0..HeaderSize /\ header \in Record \cup {Invalid}
  /\ frames \in Seq([pos : Nat, len : 0..HeaderSize, header : Record])
  /\ stage \in {"params", "serving", "failed"} /\ ios \in {"good", "eof", "bad"}
  /\ delivered \subseteq (1..Len(wire)) \X Streams
  /\ answers \in Seq([kind : {"end_request", "unknown_type", "get_values_result"},
                      at : Nat])

\* The client keeps to one request, its records fit the buffer whole and the
\* records that end a stream, or begin the request, have no padding.
ConformingClient ==
  /\ Foreign = {}
  /\ MaxContent <= BufferSize
  /\ EndPaddings = {0} /\ BeginPaddings = {0}
  /\ ~RetryAfterError /\ ~Signals

IsOwnContent(p, t) == wire[p].rec.kind = t /\ IsContent(wire[p])

\* What the caller has been handed are the content bytes of this request that
\* lie before gptr(), each under the stream its record belongs to: none is
\* lost, none is a header, padding or another stream's, however recv() cuts
\* the records (underflow(), 204-312).
DeliveredExactly ==
  \A p \in 1..gptr, t \in Streams : <<p, t>> \in delivered <=> IsOwnContent(p, t)

\* Padding that nobody skips: accept() leaves that of the begin-request record, whose header
\* it has read (listener.cpp, 65-73), and reset_reader() forgets that of the record that ends
\* a stream (652).
IsLeft(p) ==
  /\ p \in 1..Len(wire) /\ IsPadding(wire[p])
  /\ wire[p].off > p \/ (wire[p].rec.kind \in Streams /\ wire[p].rec.clen = 0)

\* Only content of this request reaches the caller under its own stream, and content of other
\* requests never does, whatever records the client mixes in (process_header(), 621-632),
\* unless a padding lies before it that nobody skips: bytes of it are taken for a header, and
\* what they announce is handed over.  Management records are another matter: see
\* ManagementNotDelivered.
OnlyOwnRequest ==
  \A d \in delivered :
    \/ IsOwnContent(d[1], d[2]) \/ wire[d[1]].rec.kind \in {"unknown", "get_values"}
    \/ \E p \in 1..(d[1] - 1) : IsLeft(p)

\* The content of a management record is never handed to the application as
\* its input: process_header() "responds with get-values-result or unknown-type
\* record" to it (503-504).
ManagementNotDelivered ==
  \A d \in delivered : wire[d[1]].rec.kind \notin {"unknown", "get_values"}

\* The stream that eof has just been reported for: a Filter's streambuf has
\* gone on to data by then (298-300).
EndedStream == IF eos THEN type ELSE "in"

\* eof is reported for a stream only when the client has ended it and every
\* byte of it has been handed over (set_end_of_stream, 279-284, 297-302).
EofExact ==
  pc = "caller" /\ ios = "eof" /\ ~Nested =>
    /\ \E p \in 1..gptr : wire[p].rec.kind = EndedStream /\ wire[p].rec.clen = 0
    /\ \A p \in 1..Len(wire) :
         IsOwnContent(p, EndedStream) => <<p, EndedStream>> \in delivered

\* As long as the client is there no read fails, and none of its records is
\* refused (check_validity(), 525, and end_request_protocol_violation, 632).
NeverRefused == conn = "open" => ios # "bad" /\ answers = <<>>

\* No DMITIGR_ASSERT of the stream buffer fails (234, 634).
NeverTerminated == pc # "terminated"

\* What the caller takes lies behind everything it has been handed before, also
\* when calls have failed in between: no byte is handed over twice, and none
\* after a later one (the get area that underflow(), 204-312, sets up).
InOrderOnce ==
  [][Consume => \A d \in delivered : d[1] <= gptr]_vars

\* Every suspended underflow() waits for a get_values record that lies behind
\* those of the calls it was made from: the depth of the recursion through
\* Names_values (561-565) is bounded by the headers the client has sent.
RecursionConsumes ==
  \A i \in 1..Len(frames) :
    /\ frames[i].pos + HeaderSize <= gptr
    /\ \A j \in 1..(i - 1) : frames[i].pos + HeaderSize <= frames[j].pos

\* A call of underflow() returns once the client has written all its records
\* or is gone: it never waits for bytes that will not come.
CallReturns ==
  (pc # "caller" /\ (phase = "done" \/ conn # "open")) ~> (pc = "caller")

-----------------------------------------------------------------------------
(* The reader implements RequestInput for a conforming client.             *)

OrderOfStreams ==
  CASE Role = "authorizer" -> <<"params">>
    [] Role = "responder"  -> <<"params", "in">>
    [] Role = "filter"     -> <<"params", "in", "data">>

RequestStreams == {OrderOfStreams[i] : i \in DOMAIN OrderOfStreams}

EndedStreams ==
  (IF type # "params" THEN {"params"} ELSE {}) \cup
  (IF type = "data" THEN {"in"} ELSE {}) \cup (IF eos THEN {type} ELSE {})

Input == INSTANCE RequestInput WITH
  Order    <- OrderOfStreams,
  written  <- [t \in RequestStreams |-> {p \in 1..Len(wire) : IsOwnContent(p, t)}],
  closed   <- {t \in RequestStreams : \E p \in 1..Len(wire) :
                                        wire[p].rec.kind = t /\ wire[p].rec.clen = 0},
  received <- [t \in RequestStreams |-> {p \in 1..Len(wire) : <<p, t>> \in delivered}],
  ended    <- EndedStreams

\* Behind recv(), records and the buffer the application sees the streams of
\* its request one by one, in order, whole, and ended where the client ended
\* them (server_Istream, 36-54, and underflow(), 204-312).
ImplementsRequestInput == Input!Spec

=============================================================================
