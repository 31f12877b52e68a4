-------------------------- MODULE ServerConnection --------------------------
(***************************************************************************)
(* The output side of a FastCGI connection: the two server_Streambuf of     *)
(* out() and err() (src/fcgi/streambuf.cpp), and the order in which          *)
(* stack_buffers_Server_connection closes and destroys them                 *)
(* (src/fcgi/server_connection_stacked.cpp).                                *)
(*                                                                         *)
(* The k-th byte the application writes to a stream is the number k; a byte *)
(* of padding is 0.  Of the input side only what close() looks at is here.  *)
(***************************************************************************)
EXTENDS Alignment, FiniteSets, Sequences

CONSTANTS
  Role,             \* connection_->role(): "responder", "authorizer", "filter"
  BufferSize,       \* buffer_size_
  WriteSizes,       \* how many bytes the application writes at once
  MaxBytes,         \* bound: bytes it writes to each stream
  ClientViolates,   \* whether the client sends records that are no input
  RetryAfterError,  \* whether the application goes on after badbit or a failed close()
  SetsBuffers,      \* whether it calls pubsetbuf()
  SyncsInput,       \* whether it calls in().sync()
  Signals           \* whether a signal handler may interrupt send() (EINTR)

Outputs == {"err", "out"}

HeaderSize == 8                           \* sizeof(detail::Header)

\* Mutant of Room: setp() forgets the place of the header.
RoomWithHeader == BufferSize - 1

Room == BufferSize - HeaderSize - 1       \* epptr() - pbase()

ASSUME RoleAssumption == Role \in {"responder", "authorizer", "filter"}
ASSUME BufferAssumption ==                \* is_invariant_ok(), 458-459
  BufferSize \in 16..65528 /\ BufferSize % 8 = 0
ASSUME WriteAssumption == WriteSizes \subseteq Nat \ {0} /\ MaxBytes \in [Outputs -> Nat]
ASSUME SwitchAssumption ==
  {ClientViolates, RetryAfterError, SetsBuffers, SyncsInput, Signals} \subseteq BOOLEAN

VARIABLES
  put,       \* [pbase(), pptr()): the bytes of the put area
  closed,    \* is_closed(): no put area
  eos,       \* is_end_of_stream_
  endDue,    \* is_end_records_must_be_transmitted_
  consumed,  \* is_put_area_at_least_once_consumed_
  ios,       \* the ostream's state: "good", "bad"
  written,   \* how many bytes the application has written
  received,  \* the content of the stream as the client has received it
  sent,      \* the records the client has received
  conn,      \* "up", "down": the client is gone
  inType,    \* in()'s type_: "in", "data" ("params" for an Authorizer)
  inUnread,  \* whether in()'s unread_content_length_ is not 0
  inClosed,  \* in()'s is_closed()
  refused,   \* whether in() has ended the request with cant_mpx_conn
  mode,      \* "app", "flush", "close", "destroy", "members", "gone", or the end of
             \* its use: "abandoned" after a failed close(), "terminated"
  todo       \* the stream buffers still to be closed in this mode

bufferVars == <<put, closed, eos, endDue, consumed>>
inputVars  == <<inType, inUnread, inClosed, refused>>
clientVars == <<received, sent>>
vars == <<bufferVars, ios, written, clientVars, conn, inputVars, mode, todo>>

Numbers(first, n) == [i \in 1..n |-> first + i]
Zeros(n) == [i \in 1..n |-> 0]

\* A record of a stream, or the end-request record with a protocol status.
Record == [kind : Outputs, clen : 0..65535, plen : 0..255]
            \cup [kind : {"end"}, status : {"request_complete", "cant_mpx_conn"}]

EndRequest(status) == [kind |-> "end", status |-> status]

-----------------------------------------------------------------------------
(* io_->write().                                                           *)

\* All of it is sent; a client that is gone receives nothing.
Arrives(records, s, content) ==
  IF conn = "up"
    THEN /\ sent' = sent \o records
         /\ received' = [received EXCEPT ![s] = @ \o content]
    ELSE UNCHANGED clientVars

WriteThrows == conn = "down" \/ Signals

Terminate == mode' = "terminated" /\ UNCHANGED todo

\* DMITIGR_ASSERT(count == record_size) fails when the write is interrupted.
WriteIsShort == Signals /\ Terminate

-----------------------------------------------------------------------------
(* overflow(): the record made of the put area.                             *)

\* The content, its padding and the header fit the buffer (345).
PaddingFits(content) == Padding(Len(content), 8) <= Room - Len(content) + 1

\* Mutant of ContentRecord: the bytes beyond the boundary for those up to it.
ContentRecordMisaligned(s, content) ==
  [kind |-> s, clen |-> Len(content), plen |-> Len(content) % 8]

ContentRecord(s, content) ==
  [kind |-> s, clen |-> Len(content), plen |-> Padding(Len(content), 8)]

\* Mutant of ContentSent: setp() is missing.
ContentSentKeepsPut(s, content) ==
  /\ PaddingFits(content)
  /\ Arrives(<<ContentRecord(s, content)>>, s, content)
  /\ put' = [put EXCEPT ![s] = content]
  /\ consumed' = [consumed EXCEPT ![s] = TRUE]

ContentSent(s, content) ==
  /\ PaddingFits(content)
  /\ Arrives(<<ContentRecord(s, content)>>, s, content)
  /\ put' = [put EXCEPT ![s] = <<>>]
  /\ consumed' = [consumed EXCEPT ![s] = TRUE]

\* The exception leaves the padding, and ch, in the put area.
ContentThrows(s, content) ==
  /\ PaddingFits(content) /\ WriteThrows
  /\ put' = [put EXCEPT ![s] = content \o Zeros(Padding(Len(content), 8))]
  /\ UNCHANGED <<consumed, clientVars>>

ContentTerminates(content) ==
  /\ ~PaddingFits(content) \/ Signals
  /\ Terminate
  /\ UNCHANGED <<put, consumed, clientVars>>

-----------------------------------------------------------------------------
(* The application, between its calls.  It does not use a stream that it     *)
(* has closed, which is "unusable anymore" (streams.hpp, 40).               *)

Writable(s) == mode = "app" /\ ~closed[s] /\ ios[s] = "good"

\* sputc(), xsputn(): there is room in the put area.
PutBytes(s) ==
  /\ Writable(s)
  /\ \E n \in WriteSizes \cup {Room - Len(put[s])} :
       /\ n \in 1..(Room - Len(put[s])) /\ written[s] + n <= MaxBytes[s]
       /\ put' = [put EXCEPT ![s] = @ \o Numbers(written[s], n)]
       /\ written' = [written EXCEPT ![s] = @ + n]
  /\ UNCHANGED <<closed, eos, endDue, consumed, ios, clientVars, conn, inputVars,
                 mode, todo>>

\* There is none: overflow(ch) makes the record with ch as its last byte.
Overflow(s) ==
  /\ Writable(s) /\ ~eos[s] /\ ~endDue[s]
  /\ Len(put[s]) >= Room /\ written[s] < MaxBytes[s]
  /\ LET content == Append(put[s], written[s] + 1) IN
       \/ /\ ContentSent(s, content)
          /\ written' = [written EXCEPT ![s] = @ + 1]
          /\ UNCHANGED <<ios, mode, todo>>
       \/ /\ ContentThrows(s, content)
          /\ written' = [written EXCEPT ![s] = @ + 1]
          /\ ios' = [ios EXCEPT ![s] = "bad"]
          /\ UNCHANGED <<mode, todo>>
       \/ /\ ContentTerminates(content)
          /\ UNCHANGED <<written, ios>>
  /\ UNCHANGED <<closed, eos, endDue, conn, inputVars>>

\* flush(): sync() is overflow(eof).
Flush(s) ==
  /\ Writable(s) /\ ~eos[s] /\ ~endDue[s]
  /\ put[s] # <<>>
  /\ \/ ContentSent(s, put[s]) /\ UNCHANGED <<ios, mode, todo>>
     \/ /\ ContentThrows(s, put[s])
        /\ ios' = [ios EXCEPT ![s] = "bad"]
        /\ UNCHANGED <<mode, todo>>
     \/ ContentTerminates(put[s]) /\ UNCHANGED ios
  /\ UNCHANGED <<closed, eos, endDue, written, conn, inputVars>>

\* After a close() that has failed both go on to the end records.
EndingFlush(s) ==
  /\ Writable(s) /\ ~eos[s] /\ endDue[s]
  /\ \/ mode' = "flush" /\ todo' = <<s>> /\ UNCHANGED <<put, written>>
     \/ /\ Len(put[s]) = Room /\ written[s] < MaxBytes[s]
        /\ put' = [put EXCEPT ![s] = Append(@, written[s] + 1)]
        /\ written' = [written EXCEPT ![s] = @ + 1]
        /\ mode' = "flush" /\ todo' = <<s>>
     \/ /\ Len(put[s]) > Room /\ written[s] < MaxBytes[s]
        /\ Terminate
        /\ UNCHANGED <<put, written>>
  /\ UNCHANGED <<closed, eos, endDue, consumed, ios, clientVars, conn, inputVars>>

\* Behind the end of the stream both return eof().
EndedFlush(s) ==
  /\ Writable(s) /\ eos[s]
  /\ ios' = [ios EXCEPT ![s] = "bad"]
  /\ UNCHANGED <<bufferVars, written, clientVars, conn, inputVars, mode, todo>>

\* pubsetbuf() is refused when pbase() is not where setbuf() has put it, which
\* is never; pptr() goes back to pbase().
SetBuf(s) ==
  /\ SetsBuffers /\ mode = "app" /\ ~closed[s]
  /\ put' = [put EXCEPT ![s] = <<>>]
  /\ UNCHANGED <<closed, eos, endDue, consumed, ios, written, clientVars, conn,
                 inputVars, mode, todo>>

Clear(s) ==
  /\ RetryAfterError /\ mode = "app" /\ ios[s] = "bad"
  /\ ios' = [ios EXCEPT ![s] = "good"]
  /\ UNCHANGED <<bufferVars, written, clientVars, conn, inputVars, mode, todo>>

\* The application reads: records are entered and left, and a Filter comes to
\* the end of its stdin.
InputAdvances ==
  /\ mode = "app" /\ ~inClosed /\ ~refused /\ Role # "authorizer"
  /\ \/ inUnread' = ~inUnread /\ UNCHANGED inType
     \/ /\ Role = "filter" /\ inType = "in" /\ ~inUnread
        /\ inType' = "data" /\ UNCHANGED inUnread
  /\ UNCHANGED <<bufferVars, ios, written, clientVars, conn, inClosed, refused,
                 mode, todo>>

\* in().sync() is overflow(), which is not for readers (316).
SyncInput ==
  /\ SyncsInput /\ mode = "app" /\ ~inClosed /\ Role # "authorizer"
  /\ Terminate
  /\ UNCHANGED <<bufferVars, ios, written, clientVars, conn, inputVars>>

\* It reads a record that ends the request (end_request_protocol_violation).
InputRefuses ==
  /\ ClientViolates /\ mode = "app" /\ ~inClosed /\ ~refused /\ Role # "authorizer"
  /\ refused' = TRUE
  /\ inUnread' \in BOOLEAN
  /\ sent' = IF conn = "up" THEN Append(sent, EndRequest("cant_mpx_conn")) ELSE sent
  /\ UNCHANGED <<bufferVars, ios, written, received, conn, inType, inClosed, mode,
                 todo>>

-----------------------------------------------------------------------------
(* close() and the destructor.                                             *)

\* Mutants of CloseOrder: out() before err(); in() first.
CloseOrderOutFirst == <<"out", "err", "in">>
CloseOrderInFirst == <<"in", "err", "out">>

CloseOrder == <<"err", "out", "in">>

\* Connection::close()
Close ==
  /\ mode = "app"
  /\ mode' = "close" /\ todo' = CloseOrder
  /\ UNCHANGED <<bufferVars, ios, written, clientVars, conn, inputVars>>

\* ~stack_buffers_Server_connection() calls close() first.
Destroy ==
  /\ mode \in {"app", "abandoned"}
  /\ mode' = "destroy" /\ todo' = CloseOrder
  /\ UNCHANGED <<bufferVars, ios, written, clientVars, conn, inputVars>>

\* Then err_, out_ and in_ are destroyed, and each ~server_Streambuf() closes.
DestroyMembers == mode' = "members" /\ todo' = CloseOrder

AllClosed ==
  /\ todo = <<>>
  /\ \/ mode = "close" /\ mode' = "app" /\ UNCHANGED todo
     \/ mode = "destroy" /\ DestroyMembers
     \/ mode = "members" /\ mode' = "gone" /\ UNCHANGED todo
  /\ UNCHANGED <<bufferVars, ios, written, clientVars, conn, inputVars>>

\* Mutant of Throws: a destructor tries again what it cannot do.
ThrowsAgain ==
  \/ mode = "flush" /\ mode' = "app" /\ todo' = <<>>
  \/ /\ mode = "close" /\ todo' = <<>>
     /\ mode' = IF RetryAfterError THEN "app" ELSE "abandoned"
  \/ mode = "destroy" /\ DestroyMembers
  \/ mode = "members" /\ UNCHANGED <<mode, todo>>

\* close() of one stream buffer throws: to the application, out of close() in
\* the destructor, or into its own destructor, which logs it.  An ostream turns
\* what flush() throws into badbit.
Throws ==
  \/ mode = "flush" /\ mode' = "app" /\ todo' = <<>>
  \/ /\ mode = "close" /\ todo' = <<>>
     /\ mode' = IF RetryAfterError THEN "app" ELSE "abandoned"
  \/ mode = "destroy" /\ DestroyMembers
  \/ mode = "members" /\ UNCHANGED mode /\ todo' = Tail(todo)

Closing(s) ==
  /\ mode \in {"close", "destroy", "members"}
  /\ todo # <<>> /\ Head(todo) = s

AlreadyClosed(s) ==
  /\ Closing(s) /\ closed[s]
  /\ todo' = Tail(todo)
  /\ UNCHANGED <<bufferVars, ios, written, clientVars, conn, inputVars, mode>>

\* A Filter must have come to its data, or to the end of what it has entered.
MayEnd == Role # "filter" \/ inType = "data" \/ ~inUnread

RefusesToClose(s) ==
  /\ Closing(s) /\ ~closed[s] /\ ~inClosed /\ ~MayEnd
  /\ Throws
  /\ UNCHANGED <<bufferVars, ios, written, clientVars, conn, inputVars>>

\* in() must still be open (108).  Behind the end of the stream overflow() returns
\* at once, and the flag close() has set is still there (118).
FailsToClose(s) ==
  /\ Closing(s) /\ ~closed[s]
  /\ IF inClosed
       THEN UNCHANGED endDue
       ELSE MayEnd /\ eos[s] /\ endDue' = [endDue EXCEPT ![s] = TRUE]
  /\ Terminate
  /\ UNCHANGED <<put, closed, eos, consumed, ios, written, clientVars, conn, inputVars>>

\* overflow() has the end records to send.
EndsStream(s) ==
  \/ Closing(s) /\ ~closed[s] /\ ~eos[s] /\ ~inClosed /\ MayEnd
  \/ mode = "flush" /\ todo = <<s>>

IosAfterThrow(s) == IF mode = "flush" THEN [ios EXCEPT ![s] = "bad"] ELSE ios

\* The rest of the put area is sent first.
CloseContent(s) ==
  /\ EndsStream(s) /\ put[s] # <<>>
  /\ endDue' = [endDue EXCEPT ![s] = TRUE]
  /\ \/ ContentSent(s, put[s]) /\ UNCHANGED <<ios, mode, todo>>
     \/ ContentThrows(s, put[s]) /\ Throws /\ ios' = IosAfterThrow(s)
     \/ ContentTerminates(put[s]) /\ UNCHANGED ios
  /\ UNCHANGED <<closed, eos, written, conn, inputVars>>

\* Mutants of EndRecords: an unused out() goes without records as err() does; the
\* request ends before its stream.
EndRecordsIfUsed(s) ==
  IF ~consumed[s] THEN <<>>
  ELSE <<[kind |-> s, clen |-> 0, plen |-> 0]>>
         \o (IF s = "out" THEN <<EndRequest("request_complete")>> ELSE <<>>)

EndRecordsRequestFirst(s) ==
  (IF s = "out" THEN <<EndRequest("request_complete")>> ELSE <<>>)
  \o (IF s = "out" \/ consumed[s] THEN <<[kind |-> s, clen |-> 0, plen |-> 0]>> ELSE <<>>)

\* One write: the empty record, which err() does without when it has never
\* been used, and for out() the end-request record.
EndRecords(s) ==
  (IF s = "out" \/ consumed[s] THEN <<[kind |-> s, clen |-> 0, plen |-> 0]>> ELSE <<>>)
  \o (IF s = "out" THEN <<EndRequest("request_complete")>> ELSE <<>>)

CloseEnd(s) ==
  /\ EndsStream(s) /\ put[s] = <<>>
  /\ \/ /\ Arrives(EndRecords(s), s, <<>>)
        /\ endDue' = [endDue EXCEPT ![s] = FALSE]
        /\ eos' = [eos EXCEPT ![s] = TRUE]
        /\ closed' = [closed EXCEPT ![s] = mode # "flush"]
        /\ mode' = IF mode = "flush" THEN "app" ELSE mode
        /\ todo' = Tail(todo) /\ UNCHANGED ios
     \/ /\ EndRecords(s) # <<>> /\ WriteThrows
        /\ endDue' = [endDue EXCEPT ![s] = TRUE]
        /\ Throws /\ ios' = IosAfterThrow(s)
        /\ UNCHANGED <<eos, closed, clientVars>>
     \/ /\ EndRecords(s) # <<>> /\ WriteIsShort
        /\ UNCHANGED <<endDue, eos, closed, ios, clientVars>>
  /\ UNCHANGED <<put, consumed, written, conn, inputVars>>

CloseInput ==
  /\ Closing("in")
  /\ inClosed' = TRUE
  /\ todo' = Tail(todo)
  /\ UNCHANGED <<bufferVars, ios, written, clientVars, conn, inType, inUnread,
                 refused, mode>>

-----------------------------------------------------------------------------
ClientLeaves ==
  /\ conn = "up"
  /\ conn' = "down"
  /\ UNCHANGED <<bufferVars, ios, written, clientVars, inputVars, mode, todo>>

Init ==
  /\ put = [s \in Outputs |-> <<>>] /\ closed = [s \in Outputs |-> FALSE]
  /\ eos = [s \in Outputs |-> FALSE] /\ endDue = [s \in Outputs |-> FALSE]
  /\ consumed = [s \in Outputs |-> FALSE] /\ ios = [s \in Outputs |-> "good"]
  /\ written = [s \in Outputs |-> 0] /\ received = [s \in Outputs |-> <<>>]
  /\ sent = <<>> /\ conn = "up"
  /\ inType = IF Role = "authorizer" THEN "params" ELSE "in"
  /\ inUnread = FALSE /\ inClosed = FALSE /\ refused = FALSE
  /\ mode = "app" /\ todo = <<>>

Teardown ==
  \/ AllClosed \/ CloseInput
  \/ \E s \in Outputs : \/ AlreadyClosed(s) \/ RefusesToClose(s) \/ FailsToClose(s)
                        \/ CloseContent(s) \/ CloseEnd(s)

Application ==
  \/ \E s \in Outputs : \/ PutBytes(s) \/ Overflow(s) \/ Flush(s)
                        \/ EndingFlush(s) \/ EndedFlush(s) \/ SetBuf(s) \/ Clear(s)
  \/ InputAdvances \/ InputRefuses \/ SyncInput \/ Close \/ Destroy

Next == Application \/ Teardown \/ ClientLeaves

Spec == Init /\ [][Next]_vars

\* close() and the destructors run to their end once they are entered.
FairSpec == Spec /\ WF_vars(Teardown)

-----------------------------------------------------------------------------
(* Properties.                                                             *)

\* The variables have their types, and what is in the put area fits the
\* buffer behind the place of its header (setbuf(), 184-190).
TypeOK ==
  /\ put \in [Outputs -> Seq(Nat)]
  /\ \A s \in Outputs : Len(put[s]) <= BufferSize - HeaderSize
  /\ closed \in [Outputs -> BOOLEAN] /\ eos \in [Outputs -> BOOLEAN]
  /\ endDue \in [Outputs -> BOOLEAN] /\ consumed \in [Outputs -> BOOLEAN]
  /\ ios \in [Outputs -> {"good", "bad"}]
  /\ written \in [Outputs -> Nat] /\ received \in [Outputs -> Seq(Nat)]
  /\ sent \in Seq(Record) /\ conn \in {"up", "down"}
  /\ inType \in {"params", "in", "data"}
  /\ {inUnread, inClosed, refused} \subseteq BOOLEAN
  /\ mode \in {"app", "abandoned", "flush", "close", "destroy", "members",
              "gone", "terminated"}
  /\ todo \in Seq(Outputs \cup {"in"})

\* What the client has received of the response.
EndsOf(kind) ==
  {i \in 1..Len(sent) : sent[i].kind = kind /\ (kind \in Outputs => sent[i].clen = 0)}

Output ==
  INSTANCE Response WITH
    Streams <- Outputs, Last <- "out",
    ends <- [s \in Outputs |-> Cardinality(EndsOf(s))],
    finished <- Cardinality(EndsOf("end"))

\* The records, the padding, the buffers and the order in which they are closed and
\* destroyed (overflow(), 314-437; close(), 98-129; server_connection_stacked.cpp, 42-91)
\* are not to be seen in the response: each stream in order, whole when it is ended, and
\* everything ended once.
ImplementsResponse == Output!Spec

\* Whatever goes wrong, the client has no byte of the application twice or
\* before an earlier one.
InOrderOnce ==
  \A s \in Outputs : \A j \in 1..Len(received[s]) : \A i \in 1..(j - 1) :
    received[s][j] # 0 => received[s][i] < received[s][j]

IsEnd(r) == r.kind = "end" /\ r.status = "request_complete"

\* What is ended stays ended: behind the record that ends a stream there is no record of this
\* stream, and behind the end-request record of the response neither a record of a stream nor
\* a second end, not even by another attempt to close (393-405, and close() and the
\* destructors of server_connection_stacked.cpp, 42-91); only a refusal may follow.
EndRequestLast ==
  \A i \in 1..Len(sent) : \A j \in i + 1 .. Len(sent) :
    /\ sent[i].kind \in Outputs /\ sent[i].clen = 0 => sent[j].kind # sent[i].kind
    /\ IsEnd(sent[i]) => sent[j] = EndRequest("cant_mpx_conn")

\* A record is aligned, with no more padding than that takes, and fits the buffer that it
\* was made in, also when it is made of what a failed write has left (overflow(), 342-360).
RecordsAligned ==
  \A i \in 1..Len(sent) : sent[i].kind # "end" =>
    LET size == HeaderSize + sent[i].clen + sent[i].plen IN
      size % 8 = 0 /\ size <= BufferSize /\ sent[i].plen < 8

\* No DMITIGR_ASSERT fails, unless the application uses a stream it has closed (316): the
\* padding fits, writes are whole, and in() is closed last (108, 336, 345, 360, 410).
NeverTerminated == mode # "terminated"

\* An application that destroys its connection has ended its request, a Filter
\* unless it has left a record half read (105-116).
GoneMeansEnded ==
  mode = "gone" /\ conn = "up" /\ MayEnd => sent # <<>> /\ IsEnd(sent[Len(sent)])

\* A destructor ends, whatever is thrown in it.
DestructionEnds == mode \in {"destroy", "members"} ~> mode \in {"gone", "terminated"}

=============================================================================
